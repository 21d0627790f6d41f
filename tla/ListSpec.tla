------------------------------ MODULE ListSpec ------------------------------
(***************************************************************************)
(* What concurrent_list promises its clients, one operation at a time: an  *)
(* ordered list where add appends, take removes the first element, remove  *)
(* removes the first occurrence of an element and remove_all removes its   *)
(* occurrences one by one.  An add to a list at its capacity fails the     *)
(* test.  out records what each client saw: the elements it added, took or *)
(* removed and what remove answered.                                       *)
(***************************************************************************)
EXTENDS Naturals, Sequences, SequencesExt

CONSTANTS
  Threads,    \* the clients
  Elems,      \* the elements they add and remove
  Tests       \* the lists to check: records with the constructor's
              \* arguments init and the capacity (0: unbounded)

VARIABLES contents, capacity, out, failed

vars == <<contents, capacity, out, failed>>

Init ==
  /\ \E x \in Tests : contents = x.init /\ capacity = x.capacity
  /\ out = [t \in Threads |-> <<>>]
  /\ failed = FALSE

Emit(t, o) == out' = [out EXCEPT ![t] = Append(@, o)]

AddLast(t, e) ==
  /\ ~failed /\ (capacity = 0 \/ Len(contents) # capacity)
  /\ contents' = Append(contents, e) /\ Emit(t, <<"add", e>>)
  /\ UNCHANGED failed

Overflow ==
  /\ ~failed /\ capacity > 0 /\ Len(contents) = capacity
  /\ failed' = TRUE /\ UNCHANGED <<contents, out>>

TakeFirst(t) ==
  /\ ~failed /\ contents # <<>>
  /\ contents' = Tail(contents) /\ Emit(t, <<"take", Head(contents)>>)
  /\ UNCHANGED failed

RemoveFirstOf(t, e) ==
  /\ ~failed
  /\ IF Contains(contents, e)
     THEN contents' = RemoveFirst(contents, e) /\ Emit(t, <<"remove", TRUE>>)
     ELSE UNCHANGED contents /\ Emit(t, <<"remove", FALSE>>)
  /\ UNCHANGED failed

RemoveOne(t, e) ==
  /\ ~failed
  /\ \E i \in DOMAIN contents :
       contents[i] = e /\ contents' = RemoveAt(contents, i)
  /\ Emit(t, <<"removed", e>>)
  /\ UNCHANGED failed

Next ==
  /\ UNCHANGED capacity
  /\ \/ Overflow
     \/ \E t \in Threads :
          \/ TakeFirst(t)
          \/ \E e \in Elems : AddLast(t, e) \/ RemoveFirstOf(t, e)
                            \/ RemoveOne(t, e)

Spec == Init /\ [][Next]_vars

=============================================================================
