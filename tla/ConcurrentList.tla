--------------------------- MODULE ConcurrentList ---------------------------
(***************************************************************************)
(* concurrent_list.py, the subject of the list tests, driven by logical    *)
(* threads.  A thread runs uninterrupted between two coroutine.transfer    *)
(* calls, so each action below is one such segment: the code from where   *)
(* the thread resumed up to its next yield label.  The explorer may resume *)
(* any thread at a yield, so every interleaving of segments is allowed.    *)
(*                                                                         *)
(* The nodes are numbered in the order they are created; node 0 is the    *)
(* sentinel the constructor makes.  Each client runs a sequence of calls.  *)
(***************************************************************************)
EXTENDS Naturals, Sequences, SequencesExt, FiniteSets, FiniteSetsExt

CONSTANTS
  Threads,    \* the client threads
  Elems,      \* the elements they add and remove
  Tests,      \* the tests to check, records [init, calls, capacity]:
              \* concurrent_list(*init), self.capacity (0: unbounded), and
              \* calls[t], the calls thread t makes, records [op, arg]
  Nil         \* Python None

ASSUME Nil \notin Nat \cup Elems
ASSUME \A x \in Tests : \A t \in Threads : \A i \in DOMAIN x.calls[t] :
         x.calls[t][i].op \in {"add", "take", "remove", "remove_all", "foreach"}

NumAdds(x) == MapThenSumSet(LAMBDA t : Len(SelectSeq(x.calls[t],
                                                     LAMBDA c : c.op = "add")),
                            Threads)

\* Every node any of the tests creates.
Nodes == 0 .. Max({Len(x.init) + NumAdds(x) : x \in Tests})

VARIABLES
  test,              \* the test being run (chosen once)
  nxt, elt, marked,  \* node.next, node.elt, node.marked
  head, tail,        \* self.head, self.tail
  alloc,             \* the last node created
  opi,               \* opi[t]: the call thread t is in
  loc,               \* loc[t]: "call", or the yield label t resumes from
  lnode, lnn, num,   \* the locals node, nn and num_removed of a call
  out,               \* history: what each call returned, in ListSpec terms
  seen,              \* history: the elements foreach passed to f
  failed             \* an exception ended the test

listVars == <<nxt, elt, marked, head, tail, alloc>>
localVars == <<lnode, lnn, num>>
vars == <<test, nxt, elt, marked, head, tail, alloc, opi, loc, lnode, lnn, num,
          out, seen, failed>>

\* The nodes from n on, following next.
RECURSIVE Chain(_)
Chain(n) == IF n = Nil THEN <<>> ELSE <<n>> \o Chain(nxt[n])

\* size(): the nodes after head, marked or not.
ListSize == Len(Chain(nxt[head]))

\* contents(): the elements of the unmarked nodes after head.
Contents ==
  LET ns == SelectSeq(Chain(nxt[head]), LAMBDA n : ~marked[n])
  IN  [i \in 1 .. Len(ns) |-> elt[ns[i]]]

InitElems == test.init
Calls     == test.calls
Capacity  == test.capacity

Call(t) == Calls[t][opi[t]]

Active(t) == ~failed /\ opi[t] <= Len(Calls[t])

Emit(t, o) == out' = [out EXCEPT ![t] = Append(@, o)]

Resume(t, label) == loc' = [loc EXCEPT ![t] = label]

\* concurrent_list(*args): the sentinel, then add(n) for each argument
\* (from Main, where the transfers return at once and capacity is 0).
Init ==
  /\ test \in Tests
  /\ nxt = [i \in Nodes |-> IF i < Len(InitElems) THEN i + 1 ELSE Nil]
  /\ elt = [i \in Nodes |-> IF i \in 1 .. Len(InitElems) THEN InitElems[i]
                                                      ELSE Nil]
  /\ marked = [i \in Nodes |-> FALSE]
  /\ head = 0 /\ tail = Len(InitElems) /\ alloc = Len(InitElems)
  /\ opi = [t \in Threads |-> 1] /\ loc = [t \in Threads |-> "call"]
  /\ lnode = [t \in Threads |-> Nil] /\ lnn = [t \in Threads |-> Nil]
  /\ num = [t \in Threads |-> 0]
  /\ out = [t \in Threads |-> <<>>] /\ seen = [t \in Threads |-> <<>>]
  /\ failed = FALSE

\* add: the first segment is only the yield "add_1".
Add1(t) ==
  /\ Active(t) /\ loc[t] = "call" /\ Call(t).op = "add"
  /\ Resume(t, "add_1")
  /\ UNCHANGED <<listVars, opi, localVars, out, seen, failed>>

\* Mutant: the capacity check is dropped.
AddLinkNoCheck(t) ==
  /\ Active(t) /\ loc[t] = "add_1"
  /\ LET n == alloc + 1 IN
     /\ alloc' = n /\ elt' = [elt EXCEPT ![n] = Call(t).arg]
     /\ nxt' = [nxt EXCEPT ![tail] = n] /\ tail' = n
     /\ Resume(t, "add_2") /\ Emit(t, <<"add", Call(t).arg>>)
     /\ UNCHANGED <<marked, head, failed>>
  /\ UNCHANGED <<opi, localVars, seen>>

\* Mutant: the new node is linked but self.tail is not moved to it.
AddLinkKeepTail(t) ==
  /\ Active(t) /\ loc[t] = "add_1"
  /\ IF Capacity > 0 /\ ListSize = Capacity
     THEN failed' = TRUE /\ UNCHANGED <<listVars, loc, out>>
     ELSE LET n == alloc + 1 IN
          /\ alloc' = n /\ elt' = [elt EXCEPT ![n] = Call(t).arg]
          /\ nxt' = [nxt EXCEPT ![tail] = n]
          /\ Resume(t, "add_2") /\ Emit(t, <<"add", Call(t).arg>>)
          /\ UNCHANGED <<marked, head, tail, failed>>
  /\ UNCHANGED <<opi, localVars, seen>>

\* add after "add_1": the capacity check, a new node linked after tail,
\* then the yield "add_2".
AddLink(t) ==
  /\ Active(t) /\ loc[t] = "add_1"
  /\ IF Capacity > 0 /\ ListSize = Capacity
     THEN failed' = TRUE /\ UNCHANGED <<listVars, loc, out>>
     ELSE LET n == alloc + 1 IN
          /\ alloc' = n /\ elt' = [elt EXCEPT ![n] = Call(t).arg]
          /\ nxt' = [nxt EXCEPT ![tail] = n] /\ tail' = n
          /\ Resume(t, "add_2") /\ Emit(t, <<"add", Call(t).arg>>)
          /\ UNCHANGED <<marked, head, failed>>
  /\ UNCHANGED <<opi, localVars, seen>>

\* Mutant: the sentinel's element is taken instead of the first node's.
TakeSentinel(t) ==
  /\ Active(t) /\ loc[t] \in {"call", "take_1"} /\ Call(t).op = "take"
  /\ CASE ListSize = 0 ->
            Resume(t, "take_1") /\ UNCHANGED <<head, out, failed>>
       [] head = tail ->
            failed' = TRUE /\ UNCHANGED <<head, loc, out>>
       [] OTHER ->
            /\ head' = nxt[head] /\ Resume(t, "take_2")
            /\ Emit(t, <<"take", elt[head]>>) /\ UNCHANGED failed
  /\ UNCHANGED <<nxt, elt, marked, tail, alloc, opi, localVars, seen>>

\* take: while is_empty() yield "take_1"; then assert head != tail, move
\* head to the first node, whose element is returned after "take_2".
TakeStep(t) ==
  /\ Active(t) /\ loc[t] \in {"call", "take_1"} /\ Call(t).op = "take"
  /\ CASE ListSize = 0 ->
            Resume(t, "take_1") /\ UNCHANGED <<head, out, failed>>
       [] head = tail ->
            failed' = TRUE /\ UNCHANGED <<head, loc, out>>
       [] OTHER ->
            /\ head' = nxt[head] /\ Resume(t, "take_2")
            /\ Emit(t, <<"take", elt[nxt[head]]>>) /\ UNCHANGED failed
  /\ UNCHANGED <<nxt, elt, marked, tail, alloc, opi, localVars, seen>>

\* The walk of remove and remove_all: from node and its successor nn, the
\* first nn (and its predecessor) holding e, or nn = Nil.
RECURSIVE FindFrom(_, _, _)
FindFrom(node, nn, e) ==
  IF nn = Nil \/ elt[nn] = e THEN <<node, nn>> ELSE FindFrom(nn, nxt[nn], e)

\* Mutant: tail is not moved back when the last node is unlinked.
UnlinkKeepTail(node, nn) ==
  /\ marked' = [marked EXCEPT ![nn] = TRUE]
  /\ nxt' = [nxt EXCEPT ![node] = nxt[nn]]
  /\ UNCHANGED tail

\* nn.marked = True; node.next = nn.next; if nn == self.tail: tail = node.
Unlink(node, nn) ==
  /\ marked' = [marked EXCEPT ![nn] = TRUE]
  /\ nxt' = [nxt EXCEPT ![node] = nxt[nn]]
  /\ tail' = IF nn = tail THEN node ELSE tail

\* remove(elt): the whole walk and the unlink, then "remove_1" (found) or
\* "remove_2".
RemoveStep(t) ==
  /\ Active(t) /\ loc[t] = "call" /\ Call(t).op = "remove"
  /\ LET f == FindFrom(head, nxt[head], Call(t).arg) IN
     IF f[2] # Nil
     THEN Unlink(f[1], f[2]) /\ Resume(t, "remove_1")
          /\ Emit(t, <<"remove", TRUE>>)
     ELSE UNCHANGED <<marked, nxt, tail>> /\ Resume(t, "remove_2")
          /\ Emit(t, <<"remove", FALSE>>)
  /\ UNCHANGED <<elt, head, alloc, opi, localVars, seen, failed>>

(***************************************************************************)
(* remove_all(elt), one segment: from the node and nn it started with (or  *)
(* kept across "remove_all_1"), walk to the next node holding elt, unlink  *)
(* it and yield "remove_all_1" keeping node and nn = nn.next; if it was    *)
(* the tail, break.  At the end of the list, yield "remove_all_2".         *)
(***************************************************************************)
RemoveAllStep(t) ==
  /\ Active(t) /\ loc[t] \in {"call", "remove_all_1"}
  /\ Call(t).op = "remove_all"
  /\ LET e     == Call(t).arg
         start == IF loc[t] = "call" THEN <<head, nxt[head], 0>>
                  ELSE <<lnode[t], lnn[t], num[t]>>
         f     == FindFrom(start[1], start[2], e)
     IN  IF f[2] = Nil
         THEN /\ Resume(t, "remove_all_2") /\ num' = [num EXCEPT ![t] = start[3]]
              /\ UNCHANGED <<marked, nxt, tail, lnode, lnn, out>>
         ELSE /\ Unlink(f[1], f[2]) /\ Emit(t, <<"removed", e>>)
              /\ num' = [num EXCEPT ![t] = start[3] + 1]
              /\ IF f[2] = tail
                 THEN Resume(t, "remove_all_2") /\ UNCHANGED <<lnode, lnn>>
                 ELSE /\ Resume(t, "remove_all_1")
                      /\ lnode' = [lnode EXCEPT ![t] = f[1]]
                      /\ lnn' = [lnn EXCEPT ![t] = nxt[f[2]]]
  /\ UNCHANGED <<elt, head, alloc, opi, seen, failed>>

\* The first unmarked node from n on.
RECURSIVE SkipMarked(_)
SkipMarked(n) == IF n = Nil \/ ~marked[n] THEN n ELSE SkipMarked(nxt[n])

\* Mutant: the walk starts at the sentinel instead of head.next.
ForeachFromHead(t) ==
  /\ Active(t) /\ loc[t] \in {"call", "foreach"} /\ Call(t).op = "foreach"
  /\ LET n == SkipMarked(IF loc[t] = "call" THEN head ELSE nxt[lnode[t]])
     IN  IF n = Nil
         THEN Resume(t, "return") /\ UNCHANGED <<lnode, seen>>
         ELSE /\ Resume(t, "foreach") /\ lnode' = [lnode EXCEPT ![t] = n]
              /\ seen' = [seen EXCEPT ![t] = Append(@, elt[n])]
  /\ UNCHANGED <<listVars, opi, lnn, num, out, failed>>

\* foreach(f): from head.next, or from node.next after "foreach", pass the
\* next unmarked element to f and yield "foreach"; at the end return.
ForeachStep(t) ==
  /\ Active(t) /\ loc[t] \in {"call", "foreach"} /\ Call(t).op = "foreach"
  /\ LET n == SkipMarked(IF loc[t] = "call" THEN nxt[head] ELSE nxt[lnode[t]])
     IN  IF n = Nil
         THEN Resume(t, "return") /\ UNCHANGED <<lnode, seen>>
         ELSE /\ Resume(t, "foreach") /\ lnode' = [lnode EXCEPT ![t] = n]
              /\ seen' = [seen EXCEPT ![t] = Append(@, elt[n])]
  /\ UNCHANGED <<listVars, opi, lnn, num, out, failed>>

\* A call returns after its last yield; its locals are gone.
Return(t) ==
  /\ Active(t)
  /\ loc[t] \in {"add_2", "take_2", "remove_1", "remove_2", "remove_all_2",
                 "return"}
  /\ opi' = [opi EXCEPT ![t] = @ + 1] /\ Resume(t, "call")
  /\ lnode' = [lnode EXCEPT ![t] = Nil] /\ lnn' = [lnn EXCEPT ![t] = Nil]
  /\ num' = [num EXCEPT ![t] = 0]
  /\ UNCHANGED <<listVars, out, seen, failed>>

\* Every client returned from its calls, or the test failed.
Finished ==
  /\ failed \/ \A t \in Threads : opi[t] > Len(Calls[t])
  /\ UNCHANGED vars

Next ==
  /\ UNCHANGED test
  /\ \/ \E t \in Threads :
          \/ Add1(t) \/ AddLink(t) \/ TakeStep(t) \/ RemoveStep(t)
          \/ RemoveAllStep(t) \/ ForeachStep(t) \/ Return(t)
     \/ Finished

Spec == Init /\ [][Next]_vars

Out_ == ({"add", "take", "removed"} \X Elems) \cup ({"remove"} \X BOOLEAN)

TypeOK ==
  /\ nxt \in [Nodes -> Nodes \cup {Nil}] /\ elt \in [Nodes -> Elems \cup {Nil}]
  /\ marked \in [Nodes -> BOOLEAN]
  /\ head \in Nodes /\ tail \in Nodes /\ alloc \in Nodes
  /\ opi \in [Threads -> Nat \ {0}]
  /\ lnode \in [Threads -> Nodes \cup {Nil}]
  /\ lnn \in [Threads -> Nodes \cup {Nil}] /\ num \in [Threads -> Nat]
  /\ out \in [Threads -> Seq(Out_)] /\ seen \in [Threads -> Seq(Elems)]
  /\ failed \in BOOLEAN /\ test \in Tests

\* add links its node after self.tail, so tail must stay on the list: it
\* is head or reachable from head whatever the clients' calls interleave.
TailReachable == tail \in {head} \cup Range(Chain(nxt[head]))

ListAbs == INSTANCE ListSpec WITH contents <- Contents, capacity <- Capacity

\* With any interleaving of the clients' segments, the list behaves as the
\* sequential list of ListSpec: every add is seen in contents(), take
\* returns the first element, remove and remove_all take out elements that
\* are there, and the test fails only when an add meets the capacity.
ListRefinement == ListAbs!Spec

=============================================================================
