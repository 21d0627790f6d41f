------------------------- MODULE MCConcurrentList -------------------------
(***************************************************************************)
(* Clients of one list, as in listtest.py.                                 *)
(***************************************************************************)
EXTENDS ConcurrentList

CONSTANTS c1, c2, c3

Op(o, a) == [op |-> o, arg |-> a]

\* A list [1, 2]; c1 removes the last element and adds 3, c2 takes and
\* then iterates, c3 adds 1 and removes it: takes, removals of the tail,
\* adds and an iteration race.  With capacity 2 (test_6 sets a capacity
\* of 1 on its list) an add can meet a full list.
MCInitOps == <<1, 2>>
MCCallsOps == (c1 :> <<Op("remove", 2), Op("add", 3)>>
               @@ c2 :> <<Op("take", Nil), Op("foreach", Nil)>>
               @@ c3 :> <<Op("add", 1), Op("remove", 1)>>)


\* listtest test_5: the list [1, 1, 2]; c1 adds 3 and calls remove_all(1)
\* while c2 iterates; c3 adds another 1 during the removal.
MCInitTest5 == <<1, 1, 2>>
MCCallsTest5 == (c1 :> <<Op("add", 3), Op("remove_all", 1)>>
                 @@ c2 :> <<Op("foreach", Nil)>>
                 @@ c3 :> <<Op("add", 1)>>)

\* listtest test_5 with a remove: the list [1, 2, 1]; c1 calls
\* remove_all(1) while c2 removes 2 and adds 3.
MCInitRemoveAll == <<1, 2, 1>>
MCCallsRemoveAll == (c1 :> <<Op("remove_all", 1)>>
                     @@ c2 :> <<Op("remove", 2), Op("add", 3)>>)

MCTestsPass == {[init |-> MCInitOps, calls |-> MCCallsOps, capacity |-> 2],
               [init |-> MCInitTest5, calls |-> MCCallsTest5, capacity |-> 0]}

MCTestsRemoveAll ==
  {[init |-> MCInitRemoveAll, calls |-> MCCallsRemoveAll, capacity |-> 0]}

=============================================================================
