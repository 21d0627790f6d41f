----------------------------- MODULE MCExplore -----------------------------
(***************************************************************************)
(* Two logical threads registered with add_thread, as in listtest2: each   *)
(* runs concurrent_list.add (yield "add_1", append, yield "add_2"), or a   *)
(* shorter program.  The goal {<<t2,2>>,<<t1,2>>} is listtest2's final     *)
(* Assume(cl.contents() == [2, 1]): t2's append runs before t1's.  The     *)
(* first run of the default testcase runs the threads one after the other, *)
(* so some goals pass on it and the others need a backtrack.              *)
(***************************************************************************)
EXTENDS Explore

CONSTANTS t1, t2

MCMembers == <<t1, t2>>

MCLabels == {"add_1", "add_2", "take_1"}

Add == <<"add_1", "add_2">>

MCProgs == {[t \in {t1, t2} |-> Add],
            [t \in {t1, t2} |-> <<"add_1">>],
            (t1 :> <<"add_1">> @@ t2 :> <<>>),
            (t1 :> <<"take_1", "take_1">> @@ t2 :> <<"add_1">>)}

MCGoals == {{},
            {<<<<t2, 2>>, <<t1, 2>>>>},
            {<<<<t1, 2>>, <<t2, 2>>>>, <<<<t2, 2>>, <<t1, 3>>>>},
            {<<<<t1, 2>>, <<t2, 2>>>>, <<<<t2, 2>>, <<t1, 2>>>>}}

\* No Assume in the threads, or an Assume in t1's first segment (before
\* its first yield) that t2's first segment already ran.
MCTAssumes == {{}, {<<<<t2, 1>>, <<t1, 1>>>>}}


\* The scenario of the spec: each thread appends once to the shared list,
\* and every final list is accepted.
MCProgsAdd == {[t \in {t1, t2} |-> Add]}
MCGoalsAny == {{}}
MCTAssumesNone == {{}}

\* listtest2's test: two adds, and its final Assume.
MCGoalsListTest2 == {{<<<<t2, 2>>, <<t1, 2>>>>}}

\* Scripted testcases.  listtest3: two driver steps until_star().
\* transfer_star(), then Assume(cl.contents() == [2, 1]) (the goal).
Star == [pre |-> {}, cond |-> "star", tgt |-> None]
ListTest3 == <<Star, Star>>

\* creepstest test_3 with the list's labels: until(L).transfer(t1), then
\* until_end().transfer(t2) and until_end().transfer(t1), each after an
\* Assume on what ran so far (here: nothing required).
Creeps == <<[pre |-> {}, cond |-> "add_2", tgt |-> t1],
            [pre |-> {}, cond |-> EndingLabel, tgt |-> t2],
            [pre |-> {}, cond |-> EndingLabel, tgt |-> t1]>>

MCScripts == {Default, ListTest3, Creeps}
MCScriptsDefault == {Default}
MCScriptsUntil == {Creeps}

=============================================================================
