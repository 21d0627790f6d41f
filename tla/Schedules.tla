----------------------------- MODULE Schedules -----------------------------
(***************************************************************************)
(* The orders in which the code of logical threads can run.  A thread      *)
(* program p[t] is the sequence of its yield labels; the code a thread     *)
(* runs before its k-th yield point (or, for k = Len(p[t]) + 1, before its *)
(* end) is its segment k.  The subject's state is abstracted to the order  *)
(* in which segments ran; an Assume is an order constraint on segments.    *)
(***************************************************************************)
EXTENDS Naturals, Sequences

Segment(t, k) == <<t, k>>

\* Teardown: Assume that every pair of the goal ran in order.
Accept(g, h) ==
  \A pr \in g : \E i, j \in 1..Len(h) : i < j /\ h[i] = pr[1] /\ h[j] = pr[2]

(***************************************************************************)
(* Reference: every order in which the segments of the threads of p can    *)
(* run, from segment next[t] of each thread t on.                          *)
(***************************************************************************)
RECURSIVE Merges(_, _)
Merges(p, next) ==
  LET live == {t \in DOMAIN p : next[t] <= Len(p[t]) + 1} IN
  IF live = {} THEN {<<>>}
  ELSE UNION {{<<Segment(t, next[t])>> \o m :
                 m \in Merges(p, [next EXCEPT ![t] = @ + 1])} : t \in live}

\* The threads' Assumes ta hold at every segment of h: when segment b
\* runs, segment a has run.
AssumesHold(ta, h) ==
  \A pr \in ta : \A j \in 1..Len(h) :
    h[j] = pr[2] => \E i \in 1..(j - 1) : h[i] = pr[1]

\* The segment orders that pass every Assume of the test.
Feasible(p, g, ta) ==
  {h \in Merges(p, [t \in DOMAIN p |-> 1]) : AssumesHold(ta, h) /\ Accept(g, h)}

=============================================================================
