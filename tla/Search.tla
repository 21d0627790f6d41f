------------------------------- MODULE Search -------------------------------
(***************************************************************************)
(* What explore_exists and explore_forall promise of a test, without the   *)
(* log, the cursor or backtracking: the runs they accept pass every        *)
(* Assume; exists stops at one such run; forall stops once it has run     *)
(* every segment order that passes; both report "no feasible execution"    *)
(* only when there is none; and the search ends.                           *)
(***************************************************************************)
EXTENDS Schedules

CONSTANTS Progs, Goals, TAssumes, Variants,
  FeasibleOf  \* the orders that pass, for every test

ASSUME FeasibleOf = [p \in Progs, g \in Goals, ta \in TAssumes |->
                       Feasible(p, g, ta)]

VARIABLES
  prog, goal, tassume,  \* the test: thread programs and Assumes
  variant,              \* "exists" or "forall"
  found,                \* the segment orders of the runs accepted so far
  outcome               \* "searching", or how the search ended

vars == <<prog, goal, tassume, variant, found, outcome>>

Feas == FeasibleOf[prog, goal, tassume]

Init ==
  /\ prog \in Progs /\ goal \in Goals /\ tassume \in TAssumes
  /\ variant \in Variants
  /\ found = {} /\ outcome = "searching"

\* A run in order h passes: exists returns with it; forall counts it and
\* may find, in the same step, that nothing is left to try.
Succeed(h) ==
  /\ outcome = "searching" /\ h \in Feas
  /\ found' = found \cup {h}
  /\ outcome' \in IF variant = "exists" THEN {"found"}
                  ELSE IF found' = Feas THEN {"searching", "explored"}
                  ELSE {"searching"}
  /\ UNCHANGED <<prog, goal, tassume, variant>>

\* forall has run every order that passes.
Exhaust ==
  /\ variant = "forall" /\ outcome = "searching"
  /\ found = Feas /\ found # {}
  /\ outcome' = "explored"
  /\ UNCHANGED <<prog, goal, tassume, variant, found>>

\* No order passes: NoFeasibleExecutionException.
GiveUp ==
  /\ outcome = "searching" /\ Feas = {}
  /\ outcome' = "nofeasible"
  /\ UNCHANGED <<prog, goal, tassume, variant, found>>

Next == (\E h \in Feas : Succeed(h)) \/ Exhaust \/ GiveUp

Spec == Init /\ [][Next]_vars /\ WF_vars(Next)

=============================================================================
