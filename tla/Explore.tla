------------------------------ MODULE Explore ------------------------------
(***************************************************************************)
(* The engine of counit.py: a Scenario in EXPLORE or REPLAY mode, its      *)
(* coroutine_group and the coroutine.transfer protocol.  The testcase is   *)
(* either the default one (Scenario.testcase with test_function = None),   *)
(* which keeps transferring from Main to "some thread" until every thread  *)
(* ended, or a script of driver steps, each an Assume followed by          *)
(* until(...).transfer(target) (listtest3, creepstest).                    *)
(*                                                                         *)
(* Each logical thread runs a program: a sequence of yield labels, each a *)
(* call coroutine.transfer(label=L) whose target defaults to Main (as in   *)
(* concurrent_list), followed by its end (the "ending" transfer).  The     *)
(* code a thread runs between two yield points is segment k; the subject's *)
(* state is abstracted to hist, the order in which segments ran.  The      *)
(* teardown Assume is an order constraint on segments (goal).              *)
(*                                                                         *)
(* The until-list holds label checkers; all of them must accept a yield    *)
(* label for it to pass, so it is modelled by the set of their labels.     *)
(***************************************************************************)
EXTENDS ActionLog, Schedules, FiniteSets

CONSTANTS
  Members,   \* group.memberlist: the threads in the order add_thread added them
  Labels,    \* yield labels of the subject program
  Progs,     \* the thread programs to check: functions Threads -> Seq(Labels)
  Goals,     \* teardown Assumes: sets of pairs <<a, b>>, "segment a ran before b"
  TAssumes,  \* Assumes inside the threads: sets of pairs <<a, b>>, "when b
             \* runs, a has run"
  Scripts,   \* the testcases: Default, or sequences of driver steps
             \* [pre |-> Assume, cond |-> "star" or a label, tgt |-> target]
  Default,   \* the default testcase
  Variants,  \* what the test calls: "exists" (explore_exists) or "forall"
             \* (explore_forall)
  Replays,   \* the testcases whose found log is saved and replayed by a
             \* later test
  SearchIfFails, \* the values of replay's search_if_fails argument
  None       \* get_next_running found no thread

ASSUME Threads = Range(Members) /\ Len(Members) = Cardinality(Threads)
ASSUME Variants \subseteq {"exists", "forall"}
ASSUME Replays \subseteq Scripts /\ SearchIfFails \subseteq BOOLEAN
ASSUME None \notin Entity

MainLabel   == "main"
EndingLabel == "ending"

VARIABLES
  prog,      \* the thread programs of this execution (chosen once)
  goal,      \* the teardown Assume of this execution (chosen once)
  tassume,   \* the threads' Assumes of this execution (chosen once)
  script,    \* the testcase of this execution (chosen once)
  variant,   \* the explore function the test calls (chosen once)
  log,       \* Scenario.actions
  index,     \* Scenario.index (0-based; the current record is log[index+1])
  cur,       \* coroutine.current
  pc,        \* pc[t]: the yield point thread t reaches next (Len+1: its end)
  ended,     \* coroutine.ended
  exc,       \* group.exception # None
  hist,      \* the segments run so far in this run (the subject's state)
  step,      \* the next step of the script Main runs
  untils,    \* Scenario.untils, as the labels its checkers accept
  phase,     \* "body", "teardown", or how the exploration finished
  fault,     \* the internal assertion that failed, "none" if none
  numPaths,  \* Scenario.num_paths
  found,     \* history: the hists of the runs that completed successfully
  mode,      \* Scenario.mode: "explore" or "replay"
  sif,       \* the search_if_fails argument of the replay
  saved      \* history: the inputs and hist of the run whose log was saved

vars == <<prog, goal, tassume, script, variant, log, index, cur, pc, ended, exc, hist,
          step, untils, phase, fault, numPaths, found, mode, sif, saved>>

inputs == <<prog, goal, tassume, script, variant>>

replayVars == <<mode, sif, saved>>

Terminal == {"found", "explored", "nofeasible", "fault", "replayed",
             "replayfailed"}

\* The Assumes of the segment thread t is about to run hold.
SegmentOK(t) ==
  \A pr \in tassume : pr[2] = Segment(t, pc[t]) => pr[1] \in Range(hist)

(***************************************************************************)
(* coroutine_group.get_next_running(curr, old_targets): scan memberlist    *)
(* cyclically from the member after curr (from the first member when curr *)
(* is Main), never returning curr itself, for a member that is not ended   *)
(* and not excluded.                                                       *)
(***************************************************************************)
NextRunning(members, end, curr, excl) ==
  LET n     == Len(members)
      start == IF curr = Main THEN 0
               ELSE CHOOSE i \in 1..n : members[i] = curr
      at(k) == members[((start + k - 1) % n) + 1]
      ok    == {k \in 1..n : at(k) # curr /\ at(k) \notin excl /\ ~end[at(k)]}
  IN  IF ok = {} THEN None ELSE at(Min(ok))

\* Mutant: an ending transfer satisfies every checker.
UntilsHoldEnding(L, ending, taken) ==
  IF untils = {} THEN ending \/ taken ELSE untils = {L} \/ ending

\* checkAndResetUntils(m, ending, taken): an empty list answers
\* ending \/ taken; otherwise every checker must accept the label L.
UntilsHold(L, ending, taken) ==
  IF untils = {} THEN ending \/ taken ELSE untils = {L}

\* ... and a list whose checkers all accepted is cleared.
ResetUntils(L) == untils' = IF untils = {L} THEN {} ELSE untils

(***************************************************************************)
(* A step of entity e ends in one of three ways; each fixes log, index,    *)
(* cur, phase and fault.                                                   *)
(***************************************************************************)
\* An internal assert of counit.py fails: the AssertionError escapes every
\* handler and the test stops.
Fault(what) ==
  /\ phase' = "fault" /\ fault' = what
  /\ UNCHANGED <<log, index, cur>>

\* Mutant: the cursor moves one record past the record inserted.
OnYieldSkip(e, L, l, idx) ==
  CASE mode = "replay" ->
         log' = l /\ index' = idx /\ UNCHANGED <<cur, phase, fault>>
    [] idx < Len(l) /\ ~l[idx + 1].taken ->
         Fault("on_yield: current action not taken")
    [] idx = 0 ->
         log' = l /\ index' = idx /\ UNCHANGED <<cur, phase, fault>>
    [] ~(l[idx].tgt = e \/ (l[idx].src = e /\ ~l[idx].taken)) ->
         Fault("on_yield: previous action not of current")
    [] ~l[idx].taken /\ l[idx].lbl = L ->
         /\ log' = [l EXCEPT ![idx].count = @ + 1] /\ index' = idx
         /\ UNCHANGED <<cur, phase, fault>>
    [] OTHER ->
         /\ log' = InsertAt(l, idx + 1, MakeYield(e, L)) /\ index' = idx + 2
         /\ UNCHANGED <<cur, phase, fault>>

\* Scenario.on_yield followed by "return curr": the yield at L is recorded
\* as a not-taken record and e keeps running.
OnYield(e, L, l, idx) ==
  CASE mode = "replay" ->
         log' = l /\ index' = idx /\ UNCHANGED <<cur, phase, fault>>
    [] idx < Len(l) /\ ~l[idx + 1].taken ->
         Fault("on_yield: current action not taken")
    [] idx = 0 ->
         log' = l /\ index' = idx /\ UNCHANGED <<cur, phase, fault>>
    [] ~(l[idx].tgt = e \/ (l[idx].src = e /\ ~l[idx].taken)) ->
         Fault("on_yield: previous action not of current")
    [] ~l[idx].taken /\ l[idx].lbl = L ->
         /\ log' = [l EXCEPT ![idx].count = @ + 1] /\ index' = idx
         /\ UNCHANGED <<cur, phase, fault>>
    [] OTHER ->
         /\ log' = InsertAt(l, idx + 1, MakeYield(e, L)) /\ index' = idx + 1
         /\ UNCHANGED <<cur, phase, fault>>

\* group.get_member(target_label), then coroutine.transfer: control passes
\* to x.
Handoff(x) ==
  CASE x \notin Entity          -> Fault("get_member: no such member")
    [] x # Main /\ ended[x]     -> Fault("target is terminated")
    [] OTHER -> cur' = x /\ UNCHANGED <<phase, fault>>

(***************************************************************************)
(* Scenario.decide_next_target for the record at position p of l that      *)
(* get_next_action returned: consume it when L is its label, hand off when *)
(* rem_count reaches 0, otherwise do not transfer yet.  An ending thread   *)
(* that is told not to transfer returns from its tasklet without waking    *)
(* Main, which stackless reports as a deadlock.                            *)
(***************************************************************************)
Decide(e, L, l, p) ==
  CASE l[p].src # e ->
         Fault("decide_next_target: source mismatch")
    [] L = l[p].lbl /\ l[p].rem = 1 ->
         /\ log' = [l EXCEPT ![p].rem = 0] /\ index' = p
         /\ Handoff(l[p].tgt)
    [] L = EndingLabel ->
         Fault("ending transfer not taken: deadlock")
    [] L = l[p].lbl ->
         OnYield(e, L, [l EXCEPT ![p].rem = @ - 1], p - 1)
    [] OTHER ->
         OnYield(e, L, l, p - 1)

\* get_next_action at the end of the log: assert self.mode == EXPLORE.
EndOfLogInReplay == index = Len(log) /\ mode = "replay"

ReplayEndFault == Fault("get_next_action: end of log in REPLAY")

\* get_next_action appends a taken record (set_index) and decide consumes it.
AppendAndTake(e, L, x, free) ==
  Decide(e, L, Append(log, MakeTransfer(e, L, x, {}, 1, free)), Len(log) + 1)

(***************************************************************************)
(* get_next_action for a record already in the log: a record whose target  *)
(* is undecided gets the next running thread that it does not exclude;     *)
(* None when there is none (the code raises BacktrackException there).     *)
(***************************************************************************)
Resolved(e) ==
  LET a == log[index + 1]
      n == NextRunning(Members, ended, e, a.old)
  IN  CASE a.tgt # NoTarget -> log
        [] n = None         -> None
        [] OTHER            -> [log EXCEPT ![index + 1].tgt = n]

(***************************************************************************)
(* The BacktrackException of a run reaches explore_exists/explore_forall,  *)
(* whose handler first prints "Backtracking due to " + e.message.  A       *)
(* Python 3 exception has no attribute message, so an AttributeError       *)
(* escapes the search before backtrack() runs.  paths is num_paths then.   *)
(***************************************************************************)
RunFailed(paths) ==
  /\ Fault("explore: BacktrackException has no attribute message")
  /\ numPaths' = paths
  /\ UNCHANGED <<pc, ended, exc, hist, step, untils>>

(***************************************************************************)
(* The BacktrackException of a run reaches Scenario.replay: without       *)
(* search_if_fails it raises ReplayFailureException; with it, replay calls *)
(* restart() and then self.explore(), a method Scenario does not have, so  *)
(* an AttributeError escapes.                                              *)
(***************************************************************************)
ReplayFailed ==
  /\ UNCHANGED <<log, index, cur, pc, ended, exc, hist, step, untils, numPaths>>
  /\ IF sif THEN /\ phase' = "fault"
                 /\ fault' = "replay: Scenario has no attribute explore"
            ELSE phase' = "replayfailed" /\ UNCHANGED fault

\* The exception handler of the mode the Scenario runs in.
Failed(paths) == IF mode = "replay" THEN ReplayFailed ELSE RunFailed(paths)

-----------------------------------------------------------------------------

Init ==
  /\ prog \in Progs /\ goal \in Goals /\ tassume \in TAssumes
  /\ script \in Scripts /\ variant \in Variants
  /\ log = <<>> /\ index = 0 /\ cur = Main
  /\ pc = [t \in Threads |-> 1] /\ ended = [t \in Threads |-> FALSE]
  /\ exc = FALSE /\ hist = <<>> /\ step = 1 /\ untils = {}
  /\ phase = "body" /\ fault = "none" /\ numPaths = 0 /\ found = {}
  /\ mode = "explore" /\ sif = FALSE /\ saved = <<>>

(***************************************************************************)
(* Main's transfer to x, the target named by the testcase (None: any).     *)
(* Scenario.transfer raises BacktrackException when x has ended; then      *)
(* get_next_action either takes the record at the cursor, which must pass  *)
(* the until-list u for Main's own label, or, at the end of the log,       *)
(* appends a record to x or to the first running member, free when no     *)
(* target was named.  Its exceptions end the testcase (Failed).            *)
(***************************************************************************)
MainTransfer(x, u) ==
  LET y == IF x = None THEN NextRunning(Members, ended, Main, {}) ELSE x IN
  CASE x # None /\ ended[x] ->
         Failed(numPaths)
    [] EndOfLogInReplay ->
         ReplayEndFault
         /\ UNCHANGED <<pc, ended, exc, hist, step, untils, numPaths>>
    [] index = Len(log) /\ y = None ->
         Failed(numPaths)
    [] index = Len(log) ->
         /\ AppendAndTake(Main, MainLabel, y, x = None)
         /\ untils' = u /\ step' = step + 1
         /\ UNCHANGED <<pc, ended, exc, hist, numPaths>>
    [] ~log[index + 1].taken ->
         /\ Fault("get_next_action: action not taken")
         /\ UNCHANGED <<pc, ended, exc, hist, step, untils, numPaths>>
    [] u # {} /\ u # {MainLabel} ->
         Failed(numPaths)
    [] Resolved(Main) = None ->
         Failed(numPaths)
    [] OTHER ->
         /\ Decide(Main, MainLabel, Resolved(Main), index + 1)
         /\ untils' = {} /\ step' = step + 1
         /\ UNCHANGED <<pc, ended, exc, hist, numPaths>>

\* Scenario.testcase's loop: transfer(None), after until_star().
MainPick ==
  /\ phase = "body" /\ cur = Main /\ script = Default
  /\ \E t \in Threads : ~ended[t]
  /\ MainTransfer(None, {})
  /\ UNCHANGED <<inputs, found, replayVars>>

(***************************************************************************)
(* A step of a scripted testcase: its Assume on what ran so far, then      *)
(* until_star() (the list cleared) or until(label) / until_end() (a        *)
(* checker appended), then transfer(target).                               *)
(***************************************************************************)
MainStep ==
  /\ phase = "body" /\ cur = Main /\ script # Default
  /\ step <= Len(script)
  /\ LET s == script[step]
         u == IF s.cond = "star" THEN {} ELSE untils \cup {s.cond}
     IN  IF Accept(s.pre, hist) THEN MainTransfer(s.tgt, u)
         ELSE Failed(numPaths)
  /\ UNCHANGED <<inputs, found, replayVars>>

\* tasklet_function, except branch: the BacktrackException is stored in
\* group.exception, the thread ends and transfers to Main internally
\* (not arbitrated, not logged).
Abort(t) ==
  /\ exc' = TRUE /\ ended' = [ended EXCEPT ![t] = TRUE] /\ cur' = Main
  /\ UNCHANGED <<log, index, phase, fault>>

\* An Assume fails in the segment thread t runs.
ThreadAssumeFails(t) ==
  /\ phase = "body" /\ cur = t /\ ~ended[t] /\ ~SegmentOK(t)
  /\ Abort(t)
  /\ UNCHANGED <<inputs, pc, hist, step, untils, numPaths, found, replayVars>>

(***************************************************************************)
(* Thread t runs segment pc[t] and calls coroutine.transfer(label = L),    *)
(* whose target is Main.  At the end of the log it transfers only when the *)
(* until-list is non-empty and accepts L (a record that is not free);      *)
(* otherwise the yield is not taken.  A record at the cursor must pass the *)
(* until-list, or BacktrackException aborts the thread.                    *)
(***************************************************************************)
ThreadYield(t) ==
  /\ phase = "body" /\ cur = t /\ pc[t] <= Len(prog[t]) /\ SegmentOK(t)
  /\ hist' = Append(hist, Segment(t, pc[t]))
  /\ pc' = [pc EXCEPT ![t] = @ + 1]
  /\ LET L == prog[t][pc[t]] IN
     CASE EndOfLogInReplay ->
            ReplayEndFault /\ UNCHANGED <<ended, exc, untils>>
       [] index = Len(log) /\ UntilsHold(L, FALSE, FALSE) ->
            /\ AppendAndTake(t, L, Main, FALSE) /\ untils' = {}
            /\ UNCHANGED <<ended, exc>>
       [] index = Len(log) ->
            OnYield(t, L, log, index) /\ UNCHANGED <<ended, exc, untils>>
       [] ~log[index + 1].taken ->
            /\ Fault("get_next_action: action not taken")
            /\ UNCHANGED <<ended, exc, untils>>
       [] ~UntilsHold(L, FALSE, TRUE) ->
            Abort(t) /\ UNCHANGED untils
       [] Resolved(t) = None ->
            Abort(t) /\ ResetUntils(L)
       [] OTHER ->
            /\ Decide(t, L, Resolved(t), index + 1) /\ ResetUntils(L)
            /\ UNCHANGED <<ended, exc>>
  /\ UNCHANGED <<inputs, step, numPaths, found, replayVars>>

(***************************************************************************)
(* get_next_action raises BacktrackException for the ending transfer of t: *)
(* the until-list rejects "ending" ("Exists unsatisfied conditions!"), or  *)
(* the record at the cursor has no target left.  The transfer is outside   *)
(* the tasklet's try block; stackless re-raises the exception in Main,     *)
(* inside the testcase, which stores it and returns.                       *)
(***************************************************************************)
EndingRaises(t) ==
  IF index = Len(log)
  THEN mode = "explore" /\ ~UntilsHold(EndingLabel, TRUE, FALSE)
  ELSE /\ log[index + 1].taken
       /\ (~UntilsHold(EndingLabel, TRUE, TRUE) \/ Resolved(t) = None)

ThreadEndFails(t) ==
  /\ phase = "body" /\ cur = t /\ ~ended[t] /\ pc[t] = Len(prog[t]) + 1
  /\ SegmentOK(t) /\ EndingRaises(t)
  /\ Failed(numPaths)
  /\ UNCHANGED <<inputs, found, replayVars>>

\* Thread t runs its last segment, sets ended and transfers to its caller
\* (Main) with the ending label; at the end of the log the transfer is
\* taken and logged as a record that is not free.
ThreadEnd(t) ==
  /\ phase = "body" /\ cur = t /\ ~ended[t] /\ pc[t] = Len(prog[t]) + 1
  /\ SegmentOK(t) /\ ~EndingRaises(t)
  /\ hist' = Append(hist, Segment(t, pc[t]))
  /\ ended' = [ended EXCEPT ![t] = TRUE]
  /\ CASE EndOfLogInReplay ->
           ReplayEndFault /\ UNCHANGED untils
       [] index = Len(log) ->
           AppendAndTake(t, EndingLabel, Main, FALSE) /\ ResetUntils(EndingLabel)
       [] ~log[index + 1].taken ->
           Fault("get_next_action: action not taken") /\ UNCHANGED untils
       [] OTHER ->
           /\ Decide(t, EndingLabel, Resolved(t), index + 1)
           /\ ResetUntils(EndingLabel)
  /\ UNCHANGED <<inputs, pc, exc, step, numPaths, found, replayVars>>

\* Scenario.testcase returns: the default one when all threads ended, a
\* script after its last step; try_run re-raises the exception a thread
\* stored.
BodyDone ==
  /\ phase = "body" /\ cur = Main
  /\ IF script = Default THEN \A t \in Threads : ended[t]
     ELSE step > Len(script)
  /\ IF exc
     THEN Failed(numPaths)
     ELSE /\ phase' = "teardown"
          /\ UNCHANGED <<log, index, cur, pc, ended, exc, hist, step, untils,
                         fault, numPaths>>
  /\ UNCHANGED <<inputs, found, replayVars>>

\* Scenario.replay after a run without exception: preprocess_actions with
\* reset, untils cleared and group.reset (it sets self.paths, not
\* num_paths).
Replayed ==
  /\ phase' = "replayed" /\ log' = Preprocess(log) /\ index' = 0
  /\ exc' = FALSE /\ cur' = Main /\ untils' = {}
  /\ UNCHANGED <<pc, ended, hist, step, numPaths, found, fault>>

\* try_run(teardown): the final Assume.  On success explore_exists stops
\* with the log of this run; explore_forall counts the path and raises
\* BacktrackException("Retrying another path"), which its handler meets.
Teardown ==
  /\ phase = "teardown"
  /\ CASE ~Accept(goal, hist) ->
            Failed(numPaths) /\ UNCHANGED found
       [] mode = "replay" ->
            Replayed
       [] variant = "exists" ->
            /\ found' = found \cup {hist}
            /\ phase' = "found" /\ log' = Preprocess(log) /\ index' = 0
            /\ numPaths' = 1 /\ exc' = FALSE /\ cur' = Main /\ untils' = {}
            /\ UNCHANGED <<pc, ended, hist, step, fault>>
       [] OTHER ->
            found' = found \cup {hist} /\ RunFailed(numPaths + 1)
  /\ UNCHANGED <<inputs, replayVars>>

(***************************************************************************)
(* A later test replays the log explore_exists found (listtest2): save()   *)
(* writes it, explore(..., scenario=file) builds a REPLAY Scenario with    *)
(* load(), adds the threads, setup and teardown of that test (which may    *)
(* differ from the recorded ones) and calls replay(search_if_fails), which *)
(* resets the group, clears the untils and runs the test.                  *)
(***************************************************************************)
Reload ==
  /\ script \in Replays /\ phase = "found" /\ mode = "explore"
  /\ saved' = [prog |-> prog, goal |-> goal, tassume |-> tassume,
               script |-> script, hist |-> hist]
  /\ log' = Load(Save(log)) /\ index' = 0
  /\ mode' = "replay" /\ sif' \in SearchIfFails
  /\ prog' \in Progs /\ goal' \in Goals /\ tassume' \in TAssumes
  /\ script' \in Scripts
  /\ cur' = Main /\ exc' = FALSE /\ hist' = <<>> /\ phase' = "body"
  /\ pc' = [t \in Threads |-> 1] /\ ended' = [t \in Threads |-> FALSE]
  /\ step' = 1 /\ untils' = {} /\ numPaths' = 0
  /\ UNCHANGED <<fault, found, variant>>

\* The exploration or the replay has returned or raised.
Finished == phase \in Terminal /\ UNCHANGED vars

Next ==
  \/ MainPick
  \/ MainStep
  \/ \E t \in Threads : \/ ThreadYield(t) \/ ThreadEnd(t)
                        \/ ThreadEndFails(t) \/ ThreadAssumeFails(t)
  \/ BodyDone
  \/ Teardown
  \/ Reload
  \/ Finished

\* The engine runs on one native context and always takes its next step.
Spec == Init /\ [][Next]_vars /\ WF_vars(Next)

Record_ == [src : Entity, lbl : Labels \cup {MainLabel, EndingLabel},
            tgt : Entity \cup {NoTarget, NoneText}, old : SUBSET Threads,
            count : Nat \ {0}, rem : Nat, taken : BOOLEAN, free : BOOLEAN]

Hist_ == Seq(Threads \X (Nat \ {0}))

TypeOK ==
  /\ prog \in Progs /\ goal \in Goals /\ tassume \in TAssumes
  /\ script \in Scripts
  /\ log \in Seq(Record_) /\ index \in 0..Len(log)
  /\ cur \in Entity
  /\ pc \in [Threads -> Nat \ {0}] /\ ended \in [Threads -> BOOLEAN]
  /\ exc \in BOOLEAN /\ hist \in Hist_
  /\ step \in Nat \ {0} /\ untils \subseteq Labels \cup {EndingLabel}
  /\ phase \in {"body", "teardown"} \cup Terminal
  /\ numPaths \in Nat /\ found \subseteq Hist_
  /\ mode \in {"explore", "replay"} /\ sif \in BOOLEAN
  /\ saved \in {<<>>} \cup [prog : Progs, goal : Goals, tassume : TAssumes,
                             script : Scripts, hist : Hist_]

(***************************************************************************)
(* The search as Search describes it: the runs accepted so far and how    *)
(* the search ended.                                                       *)
(***************************************************************************)
\* After explore_exists returned, the replay of its log is a later test:
\* the search itself is over, with the test it searched and its result.
Outcome ==
  CASE mode = "replay"                -> "found"
    [] phase \in {"body", "teardown"} -> "searching"
    [] OTHER                          -> phase

Searched == IF mode = "replay" THEN saved ELSE [prog |-> prog, goal |-> goal,
                                                tassume |-> tassume]

FeasibleTable ==
  [p \in Progs, g \in Goals, ta \in TAssumes |-> Feasible(p, g, ta)]

Abs == INSTANCE Search WITH outcome <- Outcome, FeasibleOf <- FeasibleTable,
         prog <- Searched.prog, goal <- Searched.goal,
         tassume <- Searched.tassume

\* explore_exists and explore_forall, on the default testcase, implement
\* Search (spec.md 4.3): every run they accept passes the thread and
\* teardown Assumes, a failed Assume leads to a backtrack and another
\* order, forall reports "explored" only after it accepted every order
\* that passes, and either reports "no feasible execution" only when no
\* order passes.
SearchRefinement == Abs!Spec

\* The log explore_exists found, written by save and read by load, replays
\* the run it was found in: when the replayed test has the threads, thread
\* Assumes, testcase and teardown Assume it was recorded with, replay
\* succeeds and the segments run in the recorded order.
ReplayReproduces ==
  (/\ mode = "replay" /\ phase \in Terminal
   /\ saved.prog = prog /\ saved.goal = goal /\ saved.tassume = tassume
   /\ saved.script = script)
  => phase = "replayed" /\ hist = saved.hist

\* The label at which segment k of thread t ends: its k-th yield, or its
\* end.
EndLabel(t, k) == IF k <= Len(prog[t]) THEN prog[t][k] ELSE EndingLabel

\* until(L).transfer(t) returns to the testcase only once t transferred
\* back at label L (until_end: at its end): the yields at other labels are
\* not taken, whether the log is extended or replayed, and a thread that
\* ends first fails the run.
UntilRespected ==
  (/\ phase = "body" /\ cur = Main /\ ~exc /\ script # Default
   /\ step > 1 /\ script[step - 1].cond # "star")
  => /\ hist # <<>>
     /\ EndLabel(Last(hist)[1], Last(hist)[2]) = script[step - 1].cond

\* A replay of unchanged threads whose Assume fails, with search_if_fails,
\* falls back to a search instead of failing with an internal error.
ReplayFallsBack ==
  (/\ mode = "replay" /\ sif /\ saved.prog = prog /\ saved.tassume = tassume
   /\ saved.script = script)
  => fault = "none"

=============================================================================
