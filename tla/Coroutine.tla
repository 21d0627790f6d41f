------------------------------ MODULE Coroutine ------------------------------
(***************************************************************************)
(* class coroutine of counit.py without a thread group: logical threads   *)
(* that pass one native thread among themselves by coroutine.transfer.     *)
(* Each coroutine blocks on its own stackless channel; transfer sends the  *)
(* source on the target's channel, and the receiver keeps it as its       *)
(* caller.  Main, the test's own context, receives on the class channel.  *)
(*                                                                         *)
(* The bodies of coroutines and the test itself are programs: transfers,   *)
(* calls (the first creates the coroutine, the next ones transfer to it    *)
(* internally), finish(), and the decrement and loop test of a shared     *)
(* counter (test1's self.x).  A module using the layer gives the programs  *)
(* it runs in `prog`; coroutines without one are driven by that module's  *)
(* own actions and use Transfer.                                           *)
(***************************************************************************)
EXTENDS Naturals, Sequences

CONSTANTS
  Co,       \* the coroutines
  Checked,  \* assert statements run (python without -O)
  Main,     \* coroutine.main
  None      \* Python None

VARIABLES
  cur,      \* coroutine.current
  caller,   \* caller[c]: what c last received on its channel
  started,  \* started[c]: c was called once (its tasklet exists)
  ended,    \* ended[c]: c's function returned
  ctxbound, \* ctxbound[c]: 0 unbounded, 1 sequential, k > 1 k-1 more transfers
  phase,    \* "run", "done" (the test returned), "fault" (it raised), "hung"
  prog,     \* prog[e]: the program e runs, for e in DOMAIN prog
  pc,       \* pc[e]: its next instruction
  pending,  \* pending[e]: the coroutine e called finish() on, not returned yet
  x         \* the test's counter (self.x)

coVars == <<cur, caller, started, ended, ctxbound, phase, prog, pc, pending, x>>

Instr(o, to, l) == [op |-> o, to |-> to, label |-> l]

(***************************************************************************)
(* coroutine.send and send_to_main: the receiver's caller becomes the     *)
(* sender, or None when the sender has ended (Main keeps no caller).       *)
(***************************************************************************)
Deliver(from, to, gone) ==
  /\ cur' = to
  /\ caller' = IF to = Main THEN caller
               ELSE [caller EXCEPT ![to] = IF gone THEN None ELSE from]

Fail == phase' = "fault" /\ UNCHANGED <<cur, caller>>

\* transfer returns curr without transferring.
Stay(cb) == ctxbound' = cb /\ UNCHANGED <<cur, caller, phase>>

\* The target once decided: None is the caller of curr, or Main.
Resolve(curr, target) ==
  IF target = None /\ curr # Main
  THEN IF caller[curr] = None THEN Main ELSE caller[curr]
  ELSE target

\* Mutant: the context bound is never checked.
TransferUnbounded(curr, target, label, internal, cb) ==
  LET tgt == Resolve(curr, target)
      bad == tgt # Main /\ (~started[tgt] \/ ended[tgt])
  IN  IF Checked /\ ~internal /\ label = None THEN Fail /\ ctxbound' = cb
      ELSE IF curr = Main /\ tgt = Main THEN Stay(cb)
      ELSE IF tgt = None \/ bad THEN Fail /\ ctxbound' = cb
      ELSE ctxbound' = cb /\ Deliver(curr, tgt, FALSE) /\ UNCHANGED phase

(***************************************************************************)
(* coroutine.transfer(target, label, internal) by curr, not ending, with   *)
(* cb the context bounds it starts from.  The label assert comes first;    *)
(* Main's transfer to Main returns; Main's transfer(None) has no target;  *)
(* the assert on an explicit target precedes the context bound, which     *)
(* swallows the transfer at 1 and counts down above it; a target that     *)
(* ended (or was never started, under -O) raises when it is sent to.      *)
(***************************************************************************)
Transfer(curr, target, label, internal, cb) ==
  LET tgt == Resolve(curr, target)
      bad == tgt # Main /\ (~started[tgt] \/ ended[tgt])
  IN  IF Checked /\ ~internal /\ label = None THEN Fail /\ ctxbound' = cb
      ELSE IF curr = Main /\ tgt = Main THEN Stay(cb)
      ELSE IF tgt = None THEN Fail /\ ctxbound' = cb
      ELSE IF Checked /\ target \notin {Main, None} /\ bad
           THEN Fail /\ ctxbound' = cb
      ELSE IF curr # Main /\ cb[curr] = 1 THEN Stay(cb)
      ELSE IF bad THEN Fail /\ ctxbound' = cb
      ELSE /\ ctxbound' = IF curr # Main /\ cb[curr] > 1
                          THEN [cb EXCEPT ![curr] = @ - 1] ELSE cb
           /\ Deliver(curr, tgt, FALSE) /\ UNCHANGED phase

\* Mutant: the ending transfer goes to Main, whoever resumed c.
EndingToMain(c) ==
  /\ ended' = [ended EXCEPT ![c] = TRUE]
  /\ Deliver(c, Main, TRUE) /\ UNCHANGED <<phase, ctxbound>>

\* tasklet_function after the function returned: ended, then the ending
\* transfer to the caller (or Main), which no context bound swallows.
EndingTransfer(c) ==
  LET tgt == Resolve(c, None) IN
  /\ ended' = [ended EXCEPT ![c] = TRUE]
  /\ IF tgt # Main /\ ended[tgt] THEN Fail
     ELSE Deliver(c, tgt, TRUE) /\ UNCHANGED phase
  /\ UNCHANGED ctxbound

-----------------------------------------------------------------------------
(***************************************************************************)
(* One instruction of the program e runs.                                  *)
(***************************************************************************)
Advance(e) == pc' = [pc EXCEPT ![e] = @ + 1]

RunTransfer(e, i) ==
  /\ Transfer(e, i.to, i.label, FALSE, ctxbound) /\ Advance(e)
  /\ UNCHANGED <<started, ended, pending, x>>

\* coroutine.__call__: the first call creates the tasklet, which blocks on
\* its channel; a later one is an internal transfer to it.
RunCall(e, i) ==
  /\ IF started[i.to]
     THEN Transfer(e, i.to, "starting", TRUE, ctxbound)
          /\ UNCHANGED started
     ELSE started' = [started EXCEPT ![i.to] = TRUE]
          /\ UNCHANGED <<cur, caller, ctxbound, phase>>
  /\ Advance(e) /\ UNCHANGED <<ended, pending, x>>

\* coroutine.finish: a coroutine not ended gets context bound 1 and an
\* internal transfer; its "assert self.ended" runs when e resumes.
RunFinish(e, i) ==
  /\ LET c == i.to IN
     IF ~started[c] THEN Fail /\ UNCHANGED <<ctxbound, pending>>
     ELSE IF ended[c] THEN UNCHANGED <<cur, caller, ctxbound, phase, pending>>
     ELSE /\ Transfer(e, c, "finishing", TRUE, [ctxbound EXCEPT ![c] = 1])
          /\ pending' = [pending EXCEPT ![e] = c]
  /\ Advance(e) /\ UNCHANGED <<started, ended, x>>

\* self.x = self.x - 1, and the loop's "if self.x == 0: break".
RunData(e, i) ==
  /\ IF i.op = "dec"
     THEN x' = x - 1 /\ Advance(e)
     ELSE UNCHANGED x
          /\ pc' = [pc EXCEPT ![e] = IF x = 0 THEN Len(prog[e]) + 1 ELSE i.to]
  /\ UNCHANGED <<cur, caller, started, ended, ctxbound, phase, pending>>

Turn(e) == phase = "run" /\ cur = e /\ e \in DOMAIN prog

\* finish() resumed: its assertion that the coroutine ended.
FinishReturn(e) ==
  /\ Turn(e) /\ pending[e] # None
  /\ IF Checked /\ ~ended[pending[e]] THEN Fail ELSE UNCHANGED <<cur, caller, phase>>
  /\ pending' = [pending EXCEPT ![e] = None]
  /\ UNCHANGED <<started, ended, ctxbound, prog, pc, x>>

Run(e) ==
  /\ Turn(e) /\ pending[e] = None /\ pc[e] <= Len(prog[e])
  /\ LET i == prog[e][pc[e]] IN
     CASE i.op = "transfer"        -> RunTransfer(e, i)
       [] i.op = "call"            -> RunCall(e, i)
       [] i.op = "finish"          -> RunFinish(e, i)
       [] i.op \in {"dec", "loop"} -> RunData(e, i)
  /\ UNCHANGED prog

\* The function of coroutine e returns, or the test does (Main).
Return(e) ==
  /\ Turn(e) /\ pending[e] = None /\ pc[e] > Len(prog[e])
  /\ IF e = Main THEN phase' = "done" /\ UNCHANGED <<cur, caller, ended, ctxbound>>
     ELSE EndingTransfer(e)
  /\ UNCHANGED <<started, prog, pc, pending, x>>

=============================================================================
