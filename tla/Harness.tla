------------------------------ MODULE Harness ------------------------------
(***************************************************************************)
(* The Scenario objects the tests of one process create, in the order the *)
(* test runner picks.  Scenario.__init__ takes setup_functions and        *)
(* teardown_functions with the default value [], evaluated once: every    *)
(* Scenario built without them (explore(), Scenario.load, a subclass such  *)
(* as listtest3's Scenario_1) holds the same two list objects, and         *)
(* add_setup/add_teardown append to them.  A function is a model value.    *)
(***************************************************************************)
EXTENDS Naturals, Sequences, FiniteSets, TLC

CONSTANTS
  Tests,     \* the test methods run in this process
  Kind,      \* Kind[x]: "explore" (counit.explore), "subclass" (a Scenario
             \* subclass that keeps Scenario.teardown) or "own_teardown"
             \* (a subclass that overrides teardown, as creepstest does)
  Setups,    \* Setups[x]: the setup functions test x passes to explore
  Teardowns  \* Teardowns[x]: the teardown functions test x registers

VARIABLES
  defSetup,     \* the default list object setup_functions
  defTeardown,  \* the default list object teardown_functions
  done,         \* the tests that have run
  ranTeardown   \* history: ranTeardown[x], the teardown functions test x ran

vars == <<defSetup, defTeardown, done, ranTeardown>>

Init ==
  /\ defSetup = <<>> /\ defTeardown = <<>>
  /\ done = {}
  /\ ranTeardown = [x \in Tests |-> <<>>]

\* add_setup / add_teardown for each function, on the Scenario's lists.
AddAll(lst, fs) == lst \o fs

(***************************************************************************)
(* explore(setup_functions, threads, teardown_functions): a Scenario with  *)
(* the default lists (new, or loaded from its file), add_setup and         *)
(* add_teardown for each function, then run: Scenario.teardown calls      *)
(* every function of teardown_functions.                                   *)
(***************************************************************************)
Explore(x) ==
  /\ defSetup' = AddAll(defSetup, Setups[x])
  /\ defTeardown' = AddAll(defTeardown, Teardowns[x])
  /\ ranTeardown' = [ranTeardown EXCEPT ![x] = defTeardown']

\* Scenario_1(): the default lists; its run calls Scenario.teardown.
Subclass(x) ==
  /\ ranTeardown' = [ranTeardown EXCEPT ![x] = defTeardown]
  /\ UNCHANGED <<defSetup, defTeardown>>

\* Scenario_1() whose teardown is its own method.
OwnTeardown(x) ==
  /\ ranTeardown' = [ranTeardown EXCEPT ![x] = Teardowns[x]]
  /\ UNCHANGED <<defSetup, defTeardown>>

RunTest(x) ==
  /\ x \notin done /\ done' = done \cup {x}
  /\ CASE Kind[x] = "explore"  -> Explore(x)
       [] Kind[x] = "subclass" -> Subclass(x)
       [] OTHER                -> OwnTeardown(x)

Next == \E x \in Tests : RunTest(x)

Spec == Init /\ [][Next]_vars

\* Every test's final checks are its own: the teardown functions a test's
\* Scenario runs are exactly those the test registered, whatever tests ran
\* before it in the process.
TeardownIsolation == \A x \in done : ranTeardown[x] = Teardowns[x]

=============================================================================
