# TLA+ models of concurrit (counit.py)

concurrit is a stateless model checker for Python code. It runs a small
concurrent test, the *scenario*. Its logical threads are stackless tasklets,
and they hand control to each other at explicit *yield points*
(`coroutine.transfer(label=...)`). A single driver, *Main*, records every
scheduling choice in a log. The log is made of `TransferAction` records. When
a run fails an `Assume`, the driver is meant to backtrack over the log
depth-first and re-run the test. In the program it never does: the handler of
the failed run raises `AttributeError` first (finding 1). This project models that search engine, its replay and scripted
(until-predicate) modes, the sample subject `concurrent_list`, the way the
tests build Scenarios, and the coroutine-driven set service of test3.py, and checks them against abstract specifications.

## 1. Inventory of the system

| Part | Source | State | Operations |
|---|---|---|---|
| Logical thread / transfer protocol (`coroutine`) | counit.py 850-1093 | `current`, `started`, `ended`, `caller`, `ctxbound`, one channel per thread | `transfer`, `tasklet_function` (body, Backtrack caught, ending transfer), `finish`, `restart` |
| Thread group (`coroutine_group`) | counit.py 735-847 | `memberlist`, `exception` | `add`, `get_next_running` (round robin), `all_ended`, `restart`, `reset` |
| Scenario engine (`Scenario`) | counit.py 184-677 | `mode`, `actions` (the log), `index` (cursor), `untils`, `num_paths` | `explore_exists`, `explore_forall`, `replay`, `run_testcase`/`try_run`/`testcase`, `get_next_action`, `decide_next_target`, `on_yield`, `consume_current_action`, `backtrack` (never reached), `restart`, `preprocess_actions`, `save`/`load` |
| Choice record (`TransferAction`) | counit.py 680-731 | src, label, target, old_targets, count, rem_count, taken, free | `makeTransfer`, `makeYield`, `consume_once`, `__str__`/`parse` |
| Until-predicates | counit.py 243-277, 553-566 | `untils` | `until`, `until_star`, `until_end`, `checkAndResetUntils` |
| Assume/Assert helpers, `explore()` | counit.py 57-158 | none | raise BacktrackException / AssertionError |
| Subject `concurrent_list` | concurrent_list.py | a linked list with a sentinel head, `tail`, marked nodes | `add`, `take`, `remove`, `remove_all`, `foreach`, with yield points |
| Test harness | listtest*.py, creepstest.py, `Scenario.__init__`, `explore()` | the Scenario's setup/teardown lists | `add_setup`, `add_teardown`, `teardown` |
| JSON/set services | jsonservice.py, setservice.py, test3.py | a listening socket and its backlog, one stream per direction and client, `id_to_set`, `nextid`, `co_start`, `co_handlers` | `start`, `cont`, `do_start`, `do_handle_client`, `handle_request`; the client's `connect`, `new`, `add`, `contents` |

**How they interact.** `Main` runs `testcase`. By default it loops
`Scenario.transfer(None)` until every thread has ended. Each transfer (by Main
or by a thread) goes through `coroutine.transfer`, which asks the scenario
(`get_next_action`) whether to transfer now and to whom:

* At the end of the log, a new record is appended for Main's choices and for
  thread endings. Thread yields are not transferred: their untaken records are
  inserted by `on_yield`.
* Inside the log, the record at the cursor is replayed (`decide_next_target`).

On a failed `Assume`, `Scenario.backtrack` is meant to pop records from the
tail (a tried target excluded, an untaken yield turned into a preemption) and
restart the test with the shortened log. The search loops never get there:
their exception handler raises AttributeError on `e.message` first
(finding 1), so `backtrack` and `restart` are dead code in Python 3.

**Hard behaviours.**
* Replaying a log prefix while new untaken yield records are inserted at the
  cursor.
* Records with repeated labels (count / rem_count).
* A thread's BacktrackException ends it through an unlogged internal transfer.
* Until-predicates gate which yields Main's scripted transfer returns at.
* A saved log must replay the run it was found in.
* The engine is required to find a feasible schedule if there is one
  (exists), and to enumerate every one (forall).

## 2. Modules

* **Schedules.tla** holds the pure definitions shared by the search modules:
  * `Segment(t, k)`, the code thread `t` runs before its k-th yield;
  * `Accept`, the teardown Assume as an order constraint;
  * `Merges`/`Feasible`, a RECURSIVE reference definition of every
    interleaving of the programs that passes the Assumes.
* **ActionLog.tla** holds the record type and the whole-log rewrites. It has
  no variables.
  * `Record`, `MakeTransfer` and `MakeYield`;
  * `Preprocess` (`preprocess_actions`);
  * `Format`/`Parse`/`Save`/`Load`: a log line is abstracted to its four
    fields, and a None target is read back as the text "None".
* **Search.tla** is the abstract specification of exploration. A test and
  the search variant (exists or forall) are chosen, runs succeed with feasible segment orders only, exists stops at one,
  forall stops once all are found, and "no feasible execution" is reported
  only when `Feasible` is empty.
* **Explore.tla** is the Scenario engine. Its state maps to the code:
  * `log`, `index`, `cur`, `numPaths`, `untils` map to `Scenario.actions`,
    `index`, `coroutine.current`, `num_paths` and `untils`;
  * `ended`, `exc` map to `coroutine.ended` and `group.exception`;
  * `mode`, `sif`, `saved` map to EXPLORE/REPLAY, `search_if_fails` and the
    saved log file;
  * `pc` is each thread's next yield point and `step` the script step;
  * `hist` is the order in which segments ran (it abstracts the subject);
  * `found` is a history variable: the hists of successful runs.

  Its actions are:
  * `MainPick`: one `Scenario.transfer(None)` of the default testcase loop;
  * `MainStep`: one step of a scripted testcase (an Assume, then
    `until(L)`/`until_star`/`until_end` and `transfer(t)`);
  * `MainTransfer`, the shared body of both. It is a CASE over the branches
    of `get_next_action` and `Scenario.transfer`: an ended target, end of log,
    cursor, until check (`checkAndResetUntils`);
  * `ThreadYield`, `ThreadEnd`, `EndingRaises`, `ThreadEndFails` and
    `ThreadAssumeFails`: a thread's transfer at a yield point, its ending
    transfer, and an Assume raised in its body;
  * `BodyDone`, `Teardown` and `RunFailed`: the failed run's
    BacktrackException reaches the search loop, whose
    `print(... + e.message)` raises `AttributeError` (a fault) before
    `backtrack()`;
  * `Reload`: `explore()` saves the found log, and a REPLAY Scenario loads
    it;
  * `Replayed`/`ReplayFailed`: the end of `replay(search_if_fails)`.

  Every internal `assert` is a `Fault(what)` step. The inputs (programs,
  goal, thread Assumes, script) are chosen once in Init, so each path of the
  state graph is one complete exploration. `Abs` maps Explore onto Search
  (`outcome <- Outcome`).
* **MCExplore.tla** instantiates Explore with two threads `t1, t2` and the
  labels of `concurrent_list` (`add_1`, `add_2`, `take_1`).
  * The programs are: listtest2's two `add`s, two one-yield threads, a thread
    with no yield, and a thread that yields twice at one label.
  * The goals are: none, one order, a two-pair order, and a contradictory
    pair (infeasible).
  * The scripts are: the default testcase, listtest3's two `transfer_star`
    steps, and creepstest's `until(add_2).transfer(t1)`,
    `until_end().transfer(t2)`, `until_end().transfer(t1)`.
* **ListSpec.tla** is the sequential list `concurrent_list` promises:
  * add appends, failing when the list is at capacity;
  * take removes the first element;
  * remove removes the first occurrence and answers whether it found one;
  * remove_all removes occurrences one at a time.
* **ConcurrentList.tla** is `concurrent_list.py` node by node: `nxt`, `elt`,
  `marked`, `head`, `tail`, and each call's locals `node`, `nn`,
  `num_removed`.
  * Each action is one segment of a call between two yield labels (a thread
    runs uninterrupted between transfers). The actions are `Add1`/`AddLink`,
    `TakeStep`, `RemoveStep`, `RemoveAllStep`, `ForeachStep` and `Return`.
  * Nodes are numbered in creation order, and node 0 is the sentinel.
  * `ListAbs` maps the list onto ListSpec through `Contents` (the unmarked
    elements after head).
* **MCConcurrentList.tla** has the client programs of listtest test_5/test_6
  and a remove/add race, for three clients `c1, c2, c3`. A test (initial
  elements, calls, capacity) is a constant set `Tests`; ConcurrentList picks
  one in Init and keeps it, so one run covers several tests.
* **Coroutine.tla** is class `coroutine` without a thread group
  (counit.py 850-1093), the layer SetService and the coroutine tests run on.
  * `cur`, `caller`, `started`, `ended` and `ctxbound` are the class's
    fields. `Deliver` is `send`/`receive`: the receiver's caller becomes the
    sender, or None when the sender has ended.
  * `Transfer` is `coroutine.transfer` in the code's order: the label
    assert, Main's transfer to Main, `transfer(None)` resolved to the caller
    or Main (`Resolve`), the assert on an explicit target, the context bound
    (swallow at 1, count down above it), and RuntimeError for an ended
    target. Asserts run only when the constant `Checked` holds (no
    `python -O`).
  * `EndingTransfer` is the end of `tasklet_function`: `ended`, then the
    ending transfer to the caller or Main, which skips the context bound.
  * Test bodies are programs (`prog`, `pc`) of transfers, calls
    (`RunCall`: the first creates the tasklet, later ones are internal
    transfers), `finish()` (`RunFinish`: context bound 1 and an internal
    transfer; `FinishReturn` is its `assert self.ended`), and test1's
    counter `x` (`RunData`). `Return` is a function returning.
* **SetService.tla** EXTENDS Coroutine. It is setservice.py over
  jsonservice.py, driven by a test of test3.py, or a coroutine test of
  test1.py or listtest.py run as a program of the layer. Everything runs on
  one native thread; control moves only by `coroutine.transfer`.
  * `Handoff` is `transfer` with the current context bounds; `Back` is
    `transfer(None)`; `Cont` is `service.cont`. `ProgStep` is one step of a
    coroutine test's program.
  * Main's actions are the client calls cut at their transfers:
    `MainStart` (`service.start`), `MainConnect` (connect, `cont(None)`),
    `MainHello` (read the handler_id, `new()`), `MainSetId`,
    `MainRequest` (new/add/contents, `cont(handler_id)`), `MainResult`,
    `MainShutdown`.
  * co_start's actions are the pieces of `do_start` between its transfers:
    `StartFirst` (listen, first yield), `StartAccept` (accept, handler_id =
    `len(co_handlers)`, start the handler), `StartSpawned` (append, transfer
    to Main), `StartLoop` (yield at the loop's top).
  * A handler's actions are `HandlerFirst` (send the handler_id, yield) and
    `HandlerServe` (receive one request, `handle_request`, yield).
  * A JSON message is a record and a socket stream the sequence of unread
    messages. A blocking `recv` or `accept` with nothing to read blocks the
    only thread for good (`phase = "hung"`); an exception is `"fault"`.
* **MCSetService.tla** has test3's `test_add` and
  `test_contents_two_clients`, and every one-client test of up to five calls
  (`new`, `add 41`, `add 42`, `contents`) after `connect`. Its coroutine
  tests are test1's `test_generator`, `test_positive_negative` (three
  rounds) and `test_ping_pong` (x from 10), and the bodies of listtest's
  `test_2`, `test_3` and `test_4` dispatchers (two coroutines, `finish()`
  on each). `ends` names the coroutines a test runs to their end.
* **Harness.tla** models the Scenario objects the tests of one process build:
  * the default lists `setup_functions=[]`/`teardown_functions=[]` of
    `Scenario.__init__`, shared by every Scenario built without arguments;
  * `explore()` appending to them;
  * a subclass that keeps `Scenario.teardown` (listtest3);
  * a subclass that overrides it (creepstest).
* **MCHarness.tla** runs listtest2, listtest3 and creepstest in one process.

## 3. Runs

| Run | cfg | Expect | Shows |
|---|---|---|---|
| explore_search | MCExplore_search.cfg | pass | explore_exists on the default testcase and on listtest3's and creepstest's scripts, then a later test replaying the saved log: `TypeOK`; `UntilRespected` (after `until(L).transfer(t)` returns, the last segment that ran ended at L); `ReplayReproduces` (the saved and loaded log of a run replays the same segment order when the test is unchanged) |
| explore_backtrack | MCExplore_backtrack.cfg | violation | `SearchRefinement`: for listtest2's test, explore_exists raises AttributeError at the first failed Assume instead of backtracking, and explore_forall after its first run |
| list_clients | MCConcurrentList_pass.cfg | pass | `TailReachable` (tail is on the list) and `ListRefinement` (the list implements ListSpec) for add/take/remove/foreach clients with capacity 2, and for test_5's remove_all racing adds and a foreach |
| set_service | MCSetService_pass.cfg | pass | under `-O`: `ContentsCorrect` (contents() returns the distinct elements the client added since new(), in first-addition order); `PassingTestCompletes` (every one-client set test and every coroutine test returns); `FinishRunsToEnd` (finish() returns only once the coroutine ended, whatever it transfers to meanwhile); `EndsBeforeReturn` (a coroutine test returns only after the coroutines it runs to the end ended, which needs each ending transfer to go to the live caller) |
| fallback_search | MCExplore_fallback.cfg | violation | `ReplayFallsBack`: `replay(search_if_fails=True)` dies with AttributeError |
| replay_until | MCExplore_replay_until.cfg | violation | `ReplayReproduces`: a log found with `until(...)` does not replay |
| list_remove_all | MCConcurrentList_remove_all.cfg | violation | `ListRefinement`: remove_all racing a remove loses a later add |
| harness_isolation | MCHarness_isolation.cfg | violation | `TeardownIsolation`: listtest3 runs listtest2's final checks |
| set_label_assert | MCSetService_label_assert.cfg | violation | `TestCompletes`: with asserts on, test_add raises at co_start's first yield |
| set_two_clients | MCSetService_two_clients.cfg | violation | `TestCompletes`: under `-O`, test_contents_two_clients blocks in the second connect() |

Every property of a passing run has a mutant of the code that TLC shows
breaks it (PROJECT.json, "mutants"). For example, `OnYieldSkip` (the cursor
one record too far) breaks `TypeOK`, `ParseAsYield` (a loaded record not
taken) breaks `ReplayReproduces`, `UntilsHoldEnding` breaks `UntilRespected`,
`UnlinkKeepTail` breaks `TailReachable`, and `AddLinkNoCheck`/`AddLinkKeepTail`
break `ListRefinement`; `AddKeyAlways` (the set as a list) breaks
`ContentsCorrect`, `StartSpawnedNoAppend` breaks `PassingTestCompletes`,
`TransferUnbounded` (no context-bound check) breaks `FinishRunsToEnd`, and
`EndingToMain` (the ending transfer always to Main) breaks
`EndsBeforeReturn`.

## 4. Bounds and fairness

* **Explore.** Two threads with up to two yield points each. Since the
  search stops at its first failed run, each exploration is one run: the
  default testcase runs the threads one after the other (yields at the end of
  the log are not taken), and the scripts preempt at until-labels. These
  inputs reach every `on_yield` case that a first run reaches, a repeated
  label, every until check, goals that pass and goals that fail on the first
  run, and replays of both unchanged and changed tests. The log is bounded by
  the programs; no state constraint is needed.
* **ConcurrentList.** Three clients with two calls each on lists of up to
  three elements. This lets every call meet every other call between its own
  yields, and it gives removals of the tail, of a duplicate, and a full list.
  Nodes are bounded by the initial elements plus the adds of the programs.
* **SetService.** One client and every test of up to five calls reach
  repeated adds (so dict-key order matters), a second `new()`, and empty
  contents; the two-client test reaches the second accept. Two clients are
  enough: the second connect already hangs. The coroutine tests are the
  repository's own, with two coroutines each; ping-pong's counter starts at
  10 as in test1.py.
* **Fairness.** Explore and SetService use `WF_vars(Next)`. The engine is single-threaded:
  exactly one entity is current, and its next step is enabled until a
  terminal phase, where it stutters (`Finished`). SetService's justification is the
  same: co_start, the handlers and the test share one native thread and the
  current one always takes its next step. ConcurrentList and Harness
  check safety only and assume no fairness. Harness's runs stop when every
  test has run, so its cfg disables deadlock checking.

## 5. Findings

1. **The search dies at its first backtrack** (counit.py:359, 391). Both
   search loops catch BacktrackException and first print
   `"Backtracking due to " + e.message`. Python 3 exceptions have no
   `message` (the tests are Python 3: listtest2 uses `nonlocal`), so an
   AttributeError escapes before `backtrack()`. explore_exists works only
   when the first run passes; explore_forall never returns. For listtest2's
   test the first run appends t1 first, the final Assume fails, and the
   search crashes instead of trying t2 first.
2. **`replay(search_if_fails=True)` calls the undefined `self.explore`**
   (counit.py:327). spec.md says such a replay falls back to a search.
3. **Scripted logs never replay** (counit.py:495). At the cursor,
   `get_next_action` checks the until-list against Main's own label "main",
   so the first `until(L).transfer(t)` of a replay raises
   ReplayFailureException.
4. **remove_all loses elements** (concurrent_list.py:147). remove_all keeps
   `node`/`nn` across `remove_all_1`. If a concurrent remove unlinks `nn`,
   remove_all unlinks from a node that is off the list and moves `tail` there.
   A later add is then appended off the list.
5. **Shared default arguments** (counit.py:190). `Scenario.__init__`'s
   `teardown_functions=[]` is shared, so listtest3's Scenario runs listtest2's
   `final_checks`.

6. **Unlabelled transfers in the set service** (setservice.py:50).
   `coroutine.transfer` asserts a label on every non-internal transfer
   (counit.py:997, spec.md too), but setservice.py and test1.py pass none.
   With asserts on, `service.start()` raises AssertionError, so every test of
   test3.py fails; the `except` block then meets an unbound client variable.
7. **The second client hangs** (setservice.py:58). `do_start` transfers to
   Main after spawning a handler and then yields again at the loop's top.
   The second `cont(None)` therefore resumes it only as far as that yield, and
   it returns to Main without accepting. The second client's `receive()` of
   its handler_id blocks the only native thread for good.

## 6. Not modelled

* **JSON framing.** SetService passes whole messages. The `"%4d"` length
  header, the byte loops of `do_send`/`do_receive` and `json.dumps`/`loads`
  are not modelled. A message of 10000 bytes or more would fail
  `assert len(sz) == 4` (jsonservice.py:37), but the tests' messages are tens
  of bytes.
* **`ctxbound` under a Scenario.** Coroutine models `ctxbound` and
  `finish` for coroutines without a group, the only ones the code finishes.
  `transfer` arbitrates a group's yield (counit.py:1031) before it checks the
  context bound, so a finished group thread would still be arbitrated, which
  spec.md rules out ("zero further arbitration"). No code reaches this, so no
  run checks it; it is listed as a hazard.
* **listtest.py as a program.** It imports the undefined `expect`, so it
  never runs. Its dispatcher bodies of test_2 to test_4 are modelled; test_7
  calls a coroutine that has ended, test_3_1 uses an undefined `schedule`,
  and test_5/test_6's lists are in ConcurrentList.
* **test0, test2 and the pygame creeps GUI.** They are demos with no Assume
  the search depends on. test1's coroutine tests are modelled; they use
  unlabelled transfers like the set service (finding 6), so they pass only
  under `-O`.
* **`Scenario.backtrack` and `restart`.** The program never calls them
  (finding 1). Modelling them would describe a search the code does not
  run, so Explore stops at the AttributeError.
* **Callable until checkers.** `until(f)` with an arbitrary function is
  abstracted to the set of labels it accepts. The checkers the tests use
  (label equality, `until_star`, `until_end`) are modelled exactly.
* **The subject's data inside Explore.** Explore sees only segment orders.
  The list's data is checked separately in ConcurrentList, whose interleavings
  are the segment orders a working search would enumerate.
