------------------------------ MODULE MCHarness ------------------------------
(***************************************************************************)
(* The scenario tests of one unittest process: listtest2.test_1 calls     *)
(* explore([create_list], [c1, c2], [final_checks]); listtest3.test_1 runs *)
(* a Scenario_1 that keeps Scenario.teardown and registers none;          *)
(* creepstest.test_3 overrides teardown (pygame.quit).                    *)
(***************************************************************************)
EXTENDS Harness

CONSTANTS listtest2, listtest3, creepstest, create_list, final_checks, quit

MCKind == (listtest2 :> "explore" @@ listtest3 :> "subclass"
           @@ creepstest :> "own_teardown")
MCSetups == (listtest2 :> <<create_list>> @@ listtest3 :> <<>>
             @@ creepstest :> <<>>)
MCTeardowns == (listtest2 :> <<final_checks>> @@ listtest3 :> <<>>
                @@ creepstest :> <<quit>>)

=============================================================================
