CONSTANTS
  listtest2 = listtest2
  listtest3 = listtest3
  creepstest = creepstest
  create_list = create_list
  final_checks = final_checks
  quit = quit
  Tests = {listtest2, listtest3, creepstest}
  Kind <- MCKind
  Setups <- MCSetups
  Teardowns <- MCTeardowns

SPECIFICATION Spec
CHECK_DEADLOCK FALSE
INVARIANT TeardownIsolation
