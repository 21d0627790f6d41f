CONSTANTS
  Threads = {t1, t2}
  t1 = t1
  t2 = t2
  Main = Main
  NoTarget = NoTarget
  None = None
  Members <- MCMembers
  Labels <- MCLabels
  Progs <- MCProgsAdd
  Goals <- MCGoalsListTest2
  TAssumes <- MCTAssumesNone
  Default = Default
  Scripts <- MCScriptsDefault
  Variants = {"exists", "forall"}
  Replays = {}
  SearchIfFails = {FALSE}

SPECIFICATION Spec
PROPERTY SearchRefinement
