CONSTANTS
  Threads = {t1, t2}
  t1 = t1
  t2 = t2
  Main = Main
  NoTarget = NoTarget
  None = None
  Members <- MCMembers
  Labels <- MCLabels
  Progs <- MCProgsAdd
  Goals <- MCGoalsAny
  TAssumes <- MCTAssumes
  Default = Default
  Scripts <- MCScriptsUntil
  Variants = {"exists"}
  Replays <- MCScriptsUntil
  SearchIfFails = {FALSE}

SPECIFICATION Spec
INVARIANT ReplayReproduces
