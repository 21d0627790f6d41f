CONSTANTS
  Threads = {t1, t2}
  t1 = t1
  t2 = t2
  Main = Main
  NoTarget = NoTarget
  None = None
  Members <- MCMembers
  Labels <- MCLabels
  Progs <- MCProgs
  Goals <- MCGoals
  TAssumes <- MCTAssumes
  Default = Default
  Scripts <- MCScriptsDefault
  Variants = {"exists"}
  Replays <- MCScriptsDefault
  SearchIfFails = {TRUE}

SPECIFICATION Spec
INVARIANT ReplayFallsBack
