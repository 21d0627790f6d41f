CONSTANTS
  Threads = {t1, t2}
  t1 = t1
  t2 = t2
  Main = Main
  NoTarget = NoTarget
  None = None
  Members <- MCMembers
  Labels <- MCLabels
  Progs <- MCProgs
  Goals <- MCGoals
  TAssumes <- MCTAssumes
  Default = Default
  Scripts <- MCScripts
  Variants = {"exists"}
  Replays <- MCScriptsDefault
  SearchIfFails = {FALSE}

SPECIFICATION Spec
INVARIANT TypeOK
INVARIANT ReplayReproduces
INVARIANT UntilRespected
