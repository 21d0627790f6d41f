CONSTANTS
  Threads = {c1, c2, c3}
  c1 = c1
  c2 = c2
  c3 = c3
  Nil = Nil
  Elems = {1, 2, 3}
  Tests <- MCTestsPass

SPECIFICATION Spec
INVARIANT TypeOK
INVARIANT TailReachable
PROPERTY ListRefinement
