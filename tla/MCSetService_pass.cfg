CONSTANTS
  Main = Main
  Start = Start
  None = None
  c1 = c1
  c2 = c2
  g1 = g1
  g2 = g2
  Co <- MCCo
  Clients = {c1, c2}
  Elems = {41, 42}
  Gen = {g1, g2}
  Checked = FALSE
  Scripts <- MCScriptsPass
SPECIFICATION Spec
INVARIANTS TypeOK ContentsCorrect FinishRunsToEnd EndsBeforeReturn
PROPERTIES PassingTestCompletes
