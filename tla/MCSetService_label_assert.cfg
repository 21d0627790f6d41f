CONSTANTS
  Main = Main
  Start = Start
  None = None
  c1 = c1
  c2 = c2
  g1 = g1
  g2 = g2
  Co <- MCCo
  Clients = {c1}
  Elems = {41, 42, 43}
  Gen = {}
  Checked = TRUE
  Scripts <- MCTestAddSet
SPECIFICATION Spec
PROPERTIES TestCompletes
