SPECIFICATION Spec
CONSTANTS
  o1 = o1
  o2 = o2
  i1 = i1
  p1 = p1
  p2 = p2
  g1 = g1
  g2 = g2
  g3 = g3
  g4 = g4
  Org = {o1}
  Item = {i1}
  Proc = {p1, p2}
  Gen = {g1, g2, g3}
  None = None
  Global = Global
  Legacy <- MCLegacy
  MaxCrashes = 1
  MaxPowerLoss = 1
\* After a power loss tore a named file every transaction throws: the system stops.
CHECK_DEADLOCK FALSE
SYMMETRY Symmetry
INVARIANTS
  TypeOK
  
  AlwaysLoadable
  PreviousKept
  

  
