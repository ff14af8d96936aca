SPECIFICATION Spec
CONSTANTS
  a = a
  b = b
  t1 = t1
  t2 = t2
  Item = {a}
  Organism = {}
  Thread = {t1, t2}
  Outcome = {"succeeded"}
  LeaseMs = 1
  MaxClock = 2
  MaxTokens = 2
  MaxCrashes = 0
  MaxEdits = 1
  MaxPuts = 0
SYMMETRY Symmetry
INVARIANTS ExecutedOnce
CHECK_DEADLOCK FALSE
