SPECIFICATION FairSpec
CONSTANTS
  a = a
  b = b
  t1 = t1
  t2 = t2
  Item = {b}
  Organism = {b}
  Thread = {t1}
  Outcome = {"succeeded", "failed"}
  LeaseMs = 1
  MaxClock = 0
  MaxTokens = 1
  MaxCrashes = 0
  MaxEdits = 0
  MaxPuts = 0
PROPERTIES TicksPlan
CHECK_DEADLOCK FALSE
