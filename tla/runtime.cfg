SPECIFICATION Spec
CONSTANTS
  a = a
  b = b
  t1 = t1
  t2 = t2
  Item = {a, b}
  Organism = {b}
  Thread = {t1}
  Outcome = {"succeeded", "failed"}
  LeaseMs = 1
  MaxClock = 1
  MaxTokens = 2
  MaxCrashes = 1
  MaxEdits = 1
  MaxPuts = 1
CHECK_DEADLOCK FALSE
INVARIANTS TypeOK LeasedContentFixed LeasesUnique ExecutedOnce ReceiptsMatchLease ReviewIsEarned
PROPERTIES NoEarlyTakeover  
