SPECIFICATION Spec
CONSTANTS
  Doc = {memo}
  NoDoc = NoDoc
  MaxActs = 6
  MaxAsked = 3
INVARIANTS
  NoLostUpdate
CHECK_DEADLOCK FALSE
