SPECIFICATION CorrespondenceSpec
CONSTANTS
  Person = {"a", "b"}
  Conv = {1, 2}
  Groups = {2}
  Slots <- MCSlots
  Known = {"a"}
  MaxPrekeys = 1
  MaxSkip = 1
  MaxRegisters = 1
  MaxClicks = 1
  MaxSends = 3
  Node = {1, 2}
  Life = 2
  Age = 1
  Window = 2
  PageLimit = 1
  MaxPages = 2
  MaxNow = 2
  MaxGrants = 3
  MaxDrafts = 2
  Op = {1}
  Key = {1, 2}
INVARIANTS
  
  AgencyInv
PROPERTIES
  SuppressedNotMailed
CHECK_DEADLOCK FALSE
