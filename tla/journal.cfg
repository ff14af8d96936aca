SPECIFICATION Spec
CONSTANTS
  p1 = p1
  p2 = p2
  Proc = {p1, p2}
  None = None
  Window = 2
  MaxTxns = 6
  JournalMax = 3
  MaxEntries = 2
  MaxCrashes = 2
  MaxTorn = 1
  MaxOldWrites = 2
\* After a record was glued to an unfinished line every load throws: the system stops.
CHECK_DEADLOCK FALSE
SYMMETRY Symmetry
INVARIANTS
  TypeOK
  
  AlwaysLoadable
  

  
