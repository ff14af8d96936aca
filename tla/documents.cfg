SPECIFICATION PartsSpec
CONSTANTS
  Doc = {memo, plan}
  NoDoc = NoDoc
  MaxActs = 5
  MaxAsked = 2
  Entry = {"d1", "d2", "d3"}
  Existing = {"d1", "d2"}
  Folder = {"f"}
  PageSize = 1
  MaxDriveActs = 3
  Paper = {"A", "B"}
  LastPage = 1
  MaxPanelActs = 4
  MaxEdits = 6
  MaxText = 3
  Place <- MCPlace
  Style = {"bold", "align"}
INVARIANTS
  EditorInv
  BrowserInv
  
  SurfaceInv
PROPERTIES
  EditsKept
CHECK_DEADLOCK FALSE
