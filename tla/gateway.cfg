SPECIFICATION Spec
CONSTANTS
  Caller <- MCCaller
  Slots = 2
  MaxEntries = 2
  Capacity = 1
  Unit = 1
  Refill = 1
  MaxNow = 1
  App = {"notes"}
  MaxLoads = 2
  MaxBusy = 2
  MaxVisits = 1
  MaxLaunches = 2
  MaxOps = 1
  OpId = {1, 2}
INVARIANTS
  GatewayInv
  LauncherInv
PROPERTIES
  WaitsEnd
CHECK_DEADLOCK FALSE
