SPECIFICATION PagesSpec
CONSTANTS
  ada = ada
  bo = bo
  Bot = {ada, bo}
  None = None
  MaxActs = 3
  Prompt = {"a", "b"}
  Ref = {"r"}
  MaxTurns = 2
  MaxSessions = 2
  MaxLoads = 1
  Project = {"p", "q"}
  SiteNumber = {1, 2}
  MaxProjectActs = 4
  Query = {"all", "q"}
  Everything = "all"
  MaxEffects = 3
  MaxStarts = 2
  Order = {1, 2}
  Stock = 2
  MaxTxs = 3
  MaxRestocks = 1
  Provider = {"a", "b"}
  Passkey = {1, 2}
  MaxSends = 2
  MaxWalletActs = 5
INVARIANTS
  ConsoleInv
  StoreInv
  
  ChatInv
  ProjectInv
  
CHECK_DEADLOCK FALSE
