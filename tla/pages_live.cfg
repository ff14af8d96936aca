SPECIFICATION PagesFairSpec
CONSTANTS
  ada = ada
  bo = bo
  Bot = {ada, bo}
  None = None
  MaxActs = 2
  Prompt = {"a", "b"}
  Ref = {"r"}
  MaxTurns = 2
  MaxSessions = 1
  MaxLoads = 1
  Project = {"p", "q"}
  SiteNumber = {1, 2}
  MaxProjectActs = 0
  Query = {"all", "q"}
  Everything = "all"
  MaxEffects = 3
  MaxStarts = 1
  Order = {1}
  Stock = 2
  MaxTxs = 2
  MaxRestocks = 0
  Provider = {"a", "b"}
  Passkey = {1, 2}
  MaxSends = 1
  MaxWalletActs = 3
PROPERTIES
  ConsoleSettles
  PagesEnd
CHECK_DEADLOCK FALSE
