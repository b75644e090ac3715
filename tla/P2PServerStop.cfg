SPECIFICATION ServerSpec
CONSTANTS
  Remotes = {"a"}
  Me = "me"
  TrustedNodes = {}
  StaticNodes = {"a"}
  MaxPeers = 2
  MaxDynDials = 1
  MaxPending = 1
  MaxTasks = 1
  ServerCalls = 0
  MayStop = TRUE
PROPERTY StopReturns
CHECK_DEADLOCK FALSE
