SPECIFICATION MCSpec
VIEW View
CONSTANTS
  Systems = {"dpos", "sealing", "backlog", "node", "server", "download", "exec"}
  Pool = {1, 2, 3, 4, 5}
  MinSize = 3
  Down = {4}
  SignerSets <- MCSignerSets
  Epoch = 4
  DiffMax = 5
  Word = 256
  MaxBlock = 7
  Cases <- MCCases
  Restart = TRUE
  Sequences = {5, 6}
  BacklogRounds = {0, 1}
  MaxBacklog = 3
  Subs = {"a", "b", "c"}
  Values = {1, 2}
  Buffer = 1
  Services <- MCServices
  DataDir = TRUE
  NodeCalls = 3
  Remotes = {"a", "b"}
  Me = "me"
  TrustedNodes = {}
  StaticNodes = {}
  MaxPeers = 2
  MaxDynDials = 1
  MaxPending = 2
  MaxTasks = 1
  ServerCalls = 0
  MayStop = FALSE
  Peers = {"p", "q"}
  Number <- MCNumber
  EmptyBlocks = {"y"}
  HashLimit = 2
  BlockLimit = 1
  MaxUncleDist = 0
  MaxQueueDist = 2
  MaxMessages = 3
  SyncPeers = {"p", "q"}
  GoodPeers = {"p"}
  Batches = 2
  MaxHeaderFetch = 2
  NoBody = {2}
  NoReceipt = {2, 3}
  FastSync = FALSE
  BlockCacheItems = 3
  MaxResultsProcess = 2
  MaxHeadersProcess = 2
  MaxQueuedHeaders = 2
  Capacity = 2
  DropBelow = 1
  Faults = 2
  Refs <- MCRefs
  StateRoots = {"r", "a"}
  StatePeers = {"p", "x"}
  HonestPeers = {"p"}
  NodeCapacity = 2
  StateSyncs = 2
  StateFaults = 1
  Parent <- MCParent
  SectionSize <- MCSectionSize
  Confirms <- MCConfirms
  MaxReorg = 1
  MaxEvents = 2
  Holders = {"s", "m", "c", "x"}
  Contracts = {"c"}
  Messages <- MCMessages
  Funds <- MCFunds
  Coinbase = "m"
  CreateAddress <- MCCreateAddress
  GasLimit = 10
  TxGas = 2
  OpGas = 1
  ValueGas = 2
  Stipend = 2
  RefundGas = 2
  CreateDepth = 2
  MaxTransactions = 2
INVARIANTS
  SealAgreesWithVerify DifficultyRanks
  
  
  
  PeerLimits
  
  ValueConserved
PROPERTIES
  ExecutionEnds
CHECK_DEADLOCK FALSE
