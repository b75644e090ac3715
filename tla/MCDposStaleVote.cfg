SPECIFICATION MCSpec
VIEW LedgerView
CONSTANTS
  Systems = {"staking"}
  None = None
  Addrs = {1, 2}
  Genesis = {1}
  Coin = 1
  InitBalance <- MCInitBalance
  MinCandidateBalance = 1
  UnlockInterval = 1
  Epoch = 2
  MaxValidatorSize = 1
  SafeSize = 1
  MaxBlock = 6
  Nobody = 0
  Members = {1, 2, 3, 4, 5}
  GenesisSigners = {1, 2, 3, 4}
  VoteEpoch = 5
  MaxHeader = 6
  Word = 256
  Tree <- MCTree
  TriesInMemory = 1
  Archive = FALSE
  Imports = 3
  Crashes = 1
  Accounts = {"a", "b"}
  Nonces = {0, 1, 2}
  Prices = {1, 2}
  Blocks <- MCBlocks
  AccountSlots = 1
  GlobalSlots = 2
  AccountQueue = 1
  GlobalQueue = 1
  PriceBump = 10
  PoolOps = 4
  Children <- MCChildren
  Roots = {5, 6, 7}
  Retained = 2
  TrieOps = 4
  TrieKeys <- MCKeys
  Terminator = 2
  TrieValues = {1, 2}
  CacheLimit = 1
  TrieUpdates = 6
  Addresses = {"a"}
  StateOps = 4
INVARIANT VotesOfCandidates
CHECK_DEADLOCK FALSE
