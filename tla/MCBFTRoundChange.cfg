SPECIFICATION ScenarioSpec
CONSTANTS
  N = 4
  Byzantine = {3}
  Restarting = {}
  MaxSeq = 1
  MaxRound = 1
  Policy = "RoundRobin"
  ByzantineMsgs <- MCByzantineMsgs
  Blocks <- MCBlocks
  BadBlocks <- MCBadBlocks
  None = None
  Authors = {0, 1}
  Heights = {1}
  Ids = {1}
  BadAuthors = {}
  ByzCodes = {}
  ByzRounds = {0}
  Scenarios <- RoundChange
INVARIANTS Agreement CommitLock
VIEW ScenarioView
CHECK_DEADLOCK FALSE
