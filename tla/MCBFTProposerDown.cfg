SPECIFICATION FairSpec
CONSTANTS
  N = 4
  Byzantine = {0}
  Restarting = {}
  MaxSeq = 1
  MaxRound = 1
  Policy = "RoundRobin"
  ByzantineMsgs <- MCByzantineMsgs
  Blocks <- MCBlocks
  BadBlocks <- MCBadBlocks
  None = None
  Authors = {1}
  Heights = {1}
  Ids = {1}
  BadAuthors = {}
  ByzCodes = {}
  ByzRounds = {0}
INVARIANTS RoundJustified
PROPERTIES EventuallyInserted
VIEW FairView
CHECK_DEADLOCK FALSE
