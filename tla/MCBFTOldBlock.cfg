SPECIFICATION Spec
CONSTANTS
  N = 4
  Byzantine = {3}
  Restarting = {}
  MaxSeq = 2
  MaxRound = 0
  Policy = "RoundRobin"
  ByzantineMsgs <- MCByzantineMsgs
  Blocks <- MCBlocks
  BadBlocks <- MCBadBlocks
  None = None
  Authors = {0}
  Heights = {1, 2}
  Ids = {1}
  BadAuthors = {}
  ByzCodes = {}
  ByzRounds = {0}
INVARIANTS DeliveredSealed
VIEW View
CHECK_DEADLOCK FALSE
