SPECIFICATION Spec
CONSTANTS
  N = 3
  Byzantine = {}
  Restarting = {}
  MaxSeq = 1
  MaxRound = 1
  Policy = "RoundRobin"
  ByzantineMsgs <- MCByzantineMsgs
  Blocks <- MCBlocks
  BadBlocks <- MCBadBlocks
  None = None
  Authors = {0, 1}
  Heights = {1}
  Ids = {1}
  BadAuthors = {}
  ByzCodes = {}
  ByzRounds = {0}
INVARIANTS Agreement
VIEW View
CHECK_DEADLOCK FALSE
