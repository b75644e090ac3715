SPECIFICATION Spec
CONSTANTS
  N = 4
  Byzantine = {3}
  Restarting = {0}
  MaxSeq = 1
  MaxRound = 0
  Policy = "RoundRobin"
  ByzantineMsgs <- MCByzantineMsgs
  Blocks <- MCBlocks
  BadBlocks <- MCBadBlocks
  None = None
  Authors = {0}
  Heights = {1}
  Ids = {1, 2}
  BadAuthors = {}
  ByzCodes = {}
  ByzRounds = {0}
INVARIANTS Agreement
VIEW View
CHECK_DEADLOCK FALSE
