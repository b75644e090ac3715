SPECIFICATION Spec
CONSTANTS
  N = 2
  Byzantine = {}
  Restarting = {}
  MaxSeq = 3
  MaxRound = 0
  Policy = "RoundRobin"
  ByzantineMsgs <- MCByzantineMsgs
  Blocks <- MCBlocks
  BadBlocks <- MCBadBlocks
  None = None
  Authors = {0, 1}
  Heights = {1, 2}
  Ids = {1}
  BadAuthors = {}
  ByzCodes = {}
  ByzRounds = {0}
PROPERTIES NeverBack RefinesLedger
VIEW View
CHECK_DEADLOCK FALSE
