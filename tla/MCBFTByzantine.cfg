SPECIFICATION ScenarioSpec
CONSTANTS
  N = 4
  Byzantine = {0}
  Restarting = {}
  MaxSeq = 1
  MaxRound = 1
  Policy = "RoundRobin"
  ByzantineMsgs <- ScenarioByzantineMsgs
  Blocks <- ScenarioBlocks
  BadBlocks <- SecondBlockBad
  None = None
  Authors = {0, 1}
  Heights = {1}
  Ids = {1, 2, 3}
  BadAuthors = {}
  ByzCodes = {"PREPREPARE", "PREPARE", "COMMIT"}
  ByzRounds = {0}
  Scenarios <- ByzantineProposer
  
PROPERTIES NeverProposesBad
VIEW ScenarioView
CHECK_DEADLOCK FALSE
