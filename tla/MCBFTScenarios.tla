--------------------------- MODULE MCBFTScenarios ---------------------------
(***************************************************************************)
(* Instances of BFTCore in which what may happen depends on a scenario     *)
(* chosen at the start: the blocks that appear, the highest round, whether *)
(* Byzantine validators vote, whose chains take blocks.                    *)
(***************************************************************************)
EXTENDS MCBFTCore

CONSTANT Scenarios

VARIABLE scenario

MCBlock(author, id) == [num |-> 1, author |-> author, id |-> id]
Second == MCBlock(0, 3)

\* Two blocks and votes for both in one round; a block that fails when executed
\* in two rounds.
ByzantineProposer ==
  {[blocks |-> {MCBlock(0, 1), Second}, rounds |-> 0, votes |-> TRUE, imports |-> {1}],
   [blocks |-> {MCBlock(0, 2)}, rounds |-> 1, votes |-> FALSE, imports |-> {1}]}

\* The proposers of two rounds have a block each, and one validator is down.
RoundChange ==
  {[blocks |-> {MCBlock(0, 1), MCBlock(1, 1)}, rounds |-> 1, votes |-> FALSE, imports |-> {1}]}

ScenarioBlocks == UNION {s.blocks : s \in Scenarios}
SecondBlockBad == {MCBlock(0, 2)}

\* Votes for the bad block are part of no scenario.
ScenarioByzantineMsgs == {m \in MCByzantineMsgs : m.code # "PREPREPARE" => m.digest \notin SecondBlockBad}

\* The two blocks of the first scenario play the same part, so validator 1 may
\* as well get the first of them.
Within ==
  /\ \A m \in msgs : m.round <= scenario.rounds
  /\ \A n \in Honest :
       LET cur == current[n] IN
       /\ {cur.pendingRequest, cur.Preprepare} \subseteq scenario.blocks \cup {None}
       /\ n \in scenario.imports \/ (chain[n] = <<>> /\ badBlocks[n] = {})
       /\ n = 1 => cur.Preprepare # Second
       /\ scenario.votes \/ (cur.Prepares \cup DOMAIN cur.Commits) \cap Byzantine = {}

ScenarioSpec ==
  /\ Init /\ scenario \in Scenarios
  /\ [][Next /\ UNCHANGED scenario /\ Within']_<<vars, scenario>>

ScenarioView == <<ViewUpTo(scenario.rounds), scenario>>
=============================================================================
