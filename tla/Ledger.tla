------------------------------- MODULE Ledger -------------------------------
(***************************************************************************)
(* What the consensus core promises to the chain: at most one block is     *)
(* ever decided for each block number, and each validator's chain grows,   *)
(* one decided block at a time, without ever giving a block up.            *)
(***************************************************************************)
EXTENDS Naturals, Sequences

CONSTANTS Validators, Blocks

VARIABLES
  decided,  \* the blocks that some validator has delivered
  chain     \* the blocks in each validator's blockchain, above genesis

ledgerVars == <<decided, chain>>

Init ==
  /\ decided = {}
  /\ chain = [n \in Validators |-> <<>>]

\* A block whose number is still undecided is decided.
Decide(b) ==
  /\ \A c \in decided : c.num # b.num
  /\ decided' = decided \cup {b}
  /\ UNCHANGED chain

\* Validator n appends the next block.
Extend(n, b) ==
  /\ b \in decided
  /\ b.num = Len(chain[n]) + 1
  /\ chain' = [chain EXCEPT ![n] = Append(@, b)]
  /\ UNCHANGED decided

Next ==
  \/ \E b \in Blocks : Decide(b)
  \/ \E n \in Validators, b \in Blocks : Extend(n, b)

Spec == Init /\ [][Next]_ledgerVars
=============================================================================
