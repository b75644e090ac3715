------------------------------ MODULE MCLedger ------------------------------
(***************************************************************************)
(* Small instances, for TLC, of the components that hold what the chain    *)
(* says: the staking contract, the votes in headers, the block chain and   *)
(* its database, the transaction pool, the state and its tries.  Each is   *)
(* explored on its own: system names the one that moves, all others stay   *)
(* as they began.  With "bft" and "poa" the votes are those of the BFT     *)
(* engine and of the PoA engine.                                           *)
(***************************************************************************)
EXTENDS DposContext, PoaSnapshot, BlockChain, TxPool, TrieDatabase, TrieStructure, StateJournal

CONSTANTS
  Systems,  \* the components to explore
  Coin      \* coins of each account at genesis

VARIABLE system  \* the component that moves

MCInitBalance == [a \in Addrs |-> Coin]

\* A chain of two blocks and a longer one that leaves it after the first, all of equal difficulty.
Child(parent) == [parent |-> parent, difficulty |-> 1]
MCTree == <<Child(0), Child(1), Child(1), Child(3), Child(4)>>

\* Blocks with the transactions of one account, and a fork with one of the other.
Tx(a, n, p) == [from |-> a, nonce |-> n, price |-> p]
Pays(parent, txs, x, y) == [parent |-> parent, txs |-> txs, funds |-> [a |-> x, b |-> y]]
MCBlocks ==
  <<Pays(0, {}, 2, 2), Pays(1, {Tx("a", 0, 1)}, 2, 1), Pays(2, {Tx("a", 1, 2)}, 2, 2),
    Pays(1, {Tx("b", 0, 1)}, 1, 2)>>

\* Three state roots that share parts of their tries.
MCChildren == <<{}, {}, {1}, {1, 2}, {3, 2}, {4}, {3}>>

\* Keys that share prefixes of every length; one is a prefix of another but for its end.
MCKeys == {<<0, 0, 2>>, <<0, 0, 1, 1, 2>>, <<0, 1, 2>>, <<1, 0, 2>>}
-----------------------------------------------------------------------------
Still(name, moves, v) == IF system = name THEN moves ELSE UNCHANGED v

MCInit ==
  /\ system \in Systems
  /\ Init /\ PoaInit /\ ChainInit /\ PoolInit /\ TrieInit /\ StructureInit /\ StateInit
  /\ system # "journal" => sdb.trie = [a \in Addresses |-> Nil]

MCNext ==
  /\ UNCHANGED system
  /\ Still("staking", Next, vars)
  /\ CASE system = "bft" -> VoteNext /\ UNCHANGED Recents
       [] system = "poa" -> PoaNext
       [] OTHER -> UNCHANGED poaVars
  /\ Still("chain", ChainNext, chainVars)
  /\ Still("pool", PoolNext, poolVars)
  /\ Still("triedb", TrieNext, trieVars)
  /\ Still("trie", StructureNext, structureVars)
  /\ Still("journal", StateNext, stateVars)

MCSpec ==
  MCInit /\ [][MCNext]_<<system, vars, poaVars, chainVars, poolVars, trieVars, structureVars, stateVars>>

\* Nothing reads the mint counts, nor the block of a login.
StakingView ==
  <<[a \in Addrs |-> [candidateTrie[a] EXCEPT !.block = IF candidateTrie[a].state = LogoutState
                                                        THEN @ ELSE 0]],
    delegateTrie, voteTrie, validators, balance, number>>

\* The others never change: a state is known by the component that moves.
Moving ==
  CASE system = "staking"        -> StakingView
    [] system \in {"bft", "poa"} -> poaVars
    [] system = "chain"          -> chainVars
    [] system = "pool"           -> poolVars
    [] system = "triedb"         -> trieVars
    [] system = "trie"           -> structureVars
    [] system = "journal"        -> stateVars
LedgerView == <<system, Moving>>
=============================================================================
