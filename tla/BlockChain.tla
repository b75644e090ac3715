----------------------------- MODULE BlockChain -----------------------------
(***************************************************************************)
(* The block chain of a node on its database: import of blocks and of      *)
(* mined blocks, side chains and reorganisation, state tries in memory and *)
(* on disk with their garbage collection, future blocks, rewinding, a      *)
(* clean stop, a crash between any two database writes, and start-up.      *)
(***************************************************************************)
EXTENDS Integers, Sequences, FiniteSets, SequencesExt, FiniteSetsExt

CONSTANTS
  Tree,           \* block -> [parent, difficulty]; the genesis block is 1, its parent 0
  TriesInMemory,  \* number of blocks whose state stays in memory
  Archive,        \* every state is flushed (cacheConfig.Disabled)
  Imports,        \* bound: imports from peers, the miner and rewinds
  Crashes         \* bound: crashes and stops

ASSUME ChainAssumption ==
  /\ DOMAIN Tree \subseteq Nat \ {0} /\ Tree[1].parent = 0
  /\ TriesInMemory \in Nat \ {0} /\ Archive \in BOOLEAN /\ {Imports, Crashes} \subseteq Nat

VARIABLES
  disk,     \* [blocks, tds, canon, headBlock, headHeader, states]
  current,  \* currentBlock in memory
  tries,    \* states referenced in memory
  future,   \* futureBlocks
  work,     \* blocks that insertChain has still to import, under chainmu
  ready,    \* a block past verification, before WriteBlockWithState; 0 is none
  write,    \* WriteBlockWithState under mu: [block, stage, chain]
  panicked, \* start-up has panicked
  torn,     \* a crash has hit a reorganisation
  rewound,  \* SetHead or a restart has moved the head back
  budget    \* [imports, crashes] so far

diskVars == <<disk, current, tries>>
chainVars == <<disk, current, tries, future, work, ready, write, panicked, torn, rewound, budget>>

BlockIds == DOMAIN Tree
Idle == [block |-> 0, stage |-> "idle", chain |-> <<>>]

\* Blocks from the genesis block to b, and what follows from the tree.
Path[b \in BlockIds] == IF b = 1 THEN <<1>> ELSE Append(Path[Tree[b].parent], b)
Num(b) == Len(Path[b]) - 1
Td(b) == MapThenSumSet(LAMBDA c : Tree[c].difficulty, ToSet(Path[b]))

HasState(b) == b \in tries \cup disk.states
HasBlockAndState(b) == b \in disk.blocks /\ HasState(b)

ChainInit ==
  /\ disk = [blocks |-> {1}, tds |-> {1}, canon |-> [n \in 0 .. Cardinality(BlockIds) |-> IF n = 0 THEN 1 ELSE 0],
             headBlock |-> 1, headHeader |-> 1, states |-> {1}]
  /\ current = 1 /\ tries = {} /\ future = {} /\ work = <<>> /\ ready = 0 /\ write = Idle
  /\ panicked = FALSE /\ torn = FALSE /\ rewound = FALSE
  /\ budget = [imports |-> 0, crashes |-> 0]

SpendOn(f, bound) == budget[f] < bound /\ budget' = [budget EXCEPT ![f] = @ + 1]
-----------------------------------------------------------------------------
(* insertChain                                                              *)

\* A peer or the downloader delivers a linked segment of the tree.
InsertChain(b, n) ==
  /\ ~ panicked /\ work = <<>> /\ ready = 0 /\ n < Len(Path[b])
  /\ SpendOn("imports", Imports)
  /\ work' = SubSeq(Path[b], Len(Path[b]) - n + 1, Len(Path[b]))
  /\ UNCHANGED <<diskVars, future, ready, write, panicked, torn, rewound>>

\* procFutureBlocks, lowest number first, each block a call of its own.
FutureTick ==
  /\ ~ panicked /\ work = <<>> /\ ready = 0
  /\ \E b \in future : (\A c \in future : Num(b) <= Num(c)) /\ work' = <<b>>
  /\ UNCHANGED <<diskVars, future, ready, write, panicked, torn, rewound, budget>>

Quiet == UNCHANGED <<current, tries, write, panicked, torn, rewound, budget>>

\* The header is verified and the body validated: the cases of insertChain.
Known(b) == HasBlockAndState(b)
Unknown(b) == ~ Known(b) /\ Tree[b].parent \notin disk.blocks
Pruned(b) == ~ Known(b) /\ Tree[b].parent \in disk.blocks /\ ~ HasState(Tree[b].parent)
Loser(b) == Td(current) > Td(b)

Skip(b) ==
  /\ Known(b) /\ Num(current) >= Num(b)
  /\ work' = Tail(work) /\ UNCHANGED <<disk, future, ready>>

\* The clock of the block's proposer may be ahead; a descendant is kept as well.
Postpone(b) ==
  /\ ~ Known(b) /\ Tree[b].parent \in disk.blocks \cup future
  /\ Tree[b].parent \in disk.blocks => b \notin future
  /\ future' = future \cup {b} /\ work' = Tail(work)
  /\ UNCHANGED <<disk, ready>>

Reject(b) ==
  /\ Unknown(b) /\ Tree[b].parent \notin future
  /\ work' = <<>> /\ UNCHANGED <<disk, future, ready>>

\* A block on a pruned side chain that is still lighter is stored without state.
WriteBlockWithoutState(b) ==
  /\ Pruned(b) /\ Loser(b)
  /\ disk' = [disk EXCEPT !.tds = @ \cup {b}, !.blocks = @ \cup {b}]
  /\ work' = Tail(work) /\ UNCHANGED <<future, ready>>

\* The side chain wins: its blocks are imported from the last one with state.
ImportWinner(b) ==
  /\ Pruned(b) /\ ~ Loser(b)
  /\ LET path == Path[Tree[b].parent]
         from == Max({i \in DOMAIN path : HasState(path[i])})
     IN work' = SubSeq(path, from + 1, Len(path)) \o work
  /\ UNCHANGED <<disk, future, ready>>

\* Processed and validated; WriteBlockWithState is called next.
Process(b) ==
  /\ \/ Known(b) /\ Num(current) < Num(b) /\ HasState(Tree[b].parent)
     \/ ~ Known(b) /\ Tree[b].parent \in disk.blocks /\ HasState(Tree[b].parent)
  /\ ready' = b /\ work' = Tail(work)
  /\ UNCHANGED <<disk, future>>

\* The state of a known block's parent may be gone: insertChain fails.
Stateless(b) ==
  /\ Known(b) /\ Num(current) < Num(b) /\ ~ HasState(Tree[b].parent)
  /\ work' = <<>> /\ UNCHANGED <<disk, future, ready>>

VerifyBlock ==
  /\ ~ panicked /\ work # <<>> /\ ready = 0 /\ write = Idle
  /\ LET b == Head(work)
     IN \/ Skip(b) \/ Postpone(b) \/ Reject(b) \/ WriteBlockWithoutState(b)
        \/ ImportWinner(b) \/ Process(b) \/ Stateless(b)
  /\ Quiet
-----------------------------------------------------------------------------
(* WriteBlockWithState                                                      *)

\* States below the retention are dropped from memory; memory or time limits
\* may flush the one at the edge first.
Collect(b, flush) ==
  LET chosen == Num(b) - TriesInMemory
      edge == disk.canon[chosen]
  IN IF Archive THEN /\ tries' = tries
                     /\ disk' = [disk EXCEPT !.tds = @ \cup {b}, !.states = @ \cup {b}]
     ELSE IF chosen <= 0 THEN tries' = tries \cup {b} /\ disk' = [disk EXCEPT !.tds = @ \cup {b}]
     ELSE /\ tries' = {c \in tries \cup {b} : Num(c) > chosen}
          /\ disk' = [disk EXCEPT !.tds = @ \cup {b},
                                  !.states = @ \cup IF flush /\ edge \in tries THEN {edge} ELSE {}]

\* The heavier chain wins; on a tie the lower block, or a random one.
Wins(b) ==
  \/ Td(b) > Td(current)
  \/ Td(b) = Td(current) /\ Num(b) <= Num(current)

Loses(b) == Td(b) < Td(current) \/ (Td(b) = Td(current) /\ Num(b) >= Num(current))

\* The blocks that reorg inserts, b last; none when b extends the head.
NewChain(b) ==
  IF Tree[b].parent = current THEN <<>>
  ELSE SelectSeq(Path[b], LAMBDA c : c \notin ToSet(Path[current]))

WriteBlock(b, flush) ==
  /\ write = Idle /\ Tree[b].parent \in disk.tds
  /\ Collect(b, flush)
  /\ \/ Wins(b) /\ write' = [block |-> b, stage |-> "reorg", chain |-> NewChain(b)]
     \/ Loses(b) /\ write' = [block |-> b, stage |-> "side", chain |-> <<>>]
  /\ UNCHANGED <<current, future, work, panicked, torn, rewound>>

WriteImported(flush) ==
  /\ ~ panicked /\ ready # 0
  /\ WriteBlock(ready, flush) /\ ready' = 0 /\ UNCHANGED budget

\* The worker writes a block it has mined, on a parent that was the head once.
WriteMined(b, flush) ==
  /\ ~ panicked /\ b # 1 /\ b \notin disk.blocks /\ HasBlockAndState(Tree[b].parent)
  /\ SpendOn("imports", Imports)
  /\ WriteBlock(b, flush) /\ UNCHANGED ready

WriteUnchanged == UNCHANGED <<tries, future, work, ready, panicked, torn, rewound, budget>>

\* insert, first write: the number index.  The other heads follow unless the block
\* was in the index before, left over from a chain above a head that moved back.
InsertCanonical ==
  /\ write.stage = "reorg" /\ write.chain # <<>>
  /\ LET b == Head(write.chain)
     IN /\ disk' = [disk EXCEPT !.canon[Num(b)] = b]
        /\ write' = [write EXCEPT !.stage = IF disk.canon[Num(b)] = b THEN "head" ELSE "heads"]
  /\ UNCHANGED current /\ WriteUnchanged

\* insert, then the head pointers.
InsertHead ==
  /\ write.stage \in {"head", "heads"}
  /\ disk' = [disk EXCEPT !.headBlock = Head(write.chain),
                          !.headHeader = IF write.stage = "heads" THEN Head(write.chain) ELSE @]
  /\ current' = Head(write.chain)
  /\ write' = [write EXCEPT !.stage = "reorg", !.chain = Tail(@)]
  /\ WriteUnchanged

\* The batch with the block's header, body and receipts.
WriteBatch ==
  /\ write.stage = "side" \/ (write.stage = "reorg" /\ write.chain = <<>>)
  /\ disk' = [disk EXCEPT !.blocks = @ \cup {write.block}]
  /\ write' = IF write.stage = "side" THEN Idle ELSE [write EXCEPT !.stage = "insert"]
  /\ future' = IF write.stage = "side" THEN future \ {write.block} ELSE future
  /\ UNCHANGED <<current, tries, work, ready, panicked, torn, rewound, budget>>

\* A variant that forgets the number index.
InsertBlockOnly ==
  /\ write.stage = "insert"
  /\ disk' = [disk EXCEPT !.headBlock = write.block]
  /\ current' = write.block
  /\ write' = Idle
  /\ future' = future \ {write.block}
  /\ UNCHANGED <<tries, work, ready, panicked, torn, rewound, budget>>

\* The insert that ends WriteBlockWithState.
InsertBlock ==
  /\ write.stage = "insert"
  /\ LET b == write.block
         updateHeads == disk.canon[Num(b)] # b
     IN /\ disk' = [disk EXCEPT !.canon[Num(b)] = b, !.headBlock = b,
                                !.headHeader = IF updateHeads THEN b ELSE @]
        /\ current' = b
        /\ future' = future \ {b}
  /\ write' = Idle
  /\ UNCHANGED <<tries, work, ready, panicked, torn, rewound, budget>>
-----------------------------------------------------------------------------
(* Rewinding, stopping, crashing, starting                                  *)

\* A variant that stays where it is.
RepairedNot(b, states) == b

\* repair: back to a block with state.
Repaired(b, states) ==
  LET path == Path[b] IN path[Max({i \in DOMAIN path : path[i] \in states})]

\* SetHead: headers and bodies above n are deleted along the header chain, and the
\* head is not above the header that is left.
SetHead(n) ==
  /\ ~ panicked /\ write = Idle /\ n < Max({Num(disk.headHeader), Num(current)})
  /\ SpendOn("imports", Imports)
  /\ LET path == Path[disk.headHeader]
         top == Min({n, Num(disk.headHeader)})
         gone == ToSet(SubSeq(path, top + 2, Len(path)))
         target == IF top < Num(current) THEN path[top + 1] ELSE current
         head == IF HasState(target) THEN target ELSE 1
     IN /\ disk' = [disk EXCEPT !.blocks = @ \ gone, !.tds = @ \ gone,
                                !.canon = [m \in DOMAIN @ |-> IF m > n /\ m < Len(path) THEN 0 ELSE @[m]],
                                !.headBlock = head, !.headHeader = path[top + 1]]
        /\ current' = head
  /\ future' = {} /\ rewound' = TRUE
  /\ UNCHANGED <<tries, work, ready, write, panicked, torn>>

\* NewBlockChain and loadLastState, when memory is lost.  Without the head
\* block, Reset reads currentBlock before it was ever set.
Load(states) ==
  /\ IF disk.headBlock \in disk.blocks
     THEN /\ current' = Repaired(disk.headBlock, states) /\ UNCHANGED panicked
          /\ disk' = [disk EXCEPT !.states = states,
                                  !.headHeader = IF @ \in disk.blocks THEN @ ELSE Repaired(disk.headBlock, states)]
     ELSE panicked' = TRUE /\ UNCHANGED <<current, disk>>
  /\ rewound' = TRUE
  /\ tries' = {} /\ future' = {} /\ work' = <<>> /\ ready' = 0 /\ write' = Idle

Crash ==
  /\ ~ panicked /\ SpendOn("crashes", Crashes)
  /\ torn' = (torn \/ write.stage \in {"head", "heads"} \/ (write.stage = "reorg" /\ write.chain # <<>>)
                   \/ (write.block # 0 /\ disk.headBlock = write.block))
  /\ Load(disk.states)

\* Stop waits for the imports and writes the states of the head, its parent and
\* the oldest block in memory.
StopChain ==
  /\ ~ panicked /\ work = <<>> /\ ready = 0 /\ write = Idle /\ SpendOn("crashes", Crashes)
  /\ Load(disk.states \cup
       IF Archive THEN {}
       ELSE {disk.canon[Num(current) - o] : o \in {p \in {0, 1, TriesInMemory - 1} : Num(current) > p}})
  /\ UNCHANGED torn

ChainNext ==
  \/ \E b \in BlockIds, n \in 1 .. 3 : InsertChain(b, n)
  \/ FutureTick \/ VerifyBlock \/ InsertCanonical \/ InsertHead \/ WriteBatch \/ InsertBlock
  \/ \E flush \in BOOLEAN : WriteImported(flush) \/ \E b \in BlockIds : WriteMined(b, flush)
  \/ \E n \in 0 .. Cardinality(BlockIds) : SetHead(n)
  \/ Crash \/ StopChain

ChainSpec == ChainInit /\ [][ChainNext]_chainVars
-----------------------------------------------------------------------------
\* Between writes the number index is the path to the head, and the head on
\* disk is the one in memory unless start-up has moved back to a block with
\* state; a crash outside a reorganisation changes nothing about that.  No block
\* that the node has is heavier than its head, until it is moved back.
CanonicalChain ==
  /\ write = Idle /\ ~ torn /\ ~ panicked =>
       /\ \A i \in DOMAIN Path[current] : disk.canon[i - 1] = Path[current][i]
       /\ current = disk.headBlock \/ rewound
  /\ write = Idle /\ ~ rewound => \A b \in disk.blocks : Td(b) <= Td(current)

\* The head can be built upon: its block and its state are there, whatever was
\* pruned, rewound, stopped or lost.  Only a crash within a reorganisation, when
\* the new head is on disk before its block, leaves a database that the node
\* cannot start from.
HeadHasState ==
  /\ panicked => torn
  /\ write = Idle /\ ~ panicked => HasBlockAndState(current)
=============================================================================
