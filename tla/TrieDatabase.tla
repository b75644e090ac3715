---------------------------- MODULE TrieDatabase ----------------------------
(***************************************************************************)
(* The reference counted cache of trie nodes in front of the database, as  *)
(* the block chain uses it: the trie of every block is inserted on top of  *)
(* a live one and referenced, old ones are dereferenced, some of them are  *)
(* committed first, and a crash keeps what the last written batch left.    *)
(***************************************************************************)
EXTENDS Integers, Sequences, FiniteSets, FiniteSetsExt, SequencesExt

CONSTANTS
  Children,   \* node -> the nodes its blob names; nodes are 1..n, children have smaller numbers
  Roots,      \* the nodes that are state roots
  Retained,   \* triesInMemory
  TrieOps     \* bound: blocks inserted

TrieNodes == DOMAIN Children

ASSUME TrieAssumption ==
  /\ \A n \in TrieNodes : n \in Nat \ {0} /\ Children[n] \subseteq 1..(n - 1) /\ Children[n] \subseteq TrieNodes
  /\ Roots \subseteq TrieNodes /\ Retained \in Nat \ {0} /\ TrieOps \in Nat

VARIABLES
  nodes,     \* cached node -> [parents, children]
  onDisk,
  live,      \* triegc: roots of recent blocks, oldest first
  commit,    \* of a Commit that is running: nodes still to write, children first, and the root
  trieOps

trieVars == <<nodes, onDisk, live, commit, trieOps>>

Reach[n \in TrieNodes] == {n} \cup UNION {Reach[c] : c \in Children[n]}
Descending == SetToSortSeq(TrieNodes, >)
NoCommit == [todo |-> <<>>, root |-> 0]

TrieInit ==
  /\ nodes = << >> /\ onDisk = {} /\ live = <<>>
  /\ commit = NoCommit /\ trieOps = 0
-----------------------------------------------------------------------------
\* hasher.store for every dirty node, children first: insert it unless it is
\* cached, and reference each child that is cached and not yet referenced.
Store(dirty) ==
  LET all == DOMAIN nodes \cup dirty
      old(n) == IF n \in DOMAIN nodes THEN nodes[n] ELSE [parents |-> 0, children |-> {}]
      adds(n) == IF n \in dirty THEN (Children[n] \cap all) \ old(n).children ELSE {}
  IN [n \in all |-> [parents |-> old(n).parents + Cardinality({m \in all : n \in adds(m)}),
                     children |-> old(n).children \cup adds(n)]]

\* The nodes that go when `root' loses a reference, and the counts that remain.
\* A count that is zero already is counted below zero and its node stays.
Dereference(db, root) ==
  LET step(st, n) ==
        LET hits == (IF n = root THEN 1 ELSE 0) + Cardinality({m \in st.gone : n \in db[m].children})
        IN IF n \notin DOMAIN db \/ hits = 0 THEN st
           ELSE IF db[n].parents \in 1..hits THEN [st EXCEPT !.gone = @ \cup {n}]
           ELSE [st EXCEPT !.left[n].parents = @ - hits]
      end == FoldLeft(step, [gone |-> {}, left |-> db], Descending)
  IN [n \in DOMAIN db \ end.gone |-> end.left[n]]

\* What is cached below a node along the recorded children.
Cached(db, root) ==
  LET below == FoldLeft(LAMBDA acc, n : IF n \in DOMAIN db /\ (n = root \/ \E m \in acc : n \in db[m].children)
                                        THEN acc \cup {n} ELSE acc, {}, Descending)
  IN below

\* A block is processed on a state that is available: its new nodes are stored
\* and its root is referenced from outside.
InsertTrie(root, base) ==
  /\ commit = NoCommit /\ Len(live) <= Retained /\ trieOps < TrieOps
  /\ \/ base \in Range(live)
     \/ base \in Roots \cap onDisk
     \/ base = 0 /\ live = <<>> /\ onDisk = {}
  /\ LET clean == IF base = 0 THEN {} ELSE Reach[base]
         db == Store(Reach[root] \ clean)
     IN nodes' = IF root \in DOMAIN db THEN [db EXCEPT ![root].parents = @ + 1] ELSE db
  /\ live' = Append(live, root)
  /\ trieOps' = trieOps + 1
  /\ UNCHANGED <<onDisk, commit>>

\* The oldest trie is one too many, or the chain stops: it is dereferenced.
CollectTrie ==
  /\ commit = NoCommit /\ live # <<>>
  /\ Len(live) > Retained \/ trieOps = TrieOps
  /\ nodes' = Dereference(nodes, Head(live))
  /\ live' = Tail(live)
  /\ UNCHANGED <<onDisk, commit, trieOps>>

\* The order in which commit puts nodes into batches: children first.
BatchOrder(db, root) == SetToSortSeq(Cached(db, root), <)

\* Commit of the oldest trie, before it is collected, or at shutdown of any.
StartCommit(root) ==
  /\ commit = NoCommit /\ root \in Range(live)
  /\ root = Head(live) \/ trieOps = TrieOps
  /\ commit' = [todo |-> BatchOrder(nodes, root), root |-> root]
  /\ UNCHANGED <<nodes, onDisk, live, trieOps>>

\* A batch is full and written.
FlushBatch(n) ==
  /\ commit.root # 0 /\ n \in 1..Len(commit.todo)
  /\ onDisk' = onDisk \cup Range(SubSeq(commit.todo, 1, n))
  /\ commit' = [commit EXCEPT !.todo = SubSeq(@, n + 1, Len(@))]
  /\ UNCHANGED <<nodes, live, trieOps>>

\* A variant that uncaches while the last batch is still to be written.
UncacheEarly ==
  /\ commit.root # 0
  /\ nodes' = [n \in DOMAIN nodes \ Cached(nodes, commit.root) |-> nodes[n]]
  /\ commit' = IF commit.todo = <<>> THEN NoCommit ELSE commit
  /\ UNCHANGED <<onDisk, live, trieOps>>

Uncache ==
  /\ commit.root # 0 /\ commit.todo = <<>>
  /\ nodes' = [n \in DOMAIN nodes \ Cached(nodes, commit.root) |-> nodes[n]]
  /\ commit' = NoCommit
  /\ UNCHANGED <<onDisk, live, trieOps>>

CrashTrie ==
  /\ nodes' = << >> /\ live' = <<>>
  /\ commit' = NoCommit
  /\ onDisk # {}
  /\ UNCHANGED <<onDisk, trieOps>>

TrieNext ==
  \/ \E root \in Roots, base \in Roots \cup {0} : InsertTrie(root, base)
  \/ CollectTrie \/ Uncache \/ CrashTrie
  \/ \E root \in Roots : StartCommit(root)
  \/ \E n \in 1..Cardinality(TrieNodes) : FlushBatch(n)

TrieSpec == TrieInit /\ [][TrieNext]_trieVars
-----------------------------------------------------------------------------
\* Every node of a live trie can be read, from memory or from disk: counting
\* references never frees a node that a recent block shares with an older one.
\* A root on disk stands for its whole trie, also after a crash between two
\* batches, since HasState looks at the root only.
LiveIsReadable ==
  /\ \A i \in 1..Len(live) : Reach[live[i]] \subseteq DOMAIN nodes \cup onDisk
  /\ \A n \in onDisk : Children[n] \subseteq onDisk
=============================================================================
