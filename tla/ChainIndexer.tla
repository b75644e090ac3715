---------------------------- MODULE ChainIndexer ----------------------------
(***************************************************************************)
(* The chain indexer of core/chain_indexer.go: the event loop that follows *)
(* the chain head, the update loop that processes one section at a time    *)
(* with the lock released, and the cascade from an indexer to its child.   *)
(* The chain moves on under both (the events it posts are queued).         *)
(***************************************************************************)
EXTENDS Integers, Sequences, FiniteSetsExt

CONSTANTS
    Parent,        \* the block tree: Parent[b] of block b, 0 for the genesis block 1
    SectionSize,   \* per indexer (1 the outer one, 2 its child), blocks in a section
    Confirms,      \* per indexer, confirmsReq
    MaxReorg,      \* how many blocks a reorganisation may replace
    MaxEvents      \* the buffer of the event channel

ASSUME IndexerAssumption ==
    /\ Parent[1] = 0 /\ \A b \in DOMAIN Parent : Parent[b] \in 0 .. b - 1
    /\ \A i \in {1, 2} : SectionSize[i] \in Nat \ {0} /\ Confirms[i] \in Nat
    /\ {MaxReorg, MaxEvents} \subseteq Nat

VARIABLES
    tip,       \* the head of the canonical chain in the database
    chainEvents,  \* ChainEvents not yet received by the event loop
    prev,      \* prevHeader of the event loop
    rest,      \* the header whose second newHead call is still to come, or 0
    index,     \* per indexer: known, stored, heads, cascaded, update
    process,   \* per indexer: the section processSection works on
    timer      \* per indexer: a pending AfterFunc

indexVars == <<tip, chainEvents, prev, rest, index, process, timer>>

Indexers == {1, 2}
Headers == DOMAIN Parent

(* The ancestors of a block, from the genesis block on, and its number. *)
Line ==
    LET line[b \in Headers \union {0}] == IF b = 0 THEN <<>> ELSE Append(line[Parent[b]], b)
    IN [b \in Headers |-> line[b]]
Depth == [b \in Headers |-> Len(Line[b]) - 1]

(* GetCanonicalHash: the block of that number, 0 when there is none. *)
CanonicalAt(head, n) == IF n \in 0 .. Depth[head] THEN Line[head][n + 1] ELSE 0

FindCommonAncestor(a, b) ==
    LET both == {n \in 1 .. Len(Line[a]) : n <= Len(Line[b]) /\ Line[a][n] = Line[b][n]}
    IN Line[a][Max(both)]

Unused == [busy |-> FALSE, section |-> 0, old |-> 0, next |-> 0, last |-> 0, failed |-> FALSE]

SectionNumbers == 0 .. Cardinality(Headers)

IndexerInit ==
    /\ tip = 1 /\ chainEvents = <<>> /\ prev = 1 /\ rest = 1
    /\ index = [i \in Indexers |-> [known |-> 0, stored |-> 0, cascaded |-> 0, update |-> FALSE,
                                    heads |-> [s \in SectionNumbers |-> 0]]]
    /\ process = [i \in Indexers |-> Unused]
    /\ timer = [i \in Indexers |-> FALSE]

(* A block becomes the canonical head; the feed waits while the channel is full. *)
NewHead(b) ==
    /\ Depth[b] = Depth[tip] + 1
    /\ Depth[tip] - Depth[FindCommonAncestor(tip, b)] <= MaxReorg
    /\ Len(chainEvents) < MaxEvents
    /\ tip' = b
    /\ chainEvents' = Append(chainEvents, b)
    /\ UNCHANGED <<prev, rest, index, process, timer>>

-----------------------------------------------------------------------------

(* SectionHead: 0 for a section without one, as for the number before 0. *)
SectionHead(c, s) == IF s \in SectionNumbers THEN c.heads[s] ELSE 0

setValidSections(c, n) ==
    [c EXCEPT !.stored = n,
              !.heads = [s \in SectionNumbers |-> IF s >= n /\ s < c.stored THEN 0 ELSE @[s]]]

(***************************************************************************)
(* newHead.  After a reorganisation the sections that reach beyond the     *)
(* common ancestor are dropped, here and, when they were cascaded, below.  *)
(***************************************************************************)
RolledBack(c, size, head) ==
    LET changed == head \div size
        known == [c EXCEPT !.known = Min({@, changed})]
    IN IF changed < c.stored THEN setValidSections(known, changed) ELSE known

Reorged(idx, head) ==
    LET changed == (head \div SectionSize[1]) * SectionSize[1]
        c == RolledBack(idx[1], SectionSize[1], head)
    IN IF changed < c.cascaded
       THEN [idx EXCEPT ![1] = [c EXCEPT !.cascaded = changed],
                        ![2] = RolledBack(idx[2], SectionSize[2], changed)]
       ELSE [idx EXCEPT ![1] = c]

(* The sections whose last block has its confirmations. *)
SectionsAt(i, head) == IF head >= Confirms[i] THEN (head + 1 - Confirms[i]) \div SectionSize[i] ELSE 0

Advanced(idx, i, head) ==
    IF SectionsAt(i, head) > idx[i].known
    THEN [idx EXCEPT ![i].known = SectionsAt(i, head), ![i].update = TRUE]
    ELSE idx

(* The event loop: a header whose parent is not the last one seen. *)
EventReorg ==
    /\ rest = 0 /\ chainEvents # <<>> /\ Parent[Head(chainEvents)] # prev
    /\ index' = Reorged(index, Depth[FindCommonAncestor(prev, Head(chainEvents))])
    /\ rest' = Head(chainEvents) /\ prev' = Head(chainEvents) /\ chainEvents' = Tail(chainEvents)
    /\ UNCHANGED <<tip, process, timer>>

EventNext ==
    /\ rest = 0 /\ chainEvents # <<>> /\ Parent[Head(chainEvents)] = prev
    /\ index' = Advanced(index, 1, Depth[Head(chainEvents)])
    /\ prev' = Head(chainEvents) /\ chainEvents' = Tail(chainEvents)
    /\ UNCHANGED <<tip, rest, process, timer>>

(* The call without reorg that follows, and the first one of the loop. *)
EventRest ==
    /\ rest # 0
    /\ index' = Advanced(index, 1, Depth[rest])
    /\ rest' = 0
    /\ UNCHANGED <<tip, chainEvents, prev, process, timer>>

-----------------------------------------------------------------------------

(* The update loop takes the notification; the lock is released after this. *)
UpdateBegin(i) ==
    LET c == index[i]
        old == SectionHead(c, c.stored - 1)
    IN /\ ~process[i].busy /\ c.update
       /\ index' = [index EXCEPT ![i].update = FALSE]
       /\ process' = IF c.known > c.stored
                     THEN [process EXCEPT ![i] = [busy |-> TRUE, section |-> c.stored, old |-> old,
                                                  next |-> c.stored * SectionSize[i], last |-> old,
                                                  failed |-> FALSE]]
                     ELSE process
       /\ UNCHANGED <<tip, chainEvents, prev, rest, timer>>

(* processSection reads one header; the chain may move between two reads. *)
ReadHeader(i) ==
    LET p == process[i]
        b == CanonicalAt(tip, p.next)
    IN /\ p.busy /\ ~p.failed /\ p.next < (p.section + 1) * SectionSize[i]
       /\ process' = [process EXCEPT ![i] =
             IF b = 0 \/ Parent[b] # p.last
             THEN [p EXCEPT !.failed = TRUE]
             ELSE [p EXCEPT !.next = @ + 1, !.last = b]]
       /\ UNCHANGED <<tip, chainEvents, prev, rest, index, timer>>

(***************************************************************************)
(* The lock is taken again: the section counts unless the one before it    *)
(* changed meanwhile; the child hears of it; what is left is rescheduled.  *)
(***************************************************************************)
Finished(idx, i, p) ==
    LET c == setValidSections([idx[i] EXCEPT !.heads[p.section] = p.last], p.section + 1)
        head == c.stored * SectionSize[i] - 1
        done == [idx EXCEPT ![i] = [c EXCEPT !.cascaded = head]]
    IN IF p.failed \/ p.old # SectionHead(idx[i], p.section - 1)
       THEN [idx EXCEPT ![i].known = idx[i].stored]
       ELSE IF i = 1 THEN Advanced(done, 2, head) ELSE done

RescheduleNever(i, c) == FALSE

Reschedule(i, c) == c.known > c.stored

UpdateEnd(i) ==
    LET p == process[i]
    IN /\ p.busy /\ (p.failed \/ p.next = (p.section + 1) * SectionSize[i])
       /\ index' = Finished(index, i, p)
       /\ process' = [process EXCEPT ![i] = Unused]
       /\ timer' = [timer EXCEPT ![i] = @ \/ Reschedule(i, index'[i])]
       /\ UNCHANGED <<tip, chainEvents, prev, rest>>

Throttled(i) ==
    /\ timer[i]
    /\ timer' = [timer EXCEPT ![i] = FALSE]
    /\ index' = [index EXCEPT ![i].update = TRUE]
    /\ UNCHANGED <<tip, chainEvents, prev, rest, process>>

EventLoop == EventReorg \/ EventNext \/ EventRest

UpdateLoop(i) == UpdateBegin(i) \/ ReadHeader(i) \/ UpdateEnd(i)

IndexerNext ==
    \/ \E b \in Headers : NewHead(b)
    \/ EventLoop
    \/ \E i \in Indexers : UpdateLoop(i) \/ Throttled(i)

(* Two loops of their own and a timer; new blocks are never owed. *)
IndexerFairness ==
    /\ WF_indexVars(EventLoop)
    /\ \A i \in Indexers : WF_indexVars(UpdateLoop(i)) /\ WF_indexVars(Throttled(i))

IndexerSpec == IndexerInit /\ [][IndexerNext]_indexVars /\ IndexerFairness

-----------------------------------------------------------------------------

(***************************************************************************)
(* While reorganisations replace no more blocks than newHead waits for as  *)
(* confirmations, what the indexers report as indexed is a prefix of the   *)
(* canonical chain as far as they have heard of it, although sections are  *)
(* read without the lock: the head stored for every valid section is the   *)
(* canonical block of its last number.                                     *)
(***************************************************************************)
SectionsCanonical ==
    chainEvents = <<>> /\ rest = 0 =>
       \A i \in Indexers : \A s \in 0 .. index[i].stored - 1 :
          index[i].heads[s] = CanonicalAt(tip, (s + 1) * SectionSize[i] - 1)

(***************************************************************************)
(* The index follows the chain: no notification is lost in the one-place   *)
(* update channels: every section the chain confirms is indexed in the     *)
(* end, by the child as far as the outer indexer is.                       *)
(***************************************************************************)
IndexFollows ==
    <>[](/\ index[1].stored >= SectionsAt(1, Depth[tip])
         /\ index[2].stored >= SectionsAt(2, index[1].stored * SectionSize[1] - 1))
=============================================================================
