---------------------------- MODULE DownloadQueue ----------------------------
(***************************************************************************)
(* One synchronisation of the downloader: a skeleton of headers is filled  *)
(* in batches, the processor schedules the headers, bodies and (in fast    *)
(* sync) receipts are reserved to peers, delivered, expired or revoked,    *)
(* and complete results leave the cache in order.  Answers come late, cut  *)
(* short, empty, or to a request that has expired meanwhile.               *)
(***************************************************************************)
EXTENDS Integers, Sequences, FiniteSets, FiniteSetsExt, SequencesExt

CONSTANTS
  SyncPeers,
  GoodPeers,    \* answer every request in full before it expires
  Batches,      \* headers of the skeleton, each the last one of a batch
  MaxHeaderFetch,
  NoBody,       \* numbers of blocks without transactions
  NoReceipt,    \* numbers of blocks without receipts
  FastSync,     \* receipts are downloaded too
  BlockCacheItems, MaxResultsProcess, MaxHeadersProcess, MaxQueuedHeaders,
  Capacity,     \* items asked of a peer at once
  DropBelow,    \* an expired request for no more than this drops the peer
  Faults        \* bound: requests to peers that may fail

Target == Batches * MaxHeaderFetch
Nums == 1..Target
Kinds == IF FastSync THEN {"body", "receipt"} ELSE {"body"}
Noop(k) == IF k = "body" THEN NoBody ELSE NoReceipt

ASSUME DownloadAssumption ==
  /\ GoodPeers \subseteq SyncPeers /\ FastSync \in BOOLEAN
  /\ {Batches, MaxHeaderFetch, BlockCacheItems, MaxResultsProcess, MaxHeadersProcess,
      MaxQueuedHeaders, Capacity} \subseteq Nat \ {0}
  /\ {DropBelow, Faults} \subseteq Nat

VARIABLES
  hdrs,        \* the header half of the queue
  procCh,      \* headerProcCh and what processHeaders has in hand: ranges <<first, last>>
  scheduled,   \* headers the processor has scheduled
  parts,       \* per kind: task pool, task queue, pending requests, done pool
  cache,       \* per number: parts still missing; -1 without a result container
  offset,      \* results taken out of the cache
  slots,       \* slots of the cache the memory allowance leaves
  registered, busy, lacking,  \* the peer set and each peer's flags
  wire,        \* answers on the way
  failed,      \* errInvalidChain or errBadPeer ended the synchronisation
  faults

downloadVars == <<hdrs, procCh, scheduled, parts, cache, offset, slots, registered, busy, lacking,
                  wire, failed, faults>>
vHead == <<hdrs, procCh>>
vPart == <<scheduled, parts, cache, offset, slots>>
vPeer == <<registered, busy, lacking, wire, faults>>

DownloadInit ==
  /\ hdrs = [tasks |-> 1..Batches, queue |-> [b \in 1..Batches |-> 1], pend |-> [p \in SyncPeers |-> 0],
             miss |-> [p \in SyncPeers |-> {}], results |-> {}, proced |-> 0, filling |-> TRUE]
  /\ procCh = [queued |-> <<>>, inHand |-> <<>>]
  /\ parts = [k \in Kinds |-> [tasks |-> {}, queue |-> [n \in Nums |-> 0],
                              pend |-> [p \in SyncPeers |-> <<>>], done |-> {}]]
  /\ cache = [n \in Nums |-> -1]
  /\ scheduled = 0 /\ offset = 0 /\ slots = BlockCacheItems
  /\ registered = SyncPeers
  /\ busy = [k \in Kinds \cup {"header"} |-> {}]
  /\ lacking = [p \in SyncPeers |-> {}]
  /\ wire = {} /\ failed = FALSE /\ faults = 0
-----------------------------------------------------------------------------
\* The bound: only requests to good peers are free.
Spend(p) == IF p \in GoodPeers THEN UNCHANGED faults ELSE faults < Faults /\ faults' = faults + 1

\* The header queue.
ReserveHeaders(p) ==
  /\ hdrs.filling /\ p \in registered \ busy["header"] /\ hdrs.pend[p] = 0
  /\ LET free == {b \in 1..Batches : hdrs.queue[b] > 0 /\ b \notin hdrs.miss[p]}
     IN /\ free # {}
        /\ hdrs' = [hdrs EXCEPT !.queue[Min(free)] = @ - 1, !.pend[p] = Min(free)]
        /\ wire' = wire \cup {[kind |-> "header", peer |-> p, items |-> <<Min(free)>>]}
  /\ busy' = [busy EXCEPT !["header"] = @ \cup {p}]
  /\ Spend(p)
  /\ UNCHANGED <<procCh, vPart, registered, lacking, failed>>

\* The batches of the result cache that can be handed on, from proced.
ReadyBatches(results) ==
  {b \in results : b * MaxHeaderFetch > hdrs.proced /\ \A c \in 1..b : c \in results}

\* An answer: the batch that was asked for, or nothing.  It is held against
\* whatever request the peer has by now.
DeliverHeaders(m, full) ==
  /\ hdrs.filling /\ m \in wire /\ m.kind = "header" /\ (m.peer \in GoodPeers => full)
  /\ wire' = wire \ {m}
  /\ LET p == m.peer
         b == hdrs.pend[p]
         accepted == full /\ m.items = <<b>>
         results == hdrs.results \cup {b}
         send == ReadyBatches(results) # {} /\ procCh.queued = <<>>
         upto == Max(ReadyBatches(results)) * MaxHeaderFetch
     IN /\ IF p \notin registered \/ b = 0 THEN UNCHANGED vHead
           ELSE IF ~ accepted
           THEN /\ hdrs' = [hdrs EXCEPT !.pend[p] = 0, !.miss[p] = @ \cup {b}, !.queue[b] = @ + 1]
                /\ UNCHANGED procCh
           ELSE /\ hdrs' = [hdrs EXCEPT !.pend[p] = 0, !.results = results, !.tasks = @ \ {b},
                                        !.proced = IF send THEN upto ELSE @]
                /\ procCh' = IF send THEN [procCh EXCEPT !.queued = << <<hdrs.proced + 1, upto>> >>] ELSE procCh
        /\ busy' = IF p \in registered THEN [busy EXCEPT !["header"] = @ \ {p}] ELSE busy
  /\ UNCHANGED <<vPart, registered, lacking, failed, faults>>

\* A variant that leaves it at what the processor has.
RetrieveHeadersNone ==
  /\ hdrs.filling /\ hdrs.tasks = {} /\ procCh.queued = <<>>
  /\ hdrs' = [hdrs EXCEPT !.filling = FALSE]
  /\ UNCHANGED <<procCh, vPart, vPeer, failed>>

\* fillHeaderSkeleton returns; what the processor does not have yet follows.
RetrieveHeaders ==
  /\ hdrs.filling /\ hdrs.tasks = {} /\ procCh.queued = <<>>
  /\ hdrs' = [hdrs EXCEPT !.filling = FALSE]
  /\ procCh' = IF hdrs.proced < Target THEN [procCh EXCEPT !.queued = << <<hdrs.proced + 1, Target>> >>] ELSE procCh
  /\ UNCHANGED <<vPart, vPeer, failed>>
-----------------------------------------------------------------------------
\* processHeaders: take a range, then schedule it in chunks, stalling while
\* too many headers are pending.
TakeHeaders ==
  /\ procCh.inHand = <<>> /\ procCh.queued # <<>>
  /\ procCh' = [queued |-> <<>>, inHand |-> Head(procCh.queued)]
  /\ UNCHANGED <<hdrs, vPart, vPeer, failed>>

Queued(k) == Cardinality({n \in Nums : parts[k].queue[n] > 0})

Schedule ==
  /\ procCh.inHand # <<>> /\ ~ failed
  /\ \A k \in Kinds : Queued(k) < MaxQueuedHeaders
  /\ LET first == procCh.inHand[1]
         last == Min({procCh.inHand[2], first + MaxHeadersProcess - 1})
         fits == first = scheduled + 1
     IN /\ failed' = ~ fits
        /\ scheduled' = IF fits THEN last ELSE scheduled
        /\ parts' = IF ~ fits THEN parts
                   ELSE [k \in Kinds |->
                           [parts[k] EXCEPT !.tasks = @ \cup (first..last),
                                           !.queue = [n \in Nums |-> IF n \in first..last THEN @[n] + 1 ELSE @[n]]]]
        /\ procCh' = [procCh EXCEPT !.inHand = IF last = @[2] THEN <<>> ELSE <<last + 1, @[2]>>]
  /\ UNCHANGED <<hdrs, cache, offset, slots, vPeer>>
-----------------------------------------------------------------------------
resultSlots(k) ==
  LET window == offset + 1 .. Min({Target, offset + slots})
      finished == {n \in window : n \in parts[k].done /\ \A m \in offset + 1 .. n : cache[m] # -1}
      pending == {n \in 1 .. offset + slots : \E p \in SyncPeers : n \in Range(parts[k].pend[p])}
  IN slots - Cardinality(finished) - Cardinality(pending)

\* reserveHeaders for bodies or receipts: the lowest numbers that fit, until
\* enough are asked for; empty parts are done at once, what the peer lacks is
\* put back.  A number beyond the cache is errInvalidChain.
Reserve(k, p) ==
  /\ ~ failed /\ p \in registered \ busy[k] /\ parts[k].pend[p] = <<>>
  /\ LET queued == {n \in Nums : parts[k].queue[n] > 0}
         asks(n) == n \notin Noop(k) \cup lacking[p]
         taken == {n \in queued : /\ Cardinality({m \in queued : m <= n}) <= resultSlots(k)
                                  /\ Cardinality({m \in queued : m < n /\ asks(m)}) < Capacity}
         noops == taken \cap Noop(k)
         send == {n \in taken : asks(n)}
         overrun == \E n \in taken : n > offset + BlockCacheItems \/ n <= offset
     IN /\ taken # {}
        /\ failed' = overrun
        /\ parts' = [parts EXCEPT ![k].queue = [n \in Nums |-> IF n \in noops \cup send THEN @[n] - 1 ELSE @[n]],
                                ![k].tasks = @ \ noops, ![k].done = @ \cup noops,
                                ![k].pend[p] = SetToSortSeq(send, <)]
        /\ cache' = [n \in Nums |->
                       (IF n \in taken /\ cache[n] = -1 THEN Cardinality(Kinds) ELSE cache[n])
                         - (IF n \in noops THEN 1 ELSE 0)]
        /\ IF send = {} THEN UNCHANGED <<wire, busy, faults>>
           ELSE /\ wire' = wire \cup {[kind |-> k, peer |-> p, items |-> SetToSortSeq(send, <)]}
                /\ busy' = [busy EXCEPT ![k] = @ \cup {p}]
                /\ Spend(p)
  /\ UNCHANGED <<vHead, scheduled, offset, slots, registered, lacking>>

\* A variant that forgets the items of a request that were not delivered.
PutBackNone(queue, items) == queue

PutBack(queue, items) == [n \in DOMAIN queue |-> IF n \in Range(items) THEN queue[n] + 1 ELSE queue[n]]

\* deliver: the first `count' items of an answer, held against the request the
\* peer has by now; the first that does not match ends it.
Deliver(m, count) ==
  /\ ~ failed /\ m \in wire /\ m.kind # "header" /\ (m.peer \in GoodPeers => count = Len(m.items))
  /\ wire' = wire \ {m}
  /\ LET p == m.peer
         k == m.kind
         request == parts[k].pend[p]
         tried == Min({count, Len(request)})
         good == Max({i \in 0..tried : \A j \in 1..i : m.items[j] = request[j]})
         accepted == {request[i] : i \in 1..good}
         stale == good = 0 /\ tried > 0
     IN IF p \notin registered THEN UNCHANGED <<parts, cache, busy, lacking, failed>>
        ELSE /\ parts' = [parts EXCEPT ![k].pend[p] = <<>>, ![k].done = @ \cup accepted, ![k].tasks = @ \ accepted,
                                     ![k].queue = PutBack(@, SubSeq(request, good + 1, Len(request)))]
             /\ cache' = [n \in Nums |-> IF n \in accepted THEN cache[n] - 1 ELSE cache[n]]
             /\ failed' = \E i \in 1..Min({good + 1, tried}) : cache[request[i]] = -1
             /\ lacking' = IF count = 0 THEN [lacking EXCEPT ![p] = @ \cup Range(request)] ELSE lacking
             /\ busy' = IF stale THEN busy ELSE [busy EXCEPT ![k] = @ \ {p}]
  /\ UNCHANGED <<vHead, scheduled, offset, slots, registered, faults>>

\* UnregisterPeer: the peer is gone; its body and receipt requests are revoked.
Dropped(p, q) == [k \in Kinds |-> [q[k] EXCEPT !.pend[p] = <<>>, !.queue = PutBack(@, q[k].pend[p])]]
Unregister(p) ==
  /\ registered' = registered \ {p}
  /\ busy' = [k \in DOMAIN busy |-> busy[k] \ {p}]
  /\ lacking' = [lacking EXCEPT ![p] = {}]

DropPeer(p) ==
  /\ p \in registered \ GoodPeers
  /\ parts' = Dropped(p, parts)
  /\ Unregister(p)
  /\ UNCHANGED <<vHead, scheduled, cache, offset, slots, wire, failed, faults>>

Register(p) ==
  /\ p \notin registered /\ faults < Faults
  /\ registered' = registered \cup {p}
  /\ UNCHANGED <<vHead, vPart, busy, lacking, wire, failed, faults>>

\* A request has taken too long; a peer that could not even manage a small one
\* is dropped.
Expire(k, p) ==
  /\ parts[k].pend[p] # <<>> /\ p \notin GoodPeers
  /\ LET back == [parts EXCEPT ![k].queue = PutBack(@, parts[k].pend[p]), ![k].pend[p] = <<>>]
     IN IF p \in registered /\ Len(parts[k].pend[p]) <= DropBelow
        THEN parts' = Dropped(p, back) /\ Unregister(p)
        ELSE /\ parts' = back
             /\ busy' = [busy EXCEPT ![k] = @ \ {p}]
             /\ UNCHANGED <<registered, lacking>>
  /\ UNCHANGED <<vHead, scheduled, cache, offset, slots, wire, failed, faults>>

ExpireHeaders(p) ==
  /\ hdrs.filling /\ hdrs.pend[p] # 0 /\ p \notin GoodPeers
  /\ hdrs' = [hdrs EXCEPT !.pend[p] = 0, !.queue[hdrs.pend[p]] = @ + 1]
  /\ IF p \in registered THEN parts' = Dropped(p, parts) /\ Unregister(p)
     ELSE UNCHANGED <<parts, registered, busy, lacking>>
  /\ UNCHANGED <<procCh, scheduled, cache, offset, slots, wire, failed, faults>>

\* Results: the complete prefix of the cache, at most a batch of it; the
\* average size, and with it the allowance, changes.
Results(newLimit) ==
  /\ LET ready == {n \in offset + 1 .. Min({Target, offset + BlockCacheItems}) :
                     \A m \in offset + 1 .. n : cache[m] = 0}
         taken == offset + 1 .. offset + Min({Cardinality(ready), MaxResultsProcess})
     IN /\ taken # {}
        /\ parts' = [k \in Kinds |-> [parts[k] EXCEPT !.done = @ \ taken]]
        /\ cache' = [n \in Nums |-> IF n \in taken THEN -1 ELSE cache[n]]
        /\ offset' = Max(taken)
  /\ slots' = newLimit
  /\ UNCHANGED <<vHead, scheduled, vPeer, failed>>

DownloadNext ==
  \/ RetrieveHeaders \/ TakeHeaders \/ Schedule
  \/ \E p \in SyncPeers : ReserveHeaders(p) \/ ExpireHeaders(p) \/ DropPeer(p) \/ Register(p)
  \/ \E m \in wire : (\E full \in BOOLEAN : DeliverHeaders(m, full)) \/ (\E c \in 0..Len(m.items) : Deliver(m, c))
  \/ \E k \in Kinds, p \in SyncPeers : Reserve(k, p) \/ Expire(k, p)
  \/ \E n \in 1..BlockCacheItems : Results(n)

DownloadStep(g, k, p) ==
  CASE g = "headers"  -> RetrieveHeaders \/ TakeHeaders
    [] g = "schedule" -> Schedule
    [] g = "results"  -> \E n \in 1..BlockCacheItems : Results(n)
    [] g = "expire"   -> IF k = "header" THEN ExpireHeaders(p) ELSE k \in Kinds /\ Expire(k, p)
    [] g = "reserve"  -> IF k = "header" THEN ReserveHeaders(p) ELSE k \in Kinds /\ Reserve(k, p)
    [] g = "answer"   -> \E m \in wire : m.peer = p /\ (DeliverHeaders(m, TRUE) \/ Deliver(m, Len(m.items)))

DownloadSteps ==
  ({"headers", "schedule", "results"} \X {"header"} \X {"none"})
    \cup ({"expire"} \X {"header", "body", "receipt"} \X SyncPeers)
    \cup ({"reserve"} \X {"header", "body", "receipt"} \X GoodPeers)
    \cup ({"answer"} \X {"header"} \X GoodPeers)

\* The goroutines of a synchronisation run; the ticker makes fetchParts expire
\* and reserve; good peers answer.
DownloadFairness == \A s \in DownloadSteps : WF_downloadVars(DownloadStep(s[1], s[2], s[3]))

DownloadSpec == DownloadInit /\ [][DownloadNext]_downloadVars /\ DownloadFairness
-----------------------------------------------------------------------------
\* Every task is in one place: the task queue or the request of one peer, until
\* its part is done, through expiry, late answers, revocation and throttling.  A
\* result leaves the cache only when all its parts are there: the count of
\* missing parts agrees with the tasks left, and the synchronisation is never
\* ended by numbers out of order or beyond the cache.
TasksInOnePlace ==
  /\ \A k \in Kinds, n \in Nums :
       parts[k].queue[n] + Cardinality({p \in SyncPeers : n \in Range(parts[k].pend[p])})
         = (IF n \in parts[k].tasks THEN 1 ELSE 0)
  /\ hdrs.filling => \A b \in 1..Batches :
       hdrs.queue[b] + Cardinality({p \in SyncPeers : hdrs.pend[p] = b}) = (IF b \in hdrs.tasks THEN 1 ELSE 0)
  /\ ~ failed
  /\ \A n \in offset + 1 .. scheduled :
       cache[n] # -1 => cache[n] = Cardinality({k \in Kinds : n \in parts[k].tasks})

\* With one peer that answers, everything is downloaded, whatever the others do.
AllDownloaded == <>(offset = Target)
=============================================================================
