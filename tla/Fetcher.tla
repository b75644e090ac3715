------------------------------- MODULE Fetcher -------------------------------
(***************************************************************************)
(* The block fetcher: announced blocks are fetched header first, then the  *)
(* body, and imported in order of their numbers, while peers answer late,  *)
(* twice or never and blocks also arrive by propagation.  One goroutine    *)
(* owns the maps; every import runs in a goroutine of its own.             *)
(***************************************************************************)
EXTENDS Integers, FiniteSets, FiniteSetsExt

CONSTANTS
  Peers,
  Number,       \* hash -> block number; the parent is the block one below
  EmptyBlocks,  \* blocks without transactions: no body is requested
  HashLimit, BlockLimit, MaxUncleDist, MaxQueueDist,
  MaxMessages   \* bound: announcements, propagated blocks and unasked answers

ASSUME FetcherAssumption ==
  /\ \A h \in DOMAIN Number : Number[h] \in Nat \ {0}
  /\ {HashLimit, BlockLimit, MaxUncleDist, MaxQueueDist, MaxMessages} \subseteq Nat

Hashes == DOMAIN Number
NoPeer == "none"
ASSUME NoPeerAssumption == NoPeer \notin Peers

VARIABLES
  f,          \* the fetcher's maps
  importing,  \* hashes with a running import goroutine, and how many
  finished,   \* imports that are done and wait to report it
  asked,      \* requests on the way: <<kind, peer, hash>>
  imported,   \* blocks of the local chain
  polled,     \* the loop waits in its select
  messages    \* messages so far

fetcherVars == <<f, importing, finished, asked, imported, polled, messages>>

Height == Max({0} \cup {Number[h] : h \in imported})
TooFar(h) == Number[h] - Height < -MaxUncleDist \/ Number[h] - Height > MaxQueueDist

FetcherInit ==
  /\ f = [announced |-> [h \in Hashes |-> {}], fetching |-> [h \in Hashes |-> NoPeer],
          fetched |-> [h \in Hashes |-> {}], completing |-> [h \in Hashes |-> NoPeer],
          announces |-> [p \in Peers |-> 0],
          queue |-> {}, queues |-> [p \in Peers |-> 0], queued |-> [h \in Hashes |-> NoPeer]]
  /\ importing = [h \in Hashes |-> 0] /\ finished = {} /\ asked = {} /\ imported = {}
  /\ polled = FALSE /\ messages = 0
-----------------------------------------------------------------------------
One(p, q) == IF p = q THEN 1 ELSE 0
In(p, set) == IF p \in set THEN 1 ELSE 0

\* All traces of announcements of a block; every trace counts its announcer down.
forgetHash(g, h) ==
  [g EXCEPT !.announced[h] = {}, !.fetching[h] = NoPeer, !.fetched[h] = {}, !.completing[h] = NoPeer,
            !.announces = [p \in Peers |-> @[p] - In(p, g.announced[h]) - One(p, g.fetching[h])
                                               - In(p, g.fetched[h]) - One(p, g.completing[h])]]

forgetBlock(g, h) ==
  [g EXCEPT !.queued[h] = NoPeer, !.queues = [p \in Peers |-> @[p] - One(p, g.queued[h])]]

enqueue(g, p, h) ==
  IF g.queues[p] + 1 > BlockLimit \/ TooFar(h) THEN forgetHash(g, h)
  ELSE IF g.queued[h] # NoPeer THEN g
  ELSE [g EXCEPT !.queues[p] = @ + 1, !.queued[h] = p, !.queue = @ \cup {h}]
-----------------------------------------------------------------------------
\* The top of the loop: requests that took too long are dropped, and queued
\* blocks that fit are imported, each in a goroutine.
LoopTop(expired) ==
  /\ ~ polled /\ \A h \in expired : f.fetching[h] # NoPeer
  /\ LET fits == {h \in f.queue : Number[h] <= Height + 1}
         stale == {h \in fits : Number[h] + MaxUncleDist < Height \/ h \in imported}
         g == FoldSet(LAMBDA h, e : forgetHash(e, h), f, expired)
     IN /\ f' = [FoldSet(LAMBDA h, e : forgetBlock(e, h), g, stale) EXCEPT !.queue = @ \ fits]
        /\ importing' = [h \in Hashes |-> importing[h] + In(h, fits \ stale)]
  /\ polled' = TRUE
  /\ UNCHANGED <<finished, asked, imported, messages>>

Event == polled /\ polled' = FALSE
Message == messages < MaxMessages /\ messages' = messages + 1

\* Bound: a peer announces a block again only once its announcement is used up.
Notify(p, h) ==
  /\ Event /\ Message /\ p \notin f.announced[h]
  /\ f' = IF f.announces[p] + 1 > HashLimit \/ TooFar(h)
             \/ f.fetching[h] # NoPeer \/ f.completing[h] # NoPeer
          THEN f
          ELSE [f EXCEPT !.announces[p] = @ + 1, !.announced[h] = @ \cup {p}]
  /\ UNCHANGED <<importing, finished, asked, imported>>

\* A block that a peer has propagated.
Enqueue(p, h) ==
  /\ Event /\ Message
  /\ f' = enqueue(f, p, h)
  /\ UNCHANGED <<importing, finished, asked, imported>>

\* A variant that leaves the block queued.
DoneHash(h) ==
  /\ Event /\ h \in finished
  /\ finished' = finished \ {h}
  /\ f' = forgetHash(f, h)
  /\ UNCHANGED <<importing, asked, imported, messages>>

Done(h) ==
  /\ Event /\ h \in finished
  /\ finished' = finished \ {h}
  /\ f' = forgetBlock(forgetHash(f, h), h)
  /\ UNCHANGED <<importing, asked, imported, messages>>

\* The timer covers every announcement that is old enough; one at a time here.
FetchTimer(h, p) ==
  /\ Event /\ p \in f.announced[h]
  /\ f' = IF h \in imported THEN forgetHash(f, h)
          ELSE [forgetHash(f, h) EXCEPT !.fetching[h] = p]
  /\ asked' = IF h \in imported THEN asked ELSE asked \cup {<<"header", p, h>>}
  /\ UNCHANGED <<importing, finished, imported, messages>>

CompleteTimer(h, p) ==
  /\ Event /\ p \in f.fetched[h]
  /\ f' = IF h \in imported THEN forgetHash(f, h)
          ELSE [forgetHash(f, h) EXCEPT !.completing[h] = p]
  /\ asked' = IF h \in imported THEN asked ELSE asked \cup {<<"body", p, h>>}
  /\ UNCHANGED <<importing, finished, imported, messages>>

\* An answer takes its request off the wire; peers also send what nobody asked for.
Answered(kind, p, h) ==
  \/ <<kind, p, h>> \in asked /\ asked' = asked \ {<<kind, p, h>>} /\ UNCHANGED messages
  \/ Message /\ UNCHANGED asked

FilterHeader(p, h, lied) ==
  /\ Event /\ Answered("header", p, h)
  /\ LET wanted == /\ f.fetching[h] = p /\ f.fetched[h] = {} /\ f.completing[h] = NoPeer
                   /\ f.queued[h] = NoPeer
     IN f' = CASE ~ wanted -> f
               [] wanted /\ (lied \/ h \in imported) -> forgetHash(f, h)
               [] wanted /\ ~ lied /\ h \notin imported /\ h \in EmptyBlocks
                    -> enqueue([f EXCEPT !.completing[h] = p], p, h)
               [] OTHER -> [f EXCEPT !.fetched[h] = {p}]
  /\ UNCHANGED <<importing, finished, imported>>

FilterBody(p, h) ==
  /\ Event /\ Answered("body", p, h)
  /\ f' = IF f.completing[h] # p \/ f.queued[h] # NoPeer THEN f
          ELSE IF h \in imported THEN forgetHash(f, h)
          ELSE enqueue(f, p, h)
  /\ UNCHANGED <<importing, finished, imported>>

\* An import goroutine: fails without the parent, or when the block is invalid.
Import1(h) ==
  /\ importing[h] > 0
  /\ importing' = [importing EXCEPT ![h] = @ - 1]
  /\ finished' = finished \cup {h}
  /\ \/ (Number[h] = 1 \/ \E q \in imported : Number[q] = Number[h] - 1)
        /\ imported' = imported \cup {h}
     \/ UNCHANGED imported
  /\ UNCHANGED <<f, asked, polled, messages>>

FetcherNext ==
  \/ \E expired \in SUBSET Hashes : LoopTop(expired)
  \/ \E h \in Hashes : Done(h) \/ Import1(h)
  \/ \E p \in Peers, h \in Hashes :
       \/ Notify(p, h) \/ Enqueue(p, h) \/ FetchTimer(h, p) \/ CompleteTimer(h, p)
       \/ (\E lied \in BOOLEAN : FilterHeader(p, h, lied)) \/ FilterBody(p, h)

\* The loop runs, imports end, and select does not starve a finished import.
FetcherFairness ==
  /\ WF_fetcherVars(\E expired \in SUBSET Hashes : LoopTop(expired))
  /\ \A h \in Hashes : WF_fetcherVars(Done(h)) /\ WF_fetcherVars(Import1(h))

FetcherSpec == FetcherInit /\ [][FetcherNext]_fetcherVars /\ FetcherFairness
-----------------------------------------------------------------------------
\* The blocks a peer has queued are counted exactly, so the limit neither locks
\* a peer out for good nor stops working; a block is never imported by two
\* goroutines, and never queued while one has it, however often and from however
\* many peers it arrives.
QueueExact ==
  /\ \A p \in Peers : f.queues[p] = Cardinality({h \in Hashes : f.queued[h] = p})
  /\ \A h \in Hashes : importing[h] + In(h, f.queue) + In(h, finished) <= 1

\* A block that is queued is imported or dropped.
QueueDrains ==
  \A h \in Hashes : (h \in f.queue /\ Number[h] <= Height + 1) ~> (f.queued[h] = NoPeer)
=============================================================================
