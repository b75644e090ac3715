----------------------------- MODULE StateSync -----------------------------
(***************************************************************************)
(* Download of the state of fast sync's pivot block.  TrieSync knows which *)
(* nodes are wanted, and lets a node be stored only after all it refers to *)
(* is.  stateSync.loop hands wanted nodes to idle peers; runStateSync      *)
(* follows the requests that are under way, with answers, timeouts and     *)
(* lost connections.  The pivot may move, and the node may crash.          *)
(***************************************************************************)
EXTENDS Naturals, Sequences, FiniteSets, SequencesExt, FiniteSetsExt, Functions

CONSTANTS
  Refs,          \* what a trie node, account or code refers to, an entry per reference
  StateRoots,    \* roots that are synchronised
  StatePeers,    \* remote nodes
  HonestPeers,   \* those that stay connected and answer in full
  NodeCapacity,  \* nodes that are asked for in one request, at least 2 (NodeDataCapacity)
  StateSyncs,    \* bound: synchronisations
  StateFaults    \* bound: lost connections, cancellations, crashes

StateNodes == DOMAIN Refs

ASSUME StateSyncAssumption ==
  /\ \A n \in StateNodes : Range(Refs[n]) \subseteq StateNodes
  /\ StateRoots \subseteq StateNodes /\ HonestPeers \subseteq StatePeers
  /\ NodeCapacity \in Nat \ {0, 1} /\ StateSyncs \in Nat /\ StateFaults \in Nat

VARIABLES
  ts,         \* TrieSync: status of requests, deps, references by parents, queue, membatch
  synced,     \* nodes in the database
  retry,      \* stateSync.tasks: attempts for each node to ask for
  loopAt,     \* where loop is, the root, the peers it still goes through, cancel
  inFlight,   \* active of runStateSync: a request for each peer, or NoRequest
  answered,   \* finished of runStateSync
  dropEvents, \* peerDrop channel
  conns,      \* connection of each peer: its number, whether it is up, stateIdle
  newConn,    \* there is something in the newPeer channel
  onWire,     \* requests sent to each peer that it has not answered, in order
  stateSpent  \* bound: synchronisations and faults so far

stateSyncVars == <<ts, synced, retry, loopAt, inFlight, answered, dropEvents, conns, newConn, onWire, stateSpent>>

NoRequest == [peer |-> "none"]
NoTasks == [n \in {} |-> {}]
EmptySync ==
  [status |-> [n \in StateNodes |-> "none"], deps |-> [n \in StateNodes |-> 0],
   parents |-> [n \in StateNodes |-> [m \in StateNodes |-> 0]], queue |-> {}, batch |-> {}]
NotSyncing == [pc |-> "idle", root |-> "none", todo |-> {}, cancel |-> FALSE, failed |-> FALSE]

StateSyncInit ==
  /\ ts = EmptySync /\ synced = {} /\ retry = NoTasks /\ loopAt = NotSyncing
  /\ inFlight = [p \in StatePeers |-> NoRequest] /\ answered = <<>> /\ dropEvents = {}
  /\ conns = [p \in StatePeers |-> [id |-> 0, up |-> TRUE, idle |-> TRUE]]
  /\ newConn = FALSE /\ onWire = [p \in StatePeers |-> <<>>]
  /\ stateSpent = [syncs |-> 0, faults |-> 0]

SyncRuns == loopAt.pc \notin {"idle", "done"}
SpendFault == stateSpent.faults < StateFaults /\ stateSpent' = [stateSpent EXCEPT !.faults = @ + 1]
-----------------------------------------------------------------------------
\* In the membatch or in the database.
Known(t, n) == n \in synced \cup t.batch

\* "If we're already requesting this node, add a new reference and stop".
schedule(t, n, parents) ==
  LET u == [t EXCEPT !.parents[n] = [m \in StateNodes |-> @[m] + parents[m]]]
  IN IF t.status[n] # "none" THEN u
     ELSE [u EXCEPT !.status[n] = "wanted", !.queue = @ \cup {n}]

\* References of n to c.
Count(n, c) == Cardinality({i \in DOMAIN Refs[n] : Refs[n][i] = c})

\* AddSubTrie of NewTrieSync.
NewTrieSync(root) ==
  IF root \in synced THEN EmptySync ELSE schedule(EmptySync, root, EmptySync.parents[root])

\* The parents hear of it once for each of their references.
RECURSIVE commitRequest(_, _)
commitRequest(t, n) ==
  FoldSet(LAMBDA p, u : IF u.deps[p] = t.parents[n][p]
                        THEN commitRequest([u EXCEPT !.deps[p] = 0], p)
                        ELSE [u EXCEPT !.deps[p] = @ - t.parents[n][p]],
          [t EXCEPT !.batch = @ \cup {n}, !.status[n] = "none", !.parents[n] = EmptySync.parents[n]],
          {p \in StateNodes : t.parents[n][p] > 0})

\* Process of one node, with children and the callback for accounts: nodes that
\* were not requested, or twice, are ignored.
Process(n, t) ==
  LET missing == {c \in Range(Refs[n]) : ~ Known(t, c)}
      waits == [t EXCEPT !.status[n] = "processed",
                         !.deps[n] = Cardinality({i \in DOMAIN Refs[n] : Refs[n][i] \in missing})]
  IN IF t.status[n] # "wanted" THEN t
     ELSE IF missing = {} THEN commitRequest(t, n)
     ELSE FoldSet(LAMBDA c, v : schedule(v, c, [EmptySync.parents[c] EXCEPT ![n] = Count(n, c)]),
                  waits, missing)

\* Commit writes the membatch in one batch.
Written(t) == synced \cup t.batch
-----------------------------------------------------------------------------
SetIdle(c, p, id) == IF c[p].up /\ c[p].id = id THEN [c EXCEPT ![p].idle = TRUE] ELSE c

\* syncState: a new synchronisation resets all peers (synchronise), a new pivot
\* does not.
BeginSync(root, reset) ==
  /\ loopAt.pc = "idle" /\ stateSpent.syncs < StateSyncs
  /\ stateSpent' = [stateSpent EXCEPT !.syncs = @ + 1]
  /\ loopAt' = [NotSyncing EXCEPT !.pc = "top", !.root = root]
  /\ ts' = NewTrieSync(root) /\ retry' = NoTasks
  /\ conns' = IF reset THEN [p \in StatePeers |-> [conns[p] EXCEPT !.idle = @ \/ conns[p].up]] ELSE conns
  /\ newConn' = FALSE
  /\ UNCHANGED <<synced, inFlight, answered, dropEvents, onWire>>

\* The deferred commit, and close(s.done); the scheduler and its tasks are garbage.
EndLoop(t, failed) ==
  /\ loopAt' = [loopAt EXCEPT !.pc = "done", !.failed = failed]
  /\ synced' = Written(t) /\ ts' = EmptySync /\ retry' = NoTasks

\* Peers that are left to be given tasks.
Assigning(todo) == [loopAt EXCEPT !.pc = IF todo = {} THEN "wait" ELSE "assign", !.todo = todo]

\* The head of loop: a large membatch is written, then the idle peers are found.
SyncTop ==
  /\ loopAt.pc = "top"
  /\ IF \A n \in StateNodes : ts.status[n] = "none" THEN EndLoop(ts, FALSE)
     ELSE /\ loopAt' = Assigning({<<p, conns[p].id>> : p \in {q \in StatePeers : conns[q].up /\ conns[q].idle}})
          /\ \/ UNCHANGED <<synced, ts>>
             \/ ts.batch # {} /\ synced' = Written(ts) /\ ts' = [ts EXCEPT !.batch = {}]
          /\ UNCHANGED retry
  /\ UNCHANGED <<inFlight, answered, dropEvents, conns, newConn, onWire, stateSpent>>

\* runStateSync tracks a request; one that was under way with the same peer, over
\* another connection, counts as dropped.
Track(r) ==
  /\ inFlight' = [inFlight EXCEPT ![r.peer] = r]
  /\ answered' = IF inFlight[r.peer] = NoRequest THEN answered
                 ELSE Append(answered, [inFlight[r.peer] EXCEPT !.dropped = TRUE])

\* fillTasks for the next idle peer (new tasks from the queue, then tasks that it
\* has not tried), the hand-over to runStateSync, and FetchNodeData.
Assign(p, id) ==
  /\ loopAt.pc = "assign" /\ <<p, id>> \in loopAt.todo
  /\ LET room == Max({0, NodeCapacity - Cardinality(DOMAIN retry)}) IN
     \E popped \in kSubset(Min({room, Cardinality(ts.queue)}), ts.queue) :
       LET tasks == [n \in DOMAIN retry \cup popped |-> IF n \in popped THEN {} ELSE retry[n]]
           untried == {n \in DOMAIN tasks : p \notin tasks[n]}
       IN \E items \in kSubset(Min({NodeCapacity, Cardinality(untried)}), untried) :
            /\ ts' = [ts EXCEPT !.queue = @ \ popped]
            /\ retry' = Restrict(tasks, DOMAIN tasks \ items)
            /\ \/ /\ items # {}
                  /\ Track([peer |-> p, conn |-> id, tasks |-> [n \in items |-> tasks[n] \cup {p}],
                            size |-> Cardinality(items), answer |-> FALSE, response |-> {}, dropped |-> FALSE])
                  /\ IF conns[p].id = id /\ conns[p].up
                     THEN /\ conns' = [conns EXCEPT ![p].idle = FALSE]
                          /\ onWire' = [onWire EXCEPT ![p] = Append(@, items)]
                     ELSE UNCHANGED <<conns, onWire>>
               \/ (items = {} \/ loopAt.cancel) /\ UNCHANGED <<inFlight, answered, conns, onWire>>
  /\ loopAt' = Assigning(loopAt.todo \ {<<p, id>>})
  /\ UNCHANGED <<synced, dropEvents, newConn, stateSpent>>

\* A peer that arrived may be given tasks.
LoopNewPeer ==
  /\ loopAt.pc = "wait" /\ newConn
  /\ loopAt' = [loopAt EXCEPT !.pc = "top"] /\ newConn' = FALSE
  /\ UNCHANGED <<ts, synced, retry, inFlight, answered, dropEvents, conns, onWire, stateSpent>>

LoopCancelled ==
  /\ loopAt.pc = "wait" /\ loopAt.cancel
  /\ EndLoop(ts, TRUE)
  /\ UNCHANGED <<inFlight, answered, dropEvents, conns, newConn, onWire, stateSpent>>

\* The connection of a peer is gone, which runStateSync hears while it runs.
Lost(p, c) == [c EXCEPT ![p].up = FALSE, ![p].idle = FALSE]
Heard(p) == IF loopAt.pc = "idle" THEN dropEvents ELSE dropEvents \cup {p}

\* What is left of the tasks of a request: a peer that has sent something, or
\* nothing in time, may be asked again.
Unfulfilled(r) ==
  [n \in DOMAIN r.tasks \ r.response |->
     IF r.response # {} \/ ~ r.answer THEN r.tasks[n] \ {r.peer} ELSE r.tasks[n]]

\* loop receives a request that has ended: a stalling peer is dropped, process
\* takes what was delivered and puts the rest back, unless all peers have failed.
LoopDeliver ==
  /\ loopAt.pc = "wait" /\ answered # <<>>
  /\ LET r == Head(answered)
         stalls == r.size <= 2 /\ ~ r.dropped /\ ~ r.answer /\ conns[r.peer].up
         after == IF stalls THEN Lost(r.peer, conns) ELSE conns
         t == FoldSet(Process, ts, r.response)
         left == Unfulfilled(r)
         npeers == Cardinality({p \in StatePeers : after[p].up})
     IN /\ onWire' = IF stalls THEN [onWire EXCEPT ![r.peer] = <<>>] ELSE onWire
        /\ dropEvents' = IF stalls THEN Heard(r.peer) ELSE dropEvents
        /\ IF \E n \in DOMAIN left : Cardinality(left[n]) >= npeers
           THEN EndLoop(t, TRUE) /\ conns' = after
           ELSE /\ loopAt' = [loopAt EXCEPT !.pc = "top"] /\ ts' = t
                /\ retry' = [n \in DOMAIN retry \cup DOMAIN left |-> IF n \in DOMAIN left THEN left[n] ELSE retry[n]]
                /\ conns' = SetIdle(after, r.peer, r.conn)
                /\ UNCHANGED synced
  /\ answered' = Tail(answered)
  /\ UNCHANGED <<inFlight, newConn, stateSpent>>
-----------------------------------------------------------------------------
\* A request leaves active for finished.
Finish(r) ==
  /\ inFlight' = [inFlight EXCEPT ![r.peer] = NoRequest]
  /\ answered' = Append(answered, r)

\* Node data arrives: for the request that is under way with this peer, if there
\* is one, whatever it was sent for.  Only an honest peer answers all, in full.
Answer(p, i, response) ==
  /\ i \in DOMAIN onWire[p] /\ response \subseteq onWire[p][i]
  /\ p \in HonestPeers => i = 1 /\ response = onWire[p][1]
  /\ onWire' = [onWire EXCEPT ![p] = SubSeq(@, i + 1, Len(@))]
  /\ IF loopAt.pc = "idle" \/ inFlight[p] = NoRequest THEN UNCHANGED <<inFlight, answered>>
     ELSE Finish([inFlight[p] EXCEPT !.answer = TRUE, !.response = response])
  /\ UNCHANGED <<ts, synced, retry, loopAt, dropEvents, conns, newConn, stateSpent>>

\* A variant in which the timer counts only while the peer is connected.
TimeOutConnected(p) ==
  /\ inFlight[p] # NoRequest /\ (p \in HonestPeers => onWire[p] = <<>>) /\ conns[p].up
  /\ Finish(inFlight[p])
  /\ UNCHANGED <<ts, synced, retry, loopAt, dropEvents, conns, newConn, onWire, stateSpent>>

\* The timer of a request; an honest peer answers before.
TimeOut(p) ==
  /\ inFlight[p] # NoRequest /\ (p \in HonestPeers => onWire[p] = <<>>)
  /\ Finish(inFlight[p])
  /\ UNCHANGED <<ts, synced, retry, loopAt, dropEvents, conns, newConn, onWire, stateSpent>>

PeerDrop ==
  /\ loopAt.pc # "idle"
  /\ \E p \in dropEvents : LET r == inFlight[p] IN
       /\ dropEvents' = dropEvents \ {p}
       /\ IF r = NoRequest THEN UNCHANGED <<inFlight, answered>> ELSE Finish([r EXCEPT !.dropped = TRUE])
  /\ UNCHANGED <<ts, synced, retry, loopAt, conns, newConn, onWire, stateSpent>>

\* runStateSync returns: peers with a request under way are idle again, those with
\* one in finished are not.
RunExit ==
  /\ loopAt.pc = "done"
  /\ loopAt' = NotSyncing
  /\ conns' = [p \in StatePeers |->
                 IF inFlight[p] # NoRequest /\ inFlight[p].conn = conns[p].id /\ conns[p].up
                 THEN [conns[p] EXCEPT !.idle = TRUE] ELSE conns[p]]
  /\ inFlight' = [p \in StatePeers |-> NoRequest] /\ answered' = <<>> /\ dropEvents' = {}
  /\ UNCHANGED <<ts, synced, retry, newConn, onWire, stateSpent>>
-----------------------------------------------------------------------------
Disconnect(p) ==
  /\ p \notin HonestPeers /\ conns[p].up /\ SpendFault
  /\ conns' = Lost(p, conns) /\ onWire' = [onWire EXCEPT ![p] = <<>>]
  /\ dropEvents' = Heard(p)
  /\ UNCHANGED <<ts, synced, retry, loopAt, inFlight, answered, newConn>>

Reconnect(p) ==
  /\ ~ conns[p].up /\ conns[p].id < StateFaults
  /\ conns' = [conns EXCEPT ![p] = [id |-> @.id + 1, up |-> TRUE, idle |-> TRUE]]
  /\ newConn' = SyncRuns
  /\ UNCHANGED <<ts, synced, retry, loopAt, inFlight, answered, dropEvents, onWire, stateSpent>>

\* The pivot has moved, or the synchronisation is given up.
CancelSync ==
  /\ SyncRuns /\ ~ loopAt.cancel /\ SpendFault
  /\ loopAt' = [loopAt EXCEPT !.cancel = TRUE]
  /\ UNCHANGED <<ts, synced, retry, inFlight, answered, dropEvents, conns, newConn, onWire>>

CrashSync ==
  /\ loopAt.pc # "idle" /\ SpendFault
  /\ ts' = EmptySync /\ retry' = NoTasks /\ loopAt' = NotSyncing
  /\ inFlight' = [p \in StatePeers |-> NoRequest] /\ answered' = <<>> /\ dropEvents' = {}
  /\ conns' = [p \in StatePeers |-> [id |-> 0, up |-> TRUE, idle |-> TRUE]]
  /\ newConn' = FALSE /\ onWire' = [p \in StatePeers |-> <<>>]
  /\ UNCHANGED synced

Answers(p) == \E i \in DOMAIN onWire[p] : \E response \in SUBSET onWire[p][i] : Answer(p, i, response)

StateSyncNext ==
  \/ \E root \in StateRoots, reset \in BOOLEAN : BeginSync(root, reset)
  \/ SyncTop \/ LoopNewPeer \/ LoopCancelled \/ LoopDeliver \/ PeerDrop \/ RunExit
  \/ CancelSync \/ CrashSync
  \/ \E p \in StatePeers :
       \/ Answers(p) \/ TimeOut(p) \/ Disconnect(p) \/ Reconnect(p)
       \/ \E id \in 0 .. StateFaults : Assign(p, id)

\* Goroutines go on, timers fire, honest peers answer.
StateSyncSteps == {"loop", "events", "exit"} \cup StatePeers
StateSyncStep(s) ==
  \/ s = "loop" /\ (SyncTop \/ LoopNewPeer \/ LoopCancelled \/ LoopDeliver
                    \/ \E p \in StatePeers, id \in 0 .. StateFaults : Assign(p, id))
  \/ s = "events" /\ PeerDrop
  \/ s = "exit" /\ RunExit
  \/ s \in StatePeers /\ (TimeOut(s) \/ (s \in HonestPeers /\ Answers(s)))
-----------------------------------------------------------------------------
\* A node is in the database only if all it refers to is, whatever is cancelled,
\* switched or lost in between: Has and HasState look at one node only.
StateClosed == \A n \in synced : Range(Refs[n]) \subseteq synced

\* No wanted node is forgotten: it waits in the queue, for another try, or in a
\* request; and a node that was processed waits for as many references as there
\* are requests that will report to it.
NothingForgotten ==
  SyncRuns /\ ~ loopAt.cancel =>
    \A n \in StateNodes :
      /\ ts.status[n] = "wanted" =>
           \/ n \in ts.queue \cup DOMAIN retry
           \/ \E r \in ToSet(answered) \cup (Range(inFlight) \ {NoRequest}) : n \in DOMAIN r.tasks
      /\ ts.status[n] = "processed" =>
           /\ ts.deps[n] > 0
           /\ ts.deps[n] = FoldSet(LAMBDA c, k : k + ts.parents[c][n], 0, StateNodes)

\* Busy with a request that nobody follows.
Stranded(p) ==
  /\ conns[p].up /\ ~ conns[p].idle /\ inFlight[p] = NoRequest
  /\ \A r \in ToSet(answered) : r.peer = p => r.conn # conns[p].id

\* If the synchronisation ends by itself, the state is there (stateSync.loop).
StateComplete == loopAt.pc = "done" /\ ~ loopAt.failed => loopAt.root \in synced

\* With an honest peer the state arrives or the synchronisation is given up,
\* whatever the other peers do.  A peer that was busy when an earlier one was
\* cancelled may be left out ("Also set peers to idle so they're available for the
\* next sync").
StateArrives ==
  (loopAt.pc = "top" /\ \A p \in HonestPeers : ~ Stranded(p)) ~> loopAt.pc \in {"idle", "done"}
=============================================================================
