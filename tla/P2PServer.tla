------------------------------ MODULE P2PServer ------------------------------
(***************************************************************************)
(* The peer-to-peer server: the run loop of p2p/server.go that owns the    *)
(* peer set, the goroutines that set up connections and ask it for         *)
(* permission twice, the listener with its slots, Stop with the server     *)
(* lock, and the dial scheduler of p2p/dial.go.                            *)
(*                                                                         *)
(* A handshake or a dial succeeds or fails, a peer ends, a dialled node's  *)
(* history entry expires at any time; what a lookup finds is any set.      *)
(***************************************************************************)
EXTENDS Integers, FiniteSets

CONSTANTS
    Remotes,       \* node identities met on the network, Me possibly among them
    Me,            \* the server's own identity
    TrustedNodes,
    StaticNodes,   \* the static nodes at the start
    MaxPeers,
    MaxDynDials,   \* maxDialedConns
    MaxPending,    \* slots of the listener
    MaxTasks,      \* maxActiveDialTasks
    ServerCalls,   \* bound on AddPeer and RemovePeer
    MayStop        \* whether Stop is called

ASSUME ServerAssumption ==
    /\ IsFiniteSet(Remotes) /\ TrustedNodes \subseteq Remotes /\ StaticNodes \subseteq Remotes
    /\ {MaxPeers, MaxDynDials, MaxPending, MaxTasks, ServerCalls} \subseteq Nat
    /\ MaxDynDials <= MaxPeers /\ MaxTasks > 0 /\ MayStop \in BOOLEAN

VARIABLES
    peerOf,     \* the peers map: per node the kind of its connection and its stage
    inboundN,   \* inboundCount
    dial,       \* the dialstate and the tasks of the run loop
    inConn,     \* per listener slot: the inbound connection being set up
    loop,       \* the run loop: select, blocked, spindown, gone
    listener,   \* the listen loop: slot, accept, gone
    stopping,   \* Stop: no, waiting (holding srv.lock), returned
    calls       \* API calls so far

serverVars == <<peerOf, inboundN, dial, inConn, loop, listener, stopping, calls>>

Slots == 1 .. MaxPending
NoPeerYet == [kind |-> "none", stage |-> "none"]
NoConn == [id |-> Me, stage |-> "none"]

Connected(P) == {n \in Remotes : P[n].kind # "none"}
OfKind(P, k) == {n \in Remotes : P[n].kind = k}

(* srv.lock is held by Stop until it returns; srv.running ends with it. *)
LockFree == stopping # "waiting"
Quit == stopping # "no"

-----------------------------------------------------------------------------
(* The dial scheduler. *)

(* Whether checkDial lets node n be dialled. *)
Diallable(d, P, n) == d.dialing[n] = "no" /\ P[n].kind = "none" /\ n # Me /\ d.hist[n] = "no"

Running(d) ==
    Cardinality({n \in Remotes : d.task[n] \notin {"none", "queued"}})
       + (IF d.lookup = "running" THEN 1 ELSE 0) + (IF d.wait THEN 1 ELSE 0)

Waiting(d) ==
    Cardinality({n \in Remotes : d.task[n] = "queued"}) + (IF d.lookup = "queued" THEN 1 ELSE 0)

(* The dials of Q start, and the lookup if there is one in L. *)
Started(d, Q, L) ==
    [d EXCEPT !.task = [n \in Remotes |-> IF n \in Q THEN "dial" ELSE @[n]],
              !.lookup = IF L = {} THEN @ ELSE "running"]

(* startTasks: as many waiting tasks as there is room for. *)
StartTasks(d) ==
    LET started == {Started(d, Q, L) : Q \in SUBSET {n \in Remotes : d.task[n] = "queued"},
                                       L \in SUBSET ({d.lookup} \intersect {"queued"})}
    IN {e \in started : Running(e) <= MaxTasks /\ (Running(e) = MaxTasks \/ Waiting(e) = 0)}

Queue(d, N, kind) ==
    [d EXCEPT !.dialing = [n \in Remotes |-> IF n \in N THEN kind ELSE @[n]],
              !.task = [n \in Remotes |-> IF n \in N THEN "queued" ELSE @[n]]]

(* How many dynamic dials are wanted: peers and dials under way count. *)
NeedDyn(d, P) ==
    MaxDynDials - Cardinality(OfKind(P, "dyn")) - Cardinality({n \in Remotes : d.dialing[n] = "dyn"})

(* The history forgets what is due, and the node itself is no static node. *)
Expired(d) ==
    [d EXCEPT !.hist = [n \in Remotes |-> IF @[n] = "due" THEN "no" ELSE @[n]],
              !.static = @ \ {Me}]

StaticDials(d, P) == Queue(d, {n \in d.static : Diallable(d, P, n)}, "static")

(* A boot node when there are no peers, and random nodes for half of the need left. *)
Offered(d, P, need) ==
    LET most == (need + IF Connected(P) = {} THEN 1 ELSE 0) \div 2
    IN {S \in SUBSET {n \in Remotes : Diallable(d, P, n)} : S = {} \/ (need > 0 /\ Cardinality(S) <= most)}

(* The lookup results that are tried until enough of them are dialled. *)
Hits(d, P, T) == {n \in T : Diallable(d, P, n)}

Tried(d, P, need) ==
    {T \in SUBSET d.buf : IF need <= 0 THEN T = {}
                          ELSE /\ Cardinality(Hits(d, P, T)) <= need
                               /\ T = d.buf \/ Cardinality(Hits(d, P, T)) = need}

DialResults(d, P, T) == [Queue(d, Hits(d, P, T), "dyn") EXCEPT !.buf = @ \ T]

(* A new lookup, or a timer when nothing else keeps the loop going. *)
LookOrWait(d, need, running) ==
    IF Cardinality(d.buf) < need /\ d.lookup = "none" THEN [d EXCEPT !.lookup = "queued"]
    ELSE IF running + Waiting(d) = 0 /\ \E n \in Remotes : d.hist[n] # "no" THEN [d EXCEPT !.wait = TRUE]
    ELSE d

(* What newTasks does once boot and random nodes are dialled. *)
DynDials(d, P, need, running) ==
    {LookOrWait(DialResults(d, P, T), need - Cardinality(Hits(d, P, T)), running) : T \in Tried(d, P, need)}

(***************************************************************************)
(* newTasks: static nodes first, then boot and random nodes, then lookup   *)
(* results.  Which random nodes are offered is open.                       *)
(***************************************************************************)
newTasks(d, P) ==
    LET e == StaticDials(Expired(d), P)
        need == NeedDyn(d, P)
    IN UNION {DynDials(Queue(e, S, "dyn"), P, need - Cardinality(S), Running(d)) : S \in Offered(e, P, need)}

(* scheduleTasks, at the top of every round of the run loop. *)
Scheduled(d, P) ==
    UNION {IF Running(e) < MaxTasks THEN UNION {StartTasks(g) : g \in newTasks(e, P)} ELSE {e} :
              e \in StartTasks(d)}

FirstDials ==
    Scheduled([static |-> StaticNodes, dialing |-> [n \in Remotes |-> "no"],
               task |-> [n \in Remotes |-> "none"], hist |-> [n \in Remotes |-> "no"],
               buf |-> {}, lookup |-> "none", wait |-> FALSE], [n \in Remotes |-> NoPeerYet])

ServerInit ==
    /\ peerOf = [n \in Remotes |-> NoPeerYet] /\ inboundN = 0
    /\ inConn = [s \in Slots |-> NoConn]
    /\ loop = "select" /\ listener = "slot" /\ stopping = "no" /\ calls = 0
    /\ dial \in FirstDials

-----------------------------------------------------------------------------
(* Connections being set up: dial tasks, by node, and listener slots. *)

(* setupConn starts with srv.lock, and ends at once when the server stopped. *)
Enter == IF Quit THEN "ended" ELSE "enc"

DialStep(n) ==
    LET go(stage) == dial' = [dial EXCEPT !.task[n] = stage]
    IN /\ \/ dial.task[n] = "dial" /\ \E s \in {"setup", "ended"} : go(s)
          \/ dial.task[n] = "setup" /\ LockFree /\ go(Enter)
          \/ dial.task[n] = "enc" /\ \E s \in {"post", "ended"} : go(s)
          \/ dial.task[n] = "proto" /\ \E s \in {"add", "ended"} : go(s)
          \/ dial.task[n] \in {"post", "add"} /\ Quit /\ go("ended")
       /\ UNCHANGED <<peerOf, inboundN, inConn, loop, listener, stopping, calls>>

InStep(s) ==
    LET go(c) == inConn' = [inConn EXCEPT ![s] = c]
        c == inConn[s]
    IN /\ \/ c.stage = "setup" /\ LockFree
                /\ IF Enter = "enc" THEN go([c EXCEPT !.stage = "enc"]) ELSE go(NoConn)
          \/ c.stage = "enc" /\ (go(NoConn) \/ \E n \in Remotes : go([id |-> n, stage |-> "post"]))
          \/ c.stage = "proto" /\ (go(NoConn) \/ go([c EXCEPT !.stage = "add"]))
          \/ c.stage \in {"post", "add"} /\ Quit /\ go(NoConn)
       /\ UNCHANGED <<peerOf, inboundN, dial, loop, listener, stopping, calls>>

FreeSlots == {s \in Slots : inConn[s].stage = "none"}

(* listenLoop waits for a slot, then accepts until the listener is closed. *)
Listen ==
    /\ \/ listener = "slot" /\ FreeSlots # {} /\ listener' = "accept" /\ UNCHANGED inConn
       \/ /\ listener = "accept" /\ ~Quit
          /\ listener' = "slot"
          /\ inConn' = [inConn EXCEPT ![CHOOSE s \in FreeSlots : TRUE] = [id |-> Me, stage |-> "setup"]]
       \/ listener = "accept" /\ Quit /\ listener' = "gone" /\ UNCHANGED inConn
    /\ UNCHANGED <<peerOf, inboundN, dial, loop, stopping, calls>>

-----------------------------------------------------------------------------
(* The run loop.  Every case ends with the scheduling of the next round. *)

Round == dial' \in Scheduled(dial, peerOf)

(* The checks before the one that needs srv.Self, and so srv.lock. *)
Rejected(id, kind) ==
    \/ /\ kind # "static" /\ id \notin TrustedNodes
       /\ Cardinality(Connected(peerOf)) >= MaxPeers
    \/ /\ kind = "inbound" /\ id \notin TrustedNodes
       /\ inboundN >= MaxPeers - MaxDynDials
    \/ peerOf[id].kind # "none"

RejectedStale(id, kind) == peerOf[id].kind # "none"

(* protoHandshakeChecks repeats the checks: the peers may have changed. *)
RejectedAdd(id, kind) == Rejected(id, kind)

(* The checks of one connection, dialled or inbound, at one checkpoint. *)
Check(id, kind, rejected, reject, accept) ==
    IF rejected
    THEN reject
    ELSE IF ~LockFree
    THEN loop' = "blocked" /\ UNCHANGED <<peerOf, inboundN, dial, inConn>>
    ELSE IF id = Me /\ ~Quit THEN reject ELSE accept

SetStage(id, s, stage) ==
    IF s = 0
    THEN /\ dial' \in Scheduled([dial EXCEPT !.task[id] = stage], peerOf)
         /\ UNCHANGED inConn
    ELSE /\ Round
         /\ inConn' = [inConn EXCEPT ![s] = IF stage = "ended" THEN NoConn ELSE [@ EXCEPT !.stage = stage]]

Added(id, kind, s) ==
    /\ peerOf' = [peerOf EXCEPT ![id] = [kind |-> kind, stage |-> "runs"]]
    /\ inboundN' = IF kind = "inbound" THEN inboundN + 1 ELSE inboundN
    /\ IF s = 0
       THEN dial' \in Scheduled([dial EXCEPT !.task[id] = "ended"], peerOf') /\ UNCHANGED inConn
       ELSE dial' \in Scheduled(dial, peerOf') /\ inConn' = [inConn EXCEPT ![s] = NoConn]
    /\ UNCHANGED loop

Checkpoint(id, kind, s, stage) ==
    LET reject == SetStage(id, s, "ended") /\ UNCHANGED <<peerOf, inboundN, loop>>
    IN \/ /\ stage = "post"
          /\ Check(id, kind, Rejected(id, kind), reject,
                   SetStage(id, s, "proto") /\ UNCHANGED <<peerOf, inboundN, loop>>)
       \/ /\ stage = "add"
          /\ Check(id, kind, RejectedAdd(id, kind), reject, Added(id, kind, s))

TakeDialled(n) ==
    /\ loop = "select"
    /\ Checkpoint(n, dial.dialing[n], 0, dial.task[n])
    /\ UNCHANGED <<listener, stopping, calls>>

TakeInbound(s) ==
    /\ loop = "select"
    /\ Checkpoint(inConn[s].id, "inbound", s, inConn[s].stage)
    /\ UNCHANGED <<listener, stopping, calls>>

(* taskDone: a dialled node is remembered as recently dialled. *)
TakeDone(d) ==
    /\ loop = "select"
    /\ dial' \in Scheduled(d, peerOf)
    /\ UNCHANGED <<peerOf, inboundN, inConn, loop, listener, stopping, calls>>

DialDone(n) ==
    /\ dial.task[n] = "ended"
    /\ TakeDone([dial EXCEPT !.task[n] = "none", !.dialing[n] = "no", !.hist[n] = "fresh"])

LookupDone ==
    /\ dial.lookup = "running"
    /\ \E found \in SUBSET Remotes :
          TakeDone([dial EXCEPT !.lookup = "none", !.buf = @ \union found])

WaitDoneNever == FALSE

(* The timer for the first entry of the history; its length is left out, and the *)
(* entry may be gone when it fires. *)
WaitDone ==
    /\ dial.wait
    /\ TakeDone([dial EXCEPT !.wait = FALSE])

(* delpeer. *)
Drop(n) == inboundN' = IF peerOf[n].kind = "inbound" THEN inboundN - 1 ELSE inboundN

TakeDrop ==
    /\ loop = "select"
    /\ \E n \in Remotes :
          /\ peerOf[n].stage = "ended"
          /\ peerOf' = [peerOf EXCEPT ![n] = NoPeerYet]
          /\ Drop(n)
          /\ dial' \in Scheduled(dial, peerOf')
    /\ UNCHANGED <<inConn, loop, listener, stopping, calls>>

(* AddPeer, and RemovePeer, which also disconnects a peer that is there. *)
AddPeer(n) ==
    /\ loop = "select" /\ calls < ServerCalls
    /\ dial' \in Scheduled([dial EXCEPT !.static = @ \union {n}], peerOf)
    /\ calls' = calls + 1
    /\ UNCHANGED <<peerOf, inboundN, inConn, loop, listener, stopping>>

RemovePeer(n) ==
    /\ loop = "select" /\ calls < ServerCalls
    /\ peerOf' = IF peerOf[n].stage = "runs" THEN [peerOf EXCEPT ![n].stage = "ended"] ELSE peerOf
    /\ dial' \in Scheduled([dial EXCEPT !.static = @ \ {n}, !.hist[n] = "no"], peerOf')
    /\ calls' = calls + 1
    /\ UNCHANGED <<inboundN, inConn, loop, listener, stopping>>

(* quit: all peers are disconnected and waited for. *)
TakeQuit ==
    /\ loop = "select" /\ Quit
    /\ loop' = "spindown"
    /\ peerOf' = [n \in Remotes |-> IF peerOf[n].kind = "none" THEN NoPeerYet
                                    ELSE [peerOf[n] EXCEPT !.stage = "ended"]]
    /\ UNCHANGED <<inboundN, dial, inConn, listener, stopping, calls>>

SpinDown ==
    /\ loop = "spindown"
    /\ IF Connected(peerOf) = {}
       THEN loop' = "gone" /\ UNCHANGED peerOf
       ELSE /\ \E n \in Connected(peerOf) : peerOf' = [peerOf EXCEPT ![n] = NoPeerYet]
            /\ UNCHANGED loop
    /\ UNCHANGED <<inboundN, dial, inConn, listener, stopping, calls>>

-----------------------------------------------------------------------------

(* The peer's own loop ends: an error, or the other side's request. *)
PeerEnds(n) ==
    /\ peerOf[n].stage = "runs"
    /\ peerOf' = [peerOf EXCEPT ![n].stage = "ended"]
    /\ UNCHANGED <<inboundN, dial, inConn, loop, listener, stopping, calls>>

(* dialHistoryExpiration has passed. *)
TimePasses(n) ==
    /\ dial.hist[n] = "fresh"
    /\ dial' = [dial EXCEPT !.hist[n] = "due"]
    /\ UNCHANGED <<peerOf, inboundN, inConn, loop, listener, stopping, calls>>

(* Stop closes the listener and quit, then waits with the lock held. *)
StopServer ==
    /\ MayStop /\ stopping = "no"
    /\ stopping' = "waiting"
    /\ UNCHANGED <<peerOf, inboundN, dial, inConn, loop, listener, calls>>

StopReturn ==
    /\ stopping = "waiting" /\ loop = "gone" /\ listener = "gone"
    /\ stopping' = "returned"
    /\ UNCHANGED <<peerOf, inboundN, dial, inConn, loop, listener, calls>>

ServerNext ==
    \/ LookupDone \/ WaitDone \/ TakeDrop \/ TakeQuit \/ SpinDown
    \/ Listen \/ StopServer \/ StopReturn
    \/ \E n \in Remotes : \/ TakeDialled(n) \/ DialDone(n) \/ DialStep(n) \/ PeerEnds(n)
                          \/ TimePasses(n) \/ AddPeer(n) \/ RemovePeer(n)
    \/ \E s \in Slots : TakeInbound(s) \/ InStep(s)

ServerStep(g, n) ==
    CASE g = "lookup"  -> LookupDone
      [] g = "wait"    -> WaitDone
      [] g = "stop"    -> TakeQuit \/ SpinDown \/ StopReturn
      [] g = "listen"  -> Listen
      [] g = "inbound" -> \E s \in Slots : InStep(s)
      [] g = "dialled" -> TakeDialled(n)
      [] g = "done"    -> DialDone(n)
      [] g = "dial"    -> DialStep(n)
      [] g = "clock"   -> TimePasses(n)

ServerSteps ==
    ({"lookup", "wait", "stop", "listen", "inbound"} \X {Me})
      \union ({"dialled", "done", "dial", "clock"} \X Remotes)

(***************************************************************************)
(* Every goroutine goes on, handshakes and dials end (they have timeouts)  *)
(* and time passes; a case that stays ready is taken by the run loop's     *)
(* select in the end (it chooses at random).  Peers and callers owe        *)
(* nothing.                                                                *)
(***************************************************************************)
ServerFairness == \A p \in ServerSteps : WF_serverVars(ServerStep(p[1], p[2]))

ServerSpec == ServerInit /\ [][ServerNext]_serverVars /\ ServerFairness

-----------------------------------------------------------------------------

(***************************************************************************)
(* However connections race through the two checkpoints, peers that are    *)
(* neither trusted nor static never exceed MaxPeers, and untrusted inbound *)
(* ones never the share left beside dialled connections; the count that    *)
(* limit is compared with is exact until the server spins down.  The       *)
(* dialler does not overshoot either: dynamic peers and dynamic dials      *)
(* under way stay within maxDynDials, also while a finished dial's task is *)
(* still to be reported.                                                   *)
(***************************************************************************)
PeerLimits ==
    LET free == Connected(peerOf) \ TrustedNodes
        inbound == OfKind(peerOf, "inbound")
        dialled == OfKind(peerOf, "dyn") \union {n \in Remotes : dial.dialing[n] = "dyn"}
    IN /\ Cardinality(free \ OfKind(peerOf, "static")) <= MaxPeers
       /\ Cardinality(free \intersect inbound) <= MaxPeers - MaxDynDials
       /\ loop \in {"select", "blocked"} => inboundN = Cardinality(inbound)
       /\ Cardinality(dialled) <= MaxDynDials

(***************************************************************************)
(* A static node is kept connected: when it is not, it is dialled again    *)
(* in the end, whatever happens to the other tasks and the dial history.   *)
(***************************************************************************)
StaticKept ==
    \A n \in Remotes \ {Me} :
       (n \in dial.static) ~> (dial.dialing[n] # "no" \/ peerOf[n].kind # "none" \/ n \notin dial.static \/ Quit)

(***************************************************************************)
(* Stop returns once all connections are closed.                           *)
(***************************************************************************)
StopReturns == (stopping = "waiting") ~> (stopping = "returned")
=============================================================================
