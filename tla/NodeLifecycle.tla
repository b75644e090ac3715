--------------------------- MODULE NodeLifecycle ---------------------------
(***************************************************************************)
(* Start and Stop of a node: the data directory is locked, services are    *)
(* constructed, the peer-to-peer server, the services and the RPC          *)
(* endpoints are started, and any of these steps may fail.  Start and Stop *)
(* hold the node's lock; calls of the admin API wait for it.               *)
(***************************************************************************)
EXTENDS Naturals, Sequences, FiniteSets, Functions

CONSTANTS
  Services,  \* registered services, in the order of registration
  DataDir,   \* whether the node has a data directory
  NodeCalls  \* bound: calls of Start

ASSUME NodeAssumption == IsInjective(Services) /\ DataDir \in BOOLEAN /\ NodeCalls \in Nat

VARIABLES
  pc,         \* where Start is; "idle" outside of it
  built,      \* services constructed by Start
  up,         \* services that run
  server,     \* the peer-to-peer server runs
  endpoints,  \* RPC endpoints that are open
  dirLock,    \* the data directory is locked
  running,    \* the node's field server is set
  apiCalls,   \* calls of StartRPC that wait for the lock
  nodeCalls   \* calls of Start so far

nodeVars == <<pc, built, up, server, endpoints, dirLock, running, apiCalls, nodeCalls>>

\* startRPC opens them in this order.
Endpoints == <<"inproc", "ipc", "http", "ws">>

NodeInit ==
  /\ pc = "idle" /\ built = {} /\ up = {} /\ server = FALSE /\ endpoints = {}
  /\ dirLock = FALSE /\ running = FALSE /\ apiCalls = 0 /\ nodeCalls = 0

Locked == pc # "idle"
-----------------------------------------------------------------------------
\* A second lock on the directory fails, also in the same process (openDataDir).
StartNode ==
  /\ ~ Locked /\ ~ running /\ nodeCalls < NodeCalls
  /\ nodeCalls' = nodeCalls + 1
  /\ IF DataDir /\ dirLock THEN UNCHANGED <<pc, dirLock>>
     ELSE dirLock' = DataDir /\ pc' = "construct"
  /\ built' = {}
  /\ UNCHANGED <<up, server, endpoints, running, apiCalls>>

\* The next constructor; its context has the services constructed before.
Construct ==
  /\ pc = "construct" /\ Cardinality(built) < Len(Services)
  /\ \/ built' = built \cup {Services[Cardinality(built) + 1]} /\ UNCHANGED pc
     \/ pc' = "idle" /\ UNCHANGED built
  /\ UNCHANGED <<up, server, endpoints, dirLock, running, apiCalls, nodeCalls>>

StartServer ==
  /\ pc = "construct" /\ built = Range(Services)
  /\ \/ server' = TRUE /\ pc' = "services"
     \/ pc' = "idle" /\ UNCHANGED server
  /\ UNCHANGED <<built, up, endpoints, dirLock, running, apiCalls, nodeCalls>>

\* A variant that leaves the services that were started.
StartServiceOnly(s) ==
  /\ pc = "services" /\ s \in built \ up
  /\ \/ up' = up \cup {s} /\ UNCHANGED <<pc, server>>
     \/ pc' = "idle" /\ server' = FALSE /\ UNCHANGED up
  /\ UNCHANGED <<built, endpoints, dirLock, running, apiCalls, nodeCalls>>

\* "Start the next service, stopping all previous upon failure", in any order.
StartService(s) ==
  /\ pc = "services" /\ s \in built \ up
  /\ \/ up' = up \cup {s} /\ UNCHANGED <<pc, server>>
     \/ pc' = "idle" /\ up' = {} /\ server' = FALSE
  /\ UNCHANGED <<built, endpoints, dirLock, running, apiCalls, nodeCalls>>

\* startRPC; when an endpoint does not open, those opened before it are closed.
\* An endpoint that an admin call has left open stays open.
StartRPC ==
  /\ pc = "services" /\ up = built
  /\ pc' = "idle"
  /\ \/ endpoints' = Range(Endpoints) /\ running' = TRUE /\ UNCHANGED <<up, server>>
     \/ \E failing \in 1 .. Len(Endpoints) :
          /\ endpoints' = endpoints \ Range(SubSeq(Endpoints, 1, failing - 1))
          /\ up' = {} /\ server' = FALSE /\ UNCHANGED running
  /\ UNCHANGED <<built, dirLock, apiCalls, nodeCalls>>

\* The in-process endpoint stays until the next Start replaces it.
StopNode ==
  /\ ~ Locked /\ running
  /\ endpoints' = endpoints \ {"ws", "http", "ipc"}
  /\ up' = {} /\ server' = FALSE /\ running' = FALSE
  /\ dirLock' = FALSE
  /\ UNCHANGED <<pc, built, apiCalls, nodeCalls>>

\* A call of the admin API comes in over an endpoint and waits for the lock.
AdminCall ==
  /\ endpoints # {} /\ running /\ apiCalls = 0
  /\ apiCalls' = 1
  /\ UNCHANGED <<pc, built, up, server, endpoints, dirLock, running, nodeCalls>>

\* PrivateAdminAPI.StartRPC or StopRPC, whatever has become of the node.
AdminRPC ==
  /\ apiCalls = 1 /\ ~ Locked
  /\ apiCalls' = 0
  /\ endpoints' \in {endpoints, endpoints \cup {"http"}, endpoints \ {"http"}}
  /\ UNCHANGED <<pc, built, up, server, dirLock, running, nodeCalls>>

NodeNext ==
  \/ StartNode \/ Construct \/ StartServer \/ StartRPC \/ StopNode \/ AdminCall \/ AdminRPC
  \/ \E s \in Range(Services) : StartService(s)

NodeSpec == NodeInit /\ [][NodeNext]_nodeVars
-----------------------------------------------------------------------------
\* When Start or Stop has returned, either everything runs or nothing does,
\* wherever Start has failed: the server, all services, the endpoints that only
\* Start opens.
AllOrNothing ==
  ~ Locked =>
    /\ server = running
    /\ up = IF running THEN Range(Services) ELSE {}
    /\ endpoints \cap {"ipc", "ws"} = IF running THEN {"ipc", "ws"} ELSE {}
=============================================================================
