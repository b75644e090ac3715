----------------------------- MODULE NodeProof ------------------------------
(***************************************************************************)
(* Proofs about a node and its peer-to-peer server: Start and Stop leave   *)
(* all of the node or nothing, and the peers stay within their limits.     *)
(***************************************************************************)
EXTENDS NodeLifecycle, P2PServer, FiniteSetTheorems, TLAPS

(***************************************************************************)
(* Start and Stop of a node.  Between the steps of Start the node is on    *)
(* its way from nothing to everything, and each failure takes it back.     *)
(***************************************************************************)
OnTheWay ==
  /\ pc \in {"idle", "construct", "services"}
  /\ pc # "idle" => ~ running /\ endpoints \cap {"ipc", "ws"} = {}
  /\ pc = "construct" => server = FALSE /\ up = {}
  /\ pc = "services" => server = TRUE /\ up \subseteq built /\ built = Range(Services)
  /\ running \in BOOLEAN

\* The endpoints that startRPC opens.
LEMMA OpensAll == {"ipc", "ws"} \subseteq Range(Endpoints)
<1>1. Endpoints[2] = "ipc" /\ Endpoints[4] = "ws" /\ {2, 4} \subseteq DOMAIN Endpoints
  BY DEF Endpoints
<1>. QED
  BY <1>1, Zenon DEF Range

\* Whatever fails on the way, a Start or Stop that has returned leaves all of
\* the node running or nothing of it.
THEOREM StartsWhollyOrNot == NodeSpec => []AllOrNothing
<1>. DEFINE Inv == OnTheWay /\ AllOrNothing
<1>1. NodeInit => Inv
  BY Zenon DEF NodeInit, OnTheWay, AllOrNothing, Locked
<1>2. Inv /\ [NodeNext]_nodeVars => Inv'
  <2>. SUFFICES ASSUME Inv, [NodeNext]_nodeVars PROVE Inv'
    OBVIOUS
  <2>1. CASE UNCHANGED nodeVars
    BY <2>1 DEF nodeVars, OnTheWay, AllOrNothing, Locked
  <2>2. CASE StartNode
    BY <2>2 DEF StartNode, OnTheWay, AllOrNothing, Locked
  <2>3. CASE Construct
    BY <2>3, Zenon DEF Construct, OnTheWay, AllOrNothing, Locked
  <2>4. CASE StartServer
    BY <2>4, Zenon DEF StartServer, OnTheWay, AllOrNothing, Locked
  <2>5. CASE StartRPC
    <3>1. /\ pc = "services" /\ up = built /\ pc' = "idle" /\ built' = built
          /\ server = TRUE /\ ~ running /\ built = Range(Services) /\ endpoints \cap {"ipc", "ws"} = {}
      BY <2>5 DEF StartRPC, OnTheWay
    <3>2. CASE endpoints' = Range(Endpoints) /\ running' = TRUE /\ UNCHANGED <<up, server>>
      BY <3>1, <3>2, OpensAll DEF OnTheWay, AllOrNothing, Locked
    <3>3. CASE endpoints' \subseteq endpoints /\ up' = {} /\ server' = FALSE /\ UNCHANGED running
      BY <3>1, <3>3, Zenon DEF OnTheWay, AllOrNothing, Locked
    <3>. QED
      BY <2>5, <3>2, <3>3, Zenon DEF StartRPC
  <2>6. CASE StopNode
    BY <2>6, Zenon DEF StopNode, OnTheWay, AllOrNothing, Locked
  <2>7. CASE AdminCall
    BY <2>7, Zenon DEF AdminCall, OnTheWay, AllOrNothing, Locked
  <2>8. CASE AdminRPC
    BY <2>8 DEF AdminRPC, OnTheWay, AllOrNothing, Locked
  <2>9. ASSUME NEW s \in Range(Services), StartService(s)
        PROVE  Inv'
    BY <2>9, Zenon DEF StartService, OnTheWay, AllOrNothing, Locked
  <2>. QED
    BY <2>1, <2>2, <2>3, <2>4, <2>5, <2>6, <2>7, <2>8, <2>9 DEF NodeNext
<1>. QED
  BY <1>1, <1>2, PTL DEF NodeSpec
-----------------------------------------------------------------------------
(***************************************************************************)
(* The peer-to-peer server.  The limits are inductive once they are stated *)
(* for any peer set and dial state, with inboundCount exact: what the run  *)
(* loop adds it has checked against its own counts, and newTasks counts    *)
(* the peers and the dials under way before it dials.                      *)
(***************************************************************************)
PeerType == [kind : {"none", "no", "static", "dyn", "inbound"}, stage : {"none", "runs", "ended"}]
TaskStages == {"none", "queued", "dial", "setup", "enc", "post", "proto", "add", "ended"}
DialType ==
  [static : SUBSET Remotes, dialing : [Remotes -> {"no", "static", "dyn"}], task : [Remotes -> TaskStages],
   hist : [Remotes -> {"no", "fresh", "due"}], buf : SUBSET Remotes,
   lookup : {"none", "queued", "running"}, wait : BOOLEAN]

\* A connection in a slot of the listener has an identity after its first handshake.
ConnType ==
  {c \in [id : Remotes \cup {Me}, stage : {"none", "setup", "enc", "post", "proto", "add"}] :
     c.stage \in {"post", "proto", "add"} => c.id \in Remotes}

ServerTypeOK == peerOf \in [Remotes -> PeerType] /\ dial \in DialType /\ inConn \in [Slots -> ConnType]

\* The nodes that are dialled for want of peers.
Dyn(d) == {n \in Remotes : d.dialing[n] = "dyn"}

\* The limits on peers and on dials, of any peer set and dial state.
PeersBounded(P) ==
  /\ Cardinality((Connected(P) \ TrustedNodes) \ OfKind(P, "static")) <= MaxPeers
  /\ Cardinality((Connected(P) \ TrustedNodes) \cap OfKind(P, "inbound")) <= MaxPeers - MaxDynDials
DialsBounded(d, P) == Cardinality(OfKind(P, "dyn") \cup Dyn(d)) <= MaxDynDials

Counted == loop \in {"select", "blocked"} => inboundN = Cardinality(OfKind(peerOf, "inbound"))
ServerInv == ServerTypeOK /\ PeersBounded(peerOf) /\ DialsBounded(dial, peerOf) /\ Counted

\* Counting sets of nodes.
LEMMA Counting ==
  ASSUME NEW S \in SUBSET Remotes, NEW T \in SUBSET Remotes
  PROVE  /\ IsFiniteSet(S) /\ Cardinality(S) \in Nat
         /\ S \subseteq T => Cardinality(S) <= Cardinality(T)
         /\ Cardinality(S \cup T) <= Cardinality(S) + Cardinality(T)
         /\ \A x \in Remotes \ S : Cardinality(S \cup {x}) = Cardinality(S) + 1
         /\ \A x \in S : Cardinality(S \ {x}) = Cardinality(S) - 1
<1>1. IsFiniteSet(S) /\ IsFiniteSet(T)
  BY ServerAssumption, FS_Subset DEF ServerAssumption
<1>2. Cardinality(S) \in Nat /\ Cardinality(T) \in Nat /\ Cardinality(S \cap T) \in Nat
  BY <1>1, FS_CardinalityType, FS_Intersection, Zenon
<1>3. S \subseteq T => Cardinality(S) <= Cardinality(T)
  BY <1>1, FS_Subset
<1>4. Cardinality(S \cup T) <= Cardinality(S) + Cardinality(T)
  <2>1. Cardinality(S \cup T) = Cardinality(S) + Cardinality(T) - Cardinality(S \cap T)
    BY <1>1, FS_Union
  <2>. QED
    BY <1>2, <2>1
<1>5. \A x \in Remotes \ S : Cardinality(S \cup {x}) = Cardinality(S) + 1
  BY <1>1, FS_AddElement
<1>6. \A x \in S : Cardinality(S \ {x}) = Cardinality(S) - 1
  BY <1>1, FS_RemoveElement
<1>. QED
  BY <1>1, <1>2, <1>3, <1>4, <1>5, <1>6

\* Peers that end.
LEMMA FewerPeers ==
  ASSUME NEW P, NEW Q, \A n \in Remotes : Q[n].kind \in {P[n].kind, "none"}, PeersBounded(P)
  PROVE  PeersBounded(Q) /\ OfKind(Q, "dyn") \subseteq OfKind(P, "dyn")
<1>. DEFINE F(R) == (Connected(R) \ TrustedNodes) \ OfKind(R, "static")
            I(R) == (Connected(R) \ TrustedNodes) \cap OfKind(R, "inbound")
<1>1. F(Q) \subseteq F(P) /\ I(Q) \subseteq I(P) /\ OfKind(Q, "dyn") \subseteq OfKind(P, "dyn")
  BY DEF Connected, OfKind
<1>2. {F(P), F(Q), I(P), I(Q)} \subseteq SUBSET Remotes
  BY DEF Connected
<1>3. /\ Cardinality(F(P)) <= MaxPeers /\ Cardinality(I(P)) <= MaxPeers - MaxDynDials
      /\ MaxPeers \in Nat /\ MaxPeers - MaxDynDials \in Int
  BY ServerAssumption DEF PeersBounded, ServerAssumption
<1>. HIDE DEF F, I
<1>4. /\ Cardinality(F(Q)) <= Cardinality(F(P)) /\ Cardinality(I(Q)) <= Cardinality(I(P))
      /\ {Cardinality(F(P)), Cardinality(F(Q)), Cardinality(I(P)), Cardinality(I(Q))} \subseteq Nat
  BY <1>1, <1>2, Counting, Zenon
<1>5. Cardinality(F(Q)) <= MaxPeers /\ Cardinality(I(Q)) <= MaxPeers - MaxDynDials
  BY <1>3, <1>4
<1>. QED
  BY <1>1, <1>5 DEF PeersBounded, F, I

\* A peer that passed the checks.
LEMMA OneMorePeer ==
  ASSUME NEW P, NEW Q, NEW id \in Remotes, NEW k, Q[id].kind = k, P[id].kind = "none",
         \A n \in Remotes \ {id} : Q[n].kind = P[n].kind, PeersBounded(P),
         k # "none", k # "static" /\ id \notin TrustedNodes => Cardinality(Connected(P)) < MaxPeers,
         k = "inbound" /\ id \notin TrustedNodes => Cardinality(OfKind(P, "inbound")) < MaxPeers - MaxDynDials
  PROVE  /\ PeersBounded(Q)
         /\ OfKind(Q, "dyn") \subseteq OfKind(P, "dyn") \cup {n \in {id} : k = "dyn"}
         /\ OfKind(Q, "inbound") = OfKind(P, "inbound") \cup {n \in {id} : k = "inbound"}
         /\ id \notin OfKind(P, "inbound")
<1>. DEFINE F(R) == (Connected(R) \ TrustedNodes) \ OfKind(R, "static")
            I(R) == (Connected(R) \ TrustedNodes) \cap OfKind(R, "inbound")
<1>2. /\ OfKind(Q, "dyn") \subseteq OfKind(P, "dyn") \cup {n \in {id} : k = "dyn"}
      /\ OfKind(Q, "inbound") = OfKind(P, "inbound") \cup {n \in {id} : k = "inbound"}
      /\ id \notin OfKind(P, "inbound") /\ id \notin Connected(P)
  BY DEF OfKind, Connected
<1>3. /\ {F(P), F(Q), I(P), I(Q), Connected(P), OfKind(P, "inbound")} \subseteq SUBSET Remotes
      /\ {Connected(P) \cup {id}, OfKind(P, "inbound") \cup {id}} \subseteq SUBSET Remotes
  BY DEF Connected, OfKind
<1>4. /\ Cardinality(F(P)) <= MaxPeers /\ Cardinality(I(P)) <= MaxPeers - MaxDynDials
      /\ MaxPeers \in Nat /\ MaxPeers - MaxDynDials \in Int
  BY ServerAssumption DEF PeersBounded, ServerAssumption
<1>5. /\ k # "static" /\ id \notin TrustedNodes => F(Q) \subseteq Connected(P) \cup {id}
      /\ k = "static" \/ id \in TrustedNodes => F(Q) \subseteq F(P)
      /\ k = "inbound" /\ id \notin TrustedNodes => I(Q) \subseteq OfKind(P, "inbound") \cup {id}
      /\ k # "inbound" \/ id \in TrustedNodes => I(Q) \subseteq I(P)
  BY DEF Connected, OfKind
<1>. HIDE DEF F, I
<1>6. Cardinality(F(Q)) <= MaxPeers
  <2>1. CASE k # "static" /\ id \notin TrustedNodes
    <3>1. /\ Cardinality(F(Q)) <= Cardinality(Connected(P) \cup {id}) /\ Cardinality(F(Q)) \in Nat
          /\ Cardinality(Connected(P) \cup {id}) = Cardinality(Connected(P)) + 1 /\ Cardinality(Connected(P)) \in Nat
      BY <1>2, <1>3, <1>5, <2>1, Counting, Zenon
    <3>. QED
      BY <1>4, <2>1, <3>1
  <2>2. CASE k = "static" \/ id \in TrustedNodes
    <3>1. Cardinality(F(Q)) <= Cardinality(F(P)) /\ Cardinality(F(Q)) \in Nat /\ Cardinality(F(P)) \in Nat
      BY <1>3, <1>5, <2>2, Counting, Zenon
    <3>. QED
      BY <1>4, <3>1
  <2>. QED
    BY <2>1, <2>2
<1>7. Cardinality(I(Q)) <= MaxPeers - MaxDynDials
  <2>1. CASE k = "inbound" /\ id \notin TrustedNodes
    <3>1. /\ Cardinality(I(Q)) <= Cardinality(OfKind(P, "inbound") \cup {id}) /\ Cardinality(I(Q)) \in Nat
          /\ Cardinality(OfKind(P, "inbound") \cup {id}) = Cardinality(OfKind(P, "inbound")) + 1
          /\ Cardinality(OfKind(P, "inbound")) \in Nat
      BY <1>2, <1>3, <1>5, <2>1, Counting, Zenon
    <3>. QED
      BY <1>4, <2>1, <3>1
  <2>2. CASE k # "inbound" \/ id \in TrustedNodes
    <3>1. Cardinality(I(Q)) <= Cardinality(I(P)) /\ Cardinality(I(Q)) \in Nat /\ Cardinality(I(P)) \in Nat
      BY <1>3, <1>5, <2>2, Counting, Zenon
    <3>. QED
      BY <1>4, <3>1
  <2>. QED
    BY <2>1, <2>2
<1>. QED
  BY <1>2, <1>6, <1>7 DEF PeersBounded, F, I

\* Dials that wait for a task.
LEMMA QueueType ==
  ASSUME NEW d \in DialType, NEW M \in SUBSET Remotes, NEW k \in {"static", "dyn"}
  PROVE  /\ Queue(d, M, k) \in DialType
         /\ Queue(d, M, k).buf = d.buf
         /\ Queue(d, M, k).dialing = [n \in Remotes |-> IF n \in M THEN k ELSE d.dialing[n]]
<1>1. /\ [n \in Remotes |-> IF n \in M THEN k ELSE d.dialing[n]] \in [Remotes -> {"no", "static", "dyn"}]
      /\ [n \in Remotes |-> IF n \in M THEN "queued" ELSE d.task[n]] \in [Remotes -> TaskStages]
  BY DEF DialType, TaskStages
<1>. QED
  BY <1>1, Zenon DEF Queue, DialType

\* startTasks leaves alone which nodes are being dialled.
LEMMA StartTasksType ==
  ASSUME NEW d \in DialType, NEW e \in StartTasks(d)
  PROVE  e \in DialType /\ e.dialing = d.dialing
<1>1. PICK Q, L : e = Started(d, Q, L)
  BY DEF StartTasks
<1>2. /\ [n \in Remotes |-> IF n \in Q THEN "dial" ELSE d.task[n]] \in [Remotes -> TaskStages]
      /\ (IF L = {} THEN d.lookup ELSE "running") \in {"none", "queued", "running"}
  BY DEF DialType, TaskStages
<1>. QED
  BY <1>1, <1>2, Zenon DEF DialType, Started

\* The end of newTasks, likewise.
LEMMA LookOrWaitType ==
  ASSUME NEW d \in DialType, NEW need, NEW tasks
  PROVE  LookOrWait(d, need, tasks) \in DialType /\ LookOrWait(d, need, tasks).dialing = d.dialing
BY Zenon DEF LookOrWait, DialType

\* newTasks dials at most as many nodes more as are wanted beside the dynamic
\* peers and the dials under way.
LEMMA NewTasksBounded ==
  ASSUME NEW d \in DialType, NEW P, NEW e \in newTasks(d, P), DialsBounded(d, P)
  PROVE  e \in DialType /\ DialsBounded(e, P)
<1>. DEFINE need == NeedDyn(d, P)
            a == Expired(d)
            b == StaticDials(a, P)
<1>1. a \in DialType /\ a.dialing = d.dialing
  <2>1. /\ [n \in Remotes |-> IF d.hist[n] = "due" THEN "no" ELSE d.hist[n]] \in [Remotes -> {"no", "fresh", "due"}]
        /\ d.static \ {Me} \in SUBSET Remotes
    BY DEF DialType
  <2>. QED
    BY <2>1, Zenon DEF Expired, DialType
<1>2. b \in DialType /\ Dyn(b) = Dyn(d)
  <2>. DEFINE M == {n \in a.static : Diallable(a, P, n)}
  <2>1. M \in SUBSET Remotes /\ \A n \in M : a.dialing[n] = "no"
    BY <1>1 DEF DialType, Diallable
  <2>2. b = Queue(a, M, "static")
    BY DEF StaticDials
  <2>. HIDE DEF M, a, b
  <2>3. b \in DialType /\ b.dialing = [n \in Remotes |-> IF n \in M THEN "static" ELSE a.dialing[n]]
    BY <1>1, <2>1, <2>2, QueueType, Zenon
  <2>. QED
    BY <1>1, <2>1, <2>3 DEF Dyn
<1>3. PICK S \in Offered(b, P, need) : e \in DynDials(Queue(b, S, "dyn"), P, need - Cardinality(S), Running(d))
  BY DEF newTasks
<1>. DEFINE c == Queue(b, S, "dyn")
            more == need - Cardinality(S)
<1>4. PICK T \in Tried(c, P, more) : e = LookOrWait(DialResults(c, P, T), more - Cardinality(Hits(c, P, T)), Running(d))
  BY <1>3 DEF DynDials
<1>. DEFINE H == Hits(c, P, T)
            g == DialResults(c, P, T)
<1>5. S \in SUBSET Remotes /\ (S = {} \/ (need > 0 /\ Cardinality(S) <= need))
  <2>1. S \in SUBSET Remotes
    BY <1>3 DEF Offered
  <2>2. need \in Int /\ Cardinality(S) \in Nat
    <3>1. {OfKind(P, "dyn"), {n \in Remotes : d.dialing[n] = "dyn"}, S} \subseteq SUBSET Remotes
      BY <2>1 DEF OfKind
    <3>2. {Cardinality(OfKind(P, "dyn")), Cardinality({n \in Remotes : d.dialing[n] = "dyn"}), Cardinality(S)} \subseteq Nat
      BY <3>1, Counting, Zenon
    <3>. QED
      BY <3>2, ServerAssumption DEF NeedDyn, ServerAssumption
  <2>3. S = {} \/ (need > 0 /\ (Cardinality(S) <= (need + 1) \div 2 \/ Cardinality(S) <= (need + 0) \div 2))
    BY <1>3 DEF Offered
  <2>. HIDE DEF need
  <2>. QED
    BY <2>1, <2>2, <2>3
<1>. HIDE DEF need, a, b
<1>6. c \in DialType /\ Dyn(c) = Dyn(d) \cup S
  <2>1. c \in DialType /\ c.dialing = [n \in Remotes |-> IF n \in S THEN "dyn" ELSE b.dialing[n]]
    BY <1>2, <1>5, QueueType, Zenon
  <2>. QED
    BY <1>2, <1>5, <2>1 DEF Dyn
<1>. HIDE DEF c, more
<1>7. H \in SUBSET Remotes /\ (H = {} \/ (~ more <= 0 /\ Cardinality(H) <= more))
  BY <1>4, <1>6 DEF Tried, Hits, DialType
<1>8. g \in DialType /\ Dyn(g) = Dyn(c) \cup H
  <2>. DEFINE q == Queue(c, H, "dyn")
  <2>1. q \in DialType /\ q.dialing = [n \in Remotes |-> IF n \in H THEN "dyn" ELSE c.dialing[n]]
    BY <1>6, <1>7, QueueType, Zenon
  <2>2. g = [q EXCEPT !.buf = @ \ T]
    BY DEF DialResults
  <2>. HIDE DEF q, g, H
  <2>3. q.buf \ T \in SUBSET Remotes
    BY <2>1 DEF DialType
  <2>4. g \in DialType /\ g.dialing = q.dialing
    BY <2>1, <2>2, <2>3, Zenon DEF DialType
  <2>. QED
    BY <1>7, <2>1, <2>4 DEF Dyn
<1>9. e \in DialType /\ Dyn(e) = Dyn(d) \cup S \cup H
  BY <1>4, <1>6, <1>8, LookOrWaitType DEF Dyn
<1>10. DialsBounded(e, P)
  <2>. DEFINE K == OfKind(P, "dyn")
              D == Dyn(d)
  <2>1. {K, D, S, H, K \cup D, S \cup H} \subseteq SUBSET Remotes
    BY <1>5, <1>7 DEF OfKind, Dyn
  <2>2. Cardinality({}) = 0
    BY FS_EmptySet
  <2>3. need = MaxDynDials - Cardinality(K) - Cardinality(D) /\ more = need - Cardinality(S) /\ MaxDynDials \in Nat
    BY ServerAssumption DEF need, more, NeedDyn, Dyn, ServerAssumption
  <2>. HIDE DEF K, D, H
  <2>4. /\ {Cardinality(K), Cardinality(D), Cardinality(S), Cardinality(H)} \subseteq Nat
        /\ Cardinality(K \cup D) <= Cardinality(K) + Cardinality(D)
        /\ Cardinality(S \cup H) <= Cardinality(S) + Cardinality(H)
        /\ Cardinality((K \cup D) \cup (S \cup H)) <= Cardinality(K \cup D) + Cardinality(S \cup H)
        /\ {Cardinality(K \cup D), Cardinality(S \cup H)} \subseteq Nat
    BY <2>1, Counting, Zenon
  <2>5. Cardinality((K \cup D) \cup (S \cup H)) \in Nat
    BY <2>1, Counting, Zenon
  <2>6. CASE S \cup H = {}
    BY <1>9, <2>6 DEF DialsBounded, K, D
  <2>7. CASE S \cup H # {}
    <3>1. need > 0 /\ Cardinality(S) + Cardinality(H) <= need
      BY <1>5, <1>7, <2>2, <2>3, <2>4, <2>7
    <3>2. Cardinality((K \cup D) \cup (S \cup H)) <= MaxDynDials
      BY <2>3, <2>4, <2>5, <3>1
    <3>3. (K \cup D) \cup (S \cup H) = K \cup Dyn(e)
      BY <1>9 DEF D
    <3>. QED
      BY <3>2, <3>3 DEF DialsBounded, K
  <2>. QED
    BY <2>6, <2>7
<1>. QED
  BY <1>9, <1>10

\* scheduleTasks keeps to the bound on dynamic dials.
LEMMA ScheduledBounded ==
  ASSUME NEW d \in DialType, NEW P, NEW e \in Scheduled(d, P), DialsBounded(d, P)
  PROVE  e \in DialType /\ DialsBounded(e, P)
<1>1. PICK a \in StartTasks(d) : e = a \/ \E g \in newTasks(a, P) : e \in StartTasks(g)
  BY DEF Scheduled
<1>2. a \in DialType /\ DialsBounded(a, P)
  BY StartTasksType, Zenon DEF DialsBounded, Dyn
<1>3. ASSUME NEW g \in newTasks(a, P), e \in StartTasks(g)
      PROVE  e \in DialType /\ DialsBounded(e, P)
  <2>1. g \in DialType /\ DialsBounded(g, P)
    BY <1>2, NewTasksBounded
  <2>. QED
    BY <1>3, <2>1, StartTasksType, Zenon DEF DialsBounded, Dyn
<1>. QED
  BY <1>1, <1>2, <1>3

\* A round of the run loop, whatever it did before scheduleTasks.
LEMMA RoundBounded ==
  ASSUME ServerInv, NEW d \in DialType, Dyn(d) \subseteq Dyn(dial), NEW P,
         OfKind(P, "dyn") \subseteq OfKind(peerOf, "dyn") \cup Dyn(dial), NEW e \in Scheduled(d, P)
  PROVE  e \in DialType /\ DialsBounded(e, P)
<1>. DEFINE new == OfKind(P, "dyn") \cup Dyn(d)
            old == OfKind(peerOf, "dyn") \cup Dyn(dial)
<1>1. new \subseteq old /\ new \in SUBSET Remotes /\ old \in SUBSET Remotes
  BY DEF OfKind, Dyn
<1>2. Cardinality(old) <= MaxDynDials /\ MaxDynDials \in Nat
  BY ServerAssumption DEF ServerInv, DialsBounded, ServerAssumption
<1>. HIDE DEF new, old
<1>3. Cardinality(new) <= Cardinality(old) /\ Cardinality(new) \in Nat /\ Cardinality(old) \in Nat
  BY <1>1, Counting, Zenon
<1>4. Cardinality(new) <= MaxDynDials
  BY <1>2, <1>3
<1>5. DialsBounded(d, P)
  BY <1>4 DEF DialsBounded, new
<1>. QED
  BY <1>5, ScheduledBounded

\* A step that changes no kind of a peer and dials no node more by itself.
LEMMA QuietStep ==
  ASSUME ServerInv, peerOf' \in [Remotes -> PeerType], \A n \in Remotes : peerOf'[n].kind = peerOf[n].kind,
         inboundN' = inboundN, loop' \in {"select", "blocked"} => loop \in {"select", "blocked"},
         inConn' \in [Slots -> ConnType],
         \/ dial' \in DialType /\ Dyn(dial') = Dyn(dial)
         \/ \E d \in DialType : Dyn(d) \subseteq Dyn(dial) /\ dial' \in Scheduled(d, peerOf')
  PROVE  ServerInv'
<1>1. /\ OfKind(peerOf', "dyn") = OfKind(peerOf, "dyn") /\ OfKind(peerOf', "inbound") = OfKind(peerOf, "inbound")
      /\ PeersBounded(peerOf')
  BY FewerPeers DEF OfKind, ServerInv
<1>2. Counted'
  BY <1>1 DEF Counted, ServerInv
<1>3. dial' \in DialType /\ DialsBounded(dial', peerOf')
  <2>1. CASE dial' \in DialType /\ Dyn(dial') = Dyn(dial)
    BY <1>1, <2>1, Zenon DEF DialsBounded, ServerInv
  <2>2. ASSUME NEW d \in DialType, Dyn(d) \subseteq Dyn(dial), dial' \in Scheduled(d, peerOf')
        PROVE  dial' \in DialType /\ DialsBounded(dial', peerOf')
    BY <1>1, <2>2, RoundBounded
  <2>. QED
    BY <2>1, <2>2
<1>. QED
  BY <1>1, <1>2, <1>3 DEF ServerInv, ServerTypeOK

\* A connection goes on from a checkpoint, or ends there.
LEMMA SetStageKeeps ==
  ASSUME ServerInv, NEW id \in Remotes, NEW s \in Slots \cup {0}, s # 0 => inConn[s].id = id,
         NEW stage \in {"ended", "proto"}, SetStage(id, s, stage), UNCHANGED <<peerOf, inboundN, loop>>
  PROVE  ServerInv'
<1>1. dial \in DialType /\ peerOf \in [Remotes -> PeerType] /\ inConn \in [Slots -> ConnType] /\ stage \in TaskStages
  BY DEF ServerInv, ServerTypeOK, TaskStages
<1>2. inConn' \in [Slots -> ConnType]
  <2>1. CASE s = 0
    BY <1>1, <2>1 DEF SetStage
  <2>2. CASE s # 0
    <3>1. inConn[s] \in ConnType /\ inConn[s].id = id
      BY <1>1, <2>2
    <3>2. NoConn \in ConnType
      BY DEF NoConn, ConnType
    <3>3. stage = "proto" => [inConn[s] EXCEPT !.stage = stage] \in ConnType
      BY <3>1 DEF ConnType
    <3>4. inConn' = [inConn EXCEPT ![s] = IF stage = "ended" THEN NoConn ELSE [inConn[s] EXCEPT !.stage = stage]]
      BY <2>2 DEF SetStage
    <3>. QED
      BY <1>1, <3>2, <3>3, <3>4, Zenon
  <2>. QED
    BY <2>1, <2>2
<1>3. \E d \in DialType : Dyn(d) \subseteq Dyn(dial) /\ dial' \in Scheduled(d, peerOf')
  <2>1. CASE s = 0
    <3>1. /\ [dial EXCEPT !.task[id] = stage] \in DialType
          /\ [dial EXCEPT !.task[id] = stage].dialing = dial.dialing
      BY <1>1 DEF DialType
    <3>2. dial' \in Scheduled([dial EXCEPT !.task[id] = stage], peerOf')
      BY <2>1 DEF SetStage
    <3>. QED
      BY <3>1, <3>2, Zenon DEF Dyn
  <2>2. CASE s # 0
    BY <1>1, <2>2 DEF SetStage, Round
  <2>. QED
    BY <2>1, <2>2
<1>. QED
  BY <1>1, <1>2, <1>3, QuietStep

\* addpeer: the connection passed the second checkpoint.
LEMMA AddedKeeps ==
  ASSUME ServerInv, loop = "select", NEW id \in Remotes, NEW s \in Slots \cup {0}, NEW kind,
         s = 0 => kind = dial.dialing[id], s # 0 => kind = "inbound", ~ Rejected(id, kind), Added(id, kind, s)
  PROVE  ServerInv'
<1>1. dial \in DialType /\ peerOf \in [Remotes -> PeerType] /\ inConn \in [Slots -> ConnType]
  BY DEF ServerInv, ServerTypeOK
<1>2. kind \in {"no", "static", "dyn", "inbound"} /\ (kind = "dyn" => id \in Dyn(dial))
  BY <1>1 DEF DialType, Dyn
<1>3. peerOf' = [peerOf EXCEPT ![id] = [kind |-> kind, stage |-> "runs"]]
  BY DEF Added
<1>4. peerOf' \in [Remotes -> PeerType]
  BY <1>1, <1>2, <1>3 DEF PeerType
<1>5. /\ PeersBounded(peerOf')
      /\ OfKind(peerOf', "dyn") \subseteq OfKind(peerOf, "dyn") \cup {n \in {id} : kind = "dyn"}
      /\ OfKind(peerOf', "inbound") = OfKind(peerOf, "inbound") \cup {n \in {id} : kind = "inbound"}
      /\ id \notin OfKind(peerOf, "inbound")
  <2>1. {Connected(peerOf), OfKind(peerOf, "inbound")} \subseteq SUBSET Remotes
    BY DEF Connected, OfKind
  <2>2. /\ Cardinality(Connected(peerOf)) \in Nat /\ Cardinality(OfKind(peerOf, "inbound")) \in Nat
        /\ MaxPeers \in Nat /\ MaxDynDials \in Nat /\ inboundN = Cardinality(OfKind(peerOf, "inbound"))
    BY <2>1, Counting, ServerAssumption, Zenon DEF ServerAssumption, ServerInv, Counted
  <2>3. /\ peerOf[id].kind = "none"
        /\ kind # "static" /\ id \notin TrustedNodes => Cardinality(Connected(peerOf)) < MaxPeers
        /\ kind = "inbound" /\ id \notin TrustedNodes => Cardinality(OfKind(peerOf, "inbound")) < MaxPeers - MaxDynDials
    BY <2>2 DEF Rejected
  <2>4. PeersBounded(peerOf) /\ kind # "none"
    BY <1>2 DEF ServerInv
  <2>5. peerOf'[id].kind = kind /\ \A n \in Remotes \ {id} : peerOf'[n].kind = peerOf[n].kind
    BY <1>1, <1>3 DEF PeerType
  <2>. QED
    BY <2>3, <2>4, <2>5, OneMorePeer, SMT
<1>6. Counted'
  <2>1. /\ inboundN = Cardinality(OfKind(peerOf, "inbound")) /\ loop' = loop
        /\ inboundN' = IF kind = "inbound" THEN inboundN + 1 ELSE inboundN
    BY DEF Added, ServerInv, Counted
  <2>2. Cardinality(OfKind(peerOf, "inbound") \cup {id}) = Cardinality(OfKind(peerOf, "inbound")) + 1
    BY <1>5, Counting, Zenon DEF OfKind
  <2>. QED
    BY <1>5, <2>1, <2>2 DEF Counted
<1>7. inConn' \in [Slots -> ConnType]
  BY <1>1 DEF Added, NoConn, ConnType
<1>8. dial' \in DialType /\ DialsBounded(dial', peerOf')
  <2>1. OfKind(peerOf', "dyn") \subseteq OfKind(peerOf, "dyn") \cup Dyn(dial)
    BY <1>2, <1>5
  <2>2. PICK d \in DialType : Dyn(d) \subseteq Dyn(dial) /\ dial' \in Scheduled(d, peerOf')
    <3>1. CASE s = 0
      <4>1. "ended" \in TaskStages
        BY DEF TaskStages
      <4>2. /\ [dial EXCEPT !.task[id] = "ended"] \in DialType
            /\ [dial EXCEPT !.task[id] = "ended"].dialing = dial.dialing
        BY <1>1, <4>1 DEF DialType
      <4>. QED
        BY <3>1, <4>2, Zenon DEF Added, Dyn
    <3>2. CASE s # 0
      BY <1>1, <3>2 DEF Added
    <3>. QED
      BY <3>1, <3>2
  <2>. QED
    BY <2>1, <2>2, RoundBounded
<1>. QED
  BY <1>4, <1>5, <1>6, <1>7, <1>8 DEF ServerInv, ServerTypeOK

\* The two checkpoints.
LEMMA CheckpointKeeps ==
  ASSUME ServerInv, loop = "select", NEW id \in Remotes, NEW s \in Slots \cup {0}, NEW kind, NEW stage,
         s = 0 => kind = dial.dialing[id], s # 0 => kind = "inbound" /\ inConn[s].id = id,
         Checkpoint(id, kind, s, stage)
  PROVE  ServerInv'
<1>1. dial \in DialType /\ peerOf \in [Remotes -> PeerType] /\ inConn \in [Slots -> ConnType]
  BY DEF ServerInv, ServerTypeOK
<1>2. \/ SetStage(id, s, "ended") /\ UNCHANGED <<peerOf, inboundN, loop>>
      \/ SetStage(id, s, "proto") /\ UNCHANGED <<peerOf, inboundN, loop>>
      \/ ~ Rejected(id, kind) /\ Added(id, kind, s)
      \/ loop' = "blocked" /\ UNCHANGED <<peerOf, inboundN, dial, inConn>>
  BY DEF Checkpoint, Check, RejectedAdd
<1>3. CASE SetStage(id, s, "ended") /\ UNCHANGED <<peerOf, inboundN, loop>>
  BY <1>3, SetStageKeeps
<1>4. CASE SetStage(id, s, "proto") /\ UNCHANGED <<peerOf, inboundN, loop>>
  BY <1>4, SetStageKeeps
<1>5. CASE ~ Rejected(id, kind) /\ Added(id, kind, s)
  BY <1>5, AddedKeeps
<1>6. CASE loop' = "blocked" /\ UNCHANGED <<peerOf, inboundN, dial, inConn>>
  BY <1>1, <1>6, QuietStep
<1>. QED
  BY <1>2, <1>3, <1>4, <1>5, <1>6

\* The steps of connections and of the listener, and what the run loop hears of tasks
\* and from the API: no peer is added.
LEMMA OthersKeep ==
  ASSUME ServerInv
  PROVE  /\ \A n \in Remotes : DialStep(n) \/ TimePasses(n) \/ DialDone(n) \/ AddPeer(n) => ServerInv'
         /\ \A n \in Remotes : RemovePeer(n) \/ PeerEnds(n) => ServerInv'
         /\ \A s \in Slots : InStep(s) => ServerInv'
         /\ LookupDone \/ WaitDone \/ Listen \/ StopServer \/ StopReturn => ServerInv'
<1>1. dial \in DialType /\ peerOf \in [Remotes -> PeerType] /\ inConn \in [Slots -> ConnType]
  BY DEF ServerInv, ServerTypeOK
<1>2. ASSUME NEW n \in Remotes, DialStep(n) \/ TimePasses(n)
      PROVE  ServerInv'
  <2>1. dial' \in DialType /\ dial'.dialing = dial.dialing
    <3>1. CASE DialStep(n)
      <4>1. PICK stage \in TaskStages : dial' = [dial EXCEPT !.task[n] = stage]
        BY <3>1 DEF DialStep, Enter, TaskStages
      <4>. QED
        BY <1>1, <4>1 DEF DialType
    <3>2. CASE TimePasses(n)
      BY <1>1, <3>2 DEF TimePasses, DialType
    <3>. QED
      BY <1>2, <3>1, <3>2
  <2>2. UNCHANGED <<peerOf, inboundN, inConn, loop>>
    BY <1>2 DEF DialStep, TimePasses
  <2>. QED
    BY <1>1, <2>1, <2>2, QuietStep DEF Dyn
<1>3. ASSUME NEW d \in DialType, Dyn(d) \subseteq Dyn(dial), dial' \in Scheduled(d, peerOf),
             UNCHANGED <<peerOf, inboundN, inConn, loop>>
      PROVE  ServerInv'
  BY <1>1, <1>3, QuietStep
<1>4. ASSUME NEW n \in Remotes, DialDone(n)
      PROVE  ServerInv'
  <2>. DEFINE d == [dial EXCEPT !.task[n] = "none", !.dialing[n] = "no", !.hist[n] = "fresh"]
  <2>1. d \in DialType /\ Dyn(d) \subseteq Dyn(dial)
    BY <1>1, Zenon DEF DialType, TaskStages, Dyn
  <2>2. dial' \in Scheduled(d, peerOf) /\ UNCHANGED <<peerOf, inboundN, inConn, loop>>
    BY <1>4 DEF DialDone, TakeDone
  <2>. QED
    BY <1>3, <2>1, <2>2
<1>5. ASSUME NEW n \in Remotes, AddPeer(n)
      PROVE  ServerInv'
  <2>. DEFINE d == [dial EXCEPT !.static = @ \cup {n}]
  <2>1. d \in DialType /\ Dyn(d) \subseteq Dyn(dial)
    BY <1>1 DEF DialType, Dyn
  <2>2. dial' \in Scheduled(d, peerOf) /\ UNCHANGED <<peerOf, inboundN, inConn, loop>>
    BY <1>5 DEF AddPeer
  <2>. QED
    BY <1>3, <2>1, <2>2
<1>6. ASSUME LookupDone \/ WaitDone
      PROVE  ServerInv'
  <2>1. CASE LookupDone
    <3>1. PICK found \in SUBSET Remotes : TakeDone([dial EXCEPT !.lookup = "none", !.buf = @ \cup found])
      BY <2>1, Zenon DEF LookupDone
    <3>. DEFINE d == [dial EXCEPT !.lookup = "none", !.buf = @ \cup found]
    <3>2. d \in DialType /\ Dyn(d) \subseteq Dyn(dial)
      BY <1>1, Zenon DEF DialType, Dyn
    <3>3. dial' \in Scheduled(d, peerOf) /\ UNCHANGED <<peerOf, inboundN, inConn, loop>>
      BY <3>1 DEF TakeDone
    <3>. QED
      BY <1>3, <3>2, <3>3
  <2>2. CASE WaitDone
    <3>. DEFINE d == [dial EXCEPT !.wait = FALSE]
    <3>1. d \in DialType /\ Dyn(d) \subseteq Dyn(dial)
      BY <1>1, Zenon DEF DialType, Dyn
    <3>2. dial' \in Scheduled(d, peerOf) /\ UNCHANGED <<peerOf, inboundN, inConn, loop>>
      BY <2>2 DEF WaitDone, TakeDone
    <3>. QED
      BY <1>3, <3>1, <3>2, Zenon
  <2>. QED
    BY <1>6, <2>1, <2>2
<1>7. ASSUME NEW n \in Remotes, RemovePeer(n)
      PROVE  ServerInv'
  <2>. DEFINE d == [dial EXCEPT !.static = @ \ {n}, !.hist[n] = "no"]
  <2>1. d \in DialType /\ Dyn(d) \subseteq Dyn(dial)
    BY <1>1, Zenon DEF DialType, Dyn
  <2>2. peerOf' \in [Remotes -> PeerType] /\ \A m \in Remotes : peerOf'[m].kind = peerOf[m].kind
    BY <1>1, <1>7 DEF RemovePeer, PeerType
  <2>3. dial' \in Scheduled(d, peerOf') /\ UNCHANGED <<inboundN, inConn, loop>>
    BY <1>7 DEF RemovePeer
  <2>. QED
    BY <1>1, <2>1, <2>2, <2>3, QuietStep
<1>8. ASSUME NEW n \in Remotes, PeerEnds(n)
      PROVE  ServerInv'
  <2>1. peerOf' \in [Remotes -> PeerType] /\ \A m \in Remotes : peerOf'[m].kind = peerOf[m].kind
    BY <1>1, <1>8 DEF PeerEnds, PeerType
  <2>2. UNCHANGED <<dial, inboundN, inConn, loop>>
    BY <1>8 DEF PeerEnds
  <2>. QED
    BY <1>1, <2>1, <2>2, QuietStep
<1>9. NoConn \in ConnType /\ [id |-> Me, stage |-> "setup"] \in ConnType
  BY DEF NoConn, ConnType
<1>10. ASSUME NEW s \in Slots, InStep(s)
       PROVE  ServerInv'
  <2>1. PICK c \in ConnType : inConn' = [inConn EXCEPT ![s] = c]
    <3>1. inConn[s] \in ConnType
      BY <1>1
    <3>2. /\ inConn[s].stage = "setup" => [inConn[s] EXCEPT !.stage = "enc"] \in ConnType
          /\ inConn[s].stage = "proto" => [inConn[s] EXCEPT !.stage = "add"] \in ConnType
          /\ \A n \in Remotes : [id |-> n, stage |-> "post"] \in ConnType
      BY <3>1 DEF ConnType
    <3>. QED
      BY <1>9, <1>10, <3>2 DEF InStep
  <2>2. inConn' \in [Slots -> ConnType] /\ UNCHANGED <<peerOf, inboundN, dial, loop>>
    BY <1>1, <1>10, <2>1 DEF InStep
  <2>. QED
    BY <1>1, <2>2, QuietStep
<1>11. ASSUME Listen \/ StopServer \/ StopReturn
       PROVE  ServerInv'
  <2>1. inConn' \in [Slots -> ConnType] /\ UNCHANGED <<peerOf, inboundN, dial, loop>>
    <3>1. CASE Listen
      BY <1>1, <1>9, <3>1, Zenon DEF Listen
    <3>2. CASE StopServer \/ StopReturn
      BY <1>1, <3>2 DEF StopServer, StopReturn
    <3>. QED
      BY <1>11, <3>1, <3>2
  <2>. QED
    BY <1>1, <2>1, QuietStep
<1>. QED
  BY <1>2, <1>4, <1>5, <1>6, <1>7, <1>8, <1>10, <1>11

\* The run loop lets peers go.
LEMMA DropKeeps ==
  ASSUME ServerInv, TakeDrop \/ TakeQuit \/ SpinDown
  PROVE  ServerInv'
<1>1. dial \in DialType /\ peerOf \in [Remotes -> PeerType] /\ inConn \in [Slots -> ConnType]
  BY DEF ServerInv, ServerTypeOK
<1>2. CASE TakeDrop
  <2>1. PICK n \in Remotes : peerOf' = [peerOf EXCEPT ![n] = NoPeerYet] /\ Drop(n) /\ dial' \in Scheduled(dial, peerOf')
    BY <1>2, Zenon DEF TakeDrop
  <2>2. peerOf' \in [Remotes -> PeerType] /\ \A m \in Remotes : peerOf'[m].kind = IF m = n THEN "none" ELSE peerOf[m].kind
    BY <1>1, <2>1 DEF NoPeerYet, PeerType
  <2>3. PeersBounded(peerOf') /\ OfKind(peerOf', "dyn") \subseteq OfKind(peerOf, "dyn")
    <3>1. \A m \in Remotes : peerOf'[m].kind \in {peerOf[m].kind, "none"}
      BY <2>2
    <3>. QED
      BY <3>1, FewerPeers, Zenon DEF ServerInv
  <2>4. OfKind(peerOf', "inbound") = OfKind(peerOf, "inbound") \ {n}
    BY <2>2 DEF OfKind
  <2>5. Counted'
    <3>1. /\ inboundN = Cardinality(OfKind(peerOf, "inbound")) /\ loop' = loop
          /\ inboundN' = IF peerOf[n].kind = "inbound" THEN inboundN - 1 ELSE inboundN
      BY <1>2, <2>1 DEF TakeDrop, Drop, ServerInv, Counted
    <3>2. CASE peerOf[n].kind = "inbound"
      <4>1. n \in OfKind(peerOf, "inbound") /\ OfKind(peerOf, "inbound") \in SUBSET Remotes
        BY <3>2 DEF OfKind
      <4>2. Cardinality(OfKind(peerOf, "inbound") \ {n}) = Cardinality(OfKind(peerOf, "inbound")) - 1
        BY <4>1, Counting
      <4>. QED
        BY <2>4, <3>1, <3>2, <4>2 DEF Counted
    <3>3. CASE peerOf[n].kind # "inbound"
      <4>1. OfKind(peerOf, "inbound") \ {n} = OfKind(peerOf, "inbound")
        BY <3>3 DEF OfKind
      <4>. QED
        BY <2>4, <3>1, <3>3, <4>1 DEF Counted
    <3>. QED
      BY <3>2, <3>3
  <2>6. dial' \in DialType /\ DialsBounded(dial', peerOf')
    BY <1>1, <2>1, <2>3, RoundBounded, Zenon
  <2>. QED
    BY <1>1, <1>2, <2>2, <2>3, <2>5, <2>6 DEF ServerInv, ServerTypeOK, TakeDrop
<1>3. CASE TakeQuit \/ SpinDown
  <2>1. peerOf' \in [Remotes -> PeerType] /\ \A m \in Remotes : peerOf'[m].kind \in {peerOf[m].kind, "none"}
    <3>1. CASE TakeQuit
      BY <1>1, <3>1 DEF TakeQuit, NoPeerYet, PeerType
    <3>2. CASE SpinDown
      <4>1. peerOf' = peerOf \/ \E n \in Remotes : peerOf' = [peerOf EXCEPT ![n] = NoPeerYet]
        BY <3>2 DEF SpinDown, Connected
      <4>. QED
        BY <1>1, <4>1 DEF NoPeerYet, PeerType
    <3>. QED
      BY <1>3, <3>1, <3>2
  <2>2. PeersBounded(peerOf') /\ OfKind(peerOf', "dyn") \subseteq OfKind(peerOf, "dyn")
    BY <2>1, FewerPeers DEF ServerInv
  <2>3. loop' \in {"spindown", "gone"} /\ dial' = dial /\ inConn' = inConn
    BY <1>3 DEF TakeQuit, SpinDown
  <2>4. DialsBounded(dial', peerOf')
    <3>. DEFINE new == OfKind(peerOf', "dyn") \cup Dyn(dial)
                old == OfKind(peerOf, "dyn") \cup Dyn(dial)
    <3>1. new \subseteq old /\ new \in SUBSET Remotes /\ old \in SUBSET Remotes
      BY <2>2 DEF OfKind, Dyn
    <3>2. Cardinality(old) <= MaxDynDials /\ MaxDynDials \in Nat
      BY ServerAssumption DEF ServerInv, DialsBounded, ServerAssumption
    <3>. HIDE DEF new, old
    <3>3. Cardinality(new) <= Cardinality(old) /\ Cardinality(new) \in Nat /\ Cardinality(old) \in Nat
      BY <3>1, Counting, Zenon
    <3>4. Cardinality(new) <= MaxDynDials
      BY <3>2, <3>3
    <3>. QED
      BY <2>3, <3>4 DEF DialsBounded, new
  <2>. QED
    BY <1>1, <2>1, <2>2, <2>3, <2>4 DEF ServerInv, ServerTypeOK, Counted
<1>. QED
  BY <1>2, <1>3

\* Whatever connections race through the checkpoints, the peers stay within
\* MaxPeers and the inbound ones within their share, inboundCount is exact until
\* the server spins down, and the dialler does not overshoot (run, encHandshakeChecks,
\* protoHandshakeChecks, newTasks).
THEOREM PeersLimited == ServerSpec => []PeerLimits
<1>1. ServerInit => ServerInv
  <2>. SUFFICES ASSUME ServerInit PROVE ServerInv
    OBVIOUS
  <2>. DEFINE P == [n \in Remotes |-> NoPeerYet]
              d == [static |-> StaticNodes, dialing |-> [n \in Remotes |-> "no"],
                    task |-> [n \in Remotes |-> "none"], hist |-> [n \in Remotes |-> "no"],
                    buf |-> {}, lookup |-> "none", wait |-> FALSE]
  <2>1. d \in DialType
    BY ServerAssumption DEF DialType, TaskStages, ServerAssumption
  <2>2. P \in [Remotes -> PeerType] /\ Connected(P) = {} /\ OfKind(P, "inbound") = {} /\ OfKind(P, "dyn") = {} /\ Dyn(d) = {}
    BY DEF PeerType, NoPeerYet, Connected, OfKind, Dyn
  <2>3. Cardinality({}) = 0 /\ MaxPeers \in Nat /\ MaxDynDials \in Nat /\ MaxDynDials <= MaxPeers
    BY FS_EmptySet, ServerAssumption DEF ServerAssumption
  <2>4. peerOf = P /\ dial \in Scheduled(d, P) /\ inboundN = 0 /\ inConn = [s \in Slots |-> NoConn]
    BY DEF ServerInit, FirstDials
  <2>. HIDE DEF P, d
  <2>5. PeersBounded(P) /\ DialsBounded(d, P)
    <3>1. (Connected(P) \ TrustedNodes) \ OfKind(P, "static") = {} /\ (Connected(P) \ TrustedNodes) \cap OfKind(P, "inbound") = {}
      BY <2>2
    <3>2. OfKind(P, "dyn") \cup Dyn(d) = {}
      BY <2>2
    <3>3. 0 <= MaxPeers /\ 0 <= MaxPeers - MaxDynDials /\ 0 <= MaxDynDials
      BY <2>3
    <3>. QED
      BY <2>3, <3>1, <3>2, <3>3, Zenon DEF PeersBounded, DialsBounded
  <2>6. dial \in DialType /\ DialsBounded(dial, P)
    BY <2>1, <2>4, <2>5, ScheduledBounded
  <2>7. inConn \in [Slots -> ConnType]
    BY <2>4 DEF NoConn, ConnType
  <2>. QED
    BY <2>2, <2>3, <2>4, <2>5, <2>6, <2>7 DEF ServerInv, ServerTypeOK, Counted
<1>2. ServerInv /\ [ServerNext]_serverVars => ServerInv'
  <2>. SUFFICES ASSUME ServerInv, [ServerNext]_serverVars PROVE ServerInv'
    OBVIOUS
  <2>1. dial \in DialType /\ peerOf \in [Remotes -> PeerType] /\ inConn \in [Slots -> ConnType]
    BY DEF ServerInv, ServerTypeOK
  <2>2. CASE UNCHANGED serverVars
    BY <2>1, <2>2, QuietStep DEF serverVars
  <2>3. ASSUME NEW n \in Remotes, TakeDialled(n)
        PROVE  ServerInv'
    <3>1. loop = "select" /\ Checkpoint(n, dial.dialing[n], 0, dial.task[n])
      BY <2>3 DEF TakeDialled
    <3>. QED
      BY <3>1, CheckpointKeeps
  <2>4. ASSUME NEW s \in Slots, TakeInbound(s)
        PROVE  ServerInv'
    <3>1. loop = "select" /\ Checkpoint(inConn[s].id, "inbound", s, inConn[s].stage)
      BY <2>4 DEF TakeInbound
    <3>2. inConn[s].stage \in {"post", "add"}
      BY <3>1 DEF Checkpoint
    <3>3. inConn[s].id \in Remotes /\ s # 0
      BY <2>1, <3>2, ServerAssumption DEF ConnType, Slots, ServerAssumption
    <3>. QED
      BY <3>1, <3>3, CheckpointKeeps
  <2>5. CASE TakeDrop \/ TakeQuit \/ SpinDown
    BY <2>5, DropKeeps
  <2>. QED
    BY <2>2, <2>3, <2>4, <2>5, OthersKeep DEF ServerNext
<1>3. ServerInv => PeerLimits
  BY DEF ServerInv, PeersBounded, DialsBounded, Dyn, Counted, PeerLimits
<1>. QED
  BY <1>1, <1>2, <1>3, PTL DEF ServerSpec
=============================================================================
