----------------------------- MODULE BFTSealing -----------------------------
(***************************************************************************)
(* How a validator makes blocks: the worker that assembles work, the agent *)
(* that has one goroutine per work seal it, and the BFT backend, whose Seal *)
(* hands the block to the core and waits on commitCh for the core's Commit. *)
(* A work is a number, the index of its block among the node's own blocks. *)
(* The core decides on blocks as BFTCore says; here it is one goroutine    *)
(* that commits any requested block of its sequence, and commits the same  *)
(* block again after a round change until the chain has it.                *)
(***************************************************************************)
EXTENDS Integers, Sequences, FiniteSets

CONSTANTS
  Cases,    \* what to check: bounds on heights and on calls of Start and Stop, other validators or not
  Restart   \* whether Start may follow a Stop

ASSUME SealingAssumption ==
  /\ Cases \subseteq [height : Nat, starts : Nat, stops : Nat, peers : BOOLEAN]
  /\ Restart \in BOOLEAN

VARIABLES
  canon,    \* the chain: the work of each block, or Other
  heads,    \* ChainHeadEvents that worker.update has not taken
  works,    \* per work the number of its block, the pc of mine and whether its stop is closed
  miner,    \* worker.mining, wait's mustCommitNewWork, the pc of Start or Stop, calls so far
  agent,    \* CpuAgent: isMining, update goroutines, stop, workCh, work of quitCurrentOp
  backend,  \* commitCh, holder of sealMu, proposedBlockHash
  engine,   \* the core: pc, block it is sending, sequence, requests, block it decided on
  queued,   \* blocks in the fetcher
  case      \* the case of the run

sealingVars == <<canon, heads, works, miner, agent, backend, engine, queued, case>>

None == 0
Other == -1  \* a block of another validator
Work == 1 .. Len(works)
InPc(pc) == {w \in Work : works[w].pc = pc}
Crashed == InPc("nil") # {}

SealingInit ==
  /\ canon = <<>> /\ heads = 0 /\ works = <<>> /\ queued = {} /\ case \in Cases
  /\ miner = [mining |-> FALSE, must |-> TRUE, pc |-> "idle", starts |-> 0, stops |-> 0]
  /\ agent = [isMining |-> FALSE, loops |-> 0, stop |-> FALSE, workCh |-> None, cur |-> None]
  /\ backend = [commitCh |-> None, sealMu |-> None, proposed |-> None]
  /\ engine = [pc |-> "off", sending |-> None, seq |-> 1, requested |-> {}, decided |-> {}]
-----------------------------------------------------------------------------
\* makeCurrent and push: new work for the next block goes to the agent.
commitNewWork ==
  IF ~ miner.mining THEN UNCHANGED <<works, agent>>
  ELSE /\ agent.workCh = None
       /\ works' = Append(works, [num |-> Len(canon) + 1, pc |-> "queued", stop |-> FALSE])
       /\ agent' = [agent EXCEPT !.workCh = Len(works) + 1]

\* worker.start, and the backend's Start unless the core runs: it replaces
\* commitCh and closes the old one, from which a Seal that waits receives nil.
Start ==
  /\ miner.pc = "idle" /\ miner.starts < case.starts /\ (Restart \/ miner.stops = 0)
  /\ miner' = [miner EXCEPT !.mining = TRUE, !.pc = "start", !.starts = @ + 1]
  /\ agent' = IF agent.isMining THEN agent ELSE [agent EXCEPT !.isMining = TRUE, !.loops = @ + 1]
  /\ IF engine.pc # "off" THEN UNCHANGED <<works, backend, engine>>
     ELSE /\ works' = [w \in Work |-> IF works[w].pc = "wait" /\ backend.commitCh = None
                                      THEN [works[w] EXCEPT !.pc = "nil"] ELSE works[w]]
          /\ backend' = [backend EXCEPT !.commitCh = None, !.proposed = None]
          /\ engine' = [engine EXCEPT !.pc = "idle", !.seq = Len(canon) + 1, !.decided = {}]
  /\ UNCHANGED <<canon, heads, queued, case>>

\* The end of Miner.Start.
StartCommits ==
  /\ miner.pc = "start"
  /\ miner' = [miner EXCEPT !.pc = "idle"]
  /\ commitNewWork
  /\ UNCHANGED <<canon, heads, backend, engine, queued, case>>

\* worker.stop up to the wait for the core's goroutine; CpuAgent.Stop empties workCh.
Stop ==
  /\ miner.pc = "idle" /\ miner.stops < case.stops
  /\ agent.isMining => ~ agent.stop
  /\ miner' = [miner EXCEPT !.pc = "stop", !.stops = @ + 1]
  /\ IF ~ (miner.mining /\ agent.isMining) THEN UNCHANGED <<agent, works>>
     ELSE /\ agent' = [agent EXCEPT !.isMining = FALSE, !.stop = TRUE, !.workCh = None]
          /\ works' = [w \in Work |-> IF w = agent.workCh
                                      THEN [works[w] EXCEPT !.pc = "gone"] ELSE works[w]]
  /\ UNCHANGED <<canon, heads, backend, engine, queued, case>>

\* The core's goroutine has ended; requests for later blocks stay in pendingRequests.
StopDone ==
  /\ miner.pc = "stop" /\ engine.pc # "send"
  /\ miner' = [miner EXCEPT !.pc = "idle", !.mining = FALSE]
  /\ engine' = [engine EXCEPT !.pc = "off",
                              !.requested = {w \in @ : works[w].num > engine.seq}]
  /\ UNCHANGED <<canon, heads, works, agent, backend, queued, case>>

\* worker.update takes a ChainHeadEvent; worker.mu is taken while Stop waits.
UpdateHead ==
  /\ heads > 0 /\ miner.pc # "stop"
  /\ heads' = heads - 1
  /\ commitNewWork
  /\ UNCHANGED <<canon, miner, backend, engine, queued, case>>
-----------------------------------------------------------------------------
\* A variant that forgets about the current work without closing quitCurrentOp.
CloseQuitNot(ws) == ws

\* Closes quitCurrentOp.
CloseQuit(ws) == [w \in 1 .. Len(ws) |-> IF w = agent.cur THEN [ws[w] EXCEPT !.stop = TRUE] ELSE ws[w]]

\* CpuAgent.update takes new work and leaves the old one.
AgentWork ==
  /\ agent.loops > 0 /\ agent.workCh # None
  /\ works' = [CloseQuit(works) EXCEPT ![agent.workCh].pc = "delay"]
  /\ agent' = [agent EXCEPT !.cur = agent.workCh, !.workCh = None]
  /\ UNCHANGED <<canon, heads, miner, backend, engine, queued, case>>

\* CpuAgent.update takes the stop signal and ends.
AgentStop ==
  /\ agent.loops > 0 /\ agent.stop
  /\ works' = CloseQuit(works)
  /\ agent' = [agent EXCEPT !.cur = None, !.stop = FALSE, !.loops = @ - 1]
  /\ UNCHANGED <<canon, heads, miner, backend, engine, queued, case>>

Cleared == [backend EXCEPT !.proposed = None, !.sealMu = None]

\* Seal after the block's time: a Seal that waits for sealMu does not see stop.
SealPropose(w) ==
  /\ works[w].pc = "delay" /\ backend.sealMu = None
  /\ works' = [works EXCEPT ![w].pc = "wait"]
  /\ backend' = [backend EXCEPT !.sealMu = w, !.proposed = w]
  /\ engine' = IF engine.pc = "off" THEN engine ELSE [engine EXCEPT !.requested = @ \cup {w}]
  /\ UNCHANGED <<canon, heads, miner, agent, queued, case>>

\* Seal returns for stop, before the block's time or while it waits for commitCh.
SealStopped(w) ==
  /\ works[w].pc \in {"delay", "wait"} /\ works[w].stop
  /\ works' = [works EXCEPT ![w].pc = "gone"]
  /\ backend' = IF works[w].pc = "wait" THEN Cleared ELSE backend
  /\ UNCHANGED <<canon, heads, miner, agent, engine, queued, case>>

\* Seal receives a block: its own ends it, another is dropped.
SealReceive(w) ==
  /\ works[w].pc = "wait" /\ backend.commitCh # None
  /\ IF backend.commitCh = w
     THEN /\ works' = [works EXCEPT ![w].pc = "result"]
          /\ backend' = [Cleared EXCEPT !.commitCh = None]
     ELSE /\ backend' = [backend EXCEPT !.commitCh = None]
          /\ UNCHANGED works
  /\ UNCHANGED <<canon, heads, miner, agent, engine, queued, case>>

\* worker.wait writes a sealed block; one that has the number of the head already
\* may become the head again (WriteBlockWithState).
WaitResult(w) ==
  /\ works[w].pc = "result" /\ miner.pc # "stop"
  /\ \E becomesHead \in BOOLEAN :
       /\ works[w].num = Len(canon) + 1 => becomesHead
       /\ works[w].num < Len(canon) => ~ becomesHead
       /\ canon' = IF works[w].num = Len(canon) + 1 THEN Append(canon, w) ELSE canon
       /\ heads' = IF becomesHead THEN heads + 1 ELSE heads
       /\ miner' = [miner EXCEPT !.must = @ /\ ~ becomesHead]
       /\ IF miner'.must /\ miner.mining
          THEN /\ agent.workCh = None
               /\ works' = Append([works EXCEPT ![w].pc = "gone"],
                                  [num |-> Len(canon) + 1, pc |-> "queued", stop |-> FALSE])
               /\ agent' = [agent EXCEPT !.workCh = Len(works) + 1]
          ELSE works' = [works EXCEPT ![w].pc = "gone"] /\ UNCHANGED agent
  /\ UNCHANGED <<backend, engine, queued, case>>
-----------------------------------------------------------------------------
Extended(b) == canon' = Append(canon, b) /\ heads' = heads + 1

\* Blocks the core can decide on: of its sequence, and the same again after a
\* round change.
Decidable ==
  {b \in {w \in engine.requested : works[w].num = engine.seq} \cup (IF case.peers THEN {Other} ELSE {}) :
     engine.decided \subseteq {b} /\ (engine.seq <= Len(canon) => b = canon[engine.seq])}

\* The goroutine of a core that is stopped ends after the event it is at.
Rest == IF miner.pc = "stop" THEN "over" ELSE "idle"

\* A variant that inserts no block that Seal does not wait for.
CommitProposedOnly(b) ==
  /\ engine.pc = "idle" /\ engine.seq <= case.height
  /\ b \in Decidable
  /\ engine' = IF backend.proposed = b
               THEN [engine EXCEPT !.decided = {b}, !.pc = "send", !.sending = b]
               ELSE [engine EXCEPT !.decided = {b}, !.pc = Rest]
  /\ UNCHANGED <<canon, heads, works, miner, agent, backend, queued, case>>

\* Commit of the backend, in the core's goroutine: it reads proposedBlockHash
\* without sealMu.
Commit(b) ==
  /\ engine.pc = "idle" /\ engine.seq <= case.height
  /\ b \in Decidable
  /\ IF backend.proposed = b
     THEN engine' = [engine EXCEPT !.decided = {b}, !.pc = "send", !.sending = b] /\ UNCHANGED queued
     ELSE engine' = [engine EXCEPT !.decided = {b}, !.pc = Rest] /\ queued' = queued \cup {<<engine.seq, b>>}
  /\ UNCHANGED <<canon, heads, works, miner, agent, backend, case>>

\* commitCh has room for one block.
CommitSend ==
  /\ engine.pc = "send" /\ backend.commitCh = None
  /\ backend' = [backend EXCEPT !.commitCh = engine.sending]
  /\ engine' = [engine EXCEPT !.pc = Rest, !.sending = None]
  /\ UNCHANGED <<canon, heads, works, miner, agent, queued, case>>

\* The core learns of a new head, from NewChainHead or when its timer fires.
FinalCommitted ==
  /\ engine.pc = "idle" /\ engine.seq <= Len(canon)
  /\ engine' = [engine EXCEPT !.seq = Len(canon) + 1, !.decided = {},
                              !.requested = {w \in @ : works[w].num > Len(canon)}]
  /\ UNCHANGED <<canon, heads, works, miner, agent, backend, queued, case>>

\* The fetcher imports a block.
Import(q) ==
  /\ queued' = queued \ {q}
  /\ IF q[1] = Len(canon) + 1 THEN Extended(q[2]) ELSE UNCHANGED <<canon, heads>>
  /\ UNCHANGED <<works, miner, agent, backend, engine, case>>

\* A block arrives from another validator; it is the one this core decided on.
PeerImport ==
  /\ case.peers /\ Len(canon) < case.height
  /\ \E b \in IF engine.seq = Len(canon) + 1 /\ engine.decided # {} THEN engine.decided ELSE {Other} :
       Extended(b)
  /\ UNCHANGED <<works, miner, agent, backend, engine, queued, case>>

\* Steps that goroutines take by themselves.
Step ==
  \/ StartCommits \/ StopDone \/ UpdateHead \/ AgentWork \/ AgentStop
  \/ \E w \in Work : SealPropose(w) \/ SealStopped(w) \/ SealReceive(w) \/ WaitResult(w)
  \/ \E b \in engine.requested \cup {Other} : Commit(b)
  \/ CommitSend \/ FinalCommitted
  \/ \E q \in queued : Import(q)

SealingNext == ~ Crashed /\ (Start \/ Stop \/ PeerImport \/ Step)

SealingGoroutine(g) ==
  /\ ~ Crashed
  /\ CASE g = "miner"        -> StartCommits \/ StopDone
       [] g = "worker"       -> UpdateHead
       [] g = "agent work"   -> AgentWork
       [] g = "agent stop"   -> AgentStop
       [] g = "propose"      -> \E w \in Work : SealPropose(w)
       [] g = "seal"         -> \E w \in Work : SealStopped(w) \/ SealReceive(w)
       [] g = "result"       -> \E w \in Work : WaitResult(w)
       [] g = "core commit"  -> \E b \in engine.requested : Commit(b)
       [] g = "core"         -> CommitSend \/ FinalCommitted
       [] g = "fetcher"      -> \E q \in queued : Import(q)

SealingGoroutines ==
  {"miner", "worker", "agent work", "agent stop", "propose", "seal", "result", "core commit", "core", "fetcher"}

\* Every goroutine that can go on does: a select takes each of its ready cases
\* in the long run, and the core decides on what it is asked for.
SealingFairness == \A g \in SealingGoroutines : WF_sealingVars(SealingGoroutine(g))

SealingSpec == SealingInit /\ [][SealingNext]_sealingVars /\ SealingFairness
-----------------------------------------------------------------------------
LiveSeals == {w \in InPc("delay") \cup InPc("wait") : ~ works[w].stop}

\* However starts, stops and new heads interleave, at most one Seal is not told
\* to stop, the one of the agent's current work, and none is left when the last
\* update goroutine has ended (CpuAgent.update, Stop).  A started miner works on
\* the next block: when nothing is under way any more, the current work is for
\* it.  A Seal ends with its own block or because it was told to ("Otherwise, keep
\* waiting the next hash."); the one case in which it receives nil from a closed
\* commitCh takes a Stop and a Start that pass it by.
SealInHand ==
  /\ LiveSeals \subseteq {agent.cur}
  /\ agent.loops = 0 => LiveSeals = {}
  /\ miner.mining /\ miner.pc = "idle" /\ heads = 0 /\ agent.workCh = None /\ miner.stops = 0 =>
       agent.cur # None /\ works[agent.cur].num = Len(canon) + 1
  /\ Crashed => miner.stops > 0

\* As long as it is not stopped a miner gets block after block into the chain,
\* with other validators or alone: no block that the core committed is lost for
\* good between Commit, commitCh and Seal, and the core does not wait forever to
\* hand one over.
ChainAdvances == miner.starts > 0 ~> (Len(canon) = case.height \/ miner.stops > 0)
=============================================================================
