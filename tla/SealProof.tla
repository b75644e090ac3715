----------------------------- MODULE SealProof ------------------------------
(***************************************************************************)
(* Proofs about how blocks are made: the goroutines that seal the blocks   *)
(* of the BFT core, its backlog of messages, and who may seal, with which  *)
(* difficulty, in the DPoS engine; for every value of their constants.     *)
(***************************************************************************)
EXTENDS BFTSealing, BFTBacklog, DposSeal, FiniteSetTheorems, TLAPS

(***************************************************************************)
(* The goroutines that make blocks.  InHand strengthens SealInHand: as     *)
(* long as Stop was not called the work for the next block is either with  *)
(* the agent or waits for it, unless a head event or the end of Start is   *)
(* still to commit it.                                                     *)
(***************************************************************************)
\* The types of the sealing goroutines' state.
Pcs == {"queued", "delay", "wait", "result", "gone", "nil"}
WorkRec == [num : Nat, pc : Pcs, stop : BOOLEAN]

MinerType == [mining : BOOLEAN, must : BOOLEAN, pc : {"idle", "start", "stop"}, starts : Nat, stops : Nat]
AgentType(n) == [isMining : BOOLEAN, loops : Nat, stop : BOOLEAN, workCh : 0 .. n, cur : 0 .. n]
EngineType == [pc : {"off", "idle", "send", "over"}, sending : Int, seq : Nat, requested : SUBSET Int, decided : SUBSET Int]

SealingTypeOK ==
  /\ works \in Seq(WorkRec) /\ canon \in Seq(Int) /\ heads \in Nat /\ queued \subseteq Nat \X Int
  /\ miner \in MinerType /\ agent \in AgentType(Len(works)) /\ engine \in EngineType

\* The works whose Seal is not told to stop.
Live(ws) == {w \in 1 .. Len(ws) : ws[w].pc \in {"delay", "wait"} /\ ~ ws[w].stop}

\* The work for the next block is with the agent.
NextInHand(ws, a, n) ==
  IF a.workCh # None THEN ws[a.workCh].num = n ELSE a.cur # None /\ ws[a.cur].num = n

InHand ==
  /\ Live(works) \subseteq {agent.cur}
  /\ agent.loops = 0 => Live(works) = {}
  /\ miner.pc = "start" => miner.mining
  /\ miner.stops = 0 =>
       /\ miner.pc # "stop" /\ ~ agent.stop
       /\ \A w \in 1 .. Len(works) : works[w].pc # "nil"
       /\ engine.pc = "off" => Len(works) = 0 /\ ~ miner.mining
       /\ miner.mining /\ miner.pc = "idle" /\ heads = 0 => NextInHand(works, agent, Len(canon) + 1)

\* A list of works that is changed entry by entry.
LEMMA MapWorks ==
  ASSUME NEW s \in Seq(WorkRec), NEW t \in [1 .. Len(s) -> WorkRec]
  PROVE  t \in Seq(WorkRec) /\ Len(t) = Len(s)
<1>1. Len(s) \in Nat
  OBVIOUS
<1>2. t \in Seq(WorkRec)
  BY <1>1
<1>3. Len(t) \in Nat /\ DOMAIN t = 1 .. Len(t) /\ DOMAIN t = 1 .. Len(s)
  BY <1>2
<1>. QED
  BY <1>1, <1>2, <1>3

Moved(s, w, p) == [s EXCEPT ![w].pc = p]

\* One work goes on.
LEMMA WorkGoesOn ==
  ASSUME NEW s \in Seq(WorkRec), NEW w \in 1 .. Len(s), NEW p \in Pcs,
         NEW t, t = Moved(s, w, p)
  PROVE  /\ t \in Seq(WorkRec) /\ Len(t) = Len(s)
         /\ \A v \in 1 .. Len(s) : /\ t[v].num = s[v].num /\ t[v].stop = s[v].stop
                                   /\ (v = w => t[v].pc = p) /\ (v # w => t[v].pc = s[v].pc)
<1>1. s \in [1 .. Len(s) -> WorkRec]
  OBVIOUS
<1>2. t \in [1 .. Len(s) -> WorkRec]
  BY <1>1 DEF WorkRec, Pcs, Moved
<1>3. \A v \in 1 .. Len(s) : /\ t[v].num = s[v].num /\ t[v].stop = s[v].stop
                             /\ (v = w => t[v].pc = p) /\ (v # w => t[v].pc = s[v].pc)
  BY <1>1 DEF WorkRec, Moved
<1>. QED
  BY <1>2, <1>3, MapWorks

\* Work for the block with number n that waits for the agent.
Fresh(n) == [num |-> n, pc |-> "queued", stop |-> FALSE]

\* A new work waits at the end of the list.
LEMMA NewWork ==
  ASSUME NEW s \in Seq(WorkRec), NEW n \in Nat,
         NEW t, t = Append(s, Fresh(n))
  PROVE  /\ t \in Seq(WorkRec) /\ Len(t) = Len(s) + 1
         /\ \A v \in 1 .. Len(s) : t[v] = s[v]
         /\ t[Len(s) + 1] = Fresh(n)
         /\ Live(t) = Live(s)
<1>1. Fresh(n) \in WorkRec
  BY DEF WorkRec, Pcs, Fresh
<1>2. /\ t \in Seq(WorkRec) /\ Len(t) = Len(s) + 1 /\ Len(s) \in Nat
      /\ \A v \in 1 .. Len(s) : t[v] = s[v]
      /\ t[Len(s) + 1] = Fresh(n)
  BY <1>1
<1>3. Live(t) = Live(s)
  <2>1. \A v \in 1 .. Len(t) : v \in 1 .. Len(s) \/ v = Len(s) + 1
    BY <1>2
  <2>2. Len(s) + 1 \notin Live(t)
    BY <1>2 DEF Live, Fresh
  <2>3. 1 .. Len(s) \subseteq 1 .. Len(t)
    BY <1>2
  <2>. QED
    BY <1>2, <2>1, <2>2, <2>3 DEF Live
<1>. QED
  BY <1>2, <1>3

\* closing quitCurrentOp.
LEMMA QuitClosed ==
  ASSUME NEW s \in Seq(WorkRec), NEW t, t = CloseQuit(s)
  PROVE  /\ t \in Seq(WorkRec) /\ Len(t) = Len(s)
         /\ \A v \in 1 .. Len(s) : /\ t[v].num = s[v].num /\ t[v].pc = s[v].pc
                                   /\ (v = agent.cur => t[v].stop = TRUE) /\ (v # agent.cur => t[v].stop = s[v].stop)
<1>1. s \in [1 .. Len(s) -> WorkRec]
  OBVIOUS
<1>2. /\ t \in [1 .. Len(s) -> WorkRec]
      /\ \A v \in 1 .. Len(s) : /\ t[v].num = s[v].num /\ t[v].pc = s[v].pc
                                /\ (v = agent.cur => t[v].stop = TRUE) /\ (v # agent.cur => t[v].stop = s[v].stop)
  BY <1>1, Zenon DEF CloseQuit, WorkRec
<1>. QED
  BY <1>2, MapWorks

\* What commitNewWork does: new work for the next block, if the miner mines.
LEMMA NewWorkCommitted ==
  ASSUME SealingTypeOK, commitNewWork
  PROVE  /\ works' \in Seq(WorkRec) /\ Len(works') >= Len(works) /\ Live(works') = Live(works)
         /\ agent' \in AgentType(Len(works'))
         /\ agent'.cur = agent.cur /\ agent'.loops = agent.loops /\ agent'.stop = agent.stop
         /\ \A w \in 1 .. Len(works') : works'[w].pc = "nil" => w \in 1 .. Len(works) /\ works[w].pc = "nil"
         /\ miner.mining => NextInHand(works', agent', Len(canon) + 1)
         /\ ~ miner.mining => Len(works') = Len(works)
<1>1. /\ works \in Seq(WorkRec) /\ Len(works) \in Nat /\ Len(canon) \in Nat /\ miner.mining \in BOOLEAN
      /\ agent \in AgentType(Len(works))
  BY DEF SealingTypeOK, MinerType
<1>2. CASE ~ miner.mining
  BY <1>1, <1>2 DEF commitNewWork
<1>3. CASE miner.mining
  <2>1. /\ works' = Append(works, Fresh(Len(canon) + 1))
        /\ agent' = [agent EXCEPT !.workCh = Len(works) + 1]
    BY <1>3 DEF commitNewWork, Fresh
  <2>2. /\ works' \in Seq(WorkRec) /\ Len(works') = Len(works) + 1 /\ Live(works') = Live(works)
        /\ \A v \in 1 .. Len(works) : works'[v] = works[v]
        /\ works'[Len(works) + 1] = Fresh(Len(canon) + 1)
    <3>1. works \in Seq(WorkRec) /\ Len(canon) + 1 \in Nat /\ works' = Append(works, Fresh(Len(canon) + 1))
      BY <1>1, <2>1
    <3>. QED
      BY <3>1, NewWork, Zenon
  <2>3. /\ agent' \in AgentType(Len(works'))
        /\ agent'.cur = agent.cur /\ agent'.loops = agent.loops /\ agent'.stop = agent.stop
        /\ agent'.workCh = Len(works) + 1
    <3>1. Len(works) + 1 \in 0 .. Len(works') /\ 0 .. Len(works) \subseteq 0 .. Len(works')
      BY <1>1, <2>2
    <3>. QED
      BY <1>1, <2>1, <3>1, Zenon DEF AgentType
  <2>4. NextInHand(works', agent', Len(canon) + 1)
    BY <1>1, <2>2, <2>3 DEF NextInHand, None, Fresh
  <2>. QED
    BY <1>1, <1>3, <2>2, <2>3, <2>4 DEF Fresh
<1>. QED
  BY <1>1, <1>2, <1>3

\* Steps that leave the miner and the agent alone, start no Seal, and make a
\* head event of every new block.
LEMMA OthersKeepInHand ==
  ASSUME SealingTypeOK, InHand, works' \in Seq(WorkRec), Len(works') = Len(works),
         \A w \in 1 .. Len(works) : /\ works'[w].num = works[w].num
                                    /\ works'[w].pc = "nil" => works[w].pc = "nil",
         Live(works') \subseteq Live(works),
         miner'.mining = miner.mining, miner'.pc = miner.pc, miner'.stops = miner.stops,
         agent' = agent, engine'.pc = "off" => engine.pc = "off",
         heads' \in Nat, heads' = 0 => heads = 0 /\ canon' = canon
  PROVE  InHand'
<1>1. miner.stops = 0 /\ miner.mining /\ miner.pc = "idle" /\ heads' = 0 =>
        NextInHand(works', agent', Len(canon') + 1)
  <2>. SUFFICES ASSUME miner.stops = 0, miner.mining, miner.pc = "idle", heads' = 0
       PROVE  NextInHand(works', agent', Len(canon') + 1)
    OBVIOUS
  <2>1. NextInHand(works, agent, Len(canon) + 1) /\ canon' = canon
    BY DEF InHand
  <2>2. agent.workCh \in 0 .. Len(works) /\ agent.cur \in 0 .. Len(works) /\ Len(works) \in Nat
    BY DEF SealingTypeOK, AgentType
  <2>. QED
    BY <2>1, <2>2 DEF NextInHand, None
<1>2. Live(works') \subseteq {agent'.cur} /\ (agent'.loops = 0 => Live(works') = {})
  BY DEF InHand
<1>. QED
  BY <1>1, <1>2 DEF InHand

\* worker.start and the backend's Start.
LEMMA StartKeeps ==
  ASSUME SealingTypeOK, InHand, Start
  PROVE  SealingTypeOK' /\ InHand'
<1>1. /\ works \in Seq(WorkRec) /\ Len(works) \in Nat /\ canon \in Seq(Int) /\ Len(canon) \in Nat
      /\ miner \in MinerType /\ agent \in AgentType(Len(works)) /\ engine \in EngineType
  BY DEF SealingTypeOK, MinerType, AgentType, EngineType
<1>2. /\ works' \in Seq(WorkRec) /\ Len(works') = Len(works) /\ Live(works') \subseteq Live(works)
      /\ engine.pc # "off" => works' = works
  <2>1. CASE engine.pc # "off"
    BY <1>1, <2>1 DEF Start
  <2>2. CASE engine.pc = "off"
    <3>1. works' = [w \in 1 .. Len(works) |-> IF works[w].pc = "wait" /\ backend.commitCh = None
                                              THEN [works[w] EXCEPT !.pc = "nil"] ELSE works[w]]
      BY <2>2 DEF Start, Work
    <3>2. works \in [1 .. Len(works) -> WorkRec]
      BY <1>1
    <3>3. works' \in [1 .. Len(works) -> WorkRec]
      BY <3>1, <3>2 DEF WorkRec, Pcs
    <3>4. works' \in Seq(WorkRec) /\ Len(works') = Len(works)
      BY <1>1, <3>3, MapWorks
    <3>5. \A w \in 1 .. Len(works) : \/ works'[w].pc = works[w].pc /\ works'[w].stop = works[w].stop
                                     \/ works'[w].pc = "nil"
      BY <3>1, <3>2 DEF WorkRec
    <3>. QED
      BY <2>2, <3>4, <3>5 DEF Live
  <2>. QED
    BY <2>1, <2>2
<1>3. /\ agent' \in AgentType(Len(works')) /\ agent'.cur = agent.cur /\ agent'.stop = agent.stop
      /\ agent'.loops = 0 => agent.loops = 0
  <2>1. agent' = agent \/ agent' = [agent EXCEPT !.isMining = TRUE, !.loops = @ + 1]
    BY DEF Start
  <2>2. agent.loops \in Nat /\ agent.loops + 1 \in Nat /\ agent.loops + 1 # 0
    BY <1>1 DEF AgentType
  <2>3. agent' \in AgentType(Len(works))
    BY <1>1, <2>1, <2>2, Zenon DEF AgentType
  <2>4. agent'.cur = agent.cur /\ agent'.stop = agent.stop /\ agent'.loops \in {agent.loops, agent.loops + 1}
    BY <1>1, <2>1, Zenon DEF AgentType
  <2>. QED
    BY <1>2, <2>2, <2>3, <2>4
<1>4. /\ miner' \in MinerType /\ miner'.mining /\ miner'.pc = "start" /\ miner'.stops = miner.stops
  <2>1. miner' = [miner EXCEPT !.mining = TRUE, !.pc = "start", !.starts = @ + 1]
    BY DEF Start
  <2>2. miner.starts + 1 \in Nat
    BY <1>1 DEF MinerType
  <2>. QED
    BY <1>1, <2>1, <2>2, Zenon DEF MinerType
<1>5. engine' \in EngineType /\ engine'.pc # "off"
  <2>1. \/ engine' = engine /\ engine.pc # "off"
        \/ engine' = [engine EXCEPT !.pc = "idle", !.seq = Len(canon) + 1, !.decided = {}]
    BY DEF Start
  <2>2. Len(canon) + 1 \in Nat
    BY <1>1
  <2>. QED
    BY <1>1, <2>1, <2>2, Zenon DEF EngineType
<1>6. SealingTypeOK'
  BY <1>2, <1>3, <1>4, <1>5 DEF SealingTypeOK, Start, MinerType, AgentType, EngineType
<1>7. Live(works') \subseteq {agent'.cur} /\ (agent'.loops = 0 => Live(works') = {})
  BY <1>2, <1>3 DEF InHand
<1>8. miner.stops = 0 => ~ agent'.stop /\ \A w \in 1 .. Len(works') : works'[w].pc # "nil"
  BY <1>1, <1>2, <1>3 DEF InHand
<1>. QED
  BY <1>4, <1>5, <1>6, <1>7, <1>8 DEF InHand

\* The end of Miner.Start, and a head event that worker.update takes.
LEMMA CommitKeeps ==
  ASSUME SealingTypeOK, InHand, StartCommits \/ UpdateHead
  PROVE  SealingTypeOK' /\ InHand'
<1>1. miner \in MinerType /\ Len(works) \in Nat /\ heads \in Nat
  BY DEF SealingTypeOK, MinerType
<1>2. commitNewWork /\ canon' = canon /\ engine' = engine /\ queued' = queued
  BY DEF StartCommits, UpdateHead
<1>3. /\ works' \in Seq(WorkRec) /\ Len(works') >= Len(works) /\ Live(works') = Live(works)
      /\ agent' \in AgentType(Len(works'))
      /\ agent'.cur = agent.cur /\ agent'.loops = agent.loops /\ agent'.stop = agent.stop
      /\ \A w \in 1 .. Len(works') : works'[w].pc = "nil" => w \in 1 .. Len(works) /\ works[w].pc = "nil"
      /\ miner.mining => NextInHand(works', agent', Len(canon) + 1)
      /\ ~ miner.mining => Len(works') = Len(works)
  BY <1>2, NewWorkCommitted DEF AgentType
<1>4. /\ miner' \in MinerType /\ miner'.mining = miner.mining /\ miner'.stops = miner.stops
      /\ miner'.pc \in {"idle", miner.pc} /\ heads' \in Nat
  BY <1>1 DEF StartCommits, UpdateHead, MinerType
<1>5. SealingTypeOK'
  BY <1>2, <1>3, <1>4 DEF SealingTypeOK, MinerType, AgentType
<1>. QED
  BY <1>1, <1>2, <1>3, <1>4, <1>5 DEF InHand

\* worker.stop, up to the wait for the core and after it.
LEMMA StopKeeps ==
  ASSUME SealingTypeOK, InHand, Stop \/ StopDone
  PROVE  SealingTypeOK' /\ InHand'
<1>1. /\ works \in Seq(WorkRec) /\ Len(works) \in Nat /\ engine \in EngineType
      /\ miner \in MinerType /\ agent \in AgentType(Len(works))
  BY DEF SealingTypeOK, MinerType, AgentType, EngineType
<1>2. /\ works' \in Seq(WorkRec) /\ Len(works') = Len(works) /\ Live(works') \subseteq Live(works)
  <2>1. CASE works' = works
    BY <1>1, <2>1
  <2>2. CASE works' = [w \in 1 .. Len(works) |-> IF w = agent.workCh THEN [works[w] EXCEPT !.pc = "gone"] ELSE works[w]]
    <3>1. works \in [1 .. Len(works) -> WorkRec]
      BY <1>1
    <3>2. works' \in [1 .. Len(works) -> WorkRec]
      BY <2>2, <3>1 DEF WorkRec, Pcs
    <3>3. works' \in Seq(WorkRec) /\ Len(works') = Len(works)
      BY <1>1, <3>2, MapWorks
    <3>4. \A w \in 1 .. Len(works) : \/ works'[w].pc = works[w].pc /\ works'[w].stop = works[w].stop
                                     \/ works'[w].pc = "gone"
      BY <2>2, <3>1 DEF WorkRec
    <3>. QED
      BY <3>3, <3>4 DEF Live
  <2>. QED
    BY <2>1, <2>2 DEF Stop, StopDone, Work
<1>3. /\ agent' \in AgentType(Len(works')) /\ agent'.cur = agent.cur /\ agent'.loops = agent.loops
  <2>1. agent' = agent \/ agent' = [agent EXCEPT !.isMining = FALSE, !.stop = TRUE, !.workCh = None]
    BY DEF Stop, StopDone
  <2>2. None \in 0 .. Len(works)
    BY <1>1 DEF None
  <2>3. agent' \in AgentType(Len(works)) /\ agent'.cur = agent.cur /\ agent'.loops = agent.loops
    BY <1>1, <2>1, <2>2, Zenon DEF AgentType
  <2>. QED
    BY <1>2, <2>3
<1>4. miner' \in MinerType /\ miner'.stops > 0 /\ miner'.pc # "start"
  <2>1. \/ miner' = [miner EXCEPT !.pc = "stop", !.stops = @ + 1]
        \/ miner.pc = "stop" /\ miner' = [miner EXCEPT !.pc = "idle", !.mining = FALSE]
    BY DEF Stop, StopDone
  <2>2. miner.pc = "stop" => miner.stops # 0
    BY DEF InHand
  <2>3. miner.stops \in Nat /\ miner.stops + 1 \in Nat /\ miner.stops + 1 # 0
    BY <1>1 DEF MinerType
  <2>4. miner' \in MinerType /\ miner'.stops # 0 /\ miner'.pc # "start"
    BY <1>1, <2>1, <2>2, <2>3, Zenon DEF MinerType
  <2>. QED
    BY <2>4 DEF MinerType
<1>5. engine' \in EngineType
  <2>1. engine' = engine \/ engine' = [engine EXCEPT !.pc = "off", !.requested = {w \in @ : works[w].num > engine.seq}]
    BY DEF Stop, StopDone
  <2>. QED
    BY <1>1, <2>1, Zenon DEF EngineType
<1>6. SealingTypeOK'
  <2>1. UNCHANGED <<canon, heads, queued>>
    BY Zenon DEF Stop, StopDone
  <2>. QED
    BY <1>2, <1>3, <1>4, <1>5, <2>1, Zenon DEF SealingTypeOK
<1>7. Live(works') \subseteq {agent'.cur} /\ (agent'.loops = 0 => Live(works') = {})
  BY <1>2, <1>3 DEF InHand
<1>. QED
  BY <1>4, <1>6, <1>7, <1>1 DEF InHand, MinerType

\* CpuAgent.update, which leaves the old work for the new one.
LEMMA AgentWorkKeeps ==
  ASSUME SealingTypeOK, InHand, AgentWork
  PROVE  SealingTypeOK' /\ InHand'
<1>. DEFINE quit == CloseQuit(works)
<1>1. /\ works \in Seq(WorkRec) /\ Len(works) \in Nat /\ agent \in AgentType(Len(works))
      /\ agent.workCh \in 1 .. Len(works)
  BY DEF SealingTypeOK, AgentType, AgentWork, None
<1>2. /\ quit \in Seq(WorkRec) /\ Len(quit) = Len(works)
      /\ \A v \in 1 .. Len(works) : /\ quit[v].num = works[v].num /\ quit[v].pc = works[v].pc
                                    /\ (v = agent.cur => quit[v].stop = TRUE) /\ (v # agent.cur => quit[v].stop = works[v].stop)
  BY <1>1, QuitClosed, Zenon
<1>3. works' = Moved(quit, agent.workCh, "delay") /\ agent' = [agent EXCEPT !.cur = agent.workCh, !.workCh = None]
  BY DEF AgentWork, Moved
<1>. HIDE DEF quit
<1>4. /\ works' \in Seq(WorkRec) /\ Len(works') = Len(works)
      /\ \A v \in 1 .. Len(works) : /\ works'[v].num = quit[v].num /\ works'[v].stop = quit[v].stop
                                    /\ (v = agent.workCh => works'[v].pc = "delay") /\ (v # agent.workCh => works'[v].pc = quit[v].pc)
  <2>1. "delay" \in Pcs /\ agent.workCh \in 1 .. Len(quit)
    BY <1>1, <1>2 DEF Pcs
  <2>2. /\ works' \in Seq(WorkRec) /\ Len(works') = Len(quit)
        /\ \A v \in 1 .. Len(quit) :
             /\ works'[v].num = quit[v].num /\ works'[v].stop = quit[v].stop
             /\ (v = agent.workCh => works'[v].pc = "delay") /\ (v # agent.workCh => works'[v].pc = quit[v].pc)
    BY <1>2, <1>3, <2>1, WorkGoesOn, SMT
  <2>. QED
    BY <1>2, <2>2
<1>5. /\ agent' \in AgentType(Len(works')) /\ agent'.cur = agent.workCh /\ agent'.workCh = None
      /\ agent'.loops = agent.loops /\ agent'.stop = agent.stop
  <2>1. None \in 0 .. Len(works') /\ agent.workCh \in 0 .. Len(works') /\ Len(works') = Len(works)
    BY <1>1, <1>4 DEF None
  <2>. QED
    BY <1>1, <1>3, <2>1, Zenon DEF AgentType
<1>6. SealingTypeOK'
  BY <1>4, <1>5 DEF SealingTypeOK, AgentWork, AgentType
<1>7. Live(works') \subseteq {agent'.cur}
  <2>. SUFFICES ASSUME NEW v \in Live(works'), v # agent.workCh PROVE FALSE
    BY <1>5
  <2>1. v \in 1 .. Len(works) /\ works'[v].pc \in {"delay", "wait"} /\ ~ works'[v].stop
    BY <1>4 DEF Live
  <2>2. v # agent.cur /\ v \in Live(works)
    BY <1>2, <1>4, <2>1 DEF Live
  <2>. QED
    BY <2>2 DEF InHand
<1>8. agent'.loops # 0
  BY <1>1, <1>5 DEF AgentWork, AgentType
<1>9. miner.stops = 0 =>
        /\ ~ agent'.stop /\ \A w \in 1 .. Len(works') : works'[w].pc # "nil"
        /\ NextInHand(works, agent, Len(canon) + 1) => NextInHand(works', agent', Len(canon) + 1)
  <2>1. \A v \in 1 .. Len(works) : /\ works'[v].num = works[v].num
                                   /\ works'[v].pc = "nil" => works[v].pc = "nil"
    BY <1>2, <1>4
  <2>2. agent.workCh # None
    BY <1>1 DEF None
  <2>3. NextInHand(works, agent, Len(canon) + 1) => NextInHand(works', agent', Len(canon) + 1)
    BY <1>1, <1>5, <2>1, <2>2 DEF NextInHand
  <2>. QED
    BY <1>4, <1>5, <2>1, <2>3 DEF InHand
<1>. QED
  BY <1>4, <1>6, <1>7, <1>8, <1>9, Zenon DEF InHand, AgentWork

\* CpuAgent.update, which takes the stop signal.
LEMMA AgentStopKeeps ==
  ASSUME SealingTypeOK, InHand, AgentStop
  PROVE  SealingTypeOK' /\ InHand'
<1>1. /\ works \in Seq(WorkRec) /\ Len(works) \in Nat /\ agent \in AgentType(Len(works)) /\ miner.stops # 0
  BY DEF SealingTypeOK, AgentType, AgentStop, InHand
<1>2. /\ works' \in Seq(WorkRec) /\ Len(works') = Len(works)
      /\ \A v \in 1 .. Len(works) : /\ works'[v].num = works[v].num /\ works'[v].pc = works[v].pc
                                    /\ (v = agent.cur => works'[v].stop = TRUE) /\ (v # agent.cur => works'[v].stop = works[v].stop)
  <2>1. works' = CloseQuit(works)
    BY DEF AgentStop
  <2>. QED
    BY <1>1, <2>1, QuitClosed, Zenon
<1>3. agent' \in AgentType(Len(works'))
  <2>1. agent' = [agent EXCEPT !.cur = None, !.stop = FALSE, !.loops = @ - 1]
    BY DEF AgentStop
  <2>2. None \in 0 .. Len(works) /\ agent.loops - 1 \in Nat /\ Len(works') = Len(works)
    BY <1>1, <1>2 DEF None, AgentStop, AgentType
  <2>. QED
    BY <1>1, <2>1, <2>2, Zenon DEF AgentType
<1>4. SealingTypeOK'
  BY <1>2, <1>3 DEF SealingTypeOK, AgentStop, AgentType
<1>5. Live(works') = {}
  <2>. SUFFICES ASSUME NEW v \in Live(works') PROVE FALSE
    OBVIOUS
  <2>1. v # agent.cur /\ v \in Live(works)
    BY <1>2 DEF Live
  <2>. QED
    BY <2>1 DEF InHand
<1>. QED
  BY <1>1, <1>4, <1>5 DEF InHand, AgentStop

\* worker.wait, which writes a sealed block and commits new work unless the block
\* became the head.
LEMMA WaitResultKeeps ==
  ASSUME SealingTypeOK, InHand, NEW w \in Work, WaitResult(w)
  PROVE  SealingTypeOK' /\ InHand'
<1>. DEFINE over == Moved(works, w, "gone")
<1>1. /\ works \in Seq(WorkRec) /\ Len(works) \in Nat /\ Len(canon) \in Nat /\ canon \in Seq(Int) /\ heads \in Nat
      /\ miner \in MinerType /\ agent \in AgentType(Len(works)) /\ w \in 1 .. Len(works) /\ w \in Int
  BY DEF SealingTypeOK, MinerType, AgentType, Work
<1>2. PICK becomesHead \in BOOLEAN :
        /\ works[w].num = Len(canon) + 1 => becomesHead
        /\ canon' = IF works[w].num = Len(canon) + 1 THEN Append(canon, w) ELSE canon
        /\ heads' = IF becomesHead THEN heads + 1 ELSE heads
        /\ miner' = [miner EXCEPT !.must = @ /\ ~ becomesHead]
        /\ \/ /\ miner'.must
              /\ works' = Append(over, Fresh(Len(canon) + 1))
              /\ agent' = [agent EXCEPT !.workCh = Len(works) + 1]
           \/ works' = over /\ agent' = agent
  BY Zenon DEF WaitResult, Fresh, Moved
<1>10. over = Moved(works, w, "gone")
  OBVIOUS
<1>. HIDE DEF over
<1>3. /\ over \in Seq(WorkRec) /\ Len(over) = Len(works)
      /\ \A v \in 1 .. Len(works) : /\ over[v].num = works[v].num /\ over[v].stop = works[v].stop
                                    /\ (v = w => over[v].pc = "gone") /\ (v # w => over[v].pc = works[v].pc)
  <2>1. "gone" \in Pcs
    BY DEF Pcs
  <2>. QED
    BY <1>1, <1>10, <2>1, WorkGoesOn, SMT
<1>4. Live(over) \subseteq Live(works) /\ \A v \in 1 .. Len(works) : over[v].pc = "nil" => works[v].pc = "nil"
  BY <1>3 DEF Live
<1>5. /\ miner' \in MinerType /\ miner'.mining = miner.mining /\ miner'.pc = miner.pc /\ miner'.stops = miner.stops
      /\ miner'.must => ~ becomesHead
  BY <1>1, <1>2, Zenon DEF MinerType
<1>6. canon' \in Seq(Int) /\ heads' \in Nat /\ (heads' = 0 => heads = 0 /\ ~ becomesHead) /\ (~ becomesHead => canon' = canon)
  BY <1>1, <1>2
<1>7. engine' = engine /\ queued' = queued
  BY DEF WaitResult
<1>8. CASE works' = over /\ agent' = agent
  <2>1. SealingTypeOK'
    BY <1>3, <1>5, <1>6, <1>7, <1>8 DEF SealingTypeOK, MinerType
  <2>2. InHand'
    BY <1>3, <1>4, <1>5, <1>6, <1>7, <1>8, OthersKeepInHand
  <2>. QED
    BY <2>1, <2>2
<1>9. CASE miner'.must /\ works' = Append(over, Fresh(Len(canon) + 1)) /\ agent' = [agent EXCEPT !.workCh = Len(works) + 1]
  <2>1. /\ works' \in Seq(WorkRec) /\ Len(works') = Len(works) + 1 /\ Live(works') = Live(over)
        /\ \A v \in 1 .. Len(works) : works'[v] = over[v]
        /\ works'[Len(works) + 1] = Fresh(Len(canon) + 1)
    <3>1. Len(canon) + 1 \in Nat
      BY <1>1
    <3>2. /\ works' \in Seq(WorkRec) /\ Len(works') = Len(over) + 1 /\ Live(works') = Live(over)
          /\ \A v \in 1 .. Len(over) : works'[v] = over[v]
          /\ works'[Len(over) + 1] = Fresh(Len(canon) + 1)
      BY <1>3, <1>9, <3>1, NewWork, Zenon
    <3>. QED
      BY <1>3, <3>2
  <2>2. /\ agent' \in AgentType(Len(works')) /\ agent'.cur = agent.cur /\ agent'.loops = agent.loops
        /\ agent'.stop = agent.stop /\ agent'.workCh = Len(works) + 1
    <3>1. Len(works) + 1 \in 0 .. Len(works') /\ 0 .. Len(works) \subseteq 0 .. Len(works')
      BY <1>1, <2>1
    <3>. QED
      BY <1>1, <1>9, <3>1, Zenon DEF AgentType
  <2>3. SealingTypeOK'
    BY <1>5, <1>6, <1>7, <2>1, <2>2 DEF SealingTypeOK, MinerType, AgentType
  <2>4. NextInHand(works', agent', Len(canon') + 1)
    BY <1>1, <1>5, <1>6, <1>9, <2>1, <2>2 DEF NextInHand, None, Fresh
  <2>5. \A v \in 1 .. Len(works') : works'[v].pc = "nil" => v \in 1 .. Len(works) /\ works[v].pc = "nil"
    <3>1. \A v \in 1 .. Len(works') : v \in 1 .. Len(works) \/ v = Len(works) + 1
      BY <1>1, <2>1
    <3>. QED
      BY <1>4, <2>1, <3>1 DEF Fresh
  <2>6. Len(works) # 0
    BY <1>1
  <2>7. Live(works') \subseteq {agent'.cur} /\ (agent'.loops = 0 => Live(works') = {})
    BY <1>4, <2>1, <2>2 DEF InHand
  <2>. QED
    BY <1>5, <1>7, <2>2, <2>3, <2>4, <2>5, <2>6, <2>7 DEF InHand
<1>. QED
  BY <1>2, <1>8, <1>9

\* Seal: a work that is proposed, told to stop or committed.
LEMMA SealKeeps ==
  ASSUME SealingTypeOK, InHand, NEW w \in Work, SealPropose(w) \/ SealStopped(w) \/ SealReceive(w)
  PROVE  SealingTypeOK' /\ InHand'
<1>1. /\ works \in Seq(WorkRec) /\ Len(works) \in Nat /\ heads \in Nat /\ engine \in EngineType
      /\ w \in 1 .. Len(works) /\ w \in Int
  BY DEF SealingTypeOK, Work, EngineType
<1>2. canon' = canon /\ heads' = heads /\ miner' = miner /\ agent' = agent /\ queued' = queued
  BY DEF SealPropose, SealStopped, SealReceive
<1>3. engine' \in EngineType /\ engine'.pc = engine.pc
  <2>1. engine' = engine \/ engine' = [engine EXCEPT !.requested = @ \cup {w}]
    BY DEF SealPropose, SealStopped, SealReceive
  <2>. QED
    BY <1>1, <2>1 DEF EngineType
<1>4. /\ works' \in Seq(WorkRec) /\ Len(works') = Len(works) /\ Live(works') \subseteq Live(works)
      /\ \A v \in 1 .. Len(works) : /\ works'[v].num = works[v].num
                                    /\ works'[v].pc = "nil" => works[v].pc = "nil"
  <2>1. CASE works' = works
    BY <1>1, <2>1
  <2>2. CASE works' # works
    <3>. PICK p \in {"wait", "gone", "result"} : works' = Moved(works, w, p) /\ (p = "wait" => works[w].pc = "delay")
      BY <2>2 DEF SealPropose, SealStopped, SealReceive, Moved
    <3>1. p \in Pcs /\ p # "nil"
      BY DEF Pcs
    <3>2. /\ works' \in Seq(WorkRec) /\ Len(works') = Len(works)
          /\ \A v \in 1 .. Len(works) :
               /\ works'[v].num = works[v].num /\ works'[v].stop = works[v].stop
               /\ (v = w => works'[v].pc = p) /\ (v # w => works'[v].pc = works[v].pc)
      BY <1>1, <3>1, WorkGoesOn, SMT
    <3>. QED
      BY <3>1, <3>2 DEF Live
  <2>. QED
    BY <2>1, <2>2
<1>5. SealingTypeOK'
  <2>1. 0 .. Len(works') = 0 .. Len(works)
    BY <1>4
  <2>. QED
    BY <1>2, <1>3, <1>4, <2>1 DEF SealingTypeOK, EngineType
<1>6. InHand'
  <2>1. /\ miner'.mining = miner.mining /\ miner'.pc = miner.pc /\ miner'.stops = miner.stops
        /\ (engine'.pc = "off" => engine.pc = "off") /\ heads' \in Nat /\ (heads' = 0 => heads = 0 /\ canon' = canon)
    BY <1>1, <1>2, <1>3
  <2>. QED
    BY <1>2, <1>4, <2>1, OthersKeepInHand
<1>. QED
  BY <1>5, <1>6

\* The core: a decision, a block handed to Seal, and a new sequence.
LEMMA EngineKeeps ==
  ASSUME SealingTypeOK, InHand,
         (\E b \in engine.requested \cup {Other} : Commit(b)) \/ CommitSend \/ FinalCommitted
  PROVE  SealingTypeOK' /\ InHand'
<1>1. /\ works \in Seq(WorkRec) /\ Len(works) \in Nat /\ heads \in Nat /\ engine \in EngineType
      /\ Len(canon) \in Nat /\ queued \subseteq Nat \X Int
  BY DEF SealingTypeOK, EngineType
<1>2. canon' = canon /\ heads' = heads /\ works' = works /\ miner' = miner /\ agent' = agent
  BY Zenon DEF Commit, CommitSend, FinalCommitted
<1>3. Rest \in {"over", "idle"} /\ None \in Int /\ Len(canon) + 1 \in Nat
  BY <1>1 DEF Rest, None
<1>4. engine' \in EngineType /\ engine'.pc # "off" /\ queued' \subseteq Nat \X Int
  <2>1. CASE \E b \in engine.requested \cup {Other} : Commit(b)
    <3>. PICK b \in engine.requested \cup {Other} : Commit(b)
      BY <2>1
    <3>1. b \in Int /\ engine.seq \in Nat
      BY <1>1 DEF EngineType, Other
    <3>2. \/ engine' = [engine EXCEPT !.decided = {b}, !.pc = "send", !.sending = b] /\ queued' = queued
          \/ engine' = [engine EXCEPT !.decided = {b}, !.pc = Rest] /\ queued' = queued \cup {<<engine.seq, b>>}
      BY Zenon DEF Commit
    <3>3. engine' \in EngineType /\ engine'.pc # "off"
      <4>1. CASE engine' = [engine EXCEPT !.decided = {b}, !.pc = "send", !.sending = b]
        BY <1>1, <3>1, <4>1, Zenon DEF EngineType
      <4>2. CASE engine' = [engine EXCEPT !.decided = {b}, !.pc = Rest]
        BY <1>1, <1>3, <3>1, <4>2, Zenon DEF EngineType
      <4>. QED
        BY <3>2, <4>1, <4>2
    <3>. QED
      BY <1>1, <3>1, <3>2, <3>3
  <2>2. CASE CommitSend
    BY <1>1, <1>3, <2>2, Zenon DEF CommitSend, EngineType
  <2>3. CASE FinalCommitted
    <3>1. /\ engine' = [engine EXCEPT !.seq = Len(canon) + 1, !.decided = {},
                                      !.requested = {w \in @ : works[w].num > Len(canon)}]
          /\ engine.pc = "idle" /\ queued' = queued
      BY <2>3 DEF FinalCommitted
    <3>. QED
      BY <1>1, <1>3, <3>1, Zenon DEF EngineType
  <2>. QED
    BY <2>1, <2>2, <2>3
<1>5. SealingTypeOK'
  BY <1>2, <1>4 DEF SealingTypeOK, EngineType
<1>6. InHand'
  BY <1>1, <1>2, <1>4, OthersKeepInHand
<1>. QED
  BY <1>5, <1>6

\* A block that the chain takes from the fetcher or from another validator.
LEMMA ChainKeeps ==
  ASSUME SealingTypeOK, InHand, (\E q \in queued : Import(q)) \/ PeerImport
  PROVE  SealingTypeOK' /\ InHand'
<1>1. /\ works \in Seq(WorkRec) /\ Len(works) \in Nat /\ canon \in Seq(Int) /\ heads \in Nat
      /\ queued \subseteq Nat \X Int /\ engine.decided \subseteq Int
  BY DEF SealingTypeOK, EngineType
<1>2. works' = works /\ miner' = miner /\ agent' = agent /\ engine' = engine /\ queued' \subseteq queued
  BY DEF Import, PeerImport
<1>3. (canon' = canon /\ heads' = heads) \/ \E b \in Int : Extended(b)
  BY <1>1 DEF Import, PeerImport, Other
<1>4. canon' \in Seq(Int) /\ heads' \in Nat /\ (heads' = 0 => heads = 0 /\ canon' = canon)
  <2>1. CASE canon' = canon /\ heads' = heads
    BY <1>1, <2>1
  <2>2. ASSUME NEW b \in Int, Extended(b)
        PROVE  canon' \in Seq(Int) /\ heads' \in Nat /\ heads' # 0
    BY <1>1, <2>2 DEF Extended
  <2>. QED
    BY <1>3, <2>1, <2>2
<1>5. SealingTypeOK'
  BY <1>1, <1>2, <1>4 DEF SealingTypeOK
<1>6. InHand'
  BY <1>1, <1>2, <1>4, OthersKeepInHand
<1>. QED
  BY <1>5, <1>6

\* Any order of starts, stops, new heads, Seals and commits leaves at most one
\* Seal that is not told to stop, that of the agent's current work, and keeps the
\* miner at work on the next block (worker.push, CpuAgent.update, Seal).
THEOREM SealsInHand == SealingSpec => []SealInHand
<1>1. SealingInit => SealingTypeOK /\ InHand
  <2>. SUFFICES ASSUME SealingInit PROVE SealingTypeOK /\ InHand
    OBVIOUS
  <2>1. works = <<>> /\ Len(works) = 0 /\ works \in Seq(WorkRec) /\ canon \in Seq(Int) /\ queued = {} /\ heads = 0
    BY DEF SealingInit
  <2>2. Live(works) = {}
    BY <2>1 DEF Live
  <2>3. SealingTypeOK
    BY <2>1 DEF SealingTypeOK, SealingInit, None, MinerType, AgentType, EngineType
  <2>. QED
    BY <2>1, <2>2, <2>3 DEF SealingInit, InHand
<1>2. SealingTypeOK /\ InHand /\ [SealingNext]_sealingVars => (SealingTypeOK /\ InHand)'
  <2>. SUFFICES ASSUME SealingTypeOK, InHand, [SealingNext]_sealingVars PROVE (SealingTypeOK /\ InHand)'
    OBVIOUS
  <2>1. CASE UNCHANGED sealingVars
    BY <2>1 DEF sealingVars, SealingTypeOK, InHand, Live, NextInHand
  <2>2. CASE Start
    BY <2>2, StartKeeps
  <2>3. CASE Stop \/ StopDone
    BY <2>3, StopKeeps
  <2>4. CASE StartCommits \/ UpdateHead
    BY <2>4, CommitKeeps
  <2>5. CASE AgentWork \/ AgentStop
    BY <2>5, AgentWorkKeeps, AgentStopKeeps
  <2>6. ASSUME NEW w \in Work, SealPropose(w) \/ SealStopped(w) \/ SealReceive(w) \/ WaitResult(w)
        PROVE  (SealingTypeOK /\ InHand)'
    BY <2>6, SealKeeps, WaitResultKeeps
  <2>7. CASE (\E b \in engine.requested \cup {Other} : Commit(b)) \/ CommitSend \/ FinalCommitted
    BY <2>7, EngineKeeps
  <2>8. CASE (\E q \in queued : Import(q)) \/ PeerImport
    BY <2>8, ChainKeeps
  <2>. QED
    BY <2>1, <2>2, <2>3, <2>4, <2>5, <2>6, <2>7, <2>8 DEF SealingNext, Step
<1>3. SealingTypeOK /\ InHand => SealInHand
  <2>. SUFFICES ASSUME SealingTypeOK, InHand PROVE SealInHand
    OBVIOUS
  <2>1. LiveSeals = Live(works)
    BY DEF LiveSeals, Live, InPc, Work
  <2>2. Crashed => miner.stops > 0
    BY DEF Crashed, InPc, Work, InHand, SealingTypeOK, MinerType
  <2>. QED
    BY <2>1, <2>2 DEF SealInHand, InHand, NextInHand
<1>. QED
  BY <1>1, <1>2, <1>3, PTL DEF SealingSpec
-----------------------------------------------------------------------------
(***************************************************************************)
(* The backlog of the BFT core: its priorities order what float32 tells    *)
(* apart, and so nothing that is ready stays behind a future message.      *)
(***************************************************************************)
\* The backlog keeps its types.
BacklogTypeOK ==
  /\ view \in Views /\ accepting \in BOOLEAN /\ awaiting \in BOOLEAN
  /\ backlog \subseteq BacklogMsgs /\ events \subseteq BacklogMsgs

\* Priorities are below 2^24: no sequence is above 16776.
PrioritiesExact == \A seq \in Sequences : 1000 * (seq + 1) <= Mantissa

\* Below 2^24 a float32 is exact.
LEMMA Float32Exact ==
  ASSUME NEW x \in Nat, x < Mantissa
  PROVE  Float32(x) = x
<1>. DEFINE U == {1, 2, 4, 8, 16, 32, 64}
            unit == CHOOSE u \in U : x < Mantissa * u /\ (u = 1 \/ 2 * x >= Mantissa * u)
<1>1. unit = 1
  <2>1. \A u \in U : x < Mantissa * u /\ (u = 1 \/ 2 * x >= Mantissa * u) <=> u = 1
    BY SMT DEF Mantissa
  <2>2. 1 \in U
    OBVIOUS
  <2>. HIDE DEF U
  <2>. QED
    BY <2>1, <2>2, Zenon
<1>2. x % 1 = 0 /\ x - 0 = x
  OBVIOUS
<1>3. Float32(x) = IF 2 * (x % unit) > unit \/ (2 * (x % unit) = unit /\ ((x - (x % unit)) \div unit) % 2 = 1)
                   THEN x - (x % unit) + unit ELSE x - (x % unit)
  BY Zenon DEF Float32
<1>. HIDE DEF unit
<1>. QED
  BY <1>1, <1>2, <1>3

\* The number that toPriority makes of a view and a kind of message.
Weight(s, r, p) == s * 1000 + r * 10 + p

\* So are the priorities.
LEMMA SmallPriorities ==
  ASSUME PrioritiesExact, NEW s \in Sequences, NEW r \in BacklogRounds, NEW p \in {0, 1, 2, 3}
  PROVE  /\ s \in Nat /\ r \in Nat /\ r <= 99
         /\ Float32(Weight(s, r, p)) = Weight(s, r, p)
<1>1. s \in Nat /\ r \in Nat /\ r <= 99 /\ 1000 * (s + 1) <= Mantissa /\ Mantissa \in Nat
  BY BacklogAssumption, SMT DEF PrioritiesExact, Mantissa
<1>2. Weight(s, r, p) \in Nat /\ Weight(s, r, p) < Mantissa
  BY <1>1 DEF Weight
<1>. QED
  BY <1>1, <1>2, Float32Exact

\* What a message is worth when the sequence is small enough.
LEMMA PriorityExact ==
  ASSUME PrioritiesExact, NEW m \in BacklogMsgs
  PROVE  /\ m.view.seq \in Nat /\ m.view.round \in Nat /\ m.view.round <= 99
         /\ m.code = "ROUNDCHANGE" => toPriority(m) = Weight(m.view.seq, 0, 0)
         /\ m.code = "PREPREPARE" => toPriority(m) = Weight(m.view.seq, m.view.round, 1)
         /\ m.code \in {"PREPARE", "COMMIT"} => \E p \in {2, 3} : toPriority(m) = Weight(m.view.seq, m.view.round, p)
<1>1. m.view.seq \in Sequences /\ m.view.round \in BacklogRounds /\ 0 \in BacklogRounds
  BY BacklogAssumption DEF BacklogMsgs, Views
<1>2. m.view.seq \in Nat /\ m.view.round \in Nat /\ m.view.round <= 99
  <2>1. 0 \in {0, 1, 2, 3}
    OBVIOUS
  <2>. QED
    BY <1>1, <2>1, SmallPriorities, Zenon
<1>3. CASE m.code = "ROUNDCHANGE"
  <2>1. Float32(Weight(m.view.seq, 0, 0)) = Weight(m.view.seq, 0, 0)
    <3>1. 0 \in {0, 1, 2, 3}
      OBVIOUS
    <3>. QED
      BY <1>1, <3>1, SmallPriorities, Zenon
  <2>2. Weight(m.view.seq, 0, 0) = m.view.seq * 1000
    BY <1>2 DEF Weight
  <2>. QED
    BY <1>2, <1>3, <2>1, <2>2 DEF toPriority
<1>4. CASE m.code # "ROUNDCHANGE"
  <2>1. /\ msgPriority(m.code) \in {0, 1, 2, 3}
        /\ m.code = "PREPREPARE" => msgPriority(m.code) = 1
        /\ m.code \in {"PREPARE", "COMMIT"} => msgPriority(m.code) \in {2, 3}
    BY <1>4 DEF msgPriority, BacklogMsgs
  <2>2. toPriority(m) = Float32(Weight(m.view.seq, m.view.round, msgPriority(m.code)))
    BY <1>4 DEF toPriority, Weight
  <2>3. toPriority(m) = Weight(m.view.seq, m.view.round, msgPriority(m.code))
    BY <1>1, <2>1, <2>2, SmallPriorities, Zenon
  <2>. QED
    BY <1>2, <1>4, <2>1, <2>3
<1>. QED
  BY <1>3, <1>4

\* A message that can be handled comes before every one that is too early.
LEMMA ReadyBeforeFuture ==
  ASSUME PrioritiesExact, view' \in Views, accepting' \in BOOLEAN, awaiting' = FALSE,
         NEW m \in BacklogMsgs, NEW f \in BacklogMsgs,
         checkMessage(m)' = "ok", checkMessage(f)' = "future"
  PROVE  toPriority(m) < toPriority(f)
<1>1. /\ view'.seq \in Nat /\ view'.round \in Nat /\ view'.round <= 99
      /\ m.view.seq \in Nat /\ m.view.round \in Nat /\ f.view.seq \in Nat /\ f.view.round \in Nat
  <2>1. view'.seq \in Sequences /\ view'.round \in BacklogRounds
    BY DEF Views
  <2>2. view'.seq \in Nat /\ view'.round \in Nat /\ view'.round <= 99
    <3>1. 0 \in {0, 1, 2, 3}
      OBVIOUS
    <3>. QED
      BY <2>1, <3>1, SmallPriorities, Zenon
  <2>. QED
    BY <2>2, PriorityExact
<1>2. /\ m.view.seq = view'.seq /\ (m.code # "ROUNDCHANGE" => m.view.round = view'.round)
      /\ m.code \in {"ROUNDCHANGE", "PREPREPARE"} \/ ~ accepting'
  <2>0. m.view.seq = view'.seq /\ m.view.round = view'.round => m.view = view'
    BY DEF BacklogMsgs, Views
  <2>1. CASE m.code = "ROUNDCHANGE"
    BY <1>1, <2>1 DEF checkMessage, Before
  <2>2. CASE m.code # "ROUNDCHANGE"
    BY <1>1, <2>0, <2>2 DEF checkMessage, Before
  <2>. QED
    BY <2>1, <2>2
<1>3. \/ f.view.seq > view'.seq
      \/ /\ f.view.seq = view'.seq /\ f.code # "ROUNDCHANGE"
         /\ \/ f.view.round > view'.round
            \/ f.view.round = view'.round /\ f.code # "PREPREPARE" /\ accepting'
  <2>1. CASE f.code = "ROUNDCHANGE"
    BY <1>1, <2>1 DEF checkMessage, Before
  <2>2. CASE f.code # "ROUNDCHANGE"
    BY <1>1, <2>2 DEF checkMessage, Before
  <2>. QED
    BY <2>1, <2>2
<1>4. /\ m.code \in {"PREPREPARE", "PREPARE", "COMMIT", "ROUNDCHANGE"}
      /\ f.code \in {"PREPREPARE", "PREPARE", "COMMIT", "ROUNDCHANGE"}
  BY DEF BacklogMsgs
<1>5. /\ toPriority(m) \in Nat /\ toPriority(f) \in Nat
      /\ toPriority(m) <= view'.seq * 1000 + view'.round * 10 + 3
      /\ m.code = "ROUNDCHANGE" => toPriority(m) = view'.seq * 1000
      /\ m.code = "PREPREPARE" => toPriority(m) = view'.seq * 1000 + view'.round * 10 + 1
      /\ toPriority(f) >= f.view.seq * 1000
      /\ f.code # "ROUNDCHANGE" => toPriority(f) >= f.view.seq * 1000 + f.view.round * 10 + 1
      /\ f.code \in {"PREPARE", "COMMIT"} => toPriority(f) >= f.view.seq * 1000 + f.view.round * 10 + 2
      /\ f.view.seq \in Nat /\ f.view.round \in Nat /\ view'.round <= 99
  BY <1>1, <1>2, <1>4, PriorityExact DEF Weight
<1>6. CASE f.view.seq > view'.seq
  BY <1>1, <1>5, <1>6
<1>7. CASE f.view.seq = view'.seq /\ f.code # "ROUNDCHANGE" /\ f.view.round > view'.round
  BY <1>1, <1>4, <1>5, <1>7
<1>8. CASE f.view.seq = view'.seq /\ f.view.round = view'.round /\ f.code \in {"PREPARE", "COMMIT"} /\ accepting'
  BY <1>1, <1>2, <1>5, <1>8
<1>. QED
  BY <1>3, <1>4, <1>6, <1>7, <1>8

\* After processBacklog nothing that can be handled is left.
LEMMA ProcessedBacklog ==
  ASSUME PrioritiesExact, BacklogTypeOK, BacklogTypeOK', awaiting' = FALSE, processBacklog
  PROVE  NoneLeftBehind'
<1>. SUFFICES ASSUME NEW m \in backlog', checkMessage(m)' = "ok" PROVE FALSE
  BY DEF NoneLeftBehind
<1>1. m \in backlog /\ m \in BacklogMsgs /\ backlog \subseteq BacklogMsgs
  BY DEF processBacklog, BacklogTypeOK
<1>2. \A f \in backlog : checkMessage(f)' = "future" => toPriority(m) < toPriority(f)
  BY <1>1, ReadyBeforeFuture, Zenon DEF BacklogTypeOK
<1>3. \A R \in Popped : m \in R
  BY <1>1, <1>2 DEF Popped
<1>. QED
  BY <1>3 DEF processBacklog

\* What processBacklog takes out of the queue it posts or drops.
LEMMA ProcessedType ==
  ASSUME BacklogTypeOK, processBacklog
  PROVE  backlog' \subseteq BacklogMsgs /\ events' \subseteq BacklogMsgs
<1>1. \A R \in Popped : R \subseteq backlog
  BY DEF Popped
<1>. QED
  BY <1>1 DEF processBacklog, BacklogTypeOK

\* What a step does to the queue and the view.
LEMMA BacklogStep ==
  ASSUME PrioritiesExact, BacklogTypeOK, NoneLeftBehind, [BacklogNext]_backlogVars
  PROVE  BacklogTypeOK' /\ NoneLeftBehind'
<1>1. CASE UNCHANGED backlogVars
  BY <1>1 DEF backlogVars, BacklogTypeOK, NoneLeftBehind, checkMessage, Before
<1>2. ASSUME NEW m \in BacklogMsgs, NEW rest \in SUBSET BacklogMsgs, Receive(m, rest)
      PROVE  BacklogTypeOK' /\ NoneLeftBehind'
  <2>1. BacklogTypeOK'
    BY <1>2 DEF Receive, BacklogTypeOK
  <2>2. \A w \in BacklogMsgs : checkMessage(w)' = checkMessage(w)
    BY <1>2 DEF Receive, checkMessage, Before
  <2>. QED
    BY <1>2, <2>1, <2>2 DEF Receive, NoneLeftBehind, BacklogTypeOK
<1>3. ASSUME NEW v \in Views, StartNewRound(v)
      PROVE  BacklogTypeOK' /\ NoneLeftBehind'
  <2>1. BacklogTypeOK' /\ awaiting' = FALSE
    BY <1>3, ProcessedType, Zenon DEF StartNewRound, BacklogTypeOK
  <2>. QED
    BY <1>3, <2>1, ProcessedBacklog, Zenon DEF StartNewRound
<1>4. CASE SetPreprepared
  <2>1. BacklogTypeOK' /\ awaiting' = FALSE
    BY <1>4, ProcessedType, Zenon DEF SetPreprepared, BacklogTypeOK
  <2>. QED
    BY <1>4, <2>1, ProcessedBacklog, Zenon DEF SetPreprepared
<1>5. ASSUME NEW round \in BacklogRounds, CatchUpRound(round)
      PROVE  BacklogTypeOK' /\ NoneLeftBehind'
  <2>1. /\ view \in Views /\ view' = [view EXCEPT !.round = round] /\ awaiting' = TRUE
        /\ UNCHANGED <<accepting, backlog, events>>
    BY <1>5 DEF CatchUpRound, BacklogTypeOK
  <2>2. view' \in Views /\ view'.seq = view.seq /\ view'.round = round
    BY <2>1 DEF Views
  <2>3. BacklogTypeOK'
    BY <2>1, <2>2 DEF BacklogTypeOK
  <2>4. ASSUME NEW m \in backlog PROVE checkMessage(m)' # "ok"
    <3>1. m \in BacklogMsgs /\ m.view \in Views /\ checkMessage(m) # "ok"
      BY DEF BacklogTypeOK, BacklogMsgs, NoneLeftBehind
    <3>2. /\ m.view.seq \in Nat /\ m.view.round \in Nat
          /\ view.seq \in Nat /\ view.round \in Nat /\ round \in Nat /\ round > view.round
      BY <1>5, <2>1, <3>1, BacklogAssumption DEF Views, CatchUpRound
    <3>3. CASE m.code = "ROUNDCHANGE"
      BY <2>2, <3>1, <3>2, <3>3 DEF checkMessage, Before
    <3>4. CASE m.code # "ROUNDCHANGE"
      <4>1. m.view.seq = view'.seq /\ m.view.round = view'.round => m.view = view'
        BY <2>2, <3>1 DEF Views
      <4>. QED
        BY <2>1, <2>2, <3>1, <3>2, <3>4, <4>1 DEF checkMessage, Before
    <3>. QED
      BY <3>3, <3>4
  <2>. QED
    BY <2>1, <2>3, <2>4 DEF NoneLeftBehind
<1>. QED
  BY <1>1, <1>2, <1>3, <1>4, <1>5, Zenon DEF BacklogNext, ReceiveMsg, ReceiveEvent, BacklogTypeOK

\* As long as float32 holds the priorities exactly, up to sequence 16776, no
\* message that can be handled waits in the queue (toPriority, processBacklog).
THEOREM BacklogKeepsNone == PrioritiesExact => (BacklogSpec => []NoneLeftBehind)
<1>. SUFFICES ASSUME PrioritiesExact PROVE BacklogSpec => []NoneLeftBehind
  OBVIOUS
<1>1. BacklogInit => BacklogTypeOK /\ NoneLeftBehind
  <2>. SUFFICES ASSUME BacklogInit PROVE BacklogTypeOK /\ NoneLeftBehind
    OBVIOUS
  <2>1. PICK seq \in Sequences : view = [seq |-> seq, round |-> 0]
    BY DEF BacklogInit
  <2>2. view \in Views
    BY <2>1, BacklogAssumption DEF Views
  <2>. QED
    BY <2>2, Zenon DEF BacklogInit, BacklogTypeOK, NoneLeftBehind
<1>2. BacklogTypeOK /\ NoneLeftBehind /\ [BacklogNext]_backlogVars => (BacklogTypeOK /\ NoneLeftBehind)'
  BY BacklogStep
<1>. QED
  BY <1>1, <1>2, PTL DEF BacklogSpec
-----------------------------------------------------------------------------
(***************************************************************************)
(* The DPoS engine: the rule of recent signers, and the difficulty.        *)
(***************************************************************************)
\* The chain of the DPoS engine keeps its types.
SealTypeOK ==
  /\ head \in 0 .. MaxBlock
  /\ signers \in SignerSets

\* The number of signers and the limit.
LEMMA SignersType ==
  ASSUME SealTypeOK
  PROVE  /\ signers \subseteq Nat /\ IsFiniteSet(signers)
         /\ N \in Nat \ {0} /\ limit \in Nat \ {0} /\ limit - 1 = N \div 2
         /\ head \in Nat /\ number \in Nat \ {0} /\ number <= MaxBlock + 1
<1>1. signers \subseteq Nat /\ IsFiniteSet(signers) /\ signers # {}
  BY SealAssumption DEF SealTypeOK
<1>2. N \in Nat /\ N # 0
  BY <1>1, FS_CardinalityType, FS_EmptySet DEF N
<1>. QED
  BY <1>1, <1>2, SealAssumption DEF limit, number, SealTypeOK

\* Seal and verifySeal treat a signer alike.
LEMMA SealersAgree ==
  ASSUME SealTypeOK, NEW s \in signers
  PROVE  /\ ~ SealRefuses(s) => ~ VerifyRefuses(s)
         /\ number >= limit /\ SealRefuses(s) => VerifyRefuses(s)
<1>1. /\ limit \in Nat \ {0} /\ number \in Nat \ {0} /\ number <= MaxBlock + 1
      /\ Word \in Nat /\ MaxBlock \in Nat /\ MaxBlock < Word
  BY SignersType, SealAssumption
<1>2. CASE number < limit
  BY <1>1, <1>2 DEF SealRefuses, VerifyRefuses
<1>3. CASE number >= limit
  <2>1. number - limit \in Nat /\ number - limit < Word
    BY <1>1, <1>3
  <2>2. \A i \in Nat : i < Word => i % Word = i
    BY <1>1
  <2>3. (number - limit) % Word = number - limit
    BY <2>1, <2>2, Zenon
  <2>. QED
    BY <1>1, <1>3, <2>3 DEF SealRefuses, VerifyRefuses
<1>. QED
  BY <1>1, <1>2, <1>3

\* Fewer signers wait than the limit: each has a block of its own in the window.
LEMMA FewSealersWait ==
  ASSUME SealTypeOK
  PROVE  Cardinality({s \in signers : SealRefuses(s)}) <= limit - 1
<1>. DEFINE W == {s \in signers : SealRefuses(s)}
            first == IF number < limit THEN 1 ELSE number - limit + 1
            window == first .. head
            g == [s \in W |-> CHOOSE k \in window : chain[k] = s]
<1>1. limit \in Nat \ {0} /\ head \in Nat /\ number = head + 1
  BY SignersType DEF number
<1>2. \A s \in W : \E k \in window : chain[k] = s
  BY <1>1 DEF SealRefuses, Recents
<1>3. IsFiniteSet(window) /\ Cardinality(window) <= limit - 1
  <2>1. first \in Int /\ head \in Int
    BY <1>1
  <2>2. IsFiniteSet(window) /\ Cardinality(window) = IF first > head THEN 0 ELSE head - first + 1
    <3>. HIDE DEF first
    <3>. QED
      BY <2>1, FS_Interval
  <2>. QED
    BY <1>1, <2>2
<1>. HIDE DEF window, W
<1>4. \A s \in W : g[s] \in window /\ chain[g[s]] = s
  BY <1>2
<1>5. g \in Injection(W, window)
  <2>1. g \in [W -> window]
    BY <1>4
  <2>2. \A s, t \in W : g[s] = g[t] => s = t
    BY <1>4
  <2>. QED
    BY <2>1, <2>2 DEF Injection, IsInjective
<1>6. Cardinality(W) <= Cardinality(window) /\ IsFiniteSet(W)
  <2>. HIDE DEF g
  <2>. QED
    BY <1>3, <1>5, FS_Injection
<1>7. Cardinality(W) \in Nat /\ Cardinality(window) \in Nat
  BY <1>3, <1>6, FS_CardinalityType
<1>. QED
  BY <1>1, <1>3, <1>6, <1>7 DEF W

\* Types are kept.
LEMMA SealTypeCorrect == Spec => []SealTypeOK
<1>1. Init => SealTypeOK
  BY SealAssumption DEF Init, SealTypeOK
<1>2. SealTypeOK /\ [Next]_vars => SealTypeOK'
  BY SealAssumption DEF SealTypeOK, Next, Seal, vars, number
<1>. QED
  BY <1>1, <1>2, PTL DEF Spec

\* Seal and verifySeal agree on who has to wait, and never keep a majority of
\* the signers that is up from sealing, whatever an election changes.
THEOREM SealersAgreeAlways == Spec => []SealAgreesWithVerify
<1>1. SealTypeOK => SealAgreesWithVerify
  <2>. SUFFICES ASSUME SealTypeOK PROVE SealAgreesWithVerify
    OBVIOUS
  <2>1. ASSUME NEW D \in SUBSET signers, 2 * Cardinality(D) < N
        PROVE  \E s \in signers \ D : ~ SealRefuses(s)
    <3>. DEFINE W == {s \in signers : SealRefuses(s)}
    <3>. SUFFICES ASSUME signers = D \cup W PROVE FALSE
      OBVIOUS
    <3>1. Cardinality(W) <= N \div 2 /\ N \in Nat
      BY FewSealersWait, SignersType
    <3>2. W \in SUBSET signers /\ D \cap W \in SUBSET signers /\ IsFiniteSet(signers)
      BY SignersType
    <3>. HIDE DEF W
    <3>3. IsFiniteSet(D) /\ IsFiniteSet(W) /\ IsFiniteSet(D \cap W)
      BY <3>2, FS_Subset
    <3>4. Cardinality(D) \in Nat /\ Cardinality(W) \in Nat /\ Cardinality(D \cap W) \in Nat
      BY <3>3, FS_CardinalityType
    <3>5. Cardinality(D \cup W) = Cardinality(D) + Cardinality(W) - Cardinality(D \cap W)
      BY <3>3, FS_Union
    <3>. QED
      BY <2>1, <3>1, <3>4, <3>5 DEF N
  <2>. QED
    BY <2>1, SealersAgree DEF SealAgreesWithVerify
<1>. QED
  BY <1>1, SealTypeCorrect, PTL

\* The positions of two signers in the order of addresses differ, and each is
\* smaller than their number (signerIndex).
LEMMA IndexRanks ==
  ASSUME SealTypeOK, NEW s \in signers, NEW t \in signers
  PROVE  /\ SignerIndex(s) \in 0 .. N - 1
         /\ s # t => SignerIndex(s) # SignerIndex(t)
<1>. DEFINE below(u) == {w \in signers : w < u}
<1>1. signers \subseteq Nat /\ IsFiniteSet(signers) /\ N \in Nat
  BY SignersType
<1>2. ASSUME NEW u \in signers
      PROVE  /\ below(u) \in SUBSET signers /\ IsFiniteSet(below(u))
             /\ Cardinality(below(u)) \in Nat /\ Cardinality(below(u)) < N
  <2>1. below(u) \in SUBSET signers /\ below(u) # signers
    BY <1>1
  <2>2. IsFiniteSet(below(u)) /\ Cardinality(below(u)) <= N /\ Cardinality(below(u)) # N
    <3>. HIDE DEF below
    <3>. QED
      BY <1>1, <2>1, FS_Subset DEF N
  <2>3. Cardinality(below(u)) \in Nat
    BY <2>2, FS_CardinalityType
  <2>. QED
    BY <1>1, <2>1, <2>2, <2>3
<1>3. ASSUME NEW u \in signers, NEW v \in signers, u < v
      PROVE  Cardinality(below(u)) # Cardinality(below(v))
  <2>0. ~ (u < u) /\ \A w \in signers : w < u => w < v
    BY <1>1, <1>3
  <2>1. below(u) \in SUBSET below(v) /\ u \in below(v) /\ u \notin below(u)
    BY <1>3, <2>0, Zenon
  <2>2. IsFiniteSet(below(v))
    BY <1>2
  <2>. HIDE DEF below
  <2>. QED
    BY <2>1, <2>2, FS_Subset
<1>4. SignerIndex(s) = Cardinality(below(s)) /\ SignerIndex(t) = Cardinality(below(t))
  BY DEF SignerIndex
<1>5. s # t => s < t \/ t < s
  BY <1>1
<1>. HIDE DEF below
<1>. QED
  BY <1>1, <1>2, <1>3, <1>4, <1>5

\* How division keeps an order.
LEMMA DivideMonotone ==
  ASSUME NEW a \in Nat, NEW b \in Nat, NEW n \in Nat \ {0}
  PROVE  /\ a <= b => a \div n <= b \div n
         /\ a + n <= b => a \div n < b \div n
<1>1. ASSUME NEW c \in Nat
      PROVE  c \div n \in Int /\ n * (c \div n) <= c /\ c < n * (c \div n) + n
  OBVIOUS
<1>2. \A q, r \in Int : q >= r + 1 => n * q >= n * r + n
  <2>. SUFFICES ASSUME NEW q \in Int, NEW r \in Int, q >= r + 1 PROVE n * q >= n * r + n
    OBVIOUS
  <2>1. n * (q - (r + 1)) >= 0
    OBVIOUS
  <2>. QED
    BY <2>1
<1>3. /\ a \div n \in Int /\ n * (a \div n) <= a /\ a < n * (a \div n) + n
      /\ b \div n \in Int /\ n * (b \div n) <= b /\ b < n * (b \div n) + n
  BY <1>1
<1>4. ASSUME ~ (a \div n <= b \div n) PROVE ~ (a <= b)
  BY <1>2, <1>3, <1>4
<1>5. ASSUME ~ (a \div n < b \div n) PROVE ~ (a + n <= b)
  BY <1>2, <1>3, <1>5
<1>. QED
  BY <1>4, <1>5

\* The block of the signer in turn is the heaviest, and no two are equally heavy
\* while there are no more signers than diffMax (CalcDifficulty).
THEOREM DifficultiesRank == Spec => []DifficultyRanks
<1>1. SealTypeOK => DifficultyRanks
  <2>. SUFFICES ASSUME SealTypeOK, NEW s \in signers, NEW t \in signers, s # t
       PROVE  /\ InTurn(s) => CalcDifficulty(s) >= CalcDifficulty(t)
              /\ N <= DiffMax => CalcDifficulty(s) # CalcDifficulty(t)
    BY DEF DifficultyRanks
  <2>. DEFINE noffset == number % N
              index(u) == IF noffset > SignerIndex(u) THEN noffset - SignerIndex(u)
                                                      ELSE N - (SignerIndex(u) - noffset)
              weight(u) == (index(u) * DiffMax) \div N
  <2>1. N \in Nat \ {0} /\ number \in Nat /\ DiffMax \in Nat \ {0} /\ noffset \in 0 .. N - 1
    BY SignersType, SealAssumption
  <2>2. /\ SignerIndex(s) \in 0 .. N - 1 /\ SignerIndex(t) \in 0 .. N - 1
        /\ SignerIndex(s) # SignerIndex(t)
    BY IndexRanks
  <2>3. /\ index(s) \in 1 .. N /\ index(t) \in 1 .. N /\ index(s) # index(t)
        /\ InTurn(s) => index(s) = N
    <3>. HIDE DEF noffset
    <3>1. InTurn(s) => noffset = SignerIndex(s)
      BY DEF InTurn, noffset
    <3>. QED
      BY <2>1, <2>2, <3>1
  <2>4. CalcDifficulty(s) = weight(s) + 1000 /\ CalcDifficulty(t) = weight(t) + 1000
    BY DEF CalcDifficulty
  <2>. HIDE DEF noffset, index
  <2>5. ASSUME NEW i \in 1 .. N, NEW j \in 1 .. N, i < j
        PROVE  /\ i * DiffMax \in Nat /\ j * DiffMax \in Nat
               /\ i * DiffMax <= j * DiffMax
               /\ N <= DiffMax => i * DiffMax + N <= j * DiffMax
    <3>1. PICK d \in Nat : j = i + 1 + d
      BY <2>1, <2>5
    <3>2. j * DiffMax = i * DiffMax + DiffMax + d * DiffMax
      BY <2>1, <3>1
    <3>3. i * DiffMax \in Nat /\ j * DiffMax \in Nat /\ d * DiffMax \in Nat
      BY <2>1
    <3>. QED
      BY <2>1, <3>2, <3>3
  <2>6. ASSUME NEW i \in 1 .. N, NEW j \in 1 .. N, i < j
        PROVE  /\ (i * DiffMax) \div N <= (j * DiffMax) \div N
               /\ N <= DiffMax => (i * DiffMax) \div N < (j * DiffMax) \div N
    BY <2>1, <2>5, <2>6, DivideMonotone
  <2>7. weight(s) \in Int /\ weight(t) \in Int
    BY <2>1, <2>3
  <2>8. index(t) <= index(s) => weight(t) <= weight(s)
    BY <2>1, <2>3, <2>6
  <2>9. N <= DiffMax => weight(s) # weight(t)
    <3>1. CASE index(s) < index(t)
      BY <2>3, <2>6, <2>7, <3>1
    <3>2. CASE index(t) < index(s)
      BY <2>3, <2>6, <2>7, <3>2
    <3>. QED
      BY <2>3, <3>1, <3>2
  <2>. HIDE DEF weight
  <2>. QED
    BY <2>1, <2>3, <2>4, <2>7, <2>8, <2>9
<1>. QED
  BY <1>1, SealTypeCorrect, PTL
=============================================================================
