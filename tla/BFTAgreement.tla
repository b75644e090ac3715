---------------------------- MODULE BFTAgreement ----------------------------
(***************************************************************************)
(* Agreement of the consensus core: no two different blocks of one number  *)
(* are delivered, for every number of validators and of faults for which   *)
(* quorums meet in a correct validator.  And for any number of faults:     *)
(* locks, rounds and proposals are justified by what has been sent.        *)
(***************************************************************************)
EXTENDS BFTEvidence, FiniteSetTheorems

-----------------------------------------------------------------------------
(* Quorums *)

\* The set of validators is finite and has N elements.
LEMMA ValidatorsFinite == IsFiniteSet(Validators) /\ Cardinality(Validators) = N
<1>1. N \in Nat /\ 0 \in Int /\ N - 1 \in Int /\ N > 0
  BY ValidatorsAssumption
<1>2. /\ IsFiniteSet(0 .. N - 1)
      /\ Cardinality(0 .. N - 1) = IF 0 > N - 1 THEN 0 ELSE (N - 1) - 0 + 1
  BY <1>1, FS_Interval, Zenon
<1>3. (IF 0 > N - 1 THEN 0 ELSE (N - 1) - 0 + 1) = N
  BY <1>1
<1>. QED
  BY <1>2, <1>3 DEF Validators

\* Sets of senders have sizes, and a larger set is no smaller in number.
LEMMA SendersCounted == SenderSizes
<1>1. \A S \in SUBSET Validators : IsFiniteSet(S) /\ Cardinality(S) \in Nat
  BY ValidatorsFinite, FS_Subset, FS_CardinalityType
<1>2. ASSUME NEW T \in SUBSET Validators, NEW S \in SUBSET T
      PROVE  Cardinality(S) <= Cardinality(T)
  BY <1>1, FS_Subset
<1>3. ASSUME NEW S \in SUBSET Validators, NEW v \in Validators
      PROVE  Cardinality(S \cup {v}) <= Cardinality(S) + 1
  <2>1. IsFiniteSet(S) /\ Cardinality(S) \in Nat
    BY <1>1
  <2>2. Cardinality(S \cup {v}) = IF v \in S THEN Cardinality(S) ELSE Cardinality(S) + 1
    BY <2>1, FS_AddElement, Zenon
  <2>. QED
    BY <2>1, <2>2
<1>4. Cardinality({}) = 0
  BY FS_EmptySet
<1>. QED
  BY <1>1, <1>2, <1>3, <1>4 DEF SenderSizes

\* Two sets of 2F + 1 validators, the size handleCommit asks for, share a
\* correct validator.
LEMMA QuorumIntersection ==
  ASSUME QuorumsMeet,
         NEW P \in SUBSET Validators, Cardinality(P) >= 2 * F + 1,
         NEW Q \in SUBSET Validators, Cardinality(Q) >= 2 * F + 1
  PROVE  \E n \in P \cap Q : n \in Correct
<1>. DEFINE Faulty == Byzantine \cup Restarting
<1>1. /\ IsFiniteSet(P) /\ IsFiniteSet(Q) /\ IsFiniteSet(P \cup Q) /\ IsFiniteSet(P \cap Q)
      /\ IsFiniteSet(Faulty) /\ Cardinality(P \cup Q) <= N
  <2>1. P \cup Q \in SUBSET Validators /\ P \cap Q \in SUBSET Validators /\ Faulty \in SUBSET Validators
    BY ValidatorsAssumption
  <2>. QED
    BY <2>1, ValidatorsFinite, FS_Subset
<1>2. Cardinality(P \cup Q) = Cardinality(P) + Cardinality(Q) - Cardinality(P \cap Q)
  BY <1>1, FS_Union
<1>3. /\ Cardinality(P) \in Nat /\ Cardinality(Q) \in Nat /\ Cardinality(P \cap Q) \in Nat
      /\ Cardinality(P \cup Q) \in Nat /\ Cardinality(Faulty) \in Nat
  BY <1>1, FS_CardinalityType
<1>4. Cardinality(P \cap Q) > Cardinality(Faulty)
  BY <1>1, <1>2, <1>3, FType, ValidatorsAssumption DEF QuorumsMeet
<1>5. ~(P \cap Q \subseteq Faulty)
  <2>1. ASSUME P \cap Q \subseteq Faulty PROVE FALSE
    <3>1. Cardinality(P \cap Q) <= Cardinality(Faulty)
      BY <2>1, <1>1, FS_Subset
    <3>. QED
      BY <3>1, <1>3, <1>4
  <2>. QED
    BY <2>1
<1>6. PICK n \in P \cap Q : n \notin Faulty
  BY <1>5
<1>. QED
  BY <1>6 DEF Correct, Honest

-----------------------------------------------------------------------------
(* The proof *)

\* A delivery decides nothing new, or decides the first block of its number,
\* which a quorum is then bound to.
LEMMA DeliverStep ==
  ASSUME QuorumsMeet, TypeOK, TypeOK', AgreementInv, NEW n \in Honest, Effect(n)
  PROVE  \/ Decided' = Decided
         \/ \E b \in Blocks \ BadBlocks :
              /\ Decided' = Decided \cup {b}
              /\ \A c \in Decided : c.num # b.num
              /\ \E Q \in SUBSET Validators :
                   /\ Cardinality(Q) >= 2 * F + 1
                   /\ \A p \in Q \cap Correct : Pledged(p, b)
              /\ UNCHANGED chain
<1>1. CASE UNCHANGED delivered
  BY <1>1 DEF Decided
<1>2. CASE delivered' # delivered
  <2>. DEFINE b == current[n].Preprepare
              Q == DOMAIN current'[n].Commits
  <2>1. Count(n)
    BY <1>2, EffectFrame
  <2>2. /\ b \in Blocks /\ Cardinality(Q) > 2 * F /\ UNCHANGED <<chain, msgs>>
        /\ current'[n].Preprepare = b
        /\ \E v \in BOOLEAN : delivered' = delivered \cup {[node |-> n, block |-> b, valid |-> v]}
    BY <1>2, <2>1 DEF Count
  <2>3. {d.block : d \in delivered'} = {d.block : d \in delivered} \cup {b}
    <3>. HIDE DEF b
    <3>1. PICK v \in BOOLEAN : delivered' = delivered \cup {[node |-> n, block |-> b, valid |-> v]}
      BY <2>2
    <3>2. [node |-> n, block |-> b, valid |-> v].block = b
      OBVIOUS
    <3>. QED
      BY <3>1, <3>2, Zenon
  <2>4. n \in Validators /\ Q \in SUBSET Validators /\ Cardinality(Q) >= 2 * F + 1
    <3>1. n \in Validators /\ current'[n].Commits \in CommitMap
      BY DEF Honest, TypeOK, RoundState
    <3>2. Q \in SUBSET Validators
      BY <3>1 DEF CommitMap
    <3>3. Cardinality(Q) \in Nat
      BY <3>2, ValidatorsFinite, FS_Subset, FS_CardinalityType
    <3>. QED
      BY <3>1, <3>2, <3>3, <2>2, FType
  <2>5. \A p \in Q : \E m \in Sent : m.code = "COMMIT" /\ m.src = p /\ m.digest = b
    BY <2>2, <2>4, CoreShapeStep DEF CoreShape, Sent
  <2>6. CASE b \in BadBlocks
    BY <2>3, <2>6 DEF Decided
  <2>7. CASE b \notin BadBlocks /\ \E c \in Decided : c.num = b.num
    <3>1. PICK c \in Decided : c.num = b.num
      BY <2>7
    <3>2. PICK P \in SUBSET Validators :
            Cardinality(P) >= 2 * F + 1 /\ \A p \in P \cap Correct : Pledged(p, c)
      BY DEF AgreementInv, DecidedPledged
    <3>3. PICK p \in P \cap Q : p \in Correct
      BY <2>2, <2>4, <3>2, QuorumIntersection
    <3>4. b = c
      BY <2>2, <2>5, <2>7, <3>1, <3>2, <3>3, CorrectCommit
    <3>. QED
      BY <2>3, <3>4 DEF Decided
  <2>8. CASE b \notin BadBlocks /\ \A c \in Decided : c.num # b.num
    <3>1. Decided' = Decided \cup {b}
      BY <2>3, <2>8 DEF Decided
    <3>2. \A p \in Q \cap Correct : Pledged(p, b)
      BY <2>2, <2>5, <2>8, CorrectCommit
    <3>3. b \in Blocks \ BadBlocks
      BY <2>2, <2>8
    <3>. HIDE DEF b, Q
    <3>. QED
      BY <2>2, <2>4, <2>8, <3>1, <3>2, <3>3
  <2>. QED
    BY <2>6, <2>7, <2>8
<1>. QED
  BY <1>1, <1>2

\* Every step preserves the inductive invariant.
LEMMA InvStep ==
  ASSUME QuorumsMeet, TypeOK, TypeOK', AgreementInv, [Next]_vars
  PROVE  AgreementInv'
<1>1. CASE UNCHANGED vars
  BY <1>1 DEF AgreementInv, MsgShape, CoreShape, ChainDecided, UnsealedDecided, CommitLock,
              DecidedPledged, Agreement, Decided, SealedCommits, Pledged, Sent,
              vars, coreVars, chainVars
<1>2. CASE Next
  <2>1. PICK n \in Honest : Effect(n)
    BY <1>2, StepEffect
  <2>2. MsgShape' /\ CoreShape' /\ ChainDecided' /\ UnsealedDecided' /\ CommitLock'
    BY <2>1, MsgShapeStep, CoreShapeStep, ChainDecidedStep, UnsealedDecidedStep, CommitLockStep
  <2>3. \A b \in Decided : b \in Blocks \ BadBlocks
    BY DEF Decided, TypeOK
  <2>4. ASSUME NEW b \in Blocks \ BadBlocks, NEW Q \in SUBSET Validators,
               \A p \in Q \cap Correct : Pledged(p, b)
        PROVE  \A p \in Q \cap Correct : Pledged(p, b)'
    BY <2>1, <2>4, PledgeStable
  <2>5. \A b \in Decided : \E Q \in SUBSET Validators :
          Cardinality(Q) >= 2 * F + 1 /\ \A p \in Q \cap Correct : Pledged(p, b)
    BY DEF AgreementInv, DecidedPledged
  <2>6. \A b \in Decided' : \E Q \in SUBSET Validators :
          Cardinality(Q) >= 2 * F + 1 /\ \A p \in Q \cap Correct : Pledged(p, b)
    BY <2>1, <2>5, DeliverStep
  <2>7. \A b \in Decided' : b \in Blocks \ BadBlocks
    BY DEF Decided, TypeOK
  <2>8. DecidedPledged'
    <3>. SUFFICES ASSUME NEW b \in Decided'
                  PROVE  \E Q \in SUBSET Validators :
                           /\ Cardinality(Q) >= 2 * F + 1
                           /\ \A p \in Q \cap Correct : Pledged(p, b)'
      BY DEF DecidedPledged
    <3>1. PICK Q \in SUBSET Validators :
            Cardinality(Q) >= 2 * F + 1 /\ \A p \in Q \cap Correct : Pledged(p, b)
      BY <2>6
    <3>2. \A p \in Q \cap Correct : Pledged(p, b)'
      BY <2>4, <2>7, <3>1
    <3>. QED
      BY <3>1, <3>2
  <2>9. Agreement'
    <3>1. \A b, c \in Decided : b.num = c.num => b = c
      BY DEF AgreementInv, Agreement, Decided
    <3>2. \A b, c \in Decided' : b.num = c.num => b = c
      BY <2>1, <3>1, DeliverStep
    <3>. QED
      BY <3>2 DEF Agreement, Decided
  <2>. QED
    BY <2>2, <2>8, <2>9, Zenon DEF AgreementInv
<1>. QED
  BY <1>1, <1>2, Zenon

\* The inductive invariant holds in every reachable state.
THEOREM Invariance ==
  ASSUME QuorumsMeet
  PROVE  Spec => []AgreementInv
<1>1. Init => AgreementInv
  <2>. SUFFICES ASSUME Init PROVE AgreementInv
    OBVIOUS
  <2>1. Decided = {} /\ msgs = {}
    BY DEF Init, Decided
  <2>2. MsgShape
    BY <2>1, ByzantineAssumption DEF MsgShape, Sent
  <2>3. CoreShape
    BY EmptyCommitMap DEF Init, CoreShape, NewRoundState
  <2>4. ChainDecided
    BY DEF Init, ChainDecided
  <2>. QED
    BY <2>1, <2>2, <2>3, <2>4
       DEF AgreementInv, UnsealedDecided, CommitLock, SealedCommits, DecidedPledged, Agreement, Init
<1>2. TypeOK /\ TypeOK' /\ AgreementInv /\ [Next]_vars => AgreementInv'
  BY InvStep
<1>. QED
  BY <1>1, <1>2, TypeCorrect, PTL DEF Spec

\* No two validators deliver (core.commit) different blocks of one number,
\* however many validators and rounds there are, if any two sets of 2F + 1
\* validators share one that follows the protocol and keeps its lock.
THEOREM AgreementCorrect ==
  ASSUME QuorumsMeet
  PROVE  Spec => []Agreement
<1>1. AgreementInv => Agreement
  BY DEF AgreementInv
<1>. QED
  BY <1>1, Invariance, PTL

\* A sealed COMMIT binds its sender to the block through all later rounds
\* (updateRoundState), unless the number was decided before.
THEOREM CommitLockCorrect ==
  ASSUME QuorumsMeet
  PROVE  Spec => []CommitLock
<1>1. AgreementInv => CommitLock
  BY DEF AgreementInv
<1>. QED
  BY <1>1, Invariance, PTL

\* The deliveries and the chains implement the ledger: each delivery decides
\* the first block of its number or changes nothing, and each chain grows by
\* decided blocks in their order.
THEOREM LedgerCorrect ==
  ASSUME QuorumsMeet
  PROVE  Spec => RefinesLedger
<1>1. Init => DecidedLedger!Init
  BY DEF Init, DecidedLedger!Init, Decided
<1>2. TypeOK /\ TypeOK' /\ AgreementInv /\ [Next]_vars
        => [DecidedLedger!Next]_(DecidedLedger!ledgerVars)
  <2>. SUFFICES ASSUME TypeOK, TypeOK', AgreementInv, [Next]_vars
                PROVE  DecidedLedger!Next \/ UNCHANGED <<Decided, chain>>
    BY DEF DecidedLedger!ledgerVars
  <2>1. CASE UNCHANGED vars
    BY <2>1 DEF vars, chainVars, Decided
  <2>2. CASE Next
    <3>1. PICK n \in Honest : Effect(n)
      BY <2>2, StepEffect
    <3>2. CASE UNCHANGED chain
      BY <3>1, <3>2, DeliverStep DEF DecidedLedger!Next, DecidedLedger!Decide
    <3>3. CASE chain' # chain
      <4>1. UNCHANGED delivered /\ Extended(n)
        BY <3>1, <3>3, EffectFrame
      <4>2. Decided' = Decided /\ Decided \subseteq Blocks /\ n \in Validators
        BY <4>1 DEF Decided, TypeOK, Honest
      <4>. QED
        BY <4>1, <4>2, Zenon DEF Extended, DecidedLedger!Next, DecidedLedger!Extend
    <3>. QED
      BY <3>2, <3>3
  <2>. QED
    BY <2>1, <2>2
<1>. QED
  BY <1>1, <1>2, TypeCorrect, Invariance, PTL DEF Spec, RefinesLedger, DecidedLedger!Spec

-----------------------------------------------------------------------------
(* Evidence for locks, rounds and proposals *)

\* What the cores hold is backed by messages that were sent, in every
\* reachable state.
THEOREM EvidenceHolds == Spec => []Evidence
<1>1. Init => Evidence
  <2>. SUFFICES ASSUME Init, NEW n \in Honest PROVE EvidenceOf(n)
    BY DEF Evidence
  <2>. DEFINE new == NewRoundState(1, 0, None, None, None)
  <2>1. /\ current[n] = new /\ ~waiting[n] /\ roundChangeSet[n] = [r \in Rounds |-> {}]
    BY DEF Init, Honest
  <2>2. /\ new.Prepares = {} /\ DOMAIN new.Commits = {} /\ new.lockedHash = None
        /\ new.pendingRequest = None /\ new.round = 0
    BY EmptyCommitMap DEF NewRoundState
  <2>3. Cardinality({}) < 2 * F + 1
    BY SendersCounted, FType DEF SenderSizes
  <2>. HIDE DEF new
  <2>. QED
    BY <2>1, <2>2, <2>3
       DEF EvidenceOf, VotesCounted, LockEarned, OwnProposal, IsHashLocked, RoundsCounted, NoneOverdue
<1>2. TypeOK /\ Evidence /\ [Next]_vars => Evidence'
  BY SendersCounted, EvidenceStep
<1>. QED
  BY <1>1, <1>2, TypeCorrect, PTL DEF Spec

\* Behind every lock (handlePrepare, handleCommit, kept by updateRoundState)
\* stand 2F + 1 validators that voted for the locked block in one round: for
\* any number of validators, Byzantine ones among them.
THEOREM LocksJustified == Spec => []LockJustified
<1>1. Evidence => LockJustified
  BY DEF Evidence, EvidenceOf, LockEarned, LockJustified
<1>. QED
  BY <1>1, EvidenceHolds, PTL

\* With more than three validators a core works in a round above 0 only if
\* 2F + 1 validators asked for it, and never waits for a round that 2F + 1 of
\* the ROUND CHANGEs it has counted ask for (handleRoundChange).
THEOREM RoundsJustified == N > 3 => (Spec => []RoundJustified)
<1>. SUFFICES ASSUME N > 3 PROVE Spec => []RoundJustified
  OBVIOUS
<1>1. TypeOK /\ Evidence => RoundJustified
  <2>. SUFFICES ASSUME TypeOK, Evidence, NEW n \in Honest
                PROVE  IF waiting[n] THEN Cardinality(roundChangeSet[n][current[n].round]) < 2 * F + 1
                       ELSE current[n].round > 0 =>
                              Cardinality(Askers(Sent, current[n].sequence, current[n].round)) >= 2 * F + 1
    BY DEF RoundJustified
  <2>1. current[n].round \in Rounds
    BY DEF TypeOK, RoundState, Honest
  <2>. QED
    BY <2>1 DEF Evidence, EvidenceOf, RoundsCounted, NoneOverdue
<1>. QED
  BY <1>1, TypeCorrect, EvidenceHolds, PTL

\* A core never returns to an earlier view, nor within a view that it has
\* started to an earlier state: no delay, duplicate or reordering of messages,
\* no timeout and no block from the network takes it back.
THEOREM NeverGoesBack == Spec => NeverBack
<1>1. TypeOK /\ Evidence /\ [Next]_vars => [\A n \in Correct : Onward(n)]_<<current, state, waiting>>
  <2>. SUFFICES ASSUME TypeOK, Evidence, Next, NEW k \in Correct PROVE Onward(k)
    BY DEF vars, coreVars
  <2>1. PICK n \in Honest : Sound(n)
    BY SendersCounted, SoundStep
  <2>2. CASE k = n
    BY <2>1, <2>2 DEF Sound
  <2>3. CASE k # n
    <3>1. /\ current'[k] = current[k] /\ state'[k] = state[k] /\ waiting'[k] = waiting[k]
          /\ state[k] \in AcceptRequest .. Committed
      BY <2>1, <2>3 DEF Sound, OnlyCoreOf, Correct, Honest, TypeOK
    <3>. QED
      BY <3>1 DEF Onward, AcceptRequest, Committed
  <2>. QED
    BY <2>2, <2>3
<1>. QED
  BY <1>1, TypeCorrect, EvidenceHolds, PTL DEF Spec, NeverBack

\* No validator proposes a block that its own chain has reported as bad: a lock
\* on it is void (IsHashLocked), and the request proposed instead is its own.
THEOREM ProposalsNotBad == Spec => NeverProposesBad
<1>1. TypeOK /\ Evidence /\ [Next]_vars =>
        [\A m \in msgs' \ msgs : m.code = "PREPREPARE" => m.digest \notin badBlocks[m.src]]_msgs
  <2>. SUFFICES ASSUME TypeOK, Evidence, Next
                PROVE  \A m \in msgs' \ msgs : m.code = "PREPREPARE" => m.digest \notin badBlocks[m.src]
    BY DEF vars
  <2>. QED
    BY SendersCounted, SoundStep DEF Sound, ProposesWell
<1>. QED
  BY <1>1, TypeCorrect, EvidenceHolds, PTL DEF Spec, NeverProposesBad
=============================================================================
