---------------------------- MODULE BFTCoreProof ----------------------------
(***************************************************************************)
(* Proofs about BFTCore, for every number of validators, every set of      *)
(* blocks and all bounds.  First the types.  Then the first parts of the   *)
(* agreement proof: the handlers are reduced to what they do to the part   *)
(* of the state that the argument is about, a validator that is bound to a *)
(* block stays bound, and the conjuncts of AgreementInv that need no       *)
(* quorums are preserved.                                                  *)
(***************************************************************************)
EXTENDS BFTCore, TLAPS

\* F is a natural number.
LEMMA FType == F \in Nat
BY ValidatorsAssumption DEF F

\* The proposer computed by CalcProposer is a validator.
LEMMA CalcProposerType ==
  ASSUME NEW last \in Validators \cup {None}, NEW r \in Nat
  PROVE  CalcProposer(last, r) \in Validators
<1>1. \A x \in Nat : x % N \in Validators
  BY ValidatorsAssumption DEF Validators
<1>2. CASE last = None
  BY <1>1, <1>2 DEF CalcProposer
<1>3. CASE last # None
  <2>1. last + r + (IF Policy = "RoundRobin" THEN 1 ELSE 0) \in Nat
    BY <1>3, ValidatorsAssumption DEF Validators
  <2>. QED
    BY <1>1, <1>3, <2>1 DEF CalcProposer
<1>. QED
  BY <1>2, <1>3

\* Adding a COMMIT to a message set gives a message set.
LEMMA AddCommitType ==
  ASSUME NEW c \in CommitMap, NEW v \in Validators, NEW seal \in Blocks \cup {None}
  PROVE  /\ AddCommit(c, v, seal) \in CommitMap
         /\ DOMAIN AddCommit(c, v, seal) = DOMAIN c \cup {v}
<1>1. PICK S \in SUBSET Validators : c \in [S -> Blocks \cup {None}]
  BY DEF CommitMap
<1>2. AddCommit(c, v, seal) \in [S \cup {v} -> Blocks \cup {None}]
  BY <1>1 DEF AddCommit
<1>3. S \cup {v} \in SUBSET Validators
  OBVIOUS
<1>. QED
  BY <1>1, <1>2, <1>3, Zenon DEF CommitMap, AddCommit

\* The empty message set is a message set.
LEMMA EmptyCommitMap == EmptyFunction \in CommitMap /\ DOMAIN EmptyFunction = {}
<1>1. EmptyFunction \in [{} -> Blocks \cup {None}]
  BY DEF EmptyFunction
<1>. QED
  BY <1>1 DEF CommitMap, EmptyFunction

\* newRoundState builds a round state.
LEMMA NewRoundStateType ==
  ASSUME NEW s \in Nat \ {0}, NEW r \in Rounds, NEW lock \in Blocks \cup {None},
         NEW pp \in Blocks \cup {None}, NEW req \in Blocks \cup {None}
  PROVE  NewRoundState(s, r, lock, pp, req) \in RoundState
BY EmptyCommitMap DEF NewRoundState, RoundState

\* updateRoundState builds a round state.
LEMMA KeepLockType ==
  ASSUME TypeOK, NEW n \in Validators, NEW r \in Rounds
  PROVE  KeepLock(n, r) \in RoundState
<1>1. current[n] \in RoundState
  BY DEF TypeOK
<1>. QED
  BY <1>1, NewRoundStateType, Zenon DEF KeepLock, RoundState

\* The author of a block of a chain is a validator, or none for genesis.
LEMMA AuthorType ==
  ASSUME TypeOK, NEW n \in Validators, NEW h \in 0 .. Len(chain[n])
  PROVE  Author(n, h) \in Validators \cup {None}
<1>1. chain[n] \in Seq(Blocks)
  BY DEF TypeOK
<1>2. CASE h = 0
  BY <1>2 DEF Author
<1>3. CASE h # 0
  <2>1. chain[n][h] \in Blocks
    BY <1>1, <1>3
  <2>. QED
    BY <2>1, <1>3, BlocksAssumption DEF Author
<1>. QED
  BY <1>2, <1>3

\* The chain of a validator has all blocks below the one it works on.
Behind == \A n \in Validators : current[n].sequence <= Len(chain[n]) + 1

\* Starting a sequence preserves the types.
LEMMA NewSequenceType ==
  ASSUME TypeOK, NEW n \in Validators, NewSequence(n), UNCHANGED <<chainVars, delivered>>
  PROVE  TypeOK' /\ (Behind => Behind')
<1>1. chain[n] \in Seq(Blocks) /\ Len(chain[n]) \in Nat
  BY DEF TypeOK
<1>2. NewRoundState(Len(chain[n]) + 1, 0, None, None, None) \in RoundState
  <2>1. Len(chain[n]) + 1 \in Nat \ {0} /\ 0 \in Rounds
    BY <1>1, BoundsAssumption DEF Rounds
  <2>. QED
    BY <2>1, NewRoundStateType, Zenon
<1>3. CalcProposer(Author(n, Len(chain[n])), 0) \in Validators
  <2>1. Author(n, Len(chain[n])) \in Validators \cup {None}
    BY <1>1, AuthorType
  <2>. QED
    BY <2>1, CalcProposerType, Zenon
<1>4. AcceptRequest \in AcceptRequest .. Committed
  BY DEF AcceptRequest, Committed
<1>5. TypeOK'
  BY <1>2, <1>3, <1>4 DEF TypeOK, NewSequence, chainVars
<1>6. NewRoundState(Len(chain[n]) + 1, 0, None, None, None).sequence = Len(chain[n]) + 1
  BY DEF NewRoundState
<1>7. ASSUME Behind PROVE Behind'
  <2>. SUFFICES ASSUME NEW k \in Validators
                PROVE  current'[k].sequence <= Len(chain'[k]) + 1
    BY DEF Behind
  <2>1. CASE k = n
    BY <2>1, <1>6, <1>1 DEF NewSequence, chainVars, TypeOK
  <2>2. CASE k # n
    BY <2>2, <1>7 DEF NewSequence, chainVars, TypeOK, Behind
  <2>. QED
    BY <2>1, <2>2
<1>. QED
  BY <1>5, <1>7

\* The messages that the actions broadcast are messages.
LEMMA MsgType ==
  ASSUME NEW code \in Codes, NEW n \in Validators, NEW s \in Nat, NEW r \in Rounds,
         NEW digest \in Blocks \cup {None}, NEW seal \in Blocks \cup {None}
  PROVE  Msg(code, n, s, r, digest, seal) \in Message
BY DEF Msg, Message

\* What sendPreprepare broadcasts is a message.
LEMMA PreprepareForType ==
  ASSUME NEW n \in Validators, NEW cur \in RoundState, NEW prop, NEW b \in Blocks
  PROVE  PreprepareFor(n, cur, prop, b) \subseteq Message
<1>1. cur.sequence \in Nat /\ cur.round \in Rounds
  BY DEF RoundState
<1>2. Msg("PREPREPARE", n, cur.sequence, cur.round, b, None) \in Message
  BY <1>1, MsgType DEF Codes
<1>. QED
  BY <1>2 DEF PreprepareFor

\* Moving to another round with a lock kept preserves the types.
LEMMA NewRoundType ==
  ASSUME TypeOK, Behind, NEW n \in Validators, NEW r \in Rounds,
         NewRound(n, r), UNCHANGED <<chainVars, delivered>>
  PROVE  TypeOK' /\ Behind'
<1>. DEFINE cur == KeepLock(n, r)
            prop == CalcProposer(Author(n, cur.sequence - 1), r)
<1>0. current[n] \in RoundState /\ chain[n] \in Seq(Blocks)
  BY DEF TypeOK
<1>1. cur \in RoundState /\ cur.sequence = current[n].sequence
  BY KeepLockType DEF KeepLock, NewRoundState
<1>2. prop \in Validators
  <2>1. cur.sequence - 1 \in 0 .. Len(chain[n])
    BY <1>0, <1>1 DEF Behind, RoundState
  <2>2. Author(n, cur.sequence - 1) \in Validators \cup {None} /\ r \in Nat
    BY <2>1, AuthorType DEF Rounds
  <2>. QED
    BY <2>2, CalcProposerType
<1>3. AcceptRequest \in AcceptRequest .. Committed
  BY DEF AcceptRequest, Committed
<1>4. msgs' \subseteq Message
  <2>0. msgs \subseteq Message
    BY DEF TypeOK
  <2>1. cur.lockedHash # None => cur.Preprepare \in Blocks \cup {None}
    BY <1>1 DEF RoundState
  <2>2. CASE cur.lockedHash # None /\ cur.Preprepare \in Blocks
    BY <2>0, <2>2, <1>1, PreprepareForType DEF NewRound, Broadcast
  <2>3. CASE cur.lockedHash = None
    BY <2>0, <2>3, <1>1, PreprepareForType DEF NewRound, Broadcast, RoundState
  <2>4. CASE cur.lockedHash # None /\ cur.Preprepare = None
    <3>1. cur.sequence \in Nat /\ cur.round \in Rounds
      BY <1>1 DEF RoundState
    <3>2. Msg("PREPREPARE", n, cur.sequence, cur.round, None, None) \in Message
      BY <3>1, MsgType, Zenon DEF Codes
    <3>. QED
      BY <2>0, <2>4, <3>2 DEF NewRound, Broadcast, PreprepareFor
  <2>. QED
    BY <2>1, <2>2, <2>3, <2>4
<1>5. TypeOK'
  BY <1>1, <1>2, <1>3, <1>4, Zenon DEF TypeOK, NewRound, chainVars
<1>6. Behind'
  BY <1>1 DEF TypeOK, NewRound, chainVars, Behind
<1>. QED
  BY <1>5, <1>6

\* Asking for a round preserves the types.
LEMMA SendRoundChangeType ==
  ASSUME TypeOK, Behind, NEW n \in Validators, NEW r \in Nat,
         NEW rcs \in [Rounds -> SUBSET Validators],
         SendRoundChange(n, r, rcs), UNCHANGED <<chainVars, delivered>>
  PROVE  TypeOK' /\ Behind'
<1>0. current[n] \in RoundState
  BY DEF TypeOK
<1>1. r \in Rounds
  BY DEF SendRoundChange, Rounds
<1>2. KeepLock(n, r) \in RoundState /\ KeepLock(n, r).sequence = current[n].sequence
  BY <1>1, KeepLockType DEF KeepLock, NewRoundState
<1>3. Msg("ROUNDCHANGE", n, current[n].sequence, r, None, None) \in Message
  <2>1. current[n].sequence \in Nat
    BY <1>0 DEF RoundState
  <2>. QED
    BY <1>1, <2>1, MsgType DEF Codes
<1>4. [q \in Rounds |-> IF q < r THEN {} ELSE rcs[q]] \in [Rounds -> SUBSET Validators]
  OBVIOUS
<1>5. TypeOK'
  BY <1>2, <1>3, <1>4 DEF TypeOK, SendRoundChange, chainVars, Broadcast
<1>6. Behind'
  BY <1>2 DEF TypeOK, SendRoundChange, chainVars, Behind
<1>. QED
  BY <1>5, <1>6

\* What every message that can be handled looks like.
LEMMA ReceivableType ==
  ASSUME TypeOK, NEW n, NEW code, NEW m \in Receivable(n, code)
  PROVE  /\ m \in Message /\ m.code = code /\ m \in Sent
         /\ m.code \in Codes /\ m.src \in Validators /\ m.seq \in Nat /\ m.round \in Rounds
         /\ m.digest \in Blocks \cup {None} /\ m.seal \in Blocks \cup {None}
<1>1. m \in Message /\ m.code = code /\ m \in Sent
  BY ByzantineAssumption DEF Receivable, TypeOK, Sent
<1>. QED
  BY <1>1 DEF Message

\* Setting the state or the round state of a core preserves its type.
LEMMA UpdateType ==
  ASSUME TypeOK, NEW n \in Validators
  PROVE  /\ \A st \in {AcceptRequest, Preprepared, Prepared, Committed} :
              [state EXCEPT ![n] = st] \in [Validators -> AcceptRequest .. Committed]
         /\ \A cur \in RoundState : [current EXCEPT ![n] = cur] \in [Validators -> RoundState]
<1>1. {AcceptRequest, Preprepared, Prepared, Committed} \subseteq AcceptRequest .. Committed
  BY DEF AcceptRequest, Preprepared, Prepared, Committed
<1>2. state \in [Validators -> AcceptRequest .. Committed] /\ current \in [Validators -> RoundState]
  BY DEF TypeOK
<1>. QED
  BY <1>1, <1>2

\* Every step preserves the types.
LEMMA TypeStep ==
  ASSUME TypeOK, Behind, [Next]_vars
  PROVE  TypeOK' /\ Behind'
<1>1. CASE UNCHANGED vars
  BY <1>1 DEF TypeOK, Behind, vars, coreVars, chainVars
<1>2. ASSUME NEW n \in Honest, NEW b \in Blocks, HandleRequest(n, b)
      PROVE  TypeOK' /\ Behind'
  <2>0. n \in Validators /\ current[n] \in RoundState
    BY <1>2 DEF Honest, TypeOK
  <2>1. PreprepareFor(n, current[n], proposer[n], b) \subseteq Message
    BY <2>0, PreprepareForType
  <2>2. [current[n] EXCEPT !.pendingRequest = b] \in RoundState
    BY <2>0 DEF RoundState
  <2>3. current' = [current EXCEPT ![n] = [current[n] EXCEPT !.pendingRequest = b]]
    BY <2>0, <1>2 DEF HandleRequest, TypeOK
  <2>4. TypeOK'
    BY <2>0, <2>1, <2>2, <2>3, <1>2 DEF TypeOK, HandleRequest, Broadcast, chainVars
  <2>5. Behind'
    BY <2>0, <2>3, <1>2 DEF TypeOK, RoundState, Behind, HandleRequest, chainVars
  <2>. QED
    BY <2>4, <2>5
<1>3. ASSUME NEW n \in Honest, NEW m \in Receivable(n, "PREPREPARE"), HandleOldPreprepare(n, m)
      PROVE  TypeOK' /\ Behind'
  <2>0. n \in Validators /\ current[n] \in RoundState
    BY <1>3 DEF Honest, TypeOK
  <2>1. Msg("COMMIT", n, m.seq, m.round, m.digest, current[n].Preprepare) \in Message
    BY <2>0, ReceivableType, MsgType, Zenon DEF Codes, RoundState
  <2>. QED
    BY <2>1, <1>3 DEF TypeOK, Behind, HandleOldPreprepare, Broadcast, coreVars, chainVars
<1>4. ASSUME NEW n \in Honest, NEW m \in Receivable(n, "PREPREPARE"),
             AcceptPreprepare(n, m) \/ AcceptLockedPreprepare(n, m)
      PROVE  TypeOK' /\ Behind'
  <2>0. n \in Validators /\ current[n] \in RoundState /\ m.digest \in Blocks \cup {None}
    BY <1>4, ReceivableType, Zenon DEF Honest, TypeOK
  <2>1. PrepareFor(n, m.digest) \in Message /\ CommitFor(n, m.digest) \in Message
    BY <2>0, MsgType, Zenon DEF Codes, RoundState, PrepareFor, CommitFor
  <2>2. [current[n] EXCEPT !.Preprepare = m.digest] \in RoundState
    BY <2>0 DEF RoundState
  <2>3. current' = [current EXCEPT ![n] = [current[n] EXCEPT !.Preprepare = m.digest]]
    BY <2>0, <1>4 DEF AcceptPreprepare, AcceptLockedPreprepare, TypeOK
  <2>4. TypeOK'
    <3>1. \E st \in {Preprepared, Prepared} : state' = [state EXCEPT ![n] = st]
      BY <1>4 DEF AcceptPreprepare, AcceptLockedPreprepare
    <3>3. state' \in [Validators -> AcceptRequest .. Committed]
      BY <2>0, <3>1, UpdateType
    <3>4. msgs' \subseteq Message
      BY <2>1, <1>4 DEF TypeOK, AcceptPreprepare, AcceptLockedPreprepare, Broadcast
    <3>2. UNCHANGED <<waiting, proposer, roundChangeSet, chain, badBlocks, delivered>>
      BY <1>4 DEF AcceptPreprepare, AcceptLockedPreprepare, chainVars
    <3>. QED
      BY <2>0, <2>2, <2>3, <3>2, <3>3, <3>4, Zenon DEF TypeOK
  <2>5. Behind'
    BY <2>0, <2>3, <1>4
       DEF TypeOK, RoundState, Behind, AcceptPreprepare, AcceptLockedPreprepare, chainVars
  <2>. QED
    BY <2>4, <2>5
<1>5. ASSUME NEW n \in Honest, NEW m \in Receivable(n, "PREPREPARE"), RejectPreprepare(n, m)
      PROVE  TypeOK' /\ Behind'
  <2>0. /\ n \in Validators /\ current[n].round + 1 \in Nat
        /\ roundChangeSet[n] \in [Rounds -> SUBSET Validators]
    BY <1>5 DEF Honest, TypeOK, RoundState, Rounds
  <2>. QED
    BY <2>0, <1>5, SendRoundChangeType, Zenon DEF RejectPreprepare, SendNextRoundChange
<1>6. ASSUME NEW n \in Honest, NEW m \in Receivable(n, "PREPARE"), HandlePrepare(n, m)
      PROVE  TypeOK' /\ Behind'
  <2>. DEFINE cur == [current[n] EXCEPT !.Prepares = @ \cup {m.src}]
              new == [cur EXCEPT !.lockedHash = cur.Preprepare]
  <2>0. n \in Validators /\ current[n] \in RoundState /\ m.src \in Validators
    BY <1>6, ReceivableType DEF Honest, TypeOK
  <2>1. cur \in RoundState /\ cur.sequence = current[n].sequence
    BY <2>0 DEF RoundState
  <2>2. new \in RoundState /\ new.sequence = current[n].sequence
    BY <2>0, Zenon DEF RoundState
  <2>3. CommitFor(n, cur.Preprepare) \in Message
    BY <2>0, <2>1, MsgType DEF Codes, RoundState, CommitFor
  <2>4. \/ /\ current' = [current EXCEPT ![n] = new]
           /\ state' = [state EXCEPT ![n] = Prepared]
           /\ msgs' = msgs \cup {CommitFor(n, cur.Preprepare)}
        \/ /\ current' = [current EXCEPT ![n] = cur]
           /\ UNCHANGED <<state, msgs>>
    BY <1>6, Zenon DEF HandlePrepare, Broadcast
  <2>5. UNCHANGED <<waiting, proposer, roundChangeSet, chain, badBlocks, delivered>>
    BY <1>6 DEF HandlePrepare, chainVars
  <2>. HIDE DEF cur, new
  <2>. QED
    <3>0. /\ current' \in [Validators -> RoundState]
          /\ state' \in [Validators -> AcceptRequest .. Committed]
      <4>1. /\ state \in [Validators -> AcceptRequest .. Committed]
            /\ current \in [Validators -> RoundState]
        BY DEF TypeOK
      <4>. QED
        BY <2>0, <2>1, <2>2, <2>4, <4>1, UpdateType
    <3>1. TypeOK'
      BY <2>3, <2>4, <2>5, <3>0 DEF TypeOK
    <3>2. Behind'
      BY <2>0, <2>1, <2>2, <2>4, <2>5, Zenon DEF TypeOK, Behind
    <3>. QED
      BY <3>1, <3>2
<1>7. ASSUME NEW n \in Honest, NEW m \in Receivable(n, "COMMIT"), HandleCommit(n, m)
      PROVE  TypeOK' /\ Behind'
  <2>. DEFINE cur == [current[n] EXCEPT !.Commits = AddCommit(@, m.src, m.seal)]
              new == [cur EXCEPT !.lockedHash = cur.Preprepare]
              valid == \A v \in DOMAIN cur.Commits : cur.Commits[v] = cur.Preprepare
  <2>0. /\ n \in Validators /\ current[n] \in RoundState /\ m.src \in Validators
        /\ m.seal \in Blocks \cup {None}
    BY <1>7, ReceivableType DEF Honest, TypeOK
  <2>1. AddCommit(current[n].Commits, m.src, m.seal) \in CommitMap
    BY <2>0, AddCommitType, Zenon DEF RoundState
  <2>2. /\ cur \in RoundState /\ cur.sequence = current[n].sequence
        /\ new \in RoundState /\ new.sequence = current[n].sequence
    BY <2>0, <2>1, Zenon DEF RoundState
  <2>3. valid \in BOOLEAN
    OBVIOUS
  <2>4. cur.Preprepare \in Blocks
    BY <2>2, <1>7 DEF HandleCommit, RoundState
  <2>5. \/ /\ current' = [current EXCEPT ![n] = new]
           /\ state' = [state EXCEPT ![n] = Committed]
           /\ delivered' = delivered \cup {[node |-> n, block |-> cur.Preprepare, valid |-> valid]}
        \/ /\ current' = [current EXCEPT ![n] = cur]
           /\ UNCHANGED <<state, delivered>>
    BY <1>7, Zenon DEF HandleCommit
  <2>6. UNCHANGED <<waiting, proposer, roundChangeSet, chain, badBlocks, msgs>>
    BY <1>7 DEF HandleCommit, chainVars
  <2>. HIDE DEF cur, new, valid
  <2>. QED
    <3>0. /\ current' \in [Validators -> RoundState]
          /\ state' \in [Validators -> AcceptRequest .. Committed]
      <4>1. /\ state \in [Validators -> AcceptRequest .. Committed]
            /\ current \in [Validators -> RoundState]
        BY Zenon DEF TypeOK
      <4>. QED
        BY <2>0, <2>2, <2>5, <4>1, UpdateType
    <3>3. delivered' \subseteq [node : Validators, block : Blocks, valid : BOOLEAN]
      BY <2>0, <2>3, <2>4, <2>5 DEF TypeOK
    <3>1. TypeOK'
      BY <2>6, <3>0, <3>3 DEF TypeOK
    <3>2. Behind'
      BY <2>0, <2>2, <2>5, <2>6, Zenon DEF TypeOK, Behind
    <3>. QED
      BY <3>1, <3>2
<1>8. ASSUME NEW n \in Honest, NEW m \in Receivable(n, "ROUNDCHANGE"), HandleRoundChange(n, m)
      PROVE  TypeOK' /\ Behind'
  <2>. DEFINE senders == roundChangeSet[n][m.round] \cup {m.src}
              rcs == [roundChangeSet[n] EXCEPT ![m.round] = senders]
  <2>0. /\ n \in Validators /\ m.round \in Rounds /\ m.round \in Nat /\ m.src \in Validators
        /\ rcs \in [Rounds -> SUBSET Validators]
    <3>1. n \in Validators /\ m.round \in Rounds /\ m.src \in Validators
      BY <1>8, ReceivableType DEF Honest
    <3>2. roundChangeSet[n] \in [Rounds -> SUBSET Validators]
      BY <3>1 DEF TypeOK
    <3>3. m.round \in Nat
      BY <3>1 DEF Rounds
    <3>. QED
      BY <3>1, <3>2, <3>3
  <2>1. UNCHANGED <<chainVars, delivered>>
    BY <1>8 DEF HandleRoundChange
  <2>2. \/ SendRoundChange(n, m.round, rcs)
        \/ NewSequence(n)
        \/ NewRound(n, m.round)
        \/ /\ roundChangeSet' = [roundChangeSet EXCEPT ![n] = rcs]
           /\ UNCHANGED <<current, state, waiting, proposer, msgs>>
    BY <1>8, Zenon DEF HandleRoundChange
  <2>3. CASE SendRoundChange(n, m.round, rcs)
    BY <2>0, <2>1, <2>3, SendRoundChangeType
  <2>4. CASE NewSequence(n)
    BY <2>0, <2>1, <2>4, NewSequenceType
  <2>5. CASE NewRound(n, m.round)
    BY <2>0, <2>1, <2>5, NewRoundType
  <2>6. CASE /\ roundChangeSet' = [roundChangeSet EXCEPT ![n] = rcs]
             /\ UNCHANGED <<current, state, waiting, proposer, msgs>>
    BY <2>0, <2>1, <2>6 DEF TypeOK, Behind, chainVars
  <2>. QED
    BY <2>2, <2>3, <2>4, <2>5, <2>6
<1>9. ASSUME NEW n \in Honest, HandleTimeout(n)
      PROVE  TypeOK' /\ Behind'
  <2>0. /\ n \in Validators /\ current[n].round + 1 \in Nat
        /\ roundChangeSet[n] \in [Rounds -> SUBSET Validators]
        /\ UNCHANGED <<chainVars, delivered>>
    BY <1>9 DEF Honest, TypeOK, RoundState, Rounds, HandleTimeout
  <2>1. \/ \E r \in Rounds : SendRoundChange(n, r, roundChangeSet[n])
        \/ NewSequence(n)
        \/ SendRoundChange(n, current[n].round + 1, roundChangeSet[n])
    BY <1>9 DEF HandleTimeout, SendNextRoundChange
  <2>2. Rounds \subseteq Nat
    BY DEF Rounds
  <2>. QED
    BY <2>0, <2>1, <2>2, SendRoundChangeType, NewSequenceType
<1>10. ASSUME NEW n \in Honest, HandleFinalCommitted(n) \/ Restart(n)
       PROVE  TypeOK' /\ Behind'
  BY <1>10, NewSequenceType DEF Honest, HandleFinalCommitted, Restart
<1>11. ASSUME NEW n \in Honest, NEW d \in delivered, InsertBlock(n, d)
       PROVE  TypeOK' /\ Behind'
  <2>0. n \in Validators /\ d.block \in Blocks /\ chain[n] \in Seq(Blocks)
    BY <1>11 DEF Honest, TypeOK
  <2>1. Append(chain[n], d.block) \in Seq(Blocks) /\ Len(Append(chain[n], d.block)) = Len(chain[n]) + 1
    BY <2>0
  <2>2. UNCHANGED <<current, state, waiting, proposer, roundChangeSet, delivered, msgs>>
    BY <1>11 DEF InsertBlock, coreVars
  <2>3. CASE d.block \in BadBlocks
    <3>1. UNCHANGED chain /\ badBlocks' = [badBlocks EXCEPT ![n] = @ \cup {d.block}]
      BY <2>3, <1>11 DEF InsertBlock
    <3>2. TypeOK'
      BY <2>0, <2>2, <2>3, <3>1 DEF TypeOK
    <3>. QED
      BY <2>2, <3>1, <3>2 DEF Behind
  <2>4. CASE d.block \notin BadBlocks
    <3>1. chain' = [chain EXCEPT ![n] = Append(chain[n], d.block)] /\ UNCHANGED badBlocks
      BY <2>4, <1>11 DEF InsertBlock
    <3>2. TypeOK'
      BY <2>0, <2>1, <2>2, <3>1 DEF TypeOK
    <3>3. \A k \in Validators : Len(chain[k]) <= Len(chain'[k])
      BY <2>0, <2>1, <3>1 DEF TypeOK
    <3>4. \A k \in Validators : Len(chain[k]) \in Nat /\ Len(chain'[k]) \in Nat /\ current[k].sequence \in Nat
      BY <3>2 DEF TypeOK, RoundState
    <3>. QED
      BY <2>2, <3>2, <3>3, <3>4 DEF Behind
  <2>. QED
    BY <2>3, <2>4
<1>. QED
  BY <1>1, <1>2, <1>3, <1>4, <1>5, <1>6, <1>7, <1>8, <1>9, <1>10, <1>11 DEF Next

\* In every reachable state each variable has its type, and no core is ahead
\* of its validator's chain by more than one block.
THEOREM TypeCorrect == Spec => [](TypeOK /\ Behind)
<1>1. Init => TypeOK /\ Behind
  <2>. SUFFICES ASSUME Init PROVE TypeOK /\ Behind
    OBVIOUS
  <2>1. NewRoundState(1, 0, None, None, None) \in RoundState /\ CalcProposer(None, 0) \in Validators
    <3>1. 1 \in Nat \ {0} /\ 0 \in Rounds
      BY BoundsAssumption DEF Rounds
    <3>2. NewRoundState(1, 0, None, None, None) \in RoundState
      BY <3>1, NewRoundStateType
    <3>3. CalcProposer(None, 0) \in Validators
      BY CalcProposerType
    <3>. QED
      BY <3>2, <3>3
  <2>2. TypeOK
    BY <2>1 DEF Init, TypeOK, AcceptRequest, Committed
  <2>. QED
    BY <2>2 DEF Init, Behind, NewRoundState
<1>2. TypeOK /\ Behind /\ [Next]_vars => (TypeOK /\ Behind)'
  BY TypeStep
<1>. QED
  BY <1>1, <1>2, PTL DEF Spec

-----------------------------------------------------------------------------
(* What the handlers do to locks, proposals and votes *)

\* The core of every validator but n is left alone.
OnlyCore(n) ==
  \A k \in Validators : k # n => current'[k] = current[k] /\ state'[k] = state[k]

\* What n has accepted, locked and counted stays as it was.
SameCore(n) ==
  /\ current'[n].sequence = current[n].sequence
  /\ current'[n].Preprepare = current[n].Preprepare
  /\ current'[n].lockedHash = current[n].lockedHash
  /\ current'[n].Commits = current[n].Commits
  /\ state'[n] = state[n]

\* Nothing is sent that could count as a COMMIT.
NoCommitSent ==
  /\ msgs \subseteq msgs'
  /\ \A m \in msgs' \ msgs :
       /\ m.code # "COMMIT"
       /\ m.code # "ROUNDCHANGE" => m.digest \in Blocks /\ m.digest.num = m.seq

\* n has no lock, or one that it may give up.
LockFree(n) == current[n].lockedHash \in BadBlocks \cup {None}

Idle(n) ==
  OnlyCore(n) /\ SameCore(n) /\ NoCommitSent /\ UNCHANGED <<chain, delivered>>

\* Validator n sends a COMMIT for block b at sequence s.
CommitSent(n, s, b, seal) ==
  \E m : /\ msgs' = msgs \cup {m}
         /\ m.code = "COMMIT" /\ m.src = n /\ m.seq = s /\ m.digest = b /\ m.seal = seal

\* The COMMIT for a block that is in n's chain.
Answer(n) ==
  /\ OnlyCore(n) /\ SameCore(n) /\ UNCHANGED <<chain, delivered>>
  /\ \E b \in Blocks : b \in Decided /\ CommitSent(n, b.num, b, current[n].Preprepare)

\* A proposal is accepted when there is no lock.
Accept(n) ==
  /\ OnlyCore(n) /\ NoCommitSent /\ UNCHANGED <<chain, delivered>>
  /\ LockFree(n) /\ state[n] = AcceptRequest /\ state'[n] # AcceptRequest
  /\ current'[n].sequence = current[n].sequence
  /\ current'[n].lockedHash = current[n].lockedHash
  /\ current'[n].Commits = current[n].Commits
  /\ current'[n].Preprepare \in Blocks
  /\ current'[n].Preprepare.num = current[n].sequence

\* A proposal is locked, and a sealed COMMIT sent for it.
Vote(n) ==
  /\ OnlyCore(n) /\ UNCHANGED <<chain, delivered>>
  /\ state'[n] # AcceptRequest
  /\ current'[n].sequence = current[n].sequence
  /\ current'[n].Commits = current[n].Commits
  /\ \E b \in Blocks :
       /\ b.num = current[n].sequence
       /\ current'[n].Preprepare = b /\ current'[n].lockedHash = b
       /\ current[n].Preprepare = b \/ state[n] = AcceptRequest
       /\ LockFree(n) \/ current[n].lockedHash = b
       /\ CommitSent(n, b.num, b, b)

\* Another round of the sequence.
Round(n) ==
  /\ OnlyCore(n) /\ NoCommitSent /\ UNCHANGED <<chain, delivered>>
  /\ \E r \in Rounds : current'[n] = KeepLock(n, r)

\* Another sequence, or the same one again after a restart.
Sequence(n) ==
  /\ OnlyCore(n) /\ UNCHANGED <<chain, delivered, msgs>>
  /\ current'[n] = NewRoundState(Len(chain[n]) + 1, 0, None, None, None)
  /\ n \in Correct => current[n].sequence < Len(chain[n]) + 1

\* A COMMIT for n's proposal is counted, and the proposal delivered if there
\* are enough of them.
Count(n) ==
  /\ OnlyCore(n) /\ UNCHANGED <<chain, msgs>>
  /\ state[n] # AcceptRequest /\ state'[n] # AcceptRequest
  /\ current'[n].sequence = current[n].sequence
  /\ current'[n].Preprepare = current[n].Preprepare
  /\ current[n].Preprepare \in Blocks
  /\ \E m \in Sent :
       /\ m.code = "COMMIT" /\ m.seq = current[n].sequence /\ m.digest = current[n].Preprepare
       /\ DOMAIN current'[n].Commits = DOMAIN current[n].Commits \cup {m.src}
  /\ \/ current'[n].lockedHash = current[n].lockedHash /\ UNCHANGED delivered
     \/ /\ current'[n].lockedHash = current[n].Preprepare
        /\ Cardinality(DOMAIN current'[n].Commits) > 2 * F
        /\ \E v \in BOOLEAN :
             delivered' = delivered \cup {[node |-> n, block |-> current[n].Preprepare, valid |-> v]}

\* n's chain grows by the next block, which is a delivered one.
Extended(n) ==
  \E b \in Decided : /\ b.num = Len(chain[n]) + 1
                     /\ chain' = [chain EXCEPT ![n] = Append(chain[n], b)]

\* A delivered block is appended to n's chain, or reported as bad.
Insert(n) ==
  /\ UNCHANGED <<current, state, delivered, msgs>>
  /\ UNCHANGED chain \/ Extended(n)

\* One of the things that a handler of validator n can do.
Effect(n) ==
  Idle(n) \/ Answer(n) \/ Accept(n) \/ Vote(n) \/ Round(n) \/ Sequence(n) \/ Count(n) \/ Insert(n)

\* What all effects have in common.
LEMMA EffectFrame ==
  ASSUME NEW n, Effect(n)
  PROVE  /\ OnlyCore(n)
         /\ NoCommitSent \/ UNCHANGED msgs \/ Answer(n) \/ Vote(n)
         /\ UNCHANGED delivered \/ Count(n)
         /\ UNCHANGED chain \/ (Extended(n) /\ UNCHANGED delivered)
<1>1. CASE Idle(n) \/ Accept(n) \/ Round(n)
  BY <1>1, Zenon DEF Idle, Accept, Round
<1>2. CASE Answer(n) \/ Vote(n)
  BY <1>2, Zenon DEF Answer, Vote
<1>3. CASE Sequence(n) \/ Count(n)
  BY <1>3, Zenon DEF Sequence, Count
<1>4. CASE Insert(n)
  BY <1>4, Zenon DEF Insert, OnlyCore
<1>. QED
  BY <1>1, <1>2, <1>3, <1>4, Zenon DEF Effect

\* A COMMIT that is broadcast is sent.
LEMMA BroadcastCommit ==
  ASSUME NEW n, NEW s, NEW r, NEW b, NEW seal,
         msgs' = msgs \cup {Msg("COMMIT", n, s, r, b, seal)}
  PROVE  CommitSent(n, s, b, seal)
<1>. DEFINE m == Msg("COMMIT", n, s, r, b, seal)
<1>1. m.code = "COMMIT" /\ m.src = n /\ m.seq = s /\ m.digest = b /\ m.seal = seal
  BY Zenon DEF Msg
<1>. HIDE DEF m
<1>. QED
  BY <1>1 DEF CommitSent, m

\* Nothing else is sent with it.
LEMMA NewCommit ==
  ASSUME NEW n, NEW s, NEW b, NEW seal, CommitSent(n, s, b, seal), NEW m \in msgs', m \notin msgs
  PROVE  m.code = "COMMIT" /\ m.src = n /\ m.seq = s /\ m.digest = b /\ m.seal = seal
BY DEF CommitSent

\* sendRoundChange is a Round.
LEMMA SendRoundChangeEffect ==
  ASSUME TypeOK, NEW n \in Validators, NEW r \in Nat, NEW rcs,
         SendRoundChange(n, r, rcs), UNCHANGED <<chain, delivered>>
  PROVE  Round(n)
<1>1. r \in Rounds
  BY DEF SendRoundChange, Rounds
<1>2. OnlyCore(n) /\ current'[n] = KeepLock(n, r)
  BY Zenon DEF SendRoundChange, OnlyCore, TypeOK
<1>3. NoCommitSent
  BY DEF SendRoundChange, NoCommitSent, Broadcast, Msg
<1>. QED
  BY <1>1, <1>2, <1>3, Zenon DEF Round

\* startNewRound on a higher round is a Round.
LEMMA NewRoundEffect ==
  ASSUME TypeOK, CoreShape, NEW n \in Validators, NEW r \in Rounds,
         NewRound(n, r), UNCHANGED <<chain, delivered>>
  PROVE  Round(n)
<1>. DEFINE cur == KeepLock(n, r)
            prop == CalcProposer(Author(n, cur.sequence - 1), r)
<1>1. OnlyCore(n) /\ current'[n] = cur
  BY DEF NewRound, OnlyCore, TypeOK
<1>2. cur \in RoundState
  BY KeepLockType, Zenon
<1>3. cur.lockedHash # None => cur.Preprepare \in Blocks
  <2>1. /\ cur.lockedHash # None =>
             cur.lockedHash = current[n].lockedHash /\ cur.Preprepare = current[n].Preprepare
    BY Zenon DEF KeepLock, NewRoundState
  <2>. QED
    BY <2>1, <1>2, Zenon DEF CoreShape, RoundState
<1>4. \A b \in Blocks : \A m \in PreprepareFor(n, cur, prop, b) :
        m.code = "PREPREPARE" /\ m.digest = b /\ b.num = m.seq
  BY DEF PreprepareFor, Msg
<1>5. msgs' = msgs \/ \E b \in Blocks : msgs' = msgs \cup PreprepareFor(n, cur, prop, b)
  <2>1. CASE cur.lockedHash # None
    BY <2>1, <1>3, Zenon DEF NewRound, Broadcast
  <2>2. CASE cur.lockedHash = None /\ cur.pendingRequest # None
    BY <2>2, <1>2, Zenon DEF NewRound, Broadcast, RoundState
  <2>3. CASE cur.lockedHash = None /\ cur.pendingRequest = None
    <3>1. msgs' = msgs \cup {}
      BY <2>3, Zenon DEF NewRound, Broadcast
    <3>. QED
      BY <3>1, Zenon
  <2>. QED
    BY <2>1, <2>2, <2>3, Zenon
<1>6. NoCommitSent
  BY <1>4, <1>5, Zenon DEF NoCommitSent
<1>. QED
  BY <1>1, <1>6, Zenon DEF Round

\* startNewRound on the next sequence is a Sequence.
LEMMA NewSequenceEffect ==
  ASSUME TypeOK, NEW n \in Validators, NewSequence(n), UNCHANGED <<chain, delivered>>,
         n \in Correct => Len(chain[n]) >= current[n].sequence
  PROVE  Sequence(n)
<1>1. OnlyCore(n) /\ UNCHANGED msgs
      /\ current'[n] = NewRoundState(Len(chain[n]) + 1, 0, None, None, None)
  BY Zenon DEF NewSequence, OnlyCore, TypeOK
<1>2. n \in Correct => current[n].sequence < Len(chain[n]) + 1
  BY DEF TypeOK, RoundState
<1>. QED
  BY <1>1, <1>2, Zenon DEF Sequence

\* Every step does one of these things.
LEMMA StepEffect ==
  ASSUME TypeOK, TypeOK', AgreementInv, Next
  PROVE  \E n \in Honest : Effect(n)
<1>0. ASSUME NEW n \in Honest, NEW c, NEW m \in Receivable(n, c)
      PROVE  /\ n \in Validators /\ current[n] \in RoundState
             /\ m \in Sent /\ m.code = c /\ m.src \in Validators /\ m.seq \in Nat /\ m.round \in Rounds
             /\ c # "ROUNDCHANGE" => m.digest \in Blocks /\ m.digest.num = m.seq
  BY <1>0, ReceivableType DEF Honest, TypeOK, AgreementInv, MsgShape
<1>2. ASSUME NEW n \in Honest, NEW b \in Blocks, HandleRequest(n, b)
      PROVE  Idle(n)
  <2>0. n \in Validators /\ current[n] \in RoundState
    BY <1>2, Zenon DEF Honest, TypeOK
  <2>1. OnlyCore(n) /\ SameCore(n)
    BY <2>0, <1>2 DEF HandleRequest, OnlyCore, SameCore, TypeOK, RoundState
  <2>2. \A m \in PreprepareFor(n, current[n], proposer[n], b) :
          m.code = "PREPREPARE" /\ m.digest = b /\ b.num = m.seq
    BY DEF PreprepareFor, Msg
  <2>3. NoCommitSent
    BY <2>2, <1>2, Zenon DEF HandleRequest, NoCommitSent, Broadcast
  <2>. QED
    BY <2>1, <2>3, <1>2 DEF Idle, HandleRequest, chainVars
<1>3. ASSUME NEW n \in Honest, NEW m \in Receivable(n, "PREPREPARE"), HandleOldPreprepare(n, m)
      PROVE  Answer(n)
  <2>0. /\ n \in Validators /\ current[n] \in RoundState /\ m.seq \in Nat /\ m.round \in Rounds
        /\ m.digest \in Blocks /\ m.digest.num = m.seq
    BY <1>0
  <2>1. OnlyCore(n) /\ SameCore(n) /\ UNCHANGED <<chain, delivered>>
    BY <1>3, Zenon DEF HandleOldPreprepare, OnlyCore, SameCore, coreVars, chainVars
  <2>2. m.digest \in Decided
    <3>1. m.seq # 0
      BY <2>0, BlocksAssumption, Zenon
    <3>2. Len(chain[n]) \in Nat
      BY <2>0 DEF TypeOK
    <3>3. m.seq \in 1 .. Len(chain[n]) /\ chain[n][m.seq] = m.digest
      BY <2>0, <3>1, <3>2, <1>3 DEF HandleOldPreprepare
    <3>. QED
      BY <2>0, <3>3, Zenon DEF AgreementInv, ChainDecided
  <2>3. CommitSent(n, m.digest.num, m.digest, current[n].Preprepare)
    BY <2>0, <1>3, BroadcastCommit DEF HandleOldPreprepare, Broadcast
  <2>. QED
    BY <2>0, <2>1, <2>2, <2>3 DEF Answer
<1>4. ASSUME NEW n \in Honest, NEW m \in Receivable(n, "PREPREPARE"), AcceptPreprepare(n, m)
      PROVE  Accept(n)
  <2>0. /\ n \in Validators /\ current[n] \in RoundState
        /\ m.digest \in Blocks /\ m.digest.num = m.seq /\ m.code = "PREPREPARE"
    BY <1>0
  <2>1. m.seq = current[n].sequence /\ state[n] = AcceptRequest
    BY <2>0, <1>4 DEF AcceptPreprepare, IsCurrent
  <2>2. current' = [current EXCEPT ![n] = [current[n] EXCEPT !.Preprepare = m.digest]]
    BY <1>4 DEF AcceptPreprepare
  <2>3. /\ OnlyCore(n)
        /\ current'[n].sequence = current[n].sequence
        /\ current'[n].lockedHash = current[n].lockedHash
        /\ current'[n].Commits = current[n].Commits
        /\ current'[n].Preprepare = m.digest
        /\ state'[n] # AcceptRequest
    BY <2>0, <2>2, <1>4
       DEF AcceptPreprepare, OnlyCore, TypeOK, RoundState, AcceptRequest, Preprepared
  <2>4. LockFree(n)
    BY <2>0, <1>4 DEF AcceptPreprepare, IsHashLocked, LockFree, TypeOK
  <2>5. NoCommitSent
    BY <2>0, <2>1, <1>4 DEF AcceptPreprepare, NoCommitSent, Broadcast, PrepareFor, Msg
  <2>. QED
    BY <2>0, <2>1, <2>3, <2>4, <2>5, <1>4, Zenon DEF Accept, AcceptPreprepare, chainVars
<1>5. ASSUME NEW n \in Honest, NEW m \in Receivable(n, "PREPREPARE"), AcceptLockedPreprepare(n, m)
      PROVE  Vote(n)
  <2>0. /\ n \in Validators /\ current[n] \in RoundState
        /\ m.digest \in Blocks /\ m.digest.num = m.seq /\ m.code = "PREPREPARE"
    BY <1>0
  <2>1. /\ m.seq = current[n].sequence /\ state[n] = AcceptRequest
        /\ current[n].lockedHash = m.digest
    BY <2>0, <1>5 DEF AcceptLockedPreprepare, IsCurrent
  <2>2. current' = [current EXCEPT ![n] = [current[n] EXCEPT !.Preprepare = m.digest]]
    BY <1>5 DEF AcceptLockedPreprepare
  <2>3. /\ OnlyCore(n)
        /\ current'[n].sequence = current[n].sequence
        /\ current'[n].lockedHash = current[n].lockedHash
        /\ current'[n].Commits = current[n].Commits
        /\ current'[n].Preprepare = m.digest
        /\ state'[n] # AcceptRequest
    BY <2>0, <2>2, <1>5
       DEF AcceptLockedPreprepare, OnlyCore, TypeOK, RoundState, AcceptRequest, Prepared
  <2>4. CommitSent(n, m.digest.num, m.digest, m.digest)
    BY <2>0, <2>1, <1>5, BroadcastCommit, Zenon DEF AcceptLockedPreprepare, Broadcast, CommitFor
  <2>. QED
    BY <2>0, <2>1, <2>3, <2>4, <1>5 DEF Vote, AcceptLockedPreprepare, chainVars
<1>6. ASSUME NEW n \in Honest, NEW m \in Receivable(n, "PREPREPARE"), RejectPreprepare(n, m)
      PROVE  Round(n)
  <2>0. n \in Validators /\ current[n].round + 1 \in Nat
    BY <1>6 DEF Honest, TypeOK, RoundState, Rounds
  <2>. QED
    BY <2>0, <1>6, SendRoundChangeEffect, Zenon DEF RejectPreprepare, SendNextRoundChange, chainVars
<1>7. ASSUME NEW n \in Honest, NEW m \in Receivable(n, "PREPARE"), HandlePrepare(n, m)
      PROVE  Vote(n) \/ Idle(n)
  <2>. DEFINE cur == [current[n] EXCEPT !.Prepares = @ \cup {m.src}]
              new == [cur EXCEPT !.lockedHash = cur.Preprepare]
              b == current[n].Preprepare
  <2>0. n \in Validators /\ current[n] \in RoundState /\ m.seq \in Nat /\ m.code = "PREPARE"
    BY <1>0
  <2>1. /\ cur.Preprepare = b /\ cur.sequence = current[n].sequence
        /\ cur.lockedHash = current[n].lockedHash /\ cur.Commits = current[n].Commits
        /\ new.Preprepare = b /\ new.sequence = current[n].sequence
        /\ new.lockedHash = b /\ new.Commits = current[n].Commits
    BY <2>0 DEF RoundState
  <2>2. UNCHANGED <<chain, delivered>>
    BY <1>7 DEF HandlePrepare, chainVars
  <2>3. b \in Blocks /\ b.num = current[n].sequence /\ state[n] # AcceptRequest
    BY <2>0, <1>7, Zenon DEF HandlePrepare, IsCurrent, RoundState, AgreementInv, CoreShape
  <2>4. LockFree(n) \/ current[n].lockedHash = b
    BY <2>0, Zenon DEF LockFree, AgreementInv, CoreShape
  <2>5. \/ /\ current' = [current EXCEPT ![n] = new]
           /\ state' = [state EXCEPT ![n] = Prepared]
           /\ msgs' = msgs \cup {CommitFor(n, cur.Preprepare)}
        \/ /\ current' = [current EXCEPT ![n] = cur]
           /\ UNCHANGED <<state, msgs>>
    BY <1>7, Zenon DEF HandlePrepare, Broadcast
  <2>. HIDE DEF cur, new
  <2>6. CASE /\ current' = [current EXCEPT ![n] = new]
             /\ state' = [state EXCEPT ![n] = Prepared]
             /\ msgs' = msgs \cup {CommitFor(n, cur.Preprepare)}
    <3>1. /\ OnlyCore(n) /\ current'[n] = new /\ state'[n] # AcceptRequest
      BY <2>0, <2>6 DEF OnlyCore, TypeOK, AcceptRequest, Prepared
    <3>2. CommitSent(n, b.num, b, b)
      BY <2>1, <2>3, <2>6, BroadcastCommit, Zenon DEF CommitFor
    <3>. QED
      BY <2>1, <2>2, <2>3, <2>4, <3>1, <3>2, Zenon DEF Vote
  <2>7. CASE /\ current' = [current EXCEPT ![n] = cur]
             /\ UNCHANGED <<state, msgs>>
    <3>1. OnlyCore(n) /\ current'[n] = cur /\ state'[n] = state[n]
      BY <2>0, <2>7 DEF OnlyCore, TypeOK
    <3>. QED
      BY <2>1, <2>2, <2>7, <3>1 DEF Idle, SameCore, NoCommitSent
  <2>. QED
    BY <2>5, <2>6, <2>7
<1>8. ASSUME NEW n \in Honest, NEW m \in Receivable(n, "COMMIT"), HandleCommit(n, m)
      PROVE  Count(n)
  <2>. DEFINE cur == [current[n] EXCEPT !.Commits = AddCommit(@, m.src, m.seal)]
              new == [cur EXCEPT !.lockedHash = cur.Preprepare]
              valid == \A v \in DOMAIN cur.Commits : cur.Commits[v] = cur.Preprepare
              b == current[n].Preprepare
  <2>0. /\ n \in Validators /\ current[n] \in RoundState /\ m \in Sent
        /\ m.seq \in Nat /\ m.code = "COMMIT" /\ m.src \in Validators
    BY <1>0
  <2>1. /\ cur.Preprepare = b /\ cur.sequence = current[n].sequence
        /\ cur.lockedHash = current[n].lockedHash
        /\ DOMAIN cur.Commits = DOMAIN current[n].Commits \cup {m.src}
        /\ new.Preprepare = b /\ new.sequence = current[n].sequence
        /\ new.lockedHash = b /\ new.Commits = cur.Commits
    BY <2>0 DEF RoundState, AddCommit
  <2>2. UNCHANGED <<chain, msgs>>
    BY <1>8 DEF HandleCommit, chainVars
  <2>3. /\ b \in Blocks /\ m.seq = current[n].sequence /\ m.digest = b
        /\ state[n] # AcceptRequest
    BY <2>0, <1>8 DEF HandleCommit, IsCurrent, RoundState
  <2>4. \/ /\ Cardinality(DOMAIN cur.Commits) > 2 * F
           /\ current' = [current EXCEPT ![n] = new]
           /\ state' = [state EXCEPT ![n] = Committed]
           /\ delivered' = delivered \cup {[node |-> n, block |-> cur.Preprepare, valid |-> valid]}
        \/ /\ current' = [current EXCEPT ![n] = cur]
           /\ UNCHANGED <<state, delivered>>
    BY <1>8, Zenon DEF HandleCommit
  <2>5. valid \in BOOLEAN
    OBVIOUS
  <2>. HIDE DEF cur, new, valid
  <2>6. CASE /\ Cardinality(DOMAIN cur.Commits) > 2 * F
             /\ current' = [current EXCEPT ![n] = new]
             /\ state' = [state EXCEPT ![n] = Committed]
             /\ delivered' = delivered \cup {[node |-> n, block |-> cur.Preprepare, valid |-> valid]}
    <3>1. OnlyCore(n) /\ current'[n] = new /\ state'[n] # AcceptRequest
      BY <2>0, <2>6, SMTT(30) DEF OnlyCore, TypeOK, AcceptRequest, Committed
    <3>2. \E v \in BOOLEAN :
            delivered' = delivered \cup {[node |-> n, block |-> current[n].Preprepare, valid |-> v]}
      BY <2>1, <2>5, <2>6, Zenon
    <3>. QED
      BY <2>0, <2>1, <2>2, <2>3, <2>6, <3>1, <3>2, ZenonT(30) DEF Count
  <2>7. CASE /\ current' = [current EXCEPT ![n] = cur]
             /\ UNCHANGED <<state, delivered>>
    <3>1. OnlyCore(n) /\ current'[n] = cur /\ state'[n] # AcceptRequest
      BY <2>0, <2>3, <2>7, ZenonT(30) DEF OnlyCore, TypeOK
    <3>. QED
      BY <2>0, <2>1, <2>2, <2>3, <2>7, <3>1, Zenon DEF Count
  <2>. QED
    BY <2>4, <2>6, <2>7, Zenon
<1>9. ASSUME NEW n \in Honest, NEW m \in Receivable(n, "ROUNDCHANGE"), HandleRoundChange(n, m)
      PROVE  Round(n) \/ Sequence(n) \/ Idle(n)
  <2>. DEFINE senders == roundChangeSet[n][m.round] \cup {m.src}
              rcs == [roundChangeSet[n] EXCEPT ![m.round] = senders]
  <2>0. n \in Validators /\ m.round \in Rounds /\ m.round \in Nat
    BY <1>0 DEF Rounds
  <2>1. UNCHANGED <<chain, delivered>>
    BY <1>9 DEF HandleRoundChange, chainVars
  <2>2. \/ SendRoundChange(n, m.round, rcs)
        \/ NewSequence(n) /\ Len(chain[n]) >= current[n].sequence
        \/ NewRound(n, m.round)
        \/ UNCHANGED <<current, state, msgs>>
    BY <1>9, Zenon DEF HandleRoundChange
  <2>3. CASE SendRoundChange(n, m.round, rcs)
    BY <2>0, <2>1, <2>3, SendRoundChangeEffect, Zenon
  <2>4. CASE NewSequence(n) /\ Len(chain[n]) >= current[n].sequence
    BY <2>0, <2>1, <2>4, NewSequenceEffect
  <2>5. CASE NewRound(n, m.round)
    BY <2>0, <2>1, <2>5, NewRoundEffect, Zenon DEF AgreementInv
  <2>6. CASE UNCHANGED <<current, state, msgs>>
    BY <2>1, <2>6, Zenon DEF Idle, OnlyCore, SameCore, NoCommitSent
  <2>. QED
    BY <2>2, <2>3, <2>4, <2>5, <2>6
<1>10. ASSUME NEW n \in Honest, HandleTimeout(n)
       PROVE  Round(n) \/ Sequence(n)
  <2>0. /\ n \in Validators /\ current[n].round + 1 \in Nat
        /\ UNCHANGED <<chain, delivered>>
    <3>1. n \in Validators /\ current[n].round \in Nat
      BY DEF Honest, TypeOK, RoundState, Rounds
    <3>2. UNCHANGED <<chain, delivered>>
      BY <1>10, Zenon DEF HandleTimeout, chainVars
    <3>. QED
      BY <3>1, <3>2
  <2>1. \/ \E r \in Rounds : SendRoundChange(n, r, roundChangeSet[n])
        \/ NewSequence(n) /\ Len(chain[n]) >= current[n].sequence
        \/ SendRoundChange(n, current[n].round + 1, roundChangeSet[n])
    BY <1>10 DEF HandleTimeout, SendNextRoundChange
  <2>2. Rounds \subseteq Nat
    BY DEF Rounds
  <2>. QED
    BY <2>0, <2>1, <2>2, SendRoundChangeEffect, NewSequenceEffect, Zenon
<1>11. ASSUME NEW n \in Honest, HandleFinalCommitted(n) \/ Restart(n)
       PROVE  Sequence(n)
  <2>1. n \in Correct => Len(chain[n]) >= current[n].sequence
    BY <1>11, Zenon DEF HandleFinalCommitted, Restart, Correct
  <2>. QED
    BY <2>1, <1>11, NewSequenceEffect DEF Honest, HandleFinalCommitted, Restart, chainVars
<1>12. ASSUME NEW n \in Honest, NEW d \in delivered, InsertBlock(n, d)
       PROVE  Insert(n)
  <2>1. d.block \notin BadBlocks => d.block \in Decided
    BY DEF Decided
  <2>. QED
    BY <2>1, <1>12, Zenon DEF Insert, Extended, InsertBlock, coreVars
<1>. QED
  BY <1>2, <1>3, <1>4, <1>5, <1>6, <1>7, <1>8, <1>9, <1>10, <1>11, <1>12, Zenon DEF Next, Effect

-----------------------------------------------------------------------------
(* A pledge is for good *)

\* Steps that send no COMMIT create no seal.
LEMMA NoNewSeals ==
  ASSUME NoCommitSent \/ UNCHANGED msgs, NEW p
  PROVE  SealedCommits(p)' = SealedCommits(p)
BY Zenon DEF NoCommitSent, SealedCommits

\* A COMMIT of validator n creates no seal of another one.
LEMMA OthersSeals ==
  ASSUME NEW n, NEW p, n # p, NEW s, NEW b, NEW seal, CommitSent(n, s, b, seal)
  PROVE  SealedCommits(p)' = SealedCommits(p)
BY DEF SealedCommits, CommitSent

\* No step takes messages or deliveries back.
LEMMA Monotone ==
  ASSUME NEW n, Effect(n)
  PROVE  msgs \subseteq msgs' /\ delivered \subseteq delivered' /\ Decided \subseteq Decided'
<1>1. msgs \subseteq msgs' /\ delivered \subseteq delivered'
  BY EffectFrame, Zenon DEF NoCommitSent, CommitSent, Answer, Vote, Count
<1>. QED
  BY <1>1, Zenon DEF Decided

\* A correct validator that is bound to a block stays bound to it whatever
\* it or another validator does.
LEMMA PledgeStable ==
  ASSUME TypeOK, TypeOK', AgreementInv, NEW n \in Honest, Effect(n),
         NEW p \in Correct, NEW b \in Blocks \ BadBlocks, Pledged(p, b)
  PROVE  Pledged(p, b)'
<1>0. /\ n \in Validators /\ p \in Validators /\ b.num \in Nat
      /\ current[p] \in RoundState /\ current'[p] \in RoundState
  BY BlocksAssumption, Zenon DEF Honest, Correct, TypeOK
<1>1. /\ \E m \in SealedCommits(p) : m.digest = b
      /\ \A m \in SealedCommits(p) : m.seq = b.num => m.digest = b
      /\ b.num = current[p].sequence => current[p].lockedHash = b
      /\ b.num <= current[p].sequence
  BY Zenon DEF Pledged
<1>2. b.num = current[p].sequence => current[p].Preprepare = b
  BY <1>0, <1>1, BlocksAssumption, Zenon DEF AgreementInv, CoreShape
<1>3. \E m \in SealedCommits(p)' : m.digest = b
  BY <1>1, Monotone, Zenon DEF SealedCommits
<1>4. CASE p # n
  <2>1. current'[p] = current[p]
    BY <1>0, <1>4, EffectFrame DEF OnlyCore
  <2>2. SealedCommits(p)' = SealedCommits(p)
    <3>1. CASE NoCommitSent \/ UNCHANGED msgs
      BY <3>1, NoNewSeals
    <3>2. CASE Answer(n)
      BY <3>2, <1>4, OthersSeals, ZenonT(30) DEF Answer
    <3>3. CASE Vote(n)
      BY <3>3, <1>4, OthersSeals DEF Vote
    <3>. QED
      BY <3>1, <3>2, <3>3, EffectFrame
  <2>. QED
    BY <1>1, <2>1, <2>2, Zenon DEF Pledged
<1>5. CASE p = n
  <2>1. CASE Idle(n) \/ Accept(n) \/ Count(n) \/ Insert(n)
    <3>1. SealedCommits(p)' = SealedCommits(p)
      BY <2>1, NoNewSeals, Zenon DEF Idle, Accept, Count, Insert
    <3>2. current'[p].sequence = current[p].sequence
      BY <2>1, <1>5, Zenon DEF Idle, SameCore, Accept, Count, Insert
    <3>3. b.num = current[p].sequence => current'[p].lockedHash = b
      BY <2>1, <1>1, <1>2, <1>5, Zenon DEF Idle, SameCore, Accept, Count, Insert
    <3>. QED
      BY <1>1, <3>1, <3>2, <3>3 DEF Pledged
  <2>2. CASE Answer(n)
    <3>1. PICK c \in Blocks : CommitSent(n, c.num, c, current[n].Preprepare)
      BY <2>2 DEF Answer
    <3>2. ASSUME NEW m \in SealedCommits(p)', m.seq = b.num
          PROVE  m.digest = b
      <4>1. CASE m \in SealedCommits(p)
        BY <4>1, <3>2, <1>1, Zenon
      <4>2. CASE m \notin SealedCommits(p)
        <5>1. m \in msgs' /\ m \notin msgs /\ m.seal = m.digest
          BY <4>2, <3>2, Zenon DEF SealedCommits
        <5>2. c = current[n].Preprepare /\ m.digest = c /\ b.num = c.num
          BY <5>1, <3>1, <3>2, NewCommit, SMTT(30)
        <5>3. c.num = current[n].sequence
          BY <5>2, <1>0, BlocksAssumption, Zenon DEF AgreementInv, CoreShape
        <5>. QED
          BY <5>2, <5>3, <1>2, <1>5, Zenon
      <4>. QED
        BY <4>1, <4>2, Zenon
    <3>3. /\ current'[p].sequence = current[p].sequence
          /\ current'[p].lockedHash = current[p].lockedHash
      BY <2>2, <1>5, Zenon DEF Answer, SameCore
    <3>. QED
      BY <1>1, <1>3, <3>2, <3>3 DEF Pledged
  <2>3. CASE Vote(n)
    <3>1. PICK c \in Blocks :
            /\ c.num = current[n].sequence /\ current'[n].lockedHash = c
            /\ LockFree(n) \/ current[n].lockedHash = c
            /\ CommitSent(n, c.num, c, c)
      BY <2>3, Zenon DEF Vote
    <3>2. b.num = current[n].sequence => c = b
      BY <1>1, <1>5, <3>1, BlocksAssumption, Zenon DEF LockFree
    <3>3. ASSUME NEW m \in SealedCommits(p)', m.seq = b.num
          PROVE  m.digest = b
      <4>1. m \in SealedCommits(p) \/ (m.seq = current[n].sequence /\ m.digest = c)
        BY <3>1, <3>3, NewCommit, SMTT(30) DEF SealedCommits
      <4>. QED
        BY <4>1, <3>2, <3>3, <1>1, Zenon
    <3>4. current'[p].sequence = current[p].sequence
      BY <2>3, <1>5, Zenon DEF Vote
    <3>5. b.num = current'[p].sequence => current'[p].lockedHash = b
      BY <1>5, <3>1, <3>2, <3>4, Zenon
    <3>6. b.num <= current'[p].sequence
      BY <1>1, <3>4, Zenon
    <3>7. \A m \in SealedCommits(p)' : m.seq = b.num => m.digest = b
      BY <3>3, Zenon
    <3>. QED
      BY <1>3, <3>5, <3>6, <3>7, Zenon DEF Pledged
  <2>4. CASE Round(n)
    <3>1. SealedCommits(p)' = SealedCommits(p)
      BY <2>4, NoNewSeals, Zenon DEF Round
    <3>2. PICK r \in Rounds : current'[n] = KeepLock(n, r)
      BY <2>4, ZenonT(30) DEF Round
    <3>3. current'[p].sequence = current[p].sequence
      BY <1>5, <3>2 DEF KeepLock, NewRoundState
    <3>4. b.num = current[p].sequence => IsHashLocked(p)
      BY <1>0, <1>1, BlocksAssumption, ZenonT(30) DEF IsHashLocked, TypeOK
    <3>5. b.num = current[p].sequence => current'[p].lockedHash = b
      BY <1>1, <1>5, <3>2, <3>4, SMTT(30) DEF KeepLock, NewRoundState
    <3>. QED
      BY <1>1, <3>1, <3>3, <3>5 DEF Pledged
  <2>5. CASE Sequence(n)
    <3>1. SealedCommits(p)' = SealedCommits(p)
      BY <2>5, NoNewSeals, Zenon DEF Sequence
    <3>2. current'[p].sequence > current[p].sequence
      <4>1. current'[n].sequence = Len(chain[n]) + 1 /\ current[n].sequence < Len(chain[n]) + 1
        <5>1. current'[n] = NewRoundState(Len(chain[n]) + 1, 0, None, None, None)
          BY <2>5, Zenon DEF Sequence
        <5>2. current[n].sequence < Len(chain[n]) + 1
          BY <2>5, <1>5, Zenon DEF Sequence
        <5>3. \A s : NewRoundState(s, 0, None, None, None).sequence = s
          BY Zenon DEF NewRoundState
        <5>. QED
          BY <5>1, <5>2, <5>3, Zenon
      <4>2. Len(chain[n]) \in Nat /\ current[n].sequence \in Nat
        <5>1. Len(chain[n]) \in Nat
          BY <1>0, <1>5 DEF TypeOK
        <5>2. current[n].sequence \in Nat
          BY <1>0, <1>5, Zenon DEF TypeOK, RoundState
        <5>. QED
          BY <5>1, <5>2, Zenon
      <4>. QED
        BY <4>1, <4>2, <1>5, Zenon
    <3>3. b.num <= current'[p].sequence /\ b.num # current'[p].sequence
      BY <1>0, <1>1, <3>2 DEF RoundState
    <3>. QED
      BY <1>1, <3>1, <3>3, Zenon DEF Pledged
  <2>. QED
    BY <2>1, <2>2, <2>3, <2>4, <2>5, ZenonT(30) DEF Effect
<1>. QED
  BY <1>4, <1>5, Zenon

-----------------------------------------------------------------------------
(* The conjuncts of the inductive invariant *)

\* Every message sent names a block of its sequence number.
LEMMA MsgShapeStep ==
  ASSUME TypeOK, AgreementInv, NEW n \in Honest, Effect(n)
  PROVE  MsgShape'
<1>1. \A m \in msgs' \ msgs : m.code # "ROUNDCHANGE" => m.digest \in Blocks /\ m.digest.num = m.seq
  <2>1. CASE NoCommitSent \/ UNCHANGED msgs
    BY <2>1, Zenon DEF NoCommitSent
  <2>2. CASE Answer(n)
    <3>1. PICK b \in Blocks : b \in Decided /\ CommitSent(n, b.num, b, current[n].Preprepare)
      BY <2>2, Zenon DEF Answer
    <3>. QED
      BY <3>1, NewCommit
  <2>3. CASE Vote(n)
    <3>1. PICK b \in Blocks : CommitSent(n, b.num, b, b)
      BY <2>3, Zenon DEF Vote
    <3>. QED
      BY <3>1, NewCommit
  <2>. QED
    BY <2>1, <2>2, <2>3, EffectFrame, Zenon
<1>. QED
  BY <1>1, Zenon DEF MsgShape, Sent, AgreementInv

\* A lock comes with its proposal, which is of the sequence.
Good(cur, st) ==
  /\ cur.lockedHash # None => cur.Preprepare # None
  /\ cur.lockedHash \notin BadBlocks \cup {None} => cur.Preprepare = cur.lockedHash
  /\ cur.Preprepare # None => cur.Preprepare.num = cur.sequence
  /\ st = AcceptRequest => DOMAIN cur.Commits = {}

\* v has sent a COMMIT for block b at sequence s.
Committer(v, s, b) ==
  \E m \in Sent : m.code = "COMMIT" /\ m.src = v /\ m.seq = s /\ m.digest = b

\* The COMMITs that are counted are for the proposal.
Counted(cur) == \A v \in DOMAIN cur.Commits : Committer(v, cur.sequence, cur.Preprepare)

\* A lock keeps its proposal, and counted COMMITs are for the proposal.
LEMMA CoreShapeStep ==
  ASSUME TypeOK, TypeOK', AgreementInv, NEW n \in Honest, Effect(n)
  PROVE  CoreShape'
<1>0. n \in Validators /\ current[n] \in RoundState /\ current'[n] \in RoundState
  BY Zenon DEF Honest, TypeOK
<1>1. \A k \in Validators : Good(current[k], state[k]) /\ Counted(current[k])
  BY ZenonT(30) DEF AgreementInv, CoreShape, Good, Counted, Committer
<1>2. Sent \subseteq Sent'
  BY Monotone, Zenon DEF Sent
<1>3. ASSUME NEW k \in Validators, k # n
      PROVE  current'[k] = current[k] /\ state'[k] = state[k]
  BY <1>3, EffectFrame, SMTT(30) DEF OnlyCore
<1>4. Good(current'[n], state'[n]) /\ Counted(current'[n])
  <2>1. CASE Idle(n) \/ Answer(n) \/ Insert(n)
    <3>1. SameCore(n)
      BY <2>1, Zenon DEF Idle, Answer, Insert, SameCore
    <3>. QED
      BY <1>0, <1>1, <3>1, Zenon DEF SameCore, Good, Counted
  <2>2. CASE Accept(n)
    BY <1>0, <1>1, <2>2, BlocksAssumption, Zenon DEF Accept, LockFree, Good, Counted
  <2>3. CASE Vote(n)
    BY <1>0, <1>1, <2>3, BlocksAssumption, Zenon DEF Vote, Good, Counted
  <2>4. CASE Round(n)
    <3>1. DOMAIN current'[n].Commits = {}
      BY <2>4, EmptyCommitMap, SMTT(30) DEF Round, KeepLock, NewRoundState
    <3>2. /\ current'[n].sequence = current[n].sequence
          /\ \/ current'[n].lockedHash = None /\ current'[n].Preprepare = None
             \/ /\ current'[n].lockedHash = current[n].lockedHash
                /\ current'[n].Preprepare = current[n].Preprepare
      BY <2>4 DEF Round, KeepLock, NewRoundState
    <3>. QED
      BY <1>0, <1>1, <3>1, <3>2, Zenon DEF Good, Counted
  <2>5. CASE Sequence(n)
    BY <2>5, EmptyCommitMap DEF Sequence, NewRoundState, Good, Counted
  <2>6. CASE Count(n)
    <3>1. Good(current'[n], state'[n])
      BY <1>0, <1>1, <2>6, BlocksAssumption, Zenon DEF Count, Good
    <3>2. PICK m \in Sent :
            /\ m.code = "COMMIT" /\ m.seq = current[n].sequence /\ m.digest = current[n].Preprepare
            /\ DOMAIN current'[n].Commits = DOMAIN current[n].Commits \cup {m.src}
      BY <2>6, Zenon DEF Count
    <3>3. Committer(m.src, current[n].sequence, current[n].Preprepare)
      BY <3>2, Zenon DEF Committer
    <3>4. current'[n].sequence = current[n].sequence /\ current'[n].Preprepare = current[n].Preprepare
      BY <2>6, Zenon DEF Count
    <3>5. Counted(current'[n])
      BY <1>0, <1>1, <3>2, <3>3, <3>4, Zenon DEF Counted
    <3>. QED
      BY <3>1, <3>5, Zenon
  <2>. QED
    BY <2>1, <2>2, <2>3, <2>4, <2>5, <2>6, Zenon DEF Effect
<1>5. ASSUME NEW k \in Validators
      PROVE  Good(current'[k], state'[k]) /\ Counted(current'[k])
  BY <1>1, <1>3, <1>4, Zenon
<1>. QED
  BY <1>2, <1>5 DEF CoreShape, Good, Counted, Committer

\* Chains only take delivered blocks, each at its number.
LEMMA ChainDecidedStep ==
  ASSUME TypeOK, TypeOK', AgreementInv, NEW n \in Honest, Effect(n)
  PROVE  ChainDecided'
<1>1. Decided \subseteq Decided'
  BY Monotone, Zenon
<1>2. CASE UNCHANGED chain
  BY <1>1, <1>2, Zenon DEF AgreementInv, ChainDecided
<1>3. CASE Extended(n)
  <2>0. n \in Validators /\ chain[n] \in Seq(Blocks) /\ chain \in [Validators -> Seq(Blocks)]
    BY DEF Honest, TypeOK
  <2>1. PICK b \in Decided : /\ b.num = Len(chain[n]) + 1
                             /\ chain' = [chain EXCEPT ![n] = Append(chain[n], b)]
    BY <1>3, Zenon DEF Extended
  <2>2. b \in Blocks
    BY DEF Decided, TypeOK
  <2>. SUFFICES ASSUME NEW k \in Validators, NEW i \in 1 .. Len(chain'[k])
                PROVE  chain'[k][i] \in Decided /\ chain'[k][i].num = i
    BY <1>1, Zenon DEF ChainDecided
  <2>3. CASE k # n
    BY <2>0, <2>1, <2>3, Zenon DEF AgreementInv, ChainDecided
  <2>4. CASE k = n
    <3>1. chain'[k] = Append(chain[n], b)
      BY <2>0, <2>1, <2>4, Zenon
    <3>2. CASE i = Len(chain[n]) + 1
      BY <2>0, <2>1, <2>2, <3>1, <3>2
    <3>3. CASE i # Len(chain[n]) + 1
      <4>1. i \in 1 .. Len(chain[n]) /\ chain'[k][i] = chain[n][i]
        BY <2>0, <2>2, <3>1, <3>3
      <4>. QED
        BY <2>0, <4>1, Zenon DEF AgreementInv, ChainDecided
    <3>. QED
      BY <3>2, <3>3
  <2>. QED
    BY <2>3, <2>4, Zenon
<1>. QED
  BY <1>2, <1>3, EffectFrame, Zenon

\* Only the answer to an old PRE-PREPARE sends a COMMIT without a seal on it.
LEMMA UnsealedDecidedStep ==
  ASSUME TypeOK, AgreementInv, NEW n \in Honest, Effect(n)
  PROVE  UnsealedDecided'
<1>1. Decided \subseteq Decided'
  BY Monotone, Zenon
<1>2. \A m \in msgs' \ msgs : (m.code = "COMMIT" /\ m.seal # m.digest) => m.digest \in Decided
  <2>1. CASE NoCommitSent \/ UNCHANGED msgs
    BY <2>1, Zenon DEF NoCommitSent
  <2>2. CASE Answer(n)
    <3>1. PICK b \in Blocks : b \in Decided /\ CommitSent(n, b.num, b, current[n].Preprepare)
      BY <2>2, Zenon DEF Answer
    <3>. QED
      BY <3>1, NewCommit
  <2>3. CASE Vote(n)
    <3>1. PICK b \in Blocks : CommitSent(n, b.num, b, b)
      BY <2>3, Zenon DEF Vote
    <3>. QED
      BY <3>1, NewCommit
  <2>. QED
    BY <2>1, <2>2, <2>3, EffectFrame
<1>. QED
  BY <1>1, <1>2 DEF UnsealedDecided, AgreementInv

\* A validator that seals a block is bound to it, or the number is decided.
LEMMA CommitLockStep ==
  ASSUME TypeOK, TypeOK', AgreementInv, NEW n \in Honest, Effect(n)
  PROVE  CommitLock'
<1>. SUFFICES ASSUME NEW p \in Correct, NEW m \in SealedCommits(p)'
              PROVE  Pledged(p, m.digest)' \/ \E b \in Decided' : b.num = m.seq
  BY DEF CommitLock
<1>0. Decided \subseteq Decided' /\ p \in Validators /\ n \in Validators
  BY Monotone, Zenon DEF Correct, Honest
<1>1. m \in msgs' /\ m.code = "COMMIT" /\ m.src = p /\ m.seal = m.digest /\ m.digest \notin BadBlocks
  BY Zenon DEF SealedCommits
<1>2. m.digest \in Blocks
  BY <1>1, MsgShapeStep, Zenon DEF MsgShape, Sent
<1>3. CASE m \in SealedCommits(p)
  <2>1. Pledged(p, m.digest) \/ \E b \in Decided : b.num = m.seq
    BY <1>3, Zenon DEF AgreementInv, CommitLock
  <2>. QED
    BY <2>1, <1>0, <1>1, <1>2, PledgeStable, Zenon
<1>4. CASE m \notin SealedCommits(p)
  <2>1. m \notin msgs
    BY <1>1, <1>4, Zenon DEF SealedCommits
  <2>2. CASE Answer(n)
    <3>1. PICK b \in Decided : CommitSent(n, b.num, b, current[n].Preprepare)
      BY <2>2, Zenon DEF Answer
    <3>2. m.seq = b.num
      BY <3>1, <2>1, <1>1, NewCommit, SMTT(30)
    <3>. QED
      BY <3>2, <1>0, Zenon
  <2>3. CASE Vote(n)
    <3>1. PICK b \in Blocks :
            /\ b.num = current[n].sequence
            /\ current'[n].lockedHash = b
            /\ LockFree(n) \/ current[n].lockedHash = b
            /\ CommitSent(n, b.num, b, b)
      BY <2>3, Zenon DEF Vote
    <3>2. m.digest = b /\ m.seq = b.num /\ p = n
      BY <2>1, <3>1, <1>1, NewCommit
    <3>3. current'[n].sequence = current[n].sequence /\ current[n].sequence \in Nat
      BY <2>3, <1>0, Zenon DEF Vote, TypeOK, RoundState
    <3>4. ASSUME \A c \in Decided : c.num # b.num
          PROVE  \A k \in SealedCommits(p)' : k.seq = b.num => k.digest = b
      <4>. SUFFICES ASSUME NEW k \in SealedCommits(p)', k.seq = b.num
                    PROVE  k.digest = b
        OBVIOUS
      <4>1. CASE k \in SealedCommits(p)
        <5>1. Pledged(p, k.digest)
          BY <4>1, <3>4, Zenon DEF AgreementInv, CommitLock
        <5>2. k \in Sent /\ k.code = "COMMIT" /\ k.digest \notin BadBlocks
          BY <4>1, Zenon DEF SealedCommits, Sent
        <5>3. k.digest \in Blocks /\ k.digest.num = b.num
          BY <5>2, Zenon DEF AgreementInv, MsgShape
        <5>4. current[n].lockedHash = k.digest
          BY <5>1, <5>3, <3>1, <3>2, Zenon DEF Pledged
        <5>. QED
          BY <5>2, <5>3, <5>4, <3>1, BlocksAssumption, Zenon DEF LockFree
      <4>2. CASE k \notin SealedCommits(p)
        <5>1. k \in msgs' /\ k \notin msgs
          BY <4>2, ZenonT(30) DEF SealedCommits
        <5>. QED
          BY <5>1, <3>1, NewCommit
      <4>. QED
        BY <4>1, <4>2, Zenon
    <3>5. ASSUME \A c \in Decided : c.num # b.num
          PROVE  Pledged(p, b)'
      BY <3>1, <3>2, <3>3, <3>4, <3>5 DEF Pledged
    <3>. QED
      BY <3>2, <3>5, <1>0, Zenon
  <2>4. CASE NoCommitSent \/ UNCHANGED msgs
    BY <2>1, <2>4, <1>1, Zenon DEF NoCommitSent
  <2>. QED
    BY <2>2, <2>3, <2>4, EffectFrame, Zenon
<1>. QED
  BY <1>3, <1>4, Zenon

\* A COMMIT of a correct validator for b counts as a pledge while no block of
\* that number is decided, and as a vote for the decided block afterwards.
LEMMA CorrectCommit ==
  ASSUME AgreementInv, NEW p \in Correct, NEW b \in Blocks \ BadBlocks,
         NEW m \in Sent, m.code = "COMMIT", m.src = p, m.digest = b
  PROVE  /\ (\A c \in Decided : c.num # b.num) => Pledged(p, b)
         /\ \A c \in Decided : (c.num = b.num /\ Pledged(p, c)) => b = c
<1>1. m \in msgs /\ m.seq = b.num
  BY ByzantineAssumption, Zenon DEF Sent, AgreementInv, MsgShape, Correct, Honest
<1>2. CASE m.seal = m.digest
  <2>1. m \in SealedCommits(p)
    BY <1>1, <1>2, Zenon DEF SealedCommits
  <2>. QED
    BY <1>1, <2>1, Zenon DEF AgreementInv, CommitLock, Pledged
<1>3. CASE m.seal # m.digest
  <2>1. b \in Decided
    BY <1>1, <1>3, Zenon DEF AgreementInv, UnsealedDecided
  <2>2. \A c \in Decided : c.num = b.num => b = c
    BY <2>1 DEF AgreementInv, Agreement, Decided
  <2>. QED
    BY <2>1, <2>2, Zenon
<1>. QED
  BY <1>2, <1>3, Zenon
=============================================================================
