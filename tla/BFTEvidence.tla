---------------------------- MODULE BFTEvidence ----------------------------
(***************************************************************************)
(* What a core of BFTCore counts has been sent, so that every lock rests   *)
(* on 2F + 1 votes and every round on 2F + 1 requests for it; a core never *)
(* goes back, and never proposes a block that has failed.  Each handler    *)
(* has a lemma here; BFTAgreement concludes.                               *)
(***************************************************************************)
EXTENDS BFTCoreProof

-----------------------------------------------------------------------------
(* The inductive invariant, one validator at a time *)

\* The votes that n has counted for its proposal were sent in its view, and
\* none is counted before there is a proposal.
VotesCounted(n) ==
  LET cur == current[n]
  IN /\ state[n] = AcceptRequest => cur.Prepares \cup DOMAIN cur.Commits = {}
     /\ cur.Prepares \cup DOMAIN cur.Commits
          \subseteq Voters(Sent, cur.sequence, cur.round, cur.Preprepare)

\* 2F + 1 validators have voted, in one round, for the block that n locks.
LockEarned(n) ==
  LET cur == current[n]
  IN cur.lockedHash # None =>
       \E r \in 0 .. cur.round :
         Cardinality(Voters(Sent, cur.sequence, r, cur.lockedHash)) >= 2 * F + 1

\* A lock that holds is a lock on the proposal, and the request that waits
\* for a round of n's own is a block of n's own miner.
OwnProposal(n) ==
  LET cur == current[n]
  IN /\ IsHashLocked(n) => cur.Preprepare = cur.lockedHash
     /\ cur.pendingRequest # None => cur.pendingRequest.author = n

\* The ROUND CHANGEs that n has counted were sent, and a round that n works in
\* was asked for by 2F + 1 validators.
RoundsCounted(n) ==
  LET cur == current[n]
  IN /\ \A r \in Rounds : roundChangeSet[n][r] \subseteq Askers(Sent, cur.sequence, r)
     /\ ~waiting[n] /\ cur.round > 0 =>
          Cardinality(Askers(Sent, cur.sequence, cur.round)) >= 2 * F + 1

\* No round that n could still start has 2F + 1 counted ROUND CHANGEs: the
\* last of them would have started it.
NoneOverdue(n) ==
  \A r \in Rounds :
    r > current[n].round \/ (waiting[n] /\ r = current[n].round)
      => Cardinality(roundChangeSet[n][r]) < 2 * F + 1

EvidenceOf(n) ==
  /\ VotesCounted(n)
  /\ LockEarned(n)
  /\ OwnProposal(n)
  /\ RoundsCounted(n)
  /\ N > 3 => NoneOverdue(n)

Evidence == \A n \in Honest : EvidenceOf(n)

-----------------------------------------------------------------------------
(* Sets of senders *)

\* What the lemmas use of the sizes of sets of validators.  Their number is
\* finite, so that it is a fact: SendersCounted of BFTAgreement.
SenderSizes ==
  /\ Cardinality({}) = 0
  /\ \A S \in SUBSET Validators : Cardinality(S) \in Nat
  /\ \A T \in SUBSET Validators : \A S \in SUBSET T : Cardinality(S) <= Cardinality(T)
  /\ \A S \in SUBSET Validators, v \in Validators : Cardinality(S \cup {v}) <= Cardinality(S) + 1

\* The senders counted are a number of validators.
LEMMA SendersFinite ==
  ASSUME SenderSizes, NEW S \in SUBSET Validators
  PROVE  Cardinality(S) \in Nat
BY DEF SenderSizes

\* A larger set of senders is no smaller in number.
LEMMA SendersGrow ==
  ASSUME SenderSizes, NEW T \in SUBSET Validators, NEW S \in SUBSET T
  PROVE  Cardinality(S) <= Cardinality(T)
BY DEF SenderSizes

\* Votes and requests that were sent stay sent, and so their senders stay.
LEMMA VotersGrow ==
  ASSUME SenderSizes, NEW ms, NEW new, ms \subseteq new, NEW s, NEW r, NEW b, NEW k \in Nat
  PROVE  /\ Voters(ms, s, r, b) \subseteq Voters(new, s, r, b)
         /\ Cardinality(Voters(ms, s, r, b)) >= k => Cardinality(Voters(new, s, r, b)) >= k
         /\ Askers(ms, s, r) \subseteq Askers(new, s, r)
         /\ Cardinality(Askers(ms, s, r)) >= k => Cardinality(Askers(new, s, r)) >= k
<1>1. /\ Voters(ms, s, r, b) \in SUBSET Voters(new, s, r, b)
      /\ Voters(new, s, r, b) \in SUBSET Validators
  BY DEF Voters
<1>2. /\ Askers(ms, s, r) \in SUBSET Askers(new, s, r)
      /\ Askers(new, s, r) \in SUBSET Validators
  BY DEF Askers
<1>3. /\ Voters(ms, s, r, b) \in SUBSET Validators
      /\ Askers(ms, s, r) \in SUBSET Validators
  BY <1>1, <1>2
<1>4. /\ Cardinality(Voters(ms, s, r, b)) <= Cardinality(Voters(new, s, r, b))
      /\ Cardinality(Askers(ms, s, r)) <= Cardinality(Askers(new, s, r))
  BY <1>1, <1>2, SendersGrow
<1>. QED
  BY <1>1, <1>2, <1>3, <1>4, SendersFinite

\* What stood behind a lock or a round before a step stands behind it after.
LEMMA SentGrow ==
  ASSUME SenderSizes, msgs \subseteq msgs'
  PROVE  \A s, r, b :
           /\ Voters(Sent, s, r, b) \subseteq Voters(Sent', s, r, b)
           /\ Cardinality(Voters(Sent, s, r, b)) >= 2 * F + 1
                => Cardinality(Voters(Sent', s, r, b)) >= 2 * F + 1
           /\ Askers(Sent, s, r) \subseteq Askers(Sent', s, r)
           /\ Cardinality(Askers(Sent, s, r)) >= 2 * F + 1
                => Cardinality(Askers(Sent', s, r)) >= 2 * F + 1
<1>1. Sent \subseteq Sent' /\ 2 * F + 1 \in Nat
  BY FType DEF Sent
<1>. TAKE s, r, b
<1>. DEFINE quorum == 2 * F + 1
<1>2. Sent \subseteq Sent' /\ quorum \in Nat
  BY <1>1
<1>. HIDE DEF quorum
<1>3. /\ Voters(Sent, s, r, b) \subseteq Voters(Sent', s, r, b)
      /\ Cardinality(Voters(Sent, s, r, b)) >= quorum => Cardinality(Voters(Sent', s, r, b)) >= quorum
      /\ Askers(Sent, s, r) \subseteq Askers(Sent', s, r)
      /\ Cardinality(Askers(Sent, s, r)) >= quorum => Cardinality(Askers(Sent', s, r)) >= quorum
  BY <1>2, VotersGrow, Zenon
<1>. QED
  BY <1>3 DEF quorum

\* With more than three validators one fault is tolerated.
LEMMA FPositive == N > 3 => F > 0
BY ValidatorsAssumption DEF F

-----------------------------------------------------------------------------
(* The operations *)

\* A step of n changes no other core; nothing sent is taken back, and no block
\* reported as bad is cleared.
OnlyCoreOf(n) ==
  /\ msgs \subseteq msgs'
  /\ \A k \in Validators : badBlocks[k] \subseteq badBlocks'[k]
  /\ \A k \in Validators \ {n} :
       /\ current'[k] = current[k] /\ state'[k] = state[k]
       /\ waiting'[k] = waiting[k] /\ roundChangeSet'[k] = roundChangeSet[k]

\* What a step leaves of n's core as it is keeps its evidence.
LEMMA EvidenceKept ==
  ASSUME SenderSizes, TypeOK, NEW n \in Validators, EvidenceOf(n),
         current'[n] = current[n], state'[n] = state[n], waiting'[n] = waiting[n],
         roundChangeSet'[n] = roundChangeSet[n],
         badBlocks[n] \subseteq badBlocks'[n], msgs \subseteq msgs'
  PROVE  EvidenceOf(n)'
<1>. DEFINE cur == current[n]
<1>0. cur \in RoundState /\ cur.round \in Nat
  BY DEF TypeOK, RoundState, Rounds
<1>1. VotesCounted(n)'
  BY SentGrow DEF EvidenceOf, VotesCounted
<1>2. LockEarned(n)'
  <2>. SUFFICES ASSUME cur.lockedHash # None
                PROVE  \E q \in 0 .. cur.round :
                         Cardinality(Voters(Sent', cur.sequence, q, cur.lockedHash)) >= 2 * F + 1
    BY DEF LockEarned
  <2>1. PICK q \in 0 .. cur.round :
          Cardinality(Voters(Sent, cur.sequence, q, cur.lockedHash)) >= 2 * F + 1
    BY DEF EvidenceOf, LockEarned
  <2>2. Cardinality(Voters(Sent', cur.sequence, q, cur.lockedHash)) >= 2 * F + 1
    BY <2>1, SentGrow
  <2>. QED
    BY <2>2
<1>3. OwnProposal(n)'
  BY DEF EvidenceOf, OwnProposal, IsHashLocked
<1>4. RoundsCounted(n)'
  BY SentGrow DEF EvidenceOf, RoundsCounted
<1>5. N > 3 => NoneOverdue(n)'
  BY DEF EvidenceOf, NoneOverdue
<1>. QED
  BY <1>1, <1>2, <1>3, <1>4, <1>5 DEF EvidenceOf

\* A sequence starts with nothing counted and nothing locked.
LEMMA NewSequenceEvidence ==
  ASSUME SenderSizes, TypeOK, NEW n \in Validators, NewSequence(n), UNCHANGED badBlocks
  PROVE  EvidenceOf(n)' /\ OnlyCoreOf(n)
<1>. DEFINE new == NewRoundState(Len(chain[n]) + 1, 0, None, None, None)
<1>1. /\ current'[n] = new /\ state'[n] = AcceptRequest /\ ~waiting'[n]
      /\ roundChangeSet'[n] = [r \in Rounds |-> {}]
  BY DEF NewSequence, TypeOK
<1>2. /\ new.Prepares = {} /\ DOMAIN new.Commits = {} /\ new.lockedHash = None
      /\ new.pendingRequest = None /\ new.round = 0
  BY EmptyCommitMap DEF NewRoundState
<1>3. Cardinality({}) < 2 * F + 1
  BY FType DEF SenderSizes
<1>4. OnlyCoreOf(n)
  BY DEF NewSequence, OnlyCoreOf, TypeOK
<1>. HIDE DEF new
<1>. QED
  BY <1>1, <1>2, <1>3, <1>4
     DEF EvidenceOf, VotesCounted, LockEarned, OwnProposal, IsHashLocked, RoundsCounted, NoneOverdue

\* updateRoundState drops the counted votes and keeps a lock that holds, with
\* its proposal and the evidence for it.
LEMMA KeepLockEvidence ==
  ASSUME SenderSizes, TypeOK, NEW n \in Validators, EvidenceOf(n), NEW r \in Rounds, r >= current[n].round,
         current'[n] = KeepLock(n, r), badBlocks'[n] = badBlocks[n], msgs \subseteq msgs'
  PROVE  /\ VotesCounted(n)' /\ LockEarned(n)' /\ OwnProposal(n)'
         /\ current'[n].sequence = current[n].sequence /\ current'[n].round = r
<1>. DEFINE cur == current[n]
            new == KeepLock(n, r)
<1>0. cur \in RoundState /\ cur.round \in Nat
  BY DEF TypeOK, RoundState, Rounds
<1>1. /\ current'[n] = new
      /\ new.Prepares = {} /\ DOMAIN new.Commits = {} /\ new.pendingRequest = cur.pendingRequest
      /\ new.sequence = cur.sequence /\ new.round = r
      /\ IF IsHashLocked(n) THEN new.lockedHash = cur.lockedHash /\ new.Preprepare = cur.Preprepare
         ELSE new.lockedHash = None
  BY EmptyCommitMap, Zenon DEF KeepLock, NewRoundState
<1>. HIDE DEF new
<1>2. VotesCounted(n)'
  BY <1>1 DEF VotesCounted
<1>3. LockEarned(n)'
  <2>. SUFFICES ASSUME IsHashLocked(n), new.lockedHash # None
                PROVE  \E q \in 0 .. r :
                         Cardinality(Voters(Sent', cur.sequence, q, cur.lockedHash)) >= 2 * F + 1
    BY <1>1, Zenon DEF LockEarned
  <2>1. PICK q \in 0 .. cur.round :
          Cardinality(Voters(Sent, cur.sequence, q, cur.lockedHash)) >= 2 * F + 1
    BY Zenon DEF EvidenceOf, LockEarned, IsHashLocked
  <2>2. Cardinality(Voters(Sent', cur.sequence, q, cur.lockedHash)) >= 2 * F + 1
    BY <2>1, SentGrow
  <2>3. q \in 0 .. r
    BY <1>0 DEF Rounds
  <2>. QED
    BY <2>2, <2>3
<1>4. OwnProposal(n)'
  BY <1>1 DEF EvidenceOf, OwnProposal, IsHashLocked
<1>. QED
  BY <1>1, <1>2, <1>3, <1>4

\* A round starts because 2F + 1 validators have asked for it.
LEMMA NewRoundEvidence ==
  ASSUME SenderSizes, TypeOK, NEW n \in Validators, EvidenceOf(n), NEW r \in Rounds, r >= current[n].round,
         NewRound(n, r), UNCHANGED badBlocks,
         Cardinality(Askers(Sent, current[n].sequence, r)) >= 2 * F + 1
  PROVE  EvidenceOf(n)' /\ OnlyCoreOf(n)
<1>1. /\ current'[n] = KeepLock(n, r) /\ ~waiting'[n] /\ roundChangeSet'[n] = [q \in Rounds |-> {}]
      /\ msgs \subseteq msgs'
  BY Zenon DEF NewRound, TypeOK, Broadcast
<1>2. /\ VotesCounted(n)' /\ LockEarned(n)' /\ OwnProposal(n)'
      /\ current'[n].sequence = current[n].sequence /\ current'[n].round = r
  BY <1>1, KeepLockEvidence
<1>3. RoundsCounted(n)'
  <2>1. Cardinality(Askers(Sent', current[n].sequence, r)) >= 2 * F + 1
    BY <1>1, SentGrow
  <2>. QED
    BY <1>1, <1>2, <2>1 DEF RoundsCounted
<1>4. NoneOverdue(n)'
  <2>1. Cardinality({}) < 2 * F + 1
    BY FType DEF SenderSizes
  <2>. QED
    BY <1>1, <2>1 DEF NoneOverdue
<1>5. OnlyCoreOf(n)
  BY Zenon DEF NewRound, OnlyCoreOf, TypeOK, Broadcast
<1>. QED
  BY <1>2, <1>3, <1>4, <1>5, Zenon DEF EvidenceOf

\* Asking for round r keeps the ROUND CHANGEs for r and the rounds above.
LEMMA SendRoundChangeEvidence ==
  ASSUME SenderSizes, TypeOK, NEW n \in Validators, EvidenceOf(n), NEW r \in Nat,
         NEW rcs \in [Rounds -> SUBSET Validators], SendRoundChange(n, r, rcs), UNCHANGED badBlocks,
         \A q \in Rounds : rcs[q] \subseteq Askers(Sent, current[n].sequence, q),
         N > 3 => \A q \in Rounds : q > current[n].round => Cardinality(rcs[q]) < 2 * F + 1
  PROVE  EvidenceOf(n)' /\ OnlyCoreOf(n)
<1>0. r \in Rounds /\ r > current[n].round /\ current[n].round \in Nat
  BY DEF SendRoundChange, Rounds, TypeOK, RoundState
<1>1. /\ current'[n] = KeepLock(n, r) /\ waiting'[n] /\ msgs \subseteq msgs'
      /\ roundChangeSet'[n] = [q \in Rounds |-> IF q < r THEN {} ELSE rcs[q]]
  BY Zenon DEF SendRoundChange, TypeOK, Broadcast
<1>2. /\ VotesCounted(n)' /\ LockEarned(n)' /\ OwnProposal(n)'
      /\ current'[n].sequence = current[n].sequence /\ current'[n].round = r
  BY <1>0, <1>1, KeepLockEvidence
<1>3. RoundsCounted(n)'
  <2>1. \A q \in Rounds : rcs[q] \subseteq Askers(Sent', current[n].sequence, q)
    BY <1>1, SentGrow, Zenon
  <2>. QED
    BY <1>1, <1>2, <2>1, Zenon DEF RoundsCounted
<1>4. N > 3 => NoneOverdue(n)'
  <2>. SUFFICES ASSUME N > 3, NEW q \in Rounds, q >= r
                PROVE  Cardinality(roundChangeSet'[n][q]) < 2 * F + 1
    BY <1>0, <1>2 DEF NoneOverdue, Rounds
  <2>1. q > current[n].round /\ ~(q < r)
    BY <1>0 DEF Rounds
  <2>. QED
    BY <1>1, <2>1, Zenon
<1>5. OnlyCoreOf(n)
  BY DEF SendRoundChange, OnlyCoreOf, TypeOK, Broadcast
<1>. QED
  BY <1>2, <1>3, <1>4, <1>5 DEF EvidenceOf
-----------------------------------------------------------------------------
(* The handlers *)

\* handleRequest keeps a block of the validator's own miner.
LEMMA RequestEvidence ==
  ASSUME SenderSizes, TypeOK, NEW n \in Validators, EvidenceOf(n), NEW b \in Blocks, HandleRequest(n, b)
  PROVE  EvidenceOf(n)' /\ OnlyCoreOf(n)
<1>. DEFINE cur == current[n]
            new == [cur EXCEPT !.pendingRequest = b]
<1>1. /\ current'[n] = new /\ state'[n] = state[n] /\ waiting'[n] = waiting[n] /\ b.author = n
      /\ roundChangeSet'[n] = roundChangeSet[n] /\ badBlocks'[n] = badBlocks[n] /\ msgs \subseteq msgs'
  BY DEF HandleRequest, TypeOK, Broadcast, chainVars
<1>2. /\ new.sequence = cur.sequence /\ new.round = cur.round /\ new.Preprepare = cur.Preprepare
      /\ new.Prepares = cur.Prepares /\ new.Commits = cur.Commits
      /\ new.lockedHash = cur.lockedHash /\ new.pendingRequest = b
  BY DEF TypeOK, RoundState
<1>3. OnlyCoreOf(n)
  BY Zenon DEF HandleRequest, OnlyCoreOf, TypeOK, Broadcast, chainVars
<1>. HIDE DEF new
<1>4. VotesCounted(n)' /\ RoundsCounted(n)'
  BY <1>1, <1>2, SentGrow, Zenon DEF EvidenceOf, VotesCounted, RoundsCounted
<1>5. LockEarned(n)'
  BY <1>1, <1>2, SentGrow, Zenon DEF EvidenceOf, LockEarned
<1>6. OwnProposal(n)'
  BY <1>1, <1>2, Zenon DEF EvidenceOf, OwnProposal, IsHashLocked
<1>7. N > 3 => NoneOverdue(n)'
  BY <1>1, <1>2 DEF EvidenceOf, NoneOverdue
<1>. QED
  BY <1>3, <1>4, <1>5, <1>6, <1>7 DEF EvidenceOf

\* handlePreprepare takes a proposal before any vote is counted, and with a
\* lock that holds only the locked block.
LEMMA AcceptEvidence ==
  ASSUME SenderSizes, TypeOK, NEW n \in Validators, EvidenceOf(n), NEW m,
         AcceptPreprepare(n, m) \/ AcceptLockedPreprepare(n, m)
  PROVE  EvidenceOf(n)' /\ OnlyCoreOf(n)
<1>. DEFINE cur == current[n]
            new == [cur EXCEPT !.Preprepare = m.digest]
<1>1. /\ current'[n] = new /\ state'[n] # AcceptRequest /\ waiting'[n] = waiting[n]
      /\ state[n] = AcceptRequest /\ (IsHashLocked(n) => m.digest = cur.lockedHash)
      /\ roundChangeSet'[n] = roundChangeSet[n] /\ badBlocks'[n] = badBlocks[n] /\ msgs \subseteq msgs'
  <2>1. CASE AcceptPreprepare(n, m)
    BY <2>1 DEF AcceptPreprepare, TypeOK, Broadcast, chainVars, AcceptRequest, Preprepared
  <2>2. CASE AcceptLockedPreprepare(n, m)
    BY <2>2 DEF AcceptLockedPreprepare, TypeOK, Broadcast, chainVars, AcceptRequest, Prepared
  <2>. QED
    BY <2>1, <2>2
<1>2. /\ new.sequence = cur.sequence /\ new.round = cur.round /\ new.Preprepare = m.digest
      /\ new.Prepares = cur.Prepares /\ new.Commits = cur.Commits
      /\ new.lockedHash = cur.lockedHash /\ new.pendingRequest = cur.pendingRequest
  BY DEF TypeOK, RoundState
<1>3. OnlyCoreOf(n)
  BY Zenon DEF AcceptPreprepare, AcceptLockedPreprepare, OnlyCoreOf, TypeOK, Broadcast, chainVars
<1>. HIDE DEF new
<1>4. VotesCounted(n)'
  BY <1>1, <1>2, Zenon DEF EvidenceOf, VotesCounted
<1>5. RoundsCounted(n)'
  BY <1>1, <1>2, SentGrow, Zenon DEF EvidenceOf, RoundsCounted
<1>6. LockEarned(n)'
  BY <1>1, <1>2, SentGrow, Zenon DEF EvidenceOf, LockEarned
<1>7. OwnProposal(n)'
  BY <1>1, <1>2, Zenon DEF EvidenceOf, OwnProposal, IsHashLocked
<1>8. N > 3 => NoneOverdue(n)'
  BY <1>1, <1>2, Zenon DEF EvidenceOf, NoneOverdue
<1>. QED
  BY <1>3, <1>4, <1>5, <1>6, <1>7, <1>8 DEF EvidenceOf

\* A vote for the proposal is counted, and the proposal locked only if it was
\* locked before or 2F + 1 validators have voted for it in this round.
LEMMA CountEvidence ==
  ASSUME SenderSizes, TypeOK, NEW n \in Validators, EvidenceOf(n),
         NEW m \in Sent, m.code \in {"PREPARE", "COMMIT"}, m.src \in Validators,
         m.seq = current[n].sequence, m.round = current[n].round, m.digest = current[n].Preprepare,
         NEW new \in RoundState, current'[n] = new,
         new.sequence = current[n].sequence, new.round = current[n].round,
         new.Preprepare = current[n].Preprepare, new.pendingRequest = current[n].pendingRequest,
         new.Prepares \cup DOMAIN new.Commits
           = current[n].Prepares \cup DOMAIN current[n].Commits \cup {m.src},
         \/ new.lockedHash = current[n].lockedHash
         \/ /\ new.lockedHash = current[n].Preprepare
            /\ \/ current[n].lockedHash = current[n].Preprepare
               \/ Cardinality(new.Prepares \cup DOMAIN new.Commits) > 2 * F,
         state'[n] # AcceptRequest, waiting'[n] = waiting[n],
         roundChangeSet'[n] = roundChangeSet[n], badBlocks'[n] = badBlocks[n], msgs \subseteq msgs'
  PROVE  EvidenceOf(n)'
<1>. DEFINE cur == current[n]
            senders == new.Prepares \cup DOMAIN new.Commits
            voters == Voters(Sent', cur.sequence, cur.round, cur.Preprepare)
<1>1. senders \subseteq voters
  <2>1. cur.Prepares \cup DOMAIN cur.Commits \subseteq voters
    BY SentGrow, Zenon DEF EvidenceOf, VotesCounted
  <2>2. m \in Sent'
    BY Zenon DEF Sent
  <2>3. m.src \in voters
    BY <2>2, Zenon DEF Voters
  <2>. QED
    BY <2>1, <2>3, Zenon
<1>2. VotesCounted(n)'
  BY <1>1, Zenon DEF VotesCounted
<1>3. LockEarned(n)'
  <2>1. CASE new.lockedHash = cur.lockedHash
    BY <2>1, SentGrow, Zenon DEF EvidenceOf, LockEarned
  <2>2. CASE new.lockedHash = cur.Preprepare /\ Cardinality(senders) > 2 * F
    <3>1. voters \in SUBSET Validators /\ senders \in SUBSET voters
      BY <1>1, Zenon DEF Voters
    <3>2. Cardinality(senders) <= Cardinality(voters)
      BY <3>1, SendersGrow, Zenon
    <3>3. Cardinality(senders) \in Nat /\ Cardinality(voters) \in Nat
      BY <3>1, SendersFinite, Zenon
    <3>4. Cardinality(voters) >= 2 * F + 1
      BY <2>2, <3>2, <3>3, FType
    <3>5. cur.round \in 0 .. cur.round
      BY DEF TypeOK, RoundState, Rounds
    <3>. QED
      BY <2>2, <3>4, <3>5, Zenon DEF LockEarned
  <2>. QED
    BY <2>1, <2>2, Zenon
<1>4. OwnProposal(n)'
  BY Zenon DEF EvidenceOf, OwnProposal, IsHashLocked
<1>5. RoundsCounted(n)'
  BY SentGrow, Zenon DEF EvidenceOf, RoundsCounted
<1>6. N > 3 => NoneOverdue(n)'
  BY Zenon DEF EvidenceOf, NoneOverdue
<1>. QED
  BY <1>2, <1>3, <1>4, <1>5, <1>6, Zenon DEF EvidenceOf

\* handlePrepare counts a PREPARE for the proposal.
LEMMA PrepareEvidence ==
  ASSUME SenderSizes, TypeOK, NEW n \in Validators, EvidenceOf(n), NEW m \in Receivable(n, "PREPARE"),
         HandlePrepare(n, m)
  PROVE  EvidenceOf(n)' /\ OnlyCoreOf(n)
<1>. DEFINE cur == [current[n] EXCEPT !.Prepares = @ \cup {m.src}]
            locked == [cur EXCEPT !.lockedHash = cur.Preprepare]
<1>1. /\ m \in Sent /\ m.src \in Validators /\ m.code = "PREPARE"
      /\ m.seq = current[n].sequence /\ m.round = current[n].round
      /\ m.digest = current[n].Preprepare /\ state[n] # AcceptRequest
  BY ReceivableType DEF HandlePrepare, IsCurrent, TypeOK, RoundState
<1>2. current \in [Validators -> RoundState] /\ state \in [Validators -> AcceptRequest .. Committed]
  BY DEF TypeOK
<1>3. /\ cur \in RoundState /\ cur.sequence = current[n].sequence /\ cur.round = current[n].round
      /\ cur.Preprepare = current[n].Preprepare /\ cur.pendingRequest = current[n].pendingRequest
      /\ cur.Prepares = current[n].Prepares \cup {m.src} /\ cur.Commits = current[n].Commits
      /\ cur.lockedHash = current[n].lockedHash
  BY <1>1, <1>2 DEF RoundState
<1>4. \/ /\ current' = [current EXCEPT ![n] = locked] /\ state' = [state EXCEPT ![n] = Prepared]
         /\ m.digest = cur.lockedHash \/ PrepareOrCommitSize(cur) > 2 * F
      \/ current' = [current EXCEPT ![n] = cur] /\ UNCHANGED state
  BY Zenon DEF HandlePrepare
<1>5. /\ waiting'[n] = waiting[n] /\ roundChangeSet'[n] = roundChangeSet[n]
      /\ badBlocks'[n] = badBlocks[n] /\ msgs \subseteq msgs'
  BY DEF HandlePrepare, Broadcast, chainVars
<1>. HIDE DEF cur
<1>6. /\ locked \in RoundState /\ locked.sequence = cur.sequence /\ locked.round = cur.round
      /\ locked.Preprepare = cur.Preprepare /\ locked.pendingRequest = cur.pendingRequest
      /\ locked.Prepares = cur.Prepares /\ locked.Commits = cur.Commits
      /\ locked.lockedHash = cur.Preprepare
  BY <1>3 DEF RoundState
<1>7. OnlyCoreOf(n)
  BY DEF HandlePrepare, OnlyCoreOf, TypeOK, Broadcast, chainVars
<1>. HIDE DEF locked
<1>8. CASE /\ current' = [current EXCEPT ![n] = locked] /\ state' = [state EXCEPT ![n] = Prepared]
           /\ m.digest = cur.lockedHash \/ PrepareOrCommitSize(cur) > 2 * F
  <2>1. current'[n] = locked /\ state'[n] # AcceptRequest
    BY <1>2, <1>8 DEF Prepared, AcceptRequest
  <2>2. \/ current[n].lockedHash = current[n].Preprepare
        \/ Cardinality(locked.Prepares \cup DOMAIN locked.Commits) > 2 * F
    BY <1>1, <1>3, <1>6, <1>8, Zenon DEF PrepareOrCommitSize
  <2>. QED
    BY <1>1, <1>3, <1>5, <1>6, <1>7, <2>1, <2>2, CountEvidence, ZenonT(30)
<1>9. CASE current' = [current EXCEPT ![n] = cur] /\ UNCHANGED state
  <2>1. current'[n] = cur /\ state'[n] # AcceptRequest
    BY <1>1, <1>2, <1>9
  <2>. QED
    BY <1>1, <1>3, <1>5, <1>7, <2>1, CountEvidence, ZenonT(30)
<1>. QED
  BY <1>4, <1>8, <1>9

\* handleCommit counts a COMMIT for the proposal.
LEMMA CommitEvidence ==
  ASSUME SenderSizes, TypeOK, NEW n \in Validators, EvidenceOf(n), NEW m \in Receivable(n, "COMMIT"),
         HandleCommit(n, m)
  PROVE  EvidenceOf(n)' /\ OnlyCoreOf(n)
<1>. DEFINE cur == [current[n] EXCEPT !.Commits = AddCommit(@, m.src, m.seal)]
            locked == [cur EXCEPT !.lockedHash = cur.Preprepare]
<1>1. /\ m \in Sent /\ m.src \in Validators /\ m.code = "COMMIT" /\ m.seal \in Blocks \cup {None}
      /\ m.seq = current[n].sequence /\ m.round = current[n].round
      /\ m.digest = current[n].Preprepare /\ state[n] # AcceptRequest
  BY ReceivableType DEF HandleCommit, IsCurrent, TypeOK, RoundState
<1>2. current \in [Validators -> RoundState] /\ state \in [Validators -> AcceptRequest .. Committed]
  BY Zenon DEF TypeOK
<1>3. /\ cur \in RoundState /\ cur.sequence = current[n].sequence /\ cur.round = current[n].round
      /\ cur.Preprepare = current[n].Preprepare /\ cur.pendingRequest = current[n].pendingRequest
      /\ cur.Prepares = current[n].Prepares /\ DOMAIN cur.Commits = DOMAIN current[n].Commits \cup {m.src}
      /\ cur.lockedHash = current[n].lockedHash
  <2>. DEFINE added == AddCommit(current[n].Commits, m.src, m.seal)
  <2>1. added \in CommitMap /\ DOMAIN added = DOMAIN current[n].Commits \cup {m.src}
    BY <1>1, <1>2, AddCommitType, ZenonT(30) DEF RoundState
  <2>. HIDE DEF added
  <2>. QED
    BY <1>2, <2>1 DEF RoundState, added
<1>4. \/ /\ current' = [current EXCEPT ![n] = locked] /\ state' = [state EXCEPT ![n] = Committed]
         /\ Cardinality(DOMAIN cur.Commits) > 2 * F
      \/ current' = [current EXCEPT ![n] = cur] /\ UNCHANGED state
  BY Zenon DEF HandleCommit
<1>5. /\ waiting'[n] = waiting[n] /\ roundChangeSet'[n] = roundChangeSet[n]
      /\ badBlocks'[n] = badBlocks[n] /\ msgs \subseteq msgs'
  BY DEF HandleCommit, chainVars
<1>. HIDE DEF cur
<1>6. /\ locked \in RoundState /\ locked.sequence = cur.sequence /\ locked.round = cur.round
      /\ locked.Preprepare = cur.Preprepare /\ locked.pendingRequest = cur.pendingRequest
      /\ locked.Prepares = cur.Prepares /\ locked.Commits = cur.Commits
      /\ locked.lockedHash = cur.Preprepare
  BY <1>3 DEF RoundState
<1>7. OnlyCoreOf(n)
  BY DEF HandleCommit, OnlyCoreOf, TypeOK, chainVars
<1>. HIDE DEF locked
<1>8. CASE /\ current' = [current EXCEPT ![n] = locked] /\ state' = [state EXCEPT ![n] = Committed]
           /\ Cardinality(DOMAIN cur.Commits) > 2 * F
  <2>. DEFINE senders == locked.Prepares \cup DOMAIN locked.Commits
  <2>1. current'[n] = locked /\ state'[n] # AcceptRequest
    BY <1>2, <1>8 DEF Committed, AcceptRequest
  <2>2. senders \in SUBSET Validators /\ DOMAIN cur.Commits \in SUBSET senders
    BY <1>1, <1>2, <1>3, <1>6 DEF RoundState, CommitMap
  <2>3. Cardinality(DOMAIN cur.Commits) <= Cardinality(senders)
    BY <2>2, SendersGrow
  <2>4. Cardinality(DOMAIN cur.Commits) \in Nat /\ Cardinality(senders) \in Nat
    BY <2>2, SendersFinite
  <2>5. Cardinality(senders) > 2 * F
    BY <1>8, <2>3, <2>4, FType
  <2>. QED
    BY <1>1, <1>3, <1>5, <1>6, <1>7, <2>1, <2>5, CountEvidence, ZenonT(30)
<1>9. CASE current' = [current EXCEPT ![n] = cur] /\ UNCHANGED state
  <2>1. current'[n] = cur /\ state'[n] # AcceptRequest
    BY <1>1, <1>2, <1>9
  <2>. QED
    BY <1>1, <1>3, <1>5, <1>7, <2>1, CountEvidence, ZenonT(30)
<1>. QED
  BY <1>4, <1>8, <1>9, Zenon

\* handleRoundChange counts a ROUND CHANGE; the one that makes 2F + 1 starts
\* the round.
LEMMA RoundChangeEvidence ==
  ASSUME SenderSizes, TypeOK, NEW n \in Validators, EvidenceOf(n), NEW m \in Receivable(n, "ROUNDCHANGE"),
         HandleRoundChange(n, m)
  PROVE  EvidenceOf(n)' /\ OnlyCoreOf(n)
<1>. DEFINE cur == current[n]
            senders == roundChangeSet[n][m.round] \cup {m.src}
            rcs == [roundChangeSet[n] EXCEPT ![m.round] = senders]
            num == Cardinality(senders)
            behind == cur.round < m.round
            catchUp == waiting[n] /\ num = F + 1 /\ behind
            start == ~(waiting[n] /\ num = F + 1) /\ num = 2 * F + 1 /\ (waiting[n] \/ behind)
<1>1. /\ m \in Sent /\ m.code = "ROUNDCHANGE" /\ m.src \in Validators /\ m.round \in Rounds
      /\ m.round \in Nat /\ cur.round \in Nat /\ m.seq = cur.sequence /\ m.round >= cur.round
      /\ roundChangeSet[n] \in [Rounds -> SUBSET Validators] /\ cur \in RoundState
  BY ReceivableType DEF HandleRoundChange, IsCurrent, TypeOK, RoundState, Rounds
<1>2. /\ rcs \in [Rounds -> SUBSET Validators] /\ rcs[m.round] = senders
      /\ \A q \in Rounds : q # m.round => rcs[q] = roundChangeSet[n][q]
  BY <1>1, Zenon
<1>3. \A q \in Rounds : rcs[q] \subseteq Askers(Sent, cur.sequence, q)
  <2>1. \A q \in Rounds : roundChangeSet[n][q] \subseteq Askers(Sent, cur.sequence, q)
    BY Zenon DEF EvidenceOf, RoundsCounted
  <2>2. m.src \in Askers(Sent, cur.sequence, m.round)
    BY <1>1, Zenon DEF Askers
  <2>3. senders \subseteq Askers(Sent, cur.sequence, m.round)
    BY <1>1, <2>1, <2>2, Zenon
  <2>. QED
    BY <1>2, <2>1, <2>3, Zenon
<1>4. num \in Nat /\ num <= Cardinality(roundChangeSet[n][m.round]) + 1
  <2>1. roundChangeSet[n][m.round] \in SUBSET Validators /\ senders \in SUBSET Validators
    BY <1>1, Zenon
  <2>2. num \in Nat
    BY <2>1, SendersFinite, Zenon
  <2>3. Cardinality(roundChangeSet[n][m.round] \cup {m.src})
          <= Cardinality(roundChangeSet[n][m.round]) + 1
    BY <1>1, <2>1, Zenon DEF SenderSizes
  <2>. QED
    BY <2>2, <2>3
<1>5. UNCHANGED badBlocks
  BY Zenon DEF HandleRoundChange, chainVars
<1>6. \/ catchUp /\ SendRoundChange(n, m.round, rcs)
      \/ start /\ (NewSequence(n) \/ NewRound(n, m.round))
      \/ /\ ~catchUp /\ ~start /\ roundChangeSet' = [roundChangeSet EXCEPT ![n] = rcs]
         /\ UNCHANGED <<current, state, waiting, msgs>>
  BY Zenon DEF HandleRoundChange
<1>7. N > 3 => \A q \in Rounds : (q > cur.round \/ (waiting[n] /\ q = cur.round)) /\ q # m.round
                 => Cardinality(rcs[q]) < 2 * F + 1
  BY <1>2, Zenon DEF EvidenceOf, NoneOverdue
<1>. HIDE DEF rcs
<1>8. CASE catchUp /\ SendRoundChange(n, m.round, rcs)
  <2>1. N > 3 => Cardinality(rcs[m.round]) < 2 * F + 1
    BY <1>2, <1>8, FPositive, FType
  <2>2. N > 3 => \A q \in Rounds : q > cur.round => Cardinality(rcs[q]) < 2 * F + 1
    BY <1>7, <2>1, Zenon
  <2>. QED
    BY <1>1, <1>2, <1>3, <1>5, <1>8, <2>2, SendRoundChangeEvidence, Zenon
<1>9. CASE start /\ NewSequence(n)
  BY <1>5, <1>9, NewSequenceEvidence, Zenon
<1>10. CASE start /\ NewRound(n, m.round)
  <2>. DEFINE askers == Askers(Sent, cur.sequence, m.round)
  <2>1. askers \in SUBSET Validators /\ senders \in SUBSET askers
    BY <1>1, <1>2, <1>3, Zenon DEF Askers
  <2>2. Cardinality(askers) \in Nat /\ num <= Cardinality(askers)
    BY <2>1, SendersGrow, SendersFinite, Zenon
  <2>3. Cardinality(askers) >= 2 * F + 1
    BY <1>4, <1>10, <2>2, FType, Zenon
  <2>. QED
    BY <1>1, <1>5, <1>10, <2>3, NewRoundEvidence, Zenon
<1>11. CASE /\ ~catchUp /\ ~start /\ roundChangeSet' = [roundChangeSet EXCEPT ![n] = rcs]
            /\ UNCHANGED <<current, state, waiting, msgs>>
  <2>1. roundChangeSet'[n] = rcs /\ OnlyCoreOf(n)
    BY <1>5, <1>11, Zenon DEF OnlyCoreOf, TypeOK
  <2>2. UNCHANGED Sent
    BY <1>11, Zenon DEF Sent
  <2>3. VotesCounted(n)' /\ LockEarned(n)' /\ OwnProposal(n)'
    BY <1>5, <1>11, <2>2, Zenon DEF EvidenceOf, VotesCounted, LockEarned, OwnProposal, IsHashLocked
  <2>4. RoundsCounted(n)'
    BY <1>3, <1>11, <2>1, <2>2, Zenon DEF EvidenceOf, RoundsCounted
  <2>5. ASSUME N > 3 PROVE NoneOverdue(n)'
    <3>1. m.round > cur.round \/ (waiting[n] /\ m.round = cur.round) => num < 2 * F + 1
      <4>. SUFFICES ASSUME m.round > cur.round \/ (waiting[n] /\ m.round = cur.round)
                    PROVE  num < 2 * F + 1
        OBVIOUS
      <4>1. Cardinality(roundChangeSet[n][m.round]) < 2 * F + 1
        BY <1>1, <2>5, Zenon DEF EvidenceOf, NoneOverdue
      <4>2. Cardinality(roundChangeSet[n][m.round]) \in Nat
        BY <1>1, SendersFinite, Zenon
      <4>3. num <= 2 * F + 1
        BY <1>4, <4>1, <4>2, FType
      <4>4. num # 2 * F + 1
        BY <1>1, <1>11, <2>5, FPositive, FType
      <4>. QED
        BY <1>4, <4>3, <4>4, FType
    <3>. QED
      BY <1>2, <1>7, <1>11, <2>1, <2>5, <3>1, Zenon DEF NoneOverdue
  <2>. QED
    BY <2>1, <2>3, <2>4, <2>5, Zenon DEF EvidenceOf
<1>. QED
  BY <1>6, <1>8, <1>9, <1>10, <1>11, ZenonT(30)

\* Asking for a higher round on what has been counted so far.
LEMMA AskEvidence ==
  ASSUME SenderSizes, TypeOK, NEW n \in Validators, EvidenceOf(n), NEW r \in Nat,
         SendRoundChange(n, r, roundChangeSet[n]), UNCHANGED badBlocks
  PROVE  EvidenceOf(n)' /\ OnlyCoreOf(n)
<1>1. roundChangeSet[n] \in [Rounds -> SUBSET Validators]
  BY Zenon DEF TypeOK
<1>2. \A q \in Rounds : roundChangeSet[n][q] \subseteq Askers(Sent, current[n].sequence, q)
  BY Zenon DEF EvidenceOf, RoundsCounted
<1>3. N > 3 => \A q \in Rounds : q > current[n].round => Cardinality(roundChangeSet[n][q]) < 2 * F + 1
  BY DEF EvidenceOf, NoneOverdue
<1>. QED
  BY <1>1, <1>2, <1>3, SendRoundChangeEvidence

-----------------------------------------------------------------------------
(* What the operations do besides *)

\* The proposals that a step sends are n's, and none of them has failed in n's
\* chain.
ProposesWell(n) ==
  \A m \in msgs' \ msgs : m.code = "PREPREPARE" => m.src = n /\ m.digest \notin badBlocks[n]

\* A ROUND CHANGE is for a later round, and is no proposal.
LEMMA AskOnward ==
  ASSUME TypeOK, NEW n \in Validators, NEW r \in Nat, NEW rcs, SendRoundChange(n, r, rcs)
  PROVE  Onward(n) /\ ProposesWell(n)
<1>1. current'[n].sequence = current[n].sequence /\ current'[n].round = r
  BY Zenon DEF SendRoundChange, TypeOK, KeepLock, NewRoundState
<1>2. Onward(n)
  BY <1>1, Zenon DEF SendRoundChange, Onward, Before
<1>3. ProposesWell(n)
  BY DEF SendRoundChange, Broadcast, Msg, ProposesWell
<1>. QED
  BY <1>2, <1>3, Zenon

\* A new sequence is above the one before, except after a restart.
LEMMA NewSequenceOnward ==
  ASSUME TypeOK, NEW n \in Validators, NewSequence(n),
         n \in Correct => Len(chain[n]) >= current[n].sequence
  PROVE  (n \in Correct => Onward(n)) /\ ProposesWell(n)
<1>1. current'[n].sequence = Len(chain[n]) + 1
  BY Zenon DEF NewSequence, TypeOK, NewRoundState
<1>2. Len(chain[n]) \in Nat /\ current[n].sequence \in Nat
  BY DEF TypeOK, RoundState
<1>3. n \in Correct => Onward(n)
  BY <1>1, <1>2 DEF Onward, Before
<1>4. ProposesWell(n)
  BY Zenon DEF NewSequence, ProposesWell
<1>. QED
  BY <1>3, <1>4, Zenon

\* A round that starts is later than the one before, or the one waited for;
\* its proposer proposes the block it locks or one of its own.
LEMMA NewRoundOnward ==
  ASSUME TypeOK, NEW n \in Honest, EvidenceOf(n), NEW r \in Rounds, NewRound(n, r),
         r > current[n].round \/ (waiting[n] /\ r = current[n].round)
  PROVE  Onward(n) /\ ProposesWell(n)
<1>. DEFINE cur == KeepLock(n, r)
            prop == CalcProposer(Author(n, cur.sequence - 1), r)
<1>0. n \in Validators
  BY Zenon DEF Honest
<1>1. current'[n].sequence = current[n].sequence /\ current'[n].round = r
  BY <1>0, Zenon DEF NewRound, TypeOK, KeepLock, NewRoundState
<1>2. Onward(n)
  BY <1>1, Zenon DEF Onward, Before
<1>3. cur.lockedHash # None => cur.Preprepare \notin badBlocks[n]
  BY Zenon DEF KeepLock, NewRoundState, EvidenceOf, OwnProposal, IsHashLocked
<1>4. cur.pendingRequest # None => cur.pendingRequest \notin badBlocks[n]
  <2>1. cur.pendingRequest = current[n].pendingRequest
    BY Zenon DEF KeepLock, NewRoundState
  <2>2. \A b \in badBlocks[n] : b.author # n
    BY <1>0, BadBlocksAssumption, Zenon DEF TypeOK, Honest
  <2>. QED
    BY <2>1, <2>2, Zenon DEF EvidenceOf, OwnProposal
<1>5. \A b : b \notin badBlocks[n] =>
        \A m \in PreprepareFor(n, cur, prop, b) : m.src = n /\ m.digest \notin badBlocks[n]
  BY DEF PreprepareFor, Msg
<1>6. msgs' = msgs \cup (IF cur.lockedHash # None THEN PreprepareFor(n, cur, prop, cur.Preprepare)
                         ELSE IF cur.pendingRequest # None
                         THEN PreprepareFor(n, cur, prop, cur.pendingRequest)
                         ELSE {})
  BY Zenon DEF NewRound, Broadcast
<1>. HIDE DEF cur, prop
<1>7. ProposesWell(n)
  BY <1>3, <1>4, <1>5, <1>6, Zenon DEF ProposesWell
<1>. QED
  BY <1>2, <1>7, Zenon

\* What every step of validator n does.
Sound(n) ==
  /\ EvidenceOf(n)' /\ OnlyCoreOf(n)
  /\ n \in Correct => Onward(n)
  /\ ProposesWell(n)

\* Every step is a sound step of some validator.
LEMMA SoundStep ==
  ASSUME SenderSizes, TypeOK, Evidence, Next
  PROVE  \E n \in Honest : Sound(n)
<1>1. ASSUME NEW n \in Honest
      PROVE  /\ n \in Validators /\ EvidenceOf(n) /\ current[n] \in RoundState
             /\ current[n].round \in Nat /\ current[n].sequence \in Nat
             /\ state[n] \in AcceptRequest .. Committed
  BY DEF Evidence, Honest, TypeOK, RoundState, Rounds
<1>2. ASSUME NEW n \in Honest, NEW b \in Blocks, HandleRequest(n, b)
      PROVE  Sound(n)
  <2>1. EvidenceOf(n)' /\ OnlyCoreOf(n)
    BY <1>1, <1>2, RequestEvidence, Zenon
  <2>2. Onward(n)
    <3>1. /\ current'[n].sequence = current[n].sequence /\ current'[n].round = current[n].round
          /\ UNCHANGED <<state, waiting>>
      BY <1>1, <1>2, Zenon DEF HandleRequest, TypeOK, RoundState
    <3>. QED
      BY <1>1, <3>1 DEF Onward, AcceptRequest, Committed
  <2>3. ProposesWell(n)
    <3>1. b \notin badBlocks[n]
      BY <1>1, <1>2, BadBlocksAssumption DEF HandleRequest, TypeOK, Honest
    <3>. QED
      BY <1>2, <3>1 DEF HandleRequest, Broadcast, PreprepareFor, Msg, ProposesWell
  <2>. QED
    BY <2>1, <2>2, <2>3, Zenon DEF Sound
<1>3. ASSUME NEW n \in Honest, NEW m \in Receivable(n, "PREPREPARE"), HandleOldPreprepare(n, m)
      PROVE  Sound(n)
  <2>1. UNCHANGED <<current, state, waiting, roundChangeSet>> /\ OnlyCoreOf(n)
    BY <1>3, Zenon DEF HandleOldPreprepare, OnlyCoreOf, Broadcast, coreVars, chainVars
  <2>2. EvidenceOf(n)'
    BY <1>1, <2>1, EvidenceKept, Zenon DEF OnlyCoreOf
  <2>3. Onward(n)
    BY <1>1, <2>1 DEF Onward, AcceptRequest, Committed
  <2>4. ProposesWell(n)
    BY <1>3 DEF HandleOldPreprepare, Broadcast, Msg, ProposesWell
  <2>. QED
    BY <2>1, <2>2, <2>3, <2>4, Zenon DEF Sound
<1>4. ASSUME NEW n \in Honest, NEW m \in Receivable(n, "PREPREPARE"),
             AcceptPreprepare(n, m) \/ AcceptLockedPreprepare(n, m)
      PROVE  Sound(n)
  <2>1. EvidenceOf(n)' /\ OnlyCoreOf(n)
    BY <1>1, <1>4, AcceptEvidence, Zenon
  <2>2. Onward(n)
    <3>1. /\ current'[n].sequence = current[n].sequence /\ current'[n].round = current[n].round
          /\ UNCHANGED waiting
      <4>1. current' = [current EXCEPT ![n].Preprepare = m.digest] /\ UNCHANGED waiting
        BY <1>4, Zenon DEF AcceptPreprepare, AcceptLockedPreprepare
      <4>. QED
        BY <1>1, <4>1 DEF TypeOK, RoundState
    <3>2. ~waiting[n] /\ state[n] <= state'[n]
      <4>1. m.code = "PREPREPARE" /\ IsCurrent(n, m) /\ state[n] = AcceptRequest
        BY <1>4, ReceivableType DEF AcceptPreprepare, AcceptLockedPreprepare
      <4>2. state'[n] \in {Preprepared, Prepared}
        BY <1>1, <1>4 DEF AcceptPreprepare, AcceptLockedPreprepare, TypeOK
      <4>. QED
        BY <4>1, <4>2 DEF IsCurrent, AcceptRequest, Preprepared, Prepared
    <3>. QED
      BY <3>1, <3>2, Zenon DEF Onward
  <2>3. ProposesWell(n)
    BY <1>4 DEF AcceptPreprepare, AcceptLockedPreprepare, Broadcast, PrepareFor, CommitFor, Msg, ProposesWell
  <2>. QED
    BY <2>1, <2>2, <2>3, Zenon DEF Sound
<1>5. ASSUME NEW n \in Honest, NEW m \in Receivable(n, "PREPREPARE"), RejectPreprepare(n, m)
      PROVE  Sound(n)
  <2>1. /\ SendRoundChange(n, current[n].round + 1, roundChangeSet[n]) /\ UNCHANGED badBlocks
        /\ current[n].round + 1 \in Nat
    BY <1>1, <1>5 DEF RejectPreprepare, SendNextRoundChange, chainVars
  <2>. QED
    BY <1>1, <2>1, AskEvidence, AskOnward, Zenon DEF Sound
<1>6. ASSUME NEW n \in Honest, NEW m \in Receivable(n, "PREPARE"), HandlePrepare(n, m)
      PROVE  Sound(n)
  <2>. DEFINE cur == [current[n] EXCEPT !.Prepares = @ \cup {m.src}]
              locked == [cur EXCEPT !.lockedHash = cur.Preprepare]
  <2>1. EvidenceOf(n)' /\ OnlyCoreOf(n)
    BY <1>1, <1>6, PrepareEvidence, Zenon
  <2>2. /\ cur.sequence = current[n].sequence /\ cur.round = current[n].round
        /\ locked.sequence = current[n].sequence /\ locked.round = current[n].round
    BY <1>1 DEF RoundState
  <2>3. \/ /\ current' = [current EXCEPT ![n] = locked] /\ state' = [state EXCEPT ![n] = Prepared]
           /\ state[n] < Prepared /\ msgs' = msgs \cup {CommitFor(n, cur.Preprepare)}
        \/ current' = [current EXCEPT ![n] = cur] /\ UNCHANGED <<state, msgs>>
    BY <1>6, Zenon DEF HandlePrepare, Broadcast
  <2>4. UNCHANGED waiting
    BY <1>6 DEF HandlePrepare
  <2>5. ProposesWell(n)
    BY <2>3 DEF CommitFor, Msg, ProposesWell
  <2>. HIDE DEF cur, locked
  <2>6. /\ current'[n].sequence = current[n].sequence /\ current'[n].round = current[n].round
        /\ state[n] <= state'[n]
    <3>1. /\ current \in [Validators -> RoundState]
          /\ state \in [Validators -> AcceptRequest .. Committed]
      BY Zenon DEF TypeOK
    <3>2. current'[n] \in {cur, locked}
      BY <1>1, <2>3, <3>1, Zenon
    <3>3. state'[n] = state[n] \/ (state[n] < Prepared /\ state'[n] = Prepared)
      BY <1>1, <2>3, <3>1, Zenon
    <3>. QED
      BY <1>1, <2>2, <3>2, <3>3 DEF AcceptRequest, Prepared, Committed
  <2>. QED
    BY <2>1, <2>4, <2>5, <2>6, Zenon DEF Sound, Onward
<1>7. ASSUME NEW n \in Honest, NEW m \in Receivable(n, "COMMIT"), HandleCommit(n, m)
      PROVE  Sound(n)
  <2>. DEFINE cur == [current[n] EXCEPT !.Commits = AddCommit(@, m.src, m.seal)]
              locked == [cur EXCEPT !.lockedHash = cur.Preprepare]
  <2>1. EvidenceOf(n)' /\ OnlyCoreOf(n)
    BY <1>1, <1>7, CommitEvidence, Zenon
  <2>2. /\ cur.sequence = current[n].sequence /\ cur.round = current[n].round
        /\ locked.sequence = current[n].sequence /\ locked.round = current[n].round
    BY <1>1 DEF RoundState
  <2>3. \/ /\ current' = [current EXCEPT ![n] = locked] /\ state' = [state EXCEPT ![n] = Committed]
           /\ state[n] < Committed
        \/ current' = [current EXCEPT ![n] = cur] /\ UNCHANGED state
    BY <1>7, Zenon DEF HandleCommit
  <2>4. UNCHANGED <<waiting, msgs>>
    BY <1>7 DEF HandleCommit
  <2>5. ProposesWell(n)
    BY <2>4, Zenon DEF ProposesWell
  <2>. HIDE DEF cur, locked
  <2>6. /\ current'[n].sequence = current[n].sequence /\ current'[n].round = current[n].round
        /\ state[n] <= state'[n]
    <3>1. /\ current \in [Validators -> RoundState]
          /\ state \in [Validators -> AcceptRequest .. Committed]
      BY DEF TypeOK
    <3>2. current'[n] \in {cur, locked}
      BY <1>1, <2>3, <3>1
    <3>3. state'[n] = state[n] \/ (state[n] < Committed /\ state'[n] = Committed)
      BY <1>1, <2>3, <3>1, Zenon
    <3>. QED
      BY <1>1, <2>2, <3>2, <3>3 DEF AcceptRequest, Committed
  <2>. QED
    BY <2>1, <2>4, <2>5, <2>6, Zenon DEF Sound, Onward
<1>8. ASSUME NEW n \in Honest, NEW m \in Receivable(n, "ROUNDCHANGE"), HandleRoundChange(n, m)
      PROVE  Sound(n)
  <2>1. EvidenceOf(n)' /\ OnlyCoreOf(n)
    BY <1>1, <1>8, RoundChangeEvidence, Zenon
  <2>2. m.round \in Rounds /\ m.round \in Nat /\ m.round >= current[n].round
    BY <1>8, ReceivableType DEF HandleRoundChange, IsCurrent, Rounds
  <2>3. \/ \E rcs : SendRoundChange(n, m.round, rcs)
        \/ Len(chain[n]) >= current[n].sequence /\ NewSequence(n)
        \/ (waiting[n] \/ current[n].round < m.round) /\ NewRound(n, m.round)
        \/ UNCHANGED <<current, state, waiting, msgs>>
    BY <1>8, Zenon DEF HandleRoundChange
  <2>4. CASE \E rcs : SendRoundChange(n, m.round, rcs)
    BY <1>1, <2>1, <2>2, <2>4, AskOnward, Zenon DEF Sound
  <2>5. CASE Len(chain[n]) >= current[n].sequence /\ NewSequence(n)
    BY <1>1, <2>1, <2>5, NewSequenceOnward, Zenon DEF Sound
  <2>6. CASE (waiting[n] \/ current[n].round < m.round) /\ NewRound(n, m.round)
    <3>1. m.round > current[n].round \/ (waiting[n] /\ m.round = current[n].round)
      BY <1>1, <2>2, <2>6
    <3>. QED
      BY <1>1, <2>1, <2>2, <2>6, <3>1, NewRoundOnward, Zenon DEF Sound
  <2>7. CASE UNCHANGED <<current, state, waiting, msgs>>
    BY <1>1, <2>1, <2>7 DEF Sound, Onward, ProposesWell, AcceptRequest, Committed
  <2>. QED
    BY <2>3, <2>4, <2>5, <2>6, <2>7, Zenon
<1>9. ASSUME NEW n \in Honest, HandleTimeout(n)
      PROVE  Sound(n)
  <2>1. \/ \E r \in Nat : SendRoundChange(n, r, roundChangeSet[n])
        \/ Len(chain[n]) >= current[n].sequence /\ NewSequence(n)
    BY <1>1, <1>9 DEF HandleTimeout, SendNextRoundChange, Rounds
  <2>2. UNCHANGED badBlocks
    BY <1>9, Zenon DEF HandleTimeout, chainVars
  <2>3. CASE \E r \in Nat : SendRoundChange(n, r, roundChangeSet[n])
    BY <1>1, <2>2, <2>3, AskEvidence, AskOnward, Zenon DEF Sound
  <2>4. CASE Len(chain[n]) >= current[n].sequence /\ NewSequence(n)
    BY <1>1, <2>2, <2>4, NewSequenceEvidence, NewSequenceOnward, Zenon DEF Sound
  <2>. QED
    BY <2>1, <2>3, <2>4, Zenon
<1>10. ASSUME NEW n \in Honest, HandleFinalCommitted(n) \/ Restart(n)
       PROVE  Sound(n)
  <2>1. /\ NewSequence(n) /\ UNCHANGED badBlocks
        /\ n \in Correct => Len(chain[n]) >= current[n].sequence
    BY <1>10 DEF HandleFinalCommitted, Restart, Correct, chainVars
  <2>. QED
    BY <1>1, <2>1, NewSequenceEvidence, NewSequenceOnward, Zenon DEF Sound
<1>11. ASSUME NEW n \in Honest, NEW d \in delivered, InsertBlock(n, d)
       PROVE  Sound(n)
  <2>1. UNCHANGED <<current, state, waiting, roundChangeSet, msgs>>
    BY <1>11, Zenon DEF InsertBlock, coreVars
  <2>2. OnlyCoreOf(n)
    <3>1. badBlocks' = [badBlocks EXCEPT ![n] = @ \cup {d.block}] \/ UNCHANGED badBlocks
      BY <1>11 DEF InsertBlock
    <3>2. badBlocks \in [Validators -> SUBSET BadBlocks]
      BY Zenon DEF TypeOK
    <3>. QED
      BY <2>1, <3>1, <3>2, Zenon DEF OnlyCoreOf
  <2>3. EvidenceOf(n)'
    BY <1>1, <2>1, <2>2, EvidenceKept, Zenon DEF OnlyCoreOf
  <2>4. Onward(n) /\ ProposesWell(n)
    BY <1>1, <2>1 DEF Onward, ProposesWell, AcceptRequest, Committed
  <2>. QED
    BY <2>2, <2>3, <2>4, Zenon DEF Sound
<1>. QED
  BY <1>2, <1>3, <1>4, <1>5, <1>6, <1>7, <1>8, <1>9, <1>10, <1>11, Zenon DEF Next

\* Every step keeps the evidence of every core.
LEMMA EvidenceStep ==
  ASSUME SenderSizes, TypeOK, Evidence, [Next]_vars
  PROVE  Evidence'
<1>. SUFFICES ASSUME NEW k \in Honest PROVE EvidenceOf(k)'
  BY DEF Evidence
<1>1. k \in Validators /\ EvidenceOf(k)
  BY Zenon DEF Evidence, Honest
<1>2. CASE UNCHANGED vars
  BY <1>1, <1>2, EvidenceKept DEF vars, coreVars, chainVars
<1>3. CASE Next
  <2>1. PICK n \in Honest : Sound(n)
    BY <1>3, SoundStep
  <2>2. CASE k = n
    BY <2>1, <2>2, Zenon DEF Sound
  <2>3. CASE k # n
    BY <1>1, <2>1, <2>3, EvidenceKept DEF Sound, OnlyCoreOf
  <2>. QED
    BY <2>2, <2>3
<1>. QED
  BY <1>2, <1>3

-----------------------------------------------------------------------------
(* Theorems *)
=============================================================================
