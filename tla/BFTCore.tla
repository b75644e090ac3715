------------------------------ MODULE BFTCore ------------------------------
(***************************************************************************)
(* The consensus core of the BFT engine (consensus/bft/core; the core of   *)
(* consensus/dbft is the same text): N validators that agree on one block  *)
(* per sequence number with PRE-PREPARE, PREPARE, COMMIT and ROUND CHANGE  *)
(* messages.                                                               *)
(*                                                                         *)
(* Each core handles its events one at a time (handleEvents), so a handler *)
(* is one action.  A message once broadcast stays in msgs, and may be      *)
(* handled by any validator, the sender included, at any time, in any      *)
(* order and more than once: this covers the asynchronous posts to the     *)
(* event mux, lost and late packets, the second delivery after the bounded *)
(* caches of known messages have forgotten a hash, the repost of a         *)
(* proposal with a future timestamp, and the backlog, which keeps a future *)
(* message and posts it again later.                                       *)
(***************************************************************************)
EXTENDS Naturals, FiniteSets, Sequences

CONSTANTS
  N,           \* number of validators; a validator is its index in the sorted set
  Byzantine,   \* validators that do not follow the protocol
  ByzantineMsgs, \* the messages they ever send
  Restarting,  \* validators whose engine may be stopped and started again
  Blocks,      \* the blocks that can be proposed: [num, author, id]
  BadBlocks,   \* blocks whose header is fine but that fail when executed
  MaxSeq,      \* bound: no validator starts a higher sequence
  MaxRound,    \* bound: no validator asks for a higher round
  Policy,      \* ProposerPolicy: "RoundRobin" or "Sticky"
  None         \* the empty hash, nil proposal, nil request, empty address

Validators == 0 .. N - 1

Honest == Validators \ Byzantine

\* The validators that follow the protocol and keep their lock.
Correct == Honest \ Restarting

ASSUME ValidatorsAssumption ==
  /\ N \in Nat \ {0}
  /\ Byzantine \subseteq Validators
  /\ Restarting \subseteq Validators

ASSUME BlocksAssumption ==
  /\ Blocks \subseteq [num : Nat \ {0}, author : Validators, id : Nat]
  /\ None \notin Blocks
  /\ None \notin Validators

\* A validator builds blocks that execute.
ASSUME BadBlocksAssumption ==
  BadBlocks \subseteq {b \in Blocks : b.author \in Byzantine}

ASSUME BoundsAssumption == MaxSeq \in Nat /\ MaxRound \in Nat

Rounds == 0 .. MaxRound

\* Variant: rounded down.
FFloor == (N \div 3) - (IF N < 3 THEN 0 ELSE 1)

\* defaultSet.F: ceil(N / 3) - 1.
F == ((N + 2) \div 3) - 1

AcceptRequest == 0
Preprepared == 1
Prepared == 2
Committed == 3

Codes == {"PREPREPARE", "PREPARE", "COMMIT", "ROUNDCHANGE"}

\* A block stands for its hash, a hash for its block.  A seal is the block
\* whose hash the sender signed.
Message ==
  [code : Codes, src : Validators, seq : Nat, round : Rounds,
   digest : Blocks \cup {None}, seal : Blocks \cup {None}]

Msg(code, n, s, r, digest, seal) ==
  [code |-> code, src |-> n, seq |-> s, round |-> r, digest |-> digest, seal |-> seal]

\* A Byzantine validator signs as itself, and names a block of the sequence
\* number that its message is about.
ASSUME ByzantineAssumption ==
  /\ ByzantineMsgs \subseteq Message
  /\ \A m \in ByzantineMsgs :
       /\ m.src \in Byzantine
       /\ m.code # "ROUNDCHANGE" => m.digest \in Blocks /\ m.digest.num = m.seq

VARIABLES
  current,         \* roundState of each core
  state,           \* core.state
  waiting,         \* core.waitingForRoundChange
  proposer,        \* the proposer that core.valSet has computed last
  roundChangeSet,  \* per round, the validators whose ROUND CHANGE was counted
  chain,           \* the blocks in the validator's blockchain, above genesis
  badBlocks,       \* the blocks the validator's blockchain has reported as bad
  delivered,       \* calls of backend.Commit: who, which block, are all seals on it
  msgs             \* messages broadcast so far

coreVars == <<current, state, waiting, proposer, roundChangeSet>>
chainVars == <<chain, badBlocks>>
vars == <<coreVars, chainVars, delivered, msgs>>

\* messageSet: the seal that came with the COMMIT of each sender.
CommitMap == UNION {[S -> Blocks \cup {None}] : S \in SUBSET Validators}

RoundState ==
  [sequence : Nat \ {0}, round : Rounds, Preprepare : Blocks \cup {None},
   Prepares : SUBSET Validators,
   Commits : CommitMap,
   lockedHash : Blocks \cup {None}, pendingRequest : Blocks \cup {None}]

\* Every variable keeps its type.
TypeOK ==
  /\ current \in [Validators -> RoundState]
  /\ state \in [Validators -> AcceptRequest .. Committed]
  /\ waiting \in [Validators -> BOOLEAN]
  /\ proposer \in [Validators -> Validators]
  /\ roundChangeSet \in [Validators -> [Rounds -> SUBSET Validators]]
  /\ chain \in [Validators -> Seq(Blocks)]
  /\ badBlocks \in [Validators -> SUBSET BadBlocks]
  /\ delivered \subseteq [node : Validators, block : Blocks, valid : BOOLEAN]
  /\ msgs \subseteq Message

-----------------------------------------------------------------------------
(* The validator set *)

\* roundRobinProposer and stickyProposer: the validator that follows, or is,
\* the author of the last block, moved on by the round.
CalcProposer(last, r) ==
  IF last = None
  THEN r % N
  ELSE (last + r + (IF Policy = "RoundRobin" THEN 1 ELSE 0)) % N

\* The author of block number h of n's chain; none for the genesis block.
Author(n, h) == IF h = 0 THEN None ELSE chain[n][h].author

-----------------------------------------------------------------------------
(* Round state and messages *)

EmptyFunction == [v \in {} |-> None]

NewRoundState(s, r, lockedHash, preprepare, request) ==
  [sequence |-> s, round |-> r, Preprepare |-> preprepare,
   Prepares |-> {}, Commits |-> EmptyFunction,
   lockedHash |-> lockedHash, pendingRequest |-> request]

\* Variant: a lock holds even if the block has failed.
IsHashLockedAlways(n) == current[n].lockedHash # None

\* IsHashLocked: a lock on a block that the chain has reported as bad is void.
IsHashLocked(n) ==
  /\ current[n].lockedHash # None
  /\ current[n].lockedHash \notin badBlocks[n]

\* messageSet.Add: one message per sender, the last one wins.
AddCommit(commits, src, seal) ==
  [v \in DOMAIN commits \cup {src} |-> IF v = src THEN seal ELSE commits[v]]

\* Variant: the duplicates are not taken out.
PrepareOrCommitSizeTwice(cur) ==
  Cardinality(cur.Prepares) + Cardinality(DOMAIN cur.Commits)

\* GetPrepareOrCommitSize: senders of a PREPARE or of a COMMIT.
PrepareOrCommitSize(cur) == Cardinality(cur.Prepares \cup DOMAIN cur.Commits)

\* View.Cmp: is view (s1, r1) before view (s2, r2)?
Before(s1, r1, s2, r2) == s1 < s2 \/ (s1 = s2 /\ r1 < r2)

IsOld(n, m) == Before(m.seq, m.round, current[n].sequence, current[n].round)

\* checkMessage returns nil: the message is for now, neither old nor future.
IsCurrent(n, m) ==
  IF m.code = "ROUNDCHANGE"
  THEN m.seq = current[n].sequence /\ m.round >= current[n].round
  ELSE /\ m.seq = current[n].sequence
       /\ m.round = current[n].round
       /\ ~waiting[n]
       /\ state[n] = AcceptRequest => m.code = "PREPREPARE"

\* The messages that validator n may be handed now.
Receivable(n, code) == {m \in msgs \cup ByzantineMsgs : m.code = code}

Broadcast(ms) == msgs' = msgs \cup ms

\* sendPreprepare: what n broadcasts to propose b when cur is its round state
\* and prop the proposer it knows.
PreprepareFor(n, cur, prop, b) ==
  IF cur.sequence = b.num /\ prop = n
  THEN {Msg("PREPREPARE", n, cur.sequence, cur.round, b, None)}
  ELSE {}

\* sendPrepare and sendCommit on the accepted proposal b; the committed seal
\* of a COMMIT signs the current proposal (finalizeMessage).
PrepareFor(n, b) ==
  Msg("PREPARE", n, current[n].sequence, current[n].round, b, None)
CommitFor(n, b) ==
  Msg("COMMIT", n, current[n].sequence, current[n].round, b, b)

-----------------------------------------------------------------------------
(* Rounds and sequences *)

\* startNewRound on the sequence after the last block: nothing is kept.
NewSequence(n) ==
  LET s == Len(chain[n])
  IN /\ s < MaxSeq
     /\ current' = [current EXCEPT ![n] = NewRoundState(s + 1, 0, None, None, None)]
     /\ state' = [state EXCEPT ![n] = AcceptRequest]
     /\ waiting' = [waiting EXCEPT ![n] = FALSE]
     /\ proposer' = [proposer EXCEPT ![n] = CalcProposer(Author(n, s), 0)]
     /\ roundChangeSet' = [roundChangeSet EXCEPT ![n] = [r \in Rounds |-> {}]]
     /\ UNCHANGED msgs

\* Variant: the lock is lost with the round.
KeepLockDropped(n, r) ==
  NewRoundState(current[n].sequence, r, None, None, current[n].pendingRequest)

\* updateRoundState for another round of the same sequence: a lock is kept
\* with its proposal.
KeepLock(n, r) ==
  LET cur == current[n]
  IN IF IsHashLocked(n)
     THEN NewRoundState(cur.sequence, r, cur.lockedHash, cur.Preprepare, cur.pendingRequest)
     ELSE NewRoundState(cur.sequence, r, None, None, cur.pendingRequest)

\* Variant: only a locked block is proposed again.
NewRoundForgetsRequest(n, r) ==
  LET cur == KeepLock(n, r)
      prop == CalcProposer(Author(n, cur.sequence - 1), r)
  IN /\ current' = [current EXCEPT ![n] = cur]
     /\ state' = [state EXCEPT ![n] = AcceptRequest]
     /\ waiting' = [waiting EXCEPT ![n] = FALSE]
     /\ proposer' = [proposer EXCEPT ![n] = prop]
     /\ roundChangeSet' = [roundChangeSet EXCEPT ![n] = [q \in Rounds |-> {}]]
     /\ Broadcast(IF cur.lockedHash # None THEN PreprepareFor(n, cur, prop, cur.Preprepare) ELSE {})

\* startNewRound on round r of the same sequence: the new proposer proposes
\* the block it is locked on, or else the block its miner asked for.
NewRound(n, r) ==
  LET cur == KeepLock(n, r)
      prop == CalcProposer(Author(n, cur.sequence - 1), r)
  IN /\ current' = [current EXCEPT ![n] = cur]
     /\ state' = [state EXCEPT ![n] = AcceptRequest]
     /\ waiting' = [waiting EXCEPT ![n] = FALSE]
     /\ proposer' = [proposer EXCEPT ![n] = prop]
     /\ roundChangeSet' = [roundChangeSet EXCEPT ![n] = [q \in Rounds |-> {}]]
     /\ Broadcast(IF cur.lockedHash # None THEN PreprepareFor(n, cur, prop, cur.Preprepare)
                  ELSE IF cur.pendingRequest # None THEN PreprepareFor(n, cur, prop, cur.pendingRequest)
                  ELSE {})

\* Variant: the core does not wait for the others.
SendRoundChangeEager(n, r, rcs) ==
  /\ r > current[n].round
  /\ r <= MaxRound
  /\ current' = [current EXCEPT ![n] = KeepLock(n, r)]
  /\ roundChangeSet' = [roundChangeSet EXCEPT ![n] =
                          [q \in Rounds |-> IF q < r THEN {} ELSE rcs[q]]]
  /\ Broadcast({Msg("ROUNDCHANGE", n, current[n].sequence, r, None, None)})
  /\ UNCHANGED <<waiting, state, proposer>>

\* sendRoundChange: move to round r, keep the lock, wait for the others.
\* The proposer and core.state stay what they were.
SendRoundChange(n, r, rcs) ==
  /\ r > current[n].round
  /\ r <= MaxRound
  /\ current' = [current EXCEPT ![n] = KeepLock(n, r)]
  /\ waiting' = [waiting EXCEPT ![n] = TRUE]
  /\ roundChangeSet' = [roundChangeSet EXCEPT ![n] =
                          [q \in Rounds |-> IF q < r THEN {} ELSE rcs[q]]]
  /\ Broadcast({Msg("ROUNDCHANGE", n, current[n].sequence, r, None, None)})
  /\ UNCHANGED <<state, proposer>>

SendNextRoundChange(n) ==
  SendRoundChange(n, current[n].round + 1, roundChangeSet[n])

-----------------------------------------------------------------------------
(* Handlers *)

\* handleRequest for a block that n's miner has sealed on some head its chain
\* has had.  A request for a later sequence is put aside and posted again when
\* that sequence starts, so it arrives then.
HandleRequest(n, b) ==
  /\ b.author = n
  /\ b.num = current[n].sequence
  /\ b.num <= Len(chain[n]) + 1
  /\ current' = [current EXCEPT ![n].pendingRequest = b]
  /\ Broadcast(IF state[n] = AcceptRequest
               THEN PreprepareFor(n, current[n], proposer[n], b) ELSE {})
  /\ UNCHANGED <<state, waiting, proposer, roundChangeSet, chainVars, delivered>>

\* handlePreprepare, old view: answer a proposal of the rightful proposer that
\* is already in the chain with a COMMIT.  finalizeMessage seals the current
\* proposal, if there is one, and not the old block.
HandleOldPreprepare(n, m) ==
  /\ IsOld(n, m)
  /\ m.seq <= Len(chain[n])
  /\ chain[n][m.seq] = m.digest
  /\ m.src = CalcProposer(Author(n, m.seq - 1), m.round)
  /\ Broadcast({Msg("COMMIT", n, m.seq, m.round, m.digest, current[n].Preprepare)})
  /\ UNCHANGED <<coreVars, chainVars, delivered>>

\* backend.Verify: the block has not failed before.
Verify(n, b) == b \notin badBlocks[n]

\* handlePreprepare, no lock: accept and PREPARE.
AcceptPreprepare(n, m) ==
  /\ IsCurrent(n, m)
  /\ m.src = proposer[n]
  /\ Verify(n, m.digest)
  /\ state[n] = AcceptRequest
  /\ ~IsHashLocked(n)
  /\ current' = [current EXCEPT ![n].Preprepare = m.digest]
  /\ state' = [state EXCEPT ![n] = Preprepared]
  /\ Broadcast({PrepareFor(n, m.digest)})
  /\ UNCHANGED <<waiting, proposer, roundChangeSet, chainVars, delivered>>

\* handlePreprepare on the locked block: accept and COMMIT at once.
AcceptLockedPreprepare(n, m) ==
  /\ IsCurrent(n, m)
  /\ m.src = proposer[n]
  /\ Verify(n, m.digest)
  /\ state[n] = AcceptRequest
  /\ IsHashLocked(n)
  /\ m.digest = current[n].lockedHash
  /\ current' = [current EXCEPT ![n].Preprepare = m.digest]
  /\ state' = [state EXCEPT ![n] = Prepared]
  /\ Broadcast({CommitFor(n, m.digest)})
  /\ UNCHANGED <<waiting, proposer, roundChangeSet, chainVars, delivered>>

\* handlePreprepare of a block that does not verify, or that is not the
\* locked one: ask for the next round.
RejectPreprepare(n, m) ==
  /\ IsCurrent(n, m)
  /\ m.src = proposer[n]
  /\ \/ ~Verify(n, m.digest)
     \/ /\ state[n] = AcceptRequest
        /\ IsHashLocked(n)
        /\ m.digest # current[n].lockedHash
  /\ SendNextRoundChange(n)
  /\ UNCHANGED <<chainVars, delivered>>

\* handlePrepare: count the PREPARE; with enough of them, or on the locked
\* block, lock the proposal and COMMIT.  (Here and below, a message that was
\* counted before and changes nothing is not a step.)
HandlePrepare(n, m) ==
  LET cur == [current[n] EXCEPT !.Prepares = @ \cup {m.src}]
      prepared == /\ \/ IsHashLocked(n) /\ m.digest = cur.lockedHash
                     \/ PrepareOrCommitSize(cur) > 2 * F
                  /\ state[n] < Prepared
  IN /\ IsCurrent(n, m)
     /\ cur.Preprepare # None
     /\ m.digest = cur.Preprepare
     /\ IF prepared
        THEN /\ current' = [current EXCEPT ![n] = [cur EXCEPT !.lockedHash = cur.Preprepare]]
             /\ state' = [state EXCEPT ![n] = Prepared]
             /\ Broadcast({CommitFor(n, cur.Preprepare)})
        ELSE /\ m.src \notin current[n].Prepares
             /\ current' = [current EXCEPT ![n] = cur]
             /\ UNCHANGED <<state, msgs>>
     /\ UNCHANGED <<waiting, proposer, roundChangeSet, chainVars, delivered>>

\* handleCommit: count the COMMIT; with enough of them lock the proposal and
\* deliver it to the backend with the seals of the counted COMMITs.
HandleCommit(n, m) ==
  LET cur == [current[n] EXCEPT !.Commits = AddCommit(@, m.src, m.seal)]
      b == cur.Preprepare
  IN /\ IsCurrent(n, m)
     /\ b # None
     /\ m.digest = b
     /\ IF Cardinality(DOMAIN cur.Commits) > 2 * F /\ state[n] < Committed
        THEN /\ current' = [current EXCEPT ![n] = [cur EXCEPT !.lockedHash = b]]
             /\ state' = [state EXCEPT ![n] = Committed]
             /\ delivered' = delivered \cup
                  {[node |-> n, block |-> b,
                    valid |-> \A v \in DOMAIN cur.Commits : cur.Commits[v] = b]}
        ELSE /\ cur # current[n]
             /\ current' = [current EXCEPT ![n] = cur]
             /\ UNCHANGED <<state, delivered>>
     /\ UNCHANGED <<waiting, proposer, roundChangeSet, chainVars, msgs>>

\* handleRoundChange: count the message.  F + 1 of them make a waiting
\* validator catch up, 2F + 1 start the round.
HandleRoundChange(n, m) ==
  LET senders == roundChangeSet[n][m.round] \cup {m.src}
      rcs == [roundChangeSet[n] EXCEPT ![m.round] = senders]
      num == Cardinality(senders)
      behind == current[n].round < m.round
  IN /\ IsCurrent(n, m)
     /\ IF waiting[n] /\ num = F + 1 /\ behind
        THEN SendRoundChange(n, m.round, rcs)
        ELSE IF ~(waiting[n] /\ num = F + 1) /\ num = 2 * F + 1 /\ (waiting[n] \/ behind)
        THEN IF Len(chain[n]) >= current[n].sequence THEN NewSequence(n) ELSE NewRound(n, m.round)
        ELSE /\ m.src \notin roundChangeSet[n][m.round]
             /\ roundChangeSet' = [roundChangeSet EXCEPT ![n] = rcs]
             /\ UNCHANGED <<current, state, waiting, proposer, msgs>>
     /\ UNCHANGED <<chainVars, delivered>>

\* handleTimeoutMsg: catch up with the highest round that F + 1 validators
\* ask for, or with the chain, or ask for the next round.
HandleTimeout(n) ==
  LET wanted == {r \in Rounds : Cardinality(roundChangeSet[n][r]) >= F + 1}
      ahead == {r \in wanted : r > current[n].round /\ \A q \in wanted : q <= r}
  IN /\ IF ~waiting[n] /\ ahead # {}
        THEN \E r \in ahead : SendRoundChange(n, r, roundChangeSet[n])
        ELSE IF Len(chain[n]) >= current[n].sequence
        THEN NewSequence(n)
        ELSE SendNextRoundChange(n)
     /\ UNCHANGED <<chainVars, delivered>>

\* Variant: the event is not compared with the sequence.
HandleFinalCommittedAlways(n) ==
  /\ NewSequence(n)
  /\ UNCHANGED <<chainVars, delivered>>

\* handleFinalCommitted: the chain has a new head.
HandleFinalCommitted(n) ==
  /\ Len(chain[n]) >= current[n].sequence
  /\ NewSequence(n)
  /\ UNCHANGED <<chainVars, delivered>>

\* Engine stopped and started again: handleEvents drops the round state,
\* lock included, and Start begins on the chain's head.
Restart(n) ==
  /\ n \in Restarting
  /\ NewSequence(n)
  /\ UNCHANGED <<chainVars, delivered>>

\* Variant: any block above the head is appended.
InsertBlockAbove(n, d) ==
  /\ d.block.num > Len(chain[n])
  /\ d.valid \/ (d.node = n /\ d.block.author = n)
  /\ IF d.block \in BadBlocks
     THEN /\ badBlocks' = [badBlocks EXCEPT ![n] = @ \cup {d.block}]
          /\ UNCHANGED chain
     ELSE /\ chain' = [chain EXCEPT ![n] = Append(@, d.block)]
          /\ UNCHANGED badBlocks
  /\ UNCHANGED <<coreVars, delivered, msgs>>

\* The next block of n's chain arrives: through the commit channel for a block
\* of its own that Seal waits for, through the fetcher for any other, which
\* verifies the committed seals.
InsertBlock(n, d) ==
  /\ d.block.num = Len(chain[n]) + 1
  /\ d.valid \/ (d.node = n /\ d.block.author = n)
  /\ IF d.block \in BadBlocks
     THEN /\ badBlocks' = [badBlocks EXCEPT ![n] = @ \cup {d.block}]
          /\ UNCHANGED chain
     ELSE /\ chain' = [chain EXCEPT ![n] = Append(@, d.block)]
          /\ UNCHANGED badBlocks
  /\ UNCHANGED <<coreVars, delivered, msgs>>

-----------------------------------------------------------------------------
Init ==
  /\ current = [n \in Validators |-> NewRoundState(1, 0, None, None, None)]
  /\ state = [n \in Validators |-> AcceptRequest]
  /\ waiting = [n \in Validators |-> FALSE]
  /\ proposer = [n \in Validators |-> CalcProposer(None, 0)]
  /\ roundChangeSet = [n \in Validators |-> [r \in Rounds |-> {}]]
  /\ chain = [n \in Validators |-> <<>>]
  /\ badBlocks = [n \in Validators |-> {}]
  /\ delivered = {}
  /\ msgs = {}

Next ==
  \E n \in Honest :
    \/ \E b \in Blocks : HandleRequest(n, b)
    \/ \E m \in Receivable(n, "PREPREPARE") :
         \/ HandleOldPreprepare(n, m)
         \/ AcceptPreprepare(n, m)
         \/ AcceptLockedPreprepare(n, m)
         \/ RejectPreprepare(n, m)
    \/ \E m \in Receivable(n, "PREPARE") : HandlePrepare(n, m)
    \/ \E m \in Receivable(n, "COMMIT") : HandleCommit(n, m)
    \/ \E m \in Receivable(n, "ROUNDCHANGE") : HandleRoundChange(n, m)
    \/ HandleTimeout(n)
    \/ HandleFinalCommitted(n)
    \/ Restart(n)
    \/ \E d \in delivered : InsertBlock(n, d)

Spec == Init /\ [][Next]_vars

-----------------------------------------------------------------------------
(* Properties *)

\* Messages that some validator has sent.
Sent == msgs \cup ByzantineMsgs

\* No two validators deliver (commit, core.go) different blocks of the same
\* number; blocks that fail to execute, which no chain takes, are exempt.
Agreement ==
  \A d, e \in delivered :
    (d.block.num = e.block.num /\ d.block \notin BadBlocks /\ e.block \notin BadBlocks)
      => d.block = e.block

\* The blocks delivered so far that execute.
Decided == {d.block : d \in delivered} \ BadBlocks

\* A COMMIT that carries the sender's seal on the block it names; the answer
\* to a PRE-PREPARE for an old block need not.
SealedCommits(n) ==
  {m \in msgs : m.code = "COMMIT" /\ m.src = n /\ m.seal = m.digest /\ m.digest \notin BadBlocks}

\* Validator n is bound to b: it has sealed b and no other block of that
\* number, and is locked on it for as long as it works on that number.
Pledged(n, b) ==
  /\ \E m \in SealedCommits(n) : m.digest = b
  /\ \A m \in SealedCommits(n) : m.seq = b.num => m.digest = b
  /\ b.num = current[n].sequence => current[n].lockedHash = b
  /\ b.num <= current[n].sequence

\* A validator that seals a block is bound to it through every change of round
\* (updateRoundState keeps the lock), unless the number was decided before.
CommitLock ==
  \A n \in Correct : \A m \in SealedCommits(n) :
    Pledged(n, m.digest) \/ \E b \in Decided : b.num = m.seq

\* The senders in ms of a PREPARE or COMMIT for block b in view (s, r).
Voters(ms, s, r, b) ==
  {v \in Validators :
     \E m \in ms : /\ m.code \in {"PREPARE", "COMMIT"} /\ m.src = v
                   /\ m.seq = s /\ m.round = r /\ m.digest = b}

\* The senders in ms of a ROUND CHANGE to view (s, r).
Askers(ms, s, r) ==
  {v \in Validators :
     \E m \in ms : m.code = "ROUNDCHANGE" /\ m.src = v /\ m.seq = s /\ m.round = r}

\* Behind every lock stand 2F + 1 validators that sent a PREPARE or COMMIT for
\* the locked block in one and the same round (handlePrepare, handleCommit).
LockJustified ==
  \A n \in Honest :
    LET cur == current[n]
    IN cur.lockedHash # None =>
         \E r \in 0 .. cur.round :
           Cardinality(Voters(Sent, cur.sequence, r, cur.lockedHash)) >= 2 * F + 1

\* A validator works in a round above 0 only if 2F + 1 validators asked for
\* that round, and waits no longer than until it knows so many ("We've received
\* 2f+1 ROUND CHANGE messages, start a new round immediately", roundchange.go).
RoundJustified ==
  \A n \in Honest :
    LET cur == current[n]
    IN IF waiting[n] THEN Cardinality(roundChangeSet[n][cur.round]) < 2 * F + 1
       ELSE cur.round > 0 => Cardinality(Askers(Sent, cur.sequence, cur.round)) >= 2 * F + 1

\* Validator n moves to a later view, or stays in its view and there, once it
\* has started it, keeps to the order of states.
Onward(n) ==
  LET old == current[n]
      new == current'[n]
  IN \/ Before(old.sequence, old.round, new.sequence, new.round)
     \/ /\ old.sequence = new.sequence /\ old.round = new.round
        /\ waiting[n] \/ (~waiting'[n] /\ state[n] <= state'[n])

\* A core never returns to an earlier view, and within a view it has started
\* never to an earlier state.
NeverBack == [][\A n \in Correct : Onward(n)]_<<current, state, waiting>>

\* A validator never proposes a block that its own chain has reported as bad:
\* the lock on it is given up (IsHashLocked) and the pending request proposed.
NeverProposesBad ==
  [][\A m \in msgs' \ msgs :
       m.code = "PREPREPARE" => m.digest \notin badBlocks[m.src]]_msgs

\* A delivered block can be put into the chain by all validators: each of its
\* committed seals is on the block ("The delivered proposal will be put into
\* blockchain.", consensus/bft/backend.go).
DeliveredSealed == \A d \in delivered : d.valid

\* The blocks delivered to the backends and the chains behave like the
\* abstract ledger.
DecidedLedger ==
  INSTANCE Ledger WITH decided <- Decided

RefinesLedger == DecidedLedger!Spec

-----------------------------------------------------------------------------
(* Why Agreement holds: its inductive invariant *)

\* Any two sets of 2F + 1 validators have a correct validator in common.
QuorumsMeet == N + Cardinality(Byzantine \cup Restarting) <= 4 * F + 1

\* Every vote names a block of the sequence number it is about.
MsgShape ==
  \A m \in Sent : m.code # "ROUNDCHANGE" => m.digest \in Blocks /\ m.digest.num = m.seq

\* A lock comes with its proposal, a proposal has the number of the sequence,
\* and the COMMITs that are counted are for the proposal.
CoreShape ==
  \A n \in Validators :
    LET cur == current[n]
    IN /\ cur.lockedHash # None => cur.Preprepare # None
       /\ cur.lockedHash \notin BadBlocks \cup {None} => cur.Preprepare = cur.lockedHash
       /\ cur.Preprepare # None => cur.Preprepare.num = cur.sequence
       /\ state[n] = AcceptRequest => DOMAIN cur.Commits = {}
       /\ \A v \in DOMAIN cur.Commits :
            \E m \in Sent : /\ m.code = "COMMIT" /\ m.src = v
                            /\ m.seq = cur.sequence /\ m.digest = cur.Preprepare

\* Chains consist of delivered blocks, in their order.
ChainDecided ==
  \A n \in Validators : \A i \in 1 .. Len(chain[n]) :
    chain[n][i] \in Decided /\ chain[n][i].num = i

\* A COMMIT without a seal on its block answers for a block that is decided.
UnsealedDecided ==
  \A m \in msgs : (m.code = "COMMIT" /\ m.seal # m.digest) => m.digest \in Decided

\* Behind every delivered block stand 2F + 1 validators of which the correct
\* ones can never seal another block of that number.
DecidedPledged ==
  \A b \in Decided :
    \E Q \in SUBSET Validators :
      /\ Cardinality(Q) >= 2 * F + 1
      /\ \A n \in Q \cap Correct : Pledged(n, b)

\* The inductive invariant of the agreement proof: every delivered block
\* (core.commit) has a quorum whose correct members are locked on it for good.
AgreementInv ==
  /\ MsgShape
  /\ CoreShape
  /\ ChainDecided
  /\ UnsealedDecided
  /\ CommitLock
  /\ DecidedPledged
  /\ Agreement
=============================================================================
