----------------------------- MODULE MCBFTCore -----------------------------
(***************************************************************************)
(* Small instances of BFTCore for TLC.                                     *)
(***************************************************************************)
EXTENDS BFTCore

CONSTANTS
  Authors,     \* validators whose miner seals a block
  Heights,     \* block numbers
  Ids,         \* blocks of one author and number
  BadAuthors,  \* validators whose blocks fail when executed
  ByzCodes,    \* kinds of messages that Byzantine validators send; {}: they are down
  ByzRounds    \* rounds they send them in

MCBlocks == [num : Heights, author : Authors, id : Ids]
MCBadBlocks == {b \in MCBlocks : b.author \in BadAuthors}

\* Everything a Byzantine validator can say with the given kinds of messages.
MCByzantineMsgs ==
  {Msg(code, n, b.num, r, b, IF code = "COMMIT" THEN b ELSE None) :
     code \in ByzCodes \ {"ROUNDCHANGE"}, n \in Byzantine, b \in Blocks, r \in ByzRounds}
  \cup {Msg(code, n, h, r + 1, None, None) :
     code \in ByzCodes \cap {"ROUNDCHANGE"}, n \in Byzantine, h \in Heights, r \in ByzRounds}

\* The part of a core that can still influence what it does: PREPAREs count
\* until the core is prepared and only next to COMMITs of other senders,
\* COMMITs until it is committed, a request as long as its sender can become
\* the proposer, ROUND CHANGEs for rounds to come, up to top; state and proposer of a
\* waiting core only tell whether it still answers requests.
Live(n, top) ==
  LET cur == current[n]
      later == {r \in 0 .. top : r > cur.round \/ (waiting[n] /\ r = cur.round)}
  IN [current |->
        [cur EXCEPT
           !.Prepares = IF state[n] < Prepared THEN @ \ DOMAIN cur.Commits ELSE {},
           !.Commits = IF state[n] < Committed THEN @ ELSE EmptyFunction,
           !.pendingRequest =
             IF @ # None /\ \E r \in later : CalcProposer(Author(n, cur.sequence - 1), r) = n
             THEN @ ELSE None],
      state |-> IF waiting[n] /\ state[n] # AcceptRequest THEN Committed ELSE state[n],
      waiting |-> waiting[n],
      proposer |-> IF waiting[n] /\ state[n] # AcceptRequest THEN 0 ELSE proposer[n],
      rcs |-> [r \in later |-> roundChangeSet[n][r]]]

\* Who delivered a block matters only if its seals do not verify.
LiveDelivered == {<<d.block, IF d.valid THEN None ELSE d.node>> : d \in delivered}

\* A PREPARE or ROUND CHANGE of a view that all validators have left for good is
\* ignored; the PREPAREs behind a lock are kept as LockJustified is about them.
LiveMsgs ==
  {m \in msgs :
     \/ m.code \in {"PREPREPARE", "COMMIT"}
     \/ \E n \in Honest :
          \/ n \in Restarting
          \/ ~IsOld(n, m)
          \/ m.code = "PREPARE" /\ m.digest = current[n].lockedHash}

\* States that differ only in what has no influence any more are one state.
ViewUpTo(top) == <<[n \in Honest |-> Live(n, top)], chain, badBlocks, LiveDelivered, LiveMsgs>>
View == ViewUpTo(MaxRound)
\* The view for liveness, where it matters whether a miner has asked.
FairView == <<View, [n \in Honest |-> current[n].pendingRequest]>>

\* Messages arrive, timers fire, miners ask once and blocks spread: no step that
\* changes what matters stays possible forever without being taken.
Fairness ==
  \A n \in Honest :
    /\ WF_FairView(\E b \in Blocks : current[n].pendingRequest = None /\ HandleRequest(n, b))
    /\ WF_FairView(\E m \in Receivable(n, "PREPREPARE") :
                 AcceptPreprepare(n, m) \/ AcceptLockedPreprepare(n, m) \/ RejectPreprepare(n, m))
    /\ WF_FairView(\E m \in Receivable(n, "PREPARE") : HandlePrepare(n, m))
    /\ WF_FairView(\E m \in Receivable(n, "COMMIT") : HandleCommit(n, m))
    /\ WF_FairView(\E m \in Receivable(n, "ROUNDCHANGE") : HandleRoundChange(n, m))
    /\ WF_FairView(HandleTimeout(n))
    /\ WF_FairView(\E d \in delivered : InsertBlock(n, d))

FairSpec == Spec /\ Fairness

\* Every running validator gets every block, the proposer of round 0 being
\* down: the round changes (handleTimeoutMsg, handleRoundChange) and the next
\* proposer takes over with the block its miner asked for.
EventuallyInserted == <>(\A n \in Honest : Len(chain[n]) = MaxSeq)
=============================================================================
