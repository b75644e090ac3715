----------------------------- MODULE BFTBacklog -----------------------------
(***************************************************************************)
(* The backlog of one BFT core for one other validator: messages that come *)
(* too early wait in a priority queue, and every change of state tries them *)
(* again, from the front until one is still too early.  BFTCore lets a     *)
(* message wait in the network instead; here is why no message that could  *)
(* be handled is kept back.                                                *)
(***************************************************************************)
EXTENDS Integers, FiniteSets

CONSTANTS
  Sequences,      \* block numbers
  BacklogRounds,  \* rounds
  MaxBacklog      \* bound: messages that wait at one time

Mantissa == 16777216  \* 2^24, what a float32 counts up to

\* The comment of toPriority limits rounds; numbers below 2^30 are priorities here.
ASSUME BacklogAssumption ==
  /\ Sequences \subseteq Nat /\ Sequences # {} /\ \A seq \in Sequences : 1000 * (seq + 1) <= 64 * Mantissa
  /\ BacklogRounds \subseteq Nat /\ 0 \in BacklogRounds /\ \A round \in BacklogRounds : round <= 99
  /\ MaxBacklog \in Nat

VARIABLES
  view,      \* currentView
  accepting, \* state is StateAcceptRequest
  awaiting,  \* waitingForRoundChange
  backlog,   \* messages in the queue
  events     \* backlogEvents that were posted

backlogVars == <<view, accepting, awaiting, backlog, events>>

Views == [seq : Sequences, round : BacklogRounds]
BacklogMsgs == [code : {"PREPREPARE", "PREPARE", "COMMIT", "ROUNDCHANGE"}, view : Views]

\* View.Cmp
Before(v, w) == v.seq < w.seq \/ (v.seq = w.seq /\ v.round < w.round)

checkMessage(m) ==
  IF m.code = "ROUNDCHANGE"
  THEN CASE m.view.seq > view.seq -> "future"
         [] Before(m.view, view)  -> "old"
         [] OTHER                 -> "ok"
  ELSE CASE Before(view, m.view) -> "future"
         [] Before(m.view, view) -> "old"
         [] m.view = view /\ (awaiting \/ (accepting /\ m.code # "PREPREPARE")) -> "future"
         [] OTHER -> "ok"

\* What a float32, with its 24 bits, makes of a number: a multiple of unit.
Float32(x) ==
  LET unit == CHOOSE u \in {1, 2, 4, 8, 16, 32, 64} : x < Mantissa * u /\ (u = 1 \/ 2 * x >= Mantissa * u)
      low == x % unit
      down == x - low
      odd == (down \div unit) % 2 = 1
  IN IF 2 * low > unit \/ (2 * low = unit /\ odd) THEN down + unit ELSE down

msgPriority(code) == CASE code = "PREPREPARE" -> 1 [] code = "COMMIT" -> 2 [] code = "PREPARE" -> 3

\* A variant that sorts by round first.
toPriorityByRound(m) ==
  IF m.code = "ROUNDCHANGE" THEN m.view.round * 1000
  ELSE m.view.round * 1000 + m.view.seq * 10 + msgPriority(m.code)

\* The smaller, the sooner; the code negates it for a queue that prefers the larger.
toPriority(m) ==
  IF m.code = "ROUNDCHANGE" THEN Float32(m.view.seq * 1000)
  ELSE Float32(m.view.seq * 1000 + m.view.round * 10 + msgPriority(m.code))
-----------------------------------------------------------------------------
BacklogInit ==
  /\ \E seq \in Sequences : (\A s \in Sequences : seq <= s) /\ view = [seq |-> seq, round |-> 0]
  /\ accepting = TRUE /\ awaiting = FALSE
  /\ backlog = {} /\ events = {}

\* Messages leave the queue up to the first that is too early; of messages with
\* equal priority any may come first.
Popped ==
  LET future == {m \in backlog : checkMessage(m)' = "future"}
  IN {{m \in backlog : \A f \in future : toPriority(m) < toPriority(f)} \cup R :
        R \in SUBSET {m \in backlog \ future : \A f \in future : toPriority(m) <= toPriority(f)}}

\* processBacklog, in the state that the core has come to.
processBacklog ==
  \E R \in Popped :
    /\ backlog' = backlog \ R
    /\ events' = events \cup {m \in R : checkMessage(m)' = "ok"}

\* handleCheckedMsg, as far as the backlog is concerned.
Receive(m, rest) ==
  /\ backlog' = IF checkMessage(m) = "future" THEN backlog \cup {m} ELSE backlog
  /\ events' = rest
  /\ UNCHANGED <<view, accepting, awaiting>>

ReceiveMsg(m) == Cardinality(backlog \cup events) < MaxBacklog /\ Receive(m, events)
ReceiveEvent(m) == m \in events /\ Receive(m, events \ {m})

\* startNewRound, for a new sequence or another round of this one.
StartNewRound(v) ==
  /\ Before(view, v) \/ (v = view /\ awaiting)
  /\ v.seq > view.seq => v.round = 0
  /\ view' = v /\ accepting' = TRUE /\ awaiting' = FALSE
  /\ processBacklog

\* catchUpRound; the backlog is not looked at.
CatchUpRound(round) ==
  /\ round > view.round
  /\ view' = [view EXCEPT !.round = round] /\ awaiting' = TRUE
  /\ UNCHANGED <<accepting, backlog, events>>

\* setState(StatePreprepared), when a PREPREPARE was accepted.
SetPreprepared ==
  /\ accepting /\ ~ awaiting
  /\ accepting' = FALSE /\ UNCHANGED <<view, awaiting>>
  /\ processBacklog

BacklogNext ==
  \/ \E m \in BacklogMsgs : ReceiveMsg(m)
  \/ \E m \in events : ReceiveEvent(m)
  \/ \E v \in Views : StartNewRound(v)
  \/ \E round \in BacklogRounds : CatchUpRound(round)
  \/ SetPreprepared

BacklogSpec == BacklogInit /\ [][BacklogNext]_backlogVars
-----------------------------------------------------------------------------
\* No message that the core could handle now stays in the queue behind one that
\* is too early: in whatever order messages came and rounds changed, what is
\* queued is early or out of date (toPriority, processBacklog).
NoneLeftBehind == \A m \in backlog : checkMessage(m) # "ok"
=============================================================================
