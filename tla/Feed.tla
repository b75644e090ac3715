-------------------------------- MODULE Feed --------------------------------
(***************************************************************************)
(* event.Feed: values go to the channels of all subscribers.  One Send at  *)
(* a time holds sendLock and goes through sendCases, whose first part,     *)
(* active, are the channels that still need the value; a channel that got  *)
(* it is swapped behind that part, and an Unsubscribe in between shifts it *)
(* out of the list.  New subscribers wait in the inbox for the next Send.  *)
(***************************************************************************)
EXTENDS Naturals, Sequences, FiniteSets, SequencesExt

CONSTANTS
  Subs,    \* subscribers, each with its channel
  Values,  \* values to send, each by a goroutine of its own
  Buffer   \* capacity of a channel

ASSUME FeedAssumption == IsFiniteSet(Subs) /\ IsFiniteSet(Values) /\ Buffer \in Nat \ {0}

VARIABLES
  inbox,      \* channels that the next Send adds to sendCases
  sendCases,  \* channels of subscribers
  active,     \* length of cases in Send, 0 when sendLock is free
  selecting,  \* Send is in its select, after TrySend found no room
  sending,    \* values whose Send holds sendLock, one at most
  toSend,     \* values not sent yet
  chan,       \* what is in each channel
  got,        \* what each subscriber has received
  sub,        \* "new", "subscribed", "removing" (waits in remove) or "gone"
  due         \* values that are due on a channel: those of Sends that found it

feedVars == <<inbox, sendCases, active, selecting, sending, toSend, chan, got, sub, due>>

\* Some of the subscribers may have come and gone before anything was sent.
FeedInit ==
  /\ inbox = <<>> /\ sendCases = <<>> /\ active = 0 /\ selecting = FALSE /\ sending = {}
  /\ toSend \in SUBSET Values
  /\ chan = [c \in Subs |-> <<>>] /\ got = [c \in Subs |-> <<>>]
  /\ sub \in [Subs -> {"new", "gone"}]
  /\ due = [c \in Subs |-> {}]

Free == sending = {}

\* delete and deactivate of caseList.
Delete(cases, i) == SubSeq(cases, 1, i - 1) \o SubSeq(cases, i + 1, Len(cases))
Deactivate(cases, i, n) == [cases EXCEPT ![i] = cases[n], ![n] = cases[i]]
Find(cases, c) == CHOOSE i \in 1 .. Len(cases) : cases[i] = c
-----------------------------------------------------------------------------
Subscribe(c) ==
  /\ sub[c] = "new"
  /\ sub' = [sub EXCEPT ![c] = "subscribed"]
  /\ inbox' = Append(inbox, c)
  /\ UNCHANGED <<sendCases, active, selecting, sending, toSend, chan, got, due>>

\* Unsubscribe, up to the select of remove.
Unsubscribe(c) ==
  /\ sub[c] = "subscribed"
  /\ IF c \in ToSet(inbox)
     THEN inbox' = Delete(inbox, Find(inbox, c)) /\ sub' = [sub EXCEPT ![c] = "gone"]
     ELSE sub' = [sub EXCEPT ![c] = "removing"] /\ UNCHANGED inbox
  /\ UNCHANGED <<sendCases, active, selecting, sending, toSend, chan, got, due>>

\* remove when no Send is under way.
RemoveIdle(c) ==
  /\ sub[c] = "removing" /\ Free
  /\ sendCases' = Delete(sendCases, Find(sendCases, c))
  /\ sub' = [sub EXCEPT ![c] = "gone"]
  /\ UNCHANGED <<inbox, active, selecting, sending, toSend, chan, got, due>>

\* Send takes the lock and what is in the inbox.
SendStart(v) ==
  /\ v \in toSend /\ Free
  /\ toSend' = toSend \ {v}
  /\ sending' = {v}
  /\ sendCases' = sendCases \o inbox /\ inbox' = <<>>
  /\ active' = Len(sendCases') /\ selecting' = FALSE
  /\ due' = [c \in Subs |-> IF c \in ToSet(sendCases') THEN due[c] \cup {v} ELSE due[c]]
  /\ UNCHANGED <<chan, got, sub>>

\* TrySend or the select finds room in the channel of a case.
SendTo(i) ==
  LET c == sendCases[i] IN
  /\ i <= active /\ Len(chan[c]) < Buffer
  /\ \E v \in sending : chan' = [chan EXCEPT ![c] = Append(@, v)]
  /\ sendCases' = Deactivate(sendCases, i, active)
  /\ active' = active - 1
  /\ selecting' = FALSE
  /\ UNCHANGED <<inbox, sending, toSend, got, sub, due>>

\* TrySend has found no room, though there may be some by now.
SendBlocks ==
  /\ active > 0 /\ ~ selecting
  /\ selecting' = TRUE
  /\ UNCHANGED <<inbox, sendCases, active, sending, toSend, chan, got, sub, due>>

\* A variant that listens only for channels that still need the value.
SendRemoveActive(c) ==
  /\ sub[c] = "removing" /\ selecting /\ Find(sendCases, c) <= active
  /\ sendCases' = Delete(sendCases, Find(sendCases, c))
  /\ active' = active - 1
  /\ selecting' = FALSE
  /\ sub' = [sub EXCEPT ![c] = "gone"]
  /\ UNCHANGED <<inbox, sending, toSend, chan, got, due>>

\* The select of Send receives from removeSub.
SendRemove(c) ==
  LET i == Find(sendCases, c) IN
  /\ sub[c] = "removing" /\ selecting
  /\ sendCases' = Delete(sendCases, i)
  /\ active' = IF i <= active THEN active - 1 ELSE active
  /\ selecting' = FALSE
  /\ sub' = [sub EXCEPT ![c] = "gone"]
  /\ UNCHANGED <<inbox, sending, toSend, chan, got, due>>

SendEnd ==
  /\ ~ Free /\ active = 0
  /\ sending' = {}
  /\ UNCHANGED <<inbox, sendCases, active, selecting, toSend, chan, got, sub, due>>

\* The subscriber reads its channel until it unsubscribes.
Take(c) ==
  /\ sub[c] = "subscribed" /\ chan[c] # <<>>
  /\ got' = [got EXCEPT ![c] = Append(@, Head(chan[c]))]
  /\ chan' = [chan EXCEPT ![c] = Tail(@)]
  /\ UNCHANGED <<inbox, sendCases, active, selecting, sending, toSend, sub, due>>

SendStep == (\E i \in 1 .. Len(sendCases) : SendTo(i)) \/ SendBlocks \/ SendEnd

FeedNext ==
  \/ \E c \in Subs : Subscribe(c) \/ Unsubscribe(c) \/ RemoveIdle(c) \/ SendRemove(c) \/ Take(c)
  \/ \E v \in Values : SendStart(v)
  \/ SendStep

\* Send and Unsubscribe go on when they can; nobody has to read.
FeedFairness ==
  /\ WF_feedVars(SendStep)
  /\ \A c \in Subs : WF_feedVars(RemoveIdle(c) \/ SendRemove(c))

FeedSpec == FeedInit /\ [][FeedNext]_feedVars /\ FeedFairness
-----------------------------------------------------------------------------
\* Every subscriber gets each value at most once, and a value of a Send that
\* found it subscribed is not passed over, whoever else unsubscribes during the
\* Send: it is in the channel, was read, or is still to be sent (sendCases,
\* deactivate, delete).
ExactlyOnce ==
  \A c \in Subs :
    LET all == got[c] \o chan[c] IN
    /\ IsInjective(all) /\ ToSet(all) \subseteq due[c]
    /\ sub[c] = "subscribed" =>
         \A v \in due[c] \ ToSet(all) : v \in sending /\ c \in ToSet(SubSeq(sendCases, 1, active))

\* Feed's contract: a value reaches everybody once, and once Unsubscribe has
\* returned, nothing more is put into the channel (Send, removeSub).
FeedDelivers ==
  /\ []ExactlyOnce
  /\ [][\A c \in Subs : sub[c] = "gone" => Len(chan'[c]) <= Len(chan[c])]_feedVars

\* Unsubscribe returns, even if a Send waits for another subscriber that never
\* reads (removeSub): no call stays on its way forever.
UnsubscribeReturns == []<>(\A c \in Subs : sub[c] # "removing")
=============================================================================
