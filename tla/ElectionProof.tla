--------------------------- MODULE ElectionProof ---------------------------
(***************************************************************************)
(* Who may produce blocks.  First the signers of the authority engines, by *)
(* vote (VoteSnapshot, PoaSnapshot): every set of accounts, every genesis  *)
(* set, every epoch and any number of headers.  Then the delegates, by     *)
(* stake (DposContext): every set of addresses and any number of           *)
(* transactions and elections.                                             *)
(***************************************************************************)
EXTENDS PoaSnapshot, DposContext, Sums, TLAPS

-----------------------------------------------------------------------------
(* Signers by vote *)

TallyType == [authorize : BOOLEAN, votes : Nat]

Snapshot ==
  [ValSet : SUBSET Members, Votes : SUBSET Vote, Tally : [Members -> TallyType]]

\* A set of accounts is finite.
LEMMA AccountsFinite ==
  ASSUME NEW S \in SUBSET Members
  PROVE  IsFiniteSet(S) /\ Cardinality(S) \in Nat
BY VoteAssumption, FS_Subset, FS_CardinalityType

\* The accounts that have voted on another.
LEMMA VotersType ==
  ASSUME NEW s \in Snapshot, NEW a
  PROVE  VotersOn(s, a) \in SUBSET Members
BY DEF VotersOn, VotesOn, Snapshot, Vote

\* An account enters or leaves the number of voters as it should.
LEMMA OneVoter ==
  ASSUME NEW S \in SUBSET Members, NEW v \in Members
  PROVE  /\ v \notin S => Cardinality(S \cup {v}) = Cardinality(S) + 1
         /\ v \in S => Cardinality(S \ {v}) = Cardinality(S) - 1 /\ Cardinality(S) > 0
<1>1. IsFiniteSet(S) /\ Cardinality(S) \in Nat
  BY AccountsFinite
<1>2. Cardinality(S) = 0 => S = {}
  BY <1>1, FS_EmptySet
<1>3. Cardinality(S \cup {v}) = IF v \in S THEN Cardinality(S) ELSE Cardinality(S) + 1
  BY <1>1, FS_AddElement, Zenon
<1>4. Cardinality(S \ {v}) = IF v \in S THEN Cardinality(S) - 1 ELSE Cardinality(S)
  BY <1>1, FS_RemoveElement, Zenon
<1>. QED
  BY <1>1, <1>2, <1>3, <1>4

\* uncast yields a tally, of one vote less if the vote was counted.
LEMMA UncastType ==
  ASSUME NEW t \in TallyType, NEW b \in BOOLEAN
  PROVE  /\ Uncast(t, b) \in TallyType
         /\ t.votes > 0 /\ t.authorize = b =>
              /\ Uncast(t, b).votes = t.votes - 1
              /\ t.votes > 1 => Uncast(t, b).authorize = b
<1>1. NoTally \in TallyType /\ NoTally.votes = 0
  BY DEF NoTally, TallyType
<1>2. CASE t.votes = 0 \/ t.authorize # b
  BY <1>2 DEF Uncast, TallyType
<1>3. CASE t.votes > 1 /\ t.authorize = b
  BY <1>3 DEF Uncast, TallyType
<1>4. CASE t.votes = 1 /\ t.authorize = b
  BY <1>1, <1>4 DEF Uncast
<1>. QED
  BY <1>2, <1>3, <1>4 DEF TallyType

\* A validator that votes on an account again gives up its vote: the tally
\* follows, and no vote of it on the account is left.
LEMMA RetractExact ==
  ASSUME NEW s \in Snapshot, Exact(s), NEW v \in Members, NEW x \in Members
  PROVE  /\ Retract(s, v, x) \in Snapshot /\ Exact(Retract(s, v, x))
         /\ Retract(s, v, x).ValSet = s.ValSet /\ v \notin VotersOn(Retract(s, v, x), x)
         /\ VotersOn(Retract(s, v, x), x) \subseteq VotersOn(s, x)
<1>. DEFINE old == {w \in s.Votes : w.validator = v /\ w.address = x}
            vote == CHOOSE w \in old : TRUE
            t == Retract(s, v, x)
<1>1. CASE old = {}
  BY <1>1 DEF Retract, VotersOn, VotesOn
<1>2. CASE old # {}
  <2>1. vote \in s.Votes /\ vote.validator = v /\ vote.address = x /\ vote \in Vote
    BY <1>2 DEF Snapshot
  <2>2. t = [s EXCEPT !.Votes = @ \ {vote}, !.Tally[x] = Uncast(@, vote.authorize)]
    BY <1>2 DEF Retract
  <2>. HIDE DEF vote, t, old
  <2>3. vote.authorize \in BOOLEAN /\ s.Tally[x] \in TallyType
    BY <2>1 DEF Snapshot, Vote
  <2>4. /\ t.ValSet = s.ValSet /\ t.Votes = s.Votes \ {vote}
        /\ t.Tally = [s.Tally EXCEPT ![x] = Uncast(@, vote.authorize)]
    BY <2>2 DEF Snapshot
  <2>5. t \in Snapshot
    BY <2>2, <2>3, <2>4, UncastType, Zenon DEF Snapshot
  <2>6. \A w \in VotesOn(s, x) : w.authorize = s.Tally[x].authorize
    BY DEF Exact
  <2>7. VotersOn(t, x) = VotersOn(s, x) \ {v} /\ v \in VotersOn(s, x)
    <3>1. vote \in VotesOn(s, x) /\ v \in VotersOn(s, x)
      BY <2>1 DEF VotesOn, VotersOn
    <3>2. ASSUME NEW w \in VotesOn(s, x), w.validator = v PROVE w = vote
      <4>1. w.authorize = vote.authorize /\ w.address = vote.address /\ w \in Vote
        BY <2>6, <3>1 DEF VotesOn, Snapshot
      <4>. QED
        BY <2>1, <3>2, <4>1 DEF Vote
    <3>3. VotesOn(t, x) = VotesOn(s, x) \ {vote}
      BY <2>4 DEF VotesOn
    <3>. QED
      BY <2>1, <3>1, <3>2, <3>3 DEF VotersOn
  <2>8. \A a \in Members \ {x} : VotesOn(t, a) = VotesOn(s, a) /\ t.Tally[a] = s.Tally[a]
    BY <2>1, <2>4 DEF VotesOn, Snapshot
  <2>9. Exact(t)
    <3>. SUFFICES ASSUME NEW a \in Members
                  PROVE  /\ t.Tally[a].votes = Cardinality(VotersOn(t, a))
                         /\ \A w \in VotesOn(t, a) : /\ w.authorize = t.Tally[a].authorize
                                                     /\ w.authorize = (a \notin t.ValSet)
                                                     /\ w.validator \in t.ValSet
      BY DEF Exact
    <3>1. CASE a # x
      BY <2>4, <2>8, <3>1, Zenon DEF Exact, VotersOn
    <3>2. CASE a = x
      <4>1. /\ s.Tally[x].votes = Cardinality(VotersOn(s, x))
            /\ s.Tally[x].authorize = vote.authorize
        BY <2>1 DEF Exact, VotesOn
      <4>2. /\ Cardinality(VotersOn(t, x)) = Cardinality(VotersOn(s, x)) - 1
            /\ Cardinality(VotersOn(s, x)) > 0
        BY <2>7, VotersType, OneVoter
      <4>3. t.Tally[x] = Uncast(s.Tally[x], vote.authorize)
        BY <2>4 DEF Snapshot
      <4>4. /\ t.Tally[x].votes = Cardinality(VotersOn(t, x))
            /\ s.Tally[x].votes > 1 => t.Tally[x].authorize = vote.authorize
        BY <2>3, <4>1, <4>2, <4>3, UncastType
      <4>5. ASSUME NEW w \in VotesOn(t, x) PROVE s.Tally[x].votes > 1
        <5>1. w.validator \in VotersOn(t, x)
          BY DEF VotersOn
        <5>2. Cardinality(VotersOn(t, x)) > 0
          BY <2>5, <5>1, VotersType, OneVoter, Zenon
        <5>. QED
          BY <2>3, <4>1, <4>2, <5>2 DEF TallyType
      <4>6. VotesOn(t, x) \subseteq VotesOn(s, x)
        BY <2>4 DEF VotesOn
      <4>. QED
        BY <2>4, <3>2, <4>1, <4>4, <4>5, <4>6 DEF Exact
    <3>. QED
      BY <3>1, <3>2
  <2>. QED
    BY <2>4, <2>5, <2>7, <2>9 DEF t
<1>. QED
  BY <1>1, <1>2

\* A vote that makes sense is counted, with the opinion that all votes on the
\* account have.
LEMMA CastExact ==
  ASSUME NEW s \in Snapshot, Exact(s), NEW v \in s.ValSet, NEW x \in Members, NEW b \in BOOLEAN,
         v \notin VotersOn(s, x)
  PROVE  /\ Cast(s, v, x, b) \in Snapshot /\ Exact(Cast(s, v, x, b))
         /\ Cast(s, v, x, b).ValSet = s.ValSet
         /\ Cardinality(VotersOn(Cast(s, v, x, b), x)) <= Cardinality(VotersOn(s, x)) + 1
<1>. DEFINE vote == [validator |-> v, address |-> x, authorize |-> b]
            new == [authorize |-> IF s.Tally[x].votes > 0 THEN s.Tally[x].authorize ELSE b,
                    votes |-> s.Tally[x].votes + 1]
            t == Cast(s, v, x, b)
<1>0. v \in Members /\ s.Tally[x] \in TallyType /\ Cardinality(VotersOn(s, x)) \in Nat
  BY VotersType, AccountsFinite DEF Snapshot
<1>1. CASE ~ CheckVote(s, x, b)
  BY <1>0, <1>1 DEF Cast
<1>2. CASE CheckVote(s, x, b)
  <2>1. /\ t.ValSet = s.ValSet /\ t.Votes = s.Votes \cup {vote}
        /\ t.Tally = [s.Tally EXCEPT ![x] = new]
    BY <1>2 DEF Cast, Snapshot
  <2>2. vote \in Vote /\ new \in TallyType
    BY <1>0 DEF Vote, TallyType
  <2>3. t \in Snapshot
    BY <1>2, <2>2, Zenon DEF Cast, Snapshot
  <2>4. b = (x \notin s.ValSet)
    BY <1>2 DEF CheckVote
  <2>. HIDE DEF t
  <2>5. VotesOn(t, x) = VotesOn(s, x) \cup {vote} /\ VotersOn(t, x) = VotersOn(s, x) \cup {v}
    <3>1. vote.validator = v /\ vote.address = x
      OBVIOUS
    <3>. HIDE DEF vote
    <3>2. VotesOn(t, x) = VotesOn(s, x) \cup {vote}
      BY <2>1, <3>1 DEF VotesOn
    <3>. QED
      BY <3>1, <3>2 DEF VotersOn
  <2>6. \A a \in Members \ {x} : VotesOn(t, a) = VotesOn(s, a) /\ t.Tally[a] = s.Tally[a]
    BY <2>1 DEF VotesOn, Snapshot
  <2>7. Cardinality(VotersOn(t, x)) = Cardinality(VotersOn(s, x)) + 1
    BY <1>0, <2>5, VotersType, OneVoter
  <2>8. t.Tally[x].votes = Cardinality(VotersOn(t, x)) /\ t.Tally[x].authorize = b
    <3>1. t.Tally[x] = new /\ s.Tally[x].votes = Cardinality(VotersOn(s, x))
      BY <2>1 DEF Snapshot, Exact
    <3>2. ASSUME s.Tally[x].votes > 0 PROVE s.Tally[x].authorize = b
      <4>1. VotersOn(s, x) # {}
        BY <3>2, FS_EmptySet DEF Exact
      <4>2. PICK w \in VotesOn(s, x) : TRUE
        BY <4>1 DEF VotersOn
      <4>. QED
        BY <2>4, <4>2 DEF Exact
    <3>. QED
      BY <2>7, <3>1, <3>2
  <2>9. Exact(t)
    BY <1>0, <2>1, <2>4, <2>5, <2>6, <2>8 DEF Exact, VotersOn
  <2>. QED
    BY <1>0, <2>1, <2>3, <2>7, <2>9 DEF t
<1>. QED
  BY <1>1, <1>2

\* The change that was voted for moves the account in or out of the set.  The
\* votes on it go, and if it leaves, so do the votes that it has cast.
LEMMA ChangeExact ==
  ASSUME NEW s \in Snapshot, Exact(s), NEW x \in Members, Passed(s, x)
  PROVE  /\ ChangeSet(s, x) \in Snapshot /\ Exact(ChangeSet(s, x))
         /\ ChangeSet(s, x).ValSet = IF x \in s.ValSet THEN s.ValSet \ {x} ELSE s.ValSet \cup {x}
<1>. DEFINE t == ChangeSet(s, x)
            left(a) == IF x \in s.ValSet /\ x \in VotersOn(s, a)
                       THEN Uncast(s.Tally[a], s.Tally[a].authorize) ELSE s.Tally[a]
<1>0. /\ s.ValSet \in SUBSET Members /\ s.Votes \in SUBSET Vote /\ s.Tally \in [Members -> TallyType]
      /\ \A a \in Members : /\ s.Tally[a] \in TallyType /\ s.Tally[a].authorize \in BOOLEAN
                            /\ s.Tally[a].votes \in Nat
  BY DEF Snapshot, TallyType
<1>1. s.Tally[x].authorize = (x \notin s.ValSet)
  <2>1. s.Tally[x].votes > 0
    <3>1. Cardinality(s.ValSet) \in Nat
      BY <1>0, AccountsFinite
    <3>. QED
      BY <1>0, <3>1 DEF Passed
  <2>2. VotersOn(s, x) # {}
    BY <2>1, FS_EmptySet DEF Exact
  <2>3. PICK w \in VotesOn(s, x) : TRUE
    BY <2>2 DEF VotersOn
  <2>. QED
    BY <2>3 DEF Exact
<1>2. \A a \in Members : left(a) \in TallyType
  BY <1>0, UncastType
<1>3. /\ t \in Snapshot
      /\ t.ValSet = IF x \in s.ValSet THEN s.ValSet \ {x} ELSE s.ValSet \cup {x}
      /\ t.Votes = {w \in s.Votes : w.address # x /\ (x \in s.ValSet => w.validator # x)}
      /\ t.Tally[x] = NoTally
      /\ \A a \in Members \ {x} : t.Tally[a] = left(a)
  <2>1. NoTally \in TallyType
    BY DEF NoTally, TallyType
  <2>2. CASE x \notin s.ValSet
    BY <1>0, <1>1, <2>1, <2>2, Zenon DEF ChangeSet, Snapshot
  <2>3. CASE x \in s.ValSet
    <3>. DEFINE gone == {w \in s.Votes : w.validator = x}
                kept == [a \in Members |->
                           IF \E w \in gone : w.address = a /\ w.authorize = s.Tally[a].authorize
                           THEN Uncast(s.Tally[a], s.Tally[a].authorize) ELSE s.Tally[a]]
    <3>1. \A a \in Members : (\E w \in gone : w.address = a /\ w.authorize = s.Tally[a].authorize)
                               <=> x \in VotersOn(s, a)
      BY Zenon DEF Exact, VotersOn, VotesOn
    <3>2. kept \in [Members -> TallyType] /\ \A a \in Members : kept[a] = left(a)
      BY <1>2, <2>3, <3>1
    <3>. DEFINE out == [s EXCEPT !.ValSet = @ \ {x}]
                dropped == DropVotesOf(out, x)
    <3>3. out \in Snapshot /\ out.ValSet = s.ValSet \ {x} /\ out.Votes = s.Votes /\ out.Tally = s.Tally
      BY <1>0 DEF Snapshot
    <3>4. t = [dropped EXCEPT !.Votes = {w \in @ : w.address # x}, !.Tally[x] = NoTally]
      BY <1>1, <2>3, Zenon DEF ChangeSet
    <3>. HIDE DEF out
    <3>5. dropped = [out EXCEPT !.Votes = @ \ gone, !.Tally = kept]
      BY <3>3 DEF DropVotesOf
    <3>. HIDE DEF kept, dropped, t
    <3>6. /\ dropped \in Snapshot /\ dropped.ValSet = s.ValSet \ {x}
          /\ dropped.Votes = s.Votes \ gone /\ dropped.Tally = kept
      BY <1>0, <3>2, <3>3, <3>5, Zenon DEF Snapshot
    <3>. QED
      BY <1>0, <2>1, <2>3, <3>2, <3>4, <3>6, Zenon DEF Snapshot
  <2>. QED
    BY <2>2, <2>3
<1>. HIDE DEF t
<1>4. Exact(t)
  <2>. SUFFICES ASSUME NEW a \in Members
                PROVE  /\ t.Tally[a].votes = Cardinality(VotersOn(t, a))
                       /\ \A w \in VotesOn(t, a) : /\ w.authorize = t.Tally[a].authorize
                                                   /\ w.authorize = (a \notin t.ValSet)
                                                   /\ w.validator \in t.ValSet
    BY DEF Exact
  <2>0. /\ s.Tally[a].votes = Cardinality(VotersOn(s, a))
        /\ \A w \in VotesOn(s, a) : /\ w.authorize = s.Tally[a].authorize
                                    /\ w.authorize = (a \notin s.ValSet)
                                    /\ w.validator \in s.ValSet
    BY DEF Exact
  <2>1. CASE a = x
    <3>1. VotesOn(t, a) = {} /\ VotersOn(t, a) = {}
      BY <1>3, <2>1 DEF VotesOn, VotersOn
    <3>. QED
      BY <1>3, <2>1, <3>1, FS_EmptySet DEF NoTally
  <2>2. CASE a # x /\ ~(x \in s.ValSet /\ x \in VotersOn(s, a))
    <3>1. VotesOn(t, a) = VotesOn(s, a)
      BY <1>3, <2>2 DEF VotesOn, VotersOn
    <3>2. t.Tally[a] = s.Tally[a]
      BY <1>3, <2>2
    <3>3. \A w \in VotesOn(s, a) : w.validator \in t.ValSet
      BY <1>3, <2>0, <2>2 DEF VotersOn
    <3>. QED
      BY <1>3, <2>0, <2>2, <3>1, <3>2, <3>3 DEF VotersOn
  <2>3. CASE a # x /\ x \in s.ValSet /\ x \in VotersOn(s, a)
    <3>1. VotersOn(t, a) = VotersOn(s, a) \ {x} /\ VotesOn(t, a) \subseteq VotesOn(s, a)
          /\ \A w \in VotesOn(t, a) : w.validator # x
      BY <1>3, <2>3 DEF VotesOn, VotersOn
    <3>2. /\ Cardinality(VotersOn(t, a)) = Cardinality(VotersOn(s, a)) - 1
          /\ Cardinality(VotersOn(s, a)) > 0
      BY <2>3, <3>1, VotersType, OneVoter
    <3>3. /\ t.Tally[a].votes = Cardinality(VotersOn(t, a))
          /\ s.Tally[a].votes > 1 => t.Tally[a].authorize = s.Tally[a].authorize
      BY <1>0, <1>3, <2>0, <2>3, <3>2, UncastType
    <3>4. ASSUME NEW w \in VotesOn(t, a) PROVE s.Tally[a].votes > 1
      <4>1. w.validator \in VotersOn(t, a) /\ VotersOn(t, a) \in SUBSET Members
        BY <1>3, VotersType DEF VotersOn
      <4>2. Cardinality(VotersOn(t, a)) > 0
        BY <4>1, OneVoter, Zenon
      <4>. QED
        BY <1>0, <2>0, <3>2, <4>2
    <3>. QED
      BY <1>3, <2>0, <2>3, <3>1, <3>3, <3>4
  <2>. QED
    BY <2>1, <2>2, <2>3
<1>. QED
  BY <1>3, <1>4 DEF t

\* A snapshot without votes, as after a checkpoint, has an exact tally.
LEMMA NoVotesExact ==
  ASSUME NEW s, s.Votes = {}, \A a \in Members : s.Tally[a] = NoTally
  PROVE  Exact(s) /\ \A a \in Members : VotersOn(s, a) = {}
<1>1. \A a \in Members : VotesOn(s, a) = {} /\ VotersOn(s, a) = {}
  BY DEF VotesOn, VotersOn
<1>2. Cardinality({}) = 0
  BY FS_EmptySet
<1>3. \A a \in Members : s.Tally[a].votes = 0
  BY DEF NoTally
<1>. QED
  BY <1>1, <1>2, <1>3, Zenon DEF Exact

\* The first snapshot.
LEMMA NewSnapshotExact == newSnapshot \in Snapshot /\ Exact(newSnapshot)
<1>1. /\ newSnapshot \in Snapshot /\ newSnapshot.Votes = {}
      /\ \A a \in Members : newSnapshot.Tally[a] = NoTally
  BY VoteAssumption DEF newSnapshot, NoTally, TallyType, Snapshot
<1>. QED
  BY <1>1, NoVotesExact

\* A checkpoint keeps the validators and loses votes, nothing else.
LEMMA CheckpointExact ==
  ASSUME NEW s \in Snapshot, Exact(s), NEW n \in Nat
  PROVE  /\ Checkpoint(s, n) \in Snapshot /\ Exact(Checkpoint(s, n))
         /\ Checkpoint(s, n).ValSet = s.ValSet
         /\ \A a \in Members : VotersOn(Checkpoint(s, n), a) \subseteq VotersOn(s, a)
<1>. DEFINE t == [newSnapshot EXCEPT !.ValSet = s.ValSet]
<1>1. t \in Snapshot /\ t.ValSet = s.ValSet /\ t.Votes = {} /\ \A a \in Members : t.Tally[a] = NoTally
  BY Zenon DEF newSnapshot, NoTally, TallyType, Snapshot
<1>2. Checkpoint(s, n) = t \/ Checkpoint(s, n) = s
  BY DEF Checkpoint
<1>. HIDE DEF t
<1>3. Exact(t) /\ \A a \in Members : VotersOn(t, a) = {}
  BY <1>1, NoVotesExact
<1>. QED
  BY <1>1, <1>2, <1>3

\* apply keeps the tally exact, and changes the set only as a majority wants.
LEMMA ApplyExact ==
  ASSUME snap \in Snapshot, Exact(snap), height \in Nat,
         NEW v \in Members, NEW x \in Members \cup {Nobody}, NEW b \in BOOLEAN, Apply(v, x, b)
  PROVE  /\ snap' \in Snapshot /\ Exact(snap')
         /\ snap'.ValSet = snap.ValSet \/ \E a \in Members : WantedChange(a)
<1>. DEFINE s == Checkpoint(snap, height + 1)
            retracted == Retract(s, v, x)
            cast == Cast(retracted, v, x, b)
<1>1. /\ s \in Snapshot /\ Exact(s) /\ s.ValSet = snap.ValSet
      /\ \A a \in Members : VotersOn(s, a) \subseteq VotersOn(snap, a)
  BY CheckpointExact
<1>2. v \in s.ValSet
  BY DEF Apply
<1>3. CASE x = Nobody
  BY <1>1, <1>3 DEF Apply
<1>4. CASE x # Nobody
  <2>0. x \in Members
    BY <1>4
  <2>. HIDE DEF s
  <2>1. /\ retracted \in Snapshot /\ Exact(retracted) /\ retracted.ValSet = s.ValSet
        /\ v \notin VotersOn(retracted, x) /\ VotersOn(retracted, x) \subseteq VotersOn(s, x)
    BY <1>1, <2>0, RetractExact
  <2>. HIDE DEF retracted
  <2>2. /\ cast \in Snapshot /\ Exact(cast) /\ cast.ValSet = s.ValSet
        /\ Cardinality(VotersOn(cast, x)) <= Cardinality(VotersOn(retracted, x)) + 1
    BY <1>2, <2>0, <2>1, CastExact
  <2>3. snap' = IF Passed(cast, x) THEN ChangeSet(cast, x) ELSE cast
    BY <1>4 DEF Apply, ApplyVote, s, retracted
  <2>. HIDE DEF cast
  <2>4. CASE ~ Passed(cast, x)
    BY <1>1, <2>2, <2>3, <2>4
  <2>5. CASE Passed(cast, x)
    <3>0. snap' = ChangeSet(cast, x) /\ cast.ValSet = snap.ValSet
      BY <1>1, <2>2, <2>3, <2>5
    <3>1. /\ snap' \in Snapshot /\ Exact(snap')
          /\ snap'.ValSet = IF x \in snap.ValSet THEN snap.ValSet \ {x} ELSE snap.ValSet \cup {x}
      BY <2>0, <2>2, <2>5, <3>0, ChangeExact, Zenon
    <3>2. 2 * (Cardinality(VotersOn(snap, x)) + 1) > Cardinality(snap.ValSet)
      <4>1. Cardinality(snap.ValSet) \in Nat
        BY AccountsFinite DEF Snapshot
      <4>2. /\ Cardinality(VotersOn(cast, x)) \in Nat /\ Cardinality(VotersOn(snap, x)) \in Nat
            /\ Cardinality(VotersOn(retracted, x)) \in Nat
        BY <2>1, <2>2, VotersType, AccountsFinite
      <4>3. Cardinality(VotersOn(cast, x)) > Cardinality(snap.ValSet) \div 2
        BY <1>1, <2>0, <2>2, <2>5 DEF Passed, Exact
      <4>4. Cardinality(VotersOn(retracted, x)) <= Cardinality(VotersOn(snap, x))
        <5>1. VotersOn(retracted, x) \in SUBSET VotersOn(snap, x) /\ IsFiniteSet(VotersOn(snap, x))
          BY <1>1, <2>0, <2>1, VotersType, AccountsFinite
        <5>. QED
          BY <5>1, FS_Subset
      <4>. QED
        BY <2>2, <4>1, <4>2, <4>3, <4>4
    <3>. QED
      BY <2>0, <3>1, <3>2, Zenon DEF WantedChange
  <2>. QED
    BY <2>4, <2>5
<1>. QED
  BY <1>3, <1>4

\* The snapshots keep their types.
VoteTypeOK == snap \in Snapshot /\ height \in Nat

\* What a step of the voting keeps and does.
LEMMA VoteStep ==
  ASSUME VoteTypeOK, TallyExact, [VoteNext]_<<snap, height>>
  PROVE  /\ VoteTypeOK' /\ TallyExact'
         /\ snap'.ValSet = snap.ValSet \/ \E a \in Members : WantedChange(a)
<1>1. CASE UNCHANGED <<snap, height>>
  BY <1>1 DEF VoteTypeOK, TallyExact
<1>2. ASSUME NEW v \in Members, NEW x \in Members \cup {Nobody}, NEW b \in BOOLEAN, Apply(v, x, b)
      PROVE  /\ VoteTypeOK' /\ TallyExact'
             /\ snap'.ValSet = snap.ValSet \/ \E a \in Members : WantedChange(a)
  <2>1. height' \in Nat
    BY <1>2 DEF Apply, VoteTypeOK
  <2>2. snap \in Snapshot /\ Exact(snap) /\ height \in Nat
    BY DEF VoteTypeOK, TallyExact
  <2>. QED
    BY <1>2, <2>1, <2>2, ApplyExact DEF VoteTypeOK, TallyExact
<1>. QED
  BY <1>1, <1>2 DEF VoteNext, VoteStop

\* Both engines count right: through votes, changes of mind, changes of the set
\* and checkpoints, the cached tally is what the list of votes says.
THEOREM TallyCorrect == VoteSpec => [](VoteTypeOK /\ TallyExact)
<1>1. VoteInit => VoteTypeOK /\ TallyExact
  BY NewSnapshotExact DEF VoteInit, VoteTypeOK, TallyExact
<1>2. VoteTypeOK /\ TallyExact /\ [VoteNext]_<<snap, height>> => (VoteTypeOK /\ TallyExact)'
  BY VoteStep
<1>. QED
  BY <1>1, <1>2, PTL DEF VoteSpec

\* The set of validators changes by one account at a time, and only with the
\* votes of more than half of its members (apply).
THEOREM MajorityRules == VoteSpec => MajorityChanges
<1>1. VoteTypeOK /\ TallyExact /\ [VoteNext]_<<snap, height>> =>
        [snap'.ValSet # snap.ValSet => \E a \in Members : WantedChange(a)]_<<snap, height>>
  BY VoteStep
<1>. QED
  BY <1>1, TallyCorrect, PTL DEF VoteSpec, MajorityChanges

\* The PoA engine votes by the same rules: what is proved of VoteSpec holds of
\* its snapshots.
THEOREM PoaVotes == PoaSpec => VoteSpec
<1>1. PoaInit => VoteInit
  BY DEF PoaInit
<1>2. [PoaNext]_poaVars => [VoteNext]_<<snap, height>>
  BY Zenon DEF PoaNext, PoaApply, PoaStop, poaVars, VoteNext
<1>. QED
  BY <1>1, <1>2, PTL DEF PoaSpec, VoteSpec

-----------------------------------------------------------------------------
\* The recent signers as apply keeps them: one for each block of the window,
\* which reaches back at most as far as the limit of the next block.
RecentsOK ==
  /\ height <= MaxHeader
  /\ Recents \subseteq (1 .. height) \X Members
  /\ \A p \in Recents : p[1] + Limit(snap) >= height + 1
  /\ \A p, q \in Recents : p[1] = q[1] => p = q

PoaInv == VoteTypeOK /\ TallyExact /\ RecentsOK

\* The limit is a positive number.
LEMMA LimitType ==
  ASSUME NEW s \in Snapshot
  PROVE  Limit(s) \in Nat \ {0} /\ Limit(s) - 1 = Cardinality(s.ValSet) \div 2
<1>1. Cardinality(s.ValSet) \in Nat
  BY AccountsFinite DEF Snapshot
<1>. QED
  BY <1>1 DEF Limit

\* When the set changes by one account the limit changes by at most one, and
\* falls only when an account is removed.
LEMMA LimitMoves ==
  ASSUME NEW s \in Snapshot, NEW t \in Snapshot, NEW x \in Members,
         t.ValSet = IF x \in s.ValSet THEN s.ValSet \ {x} ELSE s.ValSet \cup {x}
  PROVE  /\ Limit(t) >= Limit(s) - 1
         /\ Limit(t) < Limit(s) => t.ValSet \subseteq s.ValSet /\ t.ValSet # s.ValSet
<1>1. s.ValSet \in SUBSET Members
  BY DEF Snapshot
<1>2. Cardinality(s.ValSet) \in Nat
  BY <1>1, AccountsFinite
<1>3. CASE x \in s.ValSet
  <2>1. Cardinality(t.ValSet) = Cardinality(s.ValSet) - 1 /\ Cardinality(s.ValSet) > 0
    BY <1>1, <1>3, OneVoter
  <2>. QED
    BY <1>2, <1>3, <2>1 DEF Limit
<1>4. CASE x \notin s.ValSet
  <2>1. Cardinality(t.ValSet) = Cardinality(s.ValSet) + 1
    BY <1>1, <1>4, OneVoter
  <2>. QED
    BY <1>2, <2>1 DEF Limit
<1>. QED
  BY <1>3, <1>4

\* The window after a block of v.
LEMMA RecentsStep ==
  ASSUME PoaInv, VoteTypeOK',
         NEW v \in Members, NEW x \in Members \cup {Nobody}, NEW b \in BOOLEAN, PoaApply(v, x, b),
         snap'.ValSet = snap.ValSet \/ \E a \in Members : WantedChange(a)
  PROVE  RecentsOK'
<1>. DEFINE L == Limit(snap)
            M == Limit(snap')
            n == height + 1
            shifted == Shifted(Recents, snap, n)
            signed == shifted \cup {<<n, v>>}
<1>1. L \in Nat \ {0} /\ M \in Nat \ {0} /\ height \in Nat
  BY LimitType DEF PoaInv, VoteTypeOK
<1>2. M >= L - 1 /\ (M < L => snap'.ValSet \subseteq snap.ValSet /\ snap'.ValSet # snap.ValSet)
  <2>1. CASE snap'.ValSet = snap.ValSet
    <3>1. M = L
      BY <2>1 DEF Limit
    <3>. QED
      BY <1>1, <3>1
  <2>2. ASSUME NEW a \in Members, WantedChange(a)
        PROVE  M >= L - 1 /\ (M < L => snap'.ValSet \subseteq snap.ValSet /\ snap'.ValSet # snap.ValSet)
    BY <2>2, LimitMoves, Zenon DEF WantedChange, PoaInv, VoteTypeOK
  <2>. QED
    BY <2>1, <2>2
<1>3. height' = n /\ n <= MaxHeader
  BY <1>1, VoteAssumption DEF PoaApply, Apply
<1>4. Recents' = Shrunk(signed, snap, snap', n)
  BY DEF PoaApply
<1>. HIDE DEF L, M
<1>5. \A p \in signed : p \in (1 .. n) \X Members /\ (p[1] + L >= n + 1)
  <2>1. \A p \in shifted : p \in Recents /\ (n < L \/ p[1] # n - L)
    BY DEF Shifted, L
  <2>2. \A p \in Recents : p[1] \in 1 .. height /\ p[2] \in Members /\ p = <<p[1], p[2]>> /\ p[1] + L >= n
    BY DEF PoaInv, RecentsOK, L
  <2>. QED
    BY <1>1, <2>1, <2>2
<1>6. \A p, q \in signed : p[1] = q[1] => p = q
  <2>1. \A p \in shifted : p \in Recents /\ p[1] \in 1 .. height
    BY DEF Shifted, PoaInv, RecentsOK
  <2>2. \A p, q \in Recents : p[1] = q[1] => p = q
    BY DEF PoaInv, RecentsOK
  <2>. QED
    BY <1>1, <2>1, <2>2
<1>. HIDE DEF shifted, signed
<1>7. Recents' \subseteq signed /\ \A p \in Recents' : M < L => n < M \/ p[1] # n - M
  BY <1>2, <1>4 DEF Shrunk, Shifted, M
<1>8. \A p \in Recents' : p[1] + M >= n + 1
  BY <1>1, <1>2, <1>5, <1>7
<1>. QED
  BY <1>3, <1>5, <1>6, <1>7, <1>8 DEF RecentsOK, M

\* The invariant of the PoA engine's snapshots.
LEMMA PoaInvariance == PoaSpec => []PoaInv
<1>1. PoaInit => PoaInv
  BY NewSnapshotExact, VoteAssumption DEF PoaInit, VoteInit, PoaInv, VoteTypeOK, TallyExact, RecentsOK
<1>2. PoaInv /\ [PoaNext]_poaVars => PoaInv'
  <2>. SUFFICES ASSUME PoaInv, [PoaNext]_poaVars PROVE PoaInv'
    OBVIOUS
  <2>1. /\ VoteTypeOK' /\ TallyExact'
        /\ snap'.ValSet = snap.ValSet \/ \E a \in Members : WantedChange(a)
    <3>1. [VoteNext]_<<snap, height>>
      BY Zenon DEF PoaNext, PoaApply, PoaStop, poaVars, VoteNext
    <3>. QED
      BY <3>1, VoteStep DEF PoaInv
  <2>2. CASE UNCHANGED poaVars
    BY <2>2 DEF PoaInv, poaVars, VoteTypeOK, TallyExact, RecentsOK
  <2>3. CASE PoaStop
    BY <2>3 DEF PoaStop, VoteStop, PoaInv, VoteTypeOK, TallyExact, RecentsOK
  <2>4. ASSUME NEW v \in Members, NEW x \in Members \cup {Nobody}, NEW b \in BOOLEAN, PoaApply(v, x, b)
        PROVE  RecentsOK'
    BY <2>1, <2>4, RecentsStep
  <2>. QED
    BY <2>1, <2>2, <2>3, <2>4 DEF PoaNext, PoaInv
<1>. QED
  BY <1>1, <1>2, PTL DEF PoaSpec

\* The window without its oldest block.
LEMMA ShiftedWindow ==
  ASSUME NEW r, NEW s, NEW n, NEW p
  PROVE  p \in Shifted(r, s, n) <=> p \in r /\ (n < Limit(s) \/ p[1] # n - Limit(s))
BY DEF Shifted

\* Whom apply refuses: the signer of a block of the window that is not its last.
LEMMA WhoWaits ==
  ASSUME NEW v
  PROVE  ApplyRefuses(v) <=>
           \E p \in Recents : p[2] = v /\ (height + 1 < Limit(snap) \/ p[1] # (height + 1) - Limit(snap))
BY ShiftedWindow, Zenon DEF ApplyRefuses

\* Seal, apply and verifySeal treat a signer alike.
LEMMA RefusalsAgree ==
  ASSUME PoaInv, NEW v \in snap.ValSet
  PROVE  /\ SealRefuses(v) <=> ApplyRefuses(v)
         /\ ~ SealRefuses(v) => ~ VerifyRefuses(v)
         /\ height + 1 >= Limit(snap) /\ SealRefuses(v) => VerifyRefuses(v)
<1>. DEFINE L == Limit(snap)
<1>1. L \in Nat \ {0} /\ height \in Nat /\ height <= MaxHeader
  BY LimitType DEF PoaInv, VoteTypeOK, RecentsOK
<1>2. \A p \in Recents : p[1] \in 1 .. height /\ p[1] + L >= height + 1
  BY DEF PoaInv, RecentsOK
<1>3. SealRefuses(v) <=> ApplyRefuses(v)
  <2>1. SealRefuses(v) <=> \E p \in Recents : p[2] = v /\ (height + 1 < L \/ p[1] > height + 1 - L)
    BY DEF SealRefuses
  <2>2. ApplyRefuses(v) <=> \E p \in Recents : p[2] = v /\ (height + 1 < L \/ p[1] # (height + 1) - L)
    BY WhoWaits
  <2>. HIDE DEF L
  <2>3. \A p \in Recents : p[1] # (height + 1) - L <=> p[1] > height + 1 - L
    BY <1>1, <1>2
  <2>. QED
    BY <2>1, <2>2, <2>3
<1>4. CASE height + 1 < L
  BY <1>1, <1>3, <1>4 DEF SealRefuses, VerifyRefuses
<1>5. CASE height + 1 >= L
  <2>1. height + 1 - L \in 0 .. MaxHeader /\ MaxHeader < Word /\ Word \in Nat
    BY <1>1, <1>5, VoteAssumption, WordAssumption
  <2>2. (height + 1 - L) % Word = height + 1 - L
    <3>1. \A i \in Nat : i < Word => i % Word = i
      BY <2>1
    <3>2. height + 1 - L \in Nat /\ height + 1 - L < Word
      BY <1>1, <2>1, VoteAssumption
    <3>. QED
      BY <3>1, <3>2, Zenon
  <2>. QED
    BY <1>1, <1>3, <1>5, <2>2 DEF SealRefuses, VerifyRefuses
<1>. QED
  BY <1>1, <1>4, <1>5

\* Fewer signers wait than the limit: each has a block of its own in the window.
LEMMA FewWait ==
  ASSUME PoaInv
  PROVE  Cardinality({v \in snap.ValSet : ApplyRefuses(v)}) <= Limit(snap) - 1
<1>. DEFINE L == Limit(snap)
            W == {v \in snap.ValSet : ApplyRefuses(v)}
            first == IF height + 1 < L THEN 1 ELSE height + 2 - L
            window == first .. height
            g == [v \in W |-> CHOOSE i \in window : <<i, v>> \in Recents]
<1>1. L \in Nat \ {0} /\ height \in Nat
  BY LimitType DEF PoaInv, VoteTypeOK
<1>2. \A v \in W : \E i \in window : <<i, v>> \in Recents
  <2>. SUFFICES ASSUME NEW v \in W PROVE \E i \in window : <<i, v>> \in Recents
    BY Zenon
  <2>1. PICK p \in Recents : p[2] = v /\ (height + 1 < L \/ p[1] # (height + 1) - L)
    BY WhoWaits
  <2>2. p[1] \in 1 .. height /\ p = <<p[1], v>> /\ p[1] + L >= height + 1
    BY <2>1 DEF PoaInv, RecentsOK
  <2>. HIDE DEF L
  <2>3. p[1] \in window
    BY <1>1, <2>1, <2>2
  <2>. QED
    BY <2>2, <2>3
<1>3. IsFiniteSet(window) /\ Cardinality(window) <= L - 1
  <2>. HIDE DEF L
  <2>1. first \in Int /\ height \in Int
    BY <1>1
  <2>2. IsFiniteSet(window) /\ Cardinality(window) = IF first > height THEN 0 ELSE height - first + 1
    <3>. HIDE DEF first
    <3>. QED
      BY <2>1, FS_Interval
  <2>. QED
    BY <1>1, <2>2
<1>. HIDE DEF L, window, W
<1>4. \A v \in W : g[v] \in window /\ <<g[v], v>> \in Recents
  BY <1>2
<1>5. g \in Injection(W, window)
  <2>1. g \in [W -> window]
    BY <1>4, Zenon
  <2>2. \A v, w \in W : g[v] = g[w] => v = w
    <3>. SUFFICES ASSUME NEW v \in W, NEW w \in W, g[v] = g[w] PROVE v = w
      BY Zenon
    <3>1. <<g[v], v>> \in Recents /\ <<g[v], w>> \in Recents
      BY <1>4, Zenon
    <3>. HIDE DEF g
    <3>. QED
      BY <3>1 DEF PoaInv, RecentsOK
  <2>. QED
    BY <2>1, <2>2, Zenon DEF Injection, IsInjective
<1>6. Cardinality(W) <= Cardinality(window) /\ IsFiniteSet(W)
  <2>. HIDE DEF g
  <2>. QED
    BY <1>3, <1>5, FS_Injection
<1>7. Cardinality(W) \in Nat /\ Cardinality(window) \in Nat
  BY <1>3, <1>6, FS_CardinalityType
<1>. QED
  BY <1>1, <1>3, <1>6, <1>7 DEF W, L

\* Seal, apply and verifySeal agree on who has to wait, and they never keep a
\* majority that is up from sealing, whatever the votes do to the window.
THEOREM SealAgrees == PoaSpec => []SealAgreesWithApply
<1>1. PoaInv => SealAgreesWithApply
  <2>. SUFFICES ASSUME PoaInv PROVE SealAgreesWithApply
    OBVIOUS
  <2>1. ASSUME NEW D \in SUBSET snap.ValSet, 2 * Cardinality(D) < Cardinality(snap.ValSet)
        PROVE  \E v \in snap.ValSet \ D : ~ ApplyRefuses(v)
    <3>. DEFINE W == {v \in snap.ValSet : ApplyRefuses(v)}
    <3>. SUFFICES ASSUME snap.ValSet = D \cup W PROVE FALSE
      OBVIOUS
    <3>1. Cardinality(W) <= Cardinality(snap.ValSet) \div 2
      BY FewWait, LimitType DEF PoaInv, VoteTypeOK
    <3>2. W \in SUBSET Members /\ D \in SUBSET Members /\ snap.ValSet \in SUBSET Members
      BY DEF PoaInv, VoteTypeOK, Snapshot
    <3>. HIDE DEF W
    <3>3. /\ IsFiniteSet(D) /\ IsFiniteSet(W)
          /\ Cardinality(D) \in Nat /\ Cardinality(W) \in Nat /\ Cardinality(snap.ValSet) \in Nat
      BY <3>2, AccountsFinite
    <3>4. Cardinality(D \cap W) \in Nat
      BY <3>2, AccountsFinite
    <3>5. Cardinality(D \cup W) = Cardinality(D) + Cardinality(W) - Cardinality(D \cap W)
      BY <3>3, FS_Union
    <3>. QED
      BY <2>1, <3>1, <3>3, <3>4, <3>5
  <2>. QED
    BY <2>1, RefusalsAgree DEF SealAgreesWithApply
<1>. QED
  BY <1>1, PoaInvariance, PTL

-----------------------------------------------------------------------------
(* Delegates by stake *)

\* A context records the block being built, so it is a context of its type
\* (SetCandidateContext).
LEMMA ContextType ==
  ASSUME TypeOK, NEW a \in Addrs, NEW s \in {LoginState, LogoutState}, SetCandidateContext(a, s),
         number' = number
  PROVE  /\ candidateTrie' \in [Addrs -> CandidateContext \cup {NoContext}]
         /\ \A c \in Addrs : candidateTrie'[c].block <= number'
  BY DposAssumption DEF TypeOK, SetCandidateContext, CandidateContext

\* Every step of a transaction or of Finalize keeps the types.
LEMMA TypeStep == TypeOK /\ [Next]_vars => TypeOK'
<1> SUFFICES ASSUME TypeOK, [Next]_vars PROVE TypeOK'
  OBVIOUS
<1>1. ASSUME NEW a \in Addrs, LoginCandidate(a) PROVE TypeOK'
  <2>1. SetCandidateContext(a, LoginState)
    BY <1>1 DEF LoginCandidate, LoginAgain, FirstLogin
  <2>2. balance' \in [Addrs -> Nat]
    BY <1>1, DposAssumption DEF TypeOK, LoginCandidate, LoginAgain, FirstLogin
  <2> QED BY <1>1, <2>1, <2>2, ContextType DEF TypeOK, LoginCandidate
<1>2. ASSUME NEW a \in Addrs, LogoutCandidate(a) PROVE TypeOK'
  BY <1>2, ContextType DEF TypeOK, LogoutCandidate
<1>3. ASSUME NEW a \in Addrs, WithdrawCandidate(a) PROVE TypeOK'
  <2>1. /\ candidateTrie' \in [Addrs -> CandidateContext \cup {NoContext}]
        /\ \A c \in Addrs : candidateTrie'[c].block <= number'
    BY <1>3, DposAssumption DEF TypeOK, WithdrawCandidate, KickoutCandidate, NoContext
  <2>2. balance' \in [Addrs -> Nat]
    BY <1>3, DposAssumption DEF TypeOK, WithdrawCandidate
  <2>3. delegateTrie' \subseteq Addrs \X Addrs
    BY <1>3 DEF TypeOK, WithdrawCandidate, KickoutCandidate
  <2>4. UNCHANGED <<voteTrie, validators, mintCnt, number>>
    BY <1>3 DEF WithdrawCandidate, KickoutCandidate
  <2> QED BY <2>1, <2>2, <2>3, <2>4 DEF TypeOK
<1>4. ASSUME NEW d \in Addrs, NEW c \in Addrs, Delegate(d, c) \/ UnDelegate(d, c) PROVE TypeOK'
  BY <1>4 DEF TypeOK, Delegate, UnDelegate
<1>5. ASSUME NEW a \in Addrs, NEW b \in Addrs, Transfer(a, b, 1) PROVE TypeOK'
  BY <1>5 DEF TypeOK, Transfer
<1>6. ASSUME NEW v \in validators, Finalize(v) PROVE TypeOK'
  <2>1. validators' \subseteq Addrs
    BY <1>6, Zenon DEF TypeOK, Finalize, TryElect, Elected, Candidates
  <2>2. \A c \in Addrs : candidateTrie'[c].block <= number'
    BY <1>6 DEF TypeOK, Finalize, CandidateContext, NoContext
  <2> QED BY <1>6, <2>1, <2>2, DposAssumption DEF TypeOK, Finalize
<1>7. CASE UNCHANGED vars
  BY <1>7 DEF TypeOK, vars
<1> QED BY <1>1, <1>2, <1>3, <1>4, <1>5, <1>6, <1>7 DEF Next

\* The tries keep their types: no balance becomes negative by a login, and
\* contexts name blocks that exist.
THEOREM DposTypeCorrect == Spec => []TypeOK
<1>1. Init => TypeOK
  BY DposAssumption DEF Init, TypeOK, CandidateContext, NoContext
<1> QED BY <1>1, TypeStep, PTL DEF Spec

\* One step keeps delegations at candidates: only KickoutCandidate takes a
\* candidate away, with all delegations to it.
LEMMA CandidatesStep ==
  TypeOK /\ DelegatesOfCandidates /\ [Next]_vars => DelegatesOfCandidates'
<1> SUFFICES ASSUME TypeOK, DelegatesOfCandidates, [Next]_vars PROVE DelegatesOfCandidates'
  OBVIOUS
<1> USE DposAssumption
<1>0. ASSUME NEW a \in Addrs, NEW s \in {LoginState, LogoutState}, SetCandidateContext(a, s),
             delegateTrie' = delegateTrie
      PROVE  DelegatesOfCandidates'
  <2>1. \A c \in Candidates : c \in Candidates'
    BY <1>0 DEF SetCandidateContext, Candidates, TypeOK
  <2> QED BY <1>0, <2>1 DEF DelegatesOfCandidates
<1>1. ASSUME NEW a \in Addrs, LoginCandidate(a) PROVE DelegatesOfCandidates'
  BY <1>0, <1>1 DEF LoginCandidate, LoginAgain, FirstLogin
<1>2. ASSUME NEW a \in Addrs, LogoutCandidate(a) PROVE DelegatesOfCandidates'
  BY <1>0, <1>2, Zenon DEF LogoutCandidate
<1>3. ASSUME NEW a \in Addrs, WithdrawCandidate(a) PROVE DelegatesOfCandidates'
  <2>1. \A c \in Candidates \ {a} : c \in Candidates'
    BY <1>3 DEF WithdrawCandidate, KickoutCandidate, Candidates, TypeOK
  <2> QED BY <1>3, <2>1 DEF WithdrawCandidate, KickoutCandidate, DelegatesOfCandidates
<1>4. ASSUME NEW d \in Addrs, NEW c \in Addrs, Delegate(d, c) \/ UnDelegate(d, c)
      PROVE  DelegatesOfCandidates'
  BY <1>4 DEF Delegate, UnDelegate, DelegatesOfCandidates, Candidates
<1>5. ASSUME UNCHANGED <<candidateTrie, delegateTrie>> PROVE DelegatesOfCandidates'
  BY <1>5 DEF DelegatesOfCandidates, Candidates
<1> QED BY <1>1, <1>2, <1>3, <1>4, <1>5 DEF Next, Transfer, Finalize, vars

\* Delegations are to candidates at all times (KickoutCandidate, Delegate).
THEOREM DelegatesOfCandidatesCorrect == Spec => []DelegatesOfCandidates
<1>1. Init => DelegatesOfCandidates
  BY DposAssumption DEF Init, DelegatesOfCandidates, Candidates
<1> QED BY <1>1, CandidatesStep, DposTypeCorrect, PTL DEF Spec

\* One step keeps delegations and votes in line: Delegate moves both, UnDelegate
\* removes both, KickoutCandidate removes delegations only.
LEMMA VotedStep == TypeOK /\ DelegatesVoted /\ [Next]_vars => DelegatesVoted'
<1> SUFFICES ASSUME TypeOK, DelegatesVoted, [Next]_vars PROVE DelegatesVoted'
  OBVIOUS
<1>1. ASSUME NEW d \in Addrs, NEW c \in Addrs, Delegate(d, c) PROVE DelegatesVoted'
  <2> SUFFICES ASSUME NEW p \in delegateTrie'
               PROVE  voteTrie'[p[2]] = p[1] \/ (p[1] = p[2] /\ p[1] \in Genesis)
    BY DEF DelegatesVoted
  <2>1. CASE p = <<c, d>>
    BY <1>1, <2>1 DEF Delegate, TypeOK
  <2>2. CASE p # <<c, d>>
    <3>1. p \in delegateTrie /\ p # <<voteTrie[d], d>>
      BY <1>1, <2>2 DEF Delegate
    <3>2. p = <<p[1], p[2]>> /\ p[2] \in Addrs
      BY <3>1 DEF TypeOK
    <3> QED BY <1>1, <3>1, <3>2 DEF Delegate, TypeOK, DelegatesVoted
  <2> QED BY <2>1, <2>2
<1>2. ASSUME NEW d \in Addrs, NEW c \in Addrs, UnDelegate(d, c) PROVE DelegatesVoted'
  <2> SUFFICES ASSUME NEW p \in delegateTrie'
               PROVE  voteTrie'[p[2]] = p[1] \/ (p[1] = p[2] /\ p[1] \in Genesis)
    BY DEF DelegatesVoted
  <2>1. p \in delegateTrie /\ p # <<c, d>> /\ p = <<p[1], p[2]>> /\ p[2] \in Addrs
    BY <1>2 DEF UnDelegate, TypeOK
  <2> QED BY <1>2, <2>1 DEF UnDelegate, TypeOK, DelegatesVoted
<1>3. ASSUME delegateTrie' \subseteq delegateTrie, voteTrie' = voteTrie PROVE DelegatesVoted'
  BY <1>3 DEF DelegatesVoted
<1>4. ASSUME NEW a \in Addrs, LoginCandidate(a) \/ LogoutCandidate(a) \/ WithdrawCandidate(a)
      PROVE  delegateTrie' \subseteq delegateTrie /\ voteTrie' = voteTrie
  BY <1>4 DEF LoginCandidate, LogoutCandidate, WithdrawCandidate, KickoutCandidate
<1> QED BY <1>1, <1>2, <1>3, <1>4 DEF Next, Transfer, Finalize, vars

\* The weight of a delegator goes where the last vote went, the genesis entries
\* excepted (Delegate, UnDelegate).
THEOREM DelegatesVotedCorrect == Spec => []DelegatesVoted
<1>1. Init => DelegatesVoted
  BY DEF Init, DelegatesVoted
<1> QED BY <1>1, VotedStep, DposTypeCorrect, PTL DEF Spec

\* What the accounts have changes by what one account gains.
LEMMA CoinsChange ==
  ASSUME NEW f \in [Addrs -> Nat], NEW g \in [Addrs -> Nat], NEW a \in Addrs,
         \A x \in Addrs : x # a => g[x] = f[x]
  PROVE  Coins(f) \in Int /\ Coins(g) = Coins(f) + (g[a] - f[a])
<1>1. IsFiniteSet(Addrs)
  BY DposAssumption
<1>2. (\A x \in Addrs : f[x] \in Int) /\ g[a] \in Int
  OBVIOUS
<1>3. SumFunctionOnSet(g, Addrs) = SumFunctionOnSet(f, Addrs) + (g[a] - f[a])
  BY <1>1, <1>2, SumUpdate
<1>4. SumFunctionOnSet(f, Addrs) \in Int
  BY <1>1, <1>2, SumTakeOut
<1> QED BY <1>3, <1>4 DEF Coins

\* There are finitely many candidates.
LEMMA FiniteCandidates == IsFiniteSet(Candidates) /\ Cardinality(Candidates) \in Nat
BY DposAssumption, FS_Subset, FS_CardinalityType DEF Candidates

\* A deposit per candidate: one more candidate, one more deposit.
LEMMA DepositChange ==
  ASSUME NEW n \in Nat
  PROVE  /\ MinCandidateBalance * (n + 1) = MinCandidateBalance * n + MinCandidateBalance
         /\ MinCandidateBalance * n \in Int
BY DposAssumption

\* One step keeps the coins: FirstLogin turns coins into a deposit when it makes
\* a candidate, WithdrawCandidate gives them back when it takes one away, and a
\* transfer takes from one account what it gives to another.
LEMMA DepositsStep == TypeOK /\ DepositsKept /\ [Next]_vars => DepositsKept'
<1> SUFFICES ASSUME TypeOK, DepositsKept, [Next]_vars PROVE DepositsKept'
  OBVIOUS
<1>0. TypeOK'
  BY TypeStep
<1>t. balance \in [Addrs -> Nat] /\ balance' \in [Addrs -> Nat]
  BY <1>0 DEF TypeOK
<1>p. Coins(balance) \in Int
  <2>1. (\A x \in Addrs : balance[x] \in Int) /\ IsFiniteSet(Addrs)
    BY <1>t, DposAssumption
  <2> QED BY <2>1, SumTakeOut DEF Coins
<1>n. None \notin {LoginState, LogoutState} /\ MinCandidateBalance \in Nat
  BY DposAssumption
<1>s. ASSUME Candidates' = Candidates, Coins(balance') = Coins(balance) PROVE DepositsKept'
  BY <1>s DEF DepositsKept
<1>c. ASSUME NEW a \in Addrs, NEW s \in {LoginState, LogoutState}, SetCandidateContext(a, s)
      PROVE  Candidates' = Candidates \cup {a}
  BY <1>c, <1>n DEF SetCandidateContext, Candidates, TypeOK
<1>1. ASSUME NEW a \in Addrs, LoginAgain(a) PROVE DepositsKept'
  <2>1. Candidates' = Candidates
    <3>1. a \in Candidates
      BY <1>1, <1>n DEF LoginAgain, Candidates
    <3>2. Candidates' = Candidates \cup {a}
      BY <1>1, <1>c DEF LoginAgain
    <3> QED BY <3>1, <3>2
  <2> QED BY <1>1, <1>s, <2>1 DEF LoginAgain
<1>2. ASSUME NEW a \in Addrs, FirstLogin(a) PROVE DepositsKept'
  <2>1. a \notin Candidates /\ Candidates' = Candidates \cup {a}
    BY <1>2, <1>c DEF FirstLogin, Candidates
  <2>2. Cardinality(Candidates') = Cardinality(Candidates) + 1
    BY <2>1, FiniteCandidates, FS_AddElement
  <2>3. /\ balance'[a] - balance[a] = 0 - MinCandidateBalance
        /\ \A x \in Addrs : x # a => balance'[x] = balance[x]
    BY <1>2, <1>t, <1>n DEF FirstLogin
  <2>4. Coins(balance') = Coins(balance) + (balance'[a] - balance[a])
    BY <1>t, <2>3, CoinsChange
  <2>5. MinCandidateBalance * Cardinality(Candidates')
          = MinCandidateBalance * Cardinality(Candidates) + MinCandidateBalance
    BY <2>2, FiniteCandidates, DepositChange
  <2>6. MinCandidateBalance * Cardinality(Candidates) \in Int
    BY FiniteCandidates, DepositChange
  <2> QED BY <1>p, <1>n, <2>3, <2>4, <2>5, <2>6 DEF DepositsKept
<1>3. ASSUME NEW a \in Addrs, LogoutCandidate(a) PROVE DepositsKept'
  <2>1. a \in Candidates
    BY <1>3, <1>n DEF LogoutCandidate, Candidates
  <2>2. Candidates' = Candidates \cup {a}
    BY <1>3, <1>c DEF LogoutCandidate
  <2>3. Candidates' = Candidates
    BY <2>1, <2>2
  <2> QED BY <1>3, <1>s, <2>3 DEF LogoutCandidate
<1>4. ASSUME NEW a \in Addrs, WithdrawCandidate(a) PROVE DepositsKept'
  <2>1. a \in Candidates /\ Candidates' = Candidates \ {a}
    BY <1>4, <1>n DEF WithdrawCandidate, KickoutCandidate, Candidates, NoContext, TypeOK
  <2>2. a \notin Candidates' /\ Candidates = Candidates' \cup {a} /\ IsFiniteSet(Candidates')
    BY <2>1, FiniteCandidates, FS_Subset
  <2>3. Cardinality(Candidates) = Cardinality(Candidates') + 1 /\ Cardinality(Candidates') \in Nat
    BY <2>2, FS_AddElement, FS_CardinalityType, Zenon
  <2>4. /\ balance'[a] - balance[a] = MinCandidateBalance
        /\ \A x \in Addrs : x # a => balance'[x] = balance[x]
    BY <1>4, <1>t, <1>n DEF WithdrawCandidate
  <2>5. Coins(balance') = Coins(balance) + (balance'[a] - balance[a])
    BY <1>t, <2>4, CoinsChange
  <2>6. /\ MinCandidateBalance * Cardinality(Candidates)
             = MinCandidateBalance * Cardinality(Candidates') + MinCandidateBalance
        /\ MinCandidateBalance * Cardinality(Candidates') \in Int
    BY <2>3, DepositChange
  <2> QED BY <1>p, <1>n, <2>4, <2>5, <2>6 DEF DepositsKept
<1>5. ASSUME NEW a \in Addrs, NEW b \in Addrs, Transfer(a, b, 1) PROVE DepositsKept'
  <2> DEFINE mid == [balance EXCEPT ![a] = @ - 1]
  <2>1. a # b /\ mid \in [Addrs -> Nat] /\ Candidates' = Candidates
    BY <1>5, <1>t DEF Transfer, Candidates
  <2>2. /\ mid[a] - balance[a] = 0 - 1
        /\ \A x \in Addrs : x # a => mid[x] = balance[x]
    BY <1>t
  <2>3. /\ balance'[b] - mid[b] = 1
        /\ \A x \in Addrs : x # b => balance'[x] = mid[x]
    BY <1>5, <1>t, <2>1 DEF Transfer
  <2> HIDE DEF mid
  <2>4. Coins(mid) = Coins(balance) + (mid[a] - balance[a])
    BY <1>t, <2>1, <2>2, CoinsChange
  <2>5. Coins(balance') = Coins(mid) + (balance'[b] - mid[b])
    BY <1>t, <2>1, <2>3, CoinsChange
  <2>6. Coins(balance') = Coins(balance)
    BY <1>p, <2>2, <2>3, <2>4, <2>5
  <2> QED BY <1>s, <2>1, <2>6
<1>6. ASSUME UNCHANGED <<candidateTrie, balance>> PROVE DepositsKept'
  <2>1. Candidates' = Candidates
    BY <1>6 DEF Candidates
  <2> QED BY <1>6, <1>s, <2>1
<1>7. ASSUME NEW d \in Addrs, NEW c \in Addrs, Delegate(d, c) \/ UnDelegate(d, c)
      PROVE  DepositsKept'
  BY <1>6, <1>7 DEF Delegate, UnDelegate
<1>8. ASSUME NEW v \in validators, Finalize(v) PROVE DepositsKept'
  BY <1>6, <1>8 DEF Finalize
<1>9. CASE UNCHANGED vars
  BY <1>6, <1>9 DEF vars
<1> QED BY <1>1, <1>2, <1>3, <1>4, <1>5, <1>7, <1>8, <1>9 DEF Next, LoginCandidate

\* No coin is made or lost by logins, logouts, withdrawals and transfers
\* (applyDposMessage): accounts and deposits together hold what genesis gave.
THEOREM DepositsKeptCorrect == Spec => []DepositsKept
<1>1. Init => DepositsKept
  <2> SUFFICES ASSUME Init PROVE DepositsKept
    OBVIOUS
  <2>1. Candidates = Genesis
    BY DposAssumption, Zenon DEF Init, Candidates, NoContext
  <2> QED BY <2>1 DEF Init, DepositsKept
<1> QED BY <1>1, DepositsStep, DposTypeCorrect, PTL DEF Spec
-----------------------------------------------------------------------------
\* The order of SortableAddresses.Less, as a set of pairs.
Ranking == {p \in Candidates \X Candidates : Less(p[1], p[2])}

\* Weights are natural numbers: no balance is negative.
LEMMA WeightType ==
  ASSUME TypeOK, NEW c
  PROVE  Weight(c) \in Nat
<1>1. IsFiniteSet({d \in Addrs : <<c, d>> \in delegateTrie})
  BY DposAssumption, FS_Subset, Zenon
<1>2. \A d \in {d \in Addrs : <<c, d>> \in delegateTrie} : balance[d] \in Nat
  BY DEF TypeOK
<1> QED BY <1>1, <1>2, SumNat, Zenon DEF Weight

\* Candidates stand in a line: equal weights are told apart by the address
\* (SortableAddresses.Less).
LEMMA RankingIsLine ==
  ASSUME TypeOK
  PROVE  /\ LineOn(Ranking, Candidates)
         /\ \A a, b \in Candidates : <<a, b>> \in Ranking <=> Less(a, b)
<1>1. \A a, b \in Candidates : <<a, b>> \in Ranking <=> Less(a, b)
  BY DEF Ranking
<1>2. \A a \in Candidates : a \in Nat /\ Weight(a) \in Nat
  BY WeightType, DposAssumption DEF Candidates
<1>3. \A a \in Candidates : ~ Less(a, a)
  BY <1>2 DEF Less
<1>4. \A a, b \in Candidates : a # b => Less(a, b) \/ Less(b, a)
  BY <1>2 DEF Less
<1>5. \A a, b, c \in Candidates : Less(a, b) /\ Less(b, c) => Less(a, c)
  BY <1>2 DEF Less
<1> QED BY <1>1, <1>3, <1>4, <1>5 DEF LineOn

\* The elected are the first MaxValidatorSize of that line (tryElect).
LEMMA ElectedAreFirst ==
  ASSUME TypeOK
  PROVE  Elected = FirstOf(Ranking, Candidates, MaxValidatorSize)
<1>1. \A a \in Candidates : {b \in Candidates : Less(b, a)} = Before(Ranking, Candidates, a)
  BY RankingIsLine DEF Before
<1> QED BY <1>1 DEF Elected, FirstOf

\* What an election returns: as many as there is room for, and none of them has
\* less weight than a candidate left out (tryElect).
LEMMA ElectedBest ==
  ASSUME TypeOK
  PROVE  /\ Elected \subseteq Candidates
         /\ Cardinality(Elected) = Min({Cardinality(Candidates), MaxValidatorSize})
         /\ \A a \in Elected, b \in Candidates \ Elected : Weight(a) >= Weight(b)
<1>0. MaxValidatorSize \in Nat
  BY DposAssumption
<1>1. Elected \subseteq Candidates
  BY DEF Elected
<1>2. Cardinality(Elected) = Min({Cardinality(Candidates), MaxValidatorSize})
  <2> DEFINE n == Cardinality(Candidates)
             m == MaxValidatorSize
  <2>1. n \in Nat /\ m \in Nat
    BY <1>0, FiniteCandidates
  <2>2. /\ n <= m => Cardinality(Elected) = n
        /\ m <= n => Cardinality(Elected) = m
    BY <1>0, FiniteCandidates, RankingIsLine, ElectedAreFirst, FirstCount
  <2> HIDE DEF n, m
  <2>3. Min({n, m}) = IF n <= m THEN n ELSE m
    BY <2>1 DEF Min
  <2>4. Cardinality(Elected) = Min({n, m})
    BY <2>1, <2>2, <2>3
  <2> QED BY <2>4 DEF n, m
<1>3. ASSUME NEW a \in Elected, NEW b \in Candidates \ Elected
      PROVE  Weight(a) >= Weight(b)
  <2> SUFFICES ASSUME ~ (Weight(a) >= Weight(b)) PROVE FALSE
    OBVIOUS
  <2> DEFINE A == {c \in Candidates : Less(c, a)}
             B == {c \in Candidates : Less(c, b)}
  <2>1. a \in Candidates /\ b \in Candidates /\ Weight(a) \in Nat /\ Weight(b) \in Nat
    BY <1>1, WeightType
  <2>2. Less(b, a)
    BY <2>1 DEF Less
  <2>3. B \subseteq A
    <3>1. \A c \in Candidates : Less(c, b) => Less(c, a)
      BY <2>1, <2>2, RankingIsLine, Zenon DEF LineOn
    <3> QED BY <3>1
  <2>4. IsFiniteSet(A) /\ IsFiniteSet(B)
    BY FiniteCandidates, FS_Subset
  <2>5. Cardinality(A) < MaxValidatorSize
    BY DEF Elected
  <2>6. ~ (Cardinality(B) < MaxValidatorSize)
    BY DEF Elected
  <2> HIDE DEF A, B
  <2>7. Cardinality(B) <= Cardinality(A)
    BY <2>3, <2>4, FS_Subset
  <2>8. Cardinality(A) \in Nat /\ Cardinality(B) \in Nat
    BY <2>4, FS_CardinalityType
  <2> QED BY <1>0, <2>5, <2>6, <2>7, <2>8
<1> QED BY <1>1, <1>2, <1>3

\* Every election takes the candidates with the most weight, whatever order the
\* map of votes was walked in (Finalize, tryElect, countVotes).
THEOREM ElectsBestCorrect == Spec => ElectsBest
<1> DEFINE A == number' # number /\ number % Epoch = 0 =>
                  LET in == validators'
                  IN /\ in \subseteq Candidates
                     /\ Cardinality(in) = Min({Cardinality(Candidates), MaxValidatorSize})
                     /\ \A a \in in, b \in Candidates \ in : Weight(a) >= Weight(b)
<1>1. TypeOK /\ [Next]_vars => [A]_vars
  <2> SUFFICES ASSUME TypeOK, Next, number' # number, number % Epoch = 0
               PROVE  validators' = Elected
    BY ElectedBest, Zenon
  <2>1. PICK v \in validators : Finalize(v)
    BY DEF Next, LoginCandidate, LogoutCandidate, WithdrawCandidate, Delegate, UnDelegate, Transfer
  <2> QED BY <2>1 DEF Finalize, TryElect
<1> QED BY <1>1, DposTypeCorrect, PTL DEF Spec, ElectsBest
=============================================================================
