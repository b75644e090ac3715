---------------------------- MODULE VoteSnapshot ----------------------------
(***************************************************************************)
(* Voting on the set of validators in block headers, for the BFT engine:   *)
(* a snapshot holds the validators, the votes since the last checkpoint    *)
(* and a tally of them per account, and applying a header yields the next  *)
(* snapshot.  The list of votes is a set here, its order is never used.    *)
(***************************************************************************)
EXTENDS Naturals, FiniteSets

CONSTANTS
  Members,    \* accounts that may be voted on
  GenesisSigners,  \* validators of the genesis block
  Nobody,     \* a header that votes on nobody
  VoteEpoch,    \* blocks between checkpoints
  MaxHeader  \* bound: no block above this number

ASSUME VoteAssumption ==
  /\ IsFiniteSet(Members) /\ Nobody \notin Members
  /\ GenesisSigners \subseteq Members /\ GenesisSigners # {}
  /\ VoteEpoch \in Nat \ {0} /\ MaxHeader \in Nat

VARIABLES
  snap,   \* the snapshot at the head of the chain
  height  \* number of the head

Vote == [validator : Members, address : Members, authorize : BOOLEAN]
NoTally == [authorize |-> FALSE, votes |-> 0]

newSnapshot ==
  [ValSet |-> GenesisSigners, Votes |-> {}, Tally |-> [a \in Members |-> NoTally]]

\* A vote makes sense if it would change the set.
CheckVote(s, address, authorize) == (address \in s.ValSet) # authorize

Cast(s, validator, address, authorize) ==
  IF ~ CheckVote(s, address, authorize) THEN s
  ELSE [s EXCEPT
          !.Votes = @ \cup {[validator |-> validator, address |-> address, authorize |-> authorize]},
          !.Tally[address] = [authorize |-> IF @.votes > 0 THEN @.authorize ELSE authorize,
                              votes |-> @.votes + 1]]

\* A variant that leaves the tally as it is.
UncastNot(tally, authorize) == tally

\* uncast: only a vote that was counted is taken back.
Uncast(tally, authorize) ==
  IF tally.votes = 0 \/ tally.authorize # authorize THEN tally
  ELSE IF tally.votes > 1 THEN [tally EXCEPT !.votes = @ - 1]
  ELSE NoTally

\* A validator that votes on an account again replaces its vote.
Retract(s, validator, address) ==
  LET old == {w \in s.Votes : w.validator = validator /\ w.address = address}
      vote == CHOOSE w \in old : TRUE
  IN IF old = {} THEN s
     ELSE [s EXCEPT !.Votes = @ \ {vote}, !.Tally[address] = Uncast(@, vote.authorize)]

\* All votes of a validator that was removed go.  It has at most one with each
\* opinion on an account, of which uncast finds one counted.
DropVotesOf(s, validator) ==
  LET gone == {w \in s.Votes : w.validator = validator}
  IN [s EXCEPT
        !.Votes = @ \ gone,
        !.Tally = [a \in Members |->
                     IF \E w \in gone : w.address = a /\ w.authorize = s.Tally[a].authorize
                     THEN Uncast(s.Tally[a], s.Tally[a].authorize) ELSE s.Tally[a]]]

\* A variant where half of the validators suffice.
PassedByHalf(s, address) == 2 * s.Tally[address].votes >= Cardinality(s.ValSet)

Passed(s, address) == s.Tally[address].votes > Cardinality(s.ValSet) \div 2

\* The change that was voted for, and the end of all votes on the account.
ChangeSet(s, address) ==
  LET changed == IF s.Tally[address].authorize
                 THEN [s EXCEPT !.ValSet = @ \cup {address}]
                 ELSE DropVotesOf([s EXCEPT !.ValSet = @ \ {address}], address)
  IN [changed EXCEPT !.Votes = {w \in @ : w.address # address},
                     !.Tally[address] = NoTally]

\* Votes and tallies do not outlive a checkpoint.
Checkpoint(s, n) ==
  IF n % VoteEpoch = 0 THEN [newSnapshot EXCEPT !.ValSet = s.ValSet] ELSE s

\* The snapshot after a header of validator that votes on address.
ApplyVote(s, validator, address, authorize) ==
  LET cast == Cast(Retract(s, validator, address), validator, address, authorize)
  IN IF Passed(cast, address) THEN ChangeSet(cast, address) ELSE cast
-----------------------------------------------------------------------------
VoteInit == snap = newSnapshot /\ height = 0

\* apply for one header; a header whose Coinbase is empty casts no vote.
Apply(validator, address, authorize) ==
  LET s == Checkpoint(snap, height + 1)
  IN /\ height < MaxHeader
     /\ validator \in s.ValSet
     /\ snap' = IF address = Nobody THEN s ELSE ApplyVote(s, validator, address, authorize)
     /\ height' = height + 1

\* The model ends at its bound; a chain whose validators removed each other ends
\* as well.
VoteStop == (height = MaxHeader \/ snap.ValSet = {}) /\ UNCHANGED <<snap, height>>

VoteNext ==
  \/ \E v \in Members, a \in Members \cup {Nobody}, authorize \in BOOLEAN : Apply(v, a, authorize)
  \/ VoteStop

VoteSpec == VoteInit /\ [][VoteNext]_<<snap, height>>
-----------------------------------------------------------------------------
VotesOn(s, a) == {w \in s.Votes : w.address = a}
VotersOn(s, a) == {w.validator : w \in VotesOn(s, a)}

\* The tally of each account in s is what the votes in its list say.
Exact(s) ==
  \A a \in Members :
    /\ s.Tally[a].votes = Cardinality(VotersOn(s, a))
    /\ \A w \in VotesOn(s, a) : /\ w.authorize = s.Tally[a].authorize
                                /\ w.authorize = (a \notin s.ValSet)
                                /\ w.validator \in s.ValSet

\* Through all votes, changes of mind, removals and checkpoints the cached tally
\* of an account is what the votes in the list say: it counts each of them, they
\* are of one opinion, and of different validators of the set as it is ("Discard
\* any previous votes the deauthorized validator cast").
TallyExact == Exact(snap)

\* The set changes by account a, which more than half of its members want: all
\* but the last of their votes are in the list before.
WantedChange(a) ==
  /\ snap'.ValSet = IF a \in snap.ValSet THEN snap.ValSet \ {a} ELSE snap.ValSet \cup {a}
  /\ 2 * (Cardinality(VotersOn(snap, a)) + 1) > Cardinality(snap.ValSet)

\* The set changes by one account at a time, and only if more than half of the
\* validators want it (apply).
MajorityChanges ==
  [][snap'.ValSet # snap.ValSet => \E a \in Members : WantedChange(a)]_<<snap, height>>
=============================================================================
