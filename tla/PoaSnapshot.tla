---------------------------- MODULE PoaSnapshot ----------------------------
(***************************************************************************)
(* The snapshot of the PoA engine: the votes of VoteSnapshot, and the      *)
(* recent signers, who have to wait until enough others have signed.  The  *)
(* window of recent signers moves with every block and its size with the   *)
(* number of signers, which votes change.                                  *)
(***************************************************************************)
EXTENDS VoteSnapshot, Integers

CONSTANT Word  \* 2^64 for the code; any number above 2 * MaxBlock behaves the same

ASSUME WordAssumption == Word \in Nat /\ Word > 2 * MaxHeader

VARIABLE Recents  \* pairs of a block number and its signer

poaVars == <<snap, height, Recents>>

\* Blocks from one block of a signer to its next, at least.
Limit(s) == Cardinality(s.ValSet) \div 2 + 1

\* The oldest signer leaves the recent ones.
Shifted(recents, s, n) == {p \in recents : n < Limit(s) \/ p[1] # n - Limit(s)}

\* A variant without the second shift.
ShrunkNot(recents, before, after, n) == recents

\* "Signer list shrunk, delete any leftover recent caches"
Shrunk(recents, before, after, n) ==
  IF after.ValSet \subseteq before.ValSet /\ after.ValSet # before.ValSet
  THEN Shifted(recents, after, n) ELSE recents

\* apply refuses a header of a recent signer.
ApplyRefuses(v) == \E p \in Shifted(Recents, snap, height + 1) : p[2] = v

\* Seal waits instead of signing.
SealRefuses(v) ==
  \E p \in Recents : p[2] = v /\ (height + 1 < Limit(snap) \/ p[1] > height + 1 - Limit(snap))

\* verifySeal rejects; the subtraction is one of uint64.
VerifyRefuses(v) == \E p \in Recents : p[2] = v /\ p[1] > (height + 1 - Limit(snap)) % Word
-----------------------------------------------------------------------------
PoaInit == VoteInit /\ Recents = {}

\* apply for one header; checkpoints vote on nobody (verifyHeader).
PoaApply(v, address, authorize) ==
  /\ (height + 1) % VoteEpoch = 0 => address = Nobody
  /\ ~ ApplyRefuses(v)
  /\ Apply(v, address, authorize)
  /\ Recents' = Shrunk(Shifted(Recents, snap, height + 1) \cup {<<height + 1, v>>},
                       snap, snap', height + 1)

PoaStop == VoteStop /\ UNCHANGED Recents

PoaNext ==
  \/ \E v \in Members, a \in Members \cup {Nobody}, authorize \in BOOLEAN : PoaApply(v, a, authorize)
  \/ PoaStop

PoaSpec == PoaInit /\ [][PoaNext]_poaVars
-----------------------------------------------------------------------------
\* While the window grows and shrinks with the signers, Seal and apply agree on
\* who has to wait, and so does verifySeal once the chain is as long as the
\* limit; before that its subtraction wraps and it rejects nobody.  They never
\* keep everybody waiting: while fewer than half of the signers are down, some
\* signer that is up may seal the next block.
SealAgreesWithApply ==
  /\ \A v \in snap.ValSet :
       /\ SealRefuses(v) <=> ApplyRefuses(v)
       /\ ~ SealRefuses(v) => ~ VerifyRefuses(v)
       /\ height + 1 >= Limit(snap) /\ SealRefuses(v) => VerifyRefuses(v)
  /\ \A D \in SUBSET snap.ValSet :
       2 * Cardinality(D) < Cardinality(snap.ValSet) =>
         \E v \in snap.ValSet \ D : ~ ApplyRefuses(v)
=============================================================================
