------------------------------ MODULE DposSeal ------------------------------
(***************************************************************************)
(* Who may seal the next block of the DPoS chain: the rule of recent       *)
(* signers, as Seal and verifySeal apply it, and the difficulty that       *)
(* prefers the signer whose turn it is.  One chain, seen from its head; at  *)
(* the end of an epoch the election (DposContext) may replace the signers. *)
(***************************************************************************)
EXTENDS Integers, FiniteSets

CONSTANTS
  SignerSets,  \* what elections may choose; the order of numbers is that of addresses
  Down,        \* signers that seal nothing
  Epoch,       \* blocks between elections
  DiffMax,     \* diffMax
  Word,        \* 2^64 for the code; any number above MaxBlock behaves the same
  MaxBlock     \* bound: no block above this number

ASSUME SealAssumption ==
  /\ SignerSets # {} /\ \A S \in SignerSets : S \subseteq Nat /\ IsFiniteSet(S) /\ S # {}
  /\ Epoch \in Nat \ {0} /\ DiffMax \in Nat \ {0}
  /\ MaxBlock \in Nat \ {0} /\ Word \in Nat /\ Word > 2 * MaxBlock

VARIABLES
  chain,   \* number -> the block's Coinbase
  head,    \* number of the last block
  signers  \* epoch.Signers at the head

vars == <<chain, head, signers>>

number == head + 1
N == Cardinality(signers)

\* Blocks from one block of a signer to its next, at least.
limit == N \div 2 + 1

\* epochContext: the blocks whose signers count as recent, from the head back
\* to the last block of an epoch.
Recents == {k \in 1 .. head : k > head - limit /\ \A j \in k .. head : j % Epoch # 0}

\* A variant that lets a signer sign one block too early.
SealRefusesEarly(s) ==
  \E k \in Recents : chain[k] = s /\ (number < limit \/ k > number - limit + 1)

\* Seal waits instead of signing.
SealRefuses(s) ==
  \E k \in Recents : chain[k] = s /\ (number < limit \/ k > number - limit)

\* verifySeal rejects; the subtraction is one of uint64.
VerifyRefuses(s) == \E k \in Recents : chain[k] = s /\ k > (number - limit) % Word

\* signerIndex: the position among the signers in the order of their addresses.
SignerIndex(s) == Cardinality({t \in signers : t < s})

InTurn(s) == number % N = SignerIndex(s)

\* A variant whose comparison is not strict.
CalcDifficultyFlat(s) ==
  LET noffset == number % N
      index == IF noffset >= SignerIndex(s) THEN noffset - SignerIndex(s)
                                            ELSE N - (SignerIndex(s) - noffset)
  IN (index * DiffMax) \div N + 1000

CalcDifficulty(s) ==
  LET noffset == number % N
      index == IF noffset > SignerIndex(s) THEN noffset - SignerIndex(s)
                                           ELSE N - (SignerIndex(s) - noffset)
  IN (index * DiffMax) \div N + 1000
-----------------------------------------------------------------------------
Init ==
  /\ head = 0
  /\ chain = [k \in {} |-> 0]
  /\ signers \in SignerSets

\* A signer seals the next block and all accept it; the block that ends an
\* epoch carries the signers that were elected.
Seal(s) ==
  /\ head < MaxBlock
  /\ ~ SealRefuses(s)
  /\ ~ VerifyRefuses(s)
  /\ chain' = [k \in 1 .. number |-> IF k = number THEN s ELSE chain[k]]
  /\ head' = number
  /\ IF number % Epoch = 0 THEN signers' \in SignerSets ELSE UNCHANGED signers

Next == \E s \in signers \ Down : Seal(s)

Spec == Init /\ [][Next]_vars

-----------------------------------------------------------------------------
\* Seal and verifySeal agree on who has to wait: what Seal lets a signer sign,
\* every node accepts, and once the chain is as long as the limit verifySeal
\* rejects whom Seal makes wait ("only fail if the current block doesn't shift
\* it out").  Before that its subtraction wraps and it rejects nobody.  While
\* fewer than half of the signers are down, some signer that is up may seal,
\* whatever the last blocks were and whatever the election changed.
SealAgreesWithVerify ==
  /\ \A s \in signers :
       /\ ~ SealRefuses(s) => ~ VerifyRefuses(s)
       /\ number >= limit /\ SealRefuses(s) => VerifyRefuses(s)
  /\ \A D \in SUBSET signers :
       2 * Cardinality(D) < N => \E s \in signers \ D : ~ SealRefuses(s)

\* Of two blocks on one parent the one of the signer in turn is heavier, and
\* with at most DiffMax signers no two are equally heavy (CalcDifficulty).
DifficultyRanks ==
  \A s, t \in signers : s # t =>
    /\ InTurn(s) => CalcDifficulty(s) >= CalcDifficulty(t)
    /\ N <= DiffMax => CalcDifficulty(s) # CalcDifficulty(t)
=============================================================================
