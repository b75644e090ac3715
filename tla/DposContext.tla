---------------------------- MODULE DposContext ----------------------------
(***************************************************************************)
(* The staking state of the DPoS chain: candidates with their deposits,    *)
(* delegations, the validators of the epoch and the blocks they minted.    *)
(*                                                                         *)
(* A block applies transactions one after the other (ApplyTransaction,     *)
(* applyDposMessage) and is then finalized (DPOS.Finalize), which elects   *)
(* the validators at the end of an epoch.  The five tries of DposContext   *)
(* are the variables.  Left out: the scores, block numbers and balances    *)
(* stored for display, and the fees of transactions.                       *)
(***************************************************************************)
EXTENDS Integers, FiniteSets, FiniteSetsExt, Functions

CONSTANTS
  Addrs,                \* accounts; the order of numbers is that of addresses
  None,                 \* no entry in a trie
  Genesis,              \* validators of the genesis configuration
  InitBalance,          \* balances of the genesis block
  MinCandidateBalance,  \* what a candidate deposits
  UnlockInterval,       \* blocks between logout and withdrawal
  Epoch,                \* blocks between elections
  MaxValidatorSize,     \* validators elected
  SafeSize,             \* candidates an election needs
  MaxBlock              \* bound: no block above this number

LoginState == "login"
LogoutState == "logout"

ASSUME DposAssumption ==
  /\ Addrs \subseteq Nat /\ IsFiniteSet(Addrs)
  /\ None \notin Addrs /\ None \notin {LoginState, LogoutState}
  /\ Genesis \subseteq Addrs /\ Genesis # {}
  /\ InitBalance \in [Addrs -> Nat]
  /\ MinCandidateBalance \in Nat \ {0} /\ UnlockInterval \in Nat
  /\ Epoch \in Nat \ {0} /\ MaxValidatorSize \in Nat \ {0} /\ SafeSize \in Nat \ {0}
  /\ MaxBlock \in Nat \ {0}

VARIABLES
  candidateTrie,  \* candidate -> its context
  delegateTrie,   \* pairs of candidate and delegator
  voteTrie,       \* delegator -> candidate
  validators,     \* those in the epoch trie; their order is never used
  mintCnt,        \* validator -> blocks minted
  balance,        \* account -> coins, in the state trie
  number          \* the block being built

vars == <<candidateTrie, delegateTrie, voteTrie, validators, mintCnt, balance, number>>

CandidateContext == [state : {LoginState, LogoutState}, block : 0 .. MaxBlock]
NoContext == [state |-> None, block |-> 0]

Candidates == {a \in Addrs : candidateTrie[a].state # None}
-----------------------------------------------------------------------------
\* initGenesisDposContext: validators are candidates that have paid no
\* deposit, each with an entry for itself in the delegate trie.
Init ==
  /\ candidateTrie = [a \in Addrs |-> IF a \in Genesis THEN [state |-> LoginState, block |-> 0]
                                                       ELSE NoContext]
  /\ delegateTrie = {<<a, a>> : a \in Genesis}
  /\ voteTrie = [a \in Addrs |-> None]
  /\ validators = Genesis
  /\ mintCnt = [a \in Addrs |-> 0]
  /\ balance = InitBalance
  /\ number = 1

\* SetCandidateContext with the number of the block being built.
SetCandidateContext(a, s) ==
  candidateTrie' = [candidateTrie EXCEPT ![a] = [state |-> s, block |-> number]]

\* A variant that takes the deposit whenever a candidate logs in.
LoginAgainCharged(a) ==
  /\ candidateTrie[a].state = LogoutState
  /\ balance[a] >= MinCandidateBalance
  /\ SetCandidateContext(a, LoginState)
  /\ balance' = [balance EXCEPT ![a] = @ - MinCandidateBalance]

\* The deposit is still there, logging in again is free.
LoginAgain(a) ==
  /\ candidateTrie[a].state = LogoutState
  /\ SetCandidateContext(a, LoginState)
  /\ UNCHANGED balance

FirstLogin(a) ==
  /\ candidateTrie[a].state = None
  /\ balance[a] >= MinCandidateBalance
  /\ SetCandidateContext(a, LoginState)
  /\ balance' = [balance EXCEPT ![a] = @ - MinCandidateBalance]

LoginCandidate(a) ==
  /\ LoginAgain(a) \/ FirstLogin(a)
  /\ UNCHANGED <<delegateTrie, voteTrie, validators, mintCnt, number>>

LogoutCandidate(a) ==
  /\ candidateTrie[a].state = LoginState
  /\ SetCandidateContext(a, LogoutState)
  /\ UNCHANGED <<delegateTrie, voteTrie, validators, mintCnt, balance, number>>

\* The delegations of the candidate go.  The votes stay: the code compares an
\* encoded VoteContext with an address, which are never equal.
KickoutCandidate(a) ==
  /\ candidateTrie' = [candidateTrie EXCEPT ![a] = NoContext]
  /\ delegateTrie' = {p \in delegateTrie : p[1] # a}
  /\ UNCHANGED voteTrie

WithdrawCandidate(a) ==
  /\ candidateTrie[a].state = LogoutState
  /\ candidateTrie[a].block + UnlockInterval < number
  /\ KickoutCandidate(a)
  /\ balance' = [balance EXCEPT ![a] = @ + MinCandidateBalance]
  /\ UNCHANGED <<validators, mintCnt, number>>

\* A variant that forgets to take the old delegation away.
DelegateAgain(d, c) ==
  /\ c \in Candidates
  /\ delegateTrie' = delegateTrie \cup {<<c, d>>}
  /\ voteTrie' = [voteTrie EXCEPT ![d] = c]
  /\ UNCHANGED <<candidateTrie, validators, mintCnt, balance, number>>

\* The old delegation is the one that the vote trie names.
Delegate(d, c) ==
  /\ c \in Candidates
  /\ delegateTrie' = (delegateTrie \ {<<voteTrie[d], d>>}) \cup {<<c, d>>}
  /\ voteTrie' = [voteTrie EXCEPT ![d] = c]
  /\ UNCHANGED <<candidateTrie, validators, mintCnt, balance, number>>

UnDelegate(d, c) ==
  /\ c \in Candidates
  /\ voteTrie[d] = c
  /\ delegateTrie' = delegateTrie \ {<<c, d>>}
  /\ voteTrie' = [voteTrie EXCEPT ![d] = None]
  /\ UNCHANGED <<candidateTrie, validators, mintCnt, balance, number>>

\* A plain transaction moves coins; of delegators this moves weight.
Transfer(a, b, v) ==
  /\ a # b /\ balance[a] >= v
  /\ balance' = [balance EXCEPT ![a] = @ - v, ![b] = @ + v]
  /\ UNCHANGED <<candidateTrie, delegateTrie, voteTrie, validators, mintCnt, number>>
-----------------------------------------------------------------------------
\* countVotes: candidates of every state, delegators with what they have now.
Weight(c) == SumFunctionOnSet(balance, {d \in Addrs : <<c, d>> \in delegateTrie})

\* A variant without the order of addresses.
LessByWeight(a, b) == Weight(a) > Weight(b)

\* SortableAddresses.Less
Less(a, b) == Weight(a) > Weight(b) \/ (Weight(a) = Weight(b) /\ a < b)

\* The first MaxValidatorSize of the sorted candidates.
Elected ==
  {a \in Candidates : Cardinality({b \in Candidates : Less(b, a)}) < MaxValidatorSize}

\* Without candidates enough there is no block that ends the epoch.
TryElect ==
  /\ Cardinality(Candidates) >= SafeSize
  /\ validators' = Elected

Finalize(coinbase) ==
  /\ number < MaxBlock
  /\ IF number % Epoch = 0 THEN TryElect ELSE UNCHANGED validators
  /\ mintCnt' = [mintCnt EXCEPT ![coinbase] = @ + 1]
  /\ number' = number + 1
  /\ UNCHANGED <<candidateTrie, delegateTrie, voteTrie, balance>>

Next ==
  \/ \E a \in Addrs : LoginCandidate(a) \/ LogoutCandidate(a) \/ WithdrawCandidate(a)
  \/ \E d, c \in Addrs : Delegate(d, c) \/ UnDelegate(d, c)
  \/ \E a, b \in Addrs : Transfer(a, b, 1)
  \/ \E v \in validators : Finalize(v)

Spec == Init /\ [][Next]_vars
-----------------------------------------------------------------------------
\* The types of the tries; a candidate's context names a block not in the future.
TypeOK ==
  /\ candidateTrie \in [Addrs -> CandidateContext \cup {NoContext}]
  /\ \A a \in Addrs : candidateTrie[a].block <= number
  /\ delegateTrie \subseteq Addrs \X Addrs
  /\ voteTrie \in [Addrs -> Addrs \cup {None}]
  /\ validators \subseteq Addrs
  /\ mintCnt \in [Addrs -> Nat]
  /\ balance \in [Addrs -> Nat]
  /\ number \in 1 .. MaxBlock

\* Every delegation is to a candidate, through any order of logins, votes and
\* withdrawals: a candidate that withdrew (KickoutCandidate) and logs in again
\* starts without the weight it had.
DelegatesOfCandidates == \A p \in delegateTrie : p[1] \in Candidates

\* A delegation counts only where the delegator's last vote went (Delegate
\* takes the old one away), the entries written by the genesis block excepted.
DelegatesVoted ==
  \A p \in delegateTrie : voteTrie[p[2]] = p[1] \/ (p[1] = p[2] /\ p[1] \in Genesis)

Coins(f) == SumFunctionOnSet(f, Addrs)

\* No coin is made or lost by logins, logouts and withdrawals: what accounts
\* have and what candidates have deposited is what there was at genesis, with
\* a deposit counted for each genesis validator.
DepositsKept ==
  Coins(balance) + MinCandidateBalance * Cardinality(Candidates)
    = Coins(InitBalance) + MinCandidateBalance * Cardinality(Genesis)

\* The end of an epoch elects candidates, exactly as many as there is room for
\* (ties are broken by address: tryElect sorts what it got from a Go map, whose
\* order differs from node to node), and no candidate that has more weight
\* behind it than an elected one stays out.
ElectsBest ==
  [][number' # number /\ number % Epoch = 0 =>
       LET in == validators'
       IN /\ in \subseteq Candidates
          /\ Cardinality(in) = Min({Cardinality(Candidates), MaxValidatorSize})
          /\ \A a \in in, b \in Candidates \ in : Weight(a) >= Weight(b)]_vars

\* TestDposContextKickoutCandidate: a candidate that was kicked out has no votes.
VotesOfCandidates == \A d \in Addrs : voteTrie[d] \in Candidates \cup {None}
=============================================================================
