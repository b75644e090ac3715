----------------------------- MODULE ExecProof -----------------------------
(***************************************************************************)
(* Proofs about StateTransition: no nesting of calls, creations, suicides, *)
(* reverts and faults makes or loses a coin, and gas ends every execution, *)
(* for any accounts, messages, prices and limits.                          *)
(***************************************************************************)
EXTENDS StateTransition, Sums, TLAPS

Worlds ==
  [balance : [Holders -> Nat], nonce : [Holders -> Nat], code : SUBSET Holders,
   dead : SUBSET Holders, refund : Nat, burnt : Nat]

Calls == [self : Holders, gas : Nat, snap : Worlds, creates : BOOLEAN, readOnly : BOOLEAN]

\* The coins that a world accounts for.
Worth(w) == Total(w) + w.burnt

\* Between transactions no suicide is pending and the refund counter is zero.
Clean(w) == w.dead = {} /\ w.refund = 0

\* crypto.CreateAddress returns an address.
AddressesKnown == \A a \in Holders, n \in Nat : CreateAddress(a, n) \in Holders

\* A message has the types of a transaction.
LEMMA MessageType ==
  ASSUME NEW m \in Messages
  PROVE  /\ m.from \in Holders /\ m.to \in Holders \union {"create"}
         /\ m.value \in Nat /\ m.gas \in Nat /\ m.price \in Nat /\ m.gas * m.price \in Nat
<1>1. /\ m.from \in Holders /\ m.to \in Holders \union {"create"}
      /\ m.value \in Nat /\ m.gas \in Nat /\ m.price \in Nat
  BY ExecutionAssumption
<1>2. \A x, y \in Nat : x * y \in Nat
  OBVIOUS
<1>. QED
  BY <1>1, <1>2

\* What one account gains, all gain together.
LEMMA BalanceChange ==
  ASSUME NEW f \in [Holders -> Nat], NEW g \in [Holders -> Nat], NEW a \in Holders,
         \A x \in Holders : x # a => g[x] = f[x]
  PROVE  /\ SumFunctionOnSet(f, Holders) \in Nat
         /\ SumFunctionOnSet(g, Holders) = SumFunctionOnSet(f, Holders) + (g[a] - f[a])
<1>1. IsFiniteSet(Holders)
  BY ExecutionAssumption
<1>2. (\A x \in Holders : f[x] \in Nat) /\ (\A x \in Holders : f[x] \in Int) /\ g[a] \in Int
  OBVIOUS
<1>3. SumFunctionOnSet(f, Holders) \in Nat
  BY <1>1, <1>2, SumNat
<1>4. SumFunctionOnSet(g, Holders) = SumFunctionOnSet(f, Holders) + (g[a] - f[a])
  BY <1>1, <1>2, SumUpdate
<1>. QED
  BY <1>3, <1>4

\* The worth of a world is a natural number.
LEMMA WorthType ==
  ASSUME NEW w \in Worlds
  PROVE  Total(w) \in Nat /\ w.burnt \in Nat /\ Worth(w) \in Nat
<1>1. w.balance \in [Holders -> Nat] /\ w.burnt \in Nat
  BY DEF Worlds
<1>2. IsFiniteSet(Holders) /\ \A x \in Holders : w.balance[x] \in Nat
  BY <1>1, ExecutionAssumption
<1>3. Total(w) \in Nat
  BY <1>2, SumNat DEF Total
<1>. QED
  BY <1>1, <1>3 DEF Worth

\* A world in which one balance changes.
LEMMA OneBalance ==
  ASSUME NEW w \in Worlds, NEW v \in Worlds, NEW a \in Holders,
         v.burnt = w.burnt, \A x \in Holders : x # a => v.balance[x] = w.balance[x]
  PROVE  Worth(v) = Worth(w) + (v.balance[a] - w.balance[a])
<1>1. w.balance \in [Holders -> Nat] /\ v.balance \in [Holders -> Nat] /\ w.burnt \in Nat
  BY DEF Worlds
<1>2. /\ Total(w) \in Nat
      /\ Total(v) = Total(w) + (v.balance[a] - w.balance[a])
  BY <1>1, BalanceChange DEF Total
<1>3. v.balance[a] \in Nat /\ w.balance[a] \in Nat
  BY <1>1
<1>. QED
  BY <1>1, <1>2, <1>3 DEF Worth

\* Transfer of core/evm.go moves coins, also from an account to itself.
LEMMA TransferKeeps ==
  ASSUME NEW w \in Worlds, NEW a \in Holders, NEW b \in Holders, NEW v \in Nat, CanTransfer(w, a, v)
  PROVE  Transfer(w, a, b, v) \in Worlds /\ Worth(Transfer(w, a, b, v)) = Worth(w)
<1>. DEFINE u == [w EXCEPT !.balance = [w.balance EXCEPT ![a] = @ - v]]
            t == Transfer(w, a, b, v)
<1>1. w.balance \in [Holders -> Nat] /\ w.balance[a] \in Nat /\ w.balance[a] - v \in Nat
  BY DEF Worlds, CanTransfer
<1>2. u \in Worlds /\ u.burnt = w.burnt /\ u.balance = [w.balance EXCEPT ![a] = @ - v]
  BY <1>1 DEF Worlds
<1>3. u.balance[a] = w.balance[a] - v /\ \A x \in Holders : x # a => u.balance[x] = w.balance[x]
  BY <1>1, <1>2
<1>4. /\ t = [w EXCEPT !.balance = [u.balance EXCEPT ![b] = @ + v]]
      /\ u.balance \in [Holders -> Nat] /\ u.balance[b] \in Nat
  <2>1. t = [w EXCEPT !.balance = [[w.balance EXCEPT ![a] = @ - v] EXCEPT ![b] = @ + v]]
    BY DEF Transfer
  <2>. HIDE DEF u, t
  <2>. QED
    BY <1>1, <1>2, <2>1 DEF Worlds
<1>. HIDE DEF u, t
<1>5. t \in Worlds /\ t.burnt = u.burnt /\ t.balance = [u.balance EXCEPT ![b] = @ + v]
  BY <1>2, <1>4 DEF Worlds
<1>6. t.balance[b] = u.balance[b] + v /\ \A x \in Holders : x # b => t.balance[x] = u.balance[x]
  BY <1>4, <1>5
<1>7. Worth(u) = Worth(w) + (u.balance[a] - w.balance[a])
  BY <1>2, <1>3, OneBalance, Zenon
<1>8. Worth(t) = Worth(u) + (t.balance[b] - u.balance[b])
  <2>1. u \in Worlds /\ t \in Worlds /\ t.burnt = u.burnt
    BY <1>2, <1>5
  <2>2. \A x \in Holders : x # b => t.balance[x] = u.balance[x]
    BY <1>6
  <2>. QED
    BY <2>1, <2>2, OneBalance
<1>9. Worth(w) \in Nat
  BY WorthType
<1>10. Worth(t) = Worth(w)
  BY <1>1, <1>3, <1>4, <1>6, <1>7, <1>8, <1>9
<1>. QED
  BY <1>5, <1>10 DEF t

\* A world in which nonces, code, pending suicides or the refund change.
LEMMA SameBalances ==
  ASSUME NEW w, NEW v, v.balance = w.balance, v.burnt = w.burnt
  PROVE  Worth(v) = Worth(w)
BY DEF Worth, Total

\* A nonce is no coin.
LEMMA NonceKeeps ==
  ASSUME NEW w \in Worlds, NEW a \in Holders
  PROVE  IncNonce(w, a) \in Worlds /\ Worth(IncNonce(w, a)) = Worth(w)
<1>1. IncNonce(w, a) \in Worlds /\ IncNonce(w, a).balance = w.balance /\ IncNonce(w, a).burnt = w.burnt
  BY DEF IncNonce, Worlds
<1>. QED
  BY <1>1, SameBalances

\* buyGas takes the price of the gas from the sender.
LEMMA BuyGasTakes ==
  ASSUME NEW w \in Worlds, NEW m \in Messages, w.balance[m.from] >= m.gas * m.price
  PROVE  /\ BuyGas(w, m) \in Worlds
         /\ Worth(BuyGas(w, m)) + m.gas * m.price = Worth(w)
<1>. DEFINE p == m.gas * m.price
            b == BuyGas(w, m)
<1>1. m.from \in Holders /\ p \in Nat
  BY MessageType
<1>2. b = [w EXCEPT !.balance[m.from] = @ - p] /\ w.balance[m.from] >= p
  BY DEF BuyGas
<1>. HIDE DEF p, b
<1>3. w.balance \in [Holders -> Nat] /\ w.balance[m.from] \in Nat /\ w.balance[m.from] - p \in Nat
  BY <1>1, <1>2 DEF Worlds
<1>4. b \in Worlds /\ b.burnt = w.burnt /\ b.balance = [w.balance EXCEPT ![m.from] = @ - p]
  BY <1>1, <1>2, <1>3 DEF Worlds
<1>5. b.balance[m.from] = w.balance[m.from] - p /\ \A x \in Holders : x # m.from => b.balance[x] = w.balance[x]
  BY <1>1, <1>3, <1>4
<1>6. Worth(b) = Worth(w) + (b.balance[m.from] - w.balance[m.from])
  BY <1>1, <1>4, <1>5, OneBalance, Zenon
<1>7. Worth(w) \in Nat
  BY WorthType
<1>8. Worth(b) + p = Worth(w)
  BY <1>1, <1>3, <1>5, <1>6, <1>7
<1>. QED
  BY <1>4, <1>8 DEF b, p

\* TransitionDb pays the coinbase.
LEMMA PayKeeps ==
  ASSUME NEW w \in Worlds, NEW p \in Nat
  PROVE  LET c == [w EXCEPT !.balance[Coinbase] = @ + p]
         IN c \in Worlds /\ Worth(c) = Worth(w) + p
<1>. DEFINE c == [w EXCEPT !.balance[Coinbase] = @ + p]
<1>1. Coinbase \in Holders
  BY ExecutionAssumption
<1>2. w.balance \in [Holders -> Nat] /\ w.balance[Coinbase] \in Nat
  BY <1>1 DEF Worlds
<1>3. c \in Worlds /\ c.burnt = w.burnt /\ c.balance = [w.balance EXCEPT ![Coinbase] = @ + p]
  BY <1>1, <1>2 DEF Worlds
<1>. HIDE DEF c
<1>4. c.balance[Coinbase] = w.balance[Coinbase] + p /\ \A x \in Holders : x # Coinbase => c.balance[x] = w.balance[x]
  BY <1>1, <1>2, <1>3
<1>5. Worth(c) = Worth(w) + (c.balance[Coinbase] - w.balance[Coinbase])
  BY <1>1, <1>3, <1>4, OneBalance, Zenon
<1>6. Worth(w) \in Nat
  BY WorthType
<1>7. Worth(c) = Worth(w) + p
  BY <1>2, <1>4, <1>5, <1>6
<1>. QED
  BY <1>3, <1>7 DEF c

\* opSuicide hands the balance over, or burns it when the heir is the account
\* itself.
LEMMA InheritKeeps ==
  ASSUME NEW w \in Worlds, NEW a \in Holders, NEW heir \in Holders
  PROVE  Inherit(w, a, heir) \in Worlds /\ Worth(Inherit(w, a, heir)) = Worth(w)
<1>. DEFINE x == w.balance[a]
            u == [w EXCEPT !.balance[heir] = @ + x]
            t == Inherit(w, a, heir)
            r == IF a \in w.dead THEN w.refund ELSE w.refund + RefundGas
            f == IF heir = a THEN w.burnt + x ELSE w.burnt
<1>1. w.balance \in [Holders -> Nat] /\ x \in Nat /\ w.balance[heir] \in Nat /\ w.burnt \in Nat
  BY DEF Worlds
<1>2. u \in Worlds /\ u.burnt = w.burnt /\ u.balance = [w.balance EXCEPT ![heir] = @ + x]
  BY <1>1 DEF Worlds
<1>3. u.balance[heir] = w.balance[heir] + x /\ \A y \in Holders : y # heir => u.balance[y] = w.balance[y]
  BY <1>1, <1>2
<1>4. r \in Nat /\ f \in Nat
  BY <1>1, ExecutionAssumption DEF Worlds
<1>5. t = [u EXCEPT !.balance[a] = 0, !.dead = @ \union {a}, !.burnt = f, !.refund = r]
  BY DEF Inherit, Worlds
<1>. HIDE DEF u, t, r
<1>6. /\ t \in Worlds /\ t.burnt = f
      /\ t.balance = [u.balance EXCEPT ![a] = 0]
  BY <1>2, <1>4, <1>5, Zenon DEF Worlds
<1>7. u.balance \in [Holders -> Nat] /\ t.balance \in [Holders -> Nat]
  BY <1>2, <1>6 DEF Worlds
<1>8. t.balance[a] = 0 /\ \A y \in Holders : y # a => t.balance[y] = u.balance[y]
  BY <1>6, <1>7
<1>9. Total(t) = Total(u) + (t.balance[a] - u.balance[a]) /\ Total(u) \in Nat
  BY <1>7, <1>8, BalanceChange DEF Total
<1>10. Total(u) = Total(w) + (u.balance[heir] - w.balance[heir]) /\ Total(w) \in Nat
  BY <1>1, <1>3, <1>7, BalanceChange, Zenon DEF Total
<1>. HIDE DEF x
<1>11. CASE heir = a
  <2>1. t.burnt = w.burnt + x /\ u.balance[a] = x + x /\ w.balance[heir] = x
    BY <1>3, <1>6, <1>11 DEF x
  <2>2. Worth(t) = Worth(w)
    BY <1>1, <1>8, <1>9, <1>10, <1>11, <2>1 DEF Worth
  <2>. QED
    BY <1>6, <2>2 DEF t
<1>12. CASE heir # a
  <2>1. t.burnt = w.burnt /\ u.balance[a] = x
    BY <1>3, <1>6, <1>12 DEF x
  <2>2. Worth(t) = Worth(w)
    BY <1>1, <1>3, <1>8, <1>9, <1>10, <2>1 DEF Worth
  <2>. QED
    BY <1>6, <2>2 DEF t
<1>. QED
  BY <1>11, <1>12

\* Finalise deletes suicided accounts with what they hold: that is burnt.
LEMMA FinaliseKeeps ==
  ASSUME NEW w \in Worlds
  PROVE  /\ FinaliseWorld(w) \in Worlds /\ Clean(FinaliseWorld(w))
         /\ Worth(FinaliseWorld(w)) = Worth(w)
<1>. DEFINE f == w.balance
            g == [a \in Holders |-> IF a \in w.dead THEN 0 ELSE w.balance[a]]
            t == FinaliseWorld(w)
            D == w.dead
            L == Holders \ D
<1>1. /\ f \in [Holders -> Nat] /\ w.nonce \in [Holders -> Nat] /\ D \in SUBSET Holders
      /\ w.code \in SUBSET Holders /\ w.burnt \in Nat
  BY DEF Worlds
<1>2. IsFiniteSet(Holders) /\ IsFiniteSet(D) /\ IsFiniteSet(L)
  BY <1>1, ExecutionAssumption, FS_Subset
<1>3. g \in [Holders -> Nat] /\ (\A a \in D : g[a] = 0) /\ (\A a \in L : g[a] = f[a])
  BY <1>1
<1>4. t.balance = g /\ t.burnt = w.burnt + SumFunctionOnSet(f, D) /\ Clean(t)
  BY DEF FinaliseWorld, Clean
<1>5. /\ \A a \in Holders : f[a] \in Int /\ g[a] \in Int
      /\ \A a \in D : f[a] \in Nat
      /\ \A a \in L : f[a] \in Nat
  BY <1>1, <1>3
<1>6. SumFunctionOnSet(f, D) \in Nat /\ SumFunctionOnSet(f, L) \in Nat
  BY <1>2, <1>5, SumNat
<1>7. t \in Worlds
  <2>1. [a \in Holders |-> IF a \in w.dead THEN 0 ELSE w.nonce[a]] \in [Holders -> Nat]
    BY <1>1
  <2>2. w.burnt + SumFunctionOnSet(w.balance, w.dead) \in Nat
    BY <1>1, <1>6
  <2>. QED
    BY <1>1, <1>3, <2>1, <2>2 DEF FinaliseWorld, Worlds
<1>. HIDE DEF f, g, t, L
<1>8. SumFunctionOnSet(f, Holders) = SumFunctionOnSet(f, D) + SumFunctionOnSet(f, Holders \ D)
  BY <1>1, <1>2, <1>5, SumSplit
<1>9. SumFunctionOnSet(g, Holders) = SumFunctionOnSet(g, D) + SumFunctionOnSet(g, Holders \ D)
  BY <1>1, <1>2, <1>5, SumSplit
<1>10. SumFunctionOnSet(g, D) = 0
  BY <1>2, <1>3, SumZero
<1>11. SumFunctionOnSet(g, L) = SumFunctionOnSet(f, L)
  BY <1>2, <1>3, SumSame
<1>12. Total(t) = SumFunctionOnSet(g, Holders) /\ Total(w) = SumFunctionOnSet(f, Holders)
  BY <1>4 DEF Total, f
<1>13. Worth(t) = Worth(w)
  <2>1. SumFunctionOnSet(f, Holders) = SumFunctionOnSet(f, D) + SumFunctionOnSet(f, L)
    BY <1>8 DEF L
  <2>2. SumFunctionOnSet(g, Holders) = SumFunctionOnSet(g, D) + SumFunctionOnSet(g, L)
    BY <1>9 DEF L
  <2>. QED
    BY <1>1, <1>4, <1>6, <1>10, <1>11, <1>12, <2>1, <2>2 DEF Worth
<1>. QED
  BY <1>4, <1>7, <1>13 DEF t

\* evm.Create raises the creator's nonce, and moves the value after the snapshot.
LEMMA NewContractKeeps ==
  ASSUME AddressesKnown, NEW w \in Worlds, NEW creator \in Holders, NEW v \in Nat,
         CanTransfer(w, creator, v)
  PROVE  LET made == NewContract(w, creator, v)
         IN /\ made.address \in Holders
            /\ made.snap = IncNonce(w, creator)
            /\ made.world \in Worlds /\ Worth(made.world) = Worth(w)
<1>. DEFINE a == CreateAddress(creator, w.nonce[creator])
            u == [w EXCEPT !.nonce[creator] = @ + 1, !.nonce[a] = 1]
            made == NewContract(w, creator, v)
<1>1. w.nonce \in [Holders -> Nat] /\ w.nonce[creator] \in Nat
  BY DEF Worlds
<1>2. a \in Holders
  BY <1>1 DEF AddressesKnown
<1>3. made.address = a /\ made.snap = IncNonce(w, creator) /\ made.world = Transfer(u, creator, a, v)
  BY DEF NewContract
<1>. HIDE DEF made, a
<1>4. u \in Worlds /\ u.balance = w.balance /\ u.burnt = w.burnt
  <2>. DEFINE n == [w.nonce EXCEPT ![creator] = @ + 1, ![a] = 1]
  <2>1. n \in [Holders -> Nat]
    BY <1>1, <1>2
  <2>2. u = [w EXCEPT !.nonce = n]
    BY <1>1, <1>2, Zenon DEF Worlds
  <2>. HIDE DEF n
  <2>. QED
    BY <2>1, <2>2 DEF Worlds
<1>. HIDE DEF u
<1>5. CanTransfer(u, creator, v)
  BY <1>4 DEF CanTransfer
<1>6. Transfer(u, creator, a, v) \in Worlds /\ Worth(Transfer(u, creator, a, v)) = Worth(u)
  BY <1>2, <1>4, <1>5, TransferKeeps
<1>7. Worth(u) = Worth(w)
  BY <1>4, SameBalances
<1>8. /\ made.address \in Holders
      /\ made.snap = IncNonce(w, creator)
      /\ made.world \in Worlds /\ Worth(made.world) = Worth(w)
  BY <1>2, <1>3, <1>6, <1>7
<1>. QED
  BY <1>8 DEF made
-----------------------------------------------------------------------------
\* The gas of each call, and where the calls are.
GasOf(calls) == [i \in 1..Len(calls) |-> calls[i].gas]

\* The gas of the calls is a sum over their positions.
LEMMA HeldSum ==
  ASSUME NEW calls \in Seq(Calls)
  PROVE  /\ HeldBy(calls) = SumFunctionOnSet(GasOf(calls), 1..Len(calls))
         /\ IsFiniteSet(1..Len(calls)) /\ Len(calls) \in Nat
         /\ \A i \in 1..Len(calls) : GasOf(calls)[i] = calls[i].gas /\ calls[i].gas \in Nat
         /\ HeldBy(calls) \in Nat
         /\ \A i \in 1..Len(calls) : calls[i].gas <= HeldBy(calls)
<1>1. DOMAIN calls = 1..Len(calls) /\ Len(calls) \in Nat
  OBVIOUS
<1>2. \A i \in 1..Len(calls) : GasOf(calls)[i] = calls[i].gas /\ calls[i].gas \in Nat
  <2>1. \A i \in 1..Len(calls) : calls[i] \in Calls
    OBVIOUS
  <2>2. \A c \in Calls : c.gas \in Nat
    BY DEF Calls
  <2>. QED
    BY <2>1, <2>2 DEF GasOf
<1>3. IsFiniteSet(1..Len(calls))
  BY <1>1, FS_Interval
<1>4. HeldBy(calls) = SumFunctionOnSet(GasOf(calls), 1..Len(calls))
  <2>1. DOMAIN GasOf(calls) = 1..Len(calls)
    BY DEF GasOf
  <2>2. HeldBy(calls) = SumFunction(GasOf(calls))
    BY <1>1 DEF HeldBy, GasOf
  <2>. QED
    BY <2>1, <2>2 DEF SumFunction
<1>5. SumFunctionOnSet(GasOf(calls), 1..Len(calls)) \in Nat
  BY <1>2, <1>3, SumNat
<1>6. \A i \in 1..Len(calls) : GasOf(calls)[i] <= SumFunctionOnSet(GasOf(calls), 1..Len(calls))
  BY <1>2, <1>3, SumNat
<1>. QED
  BY <1>1, <1>2, <1>3, <1>4, <1>5, <1>6

\* No call holds no gas.
LEMMA HeldNone == HeldBy(<<>>) = 0
<1>1. <<>> \in Seq(Calls) /\ 1..Len(<<>>) = {}
  OBVIOUS
<1>. QED
  BY <1>1, HeldSum, SumEmpty, Zenon

\* The gas of one call is set anew.
LEMMA HeldSet ==
  ASSUME NEW calls \in Seq(Calls), NEW i \in 1..Len(calls), NEW gas \in Nat
  PROVE  LET set == [calls EXCEPT ![i].gas = gas]
         IN /\ set \in Seq(Calls) /\ Len(set) = Len(calls)
            /\ \A j \in 1..Len(calls) : set[j].snap = calls[j].snap
            /\ HeldBy(set) = HeldBy(calls) + (gas - calls[i].gas)
<1>. DEFINE set == [calls EXCEPT ![i].gas = gas]
            c == [calls[i] EXCEPT !.gas = gas]
<1>0. calls[i] \in Calls
  OBVIOUS
<1>1. c \in Calls /\ c.gas = gas /\ c.snap = calls[i].snap
  BY <1>0 DEF Calls
<1>2. set = [calls EXCEPT ![i] = c]
  OBVIOUS
<1>. HIDE DEF set, c
<1>3. set \in Seq(Calls) /\ Len(set) = Len(calls) /\ set[i] = c /\ \A j \in 1..Len(calls) : j # i => set[j] = calls[j]
  BY <1>1, <1>2
<1>4. \A j \in 1..Len(calls) : set[j].snap = calls[j].snap
  BY <1>1, <1>3
<1>. DEFINE f == GasOf(calls)
            g == GasOf(set)
            n == Len(calls)
<1>5. (\A j \in 1..n : f[j] \in Int) /\ f[i] = calls[i].gas /\ IsFiniteSet(1..n) /\ i \in 1..n /\ n \in Nat
  BY HeldSum
<1>6. g[i] = gas /\ g[i] \in Int /\ \A j \in 1..n : j # i => g[j] = f[j]
  BY <1>1, <1>3 DEF GasOf
<1>7. HeldBy(calls) = SumFunctionOnSet(f, 1..n) /\ HeldBy(set) = SumFunctionOnSet(g, 1..n)
  BY <1>3, HeldSum
<1>. HIDE DEF f, g, n
<1>8. SumFunctionOnSet(g, 1..n) = SumFunctionOnSet(f, 1..n) + (g[i] - f[i])
  <2>. DEFINE S == 1..n
  <2>1. IsFiniteSet(S) /\ (\A x \in S : f[x] \in Int)
    BY <1>5
  <2>2. i \in S /\ g[i] \in Int /\ (\A x \in S : x # i => g[x] = f[x])
    BY <1>5, <1>6
  <2>. HIDE DEF S
  <2>3. \A a \in S : g[a] \in Int /\ (\A x \in S : x # a => g[x] = f[x])
           => SumFunctionOnSet(g, S) = SumFunctionOnSet(f, S) + (g[a] - f[a])
    BY <2>1, SumUpdateAny, SMT
  <2>4. SumFunctionOnSet(g, S) = SumFunctionOnSet(f, S) + (g[i] - f[i])
    BY <2>2, <2>3
  <2>. QED
    BY <2>4 DEF S
<1>9. HeldBy(set) = HeldBy(calls) + (gas - calls[i].gas)
  BY <1>5, <1>6, <1>7, <1>8
<1>. QED
  BY <1>3, <1>4, <1>9 DEF set

\* The calls with one more.
LEMMA Pushed ==
  ASSUME NEW calls \in Seq(Calls), NEW c \in Calls
  PROVE  /\ Append(calls, c) \in Seq(Calls) /\ Len(Append(calls, c)) = Len(calls) + 1
         /\ Append(calls, c)[Len(calls) + 1] = c
         /\ \A i \in 1..Len(calls) : Append(calls, c)[i] = calls[i]
OBVIOUS

\* A call more holds so much more gas.
LEMMA HeldPush ==
  ASSUME NEW calls \in Seq(Calls), NEW c \in Calls
  PROVE  HeldBy(Append(calls, c)) = HeldBy(calls) + c.gas
<1>. DEFINE more == Append(calls, c)
            n == Len(calls)
            f == GasOf(calls)
            g == GasOf(more)
<1>1. more \in Seq(Calls) /\ Len(more) = n + 1 /\ n \in Nat /\ more[n + 1] = c /\ \A i \in 1..n : more[i] = calls[i]
  OBVIOUS
<1>. HIDE DEF more
<1>2. HeldBy(more) = SumFunctionOnSet(g, 1..(n + 1)) /\ IsFiniteSet(1..(n + 1))
  BY <1>1, HeldSum
<1>3. HeldBy(calls) = SumFunctionOnSet(f, 1..n) /\ IsFiniteSet(1..n) /\ HeldBy(calls) \in Nat
  BY HeldSum
<1>4. \A i \in 1..(n + 1) : g[i] \in Int
  BY <1>1, HeldSum
<1>5. g[n + 1] = c.gas /\ n + 1 \in 1..(n + 1) /\ \A i \in 1..n : g[i] = f[i]
  BY <1>1 DEF GasOf
<1>6. 1..n = (1..(n + 1)) \ {n + 1}
  BY <1>1
<1>. HIDE DEF n, f, g
<1>7. SumFunctionOnSet(g, 1..(n + 1)) = g[n + 1] + SumFunctionOnSet(g, (1..(n + 1)) \ {n + 1})
  BY <1>2, <1>4, <1>5, SumTakeOut, Zenon
<1>8. SumFunctionOnSet(g, 1..n) = SumFunctionOnSet(f, 1..n)
  BY <1>3, <1>5, SumSame, Zenon
<1>9. HeldBy(more) = c.gas + HeldBy(calls)
  BY <1>2, <1>3, <1>5, <1>6, <1>7, <1>8, Zenon
<1>10. c.gas \in Nat
  BY DEF Calls
<1>. QED
  BY <1>3, <1>9, <1>10 DEF more

\* The first n members of a sequence.
LEMMA Shortened ==
  ASSUME NEW S, NEW s, NEW n \in Nat, \A i \in 1..n : s[i] \in S
  PROVE  /\ SubSeq(s, 1, n) \in Seq(S) /\ Len(SubSeq(s, 1, n)) = n
         /\ \A i \in 1..n : SubSeq(s, 1, n)[i] = s[i]
<1>1. ASSUME NEW m \in Int, NEW k \in Int, \A i \in m..k : s[i] \in S
      PROVE  /\ SubSeq(s, m, k) \in Seq(S)
             /\ Len(SubSeq(s, m, k)) = IF m <= k THEN k - m + 1 ELSE 0
             /\ \A i \in 1..(k - m + 1) : SubSeq(s, m, k)[i] = s[m + i - 1]
  BY <1>1
<1>2. 1 \in Int /\ n \in Int /\ n - 1 + 1 = n /\ (IF 1 <= n THEN n - 1 + 1 ELSE 0) = n
  OBVIOUS
<1>3. \A i \in 1..n : 1 + i - 1 = i
  OBVIOUS
<1>4. /\ SubSeq(s, 1, n) \in Seq(S)
      /\ Len(SubSeq(s, 1, n)) = IF 1 <= n THEN n - 1 + 1 ELSE 0
      /\ \A i \in 1..(n - 1 + 1) : SubSeq(s, 1, n)[i] = s[1 + i - 1]
  BY <1>1
<1>. QED
  BY <1>2, <1>3, <1>4

\* The innermost call is gone.
LEMMA HeldPop ==
  ASSUME NEW calls \in Seq(Calls), calls # <<>>
  PROVE  LET rest == SubSeq(calls, 1, Len(calls) - 1)
         IN /\ rest \in Seq(Calls) /\ Len(rest) = Len(calls) - 1
            /\ \A i \in 1..(Len(calls) - 1) : rest[i] = calls[i]
            /\ HeldBy(rest) = HeldBy(calls) - calls[Len(calls)].gas
<1>. DEFINE rest == SubSeq(calls, 1, Len(calls) - 1)
            c == calls[Len(calls)]
<1>1. Len(calls) \in Nat \ {0} /\ c \in Calls /\ Len(calls) - 1 \in Nat
  OBVIOUS
<1>2. rest \in Seq(Calls) /\ Len(rest) = Len(calls) - 1 /\ \A i \in 1..(Len(calls) - 1) : rest[i] = calls[i]
  <2>. DEFINE n == Len(calls) - 1
  <2>1. n \in Nat /\ \A i \in 1..n : calls[i] \in Calls
    BY <1>1
  <2>. HIDE DEF n
  <2>2. /\ SubSeq(calls, 1, n) \in Seq(Calls) /\ Len(SubSeq(calls, 1, n)) = n
        /\ \A i \in 1..n : SubSeq(calls, 1, n)[i] = calls[i]
    BY <2>1, Shortened
  <2>. QED
    BY <2>2 DEF n
<1>3. calls = Append(rest, c)
  BY <1>1, <1>2
<1>. HIDE DEF rest
<1>4. HeldBy(calls) = HeldBy(rest) + c.gas
  BY <1>1, <1>2, <1>3, HeldPush, Zenon
<1>5. c.gas \in Nat /\ HeldBy(rest) \in Nat
  BY <1>1, <1>2, HeldSum, Zenon DEF Calls
<1>6. HeldBy(rest) = HeldBy(calls) - c.gas
  BY <1>4, <1>5
<1>. QED
  BY <1>2, <1>6 DEF rest

-----------------------------------------------------------------------------
\* What the sender of the running message paid for its gas.
Price == message.gas * message.price

\* While a message runs: the coins are in the accounts, burnt or paid for gas,
\* in the world and in every snapshot a call may go back to; the outermost
\* snapshot is the state before the message but for the gas and the nonce; and
\* the calls share the gas the message bought.
Running ==
  /\ message \in Messages /\ outcome = "running"
  /\ Worth(world) + Price = Supply
  /\ \A i \in 1..Len(frames) : Worth(frames[i].snap) + Price = Supply
  /\ frames[1].snap = IncNonce(BuyGas(before, message), message.from)
  /\ HeldGas + TxGas <= message.gas
  /\ gasPool + gasUsed + message.gas <= GasLimit

\* Between messages the coins are in the accounts or burnt.
Settled == Worth(world) = Supply /\ Clean(world) /\ gasPool + gasUsed <= GasLimit

\* What the last message left behind.
Outcome ==
  /\ outcome = "refused" => world = before
  /\ outcome = "failed" =>
        world = [BuyGas(before, message)
                    EXCEPT !.nonce[message.from] = @ + 1,
                           !.balance[Coinbase] = @ + message.gas * message.price]

\* The inductive invariant.
ExecInv ==
  /\ world \in Worlds /\ before \in Worlds /\ Clean(before)
  /\ gasPool \in Nat /\ gasUsed \in Nat /\ frames \in Seq(Calls)
  /\ frames # <<>> => Running
  /\ frames = <<>> => Settled
  /\ Outcome

\* A step of the interpreter takes gas from the message, or ends a call.
Shrinks == 2 * HeldGas' + Len(frames') < 2 * HeldGas + Len(frames)

\* The state before any message.
LEMMA ExecInvInit == ExecInit => ExecInv
<1>. SUFFICES ASSUME ExecInit PROVE ExecInv
  OBVIOUS
<1>1. /\ Funds \in [Holders -> Nat] /\ Contracts \subseteq Holders
      /\ GasLimit \in Nat
  BY ExecutionAssumption, Zenon
<1>2. world \in Worlds /\ Clean(world) /\ world.balance = Funds /\ world.burnt = 0 /\ before = world
  BY <1>1 DEF ExecInit, Worlds, Clean
<1>3. Worth(world) = Supply
  <2>1. Total(world) = Supply
    BY <1>2 DEF Total, Supply
  <2>. QED
    BY <1>2, <2>1, WorthType DEF Worth
<1>4. gasPool = GasLimit /\ gasUsed = 0 /\ frames = <<>> /\ outcome = "none"
  BY DEF ExecInit
<1>5. Settled
  BY <1>1, <1>2, <1>3, <1>4 DEF Settled
<1>. QED
  BY <1>1, <1>2, <1>4, <1>5 DEF ExecInv, Outcome

\* refundGas gives back no more than the message bought.
LEMMA RefundBound ==
  ASSUME NEW w \in Worlds, NEW left \in Nat, message'.gas \in Nat, left <= message'.gas
  PROVE  refundGas(w, left) \in Nat /\ refundGas(w, left) <= message'.gas
<1>. DEFINE r == w.refund
            h == (message'.gas - left) \div 2
<1>1. r \in Nat /\ h \in Nat /\ left + h <= message'.gas
  BY DEF Worlds
<1>2. refundGas(w, left) = left + Min({r, h})
  BY DEF refundGas
<1>. HIDE DEF r, h
<1>3. Min({r, h}) = IF r <= h THEN r ELSE h
  BY <1>1 DEF Min
<1>. QED
  BY <1>1, <1>2, <1>3

\* TransitionDb and Finalise settle the accounts at the end of a message.
LEMMA ConcludeSettles ==
  ASSUME NEW w \in Worlds, NEW left \in Nat, NEW bought \in Nat, NEW result,
         Conclude(w, left, bought, result), message' \in Messages, gasUsed \in Nat,
         Worth(w) + message'.gas * message'.price = Supply,
         left <= message'.gas, bought + gasUsed + message'.gas <= GasLimit
  PROVE  /\ world' \in Worlds /\ gasPool' \in Nat /\ gasUsed' \in Nat
         /\ frames' = <<>> /\ outcome' = result /\ Settled'
<1>. DEFINE p == message'.gas * message'.price
            c == [w EXCEPT !.balance[Coinbase] = @ + p]
            rest == refundGas(w, left)
<1>1. p \in Nat /\ message'.gas \in Nat
  BY MessageType
<1>2. rest \in Nat /\ rest <= message'.gas
  BY <1>1, RefundBound
<1>3. /\ world' = FinaliseWorld(c) /\ gasPool' = bought + rest
      /\ gasUsed' = gasUsed + message'.gas - rest
      /\ outcome' = result /\ frames' = <<>>
  BY DEF Conclude
<1>. HIDE DEF p, rest
<1>4. c \in Worlds /\ Worth(c) = Worth(w) + p
  BY <1>1, PayKeeps
<1>. HIDE DEF c
<1>5. world' \in Worlds /\ Clean(world') /\ Worth(world') = Worth(c)
  BY <1>3, <1>4, FinaliseKeeps
<1>6. Worth(world') = Supply
  BY <1>4, <1>5 DEF p
<1>7. gasPool' \in Nat /\ gasUsed' \in Nat /\ gasPool' + gasUsed' <= GasLimit
  <2>1. GasLimit \in Nat
    BY ExecutionAssumption
  <2>. QED
    BY <1>1, <1>2, <1>3, <2>1
<1>8. Settled'
  <2>1. Worth(world)' = Worth(world') /\ Clean(world)' = Clean(world')
    BY DEF Worth, Clean, Total
  <2>. QED
    BY <1>5, <1>6, <1>7, <2>1 DEF Settled, Supply
<1>. QED
  BY <1>3, <1>5, <1>7, <1>8

\* A message that failed costs the gas and the nonce, and nothing else: the
\* world it ends with is the outermost snapshot.
LEMMA ConcludeFailed ==
  ASSUME NEW left \in Nat, NEW bought \in Nat, message' \in Messages,
         before' \in Worlds, Clean(before'),
         BuyGas(before', message') \in Worlds,
         Conclude(IncNonce(BuyGas(before', message'), message'.from), left, bought, "failed")
  PROVE  Outcome'
<1>. DEFINE p == message'.gas * message'.price
            b == BuyGas(before', message')
            n == IncNonce(b, message'.from)
            c == [n EXCEPT !.balance[Coinbase] = @ + p]
            t == [b EXCEPT !.nonce[message'.from] = @ + 1, !.balance[Coinbase] = @ + p]
<1>1. message'.from \in Holders /\ p \in Nat /\ Coinbase \in Holders
  BY MessageType, ExecutionAssumption
<1>2. world' = FinaliseWorld(c) /\ outcome' = "failed"
  BY DEF Conclude
<1>3. b.dead = {} /\ b.refund = 0
  BY Zenon DEF Clean, BuyGas, Worlds
<1>. HIDE DEF p, b
<1>4. n \in Worlds /\ n.dead = {} /\ n.refund = 0
  <2>1. n.dead = b.dead /\ n.refund = b.refund
    BY DEF IncNonce, Worlds, b
  <2>. QED
    BY <1>1, <1>3, <2>1, NonceKeeps DEF b
<1>5. n = [b EXCEPT !.nonce[message'.from] = @ + 1]
  BY DEF IncNonce
<1>. HIDE DEF n
<1>6. c = t
  BY <1>5, <1>1 DEF Worlds, b
<1>7. c \in Worlds /\ c.dead = {} /\ c.refund = 0
  <2>1. c.dead = n.dead /\ c.refund = n.refund
    BY <1>4, Zenon DEF Worlds
  <2>. QED
    BY <1>1, <1>4, <2>1, PayKeeps
<1>. HIDE DEF c, t
<1>8. FinaliseWorld(c) = c
  <2>1. SumFunctionOnSet(c.balance, c.dead) = 0
    BY <1>7, SumEmpty
  <2>2. /\ c.balance \in [Holders -> Nat] /\ c.nonce \in [Holders -> Nat] /\ c.burnt \in Nat
    BY <1>7, Zenon DEF Worlds
  <2>3. /\ [a \in Holders |-> IF a \in c.dead THEN 0 ELSE c.balance[a]] = c.balance
        /\ [a \in Holders |-> IF a \in c.dead THEN 0 ELSE c.nonce[a]] = c.nonce
        /\ c.code \ c.dead = c.code
        /\ c.burnt + SumFunctionOnSet(c.balance, c.dead) = c.burnt
    BY <1>7, <2>1, <2>2
  <2>4. c = [balance |-> c.balance, nonce |-> c.nonce, code |-> c.code, dead |-> c.dead,
             refund |-> c.refund, burnt |-> c.burnt]
    BY <1>7 DEF Worlds
  <2>. QED
    BY <1>7, <2>3, <2>4 DEF FinaliseWorld
<1>9. world' = t
  BY <1>2, <1>6, <1>8
<1>. QED
  BY <1>2, <1>9, Zenon DEF Outcome, t, b, p, BuyGas

\* The innermost call, and the worth of what it may return or fall back to.
LEMMA TopType ==
  ASSUME ExecInv, frames # <<>>
  PROVE  /\ Len(frames) \in Nat \ {0} /\ Len(frames) \in 1..Len(frames) /\ 1 \in 1..Len(frames)
         /\ top \in Calls /\ top.gas \in Nat /\ top.self \in Holders /\ top.snap \in Worlds
         /\ Running /\ Worth(top.snap) + Price = Supply
         /\ top.gas <= HeldGas /\ HeldGas \in Nat
         /\ message.gas \in Nat /\ Price \in Nat /\ TxGas \in Nat
<1>1. frames \in Seq(Calls) /\ Running
  BY DEF ExecInv
<1>2. Len(frames) \in Nat \ {0} /\ Len(frames) \in 1..Len(frames) /\ 1 \in 1..Len(frames)
  BY <1>1
<1>3. top \in Calls
  BY <1>1, <1>2 DEF top
<1>4. top.gas \in Nat /\ top.self \in Holders /\ top.snap \in Worlds
  BY <1>3 DEF Calls
<1>5. Worth(top.snap) + Price = Supply
  BY <1>1, <1>2 DEF Running, top
<1>6. top.gas <= HeldGas /\ HeldGas \in Nat
  BY <1>1, <1>2, HeldSum DEF HeldGas, top
<1>7. message.gas \in Nat /\ Price \in Nat
  BY <1>1, MessageType DEF Running, Price
<1>8. TxGas \in Nat
  BY ExecutionAssumption
<1>. QED
  BY <1>1, <1>2, <1>3, <1>4, <1>5, <1>6, <1>7, <1>8

\* A step inside the message: the calls changed, the coins did not.
LEMMA StillRunning ==
  ASSUME ExecInv, frames # <<>>, frames' # <<>>,
         world' \in Worlds, Worth(world') = Worth(world),
         frames' \in Seq(Calls), frames'[1].snap = frames[1].snap,
         \A i \in 1..Len(frames') : Worth(frames'[i].snap) + Price = Supply,
         HeldBy(frames') <= HeldGas, HeldBy(frames') \in Nat,
         UNCHANGED <<message, before, gasPool, gasUsed, outcome>>
  PROVE  ExecInv'
<1>1. Running /\ HeldGas \in Nat /\ message.gas \in Nat /\ TxGas \in Nat
  BY TopType, Zenon
<1>2. Price' = Price /\ HeldGas' = HeldBy(frames') /\ Supply' = Supply
  BY DEF Price, HeldGas, HeldBy, SumFunction, Supply
<1>3. Worth(world)' = Worth(world')
  BY DEF Worth, Total
<1>4. \A i \in 1..Len(frames') : Worth(frames[i].snap)' = Worth(frames'[i].snap)
  BY Zenon DEF Worth, Total
<1>5. outcome' = "running" /\ Clean(before)' /\ before' \in Worlds
  BY <1>1 DEF Running, ExecInv, Clean
<1>6. Running'
  <2>1. message' \in Messages
    BY <1>1 DEF Running
  <2>2. (Worth(world) + Price = Supply)'
    BY <1>1, <1>2, <1>3 DEF Running
  <2>3. (\A i \in 1..Len(frames) : Worth(frames[i].snap) + Price = Supply)'
    BY <1>2, <1>4
  <2>4. (frames[1].snap = IncNonce(BuyGas(before, message), message.from))'
    BY <1>1, Zenon DEF Running, IncNonce, BuyGas
  <2>5. (HeldGas + TxGas <= message.gas)'
    BY <1>1, <1>2 DEF Running
  <2>6. (gasPool + gasUsed + message.gas <= GasLimit)'
    BY <1>1 DEF Running
  <2>. QED
    BY <1>5, <2>1, <2>2, <2>3, <2>4, <2>5, <2>6 DEF Running
<1>. QED
  BY <1>5, <1>6 DEF ExecInv, Outcome

\* An instruction that goes on in the same call, with less gas.
LEMMA ContinueStep ==
  ASSUME ExecInv, frames # <<>>, NEW w \in Worlds, NEW gas \in Nat, Continue(w, gas),
         Worth(w) = Worth(world), gas < top.gas
  PROVE  ExecInv' /\ Shrinks
<1>. DEFINE n == Len(frames)
            set == [frames EXCEPT ![n].gas = gas]
<1>1. /\ frames \in Seq(Calls) /\ n \in Nat \ {0} /\ n \in 1..n /\ 1 \in 1..n
      /\ top.gas \in Nat /\ Running /\ HeldGas \in Nat
  BY TopType DEF ExecInv
<1>2. /\ set \in Seq(Calls) /\ Len(set) = n
      /\ \A j \in 1..n : set[j].snap = frames[j].snap
      /\ HeldBy(set) = HeldGas + (gas - top.gas)
  BY <1>1, HeldSet, Zenon DEF HeldGas, top
<1>3. frames' = set /\ world' = w /\ UNCHANGED <<message, before, gasPool, gasUsed, outcome>>
  BY Zenon DEF Continue
<1>. HIDE DEF set, n
<1>4. HeldBy(frames') \in Nat /\ HeldBy(frames') < HeldGas
  BY <1>1, <1>2, <1>3, HeldSum
<1>5. \A i \in 1..Len(frames') : Worth(frames'[i].snap) + Price = Supply
  <2>1. \A i \in 1..n : Worth(frames[i].snap) + Price = Supply
    BY <1>1 DEF Running, n
  <2>. QED
    BY <1>2, <1>3, <2>1
<1>6. frames' # <<>> /\ frames'[1].snap = frames[1].snap
  BY <1>1, <1>2, <1>3, Zenon
<1>7. ExecInv'
  <2>1. HeldBy(frames') <= HeldGas /\ frames' \in Seq(Calls) /\ world' \in Worlds
    BY <1>1, <1>2, <1>3, <1>4
  <2>2. Worth(world') = Worth(world)
    BY <1>3
  <2>. QED
    BY <1>3, <1>4, <1>5, <1>6, <2>1, <2>2, StillRunning
<1>8. HeldGas' = HeldBy(frames') /\ Len(frames') = Len(frames)
  BY <1>2, <1>3 DEF HeldGas, HeldBy, SumFunction, n
<1>9. Shrinks
  BY <1>1, <1>4, <1>8 DEF Shrinks, n
<1>. QED
  BY <1>7, <1>9

\* A call or a creation that enters code: its gas comes out of the caller's.
LEMMA EnterStep ==
  ASSUME ExecInv, frames # <<>>, NEW left \in Nat, NEW c \in Calls, world' \in Worlds,
         frames' = Append([frames EXCEPT ![Len(frames)].gas = left], c),
         UNCHANGED <<message, before, gasPool, gasUsed, outcome>>,
         Worth(world') = Worth(world), Worth(c.snap) = Worth(world), left + c.gas < top.gas
  PROVE  ExecInv' /\ Shrinks
<1>. DEFINE n == Len(frames)
            set == [frames EXCEPT ![n].gas = left]
<1>1. /\ frames \in Seq(Calls) /\ n \in Nat \ {0} /\ n \in 1..n /\ 1 \in 1..n
      /\ top.gas \in Nat /\ Running /\ HeldGas \in Nat
  BY TopType DEF ExecInv
<1>2. /\ set \in Seq(Calls) /\ Len(set) = n
      /\ \A j \in 1..n : set[j].snap = frames[j].snap
      /\ HeldBy(set) = HeldGas + (left - top.gas)
  BY <1>1, HeldSet, Zenon DEF HeldGas, top
<1>3. frames' = Append(set, c)
  OBVIOUS
<1>. HIDE DEF set, n
<1>4. /\ frames' \in Seq(Calls) /\ Len(frames') = n + 1
      /\ frames'[n + 1] = c /\ \A i \in 1..n : frames'[i] = set[i]
  <2>1. /\ Append(set, c) \in Seq(Calls) /\ Len(Append(set, c)) = Len(set) + 1
        /\ Append(set, c)[Len(set) + 1] = c
        /\ \A i \in 1..Len(set) : Append(set, c)[i] = set[i]
    BY <1>2, Pushed, Zenon
  <2>. QED
    BY <1>2, <1>3, <2>1, Zenon
<1>5. HeldBy(frames') = HeldBy(set) + c.gas
  BY <1>2, <1>3, HeldPush, Zenon
<1>6. c.gas \in Nat
  BY DEF Calls
<1>7. HeldBy(frames') \in Nat /\ HeldBy(frames') < HeldGas
  <2>1. HeldBy(frames') \in Nat
    BY <1>4, HeldSum, Zenon
  <2>. QED
    BY <1>1, <1>2, <1>5, <1>6, <2>1
<1>8. \A i \in 1..Len(frames') : Worth(frames'[i].snap) + Price = Supply
  <2>. SUFFICES ASSUME NEW i \in 1..(n + 1) PROVE Worth(frames'[i].snap) + Price = Supply
    BY <1>4, Zenon
  <2>1. CASE i \in 1..n
    <3>1. frames'[i].snap = frames[i].snap
      BY <1>2, <1>4, <2>1, Zenon
    <3>. QED
      BY <1>1, <2>1, <3>1, Zenon DEF Running, n
  <2>2. CASE i = n + 1
    BY <1>1, <1>4, <2>2 DEF Running
  <2>3. i \in 1..n \/ i = n + 1
    BY <1>1
  <2>. QED
    BY <2>1, <2>2, <2>3, Zenon
<1>9. frames' # <<>> /\ frames'[1].snap = frames[1].snap
  BY <1>1, <1>2, <1>4
<1>10. ExecInv'
  <2>1. HeldBy(frames') <= HeldGas /\ frames' \in Seq(Calls)
    BY <1>1, <1>4, <1>7
  <2>. QED
    BY <1>7, <1>8, <1>9, <2>1, StillRunning, Zenon
<1>11. HeldGas' = HeldBy(frames')
  BY Zenon DEF HeldGas, HeldBy, SumFunction
<1>12. Shrinks
  BY <1>1, <1>4, <1>7, <1>11 DEF Shrinks, n
<1>. QED
  BY <1>10, <1>12

\* The end of a call: its caller gets the gas that is left, or the message ends.
LEMMA ReturnStep ==
  ASSUME ExecInv, NEW w \in Worlds, NEW left \in Nat, NEW result \in {"done", "failed"},
         Return(w, left, result), Worth(w) + Price = Supply, left <= top.gas,
         result = "failed" => w = top.snap
  PROVE  ExecInv' /\ Shrinks
<1>. DEFINE n == Len(frames)
<1>1. frames # <<>> /\ UNCHANGED <<message, before>>
  BY Zenon DEF Return
<1>2. /\ frames \in Seq(Calls) /\ n \in Nat \ {0} /\ n \in 1..n /\ 1 \in 1..n
      /\ top.gas \in Nat /\ Running /\ HeldGas \in Nat /\ top.gas <= HeldGas
      /\ message.gas \in Nat /\ TxGas \in Nat /\ top.snap \in Worlds
  BY <1>1, TopType DEF ExecInv
<1>3. CASE n = 1
  <2>1. Conclude(w, left, gasPool, result)
    BY <1>1, <1>3, Zenon DEF Return
  <2>2. /\ message' \in Messages /\ gasPool \in Nat /\ gasUsed \in Nat
        /\ Worth(w) + message'.gas * message'.price = Supply
        /\ left <= message'.gas /\ gasPool + gasUsed + message'.gas <= GasLimit
    BY <1>1, <1>2 DEF Running, Price, ExecInv
  <2>3. /\ world' \in Worlds /\ gasPool' \in Nat /\ gasUsed' \in Nat
        /\ frames' = <<>> /\ outcome' = result /\ Settled'
    BY <2>1, <2>2, ConcludeSettles, Zenon
  <2>4. before' \in Worlds /\ Clean(before') /\ Clean(before)'
    BY <1>1 DEF ExecInv, Clean
  <2>5. Outcome'
    <3>1. CASE result = "done"
      BY <2>3, <3>1 DEF Outcome
    <3>2. CASE result = "failed"
      <4>. DEFINE b == BuyGas(before', message')
      <4>1. w = IncNonce(b, message'.from)
        BY <1>1, <1>2, <1>3, <3>2 DEF Running, top
      <4>2. b \in Worlds
        <5>1. message.from \in Holders /\ before \in Worlds
          BY <1>2, MessageType DEF Running, ExecInv
        <5>2. w.balance = b.balance
          BY <4>1 DEF IncNonce, BuyGas
        <5>3. w.balance \in [Holders -> Nat]
          BY DEF Worlds
        <5>4. b.balance \in [Holders -> Nat]
          BY <5>2, <5>3
        <5>. QED
          BY <1>1, <5>1, <5>4, Zenon DEF BuyGas, Worlds
      <4>3. Conclude(IncNonce(b, message'.from), left, gasPool, "failed")
        BY <2>1, <3>2, <4>1
      <4>. QED
        BY <2>2, <2>4, <4>2, <4>3, ConcludeFailed
    <3>. QED
      BY <3>1, <3>2, Zenon
  <2>6. ExecInv'
    BY <2>3, <2>4, <2>5 DEF ExecInv
  <2>7. HeldGas' = 0 /\ Len(frames') = 0
    BY <2>3, HeldNone, Zenon DEF HeldGas, HeldBy, SumFunction
  <2>8. Shrinks
    BY <1>2, <2>7 DEF Shrinks
  <2>. QED
    BY <2>6, <2>8
<1>4. CASE n # 1
  <2>. DEFINE k == Len(frames) - 1
              rest == SubSeq(frames, 1, k)
              back == rest[k].gas + left
              set == [rest EXCEPT ![k].gas = back]
  <2>1. /\ rest \in Seq(Calls) /\ Len(rest) = k
        /\ \A i \in 1..k : rest[i] = frames[i]
        /\ HeldBy(rest) = HeldGas - top.gas
    BY <1>1, <1>2, HeldPop DEF HeldGas, top
  <2>2. world' = w /\ frames' = set /\ UNCHANGED <<gasPool, gasUsed, outcome>>
    BY <1>4 DEF Return
  <2>. HIDE DEF n
  <2>3. k = n - 1
    BY DEF n
  <2>. HIDE DEF k, rest
  <2>4. k \in 1..k /\ 1 \in 1..k /\ k \in Nat
    BY <1>2, <1>4, <2>3
  <2>5. rest[k].gas \in Nat /\ back \in Nat
    <3>1. rest[k].gas \in Nat
      BY <2>1, <2>4, HeldSum
    <3>. QED
      BY <3>1
  <2>. HIDE DEF back
  <2>6. /\ set \in Seq(Calls) /\ Len(set) = k
        /\ \A j \in 1..k : set[j].snap = rest[j].snap
        /\ HeldBy(set) = HeldBy(rest) + (back - rest[k].gas)
    <3>1. k \in 1..Len(rest)
      BY <2>1, <2>4
    <3>2. /\ set \in Seq(Calls) /\ Len(set) = Len(rest)
          /\ \A j \in 1..Len(rest) : set[j].snap = rest[j].snap
          /\ HeldBy(set) = HeldBy(rest) + (back - rest[k].gas)
      <4>. DEFINE P(i, g) ==
                  LET some == [rest EXCEPT ![i].gas = g]
                  IN /\ some \in Seq(Calls) /\ Len(some) = Len(rest)
                     /\ \A j \in 1..Len(rest) : some[j].snap = rest[j].snap
                     /\ HeldBy(some) = HeldBy(rest) + (g - rest[i].gas)
      <4>1. \A i \in 1..Len(rest), g \in Nat : P(i, g)
        <5>. SUFFICES ASSUME NEW i \in 1..Len(rest), NEW g \in Nat PROVE P(i, g)
          BY Zenon
        <5>. QED
          BY <2>1, HeldSet, Zenon
      <4>. HIDE DEF P
      <4>2. P(k, back)
        BY <2>5, <3>1, <4>1, Zenon
      <4>. QED
        BY <4>2 DEF P
    <3>. QED
      BY <2>1, <3>2, Zenon
  <2>. HIDE DEF set
  <2>a. HeldBy(set) = HeldGas + (left - top.gas)
    <3>1. HeldBy(set) = (HeldGas - top.gas) + (back - rest[k].gas)
      BY <2>1, <2>6
    <3>2. back = rest[k].gas + left
      BY DEF back
    <3>3. HeldGas \in Nat /\ top.gas \in Nat /\ left \in Nat
      BY <1>2
    <3>. QED
      BY <2>5, <3>1, <3>2, <3>3
  <2>7. HeldBy(frames') \in Nat /\ HeldBy(frames') <= HeldGas
    <3>1. HeldBy(frames') \in Nat
      BY <2>2, <2>6, HeldSum, Zenon
    <3>. QED
      BY <1>2, <2>2, <2>a, <3>1
  <2>8. \A i \in 1..Len(frames') : Worth(frames'[i].snap) + Price = Supply
    <3>. SUFFICES ASSUME NEW i \in 1..k PROVE Worth(frames'[i].snap) + Price = Supply
      BY <2>2, <2>6, Zenon
    <3>1. frames'[i].snap = frames[i].snap
      BY <2>1, <2>2, <2>6
    <3>2. i \in 1..n
      BY <1>2, <2>3
    <3>. QED
      BY <1>2, <3>1, <3>2, Zenon DEF Running, n
  <2>9. frames' # <<>> /\ frames'[1].snap = frames[1].snap
    BY <2>1, <2>2, <2>4, <2>6
  <2>10. Worth(world') = Worth(world)
    <3>1. Worth(w) \in Nat /\ Worth(world) \in Nat /\ Price \in Nat
      BY <1>1, TopType, WorthType, Zenon DEF ExecInv
    <3>2. Worth(world) + Price = Supply
      BY <1>2, Zenon DEF Running
    <3>. QED
      BY <2>2, <3>1, <3>2
  <2>11. ExecInv'
    <3>1. frames' \in Seq(Calls) /\ world' \in Worlds
      BY <2>2, <2>6, Zenon
    <3>. QED
      BY <1>1, <2>2, <2>7, <2>8, <2>9, <2>10, <3>1, StillRunning, Zenon
  <2>12. HeldGas' = HeldBy(frames') /\ Len(frames') = n - 1
    BY <2>2, <2>3, <2>6, Zenon DEF HeldGas, HeldBy, SumFunction
  <2>13. Shrinks
    BY <1>2, <2>7, <2>12 DEF Shrinks, n
  <2>. QED
    BY <2>11, <2>13
<1>. QED
  BY <1>3, <1>4

-----------------------------------------------------------------------------
\* Gas prices: a call costs more than the stipend that comes with its value.
LEMMA Prices ==
  /\ OpGas \in Nat \ {0} /\ ValueGas \in Nat /\ Stipend \in Nat /\ Stipend <= ValueGas
  /\ RefundGas \in Nat /\ TxGas \in Nat \ {0}
  /\ \A v \in {0, 1} : CallCost(v) \in Nat /\ (IF v > 0 THEN Stipend ELSE 0) < CallCost(v)
<1>1. /\ OpGas \in Nat \ {0} /\ ValueGas \in Nat /\ Stipend \in Nat /\ Stipend <= ValueGas
      /\ RefundGas \in Nat /\ TxGas \in Nat \ {0}
  BY ExecutionAssumption
<1>2. CallCost(0) = OpGas /\ CallCost(1) = OpGas + ValueGas
  BY <1>1 DEF CallCost
<1>. QED
  BY <1>1, <1>2

\* Any error but a revert takes the call back to its snapshot.
LEMMA FaultStep == ExecInv /\ Fault => ExecInv' /\ Shrinks
<1>. SUFFICES ASSUME ExecInv, Fault PROVE ExecInv' /\ Shrinks
  OBVIOUS
<1>1. frames # <<>> /\ Return(top.snap, 0, "failed")
  BY DEF Fault
<1>2. top.snap \in Worlds /\ Worth(top.snap) + Price = Supply /\ top.gas \in Nat
  BY <1>1, TopType
<1>. QED
  BY <1>1, <1>2, ReturnStep

\* errExecutionReverted keeps the gas.
LEMMA RevertStep == ExecInv /\ Revert => ExecInv' /\ Shrinks
<1>. SUFFICES ASSUME ExecInv, Revert PROVE ExecInv' /\ Shrinks
  OBVIOUS
<1>1. frames # <<>> /\ top.gas >= OpGas /\ Return(top.snap, top.gas - OpGas, "failed")
  BY DEF Revert
<1>2. top.snap \in Worlds /\ Worth(top.snap) + Price = Supply /\ top.gas \in Nat
  BY <1>1, TopType
<1>3. top.gas - OpGas \in Nat /\ top.gas - OpGas <= top.gas
  BY <1>1, <1>2, Prices
<1>. QED
  BY <1>1, <1>2, <1>3, ReturnStep

\* STOP, RETURN and the code a creation leaves.
LEMMA HaltStep == ExecInv /\ Halt => ExecInv' /\ Shrinks
<1>. SUFFICES ASSUME ExecInv, Halt PROVE ExecInv' /\ Shrinks
  OBVIOUS
<1>1. frames # <<>>
  BY DEF Halt
<1>2. PICK code \in {0, OpGas} :
        IF top.gas < code
        THEN Fault
        ELSE Return([world EXCEPT !.code = IF code > 0 THEN @ \union {top.self} ELSE @],
                    top.gas - code, "done")
  BY Zenon DEF Halt
<1>. DEFINE w == [world EXCEPT !.code = IF code > 0 THEN @ \union {top.self} ELSE @]
<1>3. code \in Nat /\ top.gas \in Nat /\ top.self \in Holders /\ world \in Worlds
  BY <1>1, <1>2, TopType, Prices DEF ExecInv
<1>4. CASE top.gas < code
  BY <1>2, <1>4, FaultStep
<1>5. CASE ~ (top.gas < code)
  <2>1. Return(w, top.gas - code, "done")
    BY <1>2, <1>5
  <2>2. w \in Worlds /\ w.balance = world.balance /\ w.burnt = world.burnt
    BY <1>3, Zenon DEF Worlds
  <2>. HIDE DEF w
  <2>3. Worth(w) + Price = Supply
    BY <1>1, <2>2, TopType, SameBalances DEF Running
  <2>4. top.gas - code \in Nat /\ top.gas - code <= top.gas
    BY <1>3, <1>5
  <2>. QED
    BY <2>1, <2>2, <2>3, <2>4, ReturnStep
<1>. QED
  BY <1>4, <1>5

\* An instruction, which may raise the refund counter.
LEMMA ExecuteStep == ExecInv /\ Execute => ExecInv' /\ Shrinks
<1>. SUFFICES ASSUME ExecInv, Execute PROVE ExecInv' /\ Shrinks
  OBVIOUS
<1>. DEFINE w == [world EXCEPT !.refund = @ + RefundGas]
<1>1. frames # <<>> /\ top.gas >= OpGas
  BY DEF Execute
<1>2. Continue(world, top.gas - OpGas) \/ Continue(w, top.gas - OpGas)
  BY DEF Execute
<1>3. world \in Worlds
  BY DEF ExecInv
<1>4. w \in Worlds /\ w.balance = world.balance /\ w.burnt = world.burnt
  BY <1>3, Prices DEF Worlds
<1>. HIDE DEF w
<1>5. Worth(w) = Worth(world)
  BY <1>4, SameBalances, Zenon
<1>6. top.gas - OpGas \in Nat /\ top.gas - OpGas < top.gas
  BY <1>1, TopType, Prices
<1>. QED
  BY <1>1, <1>2, <1>3, <1>4, <1>5, <1>6, ContinueStep

\* SELFDESTRUCT with any heir.
LEMMA SelfDestructStep == ExecInv /\ SelfDestruct => ExecInv' /\ Shrinks
<1>. SUFFICES ASSUME ExecInv, SelfDestruct PROVE ExecInv' /\ Shrinks
  OBVIOUS
<1>1. frames # <<>> /\ top.gas >= OpGas
  BY DEF SelfDestruct
<1>2. PICK heir \in Holders : Return(Inherit(world, top.self, heir), top.gas - OpGas, "done")
  BY Zenon DEF SelfDestruct
<1>3. world \in Worlds /\ top.self \in Holders /\ top.gas \in Nat /\ Worth(world) + Price = Supply
  BY <1>1, TopType DEF ExecInv, Running
<1>4. /\ Inherit(world, top.self, heir) \in Worlds
      /\ Worth(Inherit(world, top.self, heir)) = Worth(world)
  BY <1>3, InheritKeeps
<1>5. top.gas - OpGas \in Nat /\ top.gas - OpGas <= top.gas
  BY <1>1, <1>3, Prices
<1>. QED
  BY <1>2, <1>3, <1>4, <1>5, ReturnStep

\* CALL and its kin.
LEMMA CallOutStep == ExecInv /\ CallOut => ExecInv' /\ Shrinks
<1>. SUFFICES ASSUME ExecInv, CallOut PROVE ExecInv' /\ Shrinks
  OBVIOUS
<1>1. frames # <<>>
  BY DEF CallOut
<1>2. PICK kind \in {"call", "callcode", "delegate", "static"}, to \in Holders, value \in {0, 1} :
      \E granted \in {0, top.gas - CallCost(value)} : MakeCall(kind, to, value, granted)
  BY DEF CallOut
<1>3. PICK granted \in {0, top.gas - CallCost(value)} : MakeCall(kind, to, value, granted)
  BY <1>2
<1>. DEFINE stipend == IF value > 0 THEN Stipend ELSE 0
            gas == granted + stipend
            left == top.gas - CallCost(value) - granted
            moved == IF kind = "call" THEN Transfer(world, top.self, to, value) ELSE world
            self == IF kind \in {"call", "static"} THEN to ELSE top.self
            readOnly == top.readOnly \/ kind = "static"
            c == Frame(self, gas, world, FALSE, readOnly)
            possible == Len(frames) <= CreateDepth /\ CanTransfer(world, top.self, value)
<1>4. /\ ~ possible => Continue(world, left + gas)
      /\ possible /\ to \notin world.code => Continue(moved, left + gas)
      /\ possible /\ to \in world.code =>
            /\ world' = moved
            /\ frames' = Append([frames EXCEPT ![Len(frames)].gas = left], c)
            /\ UNCHANGED <<message, before, gasPool, gasUsed, outcome>>
      /\ top.gas >= CallCost(value)
  BY <1>3, Zenon DEF MakeCall
<1>5. /\ world \in Worlds /\ top \in Calls /\ top.self \in Holders /\ top.gas \in Nat
      /\ top.readOnly \in BOOLEAN
  BY <1>1, TopType DEF ExecInv, Calls
<1>6. CallCost(value) \in Nat /\ stipend \in Nat /\ stipend < CallCost(value)
  BY Prices, Zenon
<1>7. gas \in Nat /\ left \in Nat /\ left + gas \in Nat /\ left + gas < top.gas
  <2>. DEFINE cost == CallCost(value)
  <2>1. top.gas >= cost /\ cost \in Nat /\ stipend < cost
    BY <1>4, <1>6
  <2>2. granted = 0 \/ granted = top.gas - cost
    BY <1>3
  <2>. HIDE DEF stipend, cost
  <2>3. granted \in Nat /\ granted <= top.gas - cost
    BY <1>5, <2>1, <2>2
  <2>4. left = top.gas - cost - granted
    BY Zenon DEF cost
  <2>. HIDE DEF left
  <2>. QED
    BY <1>5, <1>6, <2>1, <2>3, <2>4
<1>8. possible => moved \in Worlds /\ Worth(moved) = Worth(world)
  BY <1>5, TransferKeeps
<1>9. c \in Calls /\ c.gas = gas /\ c.snap = world
  <2>1. self \in Holders /\ readOnly \in BOOLEAN
    BY <1>5, Zenon
  <2>2. gas \in Nat 
    BY <1>5, <1>7, Zenon
  <2>3. \A s \in Holders, g \in Nat, r \in BOOLEAN :
          /\ Frame(s, g, world, FALSE, r) \in Calls
          /\ Frame(s, g, world, FALSE, r).gas = g
          /\ Frame(s, g, world, FALSE, r).snap = world
    BY <1>5, Zenon DEF Frame, Calls
  <2>. HIDE DEF self, gas, readOnly
  <2>. QED
    BY <2>1, <2>2, <2>3, Zenon
<1>. HIDE DEF gas, left, moved, self, c, possible, stipend
<1>10. CASE ~ possible
  BY <1>1, <1>4, <1>5, <1>7, <1>10, ContinueStep, Zenon
<1>11. CASE possible /\ to \notin world.code
  BY <1>1, <1>4, <1>7, <1>8, <1>11, ContinueStep
<1>12. CASE possible /\ to \in world.code
  BY <1>1, <1>4, <1>7, <1>8, <1>9, <1>12, EnterStep, Zenon
<1>. QED
  BY <1>10, <1>11, <1>12

\* CREATE.
LEMMA CreateOutStep == AddressesKnown /\ ExecInv /\ CreateOut => ExecInv' /\ Shrinks
<1>. SUFFICES ASSUME AddressesKnown, ExecInv, CreateOut PROVE ExecInv' /\ Shrinks
  OBVIOUS
<1>1. frames # <<>> /\ top.gas >= OpGas
  BY DEF CreateOut
<1>2. PICK value \in {0, 1} :
          LET gas == top.gas - OpGas
              made == NewContract(world, top.self, value)
          IN IF Len(frames) > CreateDepth \/ ~CanTransfer(world, top.self, value)
             THEN Continue(world, gas)
             ELSE IF made.collides
             THEN Continue(made.snap, 0)
             ELSE /\ world' = made.world
                  /\ frames' = Append([frames EXCEPT ![Len(frames)].gas = 0],
                                      Frame(made.address, gas, made.snap, TRUE, FALSE))
                  /\ UNCHANGED <<message, before, gasPool, gasUsed, outcome, tried>>
  BY Zenon DEF CreateOut
<1>. DEFINE gas == top.gas - OpGas
            made == NewContract(world, top.self, value)
            c == Frame(made.address, gas, made.snap, TRUE, FALSE)
            refused == Len(frames) > CreateDepth \/ ~CanTransfer(world, top.self, value)
<1>3. /\ refused => Continue(world, gas)
      /\ ~ refused /\ made.collides => Continue(made.snap, 0)
      /\ ~ refused /\ ~ made.collides =>
            /\ world' = made.world
            /\ frames' = Append([frames EXCEPT ![Len(frames)].gas = 0], c)
            /\ UNCHANGED <<message, before, gasPool, gasUsed, outcome>>
  BY <1>2, Zenon
<1>4. world \in Worlds /\ top.self \in Holders /\ top.gas \in Nat
  BY <1>1, TopType, Zenon DEF ExecInv
<1>5. gas \in Nat /\ gas < top.gas /\ 0 < top.gas /\ 0 + gas < top.gas
  BY <1>1, <1>4, Prices
<1>6. ~ refused => /\ made.address \in Holders /\ made.snap = IncNonce(world, top.self)
                   /\ made.world \in Worlds /\ Worth(made.world) = Worth(world)
  BY <1>4, NewContractKeeps
<1>7. ~ refused => made.snap \in Worlds /\ Worth(made.snap) = Worth(world)
  BY <1>4, <1>6, NonceKeeps, Zenon
<1>. HIDE DEF gas, made, refused
<1>8. ~ refused => c \in Calls /\ c.gas = gas /\ c.snap = made.snap
  BY <1>5, <1>6, <1>7, Zenon DEF Frame, Calls
<1>. HIDE DEF c
<1>9. CASE refused
  BY <1>1, <1>3, <1>4, <1>5, <1>9, ContinueStep, Zenon
<1>10. CASE ~ refused /\ made.collides
  BY <1>1, <1>3, <1>5, <1>7, <1>10, ContinueStep, Zenon
<1>11. CASE ~ refused /\ ~ made.collides
  BY <1>1, <1>3, <1>5, <1>6, <1>7, <1>8, <1>11, EnterStep, Zenon
<1>. QED
  BY <1>9, <1>10, <1>11

\* Every step of the interpreter keeps the invariant and takes gas.
LEMMA RunStep == AddressesKnown /\ ExecInv /\ Run => ExecInv' /\ Shrinks
BY FaultStep, RevertStep, HaltStep, ExecuteStep, SelfDestructStep, CallOutStep, CreateOutStep DEF Run
-----------------------------------------------------------------------------
\* A message enters code: the first call has the gas that is left of what was
\* bought, and its snapshot is the state before the message but for gas and nonce.
LEMMA FirstCall ==
  ASSUME ExecInv, frames = <<>>, NEW m \in Messages, NEW c \in Calls,
         BuyGas(world, m) \in Worlds, Worth(BuyGas(world, m)) + m.gas * m.price = Supply,
         c.snap = IncNonce(BuyGas(world, m), m.from), c.gas + TxGas <= m.gas,
         world' \in Worlds, Worth(world') = Worth(BuyGas(world, m)), frames' = <<c>>,
         gasPool' = gasPool - m.gas, gasPool >= m.gas,
         outcome' = "running", message' = m, before' = world, gasUsed' = gasUsed
  PROVE  ExecInv'
<1>1. Settled /\ world \in Worlds /\ gasPool \in Nat /\ gasUsed \in Nat
  BY Zenon DEF ExecInv
<1>2. m.gas \in Nat /\ m.from \in Holders
  BY MessageType
<1>3. frames' \in Seq(Calls) /\ Len(frames') = 1 /\ frames'[1] = c /\ frames' # <<>>
  OBVIOUS
<1>4. HeldGas' = c.gas
  <2>1. <<>> \in Seq(Calls) /\ <<c>> = Append(<<>>, c) /\ c.gas \in Nat
    BY DEF Calls
  <2>2. HeldBy(<<c>>) = 0 + c.gas
    BY <2>1, HeldPush, HeldNone, Zenon
  <2>3. HeldGas' = HeldBy(frames')
    BY Zenon DEF HeldGas, HeldBy, SumFunction
  <2>. QED
    BY <2>1, <2>2, <2>3
<1>5. Worth(world)' = Worth(world') /\ Worth(frames[1].snap)' = Worth(frames'[1].snap)
  BY Zenon DEF Worth, Total
<1>6. Worth(c.snap) = Worth(BuyGas(world, m))
  BY <1>2, NonceKeeps, Zenon
<1>7. Price' = m.gas * m.price /\ Supply' = Supply
  BY Zenon DEF Price, Supply
<1>8. Running'
  <2>1. (Worth(world) + Price = Supply)'
    BY <1>5, <1>7, Zenon
  <2>2. (\A i \in 1..Len(frames) : Worth(frames[i].snap) + Price = Supply)'
    <3>1. Worth(frames'[1].snap) + Price' = Supply'
      BY <1>3, <1>6, <1>7, Zenon
    <3>2. \A i \in 1..Len(frames') : i = 1
      BY <1>3
    <3>3. \A i : Worth(frames[i].snap)' = Worth(frames'[i].snap)
      BY Zenon DEF Worth, Total
    <3>. QED
      BY <3>1, <3>2, <3>3, Zenon
  <2>3. (frames[1].snap = IncNonce(BuyGas(before, message), message.from))'
    BY <1>3, Zenon DEF IncNonce, BuyGas
  <2>4. (HeldGas + TxGas <= message.gas)'
    BY <1>4, Zenon
  <2>5. (gasPool + gasUsed + message.gas <= GasLimit)'
    <3>1. GasLimit \in Nat
      BY ExecutionAssumption, Zenon
    <3>. QED
      BY <1>1, <1>2, <3>1 DEF Settled
  <2>. QED
    BY <2>1, <2>2, <2>3, <2>4, <2>5, Zenon DEF Running
<1>9. (before \in Worlds /\ Clean(before))'
  BY <1>1, Zenon DEF Settled, Clean
<1>. QED
  BY <1>1, <1>2, <1>3, <1>8, <1>9 DEF ExecInv, Outcome

\* commitTransaction takes a message, refuses it or starts it.
LEMMA ApplyStep ==
  ASSUME AddressesKnown, ExecInv, NEW m \in Messages, ApplyMessage(m)
  PROVE  ExecInv'
<1>. DEFINE bought == BuyGas(world, m)
            gas == m.gas - TxGas
            price == m.gas * m.price
            made == NewContract(bought, m.from, m.value)
            entered == EnterCall(bought, m)
            paid == Transfer(entered, m.from, m.to, m.value)
            poor == \/ world.nonce[m.from] # m.nonce
                    \/ world.balance[m.from] < m.gas * m.price
                    \/ gasPool < m.gas
            short == gas < 0 \/ ~CanTransfer(bought, m.from, m.value)
<1>1. frames = <<>> /\ message' = m /\ before' = world
  BY Zenon DEF ApplyMessage
<1>2. /\ poor => Refuse(gasPool)
      /\ ~ poor /\ short => Refuse(SubGas(m))
      /\ ~ poor /\ ~ short /\ m.to = "create" /\ made.collides
           => Conclude(made.snap, 0, SubGas(m), "failed")
      /\ ~ poor /\ ~ short /\ m.to = "create" /\ ~ made.collides
           => /\ world' = made.world
              /\ frames' = <<Frame(made.address, gas, made.snap, TRUE, FALSE)>>
              /\ gasPool' = SubGas(m) /\ outcome' = "running" /\ gasUsed' = gasUsed
      /\ ~ poor /\ ~ short /\ m.to # "create" /\ m.to \notin world.code
           => Conclude(paid, gas, SubGas(m), "done")
      /\ ~ poor /\ ~ short /\ m.to # "create" /\ m.to \in world.code
           => /\ world' = paid
              /\ frames' = <<Frame(m.to, gas, entered, FALSE, FALSE)>>
              /\ gasPool' = SubGas(m) /\ outcome' = "running" /\ gasUsed' = gasUsed
  BY Zenon DEF ApplyMessage
<1>3. /\ world \in Worlds /\ Settled /\ gasPool \in Nat /\ gasUsed \in Nat
      /\ Worth(world) = Supply /\ Clean(world) /\ gasPool + gasUsed <= GasLimit
  BY <1>1, Zenon DEF ExecInv, Settled
<1>4. /\ m.from \in Holders /\ m.value \in Nat /\ m.gas \in Nat /\ price \in Nat
      /\ TxGas \in Nat /\ GasLimit \in Nat /\ (m.to # "create" => m.to \in Holders)
  BY MessageType, ExecutionAssumption, Zenon
<1>5. before' \in Worlds /\ Clean(before') /\ Clean(before)'
  BY <1>1, <1>3, Zenon DEF Clean
<1>6. ASSUME NEW g \in Nat, Refuse(g), g <= gasPool PROVE ExecInv'
  <2>1. world' = world /\ gasPool' = g /\ gasUsed' = gasUsed /\ frames' = <<>> /\ outcome' = "refused"
    BY <1>1, <1>6, Zenon DEF Refuse
  <2>2. Worth(world)' = Worth(world) /\ Clean(world)' /\ Supply' = Supply
    BY <1>3, <2>1, Zenon DEF Worth, Total, Clean, Supply
  <2>3. Settled'
    BY <1>3, <1>4, <1>6, <2>1, <2>2 DEF Settled
  <2>. QED
    BY <1>1, <1>3, <1>5, <2>1, <2>3, Zenon DEF ExecInv, Outcome
<1>7. CASE poor
  <2>1. Refuse(gasPool)
    BY <1>2, <1>7, Zenon
  <2>2. gasPool \in Nat /\ gasPool <= gasPool
    BY <1>3
  <2>. QED
    BY <1>6, <2>1, <2>2, Zenon
<1>8. CASE ~ poor
  <2>1. world.balance[m.from] >= price /\ gasPool >= m.gas
    <3>1. world.balance[m.from] \in Nat
      BY <1>3, <1>4, Zenon DEF Worlds
    <3>. QED
      BY <1>3, <1>4, <1>8, <3>1
  <2>2. bought \in Worlds /\ Worth(bought) + price = Worth(world)
    BY <1>3, <2>1, BuyGasTakes, Zenon
  <2>3. SubGas(m) = gasPool - m.gas /\ SubGas(m) \in Nat /\ SubGas(m) <= gasPool
        /\ SubGas(m) + gasUsed + m.gas <= GasLimit
    <3>1. SubGas(m) = gasPool - m.gas
      BY Zenon DEF SubGas
    <3>2. gasPool \in Nat /\ gasUsed \in Nat /\ m.gas \in Nat /\ GasLimit \in Nat
      BY <1>3, <1>4
    <3>3. gasPool + gasUsed <= GasLimit /\ gasPool >= m.gas
      BY <1>3, <2>1
    <3>. QED
      BY <3>1, <3>2, <3>3
  <2>4. CASE short
    <3>1. Refuse(SubGas(m))
      BY <1>2, <1>8, <2>4, Zenon
    <3>. QED
      BY <1>6, <2>3, <3>1, Zenon
  <2>5. CASE ~ short
    <3>1. gas \in Nat /\ gas + TxGas <= m.gas /\ gas <= m.gas /\ CanTransfer(bought, m.from, m.value)
      BY <1>4, <2>5
    <3>. HIDE DEF poor, short, gas, price, bought
    <3>2. entered = IncNonce(bought, m.from)
      BY Zenon DEF EnterCall
    <3>3. IncNonce(bought, m.from) \in Worlds /\ Worth(IncNonce(bought, m.from)) = Worth(bought)
      BY <1>4, <2>2, NonceKeeps, Zenon
    <3>4. /\ made.address \in Holders /\ made.snap = IncNonce(bought, m.from)
          /\ made.world \in Worlds /\ Worth(made.world) = Worth(bought)
      BY <1>4, <2>2, <3>1, NewContractKeeps, Zenon
    <3>5. m.to # "create" => paid \in Worlds /\ Worth(paid) = Worth(bought)
      <4>1. CanTransfer(IncNonce(bought, m.from), m.from, m.value)
        BY <3>1 DEF CanTransfer, IncNonce
      <4>. QED
        BY <1>4, <3>2, <3>3, <4>1, TransferKeeps
    <3>6. Worth(bought) + price = Supply
      BY <1>3, <2>2, Zenon
    <3>. HIDE DEF made, entered, paid
    <3>7. ASSUME NEW w \in Worlds, Worth(w) = Worth(bought), NEW left \in Nat, left <= m.gas,
                 NEW result, Conclude(w, left, SubGas(m), result), Outcome'
          PROVE  ExecInv'
      <4>1. Worth(w) + message'.gas * message'.price = Supply
        BY <1>1, <3>6, <3>7, Zenon DEF price
      <4>2. /\ message' \in Messages /\ left <= message'.gas
            /\ SubGas(m) + gasUsed + message'.gas <= GasLimit
        BY <1>1, <2>3, <3>7, Zenon
      <4>3. /\ world' \in Worlds /\ gasPool' \in Nat /\ gasUsed' \in Nat
            /\ frames' = <<>> /\ outcome' = result /\ Settled'
        BY <1>3, <2>3, <3>7, <4>1, <4>2, ConcludeSettles, Zenon
      <4>. QED
        BY <1>5, <3>7, <4>3 DEF ExecInv
    <3>8. CASE m.to = "create" /\ made.collides
      <4>1. Conclude(IncNonce(bought, m.from), 0, SubGas(m), "failed")
        BY <1>2, <1>8, <2>5, <3>4, <3>8, Zenon
      <4>2. Outcome'
        <5>1. bought = BuyGas(before', message')
          BY <1>1, Zenon DEF bought
        <5>2. Conclude(IncNonce(BuyGas(before', message'), message'.from), 0, SubGas(m), "failed")
          BY <1>1, <4>1, <5>1, Zenon
        <5>3. BuyGas(before', message') \in Worlds /\ message' \in Messages
          BY <1>1, <2>2, <5>1, Zenon
        <5>. QED
          BY <1>5, <2>3, <5>2, <5>3, ConcludeFailed, Zenon
      <4>. QED
        BY <1>4, <3>3, <3>7, <4>1, <4>2
    <3>9. CASE m.to = "create" /\ ~ made.collides
      <4>. DEFINE c == Frame(made.address, gas, made.snap, TRUE, FALSE)
      <4>1. c \in Calls /\ c.gas = gas /\ c.snap = IncNonce(bought, m.from)
        BY <3>1, <3>3, <3>4, Zenon DEF Frame, Calls
      <4>2. /\ world' = made.world /\ frames' = <<c>> /\ gasPool' = gasPool - m.gas
            /\ outcome' = "running" /\ gasUsed' = gasUsed
        BY <1>2, <1>8, <2>3, <2>5, <3>9, Zenon
      <4>. HIDE DEF c
      <4>. QED
        BY <1>1, <2>1, <2>2, <3>1, <3>4, <3>6, <4>1, <4>2, FirstCall, Zenon DEF bought, price
    <3>10. CASE m.to # "create" /\ m.to \notin world.code
      <4>1. Conclude(paid, gas, SubGas(m), "done")
        BY <1>2, <1>8, <2>5, <3>10, Zenon
      <4>2. Outcome'
        BY <4>1, ZenonT(30) DEF Conclude, Outcome
      <4>. QED
        BY <3>1, <3>5, <3>7, <3>10, <4>1, <4>2, Zenon
    <3>11. CASE m.to # "create" /\ m.to \in world.code
      <4>. DEFINE c == Frame(m.to, gas, entered, FALSE, FALSE)
      <4>1. c \in Calls /\ c.gas = gas /\ c.snap = IncNonce(bought, m.from)
        BY <1>4, <3>1, <3>2, <3>3, <3>11, Zenon DEF Frame, Calls
      <4>2. /\ world' = paid /\ frames' = <<c>> /\ gasPool' = gasPool - m.gas
            /\ outcome' = "running" /\ gasUsed' = gasUsed
        BY <1>2, <1>8, <2>3, <2>5, <3>11, Zenon
      <4>. HIDE DEF c
      <4>. QED
        BY <1>1, <2>1, <2>2, <3>1, <3>5, <3>6, <3>11, <4>1, <4>2, FirstCall DEF bought, price
    <3>. QED
      BY <3>8, <3>9, <3>10, <3>11, Zenon
  <2>. QED
    BY <2>4, <2>5, Zenon
<1>. QED
  BY <1>7, <1>8, Zenon

\* Every step keeps the invariant.
LEMMA ExecInvStep == AddressesKnown /\ ExecInv /\ [ExecNext]_execVars => ExecInv'
<1>. SUFFICES ASSUME AddressesKnown, ExecInv, [ExecNext]_execVars PROVE ExecInv'
  OBVIOUS
<1>1. CASE UNCHANGED execVars
  BY <1>1 DEF execVars, ExecInv, Running, Settled, Outcome, Clean, Price, HeldGas, HeldBy, SumFunction,
              Worth, Total, Supply, IncNonce, BuyGas
<1>. QED
  BY <1>1, RunStep, ApplyStep DEF ExecNext

\* What the invariant is for.
LEMMA InvImpliesConserved == ExecInv => ValueConserved
<1>. SUFFICES ASSUME ExecInv PROVE ValueConserved
  OBVIOUS
<1>1. /\ gasPool \in Nat /\ gasUsed \in Nat /\ world \in Worlds /\ world.balance \in [Holders -> Nat]
      /\ GasLimit \in Nat /\ Worth(world) \in Nat
  BY WorthType, ExecutionAssumption, Zenon DEF ExecInv, Worlds
<1>2. Total(world) + world.burnt = Worth(world)
  BY Zenon DEF Worth
<1>3. /\ Total(world) + world.burnt + (IF frames # <<>> THEN message.gas * message.price ELSE 0) = Supply
      /\ gasPool + gasUsed + HeldGas <= GasLimit
  <2>1. CASE frames # <<>>
    <3>1. /\ Worth(world) + Price = Supply /\ HeldGas + TxGas <= message.gas
          /\ gasPool + gasUsed + message.gas <= GasLimit
      BY <2>1 DEF ExecInv, Running
    <3>2. HeldGas \in Nat /\ message.gas \in Nat /\ TxGas \in Nat
      BY <2>1, TopType
    <3>3. gasPool + gasUsed + HeldGas <= GasLimit
      BY <1>1, <3>1, <3>2
    <3>. QED
      BY <1>2, <2>1, <3>1, <3>3, Zenon DEF Price
  <2>2. CASE frames = <<>>
    <3>1. HeldGas = 0
      BY <2>2, HeldNone DEF HeldGas
    <3>2. Worth(world) = Supply /\ gasPool + gasUsed <= GasLimit
      BY <2>2 DEF ExecInv, Settled
    <3>. QED
      BY <1>1, <1>2, <2>2, <3>1, <3>2
  <2>. QED
    BY <2>1, <2>2
<1>. QED
  BY <1>1, <1>3 DEF ValueConserved, ExecInv, Outcome

\* No coin is made or lost, failed messages cost gas and a nonce only, refused
\* ones nothing, and the block stays within its gas limit (TransitionDb, Call,
\* Create, opSuicide, Finalise), for every CreateAddress that returns addresses.
THEOREM ValueConservedCorrect == AddressesKnown => (ExecSpec => []ValueConserved)
<1>. SUFFICES ASSUME AddressesKnown PROVE ExecSpec => []ValueConserved
  OBVIOUS
<1>1. ExecInv /\ [ExecNext]_execVars => ExecInv'
  BY ExecInvStep
<1>. QED
  BY <1>1, ExecInvInit, InvImpliesConserved, PTL DEF ExecSpec

\* Gas ends every execution: each step of the interpreter makes the measure
\* smaller, however calls and creations nest (Run, Call, Create).
THEOREM ExecutionEndsCorrect == AddressesKnown => (ExecSpec => ExecutionEnds)
<1>. SUFFICES ASSUME AddressesKnown PROVE ExecSpec => ExecutionEnds
  OBVIOUS
<1>1. ExecInv /\ [ExecNext]_execVars => ExecInv'
  BY ExecInvStep
<1>2. ExecInv /\ [ExecNext]_execVars
        => [frames # <<>> => 2 * HeldGas' + Len(frames') < 2 * HeldGas + Len(frames)]_execVars
  BY RunStep, Zenon DEF ExecNext, ApplyMessage, Shrinks
<1>. QED
  BY <1>1, <1>2, ExecInvInit, PTL DEF ExecSpec, ExecutionEnds
=============================================================================
