-------------------------------- MODULE Sums --------------------------------
(***************************************************************************)
(* What the proofs about balances and gas need of the sum of a function    *)
(* over a finite set (SumFunctionOnSet).  The sum is a recursive function  *)
(* on subsets; a minimal subset for which a claim fails takes the place of *)
(* induction.                                                              *)
(***************************************************************************)
EXTENDS Integers, FiniteSets, Functions, FiniteSetTheorems, TLAPS

\* The element that a fold takes next, and the functions that it may be.
Pick(T) == CHOOSE x \in T : TRUE

SumsUp(f, S, g) ==
  g = [T \in SUBSET S |-> IF T = {} THEN 0 ELSE f[Pick(T)] + g[T \ {Pick(T)}]]

\* Among subsets of a finite set there is a minimal one.
LEMMA MinimalSubset ==
  ASSUME NEW S, IsFiniteSet(S), NEW C \in SUBSET SUBSET S, C # {}
  PROVE  \E X \in C : \A Y \in C : Y \subseteq X => Y = X
<1>. DEFINE R == StrictSubsetOrdering(S)
<1>1. IsWellFoundedOn(R, SUBSET S)
  BY FS_StrictSubsetOrderingWellFounded, FS_FiniteSubsetsOfFinite, Zenon
<1>2. \E X \in C : \A Y \in C : ~ (<<Y, X>> \in R)
  <2>. HIDE DEF R
  <2>. QED
    BY <1>1, WFMin
<1>. QED
  BY <1>2, Zenon DEF StrictSubsetOrdering

\* An element is there to be picked.
LEMMA Picked ==
  ASSUME NEW T, T # {}
  PROVE  Pick(T) \in T
BY DEF Pick

\* The fold is one of the functions that sum up.
LEMMA SumIsFold ==
  ASSUME NEW f, NEW S
  PROVE  SumFunctionOnSet(f, S) = (CHOOSE g : SumsUp(f, S, g))[S]
BY DEF SumFunctionOnSet, FoldFunctionOnSet, MapThenFoldSet, SumsUp, Pick

\* There is at most one, also on fewer elements.
LEMMA SumsUnique ==
  ASSUME NEW f, NEW S, IsFiniteSet(S), NEW T \in SUBSET S, NEW g, NEW h,
         SumsUp(f, S, g), SumsUp(f, T, h)
  PROVE  \A U \in SUBSET T : g[U] = h[U]
<1>. DEFINE C == {U \in SUBSET T : g[U] # h[U]}
<1>. SUFFICES ASSUME C # {} PROVE FALSE
  OBVIOUS
<1>1. PICK X \in C : \A Y \in C : Y \subseteq X => Y = X
  <2>1. C \in SUBSET SUBSET S
    OBVIOUS
  <2>. HIDE DEF C
  <2>. QED
    BY <2>1, MinimalSubset
<1>2. X \in SUBSET T /\ X \in SUBSET S /\ g[X] # h[X]
  OBVIOUS
<1>3. X # {}
  BY <1>2 DEF SumsUp
<1>4. Pick(X) \in X
  BY <1>3, Picked
<1>. DEFINE V == X \ {Pick(X)}
<1>5. V \in SUBSET T /\ V \subseteq X /\ V # X
  BY <1>2, <1>4
<1>6. g[V] = h[V]
  BY <1>1, <1>5
<1>7. g[X] = f[Pick(X)] + g[V] /\ h[X] = f[Pick(X)] + h[V]
  BY <1>2, <1>3, Zenon DEF SumsUp
<1>. QED
  BY <1>2, <1>6, <1>7

\* And there is one.
LEMMA SumsExist ==
  ASSUME NEW f, NEW S, IsFiniteSet(S)
  PROVE  \E g : SumsUp(f, S, g)
<1>. DEFINE C == {T \in SUBSET S : ~ \E g : SumsUp(f, T, g)}
<1>. SUFFICES ASSUME C # {} PROVE FALSE
  BY S \in SUBSET S
<1>1. PICK X \in C : \A Y \in C : Y \subseteq X => Y = X
  <2>1. C \in SUBSET SUBSET S
    OBVIOUS
  <2>. HIDE DEF C
  <2>. QED
    BY <2>1, MinimalSubset
<1>. DEFINE G(T) == CHOOSE g : SumsUp(f, T, g)
            h == [T \in SUBSET X |-> IF T = {} THEN 0 ELSE f[Pick(T)] + G(T \ {Pick(T)})[T \ {Pick(T)}]]
<1>2. \A T \in SUBSET X : T # X => SumsUp(f, T, G(T))
  BY <1>1
<1>. HIDE DEF G
<1>3. ASSUME NEW T \in SUBSET X, T # X, T # {}
      PROVE  h[T] = G(T)[T]
  <2>. DEFINE V == T \ {Pick(T)}
  <2>1. Pick(T) \in T
    BY <1>3, Picked
  <2>2. V \in SUBSET T /\ V \in SUBSET X /\ V # X
    BY <1>3, <2>1
  <2>3. IsFiniteSet(T)
    BY <1>1, FS_Subset
  <2>4. SumsUp(f, T, G(T)) /\ SumsUp(f, V, G(V))
    BY <1>2, <1>3, <2>2
  <2>. HIDE DEF V
  <2>5. G(T)[V] = G(V)[V]
    BY <2>2, <2>3, <2>4, SumsUnique
  <2>6. G(T)[T] = f[Pick(T)] + G(T)[V]
    BY <1>3, <2>4, Zenon DEF SumsUp, V
  <2>. QED
    BY <1>3, <2>5, <2>6 DEF V
<1>4. {} # X => G({})[{}] = 0
  BY <1>2, Zenon DEF SumsUp
<1>5. \A T \in SUBSET X : T # {} => h[T] = f[Pick(T)] + h[T \ {Pick(T)}]
  <2>. SUFFICES ASSUME NEW T \in SUBSET X, T # {} PROVE h[T] = f[Pick(T)] + h[T \ {Pick(T)}]
    BY Zenon
  <2>. DEFINE V == T \ {Pick(T)}
  <2>1. Pick(T) \in T
    BY Picked
  <2>2. V \in SUBSET X /\ V # X
    BY <2>1
  <2>3. h[V] = G(V)[V]
    BY <1>3, <1>4, <2>2, Zenon
  <2>. QED
    BY <2>3
<1>6. h = [T \in SUBSET X |-> IF T = {} THEN 0 ELSE f[Pick(T)] + h[T \ {Pick(T)}]]
  BY <1>5, Zenon
<1>7. SumsUp(f, X, h)
  <2>. HIDE DEF h
  <2>. QED
    BY <1>6, Zenon DEF SumsUp
<1>. QED
  BY <1>1, <1>7

\* One step of the sum.
LEMMA SumStep ==
  ASSUME NEW f, NEW S, IsFiniteSet(S)
  PROVE  /\ S = {} => SumFunctionOnSet(f, S) = 0
         /\ S # {} => SumFunctionOnSet(f, S) = f[Pick(S)] + SumFunctionOnSet(f, S \ {Pick(S)})
<1>. DEFINE G(T) == CHOOSE g : SumsUp(f, T, g)
            V == S \ {Pick(S)}
<1>1. SumsUp(f, S, G(S))
  BY SumsExist
<1>2. V \in SUBSET S /\ IsFiniteSet(V)
  BY FS_Subset
<1>3. SumsUp(f, V, G(V))
  BY <1>2, SumsExist
<1>4. SumFunctionOnSet(f, S) = G(S)[S] /\ SumFunctionOnSet(f, V) = G(V)[V]
  BY SumIsFold
<1>. HIDE DEF G
<1>5. G(S)[V] = G(V)[V]
  BY <1>1, <1>2, <1>3, SumsUnique
<1>6. G(S)[S] = IF S = {} THEN 0 ELSE f[Pick(S)] + G(S)[V]
  BY <1>1, Zenon DEF SumsUp
<1>. QED
  BY <1>4, <1>5, <1>6

\* The sum of integers is an integer, and any element may be taken out first.
LEMMA SumTakeOut ==
  ASSUME NEW S, IsFiniteSet(S), NEW f, \A x \in S : f[x] \in Int
  PROVE  /\ SumFunctionOnSet(f, S) \in Int
         /\ \A a \in S : SumFunctionOnSet(f, S) = f[a] + SumFunctionOnSet(f, S \ {a})
<1>. DEFINE P(T) == /\ SumFunctionOnSet(f, T) \in Int
                    /\ \A a \in T : SumFunctionOnSet(f, T) = f[a] + SumFunctionOnSet(f, T \ {a})
            C == {T \in SUBSET S : ~ P(T)}
<1>. SUFFICES ASSUME C # {} PROVE FALSE
  BY S \in SUBSET S
<1>1. PICK X \in C : \A Y \in C : Y \subseteq X => Y = X
  <2>1. C \in SUBSET SUBSET S
    OBVIOUS
  <2>. HIDE DEF C
  <2>. QED
    BY <2>1, MinimalSubset
<1>2. X \in SUBSET S /\ ~ P(X)
  OBVIOUS
<1>3. \A Y \in SUBSET X : Y # X => P(Y)
  BY <1>1, <1>2
<1>4. IsFiniteSet(X)
  BY <1>2, FS_Subset
<1>. HIDE DEF P, C
<1>5. X # {}
  <2>1. SumFunctionOnSet(f, {}) = 0
    BY FS_EmptySet, SumStep, Zenon
  <2>. QED
    BY <1>2, <2>1 DEF P
<1>. DEFINE p == Pick(X)
            V == X \ {p}
<1>6. p \in X /\ V \in SUBSET X /\ V # X
  BY <1>5, Picked
<1>7. SumFunctionOnSet(f, X) = f[p] + SumFunctionOnSet(f, V)
  BY <1>4, <1>5, SumStep
<1>. HIDE DEF p, V
<1>8. P(V)
  BY <1>3, <1>6
<1>9. f[p] \in Int /\ SumFunctionOnSet(f, V) \in Int
  BY <1>2, <1>6, <1>8 DEF P
<1>10. ASSUME NEW a \in X, a # p
       PROVE  SumFunctionOnSet(f, X) = f[a] + SumFunctionOnSet(f, X \ {a})
  <2>. DEFINE A == X \ {a}
              W == V \ {a}
  <2>1. a \in V /\ A \in SUBSET X /\ A # X /\ p \in A /\ A \ {p} = W /\ W \in SUBSET X /\ W # X
    BY <1>6, <1>10 DEF V
  <2>2. P(A) /\ P(W)
    BY <1>3, <2>1
  <2>3. SumFunctionOnSet(f, V) = f[a] + SumFunctionOnSet(f, W)
    BY <1>8, <2>1 DEF P
  <2>4. SumFunctionOnSet(f, A) = f[p] + SumFunctionOnSet(f, W)
    BY <2>1, <2>2, Zenon DEF P
  <2>5. f[a] \in Int /\ SumFunctionOnSet(f, W) \in Int
    BY <1>2, <1>10, <2>2 DEF P
  <2>. HIDE DEF A, W
  <2>6. SumFunctionOnSet(f, X) = f[a] + SumFunctionOnSet(f, A)
    BY <1>7, <1>9, <2>3, <2>4, <2>5
  <2>. QED
    BY <2>6 DEF A
<1>. QED
  BY <1>2, <1>7, <1>9, <1>10 DEF P, V

\* The sum of no numbers.
LEMMA SumEmpty ==
  ASSUME NEW f
  PROVE  SumFunctionOnSet(f, {}) = 0
BY FS_EmptySet, SumStep, Zenon

\* The sum depends on the values only.
LEMMA SumSame ==
  ASSUME NEW S, IsFiniteSet(S), NEW f, NEW g, \A x \in S : f[x] = g[x]
  PROVE  SumFunctionOnSet(f, S) = SumFunctionOnSet(g, S)
<1>. DEFINE C == {T \in SUBSET S : SumFunctionOnSet(f, T) # SumFunctionOnSet(g, T)}
<1>. SUFFICES ASSUME C # {} PROVE FALSE
  BY S \in SUBSET S
<1>1. PICK X \in C : \A Y \in C : Y \subseteq X => Y = X
  <2>1. C \in SUBSET SUBSET S
    OBVIOUS
  <2>. HIDE DEF C
  <2>. QED
    BY <2>1, MinimalSubset
<1>2. IsFiniteSet(X)
  BY FS_Subset
<1>3. X # {}
  BY SumEmpty
<1>4. Pick(X) \in X
  BY <1>3, Picked
<1>5. SumFunctionOnSet(f, X \ {Pick(X)}) = SumFunctionOnSet(g, X \ {Pick(X)})
  BY <1>1, <1>4
<1>. QED
  BY <1>2, <1>3, <1>4, <1>5, SumStep

\* One value changes: the sum changes by as much.
LEMMA SumUpdate ==
  ASSUME NEW S, IsFiniteSet(S), NEW f, NEW g, NEW a \in S,
         \A x \in S : f[x] \in Int, g[a] \in Int,
         \A x \in S : x # a => g[x] = f[x]
  PROVE  SumFunctionOnSet(g, S) = SumFunctionOnSet(f, S) + (g[a] - f[a])
<1>. DEFINE V == S \ {a}
<1>1. IsFiniteSet(V)
  BY FS_Subset
<1>2. SumFunctionOnSet(f, V) = SumFunctionOnSet(g, V)
  BY <1>1, SumSame
<1>3. \A x \in S : g[x] \in Int
  OBVIOUS
<1>4. SumFunctionOnSet(f, V) \in Int
  BY <1>1, SumTakeOut
<1>5. SumFunctionOnSet(f, S) = f[a] + SumFunctionOnSet(f, V)
  BY SumTakeOut, Zenon
<1>6. SumFunctionOnSet(g, S) = g[a] + SumFunctionOnSet(g, V)
  BY <1>3, SumTakeOut
<1>. HIDE DEF V
<1>. QED
  BY <1>2, <1>4, <1>5, <1>6

\* The same for any place of change.
LEMMA SumUpdateAny ==
  ASSUME NEW S, IsFiniteSet(S), NEW f, NEW g, \A x \in S : f[x] \in Int
  PROVE  \A a \in S : g[a] \in Int /\ (\A x \in S : x # a => g[x] = f[x])
           => SumFunctionOnSet(g, S) = SumFunctionOnSet(f, S) + (g[a] - f[a])
BY SumUpdate

\* The sum over a part and over the rest.
LEMMA SumSplit ==
  ASSUME NEW S, IsFiniteSet(S), NEW f, \A x \in S : f[x] \in Int, NEW T \in SUBSET S
  PROVE  SumFunctionOnSet(f, S) = SumFunctionOnSet(f, T) + SumFunctionOnSet(f, S \ T)
<1>. DEFINE P(U) == SumFunctionOnSet(f, S) = SumFunctionOnSet(f, U) + SumFunctionOnSet(f, S \ U)
            C == {U \in SUBSET S : ~ P(U)}
<1>. SUFFICES ASSUME C # {} PROVE FALSE
  OBVIOUS
<1>1. PICK X \in C : \A Y \in C : Y \subseteq X => Y = X
  <2>1. C \in SUBSET SUBSET S
    OBVIOUS
  <2>. HIDE DEF C
  <2>. QED
    BY <2>1, MinimalSubset
<1>2. X \in SUBSET S /\ ~ P(X) /\ \A Y \in SUBSET X : Y # X => P(Y)
  BY <1>1
<1>. HIDE DEF C
<1>0. \A U \in SUBSET S : IsFiniteSet(U) /\ SumFunctionOnSet(f, U) \in Int
  <2>. SUFFICES ASSUME NEW U \in SUBSET S PROVE IsFiniteSet(U) /\ SumFunctionOnSet(f, U) \in Int
    OBVIOUS
  <2>1. IsFiniteSet(U)
    BY FS_Subset
  <2>. QED
    BY <2>1, SumTakeOut
<1>3. X # {}
  <2>1. S \ {} = S
    OBVIOUS
  <2>2. SumFunctionOnSet(f, S) \in Int
    BY <1>0, S \in SUBSET S
  <2>3. P({})
    BY <2>1, <2>2, SumEmpty
  <2>. QED
    BY <1>2, <2>3, Zenon
<1>4. PICK a \in X : TRUE
  BY <1>3
<1>. DEFINE V == X \ {a}
            A == S \ V
            B == S \ X
<1>5. V \in SUBSET X /\ V # X /\ V \in SUBSET S /\ A \in SUBSET S /\ B \in SUBSET S /\ a \in A /\ A \ {a} = B
  BY <1>2, <1>4
<1>6. SumFunctionOnSet(f, S) = SumFunctionOnSet(f, V) + SumFunctionOnSet(f, A)
  BY <1>2, <1>5
<1>7. SumFunctionOnSet(f, X) = f[a] + SumFunctionOnSet(f, V)
  BY <1>0, <1>2, <1>4, SumTakeOut
<1>. HIDE DEF V, A
<1>8. SumFunctionOnSet(f, A) = f[a] + SumFunctionOnSet(f, B)
  BY <1>0, <1>5, SumTakeOut
<1>9. f[a] \in Int /\ SumFunctionOnSet(f, V) \in Int /\ SumFunctionOnSet(f, B) \in Int
  BY <1>0, <1>2, <1>4, <1>5
<1>10. ~ (SumFunctionOnSet(f, S) = SumFunctionOnSet(f, X) + SumFunctionOnSet(f, B))
  BY <1>2
<1>. HIDE DEF B, P
<1>. QED
  BY <1>6, <1>7, <1>8, <1>9, <1>10

\* The sum of naturals is a natural, and no value is greater.
LEMMA SumNat ==
  ASSUME NEW S, IsFiniteSet(S), NEW f, \A x \in S : f[x] \in Nat
  PROVE  SumFunctionOnSet(f, S) \in Nat /\ \A a \in S : f[a] <= SumFunctionOnSet(f, S)
<1>. DEFINE C == {T \in SUBSET S : SumFunctionOnSet(f, T) \notin Nat}
<1>1. C = {}
  <2>. SUFFICES ASSUME C # {} PROVE FALSE
    OBVIOUS
  <2>1. PICK X \in C : \A Y \in C : Y \subseteq X => Y = X
    <3>1. C \in SUBSET SUBSET S
      OBVIOUS
    <3>. HIDE DEF C
    <3>. QED
      BY <3>1, MinimalSubset
  <2>2. IsFiniteSet(X)
    BY FS_Subset
  <2>3. X # {}
    BY SumEmpty
  <2>4. Pick(X) \in X
    BY <2>3, Picked
  <2>5. SumFunctionOnSet(f, X \ {Pick(X)}) \in Nat
    BY <2>1, <2>4
  <2>. QED
    BY <2>2, <2>3, <2>4, <2>5, SumStep
<1>2. \A T \in SUBSET S : SumFunctionOnSet(f, T) \in Nat
  BY <1>1
<1>3. ASSUME NEW a \in S PROVE f[a] <= SumFunctionOnSet(f, S)
  <2>1. SumFunctionOnSet(f, S \ {a}) \in Nat
    BY <1>2
  <2>2. SumFunctionOnSet(f, S) = f[a] + SumFunctionOnSet(f, S \ {a})
    BY SumTakeOut
  <2>. QED
    BY <2>1, <2>2
<1>. QED
  BY <1>2, <1>3

\* A sum of zeros.
LEMMA SumZero ==
  ASSUME NEW S, IsFiniteSet(S), NEW f, \A x \in S : f[x] = 0
  PROVE  SumFunctionOnSet(f, S) = 0
<1>. DEFINE C == {T \in SUBSET S : SumFunctionOnSet(f, T) # 0}
<1>. SUFFICES ASSUME C # {} PROVE FALSE
  BY S \in SUBSET S
<1>1. PICK X \in C : \A Y \in C : Y \subseteq X => Y = X
  <2>1. C \in SUBSET SUBSET S
    OBVIOUS
  <2>. HIDE DEF C
  <2>. QED
    BY <2>1, MinimalSubset
<1>2. IsFiniteSet(X)
  BY FS_Subset
<1>3. X # {}
  BY SumEmpty
<1>4. Pick(X) \in X /\ f[Pick(X)] = 0
  BY <1>3, Picked
<1>5. SumFunctionOnSet(f, X \ {Pick(X)}) = 0
  BY <1>1, <1>4
<1>. QED
  BY <1>2, <1>3, <1>4, <1>5, SumStep
-----------------------------------------------------------------------------
\* R orders the elements of S in a line.
LineOn(R, S) ==
  /\ \A a \in S : <<a, a>> \notin R
  /\ \A a, b \in S : a # b => <<a, b>> \in R \/ <<b, a>> \in R
  /\ \A a, b, c \in S : <<a, b>> \in R /\ <<b, c>> \in R => <<a, c>> \in R

\* Those before a in S, and those with fewer than k before them.
Before(R, S, a) == {b \in S : <<b, a>> \in R}

FirstOf(R, S, k) == {a \in S : Cardinality(Before(R, S, a)) < k}

\* A finite line has a last element.
LEMMA LastInLine ==
  ASSUME NEW S, IsFiniteSet(S), S # {}, NEW R, LineOn(R, S)
  PROVE  \E m \in S : \A b \in S : <<m, b>> \notin R
<1>. DEFINE After(a) == {b \in S : <<a, b>> \in R}
            C == {After(a) : a \in S}
<1>1. C \in SUBSET SUBSET S /\ C # {}
  BY Zenon
<1>2. PICK X \in C : \A Y \in C : Y \subseteq X => Y = X
  <2>. HIDE DEF C
  <2>. QED
    BY <1>1, MinimalSubset
<1>3. PICK m \in S : X = After(m)
  BY <1>2
<1>4. ASSUME NEW b \in S, <<m, b>> \in R
      PROVE  FALSE
  <2>1. After(b) \in C /\ After(b) \subseteq After(m)
    BY <1>4 DEF LineOn
  <2>2. b \in After(m) /\ b \notin After(b)
    BY <1>4 DEF LineOn
  <2>. QED
    BY <1>2, <1>3, <2>1, <2>2, Zenon
<1>. QED
  BY <1>4

\* The first k of a finite line are k, or all.
LEMMA FirstCount ==
  ASSUME NEW S, IsFiniteSet(S), NEW R, LineOn(R, S), NEW k \in Nat
  PROVE  /\ IsFiniteSet(FirstOf(R, S, k))
         /\ Cardinality(S) <= k => Cardinality(FirstOf(R, S, k)) = Cardinality(S)
         /\ k <= Cardinality(S) => Cardinality(FirstOf(R, S, k)) = k
<1>. DEFINE P(T) == /\ Cardinality(T) <= k => Cardinality(FirstOf(R, T, k)) = Cardinality(T)
                    /\ k <= Cardinality(T) => Cardinality(FirstOf(R, T, k)) = k
            C == {T \in SUBSET S : ~ P(T)}
<1>0. \A T \in SUBSET S : /\ IsFiniteSet(T) /\ Cardinality(T) \in Nat /\ LineOn(R, T)
                          /\ IsFiniteSet(FirstOf(R, T, k))
  <2>. SUFFICES ASSUME NEW T \in SUBSET S
                PROVE  /\ IsFiniteSet(T) /\ Cardinality(T) \in Nat /\ LineOn(R, T)
                       /\ IsFiniteSet(FirstOf(R, T, k))
    OBVIOUS
  <2>1. IsFiniteSet(T) /\ Cardinality(T) \in Nat
    BY FS_Subset, FS_CardinalityType
  <2>2. LineOn(R, T)
    BY DEF LineOn
  <2>3. FirstOf(R, T, k) \subseteq S
    BY DEF FirstOf
  <2>. QED
    BY <2>1, <2>2, <2>3, FS_Subset
<1>. SUFFICES ASSUME C # {} PROVE FALSE
  BY <1>0, S \in SUBSET S
<1>1. PICK X \in C : \A Y \in C : Y \subseteq X => Y = X
  <2>1. C \in SUBSET SUBSET S
    OBVIOUS
  <2>. HIDE DEF C
  <2>. QED
    BY <2>1, MinimalSubset
<1>2. X \in SUBSET S /\ ~ P(X) /\ \A Y \in SUBSET X : Y # X => P(Y)
  BY <1>1
<1>3. X # {}
  <2>1. FirstOf(R, {}, k) = {}
    BY DEF FirstOf
  <2>2. Cardinality({}) = 0
    BY FS_EmptySet
  <2>3. P({})
    BY <2>1, <2>2
  <2>. QED
    BY <1>2, <2>3, Zenon
<1>. HIDE DEF C, P
<1>4. PICK m \in X : \A b \in X : <<m, b>> \notin R
  BY <1>0, <1>2, <1>3, LastInLine, Zenon
<1>. DEFINE V == X \ {m}
<1>5. V \in SUBSET X /\ V # X /\ V \in SUBSET S /\ m \notin V /\ X = V \cup {m}
  BY <1>2, <1>4
<1>6. Cardinality(X) = Cardinality(V) + 1
  BY <1>0, <1>5, FS_AddElement, Zenon
<1>7. \A a \in V : Before(R, X, a) = Before(R, V, a)
  BY <1>4, <1>5 DEF Before
<1>8. Before(R, X, m) = V
  <2>0. LineOn(R, X)
    BY <1>0, <1>2
  <2>1. \A b \in V : <<b, m>> \in R
    BY <1>4, <1>5, <2>0, Zenon DEF LineOn
  <2>2. <<m, m>> \notin R
    BY <1>4
  <2>. QED
    BY <1>5, <2>1, <2>2 DEF Before
<1>. HIDE DEF V
<1>9. Cardinality(V) \in Nat /\ IsFiniteSet(FirstOf(R, V, k)) /\ P(V)
  BY <1>0, <1>2, <1>5
<1>10. CASE Cardinality(V) < k
  <2>1. FirstOf(R, X, k) = FirstOf(R, V, k) \cup {m} /\ m \notin FirstOf(R, V, k)
    BY <1>5, <1>7, <1>8, <1>10 DEF FirstOf
  <2>2. Cardinality(FirstOf(R, X, k)) = Cardinality(FirstOf(R, V, k)) + 1
    BY <1>9, <2>1, FS_AddElement, Zenon
  <2>3. Cardinality(FirstOf(R, V, k)) = Cardinality(V)
    BY <1>9, <1>10 DEF P
  <2>4. P(X)
    BY <1>6, <1>9, <1>10, <2>2, <2>3 DEF P
  <2>. QED
    BY <1>2, <2>4
<1>11. CASE ~ (Cardinality(V) < k)
  <2>1. FirstOf(R, X, k) = FirstOf(R, V, k)
    BY <1>5, <1>7, <1>8, <1>11 DEF FirstOf
  <2>2. Cardinality(FirstOf(R, V, k)) = k
    BY <1>9, <1>11 DEF P
  <2>3. P(X)
    BY <1>6, <1>9, <1>11, <2>1, <2>2 DEF P
  <2>. QED
    BY <1>2, <2>3
<1>. QED
  BY <1>10, <1>11
=============================================================================
