----------------------------- MODULE RuleProofs ------------------------------
(***************************************************************************)
(* What the rules compute, for every catalog, configuration and board:     *)
(* scores of KPIs, weighted means, stages of an account's life; and, for   *)
(* every set of samples, what they argue for and the weights they propose. *)
(*                                                                         *)
(* The rules sum over sets.  A sum is a fold, which the library defines by *)
(* a CHOOSE over the functions that satisfy its equation; that there is    *)
(* one, and only one, is proved here by induction over the subsets of a    *)
(* finite set: among those that are a counterexample there is a smallest   *)
(* (the strict subset ordering is well-founded), and it has none.  From    *)
(* AddsUpExists and AddsUpAgree all else about sums follows by the same    *)
(* induction, in the form of SubsetInduction.                              *)
(***************************************************************************)
EXTENDS HealthRules, OutlookRules, FiniteSetTheorems, SequenceTheorems, WellFoundedInduction, TLAPS

-----------------------------------------------------------------------------
\* Of subsets of a finite set, some one has none of the others within it.
LEMMA SmallestSubset ==
  ASSUME NEW S, IsFiniteSet(S), NEW Bad, Bad \subseteq SUBSET S, Bad # {}
  PROVE  \E T \in Bad : \A U \in Bad : U \subseteq T => U = T
<1>1. Bad \subseteq FiniteSubsetsOf(S)
  BY FS_Subset DEF FiniteSubsetsOf
<1>2. IsWellFoundedOn(StrictSubsetOrdering(S), FiniteSubsetsOf(S))
  BY FS_StrictSubsetOrderingWellFounded
<1>3. PICK T \in Bad : \A U \in Bad : <<U, T>> \notin StrictSubsetOrdering(S)
  BY <1>1, <1>2, WFMin
<1> QED
  BY <1>3 DEF StrictSubsetOrdering

\* Induction over a finite set, for what a set of its subsets has in common.
LEMMA SubsetInduction ==
  ASSUME NEW S, IsFiniteSet(S), NEW Good, {} \in Good,
         \A T \in SUBSET S : T # {} /\ (\A x \in T : T \ {x} \in Good) => T \in Good
  PROVE  S \in Good
<1> DEFINE Bad == (SUBSET S) \ Good
<1> SUFFICES ASSUME S \notin Good PROVE FALSE
  OBVIOUS
<1>1. PICK T \in Bad : \A U \in Bad : U \subseteq T => U = T
  <2>1. Bad \subseteq SUBSET S /\ Bad # {} OBVIOUS
  <2> HIDE DEF Bad
  <2> QED BY <2>1, SmallestSubset
<1>2. T # {} OBVIOUS
<1>3. \A x \in T : T \ {x} \in Good BY <1>1
<1> QED BY <1>2, <1>3

\* The table a sum is read from: what f sums to on every subset of S.
AnyOf(s) == CHOOSE x \in s : TRUE
AddsUp(g, f, S) ==
  g = [s \in SUBSET S |-> IF s = {} THEN 0 ELSE f[AnyOf(s)] + g[s \ {AnyOf(s)}]]

\* The table of one set and that of a subset say the same where both speak.
LEMMA AddsUpAgree ==
  ASSUME NEW S, IsFiniteSet(S), NEW T, T \subseteq S, NEW f, NEW g, NEW h, AddsUp(g, f, S), AddsUp(h, f, T)
  PROVE  \A s \in SUBSET T : g[s] = h[s]
<1> DEFINE Bad == {s \in SUBSET T : g[s] # h[s]}
<1> SUFFICES ASSUME Bad # {} PROVE FALSE
  OBVIOUS
<1>1. PICK s \in Bad : \A U \in Bad : U \subseteq s => U = s
  <2> HIDE DEF Bad
  <2>1. Bad \subseteq SUBSET S BY DEF Bad
  <2> QED BY <2>1, SmallestSubset
<1>2. s # {} BY <1>1 DEF AddsUp
<1>3. AnyOf(s) \in s BY <1>2 DEF AnyOf
<1>4. s \ {AnyOf(s)} \notin Bad BY <1>1, <1>3
<1>5. g[s \ {AnyOf(s)}] = h[s \ {AnyOf(s)}] BY <1>4
<1> QED BY <1>1, <1>2, <1>5 DEF AddsUp

\* Every finite set has its table.
LEMMA AddsUpExists ==
  ASSUME NEW S, IsFiniteSet(S), NEW f
  PROVE  \E g : AddsUp(g, f, S)
<1> DEFINE Bad == {s \in SUBSET S : ~\E g : AddsUp(g, f, s)}
<1> SUFFICES ASSUME Bad # {} PROVE FALSE
  OBVIOUS
<1>1. PICK T \in Bad : \A U \in Bad : U \subseteq T => U = T
  <2> HIDE DEF Bad
  <2>1. Bad \subseteq SUBSET S BY DEF Bad
  <2> QED BY <2>1, SmallestSubset
<1> DEFINE G == [u \in SUBSET T |-> CHOOSE g : AddsUp(g, f, u)]
<1>2. \A u \in SUBSET T : u # T => AddsUp(G[u], f, u)
  <2> TAKE u \in SUBSET T
  <2> HAVE u # T
  <2>1. u \notin Bad BY <1>1
  <2>2. \E g : AddsUp(g, f, u) BY <2>1, Zenon
  <2>3. G[u] = CHOOSE g : AddsUp(g, f, u) OBVIOUS
  <2> HIDE DEF G
  <2> QED BY <2>2, <2>3, Zenon
<1>3. \A u \in SUBSET T : IsFiniteSet(u) BY <1>1, FS_Subset
<1> HIDE DEF G, Bad
<1>4. \A u \in SUBSET T, v \in SUBSET T : u # T /\ v \subseteq u => G[u][v] = G[v][v]
  <2> SUFFICES ASSUME NEW u \in SUBSET T, NEW v \in SUBSET T, u # T, v \subseteq u
               PROVE  G[u][v] = G[v][v]
    OBVIOUS
  <2>1. IsFiniteSet(u) BY <1>3
  <2>2. AddsUp(G[u], f, u) /\ AddsUp(G[v], f, v) BY <1>2
  <2>3. PICK gu, gv : gu = G[u] /\ gv = G[v] OBVIOUS
  <2>4. AddsUp(gu, f, u) /\ AddsUp(gv, f, v) BY <2>2, <2>3
  <2>5. \A s \in SUBSET v : gu[s] = gv[s] BY <2>1, <2>4, AddsUpAgree
  <2> QED BY <2>3, <2>5
<1> DEFINE g == [s \in SUBSET T |->
                   IF s = {} THEN 0
                   ELSE IF s = T THEN f[AnyOf(T)] + G[T \ {AnyOf(T)}][T \ {AnyOf(T)}] ELSE G[s][s]]
<1>5. g = [s \in SUBSET T |-> g[s]] OBVIOUS
<1>6. g[{}] = 0 OBVIOUS
<1>7. \A s \in SUBSET T : s # {} /\ s # T => g[s] = G[s][s] OBVIOUS
<1>8. T # {} => g[T] = f[AnyOf(T)] + G[T \ {AnyOf(T)}][T \ {AnyOf(T)}] OBVIOUS
<1> HIDE DEF g
<1>9. ASSUME NEW s \in SUBSET T, s # {} PROVE g[s] = f[AnyOf(s)] + g[s \ {AnyOf(s)}]
  <2>1. PICK q : q = AnyOf(s) OBVIOUS
  <2>2. q \in s BY <1>9, <2>1 DEF AnyOf
  <2>3. PICK r \in SUBSET T : r = s \ {q} OBVIOUS
  <2>4. r # T /\ r \subseteq s BY <2>2, <2>3
  <2>5. g[r] = G[r][r]
    <3>1. r = {} => G[r][r] = 0 BY <1>2, <2>4 DEF AddsUp
    <3> QED BY <1>6, <1>7, <2>4, <3>1
  <2>6. CASE s = T BY <1>8, <1>9, <2>1, <2>3, <2>5, <2>6
  <2>7. CASE s # T
    <3>1. AddsUp(G[s], f, s) BY <1>2, <2>7
    <3>2. G[s][s] = f[q] + G[s][r] BY <3>1, <1>9, <2>1, <2>3 DEF AddsUp
    <3>3. G[s][r] = G[r][r] BY <1>4, <2>4, <2>7
    <3> QED BY <1>7, <1>9, <2>1, <2>3, <2>5, <2>7, <3>2, <3>3
  <2> QED BY <2>6, <2>7
<1>10. AddsUp(g, f, T) BY <1>5, <1>6, <1>9 DEF AddsUp
<1> QED BY <1>1, <1>10 DEF Bad

\* The sum of f over S.
Summed(f, S) == MapThenSumSet(LAMBDA x : f[x], S)

\* A sum is what the table says of the whole set.
LEMMA SummedIs ==
  ASSUME NEW S, IsFiniteSet(S), NEW f
  PROVE \E g : AddsUp(g, f, S) /\ Summed(f, S) = g[S]
<1> DEFINE g == CHOOSE h : AddsUp(h, f, S)
<1>1. AddsUp(g, f, S)
  <2> HIDE DEF g
  <2> QED BY AddsUpExists DEF g
<1>2. Summed(f, S) = g[S]
  BY Zenon DEF Summed, MapThenSumSet, MapThenFoldSet, AddsUp, AnyOf
<1> QED BY <1>1, <1>2

\* Functions alike on a set have the same sum over it.
LEMMA SumSame ==
  ASSUME NEW S, IsFiniteSet(S), NEW f, NEW g, \A x \in S : f[x] = g[x]
  PROVE  Summed(f, S) = Summed(g, S)
<1>1. PICK a : AddsUp(a, f, S) /\ Summed(f, S) = a[S] BY SummedIs
<1>2. PICK b : AddsUp(b, g, S) /\ Summed(g, S) = b[S] BY SummedIs
<1>3. \A s \in SUBSET S : s # {} => f[AnyOf(s)] = g[AnyOf(s)] BY DEF AnyOf
<1>4. AddsUp(b, f, S) 
  <2> DEFINE u(s) == IF s = {} THEN 0 ELSE f[AnyOf(s)] + b[s \ {AnyOf(s)}]
             v(s) == IF s = {} THEN 0 ELSE g[AnyOf(s)] + b[s \ {AnyOf(s)}]
  <2>1. \A s \in SUBSET S : u(s) = v(s) BY <1>3
  <2>2. b = [s \in SUBSET S |-> v(s)] BY <1>2 DEF AddsUp
  <2>3. b = [s \in SUBSET S |-> u(s)]
    <3> HIDE DEF u, v
    <3> QED BY <2>1, <2>2
  <2> QED BY <2>3 DEF AddsUp
<1>5. a[S] = b[S]
  <2>1. S \in SUBSET S OBVIOUS
  <2> QED BY <1>1, <1>4, <2>1, AddsUpAgree
<1> QED BY <1>1, <1>2, <1>5

\* Nothing sums to 0.
LEMMA SumEmpty == ASSUME NEW f PROVE Summed(f, {}) = 0
<1>1. PICK a : AddsUp(a, f, {}) /\ Summed(f, {}) = a[{}] BY SummedIs, FS_EmptySet
<1> QED BY <1>1 DEF AddsUp

\* The sum of a part of S is in the same table as that of S.
LEMMA SumPart ==
  ASSUME NEW S, IsFiniteSet(S), NEW f, NEW a, AddsUp(a, f, S)
  PROVE  \A T \in SUBSET S : Summed(f, T) = a[T]
<1> TAKE T \in SUBSET S
<1>1. IsFiniteSet(T) BY FS_Subset
<1>2. PICK b : AddsUp(b, f, T) /\ Summed(f, T) = b[T] BY <1>1, SummedIs
<1>3. \A s \in SUBSET T : a[s] = b[s] BY <1>2, AddsUpAgree
<1> QED BY <1>2, <1>3

\* A sum of integers is one, and any member may be taken out of it first.
LEMMA SumStep ==
  ASSUME NEW S, IsFiniteSet(S), NEW f, \A x \in S : f[x] \in Int
  PROVE  /\ Summed(f, S) \in Int
         /\ \A x \in S : Summed(f, S) = f[x] + Summed(f, S \ {x})
<1>1. PICK a : AddsUp(a, f, S) BY SummedIs
<1>2. \A T \in SUBSET S : Summed(f, T) = a[T] BY <1>1, SumPart
<1>3. \A T \in SUBSET S : T # {} => a[T] = f[AnyOf(T)] + a[T \ {AnyOf(T)}] /\ AnyOf(T) \in T
  BY <1>1 DEF AddsUp, AnyOf
<1>4. a[{}] = 0 BY <1>1 DEF AddsUp
<1>5. \A T \in SUBSET S : a[T] \in Int
  <2> TAKE R \in SUBSET S
  <2> DEFINE Good == {T \in SUBSET R : a[T] \in Int}
  <2>1. {} \in Good BY <1>4
  <2>2. ASSUME NEW T \in SUBSET R, T # {}, \A x \in T : T \ {x} \in Good
        PROVE  T \in Good
    <3>1. AnyOf(T) \in T /\ a[T] = f[AnyOf(T)] + a[T \ {AnyOf(T)}] BY <1>3, <2>2
    <3>2. a[T \ {AnyOf(T)}] \in Int BY <2>2, <3>1
    <3>3. f[AnyOf(T)] \in Int BY <3>1
    <3> QED BY <3>1, <3>2, <3>3
  <2>3. IsFiniteSet(R) BY FS_Subset
  <2>4. R \in Good
    <3> HIDE DEF Good
    <3> QED BY <2>1, <2>2, <2>3, SubsetInduction
  <2> QED BY <2>4
<1> DEFINE Good == {T \in SUBSET S : \A x \in T : a[T] = f[x] + a[T \ {x}]}
<1>6a. {} \in Good OBVIOUS
<1>6. ASSUME NEW T \in SUBSET S, T # {}, \A x \in T : T \ {x} \in Good
      PROVE  T \in Good
  <2>1. PICK y : y = AnyOf(T) OBVIOUS
  <2>2. y \in T /\ a[T] = f[y] + a[T \ {y}] BY <1>3, <1>6, <2>1
  <2>4. ASSUME NEW x \in T, x # y PROVE a[T] = f[x] + a[T \ {x}]
    <3>1. T \ {x} \in Good /\ T \ {y} \in Good BY <1>6, <2>2
    <3>2. PICK w \in Int : w = a[(T \ {x}) \ {y}] BY <1>5
    <3>3. a[T \ {x}] = f[y] + w BY <3>1, <3>2, <2>2, <2>4
    <3>4. (T \ {x}) \ {y} = (T \ {y}) \ {x} OBVIOUS
    <3>5. a[T \ {y}] = f[x] + w BY <3>1, <3>2, <3>4, <2>2, <2>4
    <3>6. f[x] \in Int /\ f[y] \in Int BY <2>2
    <3> QED BY <2>2, <3>3, <3>5, <3>6
  <2>5. \A x \in T : a[T] = f[x] + a[T \ {x}] BY <2>2, <2>4
  <2> QED BY <2>5
<1>7. S \in Good
  <2> HIDE DEF Good
  <2> QED BY <1>6a, <1>6, SubsetInduction
<1> QED BY <1>2, <1>5, <1>7

\* A sum follows what it is made of.
LEMMA SumAtMost ==
  ASSUME NEW S, IsFiniteSet(S), NEW f, NEW g,
         \A x \in S : f[x] \in Int /\ g[x] \in Int /\ f[x] <= g[x]
  PROVE  Summed(f, S) <= Summed(g, S)
<1> DEFINE Good == {T \in SUBSET S : Summed(f, T) <= Summed(g, T)}
<1>1. {} \in Good BY SumEmpty
<1>2. ASSUME NEW T \in SUBSET S, T # {}, \A x \in T : T \ {x} \in Good
      PROVE  T \in Good
  <2>1. PICK x \in T : TRUE BY <1>2
  <2>2. IsFiniteSet(T) /\ IsFiniteSet(T \ {x}) BY FS_Subset
  <2>3. Summed(f, T) = f[x] + Summed(f, T \ {x}) /\ Summed(f, T \ {x}) \in Int BY <2>2, SumStep
  <2>4. Summed(g, T) = g[x] + Summed(g, T \ {x}) /\ Summed(g, T \ {x}) \in Int BY <2>2, SumStep
  <2>5. Summed(f, T \ {x}) <= Summed(g, T \ {x}) BY <1>2
  <2> QED BY <2>3, <2>4, <2>5
<1>3. S \in Good
  <2> HIDE DEF Good
  <2> QED BY <1>1, <1>2, SubsetInduction
<1> QED BY <1>3

\* A factor may be taken out of a sum.
LEMMA SumScaled ==
  ASSUME NEW S, IsFiniteSet(S), NEW f, NEW g, NEW k \in Int,
         \A x \in S : f[x] \in Int /\ g[x] = k * f[x]
  PROVE  Summed(g, S) = k * Summed(f, S)
<1> DEFINE Good == {T \in SUBSET S : Summed(g, T) = k * Summed(f, T)}
<1>1. {} \in Good BY SumEmpty
<1>2. ASSUME NEW T \in SUBSET S, T # {}, \A x \in T : T \ {x} \in Good
      PROVE  T \in Good
  <2>1. PICK x \in T : TRUE BY <1>2
  <2>2. IsFiniteSet(T) /\ IsFiniteSet(T \ {x}) BY FS_Subset
  <2>3. Summed(f, T) = f[x] + Summed(f, T \ {x}) /\ Summed(f, T \ {x}) \in Int BY <2>2, SumStep
  <2>4. \A y \in T : g[y] \in Int OBVIOUS
  <2>5. Summed(g, T) = g[x] + Summed(g, T \ {x}) BY <2>2, <2>4, SumStep
  <2>6. Summed(g, T \ {x}) = k * Summed(f, T \ {x}) BY <1>2
  <2>7. PICK a \in Int, b \in Int : a = f[x] /\ b = Summed(f, T \ {x}) BY <2>3
  <2>8. k * (a + b) = k * a + k * b OBVIOUS
  <2> QED BY <2>3, <2>5, <2>6, <2>7, <2>8
<1>3. S \in Good
  <2> HIDE DEF Good
  <2> QED BY <1>1, <1>2, SubsetInduction
<1> QED BY <1>3

\* A sum of naturals is one, no less than any of them.
LEMMA SumNat ==
  ASSUME NEW S, IsFiniteSet(S), NEW f, \A x \in S : f[x] \in Nat
  PROVE  /\ Summed(f, S) \in Nat
         /\ \A x \in S : f[x] <= Summed(f, S)
         /\ (\A x \in S : f[x] = 0) => Summed(f, S) = 0
<1> DEFINE zero == [x \in S |-> 0]
<1>1. \A T \in SUBSET S : Summed(zero, T) = 0
  <2> TAKE T \in SUBSET S
  <2>1. IsFiniteSet(T) BY FS_Subset
  <2>2. \A x \in T : f[x] \in Int /\ zero[x] = 0 * f[x] OBVIOUS
  <2>3. Summed(zero, T) = 0 * Summed(f, T)
    <3> HIDE DEF zero
    <3> QED BY <2>1, <2>2, SumScaled
  <2>4. Summed(f, T) \in Int BY <2>1, SumStep
  <2> QED BY <2>3, <2>4
<1>2. \A T \in SUBSET S : Summed(f, T) \in Nat
  <2> TAKE T \in SUBSET S
  <2>1. IsFiniteSet(T) BY FS_Subset
  <2>2. \A x \in T : f[x] \in Int /\ zero[x] \in Int /\ zero[x] <= f[x] OBVIOUS
  <2>3. Summed(zero, T) <= Summed(f, T)
    <3> HIDE DEF zero
    <3> QED BY <2>1, <2>2, SumAtMost
  <2>4. Summed(f, T) \in Int BY <2>1, SumStep
  <2> QED BY <1>1, <2>3, <2>4
<1>3. \A x \in S : f[x] <= Summed(f, S)
  <2> TAKE x \in S
  <2>1. Summed(f, S) = f[x] + Summed(f, S \ {x}) BY SumStep
  <2>2. Summed(f, S \ {x}) \in Nat BY <1>2
  <2> QED BY <2>1, <2>2
<1>4. ASSUME \A x \in S : f[x] = 0 PROVE Summed(f, S) = 0
  <2>1. \A x \in S : f[x] = zero[x] BY <1>4
  <2>2. Summed(f, S) = Summed(zero, S)
    <3> HIDE DEF zero
    <3> QED BY <2>1, SumSame
  <2> QED BY <1>1, <2>2
<1>5. Summed(f, S) \in Nat BY <1>2
<1> QED BY <1>3, <1>4, <1>5

\* Division rounds down.
LEMMA DivFloor ==
  ASSUME NEW v \in Int, NEW d \in Int, d > 0
  PROVE  /\ v \div d \in Int
         /\ \A a \in Int : (a * d <= v) <=> (a <= v \div d)
<1>1. v \div d \in Int OBVIOUS
<1>2. PICK q \in Int : q = v \div d BY <1>1
<1>3. q * d <= v /\ v < q * d + d BY <1>2
<1>4. ASSUME NEW a \in Int, a <= q PROVE a * d <= v
  <2>1. a * d <= q * d BY <1>4
  <2> QED BY <1>3, <2>1
<1>5. ASSUME NEW a \in Int, ~(a <= q) PROVE ~(a * d <= v)
  <2>1. (q + 1) * d <= a * d BY <1>5
  <2>2. (q + 1) * d = q * d + d OBVIOUS
  <2> QED BY <1>3, <2>1, <2>2
<1> QED BY <1>2, <1>4, <1>5

-----------------------------------------------------------------------------
\* A mean over S, with the table of its products.
Products(value, weight, S) == [x \in S |-> value[x] * weight[x]]

\* A weighted mean is a quotient of two sums.
LEMMA MeanIs ==
  ASSUME NEW S, IsFiniteSet(S), NEW value, NEW weight, weight \in [S -> Nat],
         \A x \in S : value[x] \in Int
  PROVE  Mean(value, weight) =
           IF Summed(weight, S) = 0 THEN 0
           ELSE Summed(Products(value, weight, S), S) \div Summed(weight, S)
<1> DEFINE prod == Products(value, weight, S)
           t(g) == g = [s \in SUBSET S |-> IF s = {} THEN 0
                          ELSE value[AnyOf(s)] * weight[AnyOf(s)] + g[s \ {AnyOf(s)}]]
           sum == CHOOSE g : t(g)
<1>1. \A g : t(g) <=> AddsUp(g, prod, S)
  <2> TAKE g
  <2> DEFINE u(s) == IF s = {} THEN 0 ELSE value[AnyOf(s)] * weight[AnyOf(s)] + g[s \ {AnyOf(s)}]
             v(s) == IF s = {} THEN 0 ELSE prod[AnyOf(s)] + g[s \ {AnyOf(s)}]
  <2>1. \A s \in SUBSET S : u(s) = v(s)
    <3> SUFFICES ASSUME NEW s \in SUBSET S, s # {} PROVE u(s) = v(s)
      OBVIOUS
    <3>1. PICK x \in S : x = AnyOf(s) BY DEF AnyOf
    <3>2. prod[x] = value[x] * weight[x] BY DEF Products
    <3> QED BY <3>1, <3>2
  <2>2. [s \in SUBSET S |-> u(s)] = [s \in SUBSET S |-> v(s)]
    <3> HIDE DEF u, v
    <3> QED BY <2>1
  <2> QED BY <2>2 DEF AddsUp
<1>2. PICK a : AddsUp(a, prod, S) /\ Summed(prod, S) = a[S] BY SummedIs
<1>3. t(sum)
  <2>1. t(a) BY <1>1, <1>2
  <2> HIDE DEF t
  <2> QED BY <2>1
<1>4. sum[S] = Summed(prod, S)
  <2>1. AddsUp(sum, prod, S)
    <3> HIDE DEF t, sum
    <3> QED BY <1>1, <1>3
  <2>2. S \in SUBSET S OBVIOUS
  <2> HIDE DEF sum, prod
  <2> QED BY <1>2, <2>1, <2>2, AddsUpAgree
<1>5. DOMAIN weight = S OBVIOUS
<1>6. MapThenSumSet(LAMBDA x : value[x] * weight[x], S) = sum[S]
  BY Zenon DEF MapThenSumSet, MapThenFoldSet, AnyOf
<1>7. Mean(value, weight) = IF Summed(weight, S) = 0 THEN 0 ELSE sum[S] \div Summed(weight, S)
  <2> HIDE DEF sum
  <2> QED BY <1>5, <1>6, Zenon DEF Mean, Summed
<1> QED BY <1>4, <1>7

\* It is an integer, 0 when nothing has weight, and rounded down.
LEMMA MeanInt ==
  ASSUME NEW S, IsFiniteSet(S), NEW value, NEW weight, weight \in [S -> Nat],
         \A x \in S : value[x] \in Int
  PROVE  /\ Mean(value, weight) \in Int
         /\ (\A x \in S : weight[x] = 0) => Mean(value, weight) = 0
         /\ \A a \in Int : (\E x \in S : weight[x] > 0) =>
              (a * Summed(weight, S) <= Summed(Products(value, weight, S), S) <=> a <= Mean(value, weight))
<1> DEFINE w == Summed(weight, S)
           v == Summed(Products(value, weight, S), S)
<1>1. w \in Nat /\ (\A x \in S : weight[x] <= w) /\ ((\A x \in S : weight[x] = 0) => w = 0)
  BY SumNat
<1>2. v \in Int
  <2>1. \A x \in S : Products(value, weight, S)[x] \in Int
    <3> TAKE x \in S
    <3>1. value[x] \in Int /\ weight[x] \in Int OBVIOUS
    <3>2. Products(value, weight, S)[x] = value[x] * weight[x] BY DEF Products
    <3> QED BY <3>1, <3>2
  <2> QED BY <2>1, SumStep
<1>3. Mean(value, weight) = IF w = 0 THEN 0 ELSE v \div w BY MeanIs
<1> HIDE DEF w, v
<1>4. w # 0 => v \div w \in Int /\ \A a \in Int : (a * w <= v) <=> (a <= v \div w)
  BY <1>1, <1>2, DivFloor
<1>5. (\E x \in S : weight[x] > 0) => w # 0
  <2> SUFFICES ASSUME NEW x \in S, weight[x] > 0 PROVE w # 0
    OBVIOUS
  <2>1. weight[x] \in Nat OBVIOUS
  <2> QED BY <1>1, <2>1
<1> QED BY <1>1, <1>3, <1>4, <1>5 DEF w, v

\* What is weighed lies on both sides of the mean.
LEMMA MeanWithin ==
  ASSUME NEW S, IsFiniteSet(S), NEW value, NEW weight, weight \in [S -> Nat],
         \A x \in S : value[x] \in Int, \E x \in S : weight[x] > 0
  PROVE  /\ \E x \in S : weight[x] > 0 /\ value[x] <= Mean(value, weight)
         /\ \E x \in S : weight[x] > 0 /\ value[x] >= Mean(value, weight)
<1>1. PICK m \in Int : m = Mean(value, weight) BY MeanInt
<1> DEFINE w == Summed(weight, S)
           v == Summed(Products(value, weight, S), S)
           scaled(k) == [x \in S |-> k * weight[x]]
<1>2. \A a \in Int : (a * w <= v) <=> (a <= m) BY <1>1, MeanInt
<1>3. w \in Nat /\ \A x \in S : weight[x] <= w BY SumNat
<1>4. \A k \in Int : Summed(scaled(k), S) = k * w
  <2> TAKE k \in Int
  <2>1. \A x \in S : weight[x] \in Int /\ scaled(k)[x] = k * weight[x] OBVIOUS
  <2> QED BY <2>1, SumScaled
<1>5. \A x \in S : /\ Products(value, weight, S)[x] = value[x] * weight[x]
                   /\ Products(value, weight, S)[x] \in Int
  <2> TAKE x \in S
  <2>1. value[x] \in Int /\ weight[x] \in Int OBVIOUS
  <2> QED BY <2>1 DEF Products
<1>6. \A k \in Int : \A x \in S : scaled(k)[x] = k * weight[x] /\ scaled(k)[x] \in Int
  <2> TAKE k \in Int
  <2> TAKE x \in S
  <2>1. weight[x] \in Int OBVIOUS
  <2> QED BY <2>1
<1>7. v \in Int BY <1>5, SumStep
<1>8. \E x \in S : weight[x] > 0 /\ value[x] <= m
  <2> SUFFICES ASSUME \A x \in S : weight[x] > 0 => value[x] > m PROVE FALSE
    OBVIOUS
  <2>1. \A x \in S : scaled(m + 1)[x] <= Products(value, weight, S)[x]
    <3> TAKE x \in S
    <3>1. PICK a \in Int, b \in Nat : a = value[x] /\ b = weight[x] OBVIOUS
    <3>2. b = 0 \/ m + 1 <= a BY <3>1
    <3>3. (m + 1) * b <= a * b BY <3>2
    <3> QED BY <1>5, <1>6, <3>1, <3>3
  <2>2. Summed(scaled(m + 1), S) <= v
    <3> HIDE DEF scaled
    <3> QED BY <2>1, <1>5, <1>6, SumAtMost
  <2>3. (m + 1) * w <= v BY <2>2, <1>4
  <2> QED BY <2>3, <1>2
<1>9. \E x \in S : weight[x] > 0 /\ value[x] >= m
  <2> SUFFICES ASSUME \A x \in S : weight[x] > 0 => value[x] < m PROVE FALSE
    OBVIOUS
  <2>1. \A x \in S : Products(value, weight, S)[x] <= scaled(m - 1)[x]
    <3> TAKE x \in S
    <3>1. PICK a \in Int, b \in Nat : a = value[x] /\ b = weight[x] OBVIOUS
    <3>2. b = 0 \/ a <= m - 1 BY <3>1
    <3>3. a * b <= (m - 1) * b BY <3>2
    <3>4. m - 1 \in Int OBVIOUS
    <3>5. scaled(m - 1)[x] = (m - 1) * b BY <1>6, <3>1, <3>4
    <3>6. Products(value, weight, S)[x] = a * b BY <1>5, <3>1
    <3> HIDE DEF scaled
    <3> QED BY <3>3, <3>5, <3>6
  <2>2. v <= Summed(scaled(m - 1), S)
    <3>1. PICK k \in Int : k = m - 1 OBVIOUS
    <3>2. PICK f, g : f = Products(value, weight, S) /\ g = scaled(k) OBVIOUS
    <3> HIDE DEF scaled
    <3>3. \A x \in S : f[x] \in Int /\ g[x] \in Int BY <1>5, <1>6, <3>1, <3>2
    <3>4. \A x \in S : f[x] <= g[x] BY <2>1, <3>1, <3>2
    <3>5. Summed(f, S) <= Summed(g, S) BY <3>3, <3>4, SumAtMost
    <3> QED BY <3>1, <3>2, <3>5
  <2>3. v <= (m - 1) * w BY <2>2, <1>4
  <2>4. m * w <= v BY <1>2
  <2>5. w > 0 BY <1>3
  <2>6. (m - 1) * w = m * w - w BY <1>3
  <2>7. m * w \in Int BY <1>3
  <2> HIDE DEF w, v
  <2> QED BY <2>3, <2>4, <2>5, <2>6, <2>7, <1>3, <1>7
<1> QED BY <1>1, <1>8, <1>9

\* A value that is not weighed does not count, and a higher one lowers nothing.
LEMMA MeanMonotone ==
  ASSUME NEW S, IsFiniteSet(S), NEW value, NEW other, NEW weight, weight \in [S -> Nat],
         \A x \in S : value[x] \in Int /\ other[x] \in Int,
         \A x \in S : weight[x] > 0 => value[x] <= other[x]
  PROVE  Mean(value, weight) <= Mean(other, weight)
<1> DEFINE w == Summed(weight, S)
           vs == Products(value, weight, S)
           os == Products(other, weight, S)
<1>1. PICK m \in Int : m = Mean(value, weight) BY MeanInt
<1>2. PICK n \in Int : n = Mean(other, weight) BY MeanInt
<1>3. CASE \A x \in S : weight[x] = 0 BY <1>1, <1>2, <1>3, MeanInt
<1>4. CASE \E x \in S : weight[x] > 0
  <2>1. m * w <= Summed(vs, S) BY <1>1, <1>4, MeanInt
  <2>2. m * w <= Summed(os, S) => m <= n BY <1>2, <1>4, MeanInt
  <2>3. \A x \in S : vs[x] \in Int /\ os[x] \in Int /\ vs[x] <= os[x]
    <3> TAKE x \in S
    <3>1. PICK a \in Int, b \in Int, c \in Nat : a = value[x] /\ b = other[x] /\ c = weight[x] OBVIOUS
    <3>2. vs[x] = a * c /\ os[x] = b * c BY <3>1 DEF Products
    <3>3. c = 0 \/ a <= b BY <3>1
    <3>4. a * c <= b * c BY <3>3
    <3> QED BY <3>2, <3>4
  <2>4. Summed(vs, S) <= Summed(os, S) /\ Summed(vs, S) \in Int /\ Summed(os, S) \in Int
    <3> HIDE DEF vs, os
    <3> QED BY <2>3, SumAtMost, SumStep
  <2>5. m * w \in Int
    <3>1. w \in Nat BY SumNat
    <3> QED BY <3>1
  <2> HIDE DEF vs, os, w
  <2> QED BY <1>1, <1>2, <2>1, <2>2, <2>4, <2>5
<1>5. (\A x \in S : weight[x] = 0) \/ (\E x \in S : weight[x] > 0)
  <2>1. \A x \in S : weight[x] \in Nat OBVIOUS
  <2> QED BY <2>1
<1> QED BY <1>3, <1>4, <1>5

-----------------------------------------------------------------------------
\* Between two bounds a score stays between those of the bounds, and rises with the value.
LEMMA PartBetween ==
  ASSUME NEW v \in Int, NEW from \in Int, NEW to \in Int, NEW low \in Int, NEW high \in Int,
         from <= v, v < to, low <= high
  PROVE  /\ Part(v, from, to, low, high) \in Int
         /\ low <= Part(v, from, to, low, high) /\ Part(v, from, to, low, high) <= high
         /\ low < high => Part(v, from, to, low, high) < high
         /\ v + 1 < to => Part(v, from, to, low, high) <= Part(v + 1, from, to, low, high)
<1> DEFINE h == high - low
           d == to - from
           n(x) == h * (x - from)
<1>1. d \in Int /\ d > 0 /\ h \in Nat OBVIOUS
<1>2. \A x \in Int : n(x) \in Int BY <1>1
<1>3. n(v) >= 0 BY <1>1
<1>4. h > 0 => n(v) < h * d BY <1>1
<1>4a. h = 0 => n(v) = 0 BY <1>1
<1>5. n(v) <= n(v + 1) BY <1>1
<1>6. \A x \in Int : Part(x, from, to, low, high) = low + n(x) \div d BY DEF Part
<1> HIDE DEF n, d, h
<1>7. n(v) \div d \in Int /\ \A a \in Int : (a * d <= n(v)) <=> (a <= n(v) \div d) BY <1>1, <1>2, DivFloor
<1>8. 0 <= n(v) \div d
  <2>1. 0 * d <= n(v) BY <1>1, <1>3
  <2> QED BY <1>7, <2>1
<1>9. h > 0 => ~(h <= n(v) \div d)
  <2> HAVE h > 0
  <2>1. h * d \in Int /\ n(v) \in Int BY <1>1, <1>2
  <2>2. ~(h * d <= n(v)) BY <1>4, <2>1
  <2> QED BY <1>1, <1>7, <2>2
<1>9a. h = 0 => ~(1 <= n(v) \div d)
  <2>1. ~(1 * d <= 0) BY <1>1
  <2> QED BY <1>4a, <1>7, <2>1
<1>10. n(v) \div d <= n(v + 1) \div d
  <2>1. PICK q \in Int : q = n(v) \div d BY <1>7
  <2>2. q * d <= n(v) BY <1>7, <2>1
  <2>3. n(v) \in Int /\ n(v + 1) \in Int /\ q * d \in Int BY <1>1, <1>2
  <2>4. q * d <= n(v + 1) BY <1>5, <2>2, <2>3
  <2>5. \A a \in Int : (a * d <= n(v + 1)) <=> (a <= n(v + 1) \div d) BY <1>1, <2>3, DivFloor
  <2> QED BY <2>1, <2>4, <2>5
<1>11. n(v + 1) \div d \in Int
  <2>1. n(v + 1) \in Int BY <1>2
  <2> QED BY <1>1, <2>1, DivFloor
<1>12. /\ Part(v, from, to, low, high) = low + n(v) \div d
       /\ Part(v + 1, from, to, low, high) = low + n(v + 1) \div d
  <2>1. v + 1 \in Int OBVIOUS
  <2> QED BY <1>6, <2>1
<1>13. PICK q \in Int, r \in Int : q = n(v) \div d /\ r = n(v + 1) \div d BY <1>7, <1>11
<1>14. 0 <= q /\ (h > 0 => ~(h <= q)) /\ (h = 0 => ~(1 <= q)) /\ q <= r BY <1>8, <1>9, <1>9a, <1>10, <1>13
<1>15. Part(v, from, to, low, high) = low + q /\ Part(v + 1, from, to, low, high) = low + r
  BY <1>12, <1>13
<1> QED BY <1>1, <1>14, <1>15 DEF h

\* The bands of a KPI read upwards.
LEMMA BandsScored ==
  ASSUME NEW v \in Int, NEW k, k.worst \in Int, k.risk \in Int, k.target \in Int, k.best \in Int
  PROVE  /\ ScoreBands(v, k) \in 0..Full
         /\ ScoreBands(v, k) <= ScoreBands(v + 1, k)
         /\ k.worst < k.risk /\ k.risk <= k.target /\ k.target <= k.best =>
              /\ v >= k.target => ScoreBands(v, k) >= At70
              /\ v >= k.risk /\ v < k.target => ScoreBands(v, k) >= At50 /\ ScoreBands(v, k) < At70
              /\ v < k.risk => ScoreBands(v, k) < At50
<1>1. /\ At50 \in Int /\ At70 \in Int /\ Full \in Int
      /\ 0 < At50 /\ At50 < At70 /\ At70 <= Full
  BY ThresholdAssumption, BandAssumption DEF At50, At70, Full
<1> DEFINE a(x) == Part(x, k.worst, k.risk, 0, At50)
           b(x) == Part(x, k.risk, k.target, At50, At70)
           c(x) == Part(x, k.target, k.best, At70, Full)
<1>2. \A x \in Int : x > k.worst /\ x < k.risk =>
        /\ a(x) \in Int /\ 0 <= a(x) /\ a(x) < At50 /\ (x + 1 < k.risk => a(x) <= a(x + 1))
  <2> TAKE x \in Int
  <2> HAVE x > k.worst /\ x < k.risk
  <2>1. k.worst <= x /\ 0 <= At50 /\ 0 \in Int BY <1>1
  <2> QED BY <1>1, <2>1, PartBetween
<1>3. \A x \in Int : x >= k.risk /\ x < k.target =>
        /\ b(x) \in Int /\ At50 <= b(x) /\ b(x) < At70 /\ (x + 1 < k.target => b(x) <= b(x + 1))
  <2> TAKE x \in Int
  <2> HAVE x >= k.risk /\ x < k.target
  <2>1. k.risk <= x /\ At50 <= At70 BY <1>1
  <2> QED BY <1>1, <2>1, PartBetween
<1>4. \A x \in Int : x >= k.target /\ x < k.best =>
        /\ c(x) \in Int /\ At70 <= c(x) /\ c(x) <= Full /\ (x + 1 < k.best => c(x) <= c(x + 1))
  <2> TAKE x \in Int
  <2> HAVE x >= k.target /\ x < k.best
  <2>1. k.target <= x BY <1>1
  <2> QED BY <1>1, <2>1, PartBetween
<1>5. \A x : ScoreBands(x, k) = IF x <= k.worst THEN 0 ELSE IF x < k.risk THEN a(x)
                                 ELSE IF x < k.target THEN b(x)
                                 ELSE IF x >= k.best THEN Full ELSE c(x)
  BY DEF ScoreBands
<1> HIDE DEF a, b, c
<1>6. \A x \in Int : ScoreBands(x, k) \in 0..Full BY <1>1, <1>2, <1>3, <1>4, <1>5
<1>7. \A x \in Int : x > k.worst /\ x >= k.risk => ScoreBands(x, k) >= At50
  BY <1>1, <1>3, <1>4, <1>5
<1>8. \A x \in Int : x > k.worst /\ x >= k.risk /\ x >= k.target => ScoreBands(x, k) >= At70
  BY <1>1, <1>4, <1>5
<1>9. ScoreBands(v, k) <= ScoreBands(v + 1, k)
  <2>1. PICK w \in Int : w = v + 1 OBVIOUS
  <2>2. ScoreBands(w, k) \in Int /\ 0 <= ScoreBands(w, k) BY <1>1, <1>6
  <2>3. CASE v <= k.worst BY <1>5, <2>1, <2>2, <2>3
  <2>4. CASE v > k.worst /\ v < k.risk
    <3>1. ScoreBands(v, k) = a(v) BY <1>5, <2>4
    <3>2. CASE w < k.risk BY <1>2, <1>5, <2>1, <2>4, <3>1, <3>2
    <3>3. CASE w >= k.risk BY <1>1, <1>2, <1>7, <2>1, <2>2, <2>4, <3>1, <3>3
    <3> QED BY <3>2, <3>3, <2>1
  <2>5. CASE v > k.worst /\ v >= k.risk /\ v < k.target
    <3>1. ScoreBands(v, k) = b(v) BY <1>5, <2>5
    <3>2. CASE w < k.target BY <1>3, <1>5, <2>1, <2>5, <3>1, <3>2
    <3>3. CASE w >= k.target BY <1>1, <1>3, <1>8, <2>1, <2>2, <2>5, <3>1, <3>3
    <3> QED BY <3>2, <3>3, <2>1
  <2>6. CASE v > k.worst /\ v >= k.risk /\ v >= k.target BY <1>1, <1>4, <1>5, <2>1, <2>6
  <2> QED BY <2>1, <2>3, <2>4, <2>5, <2>6
<1>10. v < k.risk => ScoreBands(v, k) < At50 BY <1>1, <1>2, <1>5
<1>11. v > k.worst /\ v >= k.risk /\ v < k.target => ScoreBands(v, k) < At70 BY <1>1, <1>3, <1>5
<1> QED BY <1>6, <1>7, <1>8, <1>9, <1>10, <1>11

-----------------------------------------------------------------------------
\* A KPI of the catalog.
KpiOf ==
  [higher : BOOLEAN, below : BOOLEAN, ranges : BOOLEAN, worst : Int, risk : Int, target : Int, best : Int]

\* Onto the scale and in the order there was.
LEMMA OnScaleIs ==
  ASSUME NEW x \in Int, NEW y \in Int, x <= y
  PROVE  /\ OnScale(x) \in 0..Full /\ OnScale(y) \in 0..Full
         /\ OnScale(x) <= OnScale(y) /\ OnScale(y) <= Full
<1>1. /\ OnScale(x) = IF x < 0 THEN 0 ELSE IF x > 10000 THEN 10000 ELSE x
      /\ OnScale(y) = IF y < 0 THEN 0 ELSE IF y > 10000 THEN 10000 ELSE y
      /\ Full = 10000
  BY DEF OnScale, Full
<1>2. PICK a \in Int : a = OnScale(x) BY <1>1
<1>3. PICK b \in Int : b = OnScale(y) BY <1>1
<1>4. 0 <= a /\ a <= 10000 BY <1>1, <1>2
<1>5. 0 <= b /\ b <= 10000 BY <1>1, <1>3
<1>6. a <= b BY <1>1, <1>2, <1>3
<1>7. OnScale(x) \in 0..Full BY <1>1, <1>2, <1>4
<1>8. OnScale(y) \in 0..Full /\ OnScale(y) <= Full BY <1>1, <1>3, <1>5
<1> QED BY <1>2, <1>3, <1>6, <1>7, <1>8

\* The ratio to the target follows the value, the way its operator points.
LEMMA RatioScored ==
  ASSUME NEW v \in Int, NEW k \in KpiOf, k.target > 0
  PROVE  /\ OnScale(ScoreRatio(v, k)) \in 0..Full
         /\ ~k.below => OnScale(ScoreRatio(v, k)) <= OnScale(ScoreRatio(v + 1, k))
         /\ k.below => OnScale(ScoreRatio(v + 1, k)) <= OnScale(ScoreRatio(v, k))
<1>1. k.target \in Int /\ k.target > 0 /\ k.below \in BOOLEAN /\ Full = 10000 BY DEF KpiOf, Full
<1>2. CASE ~k.below
  <2>1. PICK f \in Int, g \in Int : f = Full * v /\ g = Full * (v + 1) /\ f <= g BY <1>1
  <2>2. ScoreRatio(v, k) = f \div k.target /\ ScoreRatio(v + 1, k) = g \div k.target
    BY <1>2, <2>1 DEF ScoreRatio
  <2>3. f \div k.target \in Int /\ g \div k.target \in Int BY <1>1, <2>1, DivFloor
  <2>4. PICK q \in Int : q = f \div k.target BY <2>3
  <2>5. q * k.target <= f BY <1>1, <2>1, <2>4, DivFloor
  <2>6. q * k.target <= g
    <3>1. q * k.target \in Int BY <1>1
    <3> QED BY <2>1, <2>5, <3>1
  <2>7. q <= g \div k.target BY <1>1, <2>1, <2>6, DivFloor
  <2>8. OnScale(f \div k.target) \in 0..Full /\ OnScale(f \div k.target) <= OnScale(g \div k.target)
    BY <2>3, <2>4, <2>7, OnScaleIs
  <2> QED BY <1>2, <2>2, <2>8
<1>3. CASE k.below
  <2>1. PICK n \in Int : n = Full * k.target /\ n > 0
    <3>1. PICK g \in Int : g = k.target /\ g > 0 BY <1>1
    <3>2. 10000 * g \in Int /\ 10000 * g > 0 BY <3>1
    <3>3. Full * k.target = 10000 * g BY <1>1, <3>1
    <3> QED BY <3>2, <3>3
  <2>2. \A x \in Int : ScoreRatio(x, k) = IF x <= 0 THEN Full ELSE n \div x
    BY <1>3, <2>1 DEF ScoreRatio
  <2>3. PICK w \in Int : w = v + 1 OBVIOUS
  <2>4. CASE w <= 0
    <3>1. ScoreRatio(v, k) = Full /\ ScoreRatio(w, k) = Full BY <2>2, <2>3, <2>4
    <3>2. Full \in Int /\ Full <= Full BY <1>1
    <3>3. OnScale(Full) \in 0..Full /\ OnScale(Full) <= OnScale(Full) BY <3>2, OnScaleIs
    <3> QED BY <1>3, <2>3, <3>1, <3>3
  <2>5. CASE v <= 0 /\ w > 0
    <3>1. ScoreRatio(v, k) = Full /\ ScoreRatio(w, k) = n \div w BY <2>2, <2>3, <2>5
    <3>2. n \div w \in Int BY <2>1, <2>5, DivFloor
    <3>3. PICK q \in Int : q = n \div w BY <3>2
    <3>4. OnScale(Full) = Full BY <1>1 DEF OnScale
    <3>5. q <= q OBVIOUS
    <3>6. OnScale(q) <= Full BY <3>5, OnScaleIs
    <3>7. Full \in 0..Full BY <1>1
    <3> QED BY <1>3, <2>3, <3>1, <3>3, <3>4, <3>6, <3>7
  <2>6. CASE v > 0
    <3>1. ScoreRatio(v, k) = n \div v /\ ScoreRatio(w, k) = n \div w BY <2>2, <2>3, <2>6
    <3>2. n \div v \in Int /\ n \div w \in Int BY <2>1, <2>3, <2>6, DivFloor
    <3>3. PICK q \in Int : q = n \div w BY <3>2
    <3>4. q * w <= n
      <4>1. w > 0 BY <2>3, <2>6
      <4> QED BY <2>1, <3>3, <4>1, DivFloor
    <3>5. 0 <= q
      <4>1. w > 0 /\ 0 * w <= n BY <2>1, <2>3, <2>6
      <4>2. 0 <= n \div w BY <2>1, <4>1, DivFloor
      <4> QED BY <3>3, <4>2
    <3>6. q * v <= q * w BY <2>3, <3>5
    <3>7. q * v <= n
      <4>1. q * v \in Int /\ q * w \in Int OBVIOUS
      <4> QED BY <2>1, <3>4, <3>6, <4>1
    <3>8. q <= n \div v BY <2>1, <2>6, <3>7, DivFloor
    <3>9. OnScale(n \div v) \in 0..Full /\ OnScale(n \div w) <= OnScale(n \div v)
      BY <3>2, <3>3, <3>8, OnScaleIs
    <3> QED BY <1>3, <2>3, <3>1, <3>9
  <2> QED BY <2>3, <2>4, <2>5, <2>6
<1> QED BY <1>1, <1>2, <1>3

\* The class of a score by its distance from the bounds.
LEMMA ClassOfScore ==
  ASSUME NEW s \in Int
  PROVE  /\ s >= At70 => Classify(s \div 100) = "healthy"
         /\ s >= At50 /\ s < At70 => Classify(s \div 100) = "at_risk"
         /\ s < At50 => Classify(s \div 100) = "critical"
<1>1. s \div 100 \in Int /\ \A a \in Int : (a * 100 <= s) <=> (a <= s \div 100) BY DivFloor
<1>2. Healthy \in Int /\ AtRisk \in Int /\ AtRisk < Healthy BY ThresholdAssumption, BandAssumption
<1>3. At70 = Healthy * 100 /\ At50 = AtRisk * 100 BY <1>2 DEF At70, At50
<1>4. (At70 <= s <=> Healthy <= s \div 100) /\ (At50 <= s <=> AtRisk <= s \div 100) BY <1>1, <1>2, <1>3
<1>5. At70 \in Int /\ At50 \in Int BY <1>2, <1>3
<1>6. PICK q \in Int : q = s \div 100 BY <1>1
<1> QED BY <1>2, <1>4, <1>5, <1>6 DEF Classify

\* A KPI is scored as its bounds say, whichever way it is read.
LEMMA KpiHolds ==
  ASSUME NEW v \in Int, NEW k \in KpiOf
  PROVE  KpiScored(v, k)
<1>1. /\ k.higher \in BOOLEAN /\ k.below \in BOOLEAN /\ k.ranges \in BOOLEAN
      /\ k.worst \in Int /\ k.risk \in Int /\ k.target \in Int /\ k.best \in Int
  BY DEF KpiOf
<1> DEFINE s == ScoreKpi(v, k)
           t == ScoreKpi(v + Better(k), k)
           m == Mirror(k)
<1>2. /\ m.worst = -k.worst /\ m.risk = -k.risk /\ m.target = -k.target /\ m.best = -k.best
  BY DEF Mirror, KpiOf
<1>3. CASE ~(k.ranges /\ k.target # 0) /\ ~(k.target > 0)
  <2>1. v + Better(k) = v + 1 BY <1>1, <1>3 DEF Better, Upwards
  <2>2. s = OnScale(100 * v) /\ t = OnScale(100 * (v + 1)) BY <1>3, <2>1 DEF ScoreKpi
  <2>3. PICK x \in Int, y \in Int : x = 100 * v /\ y = 100 * (v + 1) /\ x <= y OBVIOUS
  <2>4. OnScale(x) \in 0..Full /\ OnScale(y) \in 0..Full /\ OnScale(x) <= OnScale(y)
    BY <2>3, OnScaleIs
  <2>5. s \in 0..Full /\ t \in 0..Full /\ s <= t BY <2>2, <2>3, <2>4
  <2> HIDE DEF s, t
  <2>6. Full \in Nat BY DEF Full
  <2>7. t >= s BY <2>5, <2>6
  <2> QED BY <1>3, <2>5, <2>7 DEF KpiScored, s, t
<1>4. CASE ~(k.ranges /\ k.target # 0) /\ k.target > 0
  <2> DEFINE ratio(x) == OnScale(ScoreRatio(x, k))
  <2>1. s = ratio(v) /\ t = ratio(v + Better(k)) BY <1>4 DEF ScoreKpi
  <2>2. \A x \in Int : /\ ratio(x) \in 0..Full
                       /\ ~k.below => ratio(x) <= ratio(x + 1)
                       /\ k.below => ratio(x + 1) <= ratio(x)
    BY <1>4, RatioScored
  <2> HIDE DEF ratio
  <2>3. CASE ~k.below
    <3>1. v + Better(k) = v + 1 BY <1>4, <2>3 DEF Better, Upwards
    <3>2. s = ratio(v) /\ t = ratio(v + 1) BY <2>1, <3>1
    <3>3. ratio(v) \in 0..Full /\ ratio(v + 1) \in 0..Full /\ ratio(v) <= ratio(v + 1) BY <2>2, <2>3
    <3>4. Full \in Nat BY DEF Full
    <3>5. s \in 0..Full /\ t >= s
      <4> HIDE DEF s, t
      <4> QED BY <3>2, <3>3, <3>4
    <3> QED BY <1>4, <3>5 DEF KpiScored
  <2>4. CASE k.below
    <3>1. v + Better(k) = v - 1 BY <1>4, <2>4 DEF Better, Upwards
    <3>2. PICK u \in Int : u = v - 1 /\ u + 1 = v OBVIOUS
    <3>3. s = ratio(u + 1) /\ t = ratio(u) BY <2>1, <3>1, <3>2
    <3>4. ratio(u) \in 0..Full /\ ratio(u + 1) \in 0..Full /\ ratio(u + 1) <= ratio(u)
      <4>1. u + 1 \in Int BY <3>2
      <4> QED BY <2>2, <2>4, <4>1
    <3>5. Full \in Nat BY DEF Full
    <3>6. s \in 0..Full /\ t >= s
      <4> HIDE DEF s, t
      <4> QED BY <3>3, <3>4, <3>5
    <3> QED BY <1>4, <3>6 DEF KpiScored
  <2> QED BY <1>1, <2>3, <2>4
<1>4a. InOrder(k) => /\ k.risk # k.worst
                      /\ Reaches(k.risk, k.worst, k) /\ Reaches(k.target, k.risk, k)
                      /\ Reaches(k.best, k.target, k)
  <2> HAVE InOrder(k)
  <2>1. \A x, y : <<x, y>> \in {<<k.risk, k.worst>>, <<k.target, k.risk>>, <<k.best, k.target>>} => Reaches(x, y, k)
    BY DEF InOrder
  <2> QED BY <2>1 DEF InOrder
<1>4b. Full \in Nat /\ At50 \in Int /\ At70 \in Int BY ThresholdAssumption DEF Full, At50, At70
<1>5. CASE k.target # 0 /\ k.ranges /\ k.higher
  <2>1. s = ScoreBands(v, k) /\ t = ScoreBands(v + 1, k) BY <1>5 DEF ScoreKpi, Better, Upwards
  <2>2. s \in 0..Full /\ s <= t BY <1>1, <2>1, BandsScored
  <2>3. t \in 0..Full BY <1>1, <2>1, BandsScored
  <2>4. \A x, y : Reaches(x, y, k) <=> x >= y BY <1>5 DEF Reaches
  <2>5. InOrder(k) => /\ v >= k.target => s >= At70
                      /\ v >= k.risk /\ v < k.target => s >= At50 /\ s < At70
                      /\ v < k.risk => s < At50
    <3> HAVE InOrder(k)
    <3>1. k.worst < k.risk /\ k.risk <= k.target /\ k.target <= k.best BY <1>1, <1>4a, <2>4
    <3> QED BY <1>1, <2>1, <3>1, BandsScored
  <2>6. InOrder(k) => Classify(s \div 100) = IF v >= k.target THEN "healthy"
                                              ELSE IF v >= k.risk THEN "at_risk" ELSE "critical"
    <3>1. s \in Int BY <2>2, <1>4b
    <3> HIDE DEF s
    <3> QED BY <1>1, <2>5, <3>1, ClassOfScore
  <2> HIDE DEF s, t
  <2>7. t >= s BY <1>4b, <2>2, <2>3
  <2> QED BY <2>2, <2>4, <2>6, <2>7 DEF KpiScored, s, t
<1>6. CASE k.target # 0 /\ k.ranges /\ ~k.higher
  <2>1. s = ScoreBands(-v, m) /\ t = ScoreBands(-(v - 1), m)
    <3>1. v + Better(k) = v - 1 BY <1>6 DEF Better, Upwards
    <3> QED BY <1>6, <3>1 DEF ScoreKpi
  <2>2. PICK u \in Int : u = -v OBVIOUS
  <2>3. s = ScoreBands(u, m) /\ t = ScoreBands(u + 1, m)
    <3>1. -(v - 1) = u + 1 BY <2>2
    <3> QED BY <2>1, <2>2, <3>1
  <2>4. m.worst \in Int /\ m.risk \in Int /\ m.target \in Int /\ m.best \in Int BY <1>1, <1>2
  <2> HIDE DEF m
  <2>5. s \in 0..Full /\ s <= t BY <2>3, <2>4, BandsScored
  <2>6. t \in 0..Full BY <2>3, <2>4, BandsScored
  <2>7. \A x, y : Reaches(x, y, k) <=> x <= y BY <1>6 DEF Reaches
  <2>8. InOrder(k) => /\ v <= k.target => s >= At70
                      /\ v <= k.risk /\ ~(v <= k.target) => s >= At50 /\ s < At70
                      /\ ~(v <= k.risk) => s < At50
    <3> HAVE InOrder(k)
    <3>1. m.worst < m.risk /\ m.risk <= m.target /\ m.target <= m.best BY <1>1, <1>2, <1>4a, <2>7
    <3>2. /\ u >= m.target => s >= At70
          /\ u >= m.risk /\ u < m.target => s >= At50 /\ s < At70
          /\ u < m.risk => s < At50
      BY <2>3, <2>4, <3>1, BandsScored
    <3>3. /\ u >= m.target <=> v <= k.target
          /\ u < m.target <=> ~(v <= k.target)
          /\ u >= m.risk <=> v <= k.risk
          /\ u < m.risk <=> ~(v <= k.risk)
      BY <1>1, <1>2, <2>2
    <3> HIDE DEF s
    <3> QED BY <3>2, <3>3
  <2>9. InOrder(k) => Classify(s \div 100) = IF v <= k.target THEN "healthy"
                                              ELSE IF v <= k.risk THEN "at_risk" ELSE "critical"
    <3>1. s \in Int BY <2>5, <1>4b
    <3> HIDE DEF s
    <3> QED BY <1>1, <2>8, <3>1, ClassOfScore
  <2> HIDE DEF s, t
  <2>10. t >= s BY <1>4b, <2>5, <2>6
  <2> QED BY <2>5, <2>7, <2>9, <2>10 DEF KpiScored, s, t
<1> QED BY <1>1, <1>3, <1>4, <1>5, <1>6

-----------------------------------------------------------------------------
\* Induction over the naturals, for a set of them.
LEMMA NatInductive ==
  ASSUME NEW Good, 0 \in Good, \A n \in Nat : n \in Good => n + 1 \in Good
  PROVE  Nat \subseteq Good
<1> DEFINE Bad == Nat \ Good
<1> SUFFICES ASSUME Bad # {} PROVE FALSE
  OBVIOUS
<1>1. PICK n \in Bad : \A m \in Bad : <<m, n>> \notin OpToRel(<, Nat)
  <2>1. Bad \subseteq Nat OBVIOUS
  <2> HIDE DEF Bad
  <2> QED BY <2>1, NatLessThanWellFounded, WFMin
<1>2. n \in Nat /\ n # 0 OBVIOUS
<1>3. n - 1 \in Nat /\ (n - 1) + 1 = n BY <1>2
<1>4. n - 1 \in Bad
  <2>1. n \notin Good OBVIOUS
  <2> QED BY <1>3, <2>1
<1>5. <<n - 1, n>> \in OpToRel(<, Nat) BY <1>2, <1>3 DEF OpToRel
<1> QED BY <1>1, <1>4, <1>5

\* A stage, with or without an end.
StageOf == [min : Nat, max : Nat \cup {None}]

\* Stages in order are in order throughout, however many there are.
LEMMA StagesApart ==
  ASSUME NEW n \in Nat \ {0}, NEW stages \in [1..n -> StageOf], StagesValid(stages),
         \A i \in 1..n : stages[i].max # None => stages[i].min <= stages[i].max
  PROVE  /\ stages[n].max = None
         /\ \A i, j \in 1..n : i < j =>
              stages[i].max # None /\ stages[i].max \in Nat /\ stages[i].max < stages[j].min
<1>1. DOMAIN stages = 1..n /\ Len(stages) = n /\ 1 \in 1..n /\ n \in 1..n OBVIOUS
<1>2. \A i \in 1..n : stages[i].min \in Nat /\ stages[i].max \in Nat \cup {None} BY DEF StageOf
<1>3. \A i \in 1..n : i # 1 => stages[i - 1].max # None /\ stages[i].min > stages[i - 1].max
  BY <1>1 DEF StagesValid
<1> DEFINE Good == {k \in Nat : \A i, j \in 1..n : i < j /\ j <= k =>
                      stages[i].max \in Nat /\ stages[i].max < stages[j].min}
<1>4. 0 \in Good OBVIOUS
<1>5. ASSUME NEW k \in Nat, k \in Good PROVE k + 1 \in Good
  <2> SUFFICES ASSUME NEW i \in 1..n, NEW j \in 1..n, i < j, j = k + 1
               PROVE  stages[i].max \in Nat /\ stages[i].max < stages[j].min
    BY <1>5
  <2>1. k \in 1..n /\ i <= k /\ j - 1 = k /\ j # 1 OBVIOUS
  <2>2. stages[k].max \in Nat /\ stages[k].max < stages[j].min BY <1>2, <1>3, <2>1
  <2>3. CASE i = k BY <2>2, <2>3
  <2>4. CASE i < k
    <3>1. stages[i].max \in Nat /\ stages[i].max < stages[k].min BY <1>5, <2>1, <2>4
    <3>2. stages[k].min <= stages[k].max
      <4>1. stages[k].max # None BY <1>3, <2>1
      <4> QED BY <2>1, <4>1
    <3>3. stages[k].min \in Nat /\ stages[j].min \in Nat BY <1>2, <2>1
    <3> HIDE DEF Good
    <3> QED BY <2>2, <3>1, <3>2, <3>3
  <2> QED BY <2>1, <2>3, <2>4
<1>6. n \in Good
  <2> HIDE DEF Good
  <2> QED BY <1>4, <1>5, NatInductive
<1>7. stages[n].max = None BY <1>1 DEF StagesValid
<1>8. ASSUME NEW i \in 1..n, NEW j \in 1..n, i < j PROVE stages[i].max # None
  <2>1. i + 1 \in 1..n /\ i + 1 # 1 /\ (i + 1) - 1 = i BY <1>8
  <2> QED BY <1>3, <2>1
<1> QED BY <1>6, <1>7, <1>8

\* Of stages that passed, an age is in one, which is the one found.
LEMMA StagesHold ==
  ASSUME NEW c, NEW n \in Nat \ {0}, c.stages \in [1..n -> StageOf], c.days \in Int
  PROVE  StagesFound(c)
<1> DEFINE st == c.stages
           age == IF c.days < 0 THEN 0 ELSE c.days
           fitting == {i \in DOMAIN st : Fits(st[i], age)}
<1> SUFFICES ASSUME StagesValid(st), \A i \in 1..n : st[i].max # None => st[i].min <= st[i].max
             PROVE  /\ \A i \in 1..n : Fits(st[i], age) <=> i = Stage(st, c.days)
                    /\ age >= st[n].min => Stage(st, c.days) # 0
  <2>1. DOMAIN st = 1..n /\ Len(st) = n OBVIOUS
  <2> QED BY <2>1 DEF StagesFound
<1>1. /\ st[n].max = None
      /\ \A i, j \in 1..n : i < j => st[i].max # None /\ st[i].max \in Nat /\ st[i].max < st[j].min
  BY StagesApart
<1>2. \A i \in 1..n : st[i].min \in Nat /\ st[i].max \in Nat \cup {None} BY DEF StageOf
<1>3. age \in Int OBVIOUS
<1>4. \A i, j \in 1..n : i < j => ~(Fits(st[i], age) /\ Fits(st[j], age))
  <2> SUFFICES ASSUME NEW i \in 1..n, NEW j \in 1..n, i < j, Fits(st[i], age), Fits(st[j], age)
               PROVE  FALSE
    OBVIOUS
  <2>1. age >= st[j].min BY DEF Fits
  <2>2. st[i].max = None \/ age <= st[i].max BY DEF Fits
  <2>3. st[i].max \in Nat /\ st[i].max < st[j].min /\ st[j].min \in Nat BY <1>1, <1>2
  <2>4. st[i].max # None BY <1>1
  <2> HIDE DEF age
  <2> QED BY <1>3, <2>1, <2>2, <2>3, <2>4
<1>5. Stage(st, c.days) = IF fitting = {} THEN 0 ELSE CHOOSE i \in fitting : \A j \in fitting : i <= j
  BY Zenon DEF Stage
<1>5a. DOMAIN st = 1..n OBVIOUS
<1>6. \A i \in fitting : Stage(st, c.days) = i
  <2> TAKE i \in fitting
  <2>1. fitting = {i}
    <3>1. \A j \in fitting : j = i BY <1>4
    <3> QED BY <3>1
  <2>2. (CHOOSE x \in fitting : \A j \in fitting : x <= j) = i
    <3>1. i \in Int OBVIOUS
    <3> HIDE DEF fitting
    <3>2. \E x \in fitting : \A j \in fitting : x <= j BY <2>1, <3>1
    <3> QED BY <2>1, <3>2
  <2> HIDE DEF fitting
  <2> QED BY <1>5, <2>2
<1>7. fitting = {} => Stage(st, c.days) = 0 BY <1>5
<1>8. age >= st[n].min => n \in fitting BY <1>1, <1>5a DEF Fits
<1>9. \A i \in 1..n : Fits(st[i], age) <=> i \in fitting BY <1>5a
<1>10. \A i \in fitting : i \in 1..n BY <1>5a
<1> HIDE DEF fitting, age, st
<1> QED BY <1>6, <1>7, <1>8, <1>9, <1>10

-----------------------------------------------------------------------------
\* Weights as a catalog, a configuration or a stage sets them.
PillarWeights == UNION {[P -> Nat] : P \in SUBSET Pillar}
KpiWeights == UNION {[C -> Nat] : C \in SUBSET Code}
WeightsOf == [l1 : [Code -> Nat], l2 : [Pillar -> Nat], pillars : PillarWeights, kpis : KpiWeights]

\* A KPI weighs something; a pillar may weigh nothing.
LEMMA WeightsAreNumbers ==
  ASSUME NEW w \in WeightsOf
  PROVE  /\ \A x \in Code : KpiWeight(w, x) \in Nat /\ KpiWeight(w, x) > 0
         /\ \A p \in Pillar : Set(w.pillars, w.l2, p) \in Nat
<1>1. w.l1 \in [Code -> Nat] /\ w.l2 \in [Pillar -> Nat] BY DEF WeightsOf
<1>2. PICK P \in SUBSET Pillar : w.pillars \in [P -> Nat] BY DEF WeightsOf, PillarWeights
<1>3. PICK C \in SUBSET Code : w.kpis \in [C -> Nat] BY DEF WeightsOf, KpiWeights
<1>4. \A p \in Pillar : Set(w.pillars, w.l2, p) \in Nat BY <1>1, <1>2 DEF Set
<1>5. \A x \in Code : Set(w.kpis, w.l1, x) \in Nat BY <1>1, <1>3 DEF Set
<1>6. \A x \in Code : KpiWeight(w, x) \in Nat /\ KpiWeight(w, x) > 0
  <2> TAKE x \in Code
  <2>1. PICK n \in Nat : n = Set(w.kpis, w.l1, x) BY <1>5
  <2>2. KpiWeight(w, x) = IF n = 0 THEN 1 ELSE n BY <2>1 DEF KpiWeight
  <2> QED BY <2>2
<1> QED BY <1>4, <1>6

\* The average of a pillar.
LEMMA AverageBetween ==
  ASSUME NEW w \in WeightsOf, NEW C \in SUBSET Code, NEW scores, \A x \in C : scores[x] \in Int
  PROVE  /\ Average(scores, w, C) \in Int
         /\ C # {} => /\ \E x \in C : scores[x] <= Average(scores, w, C)
                      /\ \E x \in C : scores[x] >= Average(scores, w, C)
         /\ \A other : (\A x \in C : other[x] \in Int /\ scores[x] <= other[x]) =>
              Average(scores, w, C) <= Average(other, w, C)
<1> DEFINE weight == [x \in C |-> KpiWeight(w, x)]
<1>1. weight \in [C -> Nat] /\ \A x \in C : weight[x] > 0 BY WeightsAreNumbers
<1>2. IsFiniteSet(C) BY CatalogAssumption, FS_Subset
<1>3. \A s : Average(s, w, C) = Mean(s, weight) BY DEF Average
<1> HIDE DEF weight
<1>4. Mean(scores, weight) \in Int BY <1>1, <1>2, MeanInt
<1>5. C # {} => /\ \E x \in C : scores[x] <= Mean(scores, weight)
                /\ \E x \in C : scores[x] >= Mean(scores, weight)
  BY <1>1, <1>2, MeanWithin
<1>6. ASSUME NEW other, \A x \in C : other[x] \in Int /\ scores[x] <= other[x]
      PROVE  Mean(scores, weight) <= Mean(other, weight)
  BY <1>1, <1>2, <1>6, MeanMonotone
<1> QED BY <1>3, <1>4, <1>5, <1>6

\* What is used of the codes D.
CountedOf(D, enabled) == {x \in D : PillarOf(x) # None /\ (enabled # None => PillarOf(x) \in enabled)}

\* The pillars of what is used, and the KPIs among it that have weight.
PillarsOf(used) == {PillarOf(x) : x \in used}
Heavy(used, w) == {x \in used : Set(w.pillars, w.l2, PillarOf(x)) > 0}

\* The codes and the weight of each pillar of what is used.
CodesOf(used) == [p \in PillarsOf(used) |-> {x \in used : PillarOf(x) = p}]
PillarWeight(used, w) == [p \in PillarsOf(used) |-> Set(w.pillars, w.l2, p)]
PillarAverages(scores, w, used) == [p \in PillarsOf(used) |-> Average(scores, w, CodesOf(used)[p])]

\* Health as a mean over the pillars of what is used.
LEMMA HealthIs ==
  ASSUME NEW w \in WeightsOf, NEW enabled, NEW D \in SUBSET Code, NEW used,
         used = CountedOf(D, enabled)
  PROVE  /\ IsFiniteSet(PillarsOf(used)) /\ PillarsOf(used) \subseteq Pillar
         /\ PillarWeight(used, w) \in [PillarsOf(used) -> Nat]
         /\ \A p \in PillarsOf(used) :
              /\ PillarWeight(used, w)[p] = Set(w.pillars, w.l2, p)
              /\ CodesOf(used)[p] \in SUBSET Code /\ CodesOf(used)[p] # {} /\ CodesOf(used)[p] \subseteq used
              /\ \A x \in CodesOf(used)[p] : PillarOf(x) = p
         /\ \A scores : DOMAIN scores = D =>
              Health(scores, w, enabled) = Mean(PillarAverages(scores, w, used), PillarWeight(used, w))
<1> USE DEF CountedOf
<1> DEFINE P == PillarsOf(used)
           codes == CodesOf(used)
           weight == PillarWeight(used, w)
<1>1. P \subseteq Pillar BY CatalogAssumption DEF PillarsOf
<1>2. IsFiniteSet(P)
  <2>1. IsFiniteSet(used) BY CatalogAssumption, FS_Subset
  <2>2. [x \in used |-> PillarOf(x)] \in Surjection(used, P)
    BY DEF Surjection, PillarsOf
  <2> HIDE DEF P
  <2> QED BY <2>1, <2>2, FS_Surjection
<1>3. weight \in [P -> Nat] /\ \A p \in P : weight[p] = Set(w.pillars, w.l2, p)
  BY <1>1, WeightsAreNumbers DEF PillarWeight
<1>4. \A p \in P : codes[p] \in SUBSET Code /\ codes[p] # {} /\ codes[p] \subseteq used
                   /\ \A x \in codes[p] : PillarOf(x) = p
  BY DEF PillarsOf, CodesOf
<1>5. ASSUME NEW scores, DOMAIN scores = D
      PROVE  Health(scores, w, enabled) = Mean(PillarAverages(scores, w, used), weight)
  <2>1. Used(scores, enabled) = used BY <1>5 DEF Used
  <2>2. Health(scores, w, enabled) =
          Mean([p \in P |-> Average(scores, w, {x \in used : PillarOf(x) = p})], weight)
    BY <2>1 DEF Health, PillarsOf, PillarWeight
  <2>3. [p \in P |-> Average(scores, w, {x \in used : PillarOf(x) = p})]
          = PillarAverages(scores, w, used)
    BY DEF PillarAverages, CodesOf
  <2> QED BY <2>2, <2>3
<1> QED BY <1>1, <1>2, <1>3, <1>4, <1>5

\* Health lies between the scores of what is weighed, and follows them.
LEMMA HealthBetween ==
  ASSUME NEW w \in WeightsOf, NEW enabled, NEW D \in SUBSET Code, NEW used,
         used = CountedOf(D, enabled),
         NEW scores, DOMAIN scores = D, \A x \in D : scores[x] \in Int
  PROVE  /\ Health(scores, w, enabled) \in Int
         /\ Heavy(used, w) # {} =>
              /\ \E x \in Heavy(used, w) : scores[x] <= Health(scores, w, enabled)
              /\ \E x \in Heavy(used, w) : scores[x] >= Health(scores, w, enabled)
         /\ Heavy(used, w) = {} => Health(scores, w, enabled) = 0
         /\ \A other : ( /\ DOMAIN other = D /\ \A x \in D : other[x] \in Int
                         /\ \A x \in Heavy(used, w) : scores[x] <= other[x] )
              => Health(scores, w, enabled) <= Health(other, w, enabled)
<1> DEFINE P == PillarsOf(used)
           h == Health(scores, w, enabled)
           codes == CodesOf(used)
           weight == PillarWeight(used, w)
           avg(s) == PillarAverages(s, w, used)
<1>1. /\ IsFiniteSet(P) /\ P \subseteq Pillar
      /\ weight \in [P -> Nat]
      /\ \A p \in P :
           /\ weight[p] = Set(w.pillars, w.l2, p)
           /\ codes[p] \in SUBSET Code /\ codes[p] # {} /\ codes[p] \subseteq used
           /\ \A x \in codes[p] : PillarOf(x) = p
      /\ \A s : DOMAIN s = D => Health(s, w, enabled) = Mean(avg(s), weight)
  BY HealthIs
<1>a. \A s : \A p \in P : avg(s)[p] = Average(s, w, codes[p]) BY DEF PillarAverages
<1> HIDE DEF codes, weight, avg
<1>2. used \subseteq D BY DEF CountedOf
<1>3. \A p \in P : weight[p] > 0 => codes[p] \subseteq Heavy(used, w) BY <1>1 DEF Heavy
<1>4. \A x \in Heavy(used, w) : PillarOf(x) \in P /\ weight[PillarOf(x)] > 0
  <2> TAKE x \in Heavy(used, w)
  <2>1. x \in used /\ Set(w.pillars, w.l2, PillarOf(x)) > 0 BY DEF Heavy
  <2>2. PillarOf(x) \in P BY <2>1 DEF PillarsOf
  <2> QED BY <1>1, <2>1, <2>2
<1> HIDE DEF P
<1>5. \A s : (\A x \in D : s[x] \in Int) => \A p \in P : avg(s)[p] \in Int
  <2> TAKE s
  <2> HAVE \A x \in D : s[x] \in Int
  <2> TAKE p \in P
  <2>1. codes[p] \in SUBSET Code /\ \A x \in codes[p] : s[x] \in Int BY <1>1, <1>2
  <2>2. Average(s, w, codes[p]) \in Int BY <2>1, AverageBetween
  <2> QED BY <1>a, <2>2
<1>6. h = Mean(avg(scores), weight) BY <1>1
<1>7. h \in Int /\ ((\A p \in P : weight[p] = 0) => h = 0)
  <2>1. \A p \in P : avg(scores)[p] \in Int BY <1>5
  <2> HIDE DEF avg, h
  <2> QED BY <1>1, <1>6, <2>1, MeanInt
<1>8. ASSUME Heavy(used, w) # {}
      PROVE  /\ \E x \in Heavy(used, w) : scores[x] <= h
             /\ \E x \in Heavy(used, w) : scores[x] >= h
  <2>1. \E p \in P : weight[p] > 0 BY <1>4, <1>8
  <2>2. /\ \E p \in P : weight[p] > 0 /\ avg(scores)[p] <= h
        /\ \E p \in P : weight[p] > 0 /\ avg(scores)[p] >= h
    <3>1. \A p \in P : avg(scores)[p] \in Int BY <1>5
    <3> HIDE DEF avg, h
    <3> QED BY <1>1, <1>6, <2>1, <3>1, MeanWithin
  <2>3. PICK p \in P : weight[p] > 0 /\ avg(scores)[p] <= h BY <2>2
  <2>4. PICK q \in P : weight[q] > 0 /\ avg(scores)[q] >= h BY <2>2
  <2>5. avg(scores)[p] \in Int /\ avg(scores)[q] \in Int BY <1>5
  <2>6. PICK x \in codes[p] : scores[x] <= avg(scores)[p]
    <3>1. codes[p] \in SUBSET Code /\ codes[p] # {} /\ \A y \in codes[p] : scores[y] \in Int BY <1>1, <1>2
    <3>2. \E x \in codes[p] : scores[x] <= Average(scores, w, codes[p]) BY <3>1, AverageBetween
    <3> QED BY <1>a, <3>2
  <2>7. PICK y \in codes[q] : scores[y] >= avg(scores)[q]
    <3>1. codes[q] \in SUBSET Code /\ codes[q] # {} /\ \A y \in codes[q] : scores[y] \in Int BY <1>1, <1>2
    <3>2. \E z \in codes[q] : scores[z] >= Average(scores, w, codes[q]) BY <3>1, AverageBetween
    <3> QED BY <1>a, <3>2
  <2>8. x \in Heavy(used, w) /\ y \in Heavy(used, w) BY <1>3, <2>3, <2>4
  <2>9. scores[x] \in Int /\ scores[y] \in Int BY <1>1, <1>2
  <2>10. PICK m \in Int : m = h BY <1>7
  <2>11. scores[x] <= m
    <3>1. PICK v \in Int : v = avg(scores)[p] BY <2>5
    <3>2. v <= m /\ scores[x] <= v BY <2>3, <2>6, <2>10, <3>1
    <3> QED BY <2>9, <3>2
  <2>12. scores[y] >= m
    <3>1. PICK v \in Int : v = avg(scores)[q] BY <2>5
    <3>2. v >= m /\ scores[y] >= v BY <2>4, <2>7, <2>10, <3>1
    <3> QED BY <2>9, <3>2
  <2> QED BY <2>8, <2>10, <2>11, <2>12
<1>9. ASSUME Heavy(used, w) = {} PROVE h = 0
  <2>1. \A p \in P : weight[p] = 0
    <3> TAKE p \in P
    <3>1. weight[p] \in Nat BY <1>1
    <3>2. ~(weight[p] > 0) BY <1>1, <1>3, <1>9
    <3> QED BY <3>1, <3>2
  <2> QED BY <1>7, <2>1
<1>10. ASSUME NEW other, DOMAIN other = D, \A x \in D : other[x] \in Int,
              \A x \in Heavy(used, w) : scores[x] <= other[x]
       PROVE  h <= Health(other, w, enabled)
  <2>1. Health(other, w, enabled) = Mean(avg(other), weight) BY <1>1, <1>10
  <2>2. \A p \in P : avg(scores)[p] \in Int /\ avg(other)[p] \in Int BY <1>5, <1>10
  <2>3. \A p \in P : weight[p] > 0 => avg(scores)[p] <= avg(other)[p]
    <3> TAKE p \in P
    <3> HAVE weight[p] > 0
    <3>1. /\ codes[p] \in SUBSET Code /\ \A y \in codes[p] : scores[y] \in Int
          /\ \A y \in codes[p] : other[y] \in Int /\ scores[y] <= other[y]
      BY <1>1, <1>2, <1>3, <1>10
    <3>2. Average(scores, w, codes[p]) <= Average(other, w, codes[p]) BY <3>1, AverageBetween
    <3> QED BY <1>a, <3>2
  <2>4. Mean(avg(scores), weight) <= Mean(avg(other), weight)
    <3> HIDE DEF avg
    <3> QED BY <1>1, <2>2, <2>3, MeanMonotone
  <2> QED BY <1>6, <2>1, <2>4
<1> QED BY <1>7, <1>8, <1>9, <1>10

-----------------------------------------------------------------------------
\* The weights that apply to an account of the cases are weights.
LEMMA AppliedWeights ==
  ASSUME NEW c \in AccountCase
  PROVE  /\ Applied(c.stage, c.config, c.l1, c.l2).weights \in WeightsOf
         /\ Applied(c.stage, c.config, c.l1, c.l2).weights.l2 = c.l2
<1> DEFINE a == Applied(c.stage, c.config, c.l1, c.l2)
           pillars == IF c.stage.pillars # Nobody THEN c.stage.pillars ELSE c.config.pillars
           kpis == IF c.stage.kpis # None THEN c.stage.kpis ELSE c.config.kpis
<1>1. a.weights = [l1 |-> c.l1, l2 |-> c.l2, pillars |-> pillars, kpis |-> kpis] BY DEF Applied
<1>2. Nobody \in PillarWeights /\ Nobody \in KpiWeights
  <2>1. Nobody \in [{} -> Nat] BY DEF Nobody
  <2> QED BY <2>1 DEF PillarWeights, KpiWeights
<1>3. [p \in Pillar |-> 1] \in PillarWeights /\ [x \in Code |-> 1] \in KpiWeights
  BY DEF PillarWeights, KpiWeights
<1>4. \A over \in Over : over \in PillarWeights BY CatalogAssumption DEF PillarWeights
<1>5. /\ c.stage.pillars \in {Nobody, [p \in Pillar |-> 1]} /\ c.config.pillars \in Over
      /\ c.stage.kpis \in {None, Nobody, [x \in Code |-> 1]} /\ c.config.kpis \in {Nobody, [x \in Code |-> 1]}
      /\ c.l1 \in [Code -> Weight] /\ c.l2 \in [Pillar -> Weight]
  BY DEF AccountCase
<1>6. pillars \in PillarWeights
  <2> HIDE DEF Nobody, PillarWeights
  <2> QED BY <1>2, <1>3, <1>4, <1>5
<1>7. kpis \in KpiWeights
  <2>1. c.config.kpis \in KpiWeights
    <3> HIDE DEF Nobody, KpiWeights
    <3> QED BY <1>2, <1>3, <1>5
  <2>2. c.stage.kpis # None => c.stage.kpis \in KpiWeights
    <3> DEFINE one == [x \in Code |-> 1]
    <3> HIDE DEF Nobody, KpiWeights, one
    <3>1. one \in KpiWeights BY <1>3 DEF one
    <3>2. c.stage.kpis \in {None, Nobody, one} BY <1>5 DEF one
    <3> QED BY <1>2, <3>1, <3>2
  <2>3. CASE c.stage.kpis # None
    <3>1. kpis = c.stage.kpis BY <2>3
    <3> HIDE DEF kpis
    <3> QED BY <2>2, <2>3, <3>1
  <2>4. CASE ~(c.stage.kpis # None)
    <3>1. kpis = c.config.kpis BY <2>4
    <3> HIDE DEF kpis
    <3> QED BY <2>1, <3>1
  <2> HIDE DEF kpis
  <2> QED BY <2>3, <2>4
<1>8. c.l1 \in [Code -> Nat] /\ c.l2 \in [Pillar -> Nat] BY <1>5, CatalogAssumption
<1> HIDE DEF pillars, kpis
<1> QED BY <1>1, <1>6, <1>7, <1>8 DEF WeightsOf

\* The health of every account of the cases is what AccountScored asks.
LEMMA AccountHolds == \A c \in AccountCase : AccountScored(c)
<1> TAKE c \in AccountCase
<1> DEFINE a == Applied(c.stage, c.config, c.l1, c.l2)
           w == a.weights
           D == DOMAIN c.scores
           used == Used(c.scores, a.enabled)
           h(s) == Health(s, w, a.enabled)
           heavy == Heavy(used, w)
<1>1. PICK S \in SUBSET Code : c.scores \in [S -> Level] BY DEF AccountCase
<1>2. D \in SUBSET Code /\ c.scores \in [D -> Int] /\ \A x \in D : c.scores[x] \in Int BY <1>1, CatalogAssumption
<1>3. w \in WeightsOf /\ w.l2 = c.l2 BY AppliedWeights
<1>4. used = CountedOf(D, a.enabled) BY DEF Used, CountedOf
<1>5. heavy \subseteq D BY DEF Heavy, Used
<1>6. heavy = {x \in used : Set(w.pillars, c.l2, PillarOf(x)) > 0} BY <1>3 DEF Heavy
<1> HIDE DEF w, used
<1>7. \A s : (DOMAIN s = D /\ \A x \in D : s[x] \in Int) =>
        /\ h(s) \in Int
        /\ heavy # {} => /\ \E x \in heavy : s[x] <= h(s)
                         /\ \E x \in heavy : s[x] >= h(s)
        /\ heavy = {} => h(s) = 0
        /\ \A other : (/\ DOMAIN other = D /\ \A x \in D : other[x] \in Int
                       /\ \A x \in heavy : s[x] <= other[x]) => h(s) <= h(other)
  BY <1>2, <1>3, <1>4, HealthBetween
<1> HIDE DEF D, h, heavy
<1>8. h(c.scores) \in Int
      /\ (heavy # {} => \E x, y \in heavy : c.scores[x] <= h(c.scores) /\ h(c.scores) <= c.scores[y])
      /\ (heavy = {} => h(c.scores) = 0)
  <2>1. DOMAIN c.scores = D BY DEF D
  <2>2. /\ h(c.scores) \in Int
        /\ heavy # {} => /\ \E x \in heavy : c.scores[x] <= h(c.scores)
                         /\ \E x \in heavy : c.scores[x] >= h(c.scores)
        /\ heavy = {} => h(c.scores) = 0
    BY <1>2, <1>7, <2>1
  <2>3. \A y \in heavy : c.scores[y] >= h(c.scores) => h(c.scores) <= c.scores[y]
    BY <1>2, <1>5, <2>2
  <2> QED BY <2>2, <2>3
<1>9. ASSUME NEW x \in D, NEW s \in Level
      PROVE  LET new == h([c.scores EXCEPT ![x] = s])
             IN /\ x \notin heavy => new = h(c.scores)
                /\ s >= c.scores[x] => new >= h(c.scores)
  <2> DEFINE other == [c.scores EXCEPT ![x] = s]
  <2>1. s \in Int BY CatalogAssumption
  <2>2. DOMAIN other = D /\ DOMAIN c.scores = D BY DEF D
  <2>3. \A y \in D : other[y] \in Int /\ other[y] = IF y = x THEN s ELSE c.scores[y] BY <1>2, <2>1, <2>2
  <2> HIDE DEF other
  <2>4. h(other) \in Int BY <1>7, <2>2, <2>3
  <2>5. ASSUME x \notin heavy PROVE h(other) = h(c.scores)
    <3>1. \A y \in heavy : other[y] = c.scores[y] BY <1>5, <2>3, <2>5
    <3>2. \A y \in heavy : other[y] <= c.scores[y] /\ c.scores[y] <= other[y] BY <1>2, <1>5, <3>1
    <3>3. h(other) <= h(c.scores)
      <4>1. \A y \in D : other[y] \in Int BY <2>3
      <4> QED BY <1>2, <1>7, <2>2, <4>1, <3>2
    <3>4. h(c.scores) <= h(other)
      <4>1. \A y \in D : other[y] \in Int BY <2>3
      <4> QED BY <1>2, <1>7, <2>2, <4>1, <3>2
    <3> QED BY <1>8, <2>4, <3>3, <3>4
  <2>6. ASSUME s >= c.scores[x] PROVE h(other) >= h(c.scores)
    <3>1. \A y \in D : c.scores[y] <= other[y] BY <1>2, <2>1, <2>3, <2>6
    <3>2. \A y \in heavy : c.scores[y] <= other[y] BY <1>5, <3>1
    <3>3. h(c.scores) <= h(other)
      <4>1. \A y \in D : other[y] \in Int BY <2>3
      <4> QED BY <1>2, <1>7, <2>2, <4>1, <3>2
    <3> QED BY <1>8, <2>4, <3>3
  <2> QED BY <2>5, <2>6 DEF other
<1> QED BY <1>6, <1>8, <1>9 DEF AccountScored, D, h, w, used

\* Every input is scored so.
LEMMA EveryInputScored == HealthInit => HealthScored
<1> SUFFICES ASSUME HealthInit PROVE HealthScored OBVIOUS
<1>1. CASE input \in KpiCase
  <2>1. input.of = "kpi" /\ input.value \in Int /\ input.k \in KpiOf
    BY <1>1, CatalogAssumption DEF KpiCase, KpiOf
  <2>2. KpiScored(input.value, input.k) BY <2>1, KpiHolds
  <2> QED BY <2>1, <2>2 DEF HealthScored
<1>2. CASE input \in AccountCase
  <2>1. input.of = "account" BY <1>2 DEF AccountCase
  <2>2. AccountScored(input) BY <1>2, AccountHolds
  <2> QED BY <2>1, <2>2 DEF HealthScored
<1>3. CASE input \in StageCase
  <2>1. input.of = "stages" /\ input.days \in Int BY <1>3, CatalogAssumption DEF StageCase
  <2>2. PICK n \in 1..3 : input.stages \in [1..n -> [min : Day, max : Day \cup {None}]] BY <1>3 DEF StageCase
  <2>3. input.stages \in [1..n -> StageOf] BY <2>2, CatalogAssumption DEF StageOf
  <2>4. StagesFound(input) BY <2>1, <2>2, <2>3, StagesHold
  <2> QED BY <2>1, <2>4 DEF HealthScored
<1> QED BY <1>1, <1>2, <1>3 DEF HealthInit

\* Whatever a catalog, a configuration and the measurements of an account are: a KPI's score
\* lies in the class of its value and follows it, an account's health lies between what it
\* was made from and follows it, and a stage is found as the configuration says
\* (utils/generic_scorer.py, utils/vertical_health.py, utils/lifecycle_stages.py).
THEOREM HealthScoredHolds == HealthSpec => []HealthScored
<1>1. HealthInit => HealthScored BY EveryInputScored
<1>2. HealthScored /\ [FALSE]_input => HealthScored'
  <2> SUFFICES ASSUME HealthScored, input' = input PROVE HealthScored' OBVIOUS
  <2> QED BY DEF HealthScored
<1> QED BY <1>1, <1>2, PTL DEF HealthSpec

-----------------------------------------------------------------------------
(***************************************************************************)
(* What samples of good and bad outcomes argue for, OutlookRules.          *)
(***************************************************************************)
LEMMA TotalIsSummed == ASSUME NEW f, NEW S PROVE Total(f, S) = Summed(f, S)
BY Zenon DEF Total, Summed

\* Every natural number has a root, rounded down.
LEMMA RootIs ==
  ASSUME NEW n \in Nat
  PROVE  Root(n) \in Nat /\ Root(n) * Root(n) <= n
<1> DEFINE Good == {k \in Nat : \E r \in 0..k : r * r <= k /\ (r + 1) * (r + 1) > k}
<1>1. 0 \in Good
  <2>1. 0 * 0 <= 0 /\ (0 + 1) * (0 + 1) > 0 /\ 0 \in 0..0 OBVIOUS
  <2> QED BY <2>1
<1>2. ASSUME NEW k \in Nat, k \in Good PROVE k + 1 \in Good
  <2>1. PICK r \in 0..k : r * r <= k /\ (r + 1) * (r + 1) > k BY <1>2
  <2>2. CASE (r + 1) * (r + 1) > k + 1
    <3>1. r \in 0..(k + 1) /\ r * r <= k + 1 BY <2>1
    <3> QED BY <2>2, <3>1
  <2>3. CASE ~((r + 1) * (r + 1) > k + 1)
    <3>1. PICK q \in Nat : q = r + 1 BY <2>1
    <3>2. q * q <= k + 1 /\ q \in 0..(k + 1) BY <2>1, <2>3, <3>1
    <3>3. (q + 1) * (q + 1) = q * q + 2 * q + 1 BY <3>1
    <3>4. q * q > k BY <2>1, <3>1
    <3>5. (q + 1) * (q + 1) > k + 1
      <4>1. PICK z \in Nat : z = q * q BY <3>1
      <4> QED BY <3>1, <3>3, <3>4, <4>1
    <3> QED BY <3>2, <3>5
  <2> QED BY <2>2, <2>3
<1>3. n \in Good
  <2> HIDE DEF Good
  <2> QED BY <1>1, <1>2, NatInductive
<1>4. \E r \in 0..n : r * r <= n /\ (r + 1) * (r + 1) > n BY <1>3
<1>5. Root(n) \in 0..n /\ Root(n) * Root(n) <= n BY <1>4, Zenon DEF Root
<1> QED BY <1>5

\* The scores of samples, all of which have one.
AllScored(S) == IsFiniteSet(S) /\ \A s \in S : s.score \in Int
ScoreIn(S) == [s \in S |-> s.score]
SquareIn(S) == [s \in S |-> s.score * s.score]

LEMMA SumOfIs ==
  ASSUME NEW S, AllScored(S)
  PROVE  /\ SumOf(S) = Summed(ScoreIn(S), S) /\ SumOf(S) \in Int /\ Cardinality(S) \in Nat
         /\ Squares(S) = Cardinality(S) * Summed(SquareIn(S), S) - SumOf(S) * SumOf(S)
         /\ Summed(SquareIn(S), S) \in Int
<1>1. IsFiniteSet(S) /\ Cardinality(S) \in Nat BY FS_CardinalityType DEF AllScored
<1>2. \A s \in S : ScoreIn(S)[s] \in Int BY DEF ScoreIn, AllScored
<1>3. \A s \in S : SquareIn(S)[s] \in Int BY DEF SquareIn, AllScored
<1>4. SumOf(S) = Summed(ScoreIn(S), S) BY TotalIsSummed, Zenon DEF SumOf, ScoreIn
<1>5. Summed(ScoreIn(S), S) \in Int /\ Summed(SquareIn(S), S) \in Int
  BY <1>1, <1>2, <1>3, SumStep
<1>6. Total([s \in S |-> s.score * s.score], S) = Summed(SquareIn(S), S)
  BY TotalIsSummed, Zenon DEF SquareIn
<1> QED BY <1>1, <1>4, <1>5, <1>6, Zenon DEF Squares

\* A number taken so many times.
LEMMA SumOfOne ==
  ASSUME NEW S, IsFiniteSet(S), NEW f, NEW a \in Int, \A x \in S : f[x] = a
  PROVE  Summed(f, S) = a * Cardinality(S)
<1> DEFINE Good == {T \in SUBSET S : Summed(f, T) = a * Cardinality(T)}
<1>1. {} \in Good BY SumEmpty, FS_EmptySet
<1>2. ASSUME NEW T \in SUBSET S, T # {}, \A x \in T : T \ {x} \in Good
      PROVE  T \in Good
  <2>1. PICK x \in T : TRUE BY <1>2
  <2>2. IsFiniteSet(T) /\ IsFiniteSet(T \ {x}) BY FS_Subset
  <2>3. Summed(f, T) = a + Summed(f, T \ {x}) BY <2>2, SumStep
  <2>4. PICK n \in Nat : n = Cardinality(T \ {x}) BY <2>2, FS_CardinalityType
  <2>5. Cardinality(T) = n + 1
    <3>1. Cardinality(T) \in Nat /\ Cardinality(T \ {x}) = Cardinality(T) - 1
      BY <2>2, FS_CardinalityType, FS_RemoveElement
    <3> QED BY <2>4, <3>1
  <2>6. Summed(f, T \ {x}) = a * n BY <1>2, <2>4
  <2>7. a * (n + 1) = a + a * n OBVIOUS
  <2> QED BY <2>3, <2>5, <2>6, <2>7
<1>3. S \in Good
  <2> HIDE DEF Good
  <2> QED BY <1>1, <1>2, SubsetInduction
<1> QED BY <1>3

\* A member taken out of samples: their number, sum and sum of squares.
LEMMA OneSampleLess ==
  ASSUME NEW S, AllScored(S), NEW T \in SUBSET S, NEW x \in T
  PROVE  \E n \in Nat, s \in Int, q \in Int, v \in Int :
           /\ v = x.score
           /\ Cardinality(T \ {x}) = n /\ Cardinality(T) = n + 1
           /\ Summed(ScoreIn(S), T \ {x}) = s /\ Summed(ScoreIn(S), T) = s + v
           /\ Summed(SquareIn(S), T \ {x}) = q /\ Summed(SquareIn(S), T) = q + v * v
<1>1. IsFiniteSet(T) /\ IsFiniteSet(T \ {x}) BY FS_Subset DEF AllScored
<1>2. \A y \in S : ScoreIn(S)[y] = y.score /\ y.score \in Int /\ SquareIn(S)[y] = y.score * y.score
  BY DEF ScoreIn, SquareIn, AllScored
<1>3. PICK v \in Int : v = x.score BY <1>2
<1>4. \A y \in S : ScoreIn(S)[y] \in Int /\ SquareIn(S)[y] \in Int BY <1>2
<1>5. PICK n \in Nat : n = Cardinality(T \ {x}) BY <1>1, FS_CardinalityType
<1>6. Cardinality(T) = n + 1
  <2>1. Cardinality(T) \in Nat /\ Cardinality(T \ {x}) = Cardinality(T) - 1
    BY <1>1, FS_CardinalityType, FS_RemoveElement
  <2> QED BY <1>5, <2>1
<1>7. PICK s \in Int : s = Summed(ScoreIn(S), T \ {x})
  <2>1. Summed(ScoreIn(S), T \ {x}) \in Int BY <1>1, <1>4, SumStep
  <2> QED BY <2>1
<1>8. PICK q \in Int : q = Summed(SquareIn(S), T \ {x})
  <2>1. Summed(SquareIn(S), T \ {x}) \in Int BY <1>1, <1>4, SumStep
  <2> QED BY <2>1
<1>9. Summed(ScoreIn(S), T) = ScoreIn(S)[x] + s
  <2>1. \A y \in T : ScoreIn(S)[y] \in Int BY <1>4
  <2> QED BY <1>1, <1>7, <2>1, SumStep
<1>10. Summed(SquareIn(S), T) = SquareIn(S)[x] + q
  <2>1. \A y \in T : SquareIn(S)[y] \in Int BY <1>4
  <2> QED BY <1>1, <1>8, <2>1, SumStep
<1>11. ScoreIn(S)[x] = v /\ SquareIn(S)[x] = v * v BY <1>2, <1>3
<1> QED BY <1>3, <1>5, <1>6, <1>7, <1>8, <1>9, <1>10, <1>11

\* The squared distances of scores from a number do not add up to less than nothing ...
LEMMA DistancesAre ==
  ASSUME NEW S, AllScored(S), NEW a \in Int
  PROVE  \A T \in SUBSET S :
           Summed(SquareIn(S), T) - 2 * a * Summed(ScoreIn(S), T) + Cardinality(T) * (a * a) >= 0
<1> TAKE R \in SUBSET S
<1> DEFINE Good == {T \in SUBSET R :
      Summed(SquareIn(S), T) - 2 * a * Summed(ScoreIn(S), T) + Cardinality(T) * (a * a) >= 0}
<1>1. {} \in Good
  <2>1. Summed(SquareIn(S), {}) = 0 /\ Summed(ScoreIn(S), {}) = 0 /\ Cardinality({}) = 0
    BY SumEmpty, FS_EmptySet
  <2>2. 0 - 2 * a * 0 + 0 * (a * a) >= 0 OBVIOUS
  <2> QED BY <2>1, <2>2
<1>2. ASSUME NEW T \in SUBSET R, T # {}, \A x \in T : T \ {x} \in Good
      PROVE  T \in Good
  <2>1. PICK x \in T : TRUE BY <1>2
  <2>2. PICK n \in Nat, s \in Int, q \in Int, v \in Int :
           /\ v = x.score
           /\ Cardinality(T \ {x}) = n /\ Cardinality(T) = n + 1
           /\ Summed(ScoreIn(S), T \ {x}) = s /\ Summed(ScoreIn(S), T) = s + v
           /\ Summed(SquareIn(S), T \ {x}) = q /\ Summed(SquareIn(S), T) = q + v * v
    BY <2>1, OneSampleLess
  <2>3. q - 2 * a * s + n * (a * a) >= 0
    <3>1. T \ {x} \in Good BY <1>2
    <3> QED BY <2>2, <3>1
  <2>4. (q + v * v) - 2 * a * (s + v) + (n + 1) * (a * a)
          = (q - 2 * a * s + n * (a * a)) + (v - a) * (v - a)
    OBVIOUS
  <2>5. (v - a) * (v - a) >= 0 OBVIOUS
  <2>6. (q + v * v) - 2 * a * (s + v) + (n + 1) * (a * a) >= 0
    <3>1. PICK z \in Int : z = (v - a) * (v - a) OBVIOUS
    <3>2. PICK w \in Int : w = q - 2 * a * s + n * (a * a) OBVIOUS
    <3> QED BY <2>3, <2>4, <2>5, <3>1, <3>2
  <2> QED BY <2>2, <2>6
<1>3. R \in Good
  <2> HIDE DEF Good
  <2>1. IsFiniteSet(R) BY FS_Subset DEF AllScored
  <2> QED BY <1>1, <1>2, <2>1, SubsetInduction
<1> QED BY <1>3

\* ... nor from their mean.
LEMMA SquaresAreNat ==
  ASSUME NEW S, AllScored(S)
  PROVE  Squares(S) \in Nat
<1> DEFINE Good == {T \in SUBSET S :
      Cardinality(T) * Summed(SquareIn(S), T) - Summed(ScoreIn(S), T) * Summed(ScoreIn(S), T) >= 0}
<1>1. {} \in Good BY SumEmpty, FS_EmptySet
<1>2. ASSUME NEW T \in SUBSET S, T # {}, \A x \in T : T \ {x} \in Good
      PROVE  T \in Good
  <2>1. PICK x \in T : TRUE BY <1>2
  <2>2. PICK n \in Nat, s \in Int, q \in Int, v \in Int :
           /\ v = x.score
           /\ Cardinality(T \ {x}) = n /\ Cardinality(T) = n + 1
           /\ Summed(ScoreIn(S), T \ {x}) = s /\ Summed(ScoreIn(S), T) = s + v
           /\ Summed(SquareIn(S), T \ {x}) = q /\ Summed(SquareIn(S), T) = q + v * v
    BY <2>1, OneSampleLess
  <2>3. n * q - s * s >= 0
    <3>1. T \ {x} \in Good BY <1>2
    <3> QED BY <2>2, <3>1
  <2>4. q - 2 * v * s + n * (v * v) >= 0
    <3>1. T \ {x} \in SUBSET S OBVIOUS
    <3> QED BY <2>2, <3>1, DistancesAre
  <2>5. (n + 1) * (q + v * v) - (s + v) * (s + v) = (n * q - s * s) + (q - 2 * v * s + n * (v * v))
    OBVIOUS
  <2>6. (n + 1) * (q + v * v) - (s + v) * (s + v) >= 0
    <3>1. PICK z \in Int : z = n * q - s * s OBVIOUS
    <3>2. PICK w \in Int : w = q - 2 * v * s + n * (v * v) OBVIOUS
    <3> QED BY <2>3, <2>4, <2>5, <3>1, <3>2
  <2> QED BY <2>2, <2>6
<1>3. S \in Good
  <2> HIDE DEF Good
  <2>1. IsFiniteSet(S) BY DEF AllScored
  <2> QED BY <1>1, <1>2, <2>1, SubsetInduction
<1>4. Cardinality(S) * Summed(SquareIn(S), S) - Summed(ScoreIn(S), S) * Summed(ScoreIn(S), S) >= 0
  BY <1>3
<1>5. PICK s \in Int, q \in Int, n \in Nat :
        s = SumOf(S) /\ s = Summed(ScoreIn(S), S) /\ q = Summed(SquareIn(S), S) /\ n = Cardinality(S)
  BY SumOfIs
<1>6. Squares(S) = n * q - s * s BY <1>5, SumOfIs
<1> QED BY <1>4, <1>5, <1>6

\* An effect is the other way round when the sides are.
LEMMA EffectTurns ==
  ASSUME NEW good, AllScored(good), NEW bad, AllScored(bad),
         Cardinality(good) > 0, Cardinality(bad) > 0
  PROVE  /\ Effect(good, bad) \in Int
         /\ Effect(bad, good) = -Effect(good, bad)
         /\ SumOf(good) * Cardinality(bad) >= SumOf(bad) * Cardinality(good) => Effect(good, bad) >= 0
<1> DEFINE sdOf(n, k, sg, sb) == IF n + k <= 2 THEN 0
                                 ELSE Root((100 * (sg * k + sb * n)) \div (n * k * (n + k - 2)))
           sizeOf(n, k, sd, gap) == IF sd > 0 THEN (1000 * Apart(gap, 0)) \div (n * k * sd)
                                    ELSE IF Apart(gap, 0) >= n * k THEN 200 ELSE 0
<1>1. PICK n \in Nat, k \in Nat : n = Cardinality(good) /\ k = Cardinality(bad) /\ n > 0 /\ k > 0
  BY SumOfIs
<1>2. PICK a \in Int, b \in Int : a = SumOf(good) /\ b = SumOf(bad) BY SumOfIs
<1>3. PICK p \in Nat, q \in Nat : p = Squares(good) /\ q = Squares(bad) BY SquaresAreNat
<1>4. PICK sd : sd = sdOf(n, k, p, q) OBVIOUS
<1>5. sd \in Nat
  <2>1. CASE n + k <= 2 BY <1>4, <2>1
  <2>2. CASE ~(n + k <= 2)
    <3>1. PICK d \in Nat : d = n * k * (n + k - 2) /\ d > 0
      <4>1. n * k \in Nat /\ n * k > 0 BY <1>1
      <4>2. PICK x \in Nat : x = n * k /\ x > 0 BY <4>1
      <4>3. PICK y \in Nat : y = n + k - 2 /\ y > 0 BY <1>1, <2>2
      <4>4. x * y \in Nat /\ x * y > 0 BY <4>2, <4>3
      <4> QED BY <4>2, <4>3, <4>4
    <3>2. PICK e \in Nat : e = 100 * (p * k + q * n)
      <4>1. p * k \in Nat /\ q * n \in Nat OBVIOUS
      <4> QED BY <4>1
    <3>3. e \div d \in Nat BY <3>1, <3>2
    <3>4. sd = Root(e \div d) BY <1>4, <2>2, <3>1, <3>2
    <3> QED BY <3>3, <3>4, RootIs
  <2> QED BY <2>1, <2>2
<1>6. sd = sdOf(k, n, q, p)
  <2>1. k + n = n + k /\ k * n * (k + n - 2) = n * k * (n + k - 2) /\ q * n + p * k = p * k + q * n
    OBVIOUS
  <2> QED BY <1>4, <2>1
<1>7. PICK gap \in Int : gap = a * k - b * n /\ -gap = b * n - a * k OBVIOUS
<1>8. PICK size : size = sizeOf(n, k, sd, gap) OBVIOUS
<1>9. size \in Nat /\ (gap = 0 => size = 0) /\ size = sizeOf(k, n, sd, -gap)
  <2>1. PICK w \in Nat : w = Apart(gap, 0) /\ w = Apart(-gap, 0) /\ (gap = 0 => w = 0) BY DEF Apart
  <2>2. PICK x \in Nat : x = n * k /\ x = k * n /\ x > 0
    <3>1. n * k \in Nat /\ n * k = k * n /\ n * k > 0 BY <1>1
    <3> QED BY <3>1
  <2>3. size = sizeOf(k, n, sd, -gap) BY <1>8, <2>1, <2>2
  <2>4. size = IF sd > 0 THEN (1000 * w) \div (x * sd) ELSE IF w >= x THEN 200 ELSE 0
    BY <1>8, <2>1, <2>2
  <2>5. CASE sd > 0
    <3>1. PICK d \in Nat : d = x * sd /\ d > 0
      <4>1. x * sd \in Nat /\ x * sd > 0 BY <1>5, <2>2, <2>5
      <4> QED BY <4>1
    <3>2. size = (1000 * w) \div d BY <2>4, <2>5, <3>1
    <3> QED BY <2>1, <2>3, <3>1, <3>2
  <2>6. CASE ~(sd > 0) BY <1>5, <2>1, <2>2, <2>3, <2>4, <2>6
  <2> QED BY <2>5, <2>6
<1>10. Effect(good, bad) = IF gap < 0 THEN -size ELSE size
  BY <1>1, <1>2, <1>3, <1>4, <1>7, <1>8 DEF Effect
<1>11. Effect(bad, good) = IF -gap < 0 THEN -size ELSE size
  BY <1>1, <1>2, <1>3, <1>6, <1>7, <1>9 DEF Effect
<1> HIDE DEF sdOf, sizeOf
<1>12. a * k >= b * n => gap >= 0
  <2>1. PICK x \in Int, y \in Int : x = a * k /\ y = b * n OBVIOUS
  <2> QED BY <1>7, <2>1
<1> QED BY <1>1, <1>2, <1>7, <1>9, <1>10, <1>11, <1>12

LEMMA FactorTurns ==
  ASSUME NEW good, AllScored(good), NEW bad, AllScored(bad)
  PROVE  /\ FactorOf(good, bad) - 200 = 200 - FactorOf(bad, good)
         /\ FactorOf(good, bad) \in 100..300
         /\ SumOf(good) * Cardinality(bad) >= SumOf(bad) * Cardinality(good) =>
              FactorOf(good, bad) >= 200
<1>1. CASE Cardinality(good) >= 3 /\ Cardinality(bad) >= 3
  <2>1. Cardinality(good) \in Nat /\ Cardinality(bad) \in Nat BY SumOfIs
  <2>2. Cardinality(good) > 0 /\ Cardinality(bad) > 0 BY <1>1, <2>1
  <2>3. PICK e \in Int : e = Effect(good, bad) /\ -e = Effect(bad, good) BY <2>2, EffectTurns
  <2>4. SumOf(good) * Cardinality(bad) >= SumOf(bad) * Cardinality(good) => e >= 0
    BY <2>2, <2>3, EffectTurns
  <2>5. FactorOf(good, bad) = IF Apart(e, 0) >= 50 THEN 200 + Clamped(e, -100, 100) ELSE 200
    BY <1>1, <2>3 DEF FactorOf, FactorFrom, Adjusts
  <2>6. FactorOf(bad, good) = IF Apart(-e, 0) >= 50 THEN 200 + Clamped(-e, -100, 100) ELSE 200
    BY <1>1, <2>3 DEF FactorOf, FactorFrom, Adjusts
  <2> QED BY <2>3, <2>4, <2>5, <2>6 DEF Apart, Clamped
<1>2. CASE ~(Cardinality(good) >= 3 /\ Cardinality(bad) >= 3)
  BY <1>2 DEF FactorOf, FactorFrom, Adjusts
<1> QED BY <1>1, <1>2

\* If no good sample has a lower score than a bad one, their mean is no lower.
LEMMA MeansApart ==
  ASSUME NEW good, AllScored(good), NEW bad, AllScored(bad),
         \A x \in good, y \in bad : x.score >= y.score
  PROVE  SumOf(good) * Cardinality(bad) >= SumOf(bad) * Cardinality(good)
<1>1. PICK a \in Int, b \in Int, n \in Nat, k \in Nat :
        a = SumOf(good) /\ b = SumOf(bad) /\ n = Cardinality(good) /\ k = Cardinality(bad)
  BY SumOfIs
<1>2. ASSUME NEW x \in good PROVE b <= k * x.score
  <2>1. PICK v \in Int : v = x.score BY DEF AllScored
  <2> DEFINE flat == [y \in bad |-> v]
  <2>2. Summed(flat, bad) = v * k
    <3>1. \A y \in bad : flat[y] = v OBVIOUS
    <3> HIDE DEF flat
    <3> QED BY <1>1, <3>1, SumOfOne DEF AllScored
  <2>3. Summed(ScoreIn(bad), bad) <= Summed(flat, bad)
    <3>1. \A y \in bad : ScoreIn(bad)[y] \in Int /\ flat[y] \in Int /\ ScoreIn(bad)[y] <= flat[y]
      BY <2>1 DEF ScoreIn, AllScored
    <3> HIDE DEF flat
    <3> QED BY <3>1, SumAtMost DEF AllScored
  <2>4. v * k = k * v OBVIOUS
  <2> HIDE DEF flat
  <2> QED BY <1>1, <2>1, <2>2, <2>3, <2>4, SumOfIs
<1> DEFINE flat == [x \in good |-> b]
           more == [x \in good |-> k * ScoreIn(good)[x]]
<1>3. \A x \in good : ScoreIn(good)[x] \in Int /\ ScoreIn(good)[x] = x.score
  BY DEF ScoreIn, AllScored
<1>4. \A x \in good : flat[x] \in Int /\ more[x] \in Int /\ flat[x] <= more[x] /\ flat[x] = b
                      /\ more[x] = k * ScoreIn(good)[x]
  BY <1>2, <1>3
<1> HIDE DEF flat, more
<1>5. Summed(flat, good) <= Summed(more, good) BY <1>4, SumAtMost DEF AllScored
<1>6. Summed(flat, good) = b * n BY <1>1, <1>4, SumOfOne DEF AllScored
<1>7. Summed(more, good) = k * a
  <2>1. k \in Int OBVIOUS
  <2>2. Summed(more, good) = k * Summed(ScoreIn(good), good) BY <1>3, <1>4, <2>1, SumScaled DEF AllScored
  <2> QED BY <1>1, <2>2, SumOfIs
<1>8. k * a = a * k OBVIOUS
<1> QED BY <1>1, <1>5, <1>6, <1>7, <1>8

\* Exchanging good and bad outcomes turns the factor of a KPI round, the factor keeps its
\* bounds, and better scores before good outcomes are no argument against a KPI, whatever
\* the samples and however many (wizard_c_calibration.py:255-305).
THEOREM EvidenceSymmetricHolds ==
  OutlookSpec => [](outlook.of = "samples" => EvidenceSymmetric(outlook))
<1>1. ASSUME NEW S \in Samples, NEW label PROVE AllScored(ScoresOf(S, label))
  <2>1. IsFiniteSet(S) /\ \A s \in S : s.score \in Int \cup {None} BY SampleAssumption
  <2>2. ScoresOf(S, label) \subseteq S BY DEF ScoresOf
  <2>3. IsFiniteSet(ScoresOf(S, label)) BY <2>1, <2>2, FS_Subset
  <2> QED BY <2>1, <2>3 DEF AllScored, ScoresOf
<1>2. ASSUME NEW S \in Samples
      PROVE  SymmetricOn(ScoresOf(S, "positive"), ScoresOf(S, "negative"))
  <2>1. PICK good, bad : good = ScoresOf(S, "positive") /\ bad = ScoresOf(S, "negative") OBVIOUS
  <2>2. AllScored(good) /\ AllScored(bad) BY <1>1, <2>1
  <2>3. SymmetricOn(good, bad) BY <2>2, FactorTurns, MeansApart DEF SymmetricOn
  <2> QED BY <2>1, <2>3
<1>3. OutlookInit => (outlook.of = "samples" => EvidenceSymmetric(outlook))
  <2> SUFFICES ASSUME OutlookInit, outlook.of = "samples" PROVE EvidenceSymmetric(outlook)
    OBVIOUS
  <2>4. outlook \notin ForecastCase BY DEF ForecastCase
  <2>5. ASSUME NEW w \in Starting,
               outlook \in [of : {"weights"}, factor : [DOMAIN w -> Adjustment], weights : {w}]
        PROVE  FALSE
    BY <2>5
  <2>1. outlook \notin WeightCase BY <2>5 DEF WeightCase
  <2>2. outlook \in SampleCase BY <2>1, <2>4 DEF OutlookInit
  <2>3. outlook.samples \in Samples BY <2>2 DEF SampleCase
  <2> QED BY <1>2, <2>3 DEF EvidenceSymmetric
<1> QED
  <2> DEFINE P == outlook.of = "samples" => EvidenceSymmetric(outlook)
  <2>1. P /\ [FALSE]_outlook => P' BY DEF EvidenceSymmetric
  <2>2. OutlookInit => P BY <1>3
  <2> QED BY <2>1, <2>2, PTL DEF OutlookSpec

-----------------------------------------------------------------------------
(***************************************************************************)
(* The weights they propose, OutlookRules.  Every rounding is off by no    *)
(* more than a half for each place, and what is shared out is one before   *)
(* and after, so no part of it is below nothing, nor a place above the     *)
(* cap, by more than a half for each place; what the cap takes from some   *)
(* and gives to the others keeps that and their order.                     *)
(***************************************************************************)
\* A finite set of integers has a greatest member.
LEMMA MaxIs ==
  ASSUME NEW S, IsFiniteSet(S), S # {}, S \subseteq Int
  PROVE  Max(S) \in S /\ \A y \in S : Max(S) >= y
<1> DEFINE Good == {T \in SUBSET S : T # {} => \E x \in T : \A y \in T : x >= y}
<1>1. {} \in Good OBVIOUS
<1>2. ASSUME NEW T \in SUBSET S, T # {}, \A x \in T : T \ {x} \in Good
      PROVE  T \in Good
  <2>1. PICK z \in T : TRUE BY <1>2
  <2>2. CASE T \ {z} = {} BY <2>1, <2>2
  <2>3. CASE T \ {z} # {}
    <3>1. PICK x \in T \ {z} : \A y \in T \ {z} : x >= y BY <1>2, <2>1, <2>3
    <3>2. CASE x >= z BY <3>1, <3>2
    <3>3. CASE ~(x >= z)
      <4>1. \A y \in T : z >= y BY <3>1, <3>3
      <4> QED BY <2>1, <4>1
    <3> QED BY <3>2, <3>3
  <2> QED BY <2>2, <2>3
<1>3. S \in Good
  <2> HIDE DEF Good
  <2>1. \A T \in SUBSET S : T # {} /\ (\A x \in T : T \ {x} \in Good) => T \in Good BY <1>2
  <2> QED BY <1>1, <2>1, SubsetInduction
<1>4. \E x \in S : \A y \in S : x >= y BY <1>3
<1> QED BY <1>4, Zenon DEF Max

\* A sum of sums.
LEMMA SumBoth ==
  ASSUME NEW S, IsFiniteSet(S), NEW f, NEW g, NEW h,
         \A x \in S : f[x] \in Int /\ g[x] \in Int /\ h[x] = f[x] + g[x]
  PROVE  Summed(h, S) = Summed(f, S) + Summed(g, S)
<1> DEFINE Good == {T \in SUBSET S : Summed(h, T) = Summed(f, T) + Summed(g, T)}
<1>1. {} \in Good BY SumEmpty
<1>2. ASSUME NEW T \in SUBSET S, T # {}, \A x \in T : T \ {x} \in Good
      PROVE  T \in Good
  <2>1. PICK x \in T : TRUE BY <1>2
  <2>2. IsFiniteSet(T) /\ IsFiniteSet(T \ {x}) BY FS_Subset
  <2>3. \A y \in T : f[y] \in Int /\ g[y] \in Int /\ h[y] \in Int OBVIOUS
  <2>4. Summed(f, T) = f[x] + Summed(f, T \ {x}) /\ Summed(f, T \ {x}) \in Int
    BY <2>2, <2>3, SumStep
  <2>5. Summed(g, T) = g[x] + Summed(g, T \ {x}) /\ Summed(g, T \ {x}) \in Int
    BY <2>2, <2>3, SumStep
  <2>6. Summed(h, T) = h[x] + Summed(h, T \ {x}) BY <2>2, <2>3, SumStep
  <2>7. Summed(h, T \ {x}) = Summed(f, T \ {x}) + Summed(g, T \ {x}) BY <1>2
  <2> QED BY <2>3, <2>4, <2>5, <2>6, <2>7
<1>3. S \in Good
  <2> HIDE DEF Good
  <2> QED BY <1>1, <1>2, SubsetInduction
<1> QED BY <1>3

\* A sum of what is so many times another, and a number more.
LEMMA SumLinear ==
  ASSUME NEW S, IsFiniteSet(S), NEW f, NEW g, NEW a \in Int, NEW b \in Int,
         \A x \in S : f[x] \in Int /\ g[x] = a * f[x] + b
  PROVE  Summed(g, S) = a * Summed(f, S) + b * Cardinality(S)
<1> DEFINE Good == {T \in SUBSET S : Summed(g, T) = a * Summed(f, T) + b * Cardinality(T)}
<1>1. {} \in Good BY SumEmpty, FS_EmptySet
<1>2. ASSUME NEW T \in SUBSET S, T # {}, \A x \in T : T \ {x} \in Good
      PROVE  T \in Good
  <2>1. PICK x \in T : TRUE BY <1>2
  <2>2. IsFiniteSet(T) /\ IsFiniteSet(T \ {x}) BY FS_Subset
  <2>3. \A y \in T : f[y] \in Int /\ g[y] \in Int OBVIOUS
  <2>4. PICK m \in Int, s \in Int : m = f[x] /\ s = Summed(f, T \ {x})
    <3>1. Summed(f, T \ {x}) \in Int BY <2>2, <2>3, SumStep
    <3> QED BY <2>3, <3>1
  <2>5. Summed(f, T) = m + s BY <2>2, <2>3, <2>4, SumStep
  <2>6. Summed(g, T) = (a * m + b) + Summed(g, T \ {x}) BY <2>2, <2>3, <2>4, SumStep
  <2>7. PICK n \in Nat : n = Cardinality(T \ {x}) BY <2>2, FS_CardinalityType
  <2>8. Cardinality(T) = n + 1
    <3>1. Cardinality(T) \in Nat /\ Cardinality(T \ {x}) = Cardinality(T) - 1
      BY <2>2, FS_CardinalityType, FS_RemoveElement
    <3> QED BY <2>7, <3>1
  <2>9. Summed(g, T \ {x}) = a * s + b * n BY <1>2, <2>4, <2>7
  <2>10. (a * m + b) + (a * s + b * n) = a * (m + s) + b * (n + 1) OBVIOUS
  <2> QED BY <2>5, <2>6, <2>8, <2>9, <2>10
<1>3. S \in Good
  <2> HIDE DEF Good
  <2> QED BY <1>1, <1>2, SubsetInduction
<1> QED BY <1>3

\* Numbers none of which is more than d apart from nothing add up to no more than d each.
LEMMA SumWithin ==
  ASSUME NEW S, IsFiniteSet(S), NEW f, NEW d \in Nat,
         \A x \in S : f[x] \in Int /\ -d <= f[x] /\ f[x] <= d
  PROVE  -(d * Cardinality(S)) <= Summed(f, S) /\ Summed(f, S) <= d * Cardinality(S)
<1> DEFINE high == [x \in S |-> d]
           low == [x \in S |-> -d]
<1>1. \A x \in S : high[x] = d /\ low[x] = -d OBVIOUS
<1> HIDE DEF high, low
<1>2. Summed(high, S) = d * Cardinality(S) BY <1>1, SumOfOne
<1>3. Summed(low, S) = (-d) * Cardinality(S)
  <2>1. PICK m \in Int : m = -d OBVIOUS
  <2>2. \A x \in S : low[x] = m BY <1>1, <2>1
  <2> QED BY <2>1, <2>2, SumOfOne
<1>4. Summed(f, S) <= Summed(high, S) BY <1>1, SumAtMost
<1>5. Summed(low, S) <= Summed(f, S)
  <2>1. \A x \in S : low[x] \in Int /\ f[x] \in Int /\ low[x] <= f[x] BY <1>1
  <2> QED BY <2>1, SumAtMost
<1>6. PICK n \in Nat : n = Cardinality(S) BY FS_CardinalityType
<1>7. (-d) * n = -(d * n) OBVIOUS
<1> QED BY <1>2, <1>3, <1>4, <1>5, <1>6, <1>7

\* What is shared out, in proportion to raw: by places, not all of it nothing.
Shares(raw, T) ==
  /\ DOMAIN raw \subseteq Int /\ IsFiniteSet(DOMAIN raw) /\ DOMAIN raw # {}
  /\ raw = [k \in DOMAIN raw |-> raw[k]]
  /\ \A k \in DOMAIN raw : raw[k] \in Int
  /\ T \in Int /\ T > 0 /\ Summed(raw, DOMAIN raw) = T

\* Rounding is off by no more than half for any place but the last, by as many halves as
\* there are others for the last, and shares out one.
Rounded(r, raw, T) ==
  LET D == DOMAIN raw
      off(k) == 2 * (T * r[k]) - 2 * (Unit * raw[k])
  IN /\ r = [k \in D |-> r[k]]
     /\ \A k \in D : r[k] \in Int
     /\ Summed(r, D) = Unit
     /\ \A k \in D : k # Max(D) => -T < off(k) /\ off(k) <= T
     /\ -(T * (Cardinality(D) - 1)) <= off(Max(D)) /\ off(Max(D)) <= T * (Cardinality(D) - 1)

LEMMA RoundToOneIs ==
  ASSUME NEW raw, NEW T, Shares(raw, T)
  PROVE  Rounded(RoundToOne(raw), raw, T)
<1> DEFINE D == DOMAIN raw
           out == [k \in D |-> (2 * raw[k] * Unit + T) \div (2 * T)]
           r == RoundToOne(raw)
<1>1. /\ D \subseteq Int /\ IsFiniteSet(D) /\ D # {} /\ T \in Int /\ T > 0 /\ Summed(raw, D) = T
      /\ \A k \in D : raw[k] \in Int
  BY DEF Shares
<1>2. PICK last \in D : last = Max(D) BY <1>1, MaxIs
<1>3. Unit \in Int BY WeightAssumption
<1>4. \A k \in D : out[k] = (2 * raw[k] * Unit + T) \div (2 * T) OBVIOUS
<1>5. ASSUME NEW k \in D
      PROVE  /\ out[k] \in Int
             /\ -T < 2 * (T * out[k]) - 2 * (Unit * raw[k])
             /\ 2 * (T * out[k]) - 2 * (Unit * raw[k]) <= T
  <2>1. PICK v \in Int, d \in Int : v = 2 * raw[k] * Unit + T /\ d = 2 * T /\ d > 0 BY <1>1, <1>3
  <2>2. PICK q \in Int : q = v \div d /\ q = out[k] BY <1>4, <2>1, DivFloor
  <2>3. q * d <= v BY <2>1, <2>2, DivFloor
  <2>4. ~((q + 1) * d <= v) BY <2>1, <2>2, DivFloor
  <2>5. PICK y \in Int : y = Unit * raw[k] /\ 2 * raw[k] * Unit = 2 * y BY <1>1, <1>3
  <2>6. PICK z \in Int : z = T * q BY <1>1
  <2>7. q * d = 2 * z /\ (q + 1) * d = 2 * z + 2 * T BY <1>1, <2>1, <2>6
  <2> QED BY <1>1, <2>1, <2>2, <2>3, <2>4, <2>5, <2>6, <2>7
<1>6. PICK s : s = Summed(out, D) OBVIOUS
<1>7. r = [out EXCEPT ![last] = @ + Unit - s]
  <2>1. Total(raw, DOMAIN raw) = T BY <1>1, TotalIsSummed
  <2>2. Total(out, DOMAIN out) = s
    <3>1. DOMAIN out = D OBVIOUS
    <3> HIDE DEF out
    <3> QED BY <1>6, <3>1, TotalIsSummed
  <2>3. T # 0 BY <1>1
  <2> QED BY <1>2, <2>1, <2>2, <2>3 DEF RoundToOne
<1>8. DOMAIN out = D OBVIOUS
<1>9. s \in Int /\ s = out[last] + Summed(out, D \ {last})
  <2> HIDE DEF out
  <2> QED BY <1>1, <1>5, <1>6, SumStep
<1>10. r = [k \in D |-> r[k]] /\ (\A k \in D : k # last => r[k] = out[k]) /\ r[last] = out[last] + Unit - s
  <2> HIDE DEF out, r
  <2>1. r = [k \in D |-> IF k = last THEN out[last] + Unit - s ELSE out[k]] BY <1>7, <1>8
  <2> QED BY <2>1
<1>0. r = RoundToOne(raw) OBVIOUS
<1> HIDE DEF out, r
<1>11. \A k \in D : r[k] \in Int BY <1>3, <1>5, <1>9, <1>10
<1>12. PICK others \in Int : others = Summed(out, D \ {last}) /\ others = Summed(r, D \ {last})
  <2>1. IsFiniteSet(D \ {last}) BY <1>1, FS_Subset
  <2>2. \A k \in D \ {last} : out[k] \in Int BY <1>5
  <2>3. Summed(out, D \ {last}) \in Int BY <2>1, <2>2, SumStep
  <2>4. Summed(r, D \ {last}) = Summed(out, D \ {last}) BY <1>10, <2>1, SumSame
  <2> QED BY <2>3, <2>4
<1>13. r[last] = Unit - others BY <1>3, <1>5, <1>9, <1>10, <1>12
<1>14. Summed(r, D) = Unit
  <2>1. Summed(r, D) = r[last] + Summed(r, D \ {last}) BY <1>1, <1>11, SumStep
  <2> QED BY <1>3, <1>12, <1>13, <2>1
<1>15. \A k \in D : k # last => /\ -T < 2 * (T * r[k]) - 2 * (Unit * raw[k])
                                /\ 2 * (T * r[k]) - 2 * (Unit * raw[k]) <= T
  BY <1>5, <1>10
<1> DEFINE off == [k \in D |-> 2 * (T * r[k]) - 2 * (Unit * raw[k])]
           double == [k \in D |-> 2 * T * r[k] + 0]
<1>16. PICK n \in Nat : n = Cardinality(D) /\ Cardinality(D \ {last}) = n - 1
  <2>1. Cardinality(D) \in Nat /\ Cardinality(D \ {last}) = Cardinality(D) - 1
    BY <1>1, FS_CardinalityType, FS_RemoveElement
  <2> QED BY <2>1
<1>17. \A k \in D : off[k] = 2 * (T * r[k]) - 2 * (Unit * raw[k]) OBVIOUS
<1>18. \A k \in D : off[k] \in Int BY <1>1, <1>3, <1>11
<1> HIDE DEF off
<1>19. /\ -(T * (n - 1)) <= Summed(off, D \ {last})
       /\ Summed(off, D \ {last}) <= T * (n - 1)
       /\ Summed(off, D \ {last}) \in Int
  <2>1. IsFiniteSet(D \ {last}) BY <1>1, FS_Subset
  <2>2. \A k \in D \ {last} : off[k] \in Int /\ -T <= off[k] /\ off[k] <= T
    <3> SUFFICES ASSUME NEW k \in D \ {last} PROVE off[k] \in Int /\ -T <= off[k] /\ off[k] <= T
      OBVIOUS
    <3>1. -T < off[k] /\ off[k] <= T BY <1>15, <1>17
    <3> QED BY <1>1, <1>18, <3>1
  <2>3. T \in Nat BY <1>1
  <2>4. Summed(off, D \ {last}) \in Int BY <2>1, <2>2, SumStep
  <2> QED BY <1>16, <2>1, <2>2, <2>3, <2>4, SumWithin
<1>20. Summed(off, D) = 0
  <2> DEFINE a == [k \in D |-> 2 * (T * r[k])]
             b == [k \in D |-> (-2 * Unit) * raw[k]]
  <2>1. Summed(a, D) = (2 * T) * Unit
    <3>1. \A k \in D : r[k] \in Int /\ a[k] = (2 * T) * r[k] BY <1>1, <1>11
    <3>2. 2 * T \in Int BY <1>1
    <3> HIDE DEF a
    <3> QED BY <1>1, <1>14, <3>1, <3>2, SumScaled
  <2>2. Summed(b, D) = (-2 * Unit) * T
    <3>1. \A k \in D : raw[k] \in Int /\ b[k] = (-2 * Unit) * raw[k] BY <1>1
    <3>2. -2 * Unit \in Int BY <1>3
    <3> HIDE DEF b
    <3> QED BY <1>1, <3>1, <3>2, SumScaled
  <2>3. Summed(off, D) = Summed(a, D) + Summed(b, D)
    <3>1. \A k \in D : a[k] \in Int /\ b[k] \in Int /\ off[k] = a[k] + b[k]
      <4> TAKE k \in D
      <4>1. PICK x \in Int, y \in Int : x = raw[k] /\ y = r[k] BY <1>1, <1>11
      <4>2. a[k] = 2 * (T * y) /\ b[k] = (-2 * Unit) * x BY <4>1
      <4>3. off[k] = 2 * (T * y) - 2 * (Unit * x) BY <1>17, <4>1
      <4>4. (-2 * Unit) * x = -(2 * (Unit * x)) BY <1>3, <4>1
      <4>5. T * y \in Int /\ Unit * x \in Int BY <1>1, <1>3, <4>1
      <4> HIDE DEF a, b
      <4> QED BY <4>2, <4>3, <4>4, <4>5
    <3> HIDE DEF a, b
    <3> QED BY <1>1, <3>1, SumBoth
  <2>4. (2 * T) * Unit + (-2 * Unit) * T = 0 BY <1>1, <1>3
  <2> HIDE DEF a, b
  <2> QED BY <2>1, <2>2, <2>3, <2>4
<1>21. off[last] = -Summed(off, D \ {last})
  <2>1. Summed(off, D) = off[last] + Summed(off, D \ {last}) BY <1>1, <1>18, SumStep
  <2> QED BY <1>18, <1>19, <1>20, <2>1
<1>22. -(T * (n - 1)) <= off[last] /\ off[last] <= T * (n - 1)
  <2>1. PICK x \in Int, y \in Int : x = T * (n - 1) /\ y = Summed(off, D \ {last}) BY <1>1, <1>19
  <2> QED BY <1>19, <1>21, <2>1
<1>23. /\ -(T * (Cardinality(D) - 1)) <= 2 * (T * r[Max(D)]) - 2 * (Unit * raw[Max(D)])
       /\ 2 * (T * r[Max(D)]) - 2 * (Unit * raw[Max(D)]) <= T * (Cardinality(D) - 1)
  BY <1>2, <1>16, <1>17, <1>22
<1>24. \A k \in D : k # Max(D) => /\ -T < 2 * (T * r[k]) - 2 * (Unit * raw[k])
                                  /\ 2 * (T * r[k]) - 2 * (Unit * raw[k]) <= T
  BY <1>2, <1>15
<1>25. Rounded(r, raw, T) BY <1>10, <1>11, <1>14, <1>23, <1>24 DEF Rounded
<1> QED BY <1>0, <1>25

\* Two places, of which one has no less to share: it gets no less, up to a half for each place.
LEMMA RoundedInOrder ==
  ASSUME NEW raw, NEW T, Shares(raw, T), NEW r, Rounded(r, raw, T),
         NEW j \in DOMAIN raw, NEW k \in DOMAIN raw
  PROVE  2 * (T * r[j]) - 2 * (T * r[k])
           >= 2 * (Unit * raw[j]) - 2 * (Unit * raw[k]) - T * Cardinality(DOMAIN raw)
<1>1. PICK D : D = DOMAIN raw OBVIOUS
<1>2. PICK last \in D : last = Max(D) BY <1>1, MaxIs DEF Shares
<1>3. PICK n \in Nat : n = Cardinality(D) BY <1>1, FS_CardinalityType DEF Shares
<1>4. T \in Int /\ T > 0 /\ Unit \in Int /\ j \in D /\ k \in D BY <1>1, WeightAssumption DEF Shares
<1>5. PICK a \in Int, b \in Int : a = 2 * (T * r[j]) - 2 * (Unit * raw[j])
                                 /\ b = 2 * (T * r[k]) - 2 * (Unit * raw[k])
  <2>1. r[j] \in Int /\ r[k] \in Int /\ raw[j] \in Int /\ raw[k] \in Int
    BY <1>1, <1>4 DEF Shares, Rounded
  <2>2. T * r[j] \in Int /\ T * r[k] \in Int /\ Unit * raw[j] \in Int /\ Unit * raw[k] \in Int
    BY <1>4, <2>1
  <2> QED BY <2>2
<1>6. /\ j # last => -T < a /\ a <= T
      /\ k # last => -T < b /\ b <= T
      /\ j = last => -(T * (n - 1)) <= a /\ a <= T * (n - 1)
      /\ k = last => -(T * (n - 1)) <= b /\ b <= T * (n - 1)
  BY <1>1, <1>2, <1>3, <1>4, <1>5 DEF Rounded
<1>7. T * (n - 1) = T * n - T BY <1>4
<1>8. n >= 1 /\ (j # k => n >= 2)
  <2>1. IsFiniteSet(D) BY <1>1 DEF Shares
  <2>2. IsFiniteSet(D \ {j}) /\ Cardinality(D \ {j}) = n - 1 /\ Cardinality(D \ {j}) \in Nat
    BY <1>3, <1>4, <2>1, FS_RemoveElement, FS_CardinalityType
  <2>3. ASSUME j # k PROVE Cardinality(D \ {j}) - 1 \in Nat
    <3>1. k \in D \ {j} BY <1>4, <2>3
    <3>2. Cardinality((D \ {j}) \ {k}) = Cardinality(D \ {j}) - 1 /\ IsFiniteSet((D \ {j}) \ {k})
      BY <2>2, <3>1, FS_RemoveElement
    <3> QED BY <3>2, FS_CardinalityType
  <2> QED BY <2>2, <2>3
<1>9. PICK z \in Int : z = T * n BY <1>4
<1>10. n >= 2 => z >= 2 * T
  <2>1. n >= 2 => T * n >= T * 2 BY <1>4
  <2> QED BY <1>4, <1>9, <2>1
<1>11. a - b >= -z
  <2>1. CASE j = k
    <3>1. a = b BY <1>5, <2>1
    <3>2. z >= 0 BY <1>4, <1>9
    <3> QED BY <3>1, <3>2
  <2>2. CASE j # k /\ j # last /\ k # last BY <1>4, <1>6, <1>8, <1>10, <2>2
  <2>3. CASE j # k /\ j = last BY <1>4, <1>6, <1>7, <1>9, <2>3
  <2>4. CASE j # k /\ k = last BY <1>4, <1>6, <1>7, <1>9, <2>4
  <2> QED BY <2>1, <2>2, <2>3, <2>4
<1>12. PICK x \in Int, y \in Int, u \in Int, v \in Int :
         x = T * r[j] /\ y = T * r[k] /\ u = Unit * raw[j] /\ v = Unit * raw[k]
  <2>1. r[j] \in Int /\ r[k] \in Int /\ raw[j] \in Int /\ raw[k] \in Int
    BY <1>1, <1>4 DEF Shares, Rounded
  <2> QED BY <1>4, <2>1
<1>13. a = 2 * x - 2 * u /\ b = 2 * y - 2 * v BY <1>5, <1>12
<1>14. 2 * x - 2 * y >= 2 * u - 2 * v - z BY <1>11, <1>13
<1> QED BY <1>1, <1>3, <1>9, <1>12, <1>14

\* And one place is off by no more than a half for each.
LEMMA RoundedNear ==
  ASSUME NEW raw, NEW T, Shares(raw, T), NEW r, Rounded(r, raw, T), NEW k \in DOMAIN raw
  PROVE  /\ 2 * (T * r[k]) >= 2 * (Unit * raw[k]) - T * Cardinality(DOMAIN raw)
         /\ 2 * (T * r[k]) <= 2 * (Unit * raw[k]) + T * Cardinality(DOMAIN raw)
<1>1. PICK D : D = DOMAIN raw OBVIOUS
<1>2. PICK last \in D : last = Max(D) BY <1>1, MaxIs DEF Shares
<1>3. PICK n \in Nat : n = Cardinality(D) BY <1>1, FS_CardinalityType DEF Shares
<1>4. T \in Int /\ T > 0 /\ Unit \in Int /\ k \in D BY <1>1, WeightAssumption DEF Shares
<1>5. PICK x \in Int, u \in Int : x = T * r[k] /\ u = Unit * raw[k]
  <2>1. r[k] \in Int /\ raw[k] \in Int BY <1>1, <1>4 DEF Shares, Rounded
  <2> QED BY <1>4, <2>1
<1>6. /\ k # last => -T < 2 * x - 2 * u /\ 2 * x - 2 * u <= T
      /\ k = last => -(T * (n - 1)) <= 2 * x - 2 * u /\ 2 * x - 2 * u <= T * (n - 1)
  BY <1>1, <1>2, <1>3, <1>4, <1>5 DEF Rounded
<1>7. n >= 1
  <2>1. IsFiniteSet(D) BY <1>1 DEF Shares
  <2>2. Cardinality(D \ {k}) = n - 1 /\ Cardinality(D \ {k}) \in Nat
    BY <1>3, <1>4, <2>1, FS_RemoveElement, FS_CardinalityType
  <2> QED BY <2>2
<1>8. PICK z \in Int : z = T * n BY <1>4
<1>9. T * (n - 1) = z - T BY <1>4, <1>8
<1>10. z >= T
  <2>1. T * n >= T * 1 BY <1>4, <1>7
  <2> QED BY <1>4, <1>8, <2>1
<1>11. 2 * x >= 2 * u - z /\ 2 * x <= 2 * u + z BY <1>4, <1>6, <1>9, <1>10
<1> QED BY <1>1, <1>3, <1>5, <1>8, <1>11

\* Numbers with a common factor, without it.
LEMMA Divided ==
  ASSUME NEW T \in Int, T > 0, NEW x \in Int, NEW y \in Int, T * x <= T * y
  PROVE  x <= y
<1> SUFFICES ASSUME y + 1 <= x PROVE FALSE
  OBVIOUS
<1>1. T * (y + 1) <= T * x OBVIOUS
<1>2. T * (y + 1) = T * y + T OBVIOUS
<1>3. PICK a \in Int, b \in Int : a = T * x /\ b = T * y OBVIOUS
<1> QED BY <1>1, <1>2, <1>3

\* A sum, of a part and of the rest.
LEMMA SumSplit ==
  ASSUME NEW S, IsFiniteSet(S), NEW f, \A x \in S : f[x] \in Int, NEW A \in SUBSET S
  PROVE  /\ Summed(f, A) \in Int /\ Summed(f, S \ A) \in Int
         /\ Summed(f, S) = Summed(f, A) + Summed(f, S \ A)
<1> DEFINE Good == {T \in SUBSET A : Summed(f, S) = Summed(f, T) + Summed(f, S \ T)}
<1>1. {} \in Good
  <2>1. S \ {} = S /\ Summed(f, S) \in Int BY SumStep
  <2> QED BY <2>1, SumEmpty
<1>2. ASSUME NEW T \in SUBSET A, T # {}, \A x \in T : T \ {x} \in Good
      PROVE  T \in Good
  <2>1. PICK x \in T : TRUE BY <1>2
  <2>2. PICK rest : rest = S \ (T \ {x}) OBVIOUS
  <2>3. IsFiniteSet(T) /\ IsFiniteSet(rest) /\ x \in rest /\ rest \subseteq S /\ rest \ {x} = S \ T
    BY <2>1, <2>2, FS_Subset
  <2>4. f[x] \in Int /\ (\A y \in T : f[y] \in Int) /\ \A y \in rest : f[y] \in Int BY <2>1, <2>3
  <2>5. Summed(f, T) = f[x] + Summed(f, T \ {x}) BY <2>1, <2>3, <2>4, SumStep
  <2>6. Summed(f, T \ {x}) \in Int
    <3>1. IsFiniteSet(T \ {x}) /\ \A y \in T \ {x} : f[y] \in Int BY <2>3, <2>4, FS_Subset
    <3> QED BY <3>1, SumStep
  <2>7. Summed(f, rest) = f[x] + Summed(f, rest \ {x}) BY <2>3, <2>4, SumStep
  <2>8. Summed(f, rest \ {x}) \in Int
    <3>1. IsFiniteSet(rest \ {x}) /\ \A y \in rest \ {x} : f[y] \in Int BY <2>3, <2>4, FS_Subset
    <3> QED BY <3>1, SumStep
  <2>9. Summed(f, S) = Summed(f, T \ {x}) + Summed(f, rest) BY <1>2, <2>2
  <2>10. Summed(f, S) = Summed(f, T) + Summed(f, S \ T)
    <3>1. PICK v \in Int, a \in Int, b \in Int :
            v = f[x] /\ a = Summed(f, T \ {x}) /\ b = Summed(f, rest \ {x})
      BY <2>4, <2>6, <2>8
    <3>2. Summed(f, T) = v + a /\ Summed(f, rest) = v + b BY <2>5, <2>7, <3>1
    <3>3. Summed(f, S) = a + (v + b) BY <2>9, <3>1, <3>2
    <3>4. Summed(f, S \ T) = b BY <2>3, <3>1
    <3> QED BY <3>1, <3>2, <3>3, <3>4
  <2> QED BY <2>10
<1>3. A \in Good
  <2> HIDE DEF Good
  <2>1. IsFiniteSet(A) BY FS_Subset
  <2> QED BY <1>1, <1>2, <2>1, SubsetInduction
<1>4. IsFiniteSet(A) /\ IsFiniteSet(S \ A) BY FS_Subset
<1>5. (\A x \in A : f[x] \in Int) /\ (\A x \in S \ A : f[x] \in Int) OBVIOUS
<1>6. Summed(f, A) \in Int /\ Summed(f, S \ A) \in Int BY <1>4, <1>5, SumStep
<1> QED BY <1>3, <1>6

\* Shares of one, by places, of which no part is below nothing by more than a half for each
\* place.
ProposedShares(norm) ==
  LET D == DOMAIN norm IN
  /\ D \subseteq Int /\ IsFiniteSet(D) /\ D # {}
  /\ norm = [k \in D |-> norm[k]]
  /\ \A k \in D : norm[k] \in Int
  /\ Summed(norm, D) = Unit
  /\ \A S \in SUBSET D : 2 * Summed(norm, S) >= -Cardinality(D)

LEMMA RoundedProposed ==
  ASSUME NEW raw, NEW T, Shares(raw, T), \A k \in DOMAIN raw : raw[k] >= 0,
         NEW r, Rounded(r, raw, T)
  PROVE  ProposedShares(r) /\ DOMAIN r = DOMAIN raw
<1>1. PICK D : D = DOMAIN raw OBVIOUS
<1>2. /\ D \subseteq Int /\ IsFiniteSet(D) /\ D # {} /\ T \in Int /\ T > 0 /\ Unit \in Int /\ Unit > 0
      /\ \A k \in D : raw[k] \in Int /\ raw[k] >= 0
  BY <1>1, WeightAssumption DEF Shares
<1>3. r = [k \in D |-> r[k]] /\ (\A k \in D : r[k] \in Int) /\ Summed(r, D) = Unit
  BY <1>1 DEF Rounded
<1>4. DOMAIN r = D BY <1>3
<1>5. PICK last \in D : last = Max(D) BY <1>2, MaxIs
<1>6. PICK n \in Nat : n = Cardinality(D) BY <1>2, FS_CardinalityType
<1>7. ASSUME NEW k \in D, k # last PROVE r[k] >= 0
  <2>1. -T < 2 * (T * r[k]) - 2 * (Unit * raw[k]) BY <1>1, <1>5, <1>7 DEF Rounded
  <2>2. PICK x \in Int, u \in Int : x = T * r[k] /\ u = Unit * raw[k] BY <1>2, <1>3
  <2>3. u >= 0 BY <1>2, <2>2
  <2>4. -T < 2 * x BY <1>2, <2>1, <2>2, <2>3
  <2>5. SUFFICES ASSUME r[k] + 1 <= 0 PROVE FALSE BY <1>3
  <2>6. T * (r[k] + 1) <= T * 0 BY <1>2, <1>3, <2>5
  <2>7. T * (r[k] + 1) = x + T BY <1>2, <1>3, <2>2
  <2> QED BY <1>2, <2>4, <2>6, <2>7
<1>8. 2 * r[last] >= -n
  <2>1. 2 * (T * r[last]) >= 2 * (Unit * raw[last]) - T * n
    BY <1>1, <1>6, RoundedNear
  <2>2. PICK u \in Int : u = Unit * raw[last] /\ u >= 0 BY <1>2
  <2>3. PICK y \in Int, z \in Int : y = 2 * r[last] /\ z = -n BY <1>3
  <2>4. T * y = 2 * (T * r[last]) BY <1>2, <1>3, <2>3
  <2>5. T * z = -(T * n) BY <1>2, <2>3
  <2>6. T * n \in Int /\ T * r[last] \in Int BY <1>2, <1>3
  <2>7. T * z <= T * y BY <2>1, <2>2, <2>4, <2>5, <2>6
  <2>8. z <= y BY <1>2, <2>7, Divided
  <2> QED BY <2>3, <2>8
<1>9. ASSUME NEW S \in SUBSET D PROVE 2 * Summed(r, S) >= -n
  <2> DEFINE others == S \ {last}
             zero == [x \in D |-> 0]
  <2>1. IsFiniteSet(S) /\ IsFiniteSet(others) BY <1>2, FS_Subset
  <2>2. Summed(r, others) >= 0 /\ Summed(r, others) \in Int
    <3>1. \A x \in others : r[x] \in Nat BY <1>3, <1>7
    <3> HIDE DEF others
    <3>2. Summed(r, others) \in Nat BY <2>1, <3>1, SumNat
    <3> QED BY <3>2
  <2>3. CASE last \in S
    <3>1. Summed(r, S) = r[last] + Summed(r, others) BY <1>3, <2>1, <2>3, SumStep
    <3> HIDE DEF others
    <3> QED BY <1>3, <1>8, <2>2, <3>1
  <2>4. CASE last \notin S
    <3>1. others = S BY <2>4
    <3>2. PICK z \in Int : z = Summed(r, others) /\ z >= 0 BY <2>2
    <3>3. Summed(r, S) = z BY <3>1, <3>2
    <3> QED BY <3>2, <3>3
  <2> QED BY <2>3, <2>4
<1> QED BY <1>1, <1>2, <1>3, <1>4, <1>6, <1>9 DEF ProposedShares

\* ProposedShares shares, some over the cap: what they have over it, and how they come out.
PastCap(norm) == {k \in DOMAIN norm : norm[k] > Cap}
Excess(norm) == Summed([k \in PastCap(norm) |-> norm[k] - Cap], PastCap(norm))

\* Of three or more not all are over; the shares redone are so many times Unit as there are
\* others, and none is above the cap, nor far below nothing.
Redone(norm, u) ==
  [k \in DOMAIN norm |-> IF k \in PastCap(norm) THEN Cap * u ELSE norm[k] * u + Excess(norm)]

LEMMA SomeUnder ==
  ASSUME NEW norm, ProposedShares(norm), Cardinality(DOMAIN norm) >= 3
  PROVE  /\ Cardinality(DOMAIN norm \ PastCap(norm)) \in Nat \ {0}
         /\ Excess(norm) \in Nat
         /\ IsFiniteSet(PastCap(norm)) /\ PastCap(norm) \subseteq DOMAIN norm
<1>1. PICK D, over : D = DOMAIN norm /\ over = PastCap(norm) OBVIOUS
<1>2. /\ D \subseteq Int /\ IsFiniteSet(D) /\ (\A k \in D : norm[k] \in Int) /\ Summed(norm, D) = Unit
      /\ Unit \in Int /\ Unit > 0 /\ Cap \in Nat /\ 2 * Cap >= Unit
  BY <1>1, WeightAssumption DEF ProposedShares
<1>3. over \subseteq D /\ (\A k \in D : k \in over <=> norm[k] > Cap) BY <1>1 DEF PastCap
<1>4. IsFiniteSet(over) /\ IsFiniteSet(D \ over) BY <1>2, <1>3, FS_Subset
<1>5. D \ over # {}
  <2> SUFFICES ASSUME D \ over = {} PROVE FALSE OBVIOUS
  <2>1. \A k \in D : norm[k] >= Cap + 1 BY <1>2, <1>3
  <2> DEFINE cap == [k \in D |-> Cap + 1]
  <2>2. \A k \in D : cap[k] = Cap + 1 OBVIOUS
  <2> HIDE DEF cap
  <2>3. Summed(cap, D) = (Cap + 1) * Cardinality(D)
    <3>1. Cap + 1 \in Int BY <1>2
    <3> QED BY <1>2, <2>2, <3>1, SumOfOne
  <2>4. Summed(cap, D) <= Summed(norm, D)
    <3>1. \A k \in D : cap[k] \in Int /\ norm[k] \in Int /\ cap[k] <= norm[k] BY <1>2, <2>1, <2>2
    <3> QED BY <1>2, <3>1, SumAtMost
  <2>5. PICK n \in Nat : n = Cardinality(D) /\ n >= 3 BY <1>1, <1>2, FS_CardinalityType
  <2>6. (Cap + 1) * n >= (Cap + 1) * 3 BY <1>2, <2>5
  <2>7. PICK z \in Int : z = (Cap + 1) * n BY <1>2, <2>5
  <2> QED BY <1>2, <2>3, <2>4, <2>5, <2>6, <2>7
<1>6. Cardinality(D \ over) \in Nat /\ Cardinality(D \ over) # 0
  BY <1>4, <1>5, FS_CardinalityType, FS_EmptySet
<1>7. Excess(norm) \in Nat
  <2> DEFINE more == [k \in over |-> norm[k] - Cap]
  <2>1. \A k \in over : more[k] \in Nat BY <1>2, <1>3
  <2>2. Excess(norm) = Summed(more, over) BY <1>1, Zenon DEF Excess
  <2> HIDE DEF more
  <2> QED BY <1>4, <2>1, <2>2, SumNat
<1> QED BY <1>1, <1>3, <1>4, <1>6, <1>7

LEMMA RedoneShares ==
  ASSUME NEW norm, ProposedShares(norm), Cardinality(DOMAIN norm) >= 3,
         NEW u, u = Cardinality(DOMAIN norm \ PastCap(norm))
  PROVE  Shares(Redone(norm, u), u * Unit) /\ DOMAIN Redone(norm, u) = DOMAIN norm
<1>1. PICK D, over, ex : D = DOMAIN norm /\ over = PastCap(norm) /\ ex = Excess(norm) OBVIOUS
<1>2. /\ D \subseteq Int /\ IsFiniteSet(D) /\ D # {} /\ (\A k \in D : norm[k] \in Int)
      /\ Summed(norm, D) = Unit /\ Unit \in Int /\ Unit > 0 /\ Cap \in Nat
  BY <1>1, WeightAssumption DEF ProposedShares
<1>3. u \in Nat /\ u > 0 /\ ex \in Nat /\ over \in SUBSET D /\ IsFiniteSet(over) BY <1>1, SomeUnder
<1>4. PICK raw : raw = Redone(norm, u) OBVIOUS
<1>5. raw = [k \in D |-> IF k \in over THEN Cap * u ELSE norm[k] * u + ex] BY <1>1, <1>4 DEF Redone
<1>6. \A k \in D : (k \in over => raw[k] = Cap * u) /\ (k \notin over => raw[k] = u * norm[k] + ex)
  BY <1>2, <1>3, <1>5
<1>7. \A k \in D : raw[k] \in Int
  <2> TAKE k \in D
  <2>1. Cap * u \in Int /\ u * norm[k] + ex \in Int BY <1>2, <1>3
  <2> QED BY <1>6, <2>1
<1>8. DOMAIN raw = D /\ raw = [k \in D |-> raw[k]] BY <1>5
<1>9. Summed(raw, D) = Summed(raw, over) + Summed(raw, D \ over)
      /\ Summed(raw, over) \in Int /\ Summed(raw, D \ over) \in Int
  BY <1>2, <1>3, <1>7, SumSplit
<1>10. Unit = Summed(norm, over) + Summed(norm, D \ over)
       /\ Summed(norm, over) \in Int /\ Summed(norm, D \ over) \in Int
  BY <1>2, <1>3, SumSplit
<1>11. PICK m \in Nat : m = Cardinality(over) BY <1>3, FS_CardinalityType
<1>12. Summed(raw, over) = (Cap * u) * m
  <2>1. PICK cu \in Int : cu = Cap * u BY <1>2, <1>3
  <2>2. \A k \in over : raw[k] = cu BY <1>3, <1>6, <2>1
  <2>3. Summed(raw, over) = cu * Cardinality(over) BY <1>3, <2>2, SumOfOne
  <2> QED BY <1>11, <2>1, <2>3
<1>13. Summed(raw, D \ over) = u * Summed(norm, D \ over) + ex * u
  <2>1. IsFiniteSet(D \ over) BY <1>2, FS_Subset
  <2>2. \A k \in D \ over : norm[k] \in Int /\ raw[k] = u * norm[k] + ex BY <1>2, <1>6
  <2>3. u \in Int /\ ex \in Int /\ u = Cardinality(D \ over) BY <1>1, <1>3
  <2>4. PICK rest : rest = D \ over OBVIOUS
  <2>5. PICK a \in Int, b \in Int : a = u /\ b = ex BY <2>3
  <2>6. IsFiniteSet(rest) /\ \A k \in rest : norm[k] \in Int /\ raw[k] = a * norm[k] + b
    BY <2>1, <2>2, <2>4, <2>5
  <2>7. Summed(raw, rest) = a * Summed(norm, rest) + b * Cardinality(rest)
    BY <2>6, SumLinear
  <2> QED BY <2>3, <2>4, <2>5, <2>7
<1>14. ex = Summed(norm, over) - Cap * m
  <2> DEFINE more == [k \in over |-> norm[k] - Cap]
  <2>1. PICK b \in Int : b = -Cap BY <1>2
  <2>2. \A k \in over : norm[k] \in Int /\ more[k] = 1 * norm[k] + b BY <1>2, <1>3, <2>1
  <2>3. ex = Summed(more, over) BY <1>1, Zenon DEF Excess
  <2> HIDE DEF more
  <2>4. ex = 1 * Summed(norm, over) + b * m BY <1>3, <1>11, <2>1, <2>2, <2>3, SumLinear
  <2>5. PICK q \in Int : q = Cap * m /\ b * m = -q BY <1>2, <1>11, <2>1
  <2>6. PICK x \in Int : x = Summed(norm, over) BY <1>10
  <2>7. ex = 1 * x + (-q) BY <2>4, <2>5, <2>6
  <2> QED BY <2>5, <2>6, <2>7
<1>15. Summed(raw, D) = u * Unit
  <2>1. PICK x \in Int, y \in Int : x = Summed(norm, over) /\ y = Summed(norm, D \ over) BY <1>10
  <2>2. PICK q \in Int : q = Cap * m /\ (Cap * u) * m = u * q BY <1>2, <1>3, <1>11
  <2>3. Summed(raw, D) = u * q + (u * y + (x - q) * u)
    BY <1>9, <1>12, <1>13, <1>14, <2>1, <2>2
  <2>4. u * q + (u * y + (x - q) * u) = u * (x + y) BY <1>3, <2>1, <2>2
  <2> QED BY <1>10, <2>1, <2>3, <2>4
<1>16. u * Unit \in Int /\ u * Unit > 0 BY <1>2, <1>3
<1>17. Shares(raw, u * Unit) BY <1>2, <1>7, <1>8, <1>15, <1>16 DEF Shares
<1> QED BY <1>1, <1>4, <1>8, <1>17

\* What is redone keeps to the cap, as near as the shares were to nothing, and keeps their
\* order, as near.
LEMMA RedoneNear ==
  ASSUME NEW norm, ProposedShares(norm), Cardinality(DOMAIN norm) >= 3, PastCap(norm) # {},
         NEW u, u = Cardinality(DOMAIN norm \ PastCap(norm)),
         NEW k \in DOMAIN norm
  PROVE  /\ 2 * Redone(norm, u)[k] <= u * (2 * Cap + Cardinality(DOMAIN norm))
         /\ 2 * Redone(norm, u)[k] >= -(u * Cardinality(DOMAIN norm))
         /\ \A j \in DOMAIN norm : 2 * norm[j] + Cardinality(DOMAIN norm) >= 2 * norm[k] =>
              2 * Redone(norm, u)[j] + u * Cardinality(DOMAIN norm) >= 2 * Redone(norm, u)[k]
<1>1. PICK D, over, ex : D = DOMAIN norm /\ over = PastCap(norm) /\ ex = Excess(norm) OBVIOUS
<1>2. /\ D \subseteq Int /\ IsFiniteSet(D) /\ (\A i \in D : norm[i] \in Int)
      /\ Summed(norm, D) = Unit /\ Unit \in Int /\ Unit > 0 /\ Cap \in Nat /\ 2 * Cap >= Unit
      /\ \A S \in SUBSET D : 2 * Summed(norm, S) >= -Cardinality(D)
  BY <1>1, WeightAssumption DEF ProposedShares
<1>3. u \in Nat /\ u > 0 /\ ex \in Nat /\ over \in SUBSET D /\ IsFiniteSet(over) BY <1>1, SomeUnder
<1>4. PICK n \in Nat : n = Cardinality(D) BY <1>2, FS_CardinalityType
<1>5. PICK raw : raw = Redone(norm, u) OBVIOUS
<1>6. \A i \in D : (i \in over => raw[i] = Cap * u) /\ (i \notin over => raw[i] = u * norm[i] + ex)
  <2>1. raw = [i \in D |-> IF i \in over THEN Cap * u ELSE norm[i] * u + ex] BY <1>1, <1>5 DEF Redone
  <2> QED BY <1>2, <1>3, <2>1
<1>7. \A i \in D : raw[i] \in Int
  <2> TAKE i \in D
  <2>1. Cap * u \in Int /\ u * norm[i] + ex \in Int BY <1>2, <1>3
  <2> QED BY <1>6, <2>1
<1>8. \A i \in D : i \in over <=> norm[i] > Cap BY <1>1 DEF PastCap
<1>9. \A S \in SUBSET D : 2 * Summed(norm, S) >= -n BY <1>2, <1>4
<1>10. PICK m \in Nat : m = Cardinality(over) /\ m >= 1
  <2>1. over # {} BY <1>1
  <2> QED BY <1>3, <2>1, FS_CardinalityType, FS_EmptySet
<1>11. ex = Summed(norm, over) - Cap * m /\ Summed(norm, over) \in Int
  <2> DEFINE more == [i \in over |-> norm[i] - Cap]
  <2>1. PICK b \in Int : b = -Cap BY <1>2
  <2>2. \A i \in over : norm[i] \in Int /\ more[i] = 1 * norm[i] + b BY <1>2, <1>3, <2>1
  <2>3. ex = Summed(more, over) BY <1>1, Zenon DEF Excess
  <2>4. Summed(norm, over) \in Int BY <1>2, <1>3, SumSplit
  <2> HIDE DEF more
  <2>5. ex = 1 * Summed(norm, over) + b * m BY <1>3, <1>10, <2>1, <2>2, <2>3, SumLinear
  <2>6. PICK q \in Int : q = Cap * m /\ b * m = -q BY <1>2, <1>10, <2>1
  <2>7. PICK x \in Int : x = Summed(norm, over) BY <2>4
  <2>8. ex = 1 * x + (-q) BY <2>5, <2>6, <2>7
  <2> QED BY <2>6, <2>7, <2>8
<1>12. ASSUME NEW i \in D, i \notin over PROVE 2 * (norm[i] + ex) <= 2 * Cap + n
  <2>0. IsFiniteSet(D \ over) BY <1>2, FS_Subset
  <2>1. PICK rest : rest = D \ over /\ rest \in SUBSET D /\ IsFiniteSet(rest) /\ i \in rest
    BY <1>12, <2>0
  <2>2. Unit = Summed(norm, over) + Summed(norm, rest) /\ Summed(norm, rest) \in Int
    BY <1>2, <1>3, <2>1, SumSplit
  <2>3. Summed(norm, rest) = norm[i] + Summed(norm, rest \ {i})
    <3>1. \A x \in rest : norm[x] \in Int BY <1>2, <2>1
    <3> QED BY <2>1, <3>1, SumStep
  <2>4. 2 * Summed(norm, rest \ {i}) >= -n
    <3>1. rest \ {i} \in SUBSET D BY <2>1
    <3> QED BY <1>9, <3>1
  <2>5. Summed(norm, rest \ {i}) \in Int
    <3>1. rest \ {i} \in SUBSET D BY <2>1
    <3> QED BY <1>2, <3>1, SumSplit
  <2>6. Cap * m >= Cap BY <1>2, <1>10
  <2>7. Cap * m \in Int /\ norm[i] \in Int BY <1>2, <1>10
  <2> QED BY <1>2, <1>3, <1>11, <2>2, <2>3, <2>4, <2>5, <2>6, <2>7
<1>13. \A i \in D : 2 * norm[i] >= -n
  <2> TAKE i \in D
  <2>1. Summed(norm, {i}) = norm[i] + Summed(norm, {i} \ {i})
    BY <1>2, FS_Singleton, SumStep
  <2>2. Summed(norm, {i} \ {i}) = 0
    <3>1. {i} \ {i} = {} OBVIOUS
    <3> QED BY <3>1, SumEmpty
  <2>3. 2 * Summed(norm, {i}) >= -n
    <3>1. {i} \in SUBSET D OBVIOUS
    <3> QED BY <1>9, <3>1
  <2>4. norm[i] \in Int BY <1>2
  <2> QED BY <2>1, <2>2, <2>3, <2>4
<1>14. PICK cu \in Int, un \in Int, ue \in Int : cu = Cap * u /\ un = u * n /\ ue = u * ex
  BY <1>2, <1>3, <1>4
<1>15. u * (2 * Cap + n) = 2 * cu + un BY <1>2, <1>3, <1>4, <1>14
<1>16. ue >= ex /\ cu >= 0 /\ un >= 0 BY <1>2, <1>3, <1>4, <1>14
<1>17. ASSUME NEW i \in D
       PROVE  2 * raw[i] <= 2 * cu + un /\ 2 * raw[i] >= -un
  <2>1. CASE i \in over
    <3>1. raw[i] = cu BY <1>6, <1>14, <2>1
    <3> QED BY <1>16, <3>1
  <2>2. CASE i \notin over
    <3>1. PICK v \in Int, w \in Int : v = norm[i] /\ w = u * v BY <1>2, <1>3
    <3>2. raw[i] = w + ex BY <1>6, <2>2, <3>1
    <3>3. 2 * (v + ex) <= 2 * Cap + n BY <1>12, <2>2, <3>1
    <3>4. u * (2 * (v + ex)) <= u * (2 * Cap + n) BY <1>2, <1>3, <1>4, <3>1, <3>3
    <3>5. u * (2 * (v + ex)) = 2 * w + 2 * ue BY <1>3, <1>14, <3>1
    <3>6. u * (2 * v) >= u * (-n) BY <1>3, <1>4, <1>13, <3>1
    <3>7. u * (2 * v) = 2 * w /\ u * (-n) = -un BY <1>3, <1>4, <1>14, <3>1
    <3> QED BY <1>3, <1>15, <1>16, <3>1, <3>2, <3>4, <3>5, <3>6, <3>7
  <2> QED BY <2>1, <2>2
<1>18. ASSUME NEW j \in D, 2 * norm[j] + n >= 2 * norm[k]
       PROVE  2 * raw[j] + un >= 2 * raw[k]
  <2>1. k \in D BY <1>1
  <2>2. CASE j \in over
    <3>1. raw[j] = cu BY <1>6, <1>14, <2>2
    <3> QED BY <1>7, <1>17, <2>1, <3>1
  <2>3. CASE j \notin over
    <3>1. PICK v \in Int, w \in Int : v = norm[j] /\ w = norm[k] BY <1>2, <2>1
    <3>2. PICK a \in Int, b \in Int : a = u * v /\ b = u * w BY <1>3, <3>1
    <3>3. raw[j] = a + ex BY <1>6, <2>3, <3>1, <3>2
    <3>4. u * (2 * v + n) >= u * (2 * w) BY <1>3, <1>4, <1>18, <3>1
    <3>5. u * (2 * v + n) = 2 * a + un /\ u * (2 * w) = 2 * b BY <1>3, <1>4, <1>14, <3>1, <3>2
    <3>6. CASE k \in over
      <4>1. raw[k] = cu BY <1>6, <1>14, <2>1, <3>6
      <4>2. w >= Cap
        <5>1. norm[k] > Cap BY <1>8, <2>1, <3>6
        <5> QED BY <1>2, <3>1, <5>1
      <4>3. b >= cu BY <1>2, <1>3, <1>14, <3>1, <3>2, <4>2
      <4> QED BY <1>3, <3>3, <3>4, <3>5, <4>1, <4>3
    <3>7. CASE k \notin over
      <4>1. raw[k] = b + ex BY <1>6, <2>1, <3>1, <3>2, <3>7
      <4> QED BY <1>3, <3>3, <3>4, <3>5, <4>1
    <3> QED BY <3>6, <3>7
  <2> QED BY <2>2, <2>3
<1>19. k \in D BY <1>1
<1>20. 2 * raw[k] <= 2 * cu + un /\ 2 * raw[k] >= -un BY <1>17, <1>19
<1>21. \A j \in D : 2 * norm[j] + n >= 2 * norm[k] => 2 * raw[j] + un >= 2 * raw[k] BY <1>18
<1> QED BY <1>1, <1>4, <1>5, <1>14, <1>15, <1>20, <1>21

\* _propose_weights: what proposed shares of one come to with the cap.
LEMMA CappedIs ==
  ASSUME NEW norm, ProposedShares(norm)
  PROVE  LET D == DOMAIN norm  n == Cardinality(DOMAIN norm)  new == AtCap(norm) IN
         /\ DOMAIN new = D /\ (\A k \in D : new[k] \in Int) /\ Summed(new, D) = Unit
         /\ (\A k \in D : norm[k] <= Cap) => new = norm
         /\ \A k \in D : new[k] >= -n /\ (n > 2 => new[k] <= Cap + n)
         /\ \A j, k \in D : 2 * norm[j] + n >= 2 * norm[k] => new[j] + n >= new[k]
<1>1. PICK D, n, new : D = DOMAIN norm /\ n = Cardinality(D) /\ new = AtCap(norm) OBVIOUS
<1>2. /\ D \subseteq Int /\ IsFiniteSet(D) /\ (\A k \in D : norm[k] \in Int) /\ n \in Nat
      /\ Summed(norm, D) = Unit /\ Unit \in Int /\ Unit > 0 /\ Cap \in Nat /\ 2 * Cap >= Unit
      /\ \A S \in SUBSET D : 2 * Summed(norm, S) >= -n
  BY <1>1, WeightAssumption, FS_CardinalityType DEF ProposedShares
<1>3. n > 0
  <2>1. D # {} BY <1>1 DEF ProposedShares
  <2> QED BY <1>1, <1>2, <2>1, FS_EmptySet
<1>4. \A k \in D : k \in PastCap(norm) <=> norm[k] > Cap BY <1>1 DEF PastCap
<1>5. \A k \in D : 2 * norm[k] >= -n
  <2> TAKE k \in D
  <2>1. Summed(norm, {k}) = norm[k] + Summed(norm, {k} \ {k})
    BY <1>2, FS_Singleton, SumStep
  <2>2. Summed(norm, {k} \ {k}) = 0
    <3>1. {k} \ {k} = {} OBVIOUS
    <3> QED BY <3>1, SumEmpty
  <2>3. 2 * Summed(norm, {k}) >= -n
    <3>1. {k} \in SUBSET D OBVIOUS
    <3> QED BY <1>2, <3>1
  <2>4. norm[k] \in Int BY <1>2
  <2> QED BY <1>2, <2>1, <2>2, <2>3, <2>4
<1>6. CASE n < 3 \/ PastCap(norm) = {}
  <2>1. new = norm
    <3>1. PastCap(norm) = {k \in DOMAIN norm : norm[k] > Cap} BY DEF PastCap
    <3>2. n = Cardinality(DOMAIN norm) BY <1>1
    <3> QED BY <1>1, <1>6, <3>1, <3>2 DEF AtCap, Capped
  <2>2. DOMAIN new = D /\ (\A k \in D : new[k] \in Int) /\ Summed(new, D) = Unit BY <1>1, <1>2, <2>1
  <2>3. \A k \in D : new[k] >= -n /\ (n > 2 => new[k] <= Cap + n)
    <3> TAKE k \in D
    <3>1. 2 * norm[k] >= -n /\ norm[k] \in Int BY <1>2, <1>5
    <3>2. ASSUME n > 2 PROVE norm[k] <= Cap
      <4>1. k \notin PastCap(norm) BY <1>2, <1>6, <3>2
      <4> QED BY <1>2, <1>4, <4>1
    <3> QED BY <1>2, <2>1, <3>1, <3>2
  <2>4. \A j, k \in D : 2 * norm[j] + n >= 2 * norm[k] => new[j] + n >= new[k]
    <3> TAKE j, k \in D
    <3> HAVE 2 * norm[j] + n >= 2 * norm[k]
    <3>1. norm[j] \in Int /\ norm[k] \in Int BY <1>2
    <3> QED BY <1>2, <2>1, <3>1
  <2> QED BY <1>1, <2>1, <2>2, <2>3, <2>4
<1>7. CASE n >= 3 /\ PastCap(norm) # {}
  <2>1. PICK u : u = Cardinality(D \ PastCap(norm)) OBVIOUS
  <2>2. PICK raw : raw = Redone(norm, u) OBVIOUS
  <2>3. u \in Nat /\ u > 0 BY <1>1, <1>7, <2>1, SomeUnder
  <2>4. Shares(raw, u * Unit) /\ DOMAIN raw = D BY <1>1, <1>7, <2>1, <2>2, RedoneShares
  <2>5. new = RoundToOne(raw)
    <3>1. PastCap(norm) = {k \in DOMAIN norm : norm[k] > Cap} BY DEF PastCap
    <3>2. Excess(norm) = Total([k \in PastCap(norm) |-> norm[k] - Cap], PastCap(norm))
      BY TotalIsSummed, Zenon DEF Excess
    <3>3. Cardinality(DOMAIN norm) = n /\ Cardinality(DOMAIN norm \ PastCap(norm)) = u BY <1>1, <2>1
    <3>4. new = Capped(norm, PastCap(norm)) BY <1>1, <3>1 DEF AtCap
    <3>5. ~(n < 3 \/ PastCap(norm) = {}) BY <1>2, <1>7
    <3>6. raw = [k \in DOMAIN norm |-> IF k \in PastCap(norm) THEN Cap * u ELSE norm[k] * u + Excess(norm)]
      BY <2>2 DEF Redone
    <3>7. Capped(norm, PastCap(norm)) =
            IF n < 3 \/ PastCap(norm) = {} THEN norm
            ELSE RoundToOne([k \in DOMAIN norm |->
                   IF k \in PastCap(norm) THEN Cap * u ELSE norm[k] * u + Excess(norm)])
      BY <3>2, <3>3 DEF Capped
    <3> QED BY <3>4, <3>5, <3>6, <3>7
  <2>6. Rounded(new, raw, u * Unit) BY <2>4, <2>5, RoundToOneIs
  <2>7. new = [k \in D |-> new[k]] /\ (\A k \in D : new[k] \in Int) /\ Summed(new, D) = Unit
    BY <2>4, <2>6 DEF Rounded
  <2>8. DOMAIN new = D BY <2>7
  <2>9. ASSUME NEW k \in D
        PROVE  2 * raw[k] <= u * (2 * Cap + n) /\ 2 * raw[k] >= -(u * n) /\ raw[k] \in Int
    BY <1>1, <1>7, <2>1, <2>2, <2>4, RedoneNear DEF Shares
  <2>10. PICK t \in Int : t = u * Unit /\ t > 0 BY <1>2, <2>3
  <2>11. \A k \in D : 2 * (u * new[k]) >= 2 * raw[k] - u * n /\ 2 * (u * new[k]) <= 2 * raw[k] + u * n
    <3> TAKE k \in D
    <3>1. /\ 2 * (t * new[k]) >= 2 * (Unit * raw[k]) - t * n
          /\ 2 * (t * new[k]) <= 2 * (Unit * raw[k]) + t * n
      BY <1>1, <2>4, <2>6, <2>10, RoundedNear
    <3>2. PICK x \in Int, y \in Int, z \in Int : x = 2 * (u * new[k]) /\ y = 2 * raw[k] /\ z = u * n
      BY <1>2, <2>3, <2>7, <2>9
    <3>3. 2 * (t * new[k]) = Unit * x BY <1>2, <2>3, <2>7, <2>10, <3>2
    <3>4. 2 * (Unit * raw[k]) = Unit * y BY <1>2, <2>9, <3>2
    <3>5. t * n = Unit * z BY <1>2, <2>3, <2>10, <3>2
    <3>6. Unit * (y - z) <= Unit * x /\ Unit * x <= Unit * (y + z)
      <4>1. Unit * (y - z) = Unit * y - Unit * z /\ Unit * (y + z) = Unit * y + Unit * z BY <1>2
      <4> QED BY <3>1, <3>3, <3>4, <3>5, <4>1
    <3>7. y - z <= x /\ x <= y + z BY <1>2, <3>6, Divided
    <3> QED BY <3>2, <3>7
  <2>12. \A k \in D : new[k] >= -n /\ new[k] <= Cap + n
    <3> TAKE k \in D
    <3>1. PICK v \in Int, x \in Int, z \in Int, c \in Int :
            v = new[k] /\ x = u * v /\ z = u * n /\ c = u * Cap
      BY <1>2, <2>3, <2>7
    <3>2. u * (2 * Cap + n) = 2 * c + z BY <1>2, <2>3, <3>1
    <3>3. 2 * x >= 2 * raw[k] - z /\ 2 * x <= 2 * raw[k] + z BY <2>11, <3>1
    <3>4. 2 * raw[k] <= 2 * c + z /\ 2 * raw[k] >= -z /\ raw[k] \in Int BY <2>9, <3>1, <3>2
    <3>5. x >= -z /\ x <= c + z BY <3>1, <3>3, <3>4
    <3>6. u * (-n) <= u * v
      <4>1. u * (-n) = -z BY <1>2, <2>3, <3>1
      <4> QED BY <3>1, <3>5, <4>1
    <3>7. u * v <= u * (Cap + n)
      <4>1. u * (Cap + n) = c + z BY <1>2, <2>3, <3>1
      <4> QED BY <3>1, <3>5, <4>1
    <3>8. -n <= v BY <1>2, <2>3, <3>1, <3>6, Divided
    <3>9. v <= Cap + n BY <1>2, <2>3, <3>1, <3>7, Divided
    <3> QED BY <1>2, <3>1, <3>8, <3>9
  <2>13. \A j, k \in D : 2 * norm[j] + n >= 2 * norm[k] => new[j] + n >= new[k]
    <3> TAKE j, k \in D
    <3> HAVE 2 * norm[j] + n >= 2 * norm[k]
    <3>1. 2 * raw[j] + u * n >= 2 * raw[k] BY <1>1, <1>7, <2>1, <2>2, RedoneNear
    <3>2. 2 * (t * new[j]) - 2 * (t * new[k]) >= 2 * (Unit * raw[j]) - 2 * (Unit * raw[k]) - t * n
      BY <1>1, <2>4, <2>6, <2>10, RoundedInOrder
    <3>3. PICK a \in Int, b \in Int, x \in Int, y \in Int, z \in Int :
            a = new[j] /\ b = new[k] /\ x = raw[j] /\ y = raw[k] /\ z = u * n
      BY <1>2, <2>3, <2>7, <2>9
    <3>4. 2 * x + z >= 2 * y BY <3>1, <3>3
    <3>5. Unit * (2 * y) <= Unit * (2 * x + z) BY <1>2, <3>3, <3>4
    <3>6. t * n = Unit * z BY <1>2, <2>3, <2>10, <3>3
    <3>7. PICK p \in Int, q \in Int, ux \in Int, uy \in Int, uz \in Int :
            p = t * a /\ q = t * b /\ ux = Unit * x /\ uy = Unit * y /\ uz = Unit * z
      <4>1. t * a \in Int /\ t * b \in Int BY <2>10, <3>3
      <4>2. Unit * x \in Int /\ Unit * y \in Int /\ Unit * z \in Int BY <1>2, <3>3
      <4> QED BY <4>1, <4>2
    <3>8. Unit * (2 * y) = 2 * uy /\ Unit * (2 * x + z) = 2 * ux + uz BY <1>2, <3>3, <3>7
    <3>9. 2 * p - 2 * q >= 2 * ux - 2 * uy - uz BY <3>2, <3>3, <3>6, <3>7
    <3>10. q <= p + uz BY <3>5, <3>7, <3>8, <3>9
    <3>11. t * (a + n) = p + uz BY <1>2, <2>10, <3>3, <3>6, <3>7
    <3>12. t * b <= t * (a + n) BY <3>7, <3>10, <3>11
    <3>13. b <= a + n BY <1>2, <2>10, <3>3, <3>12, Divided
    <3> QED BY <1>2, <3>3, <3>13
  <2>14. (\A k \in D : norm[k] <= Cap) => new = norm
    <3> HAVE \A k \in D : norm[k] <= Cap
    <3>1. PICK k \in PastCap(norm) : k \in D BY <1>1, <1>7 DEF PastCap
    <3> QED BY <1>2, <1>4, <3>1
  <2> QED BY <1>1, <2>7, <2>8, <2>12, <2>13, <2>14
<1> QED BY <1>2, <1>6, <1>7

LEMMA MaxOfTwo ==
  ASSUME NEW a \in Int, NEW b \in Int
  PROVE  Max({a, b}) = IF a >= b THEN a ELSE b
<1>1. {a, b} = {a} \cup {b} /\ {a, b} \subseteq Int /\ {a, b} # {} OBVIOUS
<1>2. IsFiniteSet({a, b})
  <2>1. IsFiniteSet({a}) BY FS_Singleton
  <2>2. IsFiniteSet({a} \cup {b}) BY <2>1, FS_AddElement
  <2> QED BY <1>1, <2>2
<1>3. PICK m : m = Max({a, b}) OBVIOUS
<1>4. m \in {a, b} /\ \A y \in {a, b} : m >= y BY <1>1, <1>2, <1>3, MaxIs
<1> QED BY <1>3, <1>4

\* Weights of a pillar's KPIs, and what the evidence makes of each.
Configured(w, f) ==
  LET D == DOMAIN w IN
  /\ D \subseteq Int /\ IsFiniteSet(D) /\ D # {}
  /\ w \in [D -> Nat] /\ f \in [D -> 100..300] /\ Summed(w, D) = Unit

\* Whatever is shared out in proportion to something positive can be shared out.
LEMMA SharesOf ==
  ASSUME NEW D, D \subseteq Int, IsFiniteSet(D), D # {}, NEW raw, raw = [k \in D |-> raw[k]],
         \A k \in D : raw[k] \in Nat, \E k \in D : raw[k] > 0
  PROVE  Shares(raw, Summed(raw, D)) /\ DOMAIN raw = D
<1>1. DOMAIN raw = D OBVIOUS
<1>2. Summed(raw, D) \in Nat /\ \A k \in D : raw[k] <= Summed(raw, D) BY SumNat
<1>3. PICK k \in D : raw[k] > 0 OBVIOUS
<1>4. Summed(raw, D) > 0 BY <1>2, <1>3
<1> QED BY <1>1, <1>2, <1>4 DEF Shares

\* Weights that make one are not all nothing.
LEMMA SomeWeight ==
  ASSUME NEW w, NEW f, Configured(w, f)
  PROVE  \E k \in DOMAIN w : w[k] > 0
<1>1. IsFiniteSet(DOMAIN w) /\ (\A k \in DOMAIN w : w[k] \in Nat) /\ Summed(w, DOMAIN w) = Unit
  BY DEF Configured
<1>2. Unit > 0 BY WeightAssumption
<1> SUFFICES ASSUME \A k \in DOMAIN w : w[k] = 0 PROVE FALSE BY <1>1
<1> QED BY <1>1, <1>2, SumNat

\* A larger weight with a larger factor comes to more.
LEMMA InProportion ==
  ASSUME NEW w, NEW f, Configured(w, f), NEW j \in DOMAIN w, NEW k \in DOMAIN w
  PROVE  /\ w[j] * f[j] \in Nat /\ w[k] * f[k] \in Nat
         /\ w[j] >= w[k] /\ f[j] >= f[k] => w[j] * f[j] >= w[k] * f[k]
<1>1. PICK a \in Nat, b \in Nat, x \in Nat, y \in Nat : a = w[j] /\ b = w[k] /\ x = f[j] /\ y = f[k]
  BY DEF Configured
<1>2. a * x \in Nat /\ b * y \in Nat /\ a * y \in Nat OBVIOUS
<1>3. ASSUME a >= b, x >= y PROVE a * x >= b * y
  <2>1. a * x >= a * y BY <1>3
  <2>2. a * y >= b * y BY <1>3
  <2> QED BY <1>2, <2>1, <2>2
<1> QED BY <1>1, <1>2, <1>3

\* The pillars' weights.
LEMMA PillarsWeighed ==
  ASSUME NEW w, NEW f, Configured(w, f)
  PROVE  LET D == DOMAIN w  n == Cardinality(DOMAIN w)  r == ProposePillars(w, f) IN
         /\ DOMAIN r = D /\ Total(r, D) = Unit
         /\ \A j, k \in D : w[j] >= w[k] /\ f[j] >= f[k] => r[j] + (n + 1) >= r[k]
<1>1. PICK D : D = DOMAIN w OBVIOUS
<1>2. /\ D \subseteq Int /\ IsFiniteSet(D) /\ D # {} /\ Unit \in Int /\ Unit > 0
  BY <1>1, WeightAssumption DEF Configured
<1>3. PICK raw : raw = [k \in D |-> Max({10 * Unit, w[k] * f[k]})] OBVIOUS
<1>4. \A k \in D : raw[k] = (IF 10 * Unit >= w[k] * f[k] THEN 10 * Unit ELSE w[k] * f[k])
                   /\ raw[k] \in Nat /\ raw[k] > 0 /\ w[k] * f[k] \in Nat
  <2> TAKE k \in D
  <2>0. w[k] * f[k] \in Nat
    <3>1. w[k] \in Nat /\ f[k] \in Nat BY <1>1 DEF Configured
    <3> QED BY <3>1
  <2>1. PICK a \in Nat, b \in Nat : a = 10 * Unit /\ b = w[k] * f[k]
    <3>1. 10 * Unit \in Nat BY <1>2
    <3> QED BY <2>0, <3>1, Zenon
  <2>2. raw[k] = Max({a, b}) BY <1>3, <2>1
  <2>3. raw[k] = IF a >= b THEN a ELSE b BY <2>1, <2>2, MaxOfTwo
  <2>4. a > 0 BY <1>2, <2>1
  <2> QED BY <2>1, <2>3, <2>4
<1>5. raw = [k \in D |-> raw[k]] BY <1>3
<1>6. PICK T : T = Summed(raw, D) OBVIOUS
<1>7. Shares(raw, T) /\ DOMAIN raw = D BY <1>2, <1>4, <1>5, <1>6, SharesOf
<1>8. PICK r : r = ProposePillars(w, f) OBVIOUS
<1>9. r = RoundToOne(raw) BY <1>1, <1>3, <1>8 DEF ProposePillars
<1>10. Rounded(r, raw, T) BY <1>7, <1>9, RoundToOneIs
<1>11. r = [k \in D |-> r[k]] /\ (\A k \in D : r[k] \in Int) /\ Summed(r, D) = Unit
  BY <1>7, <1>10 DEF Rounded
<1>12. DOMAIN r = D /\ Total(r, D) = Unit BY <1>11, TotalIsSummed
<1>13. PICK n \in Nat : n = Cardinality(D) BY <1>2, FS_CardinalityType
<1>14. ASSUME NEW j \in D, NEW k \in D, w[j] >= w[k], f[j] >= f[k]
       PROVE  r[j] + (n + 1) >= r[k]
  <2>1. w[j] * f[j] >= w[k] * f[k] BY <1>1, <1>14, InProportion
  <2>2. PICK x \in Nat, y \in Nat : x = w[j] * f[j] /\ y = w[k] * f[k] BY <1>4
  <2>3. PICK x2 \in Nat, y2 \in Nat : x2 = raw[j] /\ y2 = raw[k] BY <1>4
  <2>4. x2 >= y2
    <3>1. PICK b \in Int : b = 10 * Unit BY <1>2
    <3>2. x2 = (IF b >= x THEN b ELSE x) /\ y2 = (IF b >= y THEN b ELSE y)
      BY <1>4, <2>2, <2>3, <3>1
    <3>3. x >= y BY <2>1, <2>2
    <3> QED BY <3>1, <3>2, <3>3
  <2>5. 2 * (T * r[j]) - 2 * (T * r[k]) >= 2 * (Unit * x2) - 2 * (Unit * y2) - T * n
    BY <1>7, <1>10, <1>13, <2>3, RoundedInOrder
  <2>6. Unit * x2 >= Unit * y2 BY <1>2, <2>4
  <2>7. T \in Int /\ T > 0 BY <1>7 DEF Shares
  <2>8. PICK a \in Int, b \in Int : a = r[j] /\ b = r[k] BY <1>11
  <2>9. PICK p \in Int, q \in Int, z \in Int : p = T * a /\ q = T * b /\ z = T * n BY <2>7, <2>8
  <2>10. PICK u \in Int, v \in Int : u = Unit * x2 /\ v = Unit * y2 BY <1>2
  <2>11. 2 * q <= 2 * p + z BY <2>5, <2>6, <2>8, <2>9, <2>10
  <2>12. T * (2 * b) = 2 * q /\ T * (2 * a + n) = 2 * p + z BY <2>7, <2>8, <2>9
  <2>13. T * (2 * b) <= T * (2 * a + n) BY <2>11, <2>12
  <2>14. 2 * b <= 2 * a + n BY <2>7, <2>13, Divided
  <2> QED BY <2>8, <2>14
<1> QED BY <1>1, <1>8, <1>12, <1>13, <1>14

\* The KPIs' weights.
LEMMA KpisWeighed ==
  ASSUME NEW w, NEW f, Configured(w, f)
  PROVE  LET D == DOMAIN w  n == Cardinality(DOMAIN w)  r == ProposeKpis(w, f) IN
         /\ DOMAIN r = D /\ Total(r, D) = Unit
         /\ (\A k \in D : f[k] = 200) /\ (\A k \in D : w[k] <= Cap) => r = w
         /\ \A k \in D : r[k] >= -(n + 1) /\ (n > 2 => r[k] <= Cap + (n + 1))
         /\ \A j, k \in D : w[j] >= w[k] /\ f[j] >= f[k] => r[j] + (n + 1) >= r[k]
<1>1. PICK D : D = DOMAIN w OBVIOUS
<1>2. /\ D \subseteq Int /\ IsFiniteSet(D) /\ D # {} /\ Unit \in Int /\ Unit > 0 /\ Cap \in Nat
      /\ w = [k \in D |-> w[k]] /\ (\A k \in D : w[k] \in Nat /\ f[k] \in 100..300)
      /\ Summed(w, D) = Unit
  BY <1>1, WeightAssumption DEF Configured
<1>3. PICK raw : raw = [k \in D |-> w[k] * f[k]] OBVIOUS
<1>4. \A k \in D : raw[k] = w[k] * f[k] /\ raw[k] \in Nat BY <1>1, <1>3, InProportion
<1>5. \E k \in D : raw[k] > 0
  <2>1. PICK k \in D : w[k] > 0 BY <1>1, SomeWeight
  <2>2. PICK a \in Nat, b \in Nat : a = w[k] /\ b = f[k] /\ a > 0 /\ b > 0 BY <1>2, <2>1
  <2>3. a * b > 0 BY <2>2
  <2> QED BY <1>4, <2>2, <2>3
<1>6. raw = [k \in D |-> raw[k]] BY <1>3
<1>7. PICK T : T = Summed(raw, D) OBVIOUS
<1>8. Shares(raw, T) /\ DOMAIN raw = D BY <1>2, <1>4, <1>5, <1>6, <1>7, SharesOf
<1>9. PICK norm : norm = RoundToOne(raw) OBVIOUS
<1>10. Rounded(norm, raw, T) BY <1>8, <1>9, RoundToOneIs
<1>11. ProposedShares(norm) /\ DOMAIN norm = D
  <2>1. \A k \in DOMAIN raw : raw[k] >= 0 BY <1>4, <1>8
  <2> QED BY <1>8, <1>10, <2>1, RoundedProposed
<1>12. PICK n \in Nat : n = Cardinality(D) BY <1>2, FS_CardinalityType
<1>13. PICK r : r = ProposeKpis(w, f) OBVIOUS
<1>14. r = AtCap(norm) BY <1>1, <1>3, <1>9, <1>13 DEF ProposeKpis
<1>15. /\ DOMAIN r = D /\ (\A k \in D : r[k] \in Int) /\ Summed(r, D) = Unit
       /\ (\A k \in D : norm[k] <= Cap) => r = norm
       /\ \A k \in D : r[k] >= -n /\ (n > 2 => r[k] <= Cap + n)
       /\ \A j, k \in D : 2 * norm[j] + n >= 2 * norm[k] => r[j] + n >= r[k]
  BY <1>11, <1>12, <1>14, CappedIs
<1>16. Total(r, D) = Unit BY <1>15, TotalIsSummed
<1>17. (\A k \in D : norm[k] \in Int) /\ Summed(norm, D) = Unit /\ norm = [k \in D |-> norm[k]]
  BY <1>11 DEF ProposedShares
<1>18. ASSUME NEW j \in D, NEW k \in D, w[j] >= w[k], f[j] >= f[k]
       PROVE  2 * norm[j] + n >= 2 * norm[k]
  <2>1. PICK x \in Nat, y \in Nat : x = raw[j] /\ y = raw[k] BY <1>4
  <2>2. x >= y BY <1>1, <1>4, <1>18, <2>1, InProportion
  <2>3. 2 * (T * norm[j]) - 2 * (T * norm[k]) >= 2 * (Unit * x) - 2 * (Unit * y) - T * n
    BY <1>8, <1>10, <1>12, <2>1, RoundedInOrder
  <2>4. Unit * x >= Unit * y BY <1>2, <2>2
  <2>5. T \in Int /\ T > 0 BY <1>8 DEF Shares
  <2>6. PICK a \in Int, b \in Int : a = norm[j] /\ b = norm[k] BY <1>17
  <2>7. PICK p \in Int, q \in Int, z \in Int : p = T * a /\ q = T * b /\ z = T * n BY <2>5, <2>6
  <2>8. PICK u \in Int, v \in Int : u = Unit * x /\ v = Unit * y BY <1>2
  <2>9. 2 * q <= 2 * p + z BY <2>3, <2>4, <2>6, <2>7, <2>8
  <2>10. T * (2 * b) = 2 * q /\ T * (2 * a + n) = 2 * p + z BY <2>5, <2>6, <2>7
  <2>11. T * (2 * b) <= T * (2 * a + n) BY <2>9, <2>10
  <2>12. 2 * b <= 2 * a + n BY <2>5, <2>11, Divided
  <2> QED BY <2>6, <2>12
<1>19. ASSUME \A k \in D : f[k] = 200, \A k \in D : w[k] <= Cap
       PROVE  r = w
  <2>1. T = 200 * Unit
    <3>1. \A k \in D : w[k] \in Int /\ raw[k] = 200 * w[k] BY <1>2, <1>4, <1>19
    <3> QED BY <1>2, <1>7, <3>1, SumScaled
  <2>2. PICK last \in D : last = Max(D) BY <1>2, MaxIs
  <2>3. ASSUME NEW k \in D, k # last PROVE norm[k] = w[k]
    <3>1. -T < 2 * (T * norm[k]) - 2 * (Unit * raw[k]) /\ 2 * (T * norm[k]) - 2 * (Unit * raw[k]) <= T
      BY <1>8, <1>10, <2>2, <2>3 DEF Rounded
    <3>2. PICK a \in Int, b \in Int : a = norm[k] /\ b = w[k] BY <1>2, <1>17
    <3>3. raw[k] = b * 200 BY <1>4, <1>19, <3>2
    <3>4. PICK x \in Int, y \in Int : x = Unit * a /\ y = Unit * b BY <1>2, <3>2
    <3>5. T * norm[k] = 200 * x /\ Unit * raw[k] = 200 * y BY <1>2, <2>1, <3>2, <3>3, <3>4
    <3>6. -200 * Unit < 400 * x - 400 * y /\ 400 * x - 400 * y <= 200 * Unit
      BY <1>2, <2>1, <3>1, <3>4, <3>5
    <3>7. Unit * (2 * (a - b)) = 2 * x - 2 * y /\ Unit * 1 = Unit BY <1>2, <3>2, <3>4
    <3>8. Unit * (2 * (a - b)) <= Unit * 1 BY <1>2, <3>4, <3>6, <3>7
    <3>9. 2 * (a - b) <= 1 BY <1>2, <3>2, <3>8, Divided
    <3>10. Unit * (2 * (b - a)) = 2 * y - 2 * x BY <1>2, <3>2, <3>4
    <3>11. Unit * (2 * (b - a)) <= Unit * 1 BY <1>2, <3>4, <3>6, <3>7, <3>10
    <3>12. 2 * (b - a) <= 1 BY <1>2, <3>2, <3>11, Divided
    <3> QED BY <3>2, <3>9, <3>12
  <2>4. norm[last] = w[last]
    <3>1. Summed(norm, D) = norm[last] + Summed(norm, D \ {last}) BY <1>2, <1>17, SumStep
    <3>2. Summed(w, D) = w[last] + Summed(w, D \ {last})
      <4>1. \A k \in D : w[k] \in Int BY <1>2
      <4> QED BY <1>2, <4>1, SumStep
    <3>3. IsFiniteSet(D \ {last}) BY <1>2, FS_Subset
    <3>4. Summed(norm, D \ {last}) = Summed(w, D \ {last})
      <4>1. \A k \in D \ {last} : norm[k] = w[k] BY <2>3
      <4> QED BY <3>3, <4>1, SumSame
    <3>5. Summed(w, D \ {last}) \in Int
      <4>1. \A k \in D \ {last} : w[k] \in Int BY <1>2
      <4> QED BY <3>3, <4>1, SumStep
    <3>6. norm[last] \in Int /\ w[last] \in Int BY <1>2, <1>17
    <3> QED BY <1>2, <1>17, <3>1, <3>2, <3>4, <3>5, <3>6
  <2>5. \A k \in D : norm[k] = w[k] BY <2>3, <2>4
  <2>6. norm = w BY <1>2, <1>17, <2>5
  <2> QED BY <1>15, <1>19, <2>6
<1>20. \A k \in D : r[k] >= -(n + 1) /\ (n > 2 => r[k] <= Cap + (n + 1)) BY <1>2, <1>15
<1>21. \A j, k \in D : w[j] >= w[k] /\ f[j] >= f[k] => r[j] + (n + 1) >= r[k]
  <2> TAKE j, k \in D
  <2> HAVE w[j] >= w[k] /\ f[j] >= f[k]
  <2>1. r[j] + n >= r[k] BY <1>15, <1>18
  <2> QED BY <1>15, <2>1
<1> QED BY <1>1, <1>12, <1>13, <1>15, <1>16, <1>19, <1>20, <1>21

\* Weights the samples propose are sound, whatever the samples: those of a pillar's KPIs and
\* those of the pillars make one, follow the evidence, and keep to the cap, up to rounding
\* (wizard_c_calibration.py:300-350).
THEOREM WeightsSoundHolds ==
  OutlookSpec => [](outlook.of = "weights" => WeightsSound(outlook))
<1>1. ASSUME NEW c \in WeightCase PROVE WeightsSound(c)
  <2>1. PICK w \in Starting : c \in [of : {"weights"}, factor : [DOMAIN w -> Adjustment], weights : {w}]
    BY DEF WeightCase
  <2>2. PICK f : f = c.factor OBVIOUS
  <2>3. PICK D : D = DOMAIN w OBVIOUS
  <2>4. c.weights = w /\ f \in [D -> Adjustment] BY <2>1, <2>2, <2>3
  <2>5. Configured(w, f)
    <3>1. D \subseteq Int /\ IsFiniteSet(D) /\ D # {} /\ w \in [D -> Nat] /\ Total(w, D) = Unit
      BY <2>1, <2>3, WeightAssumption
    <3>2. f \in [D -> 100..300] BY <2>4, WeightAssumption
    <3>3. Summed(w, D) = Unit BY <3>1, TotalIsSummed
    <3> QED BY <2>3, <3>1, <3>2, <3>3 DEF Configured
  <2>6. PICK new, pillars : new = ProposeKpis(w, f) /\ pillars = ProposePillars(w, f) OBVIOUS
  <2>7. PICK n : n = Cardinality(D) OBVIOUS
  <2>8. /\ DOMAIN new = D /\ Total(new, D) = Unit
        /\ (\A k \in D : f[k] = 200) /\ (\A k \in D : w[k] <= Cap) => new = w
        /\ \A k \in D : new[k] >= -(n + 1) /\ (n > 2 => new[k] <= Cap + (n + 1))
        /\ \A j, k \in D : w[j] >= w[k] /\ f[j] >= f[k] => new[j] + (n + 1) >= new[k]
    BY <2>3, <2>5, <2>6, <2>7, KpisWeighed
  <2>9. /\ DOMAIN pillars = D /\ Total(pillars, D) = Unit
        /\ \A j, k \in D : w[j] >= w[k] /\ f[j] >= f[k] => pillars[j] + (n + 1) >= pillars[k]
    BY <2>3, <2>5, <2>6, <2>7, PillarsWeighed
  <2>10. DOMAIN c.factor = D BY <2>2, <2>4
  <2>11. Weighed(c, new, pillars)
    <3>1. Cardinality(DOMAIN new) = n BY <2>7, <2>8
    <3>2. \A w2 \in {new, pillars} : Total(w2, DOMAIN w2) = Unit BY <2>8, <2>9
    <3>3. \A w2 \in {new, pillars}, j, k \in D :
            w[j] >= w[k] /\ f[j] >= f[k] => w2[j] + (n + 1) >= w2[k]
      BY <2>8, <2>9
    <3> QED BY <2>2, <2>4, <2>8, <2>10, <3>1, <3>2, <3>3 DEF Weighed
  <2> QED BY <2>2, <2>4, <2>6, <2>11 DEF WeightsSound
<1>2. OutlookInit => (outlook.of = "weights" => WeightsSound(outlook))
  <2> SUFFICES ASSUME OutlookInit, outlook.of = "weights" PROVE WeightsSound(outlook) OBVIOUS
  <2>1. outlook \notin ForecastCase /\ outlook \notin SampleCase BY DEF ForecastCase, SampleCase
  <2>2. outlook \in WeightCase BY <2>1 DEF OutlookInit
  <2> QED BY <1>1, <2>2
<1> QED
  <2> DEFINE P == outlook.of = "weights" => WeightsSound(outlook)
  <2>1. P /\ [FALSE]_outlook => P' BY DEF WeightsSound
  <2>2. OutlookInit => P BY <1>2
  <2> QED BY <2>1, <2>2, PTL DEF OutlookSpec

\* What the rows of a list come to, taken one by one: events into groups, factors into a
\* product.
InWindow(g, e) == g # <<>> /\ e.day - g[Len(g)][1].day <= LabelWindow
JoinedTo(g, e) ==
  IF InWindow(g, e)
  THEN [g EXCEPT ![Len(g)] = Append(@, e)] ELSE Append(g, <<e>>)
Weakened(x, f) == (x * f) \div 100
TakenIn(kind, x, r) == IF kind = "groups" THEN JoinedTo(x, r) ELSE Weakened(x, r)

\* The last of the rows a fold is applied to is the greatest of their numbers.
LEMMA LastRow ==
  ASSUME NEW n \in Nat
  PROVE  /\ \A s \in SUBSET (1..n + 1) : n + 1 \in s => Max(s) = n + 1
         /\ \A k \in 1..n : Max(1..k) = k /\ (1..k) \ {k} = 1..k - 1
<1>1. ASSUME NEW s \in SUBSET (1..n + 1), n + 1 \in s PROVE Max(s) = n + 1
  <2>1. IsFiniteSet(1..n + 1) BY FS_Interval
  <2>2. IsFiniteSet(s) BY <2>1, FS_Subset
  <2>3. s \subseteq Int OBVIOUS
  <2>4. PICK m : m = Max(s) OBVIOUS
  <2>5. m \in s /\ m >= n + 1 BY <1>1, <2>2, <2>3, <2>4, MaxIs
  <2>6. m = n + 1 BY <2>5
  <2> QED BY <2>4, <2>6
<1>2. ASSUME NEW k \in 1..n PROVE Max(1..k) = k /\ (1..k) \ {k} = 1..k - 1
  <2>1. IsFiniteSet(1..k) /\ 1..k \subseteq Int /\ k \in 1..k BY FS_Interval
  <2>2. Max(1..k) \in 1..k /\ Max(1..k) >= k BY <2>1, MaxIs
  <2> QED BY <2>2
<1> QED BY <1>1, <1>2

\* What a fold computes, for every set of rows.
PartialTable(h, kind, x, rows, n) ==
  h = [s \in SUBSET (1..n) |-> IF s = {} THEN x ELSE TakenIn(kind, h[s \ {Max(s)}], rows[Max(s)])]

\* There is one, for any number of rows.
LEMMA PartialExists ==
  ASSUME NEW kind, NEW x, NEW rows, NEW n \in Nat
  PROVE  \E h : PartialTable(h, kind, x, rows, n)
<1> USE DEF PartialTable
<1> DEFINE Is(h, k) == PartialTable(h, kind, x, rows, k)
           Good == {k \in Nat : \E h : Is(h, k)}
<1>1. 0 \in Good
  <2>1. SUBSET (1..0) = {{}} OBVIOUS
  <2>2. Is([s \in {{}} |-> x], 0) BY <2>1
  <2> QED BY <2>2
<1>2. ASSUME NEW k \in Nat, k \in Good PROVE k + 1 \in Good
  <2>1. PICK h : Is(h, k) BY <1>2
  <2> DEFINE g == [s \in SUBSET (1..k + 1) |->
                     IF k + 1 \in s THEN TakenIn(kind, h[s \ {k + 1}], rows[k + 1]) ELSE h[s]]
  <2>2. ASSUME NEW s \in SUBSET (1..k + 1)
        PROVE  g[s] = IF s = {} THEN x ELSE TakenIn(kind, g[s \ {Max(s)}], rows[Max(s)])
    <3>1. CASE k + 1 \in s
      <4>1. Max(s) = k + 1 BY <3>1, LastRow
      <4>2. g[s \ {k + 1}] = h[s \ {k + 1}] OBVIOUS
      <4>3. g[s] = TakenIn(kind, h[s \ {k + 1}], rows[k + 1]) BY <3>1
      <4> HIDE DEF g
      <4> QED BY <3>1, <4>1, <4>2, <4>3
    <3>2. CASE k + 1 \notin s
      <4>1. s \in SUBSET (1..k) BY <3>2
      <4>3. g[s] = h[s] BY <3>2, <4>1
      <4>2. g[s \ {Max(s)}] = h[s \ {Max(s)}]
        <5> PICK m : m = Max(s) OBVIOUS
        <5>1. s \ {m} \in SUBSET (1..k) /\ k + 1 \notin s \ {m} BY <3>2, <4>1
        <5> QED BY <5>1
      <4>4. h[s] = IF s = {} THEN x ELSE TakenIn(kind, h[s \ {Max(s)}], rows[Max(s)]) BY <2>1, <4>1
      <4> HIDE DEF g
      <4> QED BY <4>2, <4>3, <4>4
    <3> QED BY <3>1, <3>2
  <2>3. DOMAIN g = SUBSET (1..k + 1) /\ g = [s \in SUBSET (1..k + 1) |-> g[s]] OBVIOUS
  <2> HIDE DEF g
  <2>4. Is(g, k + 1) BY <2>2, <2>3
  <2>5. \E j : Is(j, k + 1)
    <3> HIDE DEF Is
    <3> QED BY <2>4
  <2> HIDE DEF Is
  <2> QED BY <2>5
<1> HIDE DEF Good
<1>3. Nat \subseteq Good BY <1>1, <1>2, NatInductive
<1> QED BY <1>3 DEF Good

\* A fold, row by row: F[k] is what there is after k rows.
RowByRow(F, kind, x, rows, n) ==
  F[0] = x /\ \A k \in 1..n : F[k] = TakenIn(kind, F[k - 1], rows[k])

\* Over the sets of rows, as FoldLeft is defined, it is the same.
SetBySet(H, kind, x, rows, n) ==
  \A s \in SUBSET (1..n) : H[s] = IF s = {} THEN x ELSE TakenIn(kind, H[s \ {Max(s)}], rows[Max(s)])

LEMMA RowsOfPartial ==
  ASSUME NEW kind, NEW x, NEW rows, NEW n \in Nat, NEW H, SetBySet(H, kind, x, rows, n)
  PROVE  \E F : RowByRow(F, kind, x, rows, n) /\ H[1..n] = F[n]
<1>5. \A s \in SUBSET (1..n) : H[s] = IF s = {} THEN x ELSE TakenIn(kind, H[s \ {Max(s)}], rows[Max(s)])
  BY DEF SetBySet
<1> DEFINE F == [k \in 0..n |-> H[1..k]]
<1>6. F[0] = x
  <2>1. 1..0 = {} OBVIOUS
  <2>2. H[{}] = x BY <1>5
  <2>3. F[0] = H[1..0] OBVIOUS
  <2> QED BY <2>1, <2>2, <2>3
<1>7. ASSUME NEW k \in 1..n PROVE F[k] = TakenIn(kind, F[k - 1], rows[k])
  <2>1. Max(1..k) = k /\ (1..k) \ {k} = 1..k - 1 BY LastRow
  <2>3. PICK s : s = 1..k OBVIOUS
  <2>4. s \in SUBSET (1..n) /\ s # {}
    <3>1. k \in Int /\ 1 <= k /\ k <= n BY <1>7
    <3>2. 1 \in 1..k /\ 1..k \subseteq 1..n BY <3>1
    <3> QED BY <2>3, <3>2
  <2>5. H[s] = TakenIn(kind, H[s \ {Max(s)}], rows[Max(s)]) BY <1>5, <2>4
  <2>2. H[1..k] = TakenIn(kind, H[1..k - 1], rows[k]) BY <2>1, <2>3, <2>5
  <2> QED BY <2>2
<1>8. H[1..n] = F[n] OBVIOUS
<1> HIDE DEF F
<1> QED BY <1>6, <1>7, <1>8 DEF RowByRow

\* Events are gathered one by one.
LEMMA GroupedByRows ==
  ASSUME NEW n \in Nat, NEW rows, DOMAIN rows = 1..n
  PROVE  \E F : RowByRow(F, "groups", <<>>, rows, n) /\ Gathered(rows) = F[n]
<1> DEFINE It(H) == H = [s \in SUBSET DOMAIN rows |->
                         IF s = {} THEN <<>>
                         ELSE LET x == Max(s) groups == H[s \ {x}] e == rows[x] IN
                              IF groups # <<>> /\ e.day - groups[Len(groups)][1].day <= LabelWindow
                              THEN [groups EXCEPT ![Len(groups)] = Append(@, e)] ELSE Append(groups, <<e>>)]
           Its(H) == \A s \in SUBSET DOMAIN rows :
                        H[s] = IF s = {} THEN <<>> ELSE JoinedTo(H[s \ {Max(s)}], rows[Max(s)])
<1>0. \A x, r : TakenIn("groups", x, r) = JoinedTo(x, r) BY DEF TakenIn
<1>2. \E G : It(G)
  <2>1. PICK h : PartialTable(h, "groups", <<>>, rows, n) BY PartialExists
  <2>2. h = [s \in SUBSET DOMAIN rows |-> IF s = {} THEN <<>> ELSE JoinedTo(h[s \ {Max(s)}], rows[Max(s)])]
    <3> HIDE DEF It, Its
    <3>1. h = [s \in SUBSET (1..n) |-> IF s = {} THEN <<>> ELSE TakenIn("groups", h[s \ {Max(s)}], rows[Max(s)])]
      BY <2>1, Zenon DEF PartialTable
    <3>2. \A s \in SUBSET DOMAIN rows :
            h[s] = IF s = {} THEN <<>> ELSE JoinedTo(h[s \ {Max(s)}], rows[Max(s)])
      BY <1>0, <3>1
    <3>3. h = [s \in SUBSET DOMAIN rows |-> h[s]] BY <3>1
    <3> QED BY <3>2, <3>3
  <2>3. It(h) BY <2>2, Zenon DEF JoinedTo, InWindow
  <2> QED BY <2>3, Zenon
<1>3. \E H : It(H) /\ Gathered(rows) = H[DOMAIN rows]
  BY <1>2, Zenon DEF Gathered, FoldLeft, MapThenFoldSet
<1>4. PICK H : It(H) /\ Gathered(rows) = H[DOMAIN rows] BY <1>3
<1>5. Its(H) BY <1>4, Zenon DEF JoinedTo, InWindow
<1> HIDE DEF It
<1>6. ASSUME NEW s \in SUBSET (1..n)
      PROVE  H[s] = IF s = {} THEN <<>> ELSE TakenIn("groups", H[s \ {Max(s)}], rows[Max(s)])
  <2>1. H[s] = IF s = {} THEN <<>> ELSE JoinedTo(H[s \ {Max(s)}], rows[Max(s)]) BY <1>5, Zenon
  <2>2. TakenIn("groups", H[s \ {Max(s)}], rows[Max(s)]) = JoinedTo(H[s \ {Max(s)}], rows[Max(s)])
    BY <1>0, Zenon
  <2> HIDE DEF Its
  <2> QED BY <2>1, <2>2
<1> HIDE DEF Its
<1>7. SetBySet(H, "groups", <<>>, rows, n) BY <1>6, Zenon DEF SetBySet
<1>8. \E F : RowByRow(F, "groups", <<>>, rows, n) /\ H[1..n] = F[n] BY <1>7, RowsOfPartial
<1> QED BY <1>4, <1>8

\* Factors are multiplied one by one.
LEMMA ProductByRows ==
  ASSUME NEW n \in Nat, NEW rows, DOMAIN rows = 1..n
  PROVE  \E F : RowByRow(F, "product", 1000, rows, n) /\ Multiplied(rows) = F[n]
<1> DEFINE It(H, x) == H = [s \in SUBSET DOMAIN rows |->
                         IF s = {} THEN x
                         ELSE LET k == Max(s) p == H[s \ {k}] f == rows[k] IN (p * f) \div 100]
           Its(H, x) == \A s \in SUBSET DOMAIN rows :
                        H[s] = IF s = {} THEN x ELSE Weakened(H[s \ {Max(s)}], rows[Max(s)])
<1>0. \A x, r : TakenIn("product", x, r) = Weakened(x, r) BY DEF TakenIn
<1>2. ASSUME NEW x PROVE \E G : It(G, x)
  <2>1. PICK h : PartialTable(h, "product", x, rows, n) BY PartialExists
  <2>2. h = [s \in SUBSET DOMAIN rows |-> IF s = {} THEN x ELSE Weakened(h[s \ {Max(s)}], rows[Max(s)])]
    <3> HIDE DEF It, Its
    <3>1. h = [s \in SUBSET (1..n) |-> IF s = {} THEN x ELSE TakenIn("product", h[s \ {Max(s)}], rows[Max(s)])]
      BY <2>1, Zenon DEF PartialTable
    <3>2. \A s \in SUBSET DOMAIN rows :
            h[s] = IF s = {} THEN x ELSE Weakened(h[s \ {Max(s)}], rows[Max(s)])
      BY <1>0, <3>1
    <3>3. h = [s \in SUBSET DOMAIN rows |-> h[s]] BY <3>1
    <3> QED BY <3>2, <3>3
  <2>3. It(h, x) BY <2>2, Zenon DEF Weakened
  <2> HIDE DEF It, Its
  <2> QED BY <2>3
<1>2a. \E G : It(G, 1000)
  <2> HIDE DEF It, Its
  <2> QED BY <1>2
<1>3. \E H : It(H, 1000) /\ Multiplied(rows) = H[DOMAIN rows]
  BY <1>2a, Zenon DEF Multiplied, FoldLeft, MapThenFoldSet
<1>4. PICK H : It(H, 1000) /\ Multiplied(rows) = H[DOMAIN rows] BY <1>3
<1>5. Its(H, 1000) BY <1>4, Zenon DEF Weakened
<1> HIDE DEF It
<1>6. ASSUME NEW s \in SUBSET (1..n)
      PROVE  H[s] = IF s = {} THEN 1000 ELSE TakenIn("product", H[s \ {Max(s)}], rows[Max(s)])
  <2>1. H[s] = IF s = {} THEN 1000 ELSE Weakened(H[s \ {Max(s)}], rows[Max(s)]) BY <1>5, Zenon
  <2>2. TakenIn("product", H[s \ {Max(s)}], rows[Max(s)]) = Weakened(H[s \ {Max(s)}], rows[Max(s)])
    BY <1>0, Zenon
  <2> HIDE DEF Its
  <2> QED BY <2>1, <2>2
<1> HIDE DEF Its
<1>7. SetBySet(H, "product", 1000, rows, n) BY <1>6, Zenon DEF SetBySet
<1>8. \E F : RowByRow(F, "product", 1000, rows, n) /\ H[1..n] = F[n] BY <1>7, RowsOfPartial
<1> QED BY <1>4, <1>8

-----------------------------------------------------------------------------
(***************************************************************************)
(* Labels.  Outcomes of days and ids of their own are put in order, each   *)
(* once, and gathered into decisions.                                      *)
(***************************************************************************)
DatedOnce(S) == /\ IsFiniteSet(S) /\ \A e \in S : e.id \in Int /\ e.day \in Int
                /\ \A e, o \in S : e.id = o.id => e = o
BeforeIt(S, e) == {x \in S : Sooner(x, e)}

\* No two have as many before them.
LEMMA PlacesDiffer ==
  ASSUME NEW S, DatedOnce(S)
  PROVE  /\ \A e \in S : Cardinality(BeforeIt(S, e)) \in 0..Cardinality(S) - 1
         /\ \A e, o \in S : Cardinality(BeforeIt(S, e)) = Cardinality(BeforeIt(S, o)) => e = o
<1>0. IsFiniteSet(S) /\ Cardinality(S) \in Nat BY FS_CardinalityType DEF DatedOnce
<1>1. ASSUME NEW e \in S
      PROVE  /\ IsFiniteSet(BeforeIt(S, e)) /\ Cardinality(BeforeIt(S, e)) \in Nat
             /\ Cardinality(BeforeIt(S, e)) <= Cardinality(S) - 1
  <2>1. e \notin BeforeIt(S, e) BY DEF BeforeIt, Sooner, DatedOnce
  <2>2. BeforeIt(S, e) \subseteq S \ {e} BY <2>1 DEF BeforeIt
  <2>3. IsFiniteSet(S \ {e}) /\ Cardinality(S \ {e}) = Cardinality(S) - 1 BY <1>0, FS_RemoveElement
  <2> QED BY <2>2, <2>3, FS_Subset, FS_CardinalityType
<1>2. ASSUME NEW e \in S, NEW o \in S, Sooner(e, o)
      PROVE  Cardinality(BeforeIt(S, e)) < Cardinality(BeforeIt(S, o))
  <2>1. BeforeIt(S, e) \subseteq BeforeIt(S, o) /\ e \in BeforeIt(S, o) BY <1>2 DEF BeforeIt, Sooner, DatedOnce
  <2>2. e \notin BeforeIt(S, e) BY DEF BeforeIt, Sooner, DatedOnce
  <2>3. BeforeIt(S, e) \subseteq BeforeIt(S, o) \ {e} BY <2>1, <2>2
  <2>4. Cardinality(BeforeIt(S, o) \ {e}) = Cardinality(BeforeIt(S, o)) - 1 /\ IsFiniteSet(BeforeIt(S, o) \ {e})
    BY <1>1, <2>1, FS_RemoveElement
  <2>5. Cardinality(BeforeIt(S, e)) <= Cardinality(BeforeIt(S, o)) - 1 BY <2>3, <2>4, FS_Subset
  <2> QED BY <1>1, <2>5
<1>3. ASSUME NEW e \in S, NEW o \in S, e # o PROVE Sooner(e, o) \/ Sooner(o, e)
  <2>1. e.id \in Int /\ o.id \in Int /\ e.day \in Int /\ o.day \in Int /\ e.id # o.id BY <1>3 DEF DatedOnce
  <2> QED BY <2>1 DEF Sooner
<1>4. ASSUME NEW e \in S, NEW o \in S, Cardinality(BeforeIt(S, e)) = Cardinality(BeforeIt(S, o)) PROVE e = o
  <2>1. ~Sooner(e, o) /\ ~Sooner(o, e) BY <1>1, <1>2, <1>4
  <2> QED BY <1>3, <2>1
<1> QED BY <1>0, <1>1, <1>4

\* So the list has each of them once.
LEMMA InOrderIs ==
  ASSUME NEW S, DatedOnce(S), NEW n, n = Cardinality(S), NEW s, s = ByDay(S)
  PROVE  /\ n \in Nat /\ s \in [1..n -> S] /\ \A e \in S : \E i \in 1..n : s[i] = e
         /\ \A i, j \in 1..n : s[i] = s[j] => i = j
<1>0. IsFiniteSet(S) /\ n \in Nat BY FS_CardinalityType DEF DatedOnce
<1> DEFINE r == [e \in S |-> Cardinality(BeforeIt(S, e)) + 1]
<1>1. r \in Injection(S, 1..n)
  <2>1. \A e \in S : r[e] \in 1..n BY <1>0, PlacesDiffer
  <2>2. \A e, o \in S : r[e] = r[o] => e = o
    <3>1. \A e \in S : Cardinality(BeforeIt(S, e)) \in Int BY <1>0, PlacesDiffer
    <3> QED BY <3>1, PlacesDiffer
  <2> QED BY <2>1, <2>2 DEF Injection, IsInjective
<1>2. r \in Surjection(S, 1..n)
  <2>1. IsFiniteSet(1..n) /\ Cardinality(1..n) = n BY <1>0, FS_Interval
  <2> HIDE DEF r
  <2> QED BY <1>0, <1>1, <2>1, FS_Injection
<1>3. \A i \in 1..n : \E e \in S : Cardinality(BeforeIt(S, e)) = i - 1
  <2>1. \A i \in 1..n : \E e \in S : r[e] = i BY <1>2 DEF Surjection
  <2>2. \A e \in S : Cardinality(BeforeIt(S, e)) \in Int BY <1>0, PlacesDiffer
  <2> QED BY <2>1, <2>2
<1>4. s = [i \in 1..n |-> CHOOSE e \in S : Cardinality(BeforeIt(S, e)) = i - 1] BY Zenon DEF ByDay, BeforeIt
<1>5. \A i \in 1..n : s[i] \in S /\ Cardinality(BeforeIt(S, s[i])) = i - 1
  <2> TAKE i \in 1..n
  <2>1. s[i] = CHOOSE e \in S : Cardinality(BeforeIt(S, e)) = i - 1 BY <1>4
  <2> QED BY <1>3, <2>1, Zenon
<1>6. s \in [1..n -> S]
  <2>1. s = [i \in 1..n |-> s[i]] BY <1>4
  <2> QED BY <1>5, <2>1
<1>7. ASSUME NEW e \in S PROVE \E i \in 1..n : s[i] = e
  <2>1. PICK k : k = Cardinality(BeforeIt(S, e)) + 1 OBVIOUS
  <2>2. k \in 1..n /\ Cardinality(BeforeIt(S, e)) = k - 1 BY <1>0, <2>1, PlacesDiffer
  <2>3. s[k] = e BY <1>5, <2>2, PlacesDiffer
  <2> QED BY <2>2, <2>3
<1>8. ASSUME NEW i \in 1..n, NEW j \in 1..n, s[i] = s[j] PROVE i = j
  <2>1. i - 1 = j - 1 BY <1>5, <1>8
  <2> QED BY <1>0, <2>1
<1> QED BY <1>0, <1>6, <1>7, <1>8

\* What a list says, with an item more.
LEMMA ItemJoins ==
  ASSUME NEW S, NEW u \in Seq(S), u # <<>>, NEW e \in S
  PROVE  \E v : v = Append(u, e) /\ v \in Seq(S) /\ v # <<>> /\ ToSet(v) = ToSet(u) \cup {e} /\ v[1] = u[1]
<1> PICK v : v = Append(u, e) OBVIOUS
<1>1. v \in Seq(S) /\ Len(v) = Len(u) + 1 /\ v[Len(u) + 1] = e /\ \A i \in 1..Len(u) : v[i] = u[i] OBVIOUS
<1>2. Len(u) \in Nat /\ DOMAIN u = 1..Len(u) /\ DOMAIN v = 1..Len(u) + 1 /\ 1 \in 1..Len(u) BY <1>1
<1>3. ToSet(v) = ToSet(u) \cup {e}
  <2>1. \A i \in DOMAIN v : v[i] \in ToSet(u) \cup {e} BY <1>1, <1>2 DEF ToSet
  <2>2. \A i \in DOMAIN u : u[i] \in ToSet(v) BY <1>1, <1>2 DEF ToSet
  <2>3. e \in ToSet(v) BY <1>1, <1>2 DEF ToSet
  <2> QED BY <2>1, <2>2, <2>3 DEF ToSet
<1>4. v[1] = u[1] /\ v # <<>> BY <1>1, <1>2
<1>5. v = Append(u, e) /\ v \in Seq(S) BY <1>1
<1> QED BY <1>3, <1>4, <1>5, Zenon

LEMMA ItemsOfOne ==
  ASSUME NEW S, NEW e \in S, NEW v, v = <<e>>
  PROVE  v \in Seq(S) /\ v # <<>> /\ ToSet(v) = {e} /\ v[1] = e
<1>1. DOMAIN v = 1..1 /\ v[1] = e /\ v \in Seq(S) OBVIOUS
<1>2. ToSet(v) = {e} BY <1>1 DEF ToSet
<1> QED BY <1>1, <1>2

\* Decisions that the outcomes T, of S, are gathered into: each is in one, and they are
\* more than the window apart.
Decisions(g, S) == g \in Seq(Seq(S)) /\ \A i \in 1..Len(g) : g[i] # <<>>
GroupsParted(g) == \A i, j \in 1..Len(g) : i # j => ToSet(g[i]) \cap ToSet(g[j]) = {}
GroupsSpaced(g) == \A i, j \in 1..Len(g) : i < j => g[j][1].day - g[i][1].day > LabelWindow
HoldsAll(g, T) == \A x : x \in T <=> \E i \in 1..Len(g) : x \in ToSet(g[i])
GroupsOf(g, S, T) == Decisions(g, S) /\ GroupsParted(g) /\ GroupsSpaced(g) /\ HoldsAll(g, T)

LEMMA DecisionIs ==
  ASSUME NEW S, NEW g, Decisions(g, S)
  PROVE  /\ Len(g) \in Nat /\ DOMAIN g = 1..Len(g)
         /\ \A i \in 1..Len(g) : g[i] \in Seq(S) /\ g[i] # <<>> /\ ToSet(g[i]) \subseteq S /\ g[i][1] \in ToSet(g[i])
<1>1. Len(g) \in Nat /\ DOMAIN g = 1..Len(g) /\ \A i \in 1..Len(g) : g[i] \in Seq(S) /\ g[i] # <<>>
  BY DEF Decisions
<1>2. ASSUME NEW u \in Seq(S), u # <<>> PROVE ToSet(u) \subseteq S /\ u[1] \in ToSet(u)
  <2>1. DOMAIN u = 1..Len(u) /\ 1 \in 1..Len(u) BY <1>2
  <2>2. \A i \in DOMAIN u : u[i] \in S BY <2>1
  <2> QED BY <2>1, <2>2 DEF ToSet
<1> QED BY <1>1, <1>2

\* An outcome joins the last decision ...
LEMMA DecisionJoined ==
  ASSUME NEW S, NEW T, NEW g, GroupsOf(g, S, T), NEW e \in S, e \notin T, InWindow(g, e)
  PROVE  GroupsOf(JoinedTo(g, e), S, T \cup {e}) /\ Len(JoinedTo(g, e)) = Len(g)
<1> PICK h : h = JoinedTo(g, e) OBVIOUS
<1>j. g # <<>> BY DEF InWindow
<1>0. Decisions(g, S) /\ GroupsParted(g) /\ GroupsSpaced(g) /\ HoldsAll(g, T) BY DEF GroupsOf
<1>1. Len(g) \in Nat /\ DOMAIN g = 1..Len(g) /\ \A i \in 1..Len(g) : g[i] \in Seq(S) /\ g[i] # <<>>
  BY <1>0, DecisionIs
<1> PICK l : l = Len(g) OBVIOUS
<1>2. l \in 1..Len(g)
  <2>1. g \in Seq(Seq(S)) BY <1>0 DEF Decisions
  <2>2. Len(g) # 0 BY <1>j, <2>1
  <2> QED BY <1>1, <2>2
<1> PICK u : u = g[l] OBVIOUS
<1>u. u \in Seq(S) /\ u # <<>> BY <1>1, <1>2
<1>v. PICK v : v = Append(u, e) /\ v \in Seq(S) /\ v # <<>> /\ ToSet(v) = ToSet(u) \cup {e} /\ v[1] = u[1]
  BY <1>u, ItemJoins
<1>3. v \in Seq(S) /\ v # <<>> /\ ToSet(v) = ToSet(g[l]) \cup {e} /\ v[1] = g[l][1] BY <1>v
<1>4. h = [g EXCEPT ![l] = v] BY <1>v, Zenon DEF JoinedTo
<1>5. DOMAIN h = 1..l /\ h[l] = v /\ \A i \in 1..l : i # l => h[i] = g[i] BY <1>1, <1>2, <1>4
<1>7. h \in Seq(Seq(S)) /\ Len(h) = l
  <2> PICK A : A = Seq(S) OBVIOUS
  <2>1. g \in Seq(A) /\ v \in A BY <1>0, <1>3 DEF Decisions
  <2>2. [g EXCEPT ![l] = v] \in Seq(A) /\ Len([g EXCEPT ![l] = v]) = Len(g) BY <1>2, <2>1
  <2> QED BY <1>4, <2>2
<1>8. Decisions(h, S) BY <1>1, <1>3, <1>5, <1>7 DEF Decisions
<1>9. \A i \in 1..l : e \notin ToSet(g[i]) BY <1>0 DEF HoldsAll
<1>a. ASSUME NEW i \in 1..l, NEW j \in 1..l, i # j PROVE ToSet(h[i]) \cap ToSet(h[j]) = {}
  <2>1. ToSet(g[i]) \cap ToSet(g[j]) = {} BY <1>0, <1>a DEF GroupsParted
  <2>2. CASE i = l
    <3>1. h[j] = g[j] /\ h[i] = v BY <1>5, <1>a, <2>2
    <3> QED BY <1>3, <1>9, <2>1, <2>2, <3>1
  <2>3. CASE j = l
    <3>1. h[i] = g[i] /\ h[j] = v BY <1>5, <1>a, <2>3
    <3> QED BY <1>3, <1>9, <2>1, <2>3, <3>1
  <2>4. CASE i # l /\ j # l BY <1>5, <2>1, <2>4
  <2> QED BY <2>2, <2>3, <2>4
<1>b. \A i \in 1..l : h[i][1] = g[i][1] BY <1>3, <1>5
<1>c. GroupsSpaced(h) BY <1>0, <1>7, <1>b DEF GroupsSpaced
<1>d. HoldsAll(h, T \cup {e})
  <2>1. \A x : x \in T <=> \E i \in 1..l : x \in ToSet(g[i]) BY <1>0 DEF HoldsAll
  <2>2. ToSet(h[l]) = ToSet(g[l]) \cup {e} /\ \A i \in 1..l : i # l => ToSet(h[i]) = ToSet(g[i])
    BY <1>3, <1>5
  <2>4. \A i \in 1..l : ToSet(g[i]) \subseteq ToSet(h[i]) /\ ToSet(h[i]) \subseteq ToSet(g[i]) \cup {e}
    BY <2>2, Zenon
  <2>3. \A x : x \in T \cup {e} <=> \E i \in 1..l : x \in ToSet(h[i])
    <3>1. ASSUME NEW x \in T PROVE \E i \in 1..l : x \in ToSet(h[i]) BY <2>1, <2>4, Zenon
    <3>2. l \in 1..l /\ e \in ToSet(h[l])
      <4>1. l \in 1..l BY <1>2
      <4>2. e \in ToSet(h[l]) BY <2>2, Zenon
      <4> QED BY <4>1, <4>2
    <3>3. ASSUME NEW x, NEW i \in 1..l, x \in ToSet(h[i]) PROVE x \in T \cup {e}
      <4>1. x \in ToSet(g[i]) \/ x = e BY <2>4, <3>3, Zenon
      <4> QED BY <2>1, <4>1, Zenon
    <3> QED BY <3>1, <3>2, <3>3, Zenon
  <2> QED BY <1>7, <2>3 DEF HoldsAll
<1>e. GroupsParted(h) BY <1>7, <1>a DEF GroupsParted
<1> QED BY <1>7, <1>8, <1>c, <1>d, <1>e DEF GroupsOf

\* ... or begins one.
LEMMA DecisionBegun ==
  ASSUME NEW S, DatedOnce(S), NEW T, NEW g, GroupsOf(g, S, T), NEW e \in S, e \notin T, ~InWindow(g, e)
  PROVE  GroupsOf(JoinedTo(g, e), S, T \cup {e}) /\ Len(JoinedTo(g, e)) = Len(g) + 1
<1> PICK h : h = JoinedTo(g, e) OBVIOUS
<1>0. Decisions(g, S) /\ GroupsParted(g) /\ GroupsSpaced(g) /\ HoldsAll(g, T) BY DEF GroupsOf
<1>1. Len(g) \in Nat /\ DOMAIN g = 1..Len(g) /\ \A i \in 1..Len(g) : g[i] \in Seq(S) /\ g[i] # <<>> /\ g[i][1] \in S
  BY <1>0, DecisionIs
<1> PICK l : l = Len(g) OBVIOUS
<1> PICK v : v = <<e>> OBVIOUS
<1>3. v \in Seq(S) /\ v # <<>> /\ ToSet(v) = {e} /\ v[1] = e BY ItemsOfOne
<1>4. g \in Seq(Seq(S)) /\ h = Append(g, v)
  <2>1. h = Append(g, <<e>>) BY Zenon DEF JoinedTo
  <2> QED BY <1>0, <2>1 DEF Decisions
<1>5. h \in Seq(Seq(S)) /\ Len(h) = l + 1 /\ h[l + 1] = v /\ \A i \in 1..l : h[i] = g[i] BY <1>3, <1>4
<1>6. l \in Nat BY <1>1
<1>8. Decisions(h, S)
  <2>1. ASSUME NEW i \in 1..l + 1 PROVE h[i] # <<>>
    <3>1. CASE i = l + 1 BY <1>3, <1>5, <3>1
    <3>2. CASE i # l + 1
      <4>1. i \in 1..l BY <1>6, <3>2
      <4>2. h[i] = g[i] /\ g[i] # <<>> BY <1>1, <1>5, <4>1
      <4> QED BY <4>2
    <3> QED BY <3>1, <3>2
  <2> QED BY <1>5, <2>1 DEF Decisions
<1>9. \A i \in 1..l : e \notin ToSet(g[i]) BY <1>0 DEF HoldsAll
<1>a. ASSUME NEW i \in 1..l + 1, NEW j \in 1..l + 1, i # j PROVE ToSet(h[i]) \cap ToSet(h[j]) = {}
  <2>2. CASE i = l + 1
    <3>1. j \in 1..l BY <1>6, <1>a, <2>2
    <3>2. h[j] = g[j] /\ h[i] = v BY <1>5, <2>2, <3>1
    <3> QED BY <1>3, <1>9, <3>1, <3>2
  <2>3. CASE j = l + 1
    <3>1. i \in 1..l BY <1>6, <1>a, <2>3
    <3>2. h[i] = g[i] /\ h[j] = v BY <1>5, <2>3, <3>1
    <3> QED BY <1>3, <1>9, <3>1, <3>2
  <2>4. CASE i # l + 1 /\ j # l + 1
    <3>1. i \in 1..l /\ j \in 1..l BY <1>6, <2>4
    <3>2. ToSet(g[i]) \cap ToSet(g[j]) = {} BY <1>0, <1>a, <3>1 DEF GroupsParted
    <3> QED BY <1>5, <3>1, <3>2
  <2> QED BY <2>2, <2>3, <2>4
<1>e. GroupsParted(h) BY <1>5, <1>a DEF GroupsParted
<1>b. ASSUME NEW i \in 1..l PROVE e.day - g[i][1].day > LabelWindow
  <2>1. g # <<>> /\ l \in 1..l BY <1>4, <1>6, <1>b
  <2>2. ~(e.day - g[l][1].day <= LabelWindow) BY <2>1 DEF InWindow
  <2>3. i = l \/ g[l][1].day - g[i][1].day > LabelWindow BY <1>0, <1>6, <2>1 DEF GroupsSpaced
  <2>4. e.day \in Int /\ g[l][1].day \in Int /\ g[i][1].day \in Int BY <1>1, <2>1 DEF DatedOnce
  <2> QED BY <2>2, <2>3, <2>4 DEF LabelWindow
<1>c. ASSUME NEW i \in 1..l + 1, NEW j \in 1..l + 1, i < j PROVE h[j][1].day - h[i][1].day > LabelWindow
  <2>1. i \in 1..l BY <1>6, <1>c
  <2>2. h[i] = g[i] BY <1>5, <2>1
  <2>3. CASE j = l + 1 BY <1>3, <1>5, <1>b, <2>1, <2>2, <2>3
  <2>4. CASE j # l + 1
    <3>1. j \in 1..l /\ h[j] = g[j] BY <1>5, <1>6, <2>4
    <3> QED BY <1>0, <1>c, <2>1, <2>2, <3>1 DEF GroupsSpaced
  <2> QED BY <2>3, <2>4
<1>f. GroupsSpaced(h) BY <1>5, <1>c DEF GroupsSpaced
<1>d. HoldsAll(h, T \cup {e})
  <2>1. \A x : x \in T <=> \E i \in 1..l : x \in ToSet(g[i]) BY <1>0 DEF HoldsAll
  <2>2. ToSet(h[l + 1]) = {e} /\ \A i \in 1..l : ToSet(h[i]) = ToSet(g[i]) BY <1>3, <1>5
  <2>3. \A x : x \in T \cup {e} <=> \E i \in 1..l + 1 : x \in ToSet(h[i])
    <3>1. \A i : i \in 1..l + 1 <=> i \in 1..l \/ i = l + 1 BY <1>6
    <3> QED BY <2>1, <2>2, <3>1, Zenon
  <2> QED BY <1>5, <2>3 DEF HoldsAll
<1> QED BY <1>5, <1>8, <1>d, <1>e, <1>f DEF GroupsOf

\* The outcomes that label a decision.
Settling(outs) == {e \in outs : e.bucket \in Terminal}
EachOnce(s, n) == \A i, j \in 1..n : s[i] = s[j] => i = j
EventsUpTo(s, k) == {s[i] : i \in 1..k}

\* One outcome more.
LEMMA OneMore ==
  ASSUME NEW S, DatedOnce(S), NEW n \in Nat, NEW s \in [1..n -> S], EachOnce(s, n),
         NEW k \in Nat, k < n, NEW g, GroupsOf(g, S, EventsUpTo(s, k)), Len(g) <= k
  PROVE  LET h == TakenIn("groups", g, s[k + 1]) IN GroupsOf(h, S, EventsUpTo(s, k + 1)) /\ Len(h) <= k + 1
<1> PICK h : h = TakenIn("groups", g, s[k + 1]) OBVIOUS
<1> SUFFICES GroupsOf(h, S, EventsUpTo(s, k + 1)) /\ Len(h) <= k + 1 OBVIOUS
<1> PICK e : e = s[k + 1] OBVIOUS
<1>1. k + 1 \in 1..n /\ e \in S OBVIOUS
<1>2. EventsUpTo(s, k + 1) = EventsUpTo(s, k) \cup {e} BY <1>1 DEF EventsUpTo
<1>3. e \notin EventsUpTo(s, k)
  <2>1. \A i \in 1..k : i \in 1..n /\ i # k + 1 OBVIOUS
  <2>2. \A i \in 1..k : s[i] # e BY <1>1, <2>1 DEF EachOnce
  <2> QED BY <2>2 DEF EventsUpTo
<1> PICK T : T = EventsUpTo(s, k) OBVIOUS
<1>4. GroupsOf(g, S, T) /\ e \notin T BY <1>3
<1>9. EventsUpTo(s, k + 1) = T \cup {e} BY <1>2, Zenon
<1>5. Len(g) \in Nat BY <1>4, DecisionIs DEF GroupsOf
<1>6. h = JoinedTo(g, e) BY DEF TakenIn
<1>7. CASE InWindow(g, e)
  <2>2. GroupsOf(h, S, T \cup {e}) /\ Len(h) = Len(g) BY <1>1, <1>4, <1>6, <1>7, DecisionJoined
  <2>3. GroupsOf(h, S, EventsUpTo(s, k + 1)) BY <1>9, <2>2, Zenon
  <2>4. Len(h) <= k + 1 BY <1>5, <2>2
  <2> QED BY <2>3, <2>4
<1>8. CASE ~InWindow(g, e)
  <2>2. GroupsOf(h, S, T \cup {e}) /\ Len(h) = Len(g) + 1 BY <1>1, <1>4, <1>6, <1>8, DecisionBegun
  <2>3. GroupsOf(h, S, EventsUpTo(s, k + 1)) BY <1>9, <2>2, Zenon
  <2>4. Len(h) <= k + 1 BY <1>5, <2>2
  <2> QED BY <2>3, <2>4
<1> QED BY <1>7, <1>8

\* All of them.
LEMMA GroupedIs ==
  ASSUME NEW outs, DatedOnce(outs)
  PROVE  /\ GroupsOf(Grouped(outs), Settling(outs), Settling(outs))
         /\ Len(Grouped(outs)) <= Cardinality(outs)
<1> PICK S : S = Settling(outs) OBVIOUS
<1>1. DatedOnce(S) /\ Cardinality(S) <= Cardinality(outs)
  <2>1. S \subseteq outs BY DEF Settling
  <2>2. IsFiniteSet(S) /\ Cardinality(S) <= Cardinality(outs) BY <2>1, FS_Subset DEF DatedOnce
  <2> QED BY <2>1, <2>2 DEF DatedOnce
<1> PICK n : n = Cardinality(S) OBVIOUS
<1> PICK s : s = ByDay(S) OBVIOUS
<1>2. /\ n \in Nat /\ s \in [1..n -> S] /\ \A e \in S : \E i \in 1..n : s[i] = e
      /\ \A i, j \in 1..n : s[i] = s[j] => i = j
  BY <1>1, InOrderIs
<1>3. Grouped(outs) = Gathered(s) BY Zenon DEF Grouped, Settling
<1>4. PICK F : RowByRow(F, "groups", <<>>, s, n) /\ Gathered(s) = F[n]
  <2>1. DOMAIN s = 1..n BY <1>2
  <2> QED BY <1>2, <2>1, GroupedByRows
<1> DEFINE P(k) == GroupsOf(F[k], S, EventsUpTo(s, k)) /\ Len(F[k]) <= k
           Good == {k \in Nat : k <= n => P(k)}
<1>5. 0 \in Good
  <2>1. F[0] = <<>> BY <1>4 DEF RowByRow
  <2>2. EventsUpTo(s, 0) = {} BY DEF EventsUpTo
  <2>3. \A g : g = <<>> => GroupsOf(g, S, {}) BY DEF GroupsOf, Decisions, GroupsParted, GroupsSpaced, HoldsAll
  <2>4. PICK g, T : g = F[0] /\ T = EventsUpTo(s, 0) OBVIOUS
  <2>5. GroupsOf(g, S, T) /\ Len(g) = 0 BY <2>1, <2>2, <2>3, <2>4
  <2>6. P(0) BY <2>4, <2>5
  <2> HIDE DEF P
  <2> QED BY <1>2, <2>6
<1>6. ASSUME NEW k \in Nat, k \in Good PROVE k + 1 \in Good
  <2> SUFFICES ASSUME k + 1 <= n PROVE P(k + 1) OBVIOUS
  <2>1. P(k) /\ k < n BY <1>2, <1>6
  <2>2. F[k + 1] = TakenIn("groups", F[k], s[k + 1])
    <3>1. k + 1 \in 1..n /\ (k + 1) - 1 = k BY <1>2
    <3> QED BY <1>4, <3>1 DEF RowByRow
  <2>3. PICK g : g = F[k] OBVIOUS
  <2>4. GroupsOf(g, S, EventsUpTo(s, k)) /\ Len(g) <= k BY <2>1, <2>3
  <2>5. EachOnce(s, n) BY <1>2 DEF EachOnce
  <2>6. PICK h : h = TakenIn("groups", g, s[k + 1]) OBVIOUS
  <2>7. GroupsOf(h, S, EventsUpTo(s, k + 1)) /\ Len(h) <= k + 1 BY <1>1, <1>2, <2>1, <2>4, <2>5, <2>6, OneMore
  <2> QED BY <2>2, <2>3, <2>6, <2>7
<1>7. n \in Good
  <2> HIDE DEF Good
  <2> QED BY <1>2, <1>5, <1>6, NatInductive
<1>8. EventsUpTo(s, n) = S BY <1>2 DEF EventsUpTo
<1>9. GroupsOf(F[n], S, S) /\ Len(F[n]) <= n BY <1>2, <1>7, <1>8
<1>a. IsFiniteSet(S) /\ n \in Nat /\ Cardinality(outs) \in Nat BY <1>1, <1>2, FS_CardinalityType DEF DatedOnce
<1>b. Len(F[n]) \in Nat BY <1>9, DecisionIs DEF GroupsOf
<1> HIDE DEF Good
<1> QED BY <1>1, <1>3, <1>4, <1>9, <1>a, <1>b

MonthsListed(course) == DOMAIN course \subseteq Int /\ IsFiniteSet(DOMAIN course)

\* A label by the group, and the state of the account when it was decided.
Labelled(group, s) ==
  [day |-> group[1].day, retained |-> "lost" \notin {e.bucket : e \in ToSet(group)},
   expanded |-> "expansion" \in {e.bucket : e \in ToSet(group)}, stratum |-> s,
   ids |-> {e.id : e \in ToSet(group)}]
StateAt(course, before) == IF before = {} THEN Unknown ELSE StratumOf(course[Max(before)])

LEMMA LabelIs ==
  ASSUME NEW group, NEW course
  PROVE  LabelOf(group, course) = Labelled(group, StateAt(course, Prior(course, group[1].day)))
BY Zenon DEF LabelOf, Labelled, StateAt

\* The months before a decision are the same whether later ones are known or not.
LEMMA LabelLooksBack ==
  ASSUME NEW group, NEW course, MonthsListed(course), NEW t, t = MonthAt(group[1].day),
         NEW earlier, earlier = [m \in {x \in DOMAIN course : x < t} |-> course[m]]
  PROVE  LabelOf(group, earlier) = LabelOf(group, course)
<1> PICK d : d = group[1].day OBVIOUS
<1> PICK before : before = Prior(course, d) OBVIOUS
<1>1. DOMAIN earlier = {x \in DOMAIN course : x < t} OBVIOUS
<1>2. Prior(course, d) = {x \in DOMAIN course : x < t} BY Zenon DEF Prior
<1>3. Prior(earlier, d) = {x \in DOMAIN earlier : x < t} BY Zenon DEF Prior
<1>4. Prior(earlier, d) = before BY <1>1, <1>2, <1>3
<1>5. before # {} => earlier[Max(before)] = course[Max(before)]
  <2> SUFFICES ASSUME before # {} PROVE earlier[Max(before)] = course[Max(before)] OBVIOUS
  <2>1. before \subseteq DOMAIN course BY <1>2
  <2>2. IsFiniteSet(before) /\ before \subseteq Int BY <2>1, FS_Subset DEF MonthsListed
  <2>3. Max(before) \in before BY <2>2, MaxIs
  <2>4. PICK m : m = Max(before) OBVIOUS
  <2>5. m \in {x \in DOMAIN course : x < t} BY <1>2, <2>3, <2>4
  <2>6. earlier[m] = course[m] BY <2>5
  <2> QED BY <2>4, <2>6
<1>6. LabelOf(group, earlier) = Labelled(group, StateAt(earlier, before))
  <2>1. LabelOf(group, earlier) = Labelled(group, StateAt(earlier, Prior(earlier, group[1].day)))
    BY LabelIs, Zenon
  <2> QED BY <1>4, <2>1
<1>7. LabelOf(group, course) = Labelled(group, StateAt(course, before)) BY LabelIs, Zenon
<1>8. StateAt(earlier, before) = StateAt(course, before)
  <2>1. CASE before = {} BY <2>1 DEF StateAt
  <2>2. CASE before # {} BY <1>5, <2>2 DEF StateAt
  <2> QED BY <2>1, <2>2
<1> QED BY <1>6, <1>7, <1>8

LEMMA LabelSays ==
  ASSUME NEW group, NEW course
  PROVE  /\ LabelOf(group, course).day = group[1].day
         /\ LabelOf(group, course).ids = {e.id : e \in ToSet(group)}
         /\ LabelOf(group, course).retained = ("lost" \notin {e.bucket : e \in ToSet(group)})
         /\ LabelOf(group, course).expanded = ("expansion" \in {e.bucket : e \in ToSet(group)})
BY Zenon DEF LabelOf

\* No label looks ahead, and each decision has its own outcomes and time.
LEMMA LabelsLookBack ==
  ASSUME NEW c, DatedOnce(c.outs), MonthsListed(c.course)
  PROVE  LooksNotAhead(c)
<1> PICK g : g = Grouped(c.outs) OBVIOUS
<1> PICK labels : labels = Labels(c.outs, c.course) OBVIOUS
<1> PICK S : S = Settling(c.outs) OBVIOUS
<1>1. GroupsOf(g, S, S) BY GroupedIs
<1>2. DOMAIN g = 1..Len(g) /\ Len(g) \in Nat BY <1>1, DecisionIs DEF GroupsOf
<1>3. \A course : Labels(c.outs, course) = [i \in 1..Len(g) |-> LabelOf(g[i], course)]
  BY <1>2, Zenon DEF Labels
<1>4. DOMAIN labels = 1..Len(g) /\ \A i \in 1..Len(g) : labels[i] = LabelOf(g[i], c.course)
  <2>1. labels = [i \in 1..Len(g) |-> LabelOf(g[i], c.course)] BY <1>3
  <2> QED BY <2>1, Zenon
<1>5. ASSUME NEW i \in DOMAIN labels, NEW earlier,
             earlier = [m \in {x \in DOMAIN c.course : x < MonthAt(labels[i].day)} |-> c.course[m]]
      PROVE  Labels(c.outs, earlier)[i] = labels[i]
  <2>1. labels[i] = LabelOf(g[i], c.course) /\ labels[i].day = g[i][1].day BY <1>4, LabelSays
  <2>2. Labels(c.outs, earlier)[i] = LabelOf(g[i], earlier)
    <3>1. i \in 1..Len(g) BY <1>4
    <3> QED BY <1>3, <3>1, Zenon
  <2>3. PICK course, group, t : course = c.course /\ group = g[i] /\ t = MonthAt(group[1].day) OBVIOUS
  <2>4. earlier = [m \in {x \in DOMAIN course : x < t} |-> course[m]] BY <1>5, <2>1, <2>3
  <2>5. LabelOf(group, earlier) = LabelOf(group, course) BY <2>3, <2>4, LabelLooksBack
  <2> QED BY <2>1, <2>2, <2>3, <2>5
<1>6. ASSUME NEW e \in c.outs, NEW i \in 1..Len(g) PROVE e.id \in labels[i].ids <=> e \in ToSet(g[i])
  <2>1. labels[i].ids = {x.id : x \in ToSet(g[i])} BY <1>4, LabelSays
  <2>2. ToSet(g[i]) \subseteq c.outs
    <3>1. ToSet(g[i]) \subseteq S BY <1>1, DecisionIs DEF GroupsOf
    <3> QED BY <3>1 DEF Settling
  <2>3. \A x \in c.outs : x.id = e.id => x = e BY DEF DatedOnce
  <2> QED BY <2>1, <2>2, <2>3
<1>7. ASSUME NEW e \in c.outs, e.bucket \in Terminal
      PROVE  \E i \in DOMAIN labels :
               e.id \in labels[i].ids /\ \A j \in DOMAIN labels : e.id \in labels[j].ids => i = j
  <2>1. e \in S BY <1>7 DEF Settling
  <2>2. PICK i \in 1..Len(g) : e \in ToSet(g[i]) BY <1>1, <2>1 DEF GroupsOf, HoldsAll
  <2>3. \A j \in 1..Len(g) : e \in ToSet(g[j]) => i = j BY <1>1, <2>2 DEF GroupsOf, GroupsParted
  <2> QED BY <1>4, <1>6, <2>2, <2>3
<1>8. ASSUME NEW i \in DOMAIN labels, NEW j \in DOMAIN labels, i < j
      PROVE  labels[j].day - labels[i].day > LabelWindow
  <2>1. labels[i].day = g[i][1].day /\ labels[j].day = g[j][1].day BY <1>4, LabelSays
  <2>2. g[j][1].day - g[i][1].day > LabelWindow BY <1>1, <1>4, <1>8 DEF GroupsOf, GroupsSpaced
  <2> QED BY <2>1, <2>2
<1> QED BY <1>5, <1>7, <1>8 DEF LooksNotAhead

-----------------------------------------------------------------------------
(***************************************************************************)
(* Estimates.                                                              *)
(***************************************************************************)
FactorRange == 50..200

\* A factor of at least one half leaves at least one half, rounded down, and a larger one
\* of more leaves no less.
HalfLeft(w, x) == w \in Nat /\ 2 * w + 1 >= x

LEMMA WeakenedIs ==
  ASSUME NEW x \in Nat, NEW f \in FactorRange
  PROVE  HalfLeft(Weakened(x, f), x)
<1>1. f \in 50..200 BY DEF FactorRange
<1>2. x * f \in Nat /\ 50 * x <= x * f
  <2>1. x * 50 <= x * f BY <1>1
  <2> QED BY <1>1, <2>1
<1>3. PICK v \in Nat : v = x * f BY <1>2
<1>4. PICK q : q = v \div 100 OBVIOUS
<1>5. q \in Int /\ 100 * q <= v /\ v < 100 * q + 100 BY <1>3, <1>4
<1>6. q \in Nat /\ 2 * q + 1 >= x BY <1>2, <1>3, <1>5
<1> QED BY <1>3, <1>4, <1>6 DEF Weakened, HalfLeft

LEMMA WeakenedFollows ==
  ASSUME NEW x \in Nat, NEW y \in Nat, NEW f \in FactorRange, NEW g \in FactorRange, x <= y, f <= g
  PROVE  Weakened(x, f) <= Weakened(y, g)
<1>0. f \in Nat /\ g \in Nat BY DEF FactorRange
<1>1. x * f <= y * f /\ y * f <= y * g BY <1>0
<1>2. PICK v \in Nat : v = x * f BY <1>0
<1>3. PICK u \in Nat : u = y * f BY <1>0
<1>4. PICK w \in Nat : w = y * g BY <1>0
<1>5. v <= w BY <1>1, <1>2, <1>3, <1>4
<1>6. v \div 100 <= w \div 100 BY <1>5
<1> QED BY <1>2, <1>4, <1>6 DEF Weakened

FactorList(rows, n) == DOMAIN rows = 1..n /\ \A i \in 1..n : rows[i] \in FactorRange

\* Five factors at most leave something of the thousand, and larger ones no less.
LEMMA MultipliedIs ==
  ASSUME NEW n \in 0..5, NEW rows, FactorList(rows, n)
  PROVE  /\ Multiplied(rows) \in Nat \ {0}
         /\ \A more : FactorList(more, n) /\ (\A i \in 1..n : rows[i] <= more[i])
                      => Multiplied(rows) <= Multiplied(more)
<1> DEFINE least == [k \in 0..5 |-> IF k = 0 THEN 1000 ELSE IF k = 1 THEN 500 ELSE IF k = 2 THEN 250
                                    ELSE IF k = 3 THEN 124 ELSE IF k = 4 THEN 61 ELSE 30]
<1>1. PICK F : RowByRow(F, "product", 1000, rows, n) /\ Multiplied(rows) = F[n]
  BY ProductByRows DEF FactorList
<1>0. \A x, f : TakenIn("product", x, f) = Weakened(x, f) BY DEF TakenIn
<1>2. F[0] = 1000 /\ \A k \in Nat : k + 1 <= n => F[k + 1] = Weakened(F[k], rows[k + 1]) /\ rows[k + 1] \in FactorRange
  <2>1. \A k \in Nat : k + 1 <= n => k + 1 \in 1..n /\ (k + 1) - 1 = k OBVIOUS
  <2> QED BY <1>0, <1>1, <2>1 DEF RowByRow, FactorList
<1>3. \A k \in Nat : k <= n => F[k] \in Nat /\ F[k] >= least[k]
  <2> DEFINE Good == {k \in Nat : k <= n => F[k] \in Nat /\ F[k] >= least[k]}
  <2>1. 0 \in Good BY <1>2
  <2>2. ASSUME NEW k \in Nat, k \in Good PROVE k + 1 \in Good
    <3> SUFFICES ASSUME k + 1 <= n PROVE F[k + 1] \in Nat /\ F[k + 1] >= least[k + 1] OBVIOUS
    <3>1. F[k] \in Nat /\ F[k] >= least[k] /\ k \in 0..4 BY <2>2
    <3>2. F[k + 1] = Weakened(F[k], rows[k + 1]) /\ rows[k + 1] \in FactorRange BY <1>2
    <3>3. F[k + 1] \in Nat /\ 2 * F[k + 1] + 1 >= F[k]
      <4>1. HalfLeft(F[k + 1], F[k]) BY <3>1, <3>2, WeakenedIs, Zenon
      <4> QED BY <4>1 DEF HalfLeft
    <3>4. least[k] >= 2 * least[k + 1] /\ least[k] \in Nat /\ least[k + 1] \in Nat BY <3>1
    <3> HIDE DEF least
    <3> QED BY <3>1, <3>3, <3>4
  <2> HIDE DEF Good
  <2>3. Nat \subseteq Good BY <2>1, <2>2, NatInductive
  <2> QED BY <2>3 DEF Good
<1>4. F[n] \in Nat \ {0}
  <2>1. least[n] > 0 /\ least[n] \in Nat OBVIOUS
  <2>2. F[n] \in Nat /\ F[n] >= least[n] BY <1>3
  <2> HIDE DEF least
  <2> QED BY <2>1, <2>2
<1>5. ASSUME NEW more, FactorList(more, n), \A i \in 1..n : rows[i] <= more[i]
      PROVE  F[n] <= Multiplied(more)
  <2>1. PICK G : RowByRow(G, "product", 1000, more, n) /\ Multiplied(more) = G[n]
    BY <1>5, ProductByRows DEF FactorList
  <2>2. G[0] = 1000 /\ \A k \in Nat : k + 1 <= n =>
          G[k + 1] = Weakened(G[k], more[k + 1]) /\ more[k + 1] \in FactorRange /\ rows[k + 1] <= more[k + 1]
    <3>1. \A k \in Nat : k + 1 <= n => k + 1 \in 1..n /\ (k + 1) - 1 = k OBVIOUS
    <3> QED BY <1>0, <1>5, <2>1, <3>1 DEF RowByRow, FactorList
  <2> DEFINE Good == {k \in Nat : k <= n => G[k] \in Nat /\ F[k] <= G[k]}
  <2>3. 0 \in Good BY <1>2, <2>2
  <2>4. ASSUME NEW k \in Nat, k \in Good PROVE k + 1 \in Good
    <3> SUFFICES ASSUME k + 1 <= n PROVE G[k + 1] \in Nat /\ F[k + 1] <= G[k + 1] OBVIOUS
    <3>0. G[k] \in Nat /\ F[k] <= G[k] BY <2>4
    <3>1. F[k] \in Nat /\ G[k] \in Nat /\ F[k] <= G[k]
      <4> HIDE DEF least, Good
      <4> QED BY <1>3, <3>0
    <3>2. F[k + 1] = Weakened(F[k], rows[k + 1]) /\ rows[k + 1] \in FactorRange BY <1>2
    <3>3. G[k + 1] = Weakened(G[k], more[k + 1]) /\ more[k + 1] \in FactorRange /\ rows[k + 1] <= more[k + 1] BY <2>2
    <3>4. PICK x \in Nat, y \in Nat, f \in FactorRange, h \in FactorRange :
            x = F[k] /\ y = G[k] /\ f = rows[k + 1] /\ h = more[k + 1] BY <3>1, <3>2, <3>3
    <3>5. Weakened(x, f) <= Weakened(y, h) BY <3>1, <3>3, <3>4, WeakenedFollows
    <3>6. Weakened(y, h) \in Nat BY WeakenedIs DEF HalfLeft
    <3> QED BY <3>2, <3>3, <3>4, <3>5, <3>6
  <2>5. n \in Good
    <3> HIDE DEF Good
    <3> QED BY <2>3, <2>4, NatInductive
  <2> QED BY <2>1, <2>5
<1> HIDE DEF least
<1> QED BY <1>1, <1>4, <1>5

\* A chance is within bounds, and the prior follows the product.
OddsRange == 20..980

LEMMA BoundedIs == \A x \in Int : Bounded(x) \in OddsRange
BY DEF Bounded, Clamped, OddsRange

LEMMA BoundedFollows == \A x, y \in Int : x <= y => Bounded(x) <= Bounded(y)
BY DEF Bounded, Clamped

ChanceAhead(p) == Bounded((850 * p) \div 1000)
ChanceBetween(p) == Bounded(1000 - (60 * 1000) \div p)

LEMMA ChanceBounds ==
  ASSUME NEW p \in Nat \ {0}
  PROVE  ChanceAhead(p) \in OddsRange /\ ChanceBetween(p) \in OddsRange
<1>1. PICK x \in Int : x = (850 * p) \div 1000 OBVIOUS
<1>2. PICK y \in Int : y = 1000 - (60 * 1000) \div p OBVIOUS
<1>3. ChanceAhead(p) = Bounded(x) BY <1>1 DEF ChanceAhead
<1>4. ChanceBetween(p) = Bounded(y) BY <1>2 DEF ChanceBetween
<1>5. Bounded(x) \in OddsRange /\ Bounded(y) \in OddsRange BY BoundedIs
<1> QED BY <1>3, <1>4, <1>5

LEMMA ChanceFollows ==
  ASSUME NEW p \in Nat \ {0}, NEW q \in Nat \ {0}, p <= q
  PROVE  ChanceAhead(p) <= ChanceAhead(q) /\ ChanceBetween(p) <= ChanceBetween(q)
<1>1. ChanceAhead(p) <= ChanceAhead(q)
  <2>1. PICK x \in Int : x = (850 * p) \div 1000 OBVIOUS
  <2>2. PICK y \in Int : y = (850 * q) \div 1000 OBVIOUS
  <2>3. x <= y BY <2>1, <2>2
  <2>4. Bounded(x) <= Bounded(y) BY <2>3, BoundedFollows
  <2> QED BY <2>1, <2>2, <2>4 DEF ChanceAhead
<1>2. ChanceBetween(p) <= ChanceBetween(q)
  <2>1. PICK a \in Int : a = 60000 \div p OBVIOUS
  <2>2. PICK b \in Int : b = 60000 \div q OBVIOUS
  <2>3. b <= a
    <3>1. b * q <= 60000 BY <2>2, DivFloor
    <3>2. b >= 0
      <4>1. 0 * q <= 60000 OBVIOUS
      <4> QED BY <2>2, <4>1, DivFloor
    <3>3. b * p <= b * q BY <3>2
    <3>4. b * p <= 60000
      <4>1. PICK u \in Int : u = b * p OBVIOUS
      <4>2. PICK v \in Int : v = b * q OBVIOUS
      <4> QED BY <3>1, <3>3, <4>1, <4>2
    <3> QED BY <2>1, <3>4, DivFloor
  <2>4. PICK x \in Int : x = 1000 - a OBVIOUS
  <2>5. PICK y \in Int : y = 1000 - b OBVIOUS
  <2>6. ChanceBetween(p) = Bounded(x) /\ ChanceBetween(q) = Bounded(y)
    BY <2>1, <2>2, <2>4, <2>5 DEF ChanceBetween
  <2>7. x <= y BY <2>3, <2>4, <2>5
  <2>8. Bounded(x) <= Bounded(y) BY <2>7, BoundedFollows
  <2> QED BY <2>6, <2>8
<1> QED BY <1>1, <1>2

\* The prior of retention is a chance, and no better factors make it worse.
FactorRows == [1..4 -> FactorRange]
NoBetter(f, g) == \A i \in 1..4 : f[i] <= g[i]

LEMMA RetentionPrior ==
  ASSUME NEW f \in FactorRows, NEW flying \in BOOLEAN, NEW inside \in BOOLEAN
  PROVE  /\ PriorRetention(f, flying, inside) \in OddsRange
         /\ \A g \in FactorRows : NoBetter(f, g) =>
              PriorRetention(f, flying, inside) <= PriorRetention(g, flying, inside)
<1> DEFINE n == IF flying THEN 5 ELSE 4
           rows(g) == IF flying THEN Append(g, 105) ELSE g
<1>1. ASSUME NEW g \in FactorRows
      PROVE  FactorList(rows(g), n) /\ \A i \in 1..n : rows(g)[i] = IF i = 5 THEN 105 ELSE g[i]
  <2>a. PICK A : A = FactorRange OBVIOUS
  <2>m. PICK m \in Nat : m = 4 OBVIOUS
  <2>1. g \in Seq(A) /\ Len(g) = m
    <3>1. g \in [1..m -> A] BY <2>a, <2>m DEF FactorRows
    <3> QED BY <3>1
  <2>2. CASE flying
    <3>1. PICK a : a = Append(g, 105) OBVIOUS
    <3>0. Len(a) = m + 1 /\ DOMAIN a = 1..m + 1 /\ a[m + 1] = 105 /\ \A i \in 1..m : a[i] = g[i]
      <4>1. 105 \in A BY <2>a DEF FactorRange
      <4> QED BY <2>1, <3>1, <4>1
    <3>2. DOMAIN a = 1..5 /\ a[5] = 105 /\ \A i \in 1..4 : a[i] = g[i] BY <2>m, <3>0
    <3>3. FactorList(a, 5)
      <4>1. \A i \in 1..4 : g[i] \in FactorRange BY DEF FactorRows
      <4>2. 105 \in FactorRange BY DEF FactorRange
      <4>3. \A i \in 1..5 : i \in 1..4 \/ i = 5 OBVIOUS
      <4> QED BY <3>2, <4>1, <4>2, <4>3 DEF FactorList
    <3>4. \A i \in 1..5 : a[i] = IF i = 5 THEN 105 ELSE g[i]
      <4>1. \A i \in 1..5 : i \in 1..4 \/ i = 5 OBVIOUS
      <4> QED BY <3>2, <4>1
    <3>5. rows(g) = a /\ n = 5 BY <2>2, <3>1
    <3> HIDE DEF rows, n
    <3> QED BY <3>3, <3>4, <3>5
  <2>3. CASE ~flying BY <2>3 DEF FactorList, FactorRows
  <2> QED BY <2>2, <2>3
<1>2. n \in 0..5 OBVIOUS
<1>3. \A g : Product(g, flying) = Multiplied(rows(g)) BY Zenon DEF Product
<1>4. \A g \in FactorRows : Product(g, flying) \in Nat \ {0}
  <2> HIDE DEF n, rows
  <2> QED BY <1>1, <1>2, <1>3, MultipliedIs
<1>5. ASSUME NEW g \in FactorRows, NoBetter(f, g)
      PROVE  Product(f, flying) <= Product(g, flying)
  <2>1. \A i \in 1..n : rows(f)[i] <= rows(g)[i]
    <3>1. \A i \in 1..n : i = 5 \/ i \in 1..4 OBVIOUS
    <3>2. \A i \in 1..n : rows(f)[i] = IF i = 5 THEN 105 ELSE f[i] BY <1>1
    <3>3. \A i \in 1..n : rows(g)[i] = IF i = 5 THEN 105 ELSE g[i] BY <1>1
    <3> HIDE DEF n, rows
    <3>4. \A i \in 1..4 : f[i] <= g[i] BY <1>5 DEF NoBetter
    <3>5. 105 <= 105 OBVIOUS
    <3> QED BY <3>1, <3>2, <3>3, <3>4, <3>5
  <2>2. FactorList(rows(f), n) /\ FactorList(rows(g), n) BY <1>1
  <2> HIDE DEF n, rows
  <2>3. Multiplied(rows(f)) <= Multiplied(rows(g)) BY <1>2, <2>1, <2>2, MultipliedIs
  <2> QED BY <1>3, <2>3
<1> PICK p : p = Product(f, flying) OBVIOUS
<1>6. p \in Nat \ {0} BY <1>4
<1>7. CASE inside
  <2>1. \A g : PriorRetention(g, flying, inside) = ChanceAhead(Product(g, flying))
    BY <1>7 DEF PriorRetention, ChanceAhead
  <2>2. PriorRetention(f, flying, inside) \in OddsRange
    <3>1. PriorRetention(f, flying, inside) = ChanceAhead(p) BY <2>1
    <3>2. ChanceAhead(p) \in OddsRange BY <1>6, ChanceBounds
    <3> QED BY <3>1, <3>2
  <2>3. ASSUME NEW g \in FactorRows, NoBetter(f, g)
        PROVE  PriorRetention(f, flying, inside) <= PriorRetention(g, flying, inside)
    <3>1. PICK q : q = Product(g, flying) OBVIOUS
    <3>2. q \in Nat \ {0} /\ p <= q BY <1>4, <1>5, <2>3, <3>1
    <3>3. ChanceAhead(p) <= ChanceAhead(q) BY <1>6, <3>2, ChanceFollows
    <3> QED BY <2>1, <3>1, <3>3
  <2> QED BY <2>2, <2>3
<1>8. CASE ~inside
  <2>1. \A g : PriorRetention(g, flying, inside) = ChanceBetween(Product(g, flying))
    BY <1>8 DEF PriorRetention, ChanceBetween
  <2>2. PriorRetention(f, flying, inside) \in OddsRange
    <3>1. PriorRetention(f, flying, inside) = ChanceBetween(p) BY <2>1
    <3>2. ChanceBetween(p) \in OddsRange BY <1>6, ChanceBounds
    <3> QED BY <3>1, <3>2
  <2>3. ASSUME NEW g \in FactorRows, NoBetter(f, g)
        PROVE  PriorRetention(f, flying, inside) <= PriorRetention(g, flying, inside)
    <3>1. PICK q : q = Product(g, flying) OBVIOUS
    <3>2. q \in Nat \ {0} /\ p <= q BY <1>4, <1>5, <2>3, <3>1
    <3>3. ChanceBetween(p) <= ChanceBetween(q) BY <1>6, <3>2, ChanceFollows
    <3> QED BY <2>1, <3>1, <3>3
  <2> QED BY <2>2, <2>3
<1> QED BY <1>7, <1>8

\* So is that of expansion.
LEMMA ExpansionPrior ==
  ASSUME NEW a \in FactorRange, NEW b \in FactorRange, NEW intent \in BOOLEAN
  PROVE  PriorExpansion(<<a, b>>, intent) \in OddsRange
<1>0. a \in 50..200 /\ b \in 50..200 BY DEF FactorRange
<1> PICK f : f = <<a, b>> OBVIOUS
<1> PICK rows : rows = (IF intent THEN Append(f, 180) ELSE f) OBVIOUS
<1>1. f \in Seq(Nat) /\ Len(f) = 2 /\ f[1] = a /\ f[2] = b /\ DOMAIN f = 1..2 BY <1>0
<1>2. PICK n \in 0..5 : FactorList(rows, n)
  <2>1. CASE intent
    <3>1. DOMAIN rows = 1..3 /\ rows[3] = 180 /\ rows[1] = a /\ rows[2] = b BY <1>1, <2>1
    <3>2. FactorList(rows, 3)
      <4>1. 180 \in FactorRange BY DEF FactorRange
      <4>2. \A i \in 1..3 : i = 1 \/ i = 2 \/ i = 3 OBVIOUS
      <4> QED BY <3>1, <4>1, <4>2 DEF FactorList
    <3> QED BY <3>2
  <2>2. CASE ~intent
    <3>2. FactorList(rows, 2)
      <4>1. \A i \in 1..2 : i = 1 \/ i = 2 OBVIOUS
      <4> QED BY <1>1, <2>2, <4>1 DEF FactorList
    <3> QED BY <3>2
  <2> QED BY <2>1, <2>2
<1>3. Multiplied(rows) \in Nat BY <1>2, MultipliedIs
<1>4. PriorExpansion(f, intent) = Bounded((120 * Multiplied(rows)) \div 1000)
  <2>1. CASE intent
    <3>1. rows = Append(f, 180) BY <2>1
    <3>2. PriorExpansion(f, intent) = Bounded((120 * Multiplied(Append(f, 180))) \div 1000)
      BY <2>1, Zenon DEF PriorExpansion, Product
    <3> QED BY <3>1, <3>2
  <2>2. CASE ~intent
    <3>1. rows = f BY <2>2
    <3>2. PriorExpansion(f, intent) = Bounded((120 * Multiplied(f)) \div 1000)
      BY <2>2, Zenon DEF PriorExpansion, Product
    <3> QED BY <3>1, <3>2
  <2> QED BY <2>1, <2>2
<1>5. PICK m \in Nat : m = Multiplied(rows) BY <1>3
<1>6. (120 * m) \div 1000 \in Int OBVIOUS
<1>7. PICK x \in Int : x = (120 * m) \div 1000 BY <1>6
<1>8. Bounded(x) \in OddsRange BY BoundedIs
<1>9. PriorExpansion(f, intent) = Bounded(x) BY <1>4, <1>5, <1>7
<1> QED BY <1>8, <1>9

\* What the labels make of a prior: a chance, between the prior and the rate of the labels,
\* that follows the prior and falls with a loss.
ChanceRange == 0..1000
MixedChance(prior, hits, n) == (10 * prior + 1000 * hits) \div (10 + n)
Tallied(hits, n) == n \in Nat /\ hits \in 0..n

Evidenced(prior, hits) == 10 * prior + 1000 * hits
MixedAtLeast(a, prior, hits, n) == a * (10 + n) <= Evidenced(prior, hits)

LEMMA MixedIs ==
  ASSUME NEW prior \in ChanceRange, NEW hits, NEW n, Tallied(hits, n)
  PROVE  /\ MixedChance(prior, hits, n) \in ChanceRange
         /\ \A a \in Int : MixedAtLeast(a, prior, hits, n) <=> a <= MixedChance(prior, hits, n)
<1>0. prior \in 0..1000 BY DEF ChanceRange
<1>1. n \in Nat /\ hits \in Nat /\ hits <= n BY DEF Tallied
<1> PICK d \in Nat : d = 10 + n BY <1>1
<1> PICK v \in Nat : v = Evidenced(prior, hits) BY <1>0, <1>1 DEF Evidenced
<1>2. d > 0 /\ v < 1001 * d BY <1>0, <1>1 DEF Evidenced
<1>q. PICK q : q = v \div d OBVIOUS
<1>3. q \in Int /\ \A a \in Int : (a * d <= v) <=> (a <= q) BY <1>2, <1>q, DivFloor
<1>4. 0 <= q
  <2>1. 0 * d <= v OBVIOUS
  <2> QED BY <1>3, <2>1
<1>5. q <= 1000
  <2>1. ~(1001 * d <= v) BY <1>2
  <2>2. ~(1001 <= q) BY <1>3, <2>1
  <2> QED BY <1>3, <2>2
<1>6. MixedChance(prior, hits, n) = q BY <1>1, <1>q DEF MixedChance, Evidenced
<1>7. \A a \in Int : MixedAtLeast(a, prior, hits, n) <=> a * d <= v BY Zenon DEF MixedAtLeast
<1>8. MixedChance(prior, hits, n) \in ChanceRange
  <2>0. q \in Int BY <1>3
  <2>1. q \in ChanceRange BY <2>0, <1>4, <1>5 DEF ChanceRange
  <2> QED BY <1>6, <2>1
<1>9. ASSUME NEW a \in Int PROVE MixedAtLeast(a, prior, hits, n) <=> a <= MixedChance(prior, hits, n)
  <2>1. MixedAtLeast(a, prior, hits, n) <=> a * d <= v BY <1>7
  <2>2. (a * d <= v) <=> (a <= q) BY <1>3
  <2>3. MixedAtLeast(a, prior, hits, n) <=> a <= q BY <2>1, <2>2, Zenon
  <2> QED BY <1>6, <2>3
<1> QED BY <1>8, <1>9

LEMMA MixedFollows ==
  ASSUME NEW prior \in ChanceRange, NEW more \in ChanceRange, prior <= more, NEW hits, NEW n, Tallied(hits, n)
  PROVE  MixedChance(prior, hits, n) <= MixedChance(more, hits, n)
<1>1. n \in Nat /\ hits \in Nat BY DEF Tallied
<1>p. MixedChance(prior, hits, n) \in ChanceRange BY MixedIs
<1> PICK q \in Int : q = MixedChance(prior, hits, n) BY <1>p DEF ChanceRange
<1>2. MixedAtLeast(q, prior, hits, n) BY MixedIs
<1>3. PICK x \in Int : x = q * (10 + n) BY <1>1
<1>4. MixedAtLeast(q, more, hits, n) BY <1>1, <1>2, <1>3 DEF MixedAtLeast, Evidenced, ChanceRange
<1> QED BY <1>4, MixedIs

LEMMA MixedFalls ==
  ASSUME NEW prior \in ChanceRange, NEW hits, NEW n, Tallied(hits, n)
  PROVE  MixedChance(prior, hits, n + 1) <= MixedChance(prior, hits, n)
<1>1. n \in Nat /\ hits \in Nat /\ Tallied(hits, n + 1) BY DEF Tallied
<1> PICK m \in Nat : m = n + 1 BY <1>1
<1>p. MixedChance(prior, hits, m) \in ChanceRange BY <1>1, MixedIs
<1> PICK q \in Nat : q = MixedChance(prior, hits, m) BY <1>p DEF ChanceRange
<1>2. MixedAtLeast(q, prior, hits, m) BY <1>1, MixedIs
<1>3. q * (10 + m) = q * (10 + n) + q BY <1>1
<1>4. PICK x \in Int : x = q * (10 + n) BY <1>1
<1>6. PICK y \in Int : y = q * (10 + m) BY <1>1
<1>5. MixedAtLeast(q, prior, hits, n) BY <1>1, <1>2, <1>3, <1>4, <1>6 DEF MixedAtLeast, Evidenced, ChanceRange
<1> QED BY <1>5, MixedIs

LEMMA MixedBetween ==
  ASSUME NEW prior \in ChanceRange, NEW hits, NEW n, Tallied(hits, n), n > 0
  PROVE  LET rate == (1000 * hits) \div n IN
         /\ rate \in Int
         /\ MixedChance(prior, hits, n) <= prior \/ MixedChance(prior, hits, n) <= rate
         /\ MixedChance(prior, hits, n) >= prior \/ MixedChance(prior, hits, n) >= rate
<1> PICK rate : rate = (1000 * hits) \div n OBVIOUS
<1>0. prior \in 0..1000 BY DEF ChanceRange
<1>1. n \in Nat /\ hits \in Nat BY DEF Tallied
<1> PICK w \in Nat : w = 1000 * hits BY <1>1
<1>w. Evidenced(prior, hits) = 10 * prior + w BY <1>0, <1>1 DEF Evidenced
<1>2. rate \in Int /\ \A a \in Int : (a * n <= w) <=> (a <= rate) BY <1>1, DivFloor
<1>p. MixedChance(prior, hits, n) \in ChanceRange BY MixedIs
<1> PICK q \in Int : q = MixedChance(prior, hits, n) BY <1>p DEF ChanceRange
<1>3. \A a \in Int : MixedAtLeast(a, prior, hits, n) <=> a <= q BY MixedIs
<1>4. \A a \in Int : a * (10 + n) = 10 * a + a * n BY <1>1
<1>5. ASSUME q > prior, q > rate PROVE FALSE
  <2>1. q * (10 + n) <= 10 * prior + w
    <3>1. MixedAtLeast(q, prior, hits, n) BY <1>3
    <3>2. q * (10 + n) <= Evidenced(prior, hits) BY <3>1, Zenon DEF MixedAtLeast
    <3> QED BY <1>w, <3>2
  <2>2. ~(q * n <= w) BY <1>2, <1>5
  <2>3. PICK x \in Int : x = q * n BY <1>1
  <2>4. q * (10 + n) = 10 * q + x BY <1>4, <2>3
  <2> QED BY <1>0, <1>5, <2>1, <2>2, <2>3, <2>4
<1>6. ASSUME q < prior, q < rate PROVE FALSE
  <2>1. PICK p \in Int : p = q + 1 OBVIOUS
  <2>2. ~(p * (10 + n) <= 10 * prior + w)
    <3>1. ~MixedAtLeast(p, prior, hits, n) BY <1>3, <2>1
    <3>2. ~(p * (10 + n) <= Evidenced(prior, hits)) BY <3>1, Zenon DEF MixedAtLeast
    <3> QED BY <1>w, <3>2
  <2>3. p * n <= w BY <1>2, <1>6, <2>1
  <2>4. PICK x \in Int : x = p * n BY <1>1
  <2>5. p * (10 + n) = 10 * p + x BY <1>4, <2>4
  <2> QED BY <1>0, <1>6, <2>1, <2>2, <2>3, <2>4, <2>5
<1>7. (q <= prior \/ q <= rate) /\ (q >= prior \/ q >= rate) BY <1>0, <1>2, <1>5, <1>6
<1> QED BY <1>2, <1>7

-----------------------------------------------------------------------------
\* An estimate inside its interval.
InRange(e) == /\ e.low \in ChanceRange /\ e.p \in ChanceRange /\ e.high \in ChanceRange
              /\ e.low <= e.p /\ e.p <= e.high

LEMMA InRangeIs ==
  ASSUME NEW e, InRange(e)
  PROVE  0 <= e.low /\ e.low <= e.p /\ e.p <= e.high /\ e.high <= 1000
<1>0. e.low \in ChanceRange /\ e.high \in ChanceRange /\ e.low <= e.p /\ e.p <= e.high BY DEF InRange
<1>1. \A x \in ChanceRange : 0 <= x /\ x <= 1000 BY DEF ChanceRange
<1> QED BY <1>0, <1>1

SureOf(n) == \A p \in ChanceRange : Interval(Credible(p, 10 + n), p)

LEMMA UpdatedIs ==
  ASSUME NEW prior \in OddsRange, NEW hits, NEW n, Tallied(hits, n), SureOf(n)
  PROVE  InRange(Updated(prior, hits, n)) /\ Updated(prior, hits, n).p = MixedChance(prior, hits, n)
<1>1. prior \in ChanceRange BY DEF ChanceRange, OddsRange
<1>2. PICK p : p = MixedChance(prior, hits, n) OBVIOUS
<1>3. p \in ChanceRange
  <2>1. MixedChance(prior, hits, n) \in ChanceRange BY <1>1, MixedIs, Zenon
  <2> QED BY <1>2, <2>1
<1>4. PICK i : i = Credible(p, 10 + n) OBVIOUS
<1>5. Interval(Credible(p, 10 + n), p)
  <2>1. \A x \in ChanceRange : Interval(Credible(x, 10 + n), x) BY Zenon DEF SureOf
  <2> QED BY <1>3, <2>1, Zenon
<1>6. Interval(i, p) BY <1>4, <1>5
<1>7. PICK e : e = Updated(prior, hits, n) OBVIOUS
<1>8. e = [p |-> MixedChance(prior, hits, n), low |-> Credible(MixedChance(prior, hits, n), 10 + n).low,
           high |-> Credible(MixedChance(prior, hits, n), 10 + n).high]
  BY <1>7, Zenon DEF Updated, MixedChance
<1>9. e.p = p /\ e.low = i.low /\ e.high = i.high BY <1>2, <1>4, <1>8
<1>10. InRange(e) BY <1>3, <1>6, <1>9 DEF InRange, Interval, ChanceRange
<1> QED BY <1>2, <1>7, <1>9, <1>10

LEMMA DeclaredIs ==
  ASSUME NEW prior \in OddsRange, NEW half \in Nat
  PROVE  InRange(DeclaredRange(prior, half)) /\ DeclaredRange(prior, half).p = prior
<1>1. PICK e : e = DeclaredRange(prior, half) OBVIOUS
<1>2. e.p = prior /\ e.low = Clamped(prior - half, 0, 1000) /\ e.high = Clamped(prior + half, 0, 1000)
  BY <1>1 DEF DeclaredRange
<1>3. InRange(e) BY <1>2 DEF InRange, Clamped, ChanceRange, OddsRange
<1> QED BY <1>1, <1>2, <1>3

Estimates(e, calibrated, prior, hits, n) ==
  InRange(e) /\ (calibrated => e.p = MixedChance(prior, hits, n)) /\ (~calibrated => e.p = prior)

LEMMA EstimateIs ==
  ASSUME NEW calibrated \in BOOLEAN, NEW prior \in OddsRange, NEW hits, NEW n, Tallied(hits, n), NEW half \in Nat,
         calibrated => SureOf(n)
  PROVE  Estimates(Estimate(calibrated, prior, hits, n, half), calibrated, prior, hits, n)
<1>1. CASE calibrated
  <2>1. Estimate(calibrated, prior, hits, n, half) = Updated(prior, hits, n) BY <1>1, Zenon DEF Estimate
  <2>2. InRange(Updated(prior, hits, n)) /\ Updated(prior, hits, n).p = MixedChance(prior, hits, n)
    BY <1>1, UpdatedIs, Zenon
  <2> QED BY <1>1, <2>1, <2>2, Zenon DEF Estimates
<1>2. CASE ~calibrated
  <2>1. Estimate(calibrated, prior, hits, n, half) = DeclaredRange(prior, half) BY <1>2, Zenon DEF Estimate
  <2>2. InRange(DeclaredRange(prior, half)) /\ DeclaredRange(prior, half).p = prior BY DeclaredIs
  <2> QED BY <1>2, <2>1, <2>2, Zenon DEF Estimates
<1> QED BY <1>1, <1>2, Zenon

\* Revenue follows the chances it is of.
RevenueOf(r, e) == r * (100000 + 15 * e) + (1000 - r) * (100 - 60) * 1000
RevenueGained(e) == 60000 + 15 * e
RevenueKept == 40000000
Scaled(x) == x \div 100000

LEMMA RevenueIs ==
  ASSUME NEW r \in ChanceRange, NEW e \in ChanceRange
  PROVE  RevenueOf(r, e) = r * RevenueGained(e) + RevenueKept /\ Dollars(10, r, e, 60) = 10 * Scaled(RevenueOf(r, e))
<1>0. r \in 0..1000 /\ e \in 0..1000 BY DEF ChanceRange
<1>1. PICK z \in Nat : z = 60000 + 15 * e BY SMT, <1>0
<1>2. PICK x \in Int : x = r * z BY SMT, <1>0
<1>3. 100000 + 15 * e = 40000 + z BY SMT, <1>0, <1>1
<1>4. r * (40000 + z) = 40000 * r + x BY SMT, <1>0, <1>2
<1>5. (1000 - r) * (100 - 60) * 1000 = 40000000 - 40000 * r BY SMT, <1>0
<1>6. RevenueOf(r, e) = r * (40000 + z) + (1000 - r) * (100 - 60) * 1000 BY SMT, <1>0, <1>3 DEF RevenueOf
<1>7. RevenueOf(r, e) = x + 40000000 BY SMT, <1>0, <1>4, <1>5, <1>6
<1>8. RevenueGained(e) = z /\ RevenueKept = 40000000 BY SMT, <1>0, <1>1 DEF RevenueGained, RevenueKept
<1>9. Dollars(10, r, e, 60) = 10 * Scaled(RevenueOf(r, e)) BY SMT, <1>0 DEF Dollars, RevenueOf, Scaled
<1> QED BY SMT, <1>2, <1>7, <1>8, <1>9

LEMMA DollarsFollow ==
  ASSUME NEW k \in ChanceRange, NEW l \in ChanceRange, k <= l, NEW x \in ChanceRange, NEW y \in ChanceRange, x <= y
  PROVE  /\ Dollars(10, k, x, 60) \in Int /\ Dollars(10, l, y, 60) \in Int
         /\ Dollars(10, k, x, 60) <= Dollars(10, l, y, 60)
<1>0. k \in 0..1000 /\ l \in 0..1000 /\ x \in 0..1000 /\ y \in 0..1000 BY DEF ChanceRange
<1>1. PICK z \in Nat : z = RevenueGained(x) BY SMT, <1>0 DEF RevenueGained
<1>2. PICK w \in Nat : w = RevenueGained(y) BY SMT, <1>0 DEF RevenueGained
<1>3. k * z <= l * w
  <2>1. z <= w BY SMT, <1>1, <1>2, <1>0 DEF RevenueGained
  <2>2. k * z <= l * z BY SMT, <1>0
  <2>3. l * z <= l * w BY SMT, <1>0, <2>1
  <2>4. PICK a \in Int : a = k * z BY SMT, <1>0
  <2>5. PICK b \in Int : b = l * z BY SMT, <1>0
  <2>6. PICK c \in Int : c = l * w BY SMT, <1>0
  <2>7. a <= b /\ b <= c BY SMT, <2>2, <2>3, <2>4, <2>5, <2>6
  <2>8. a <= c BY SMT, <2>7
  <2> QED BY SMT, <2>4, <2>6, <2>8
<1>4. PICK a \in Int : a = k * z BY SMT, <1>0
<1>5. PICK c \in Int : c = l * w BY SMT, <1>0
<1>6. PICK s \in Int : s = RevenueKept BY SMT DEF RevenueKept
<1>7. RevenueOf(k, x) = a + s
  <2>1. RevenueOf(k, x) = k * RevenueGained(x) + RevenueKept BY RevenueIs, Zenon
  <2> QED BY SMT, <1>1, <1>4, <1>6, <2>1
<1>8. RevenueOf(l, y) = c + s
  <2>1. RevenueOf(l, y) = l * RevenueGained(y) + RevenueKept BY RevenueIs, Zenon
  <2> QED BY SMT, <1>2, <1>5, <1>6, <2>1
<1>9. PICK u \in Int : u = a + s BY SMT
<1>10. PICK v \in Int : v = c + s BY SMT
<1>11. u <= v BY SMT, <1>3, <1>4, <1>5, <1>9, <1>10
<1>12. PICK d : d = u \div 100000 OBVIOUS
<1>13. PICK e : e = v \div 100000 OBVIOUS
<1>14. d \in Int /\ e \in Int /\ d <= e BY SMT, <1>11, <1>12, <1>13
<1>15. Dollars(10, k, x, 60) = 10 * d
  <2>1. Dollars(10, k, x, 60) = 10 * Scaled(RevenueOf(k, x)) BY RevenueIs, Zenon
  <2> QED BY SMT, <1>7, <1>9, <1>12, <2>1 DEF Scaled
<1>16. Dollars(10, l, y, 60) = 10 * e
  <2>1. Dollars(10, l, y, 60) = 10 * Scaled(RevenueOf(l, y)) BY RevenueIs, Zenon
  <2> QED BY SMT, <1>8, <1>10, <1>13, <2>1 DEF Scaled
<1> QED BY SMT, <1>14, <1>15, <1>16

\* Labels by number, and those that keep an account.
NumberedList(L, k) == k \in Nat /\ DOMAIN L = 1..k
Keeping(L, S) == {i \in S : L[i].retained}
OwnStratum(L, s) == {i \in DOMAIN L : L[i].stratum = s}
BasisOf(L, s) == IF Cardinality(OwnStratum(L, s)) >= MinStratum THEN OwnStratum(L, s) ELSE DOMAIN L

LEMMA TallyIs ==
  ASSUME NEW L, NEW S, IsFiniteSet(S), NEW t, t = Tally(L, S)
  PROVE  /\ t.n = Cardinality(S) /\ t.retained = Cardinality(Keeping(L, S))
         /\ Tallied(t.retained, t.n) /\ Tallied(t.expanded, t.n)
<1> DEFINE Grown == {i \in S : L[i].expanded}
<1>1. t = [n |-> Cardinality(S), retained |-> Cardinality(Keeping(L, S)), expanded |-> Cardinality(Grown)]
  BY Zenon DEF Tally, Keeping
<1>2. t.n = Cardinality(S) /\ t.retained = Cardinality(Keeping(L, S)) /\ t.expanded = Cardinality(Grown)
  <2> HIDE DEF Grown
  <2> QED BY <1>1
<1>3. Keeping(L, S) \subseteq S /\ Grown \subseteq S BY Zenon DEF Keeping
<1>4. Cardinality(S) \in Nat BY FS_CardinalityType
<1>5. \A T : T \subseteq S => Cardinality(T) \in 0..Cardinality(S)
  <2> SUFFICES ASSUME NEW T, T \subseteq S PROVE Cardinality(T) \in 0..Cardinality(S) OBVIOUS
  <2>1. IsFiniteSet(T) /\ Cardinality(T) <= Cardinality(S) BY FS_Subset
  <2>2. Cardinality(T) \in Nat BY <2>1, FS_CardinalityType
  <2> QED BY <1>4, <2>1, <2>2
<1>6. Cardinality(Keeping(L, S)) \in 0..Cardinality(S) /\ Cardinality(Grown) \in 0..Cardinality(S)
  <2> HIDE DEF Grown
  <2> QED BY <1>3, <1>5
<1> HIDE DEF Grown
<1> QED BY <1>2, <1>4, <1>6 DEF Tallied

LEMMA CountsIs ==
  ASSUME NEW L, NEW k, NumberedList(L, k), NEW s
  PROVE  /\ Counts(L, s) = Tally(L, BasisOf(L, s))
         /\ OwnStratum(L, s) \subseteq 1..k /\ IsFiniteSet(OwnStratum(L, s)) /\ Cardinality(OwnStratum(L, s)) \in 0..k
         /\ BasisOf(L, s) \subseteq 1..k /\ IsFiniteSet(BasisOf(L, s)) /\ Cardinality(BasisOf(L, s)) \in 0..k
         /\ IsFiniteSet(DOMAIN L) /\ Cardinality(DOMAIN L) = k
         /\ Eligible(Tally(L, DOMAIN L)) => Cardinality(BasisOf(L, s)) > 0
<1> PICK A : A = OwnStratum(L, s) OBVIOUS
<1>1. k \in Nat /\ DOMAIN L = 1..k BY DEF NumberedList
<1>2. IsFiniteSet(1..k) /\ Cardinality(1..k) = k BY <1>1, FS_Interval
<1>3. A \subseteq 1..k BY <1>1 DEF OwnStratum
<1>4. IsFiniteSet(A) /\ Cardinality(A) \in 0..k
  <2>1. IsFiniteSet(A) /\ Cardinality(A) <= k BY <1>2, <1>3, FS_Subset
  <2>2. Cardinality(A) \in Nat BY <2>1, FS_CardinalityType
  <2> QED BY <1>1, <2>1, <2>2
<1>5. Tally(L, A).n = Cardinality(A) /\ Tally(L, DOMAIN L).n = k BY <1>1, <1>2, <1>4, TallyIs
<1>6. Counts(L, s) = IF Tally(L, A).n >= MinStratum THEN Tally(L, A) ELSE Tally(L, DOMAIN L)
  BY Zenon DEF Counts, OwnStratum
<1>7. MinStratum \in Nat \ {0} /\ MinLabels \in Nat \ {0} BY ForecastAssumption
<1>8. CASE Cardinality(A) >= MinStratum
  <2>1. BasisOf(L, s) = A BY <1>8 DEF BasisOf
  <2>2. Cardinality(A) > 0 BY <1>4, <1>7, <1>8
  <2> QED BY <1>1, <1>2, <1>3, <1>4, <1>5, <1>6, <1>8, <2>1, <2>2
<1>9. CASE ~(Cardinality(A) >= MinStratum)
  <2>1. BasisOf(L, s) = DOMAIN L BY <1>9 DEF BasisOf
  <2>2. Eligible(Tally(L, DOMAIN L)) => k > 0 BY <1>1, <1>5, <1>7 DEF Eligible
  <2> QED BY <1>1, <1>2, <1>3, <1>4, <1>5, <1>6, <1>9, <2>1, <2>2
<1> QED BY <1>8, <1>9

\* One label more, of a loss: a forecast that could rest on labels still can, and when its
\* count grows by one it is by the loss.
LossMore(L, M, k) == /\ NumberedList(L, k) /\ NumberedList(M, k + 1)
                     /\ (\A i \in 1..k : M[i] = L[i]) /\ ~M[k + 1].retained

LEMMA KeptSame ==
  ASSUME NEW L, NEW M, NEW k, LossMore(L, M, k), NEW S, S \subseteq 1..k, NEW T, T = S \/ T = S \cup {k + 1}
  PROVE  Keeping(M, T) = Keeping(L, S)
<1>1. \A i \in S : M[i] = L[i] BY DEF LossMore
<1>2. ~M[k + 1].retained BY Zenon DEF LossMore
<1>3. ASSUME NEW i, i \in Keeping(M, T) PROVE i \in Keeping(L, S)
  <2>1. i \in T /\ M[i].retained BY <1>3, Zenon DEF Keeping
  <2>2. i # k + 1 BY <1>2, <2>1, Zenon
  <2>3. i \in S BY <2>1, <2>2, Zenon
  <2>4. L[i].retained BY <1>1, <2>1, <2>3, Zenon
  <2> QED BY <2>3, <2>4, Zenon DEF Keeping
<1>4. ASSUME NEW i, i \in Keeping(L, S) PROVE i \in Keeping(M, T)
  <2>1. i \in S /\ L[i].retained BY <1>4, Zenon DEF Keeping
  <2>2. i \in T /\ M[i].retained BY <1>1, <2>1, Zenon
  <2> QED BY <2>2, Zenon DEF Keeping
<1> QED BY <1>3, <1>4, Zenon

LEMMA OneWorse ==
  ASSUME NEW L, NEW M, NEW k, LossMore(L, M, k), NEW s
  PROVE  /\ Eligible(Tally(L, DOMAIN L)) => Eligible(Tally(M, DOMAIN M))
         /\ Counts(L, s).n + 1 = Counts(M, s).n => Counts(M, s).retained = Counts(L, s).retained
<1>1. k \in Nat /\ NumberedList(L, k) /\ NumberedList(M, k + 1) /\ DOMAIN L = 1..k /\ DOMAIN M = 1..(k + 1)
  BY DEF LossMore, NumberedList
<1> PICK j : j = k + 1 OBVIOUS
<1>2. j \in Nat /\ NumberedList(M, j) /\ DOMAIN M = (1..k) \cup {k + 1} BY <1>1
<1>3. /\ IsFiniteSet(DOMAIN L) /\ Cardinality(DOMAIN L) = k
      /\ IsFiniteSet(DOMAIN M) /\ Cardinality(DOMAIN M) = k + 1
  BY <1>1, <1>2, CountsIs
<1>4. Eligible(Tally(L, DOMAIN L)) => Eligible(Tally(M, DOMAIN M))
  <2>1. Keeping(M, DOMAIN M) = Keeping(L, DOMAIN L) BY <1>1, <1>2, KeptSame
  <2>2. PICK a, b : a = Tally(L, DOMAIN L) /\ b = Tally(M, DOMAIN M) OBVIOUS
  <2>3. a.n = k /\ b.n = k + 1 /\ b.retained = a.retained /\ Tallied(a.retained, a.n) BY <1>3, <2>1, <2>2, TallyIs
  <2>4. MinLabels \in Nat /\ MinClass \in Nat BY ForecastAssumption
  <2>5. Eligible(a) => Eligible(b) BY <1>1, <2>3, <2>4 DEF Eligible, Tallied
  <2> QED BY <2>2, <2>5
<1> PICK A, B : A = OwnStratum(L, s) /\ B = OwnStratum(M, s) OBVIOUS
<1> PICK S, T : S = BasisOf(L, s) /\ T = BasisOf(M, s) OBVIOUS
<1>5. B = A \/ B = A \cup {k + 1}
  <2>1. \A i \in 1..k : M[i] = L[i] BY DEF LossMore
  <2>2. \A i \in 1..k : i \in A <=> i \in B BY <1>1, <1>2, <2>1 DEF OwnStratum
  <2>3. A \subseteq 1..k /\ B \subseteq (1..k) \cup {k + 1} BY <1>1, <1>2 DEF OwnStratum
  <2> QED BY <2>2, <2>3
<1>6. /\ A \subseteq 1..k /\ IsFiniteSet(A) /\ Cardinality(A) \in 0..k
      /\ IsFiniteSet(S) /\ IsFiniteSet(T) /\ IsFiniteSet(B) /\ Cardinality(B) \in Nat
      /\ Cardinality(S) \in Nat /\ Cardinality(T) \in Nat
      /\ Counts(L, s) = Tally(L, S) /\ Counts(M, s) = Tally(M, T)
  <2>1. /\ A \subseteq 1..k /\ IsFiniteSet(A) /\ Cardinality(A) \in 0..k
        /\ IsFiniteSet(S) /\ Counts(L, s) = Tally(L, S) BY <1>1, CountsIs
  <2>2. /\ IsFiniteSet(B) /\ IsFiniteSet(T) /\ Counts(M, s) = Tally(M, T) BY <1>2, CountsIs
  <2>3. Cardinality(B) \in Nat /\ Cardinality(S) \in Nat /\ Cardinality(T) \in Nat
    BY <2>1, <2>2, FS_CardinalityType
  <2> QED BY <2>1, <2>2, <2>3
<1>7. Cardinality(A) <= Cardinality(B) /\ Cardinality(B) <= Cardinality(A) + 1
  <2>1. Cardinality(A \cup {k + 1}) = IF k + 1 \in A THEN Cardinality(A) ELSE Cardinality(A) + 1
    BY <1>6, FS_AddElement
  <2> QED BY <1>5, <1>6, <2>1
<1>8. Cardinality(S) + 1 = Cardinality(T) => Keeping(M, T) = Keeping(L, S)
  <2> SUFFICES ASSUME Cardinality(S) + 1 = Cardinality(T) PROVE Keeping(M, T) = Keeping(L, S) OBVIOUS
  <2>0. MinStratum \in Nat BY ForecastAssumption
  <2>1. CASE Cardinality(A) >= MinStratum
    <3>1. S = A /\ T = B BY <1>6, <1>7, <2>0, <2>1 DEF BasisOf
    <3> QED BY <1>5, <1>6, <3>1, KeptSame
  <2>2. CASE Cardinality(B) < MinStratum
    <3>1. S = DOMAIN L /\ T = DOMAIN M BY <1>6, <1>7, <2>0, <2>2 DEF BasisOf
    <3> QED BY <1>1, <1>2, <3>1, KeptSame
  <2>3. CASE Cardinality(A) < MinStratum /\ Cardinality(B) >= MinStratum
    <3>1. S = DOMAIN L /\ T = B BY <1>6, <2>0, <2>3 DEF BasisOf
    <3>2. Cardinality(A) = k BY <1>1, <1>3, <1>6, <1>7, <3>1
    <3>3. A = DOMAIN L BY <1>1, <1>3, <1>6, <3>2, FS_Subset
    <3> QED BY <1>5, <1>6, <3>1, <3>3, KeptSame
  <2> QED BY <1>6, <2>0, <2>1, <2>2, <2>3
<1>9. /\ Counts(L, s).n = Cardinality(S) /\ Counts(L, s).retained = Cardinality(Keeping(L, S))
      /\ Counts(M, s).n = Cardinality(T) /\ Counts(M, s).retained = Cardinality(Keeping(M, T))
  BY <1>6, TallyIs
<1> QED BY <1>4, <1>8, <1>9

\* The account a forecast is of.
Forecasted(c) == /\ c.factors \in FactorRows /\ c.inFlight \in BOOLEAN /\ c.intent \in BOOLEAN
                 /\ c.arr = 10 /\ c.severity = 60 /\ c.due \in Int \cup {None} /\ c.asOf = 150
StratumNow(c) == IF DOMAIN c.course = {} THEN Unknown ELSE StratumOf(c.course[Max(DOMAIN c.course)])
RetentionOf(c) == PriorRetention(c.factors, c.inFlight, DecisionPoint(c.due, c.outs, c.asOf).inside)
ExpansionOf(c) == PriorExpansion(<<c.factors[1], c.factors[3]>>, c.intent)

LEMMA DecisionPointIs ==
  ASSUME NEW due \in Int \cup {None}, NEW outs, NEW asOf \in Int, NEW d, d = DecisionPoint(due, outs, asOf)
  PROVE  d.inside \in BOOLEAN /\ (d.status = "resolved" => outs # {} /\ due < asOf)
<1> PICK near : near = {e \in outs : e.bucket \in Terminal /\ Apart(e.day, due) <= LabelWindow} OBVIOUS
<1>0. near \subseteq outs OBVIOUS
<1>1. d = CASE due = None -> [status |-> "unknown", inside |-> FALSE]
            [] due # None /\ due < asOf -> IF near # {} THEN [status |-> "resolved", inside |-> FALSE]
                                           ELSE [status |-> "passed_unrecorded", inside |-> TRUE]
            [] due # None /\ due >= asOf ->
                 IF due - asOf <= Horizon THEN [status |-> "inside_horizon", inside |-> TRUE]
                 ELSE [status |-> "beyond_horizon", inside |-> FALSE]
  BY Zenon DEF DecisionPoint
<1>2. CASE due = None
  <2>1. d = [status |-> "unknown", inside |-> FALSE] BY <1>1, <1>2
  <2> QED BY <2>1
<1>3. CASE due # None /\ due < asOf
  <2>1. d = IF near # {} THEN [status |-> "resolved", inside |-> FALSE]
            ELSE [status |-> "passed_unrecorded", inside |-> TRUE]
    BY <1>1, <1>3
  <2> QED BY <1>0, <1>3, <2>1
<1>4. CASE due # None /\ ~(due < asOf)
  <2>1. due \in Int /\ due >= asOf BY <1>4
  <2>2. d = [status |-> "inside_horizon", inside |-> TRUE] \/ d = [status |-> "beyond_horizon", inside |-> FALSE]
    BY <1>1, <1>4, <2>1
  <2>3. CASE d = [status |-> "inside_horizon", inside |-> TRUE] BY <2>3
  <2>4. CASE d = [status |-> "beyond_horizon", inside |-> FALSE] BY <2>4
  <2> QED BY <2>2, <2>3, <2>4
<1> QED BY <1>2, <1>3, <1>4

LEMMA PriorsAre ==
  ASSUME NEW c, Forecasted(c)
  PROVE  RetentionOf(c) \in OddsRange /\ ExpansionOf(c) \in OddsRange /\ HalfWidth(c.thin, c.unscored) \in Nat
<1>1. PICK f \in FactorRows : f = c.factors BY DEF Forecasted
<1>2. c.inFlight \in BOOLEAN /\ c.intent \in BOOLEAN /\ c.due \in Int \cup {None} /\ c.asOf \in Int BY DEF Forecasted
<1>3. DecisionPoint(c.due, c.outs, c.asOf).inside \in BOOLEAN BY <1>2, DecisionPointIs
<1>4. RetentionOf(c) \in OddsRange BY <1>1, <1>2, <1>3, RetentionPrior, Zenon DEF RetentionOf
<1>5. f[1] \in 50..200 /\ f[3] \in 50..200 BY DEF FactorRows, FactorRange
<1>6. PriorExpansion(<<f[1], f[3]>>, c.intent) \in OddsRange
  <2>1. PICK a \in FactorRange : a = f[1] BY <1>5 DEF FactorRange
  <2>2. PICK b \in FactorRange : b = f[3] BY <1>5 DEF FactorRange
  <2>3. PICK e \in BOOLEAN : e = c.intent BY <1>2
  <2>4. PriorExpansion(<<a, b>>, e) \in OddsRange BY ExpansionPrior, Zenon
  <2> QED BY <2>1, <2>2, <2>3, <2>4, Zenon
<1>7. ExpansionOf(c) \in OddsRange BY <1>1, <1>6, Zenon DEF ExpansionOf
<1>8. HalfWidth(c.thin, c.unscored) \in Nat BY DEF HalfWidth
<1> QED BY <1>4, <1>7, <1>8

-----------------------------------------------------------------------------
\* What a forecast says.
Balanced(f) ==
  /\ InRange(f.retention) /\ InRange(f.expansion)
  /\ f.low \in Int /\ f.expected \in Int /\ f.high \in Int /\ f.low <= f.expected /\ f.expected <= f.high
ForecastSays(f, calibrated, counts, r) ==
  /\ Balanced(f) /\ f.prior = r /\ f.counts = counts
  /\ f.basis = "calibrated" <=> calibrated
  /\ calibrated => f.retention.p = MixedChance(r, counts.retained, counts.n)
  /\ ~calibrated => f.retention.p = r

LEMMA ValuedIs ==
  ASSUME NEW c, c.arr = 10, c.severity = 60, NEW basis, NEW prior, NEW counts,
         NEW kept, InRange(kept), NEW grown, InRange(grown), NEW f, f = Valued(c, basis, prior, counts, kept, grown)
  PROVE  /\ Balanced(f) /\ f.prior = prior /\ f.counts = counts /\ f.basis = basis
         /\ f.retention = kept /\ f.expansion = grown
<1>1. f = [basis |-> basis, retention |-> kept, expansion |-> grown, prior |-> prior, counts |-> counts,
           arr |-> c.arr, expected |-> Dollars(10, kept.p, grown.p, 60),
           low |-> Dollars(10, kept.low, grown.low, 60), high |-> Dollars(10, kept.high, grown.high, 60)]
  BY Zenon DEF Valued
<1>2. PICK x, y, z : x = Dollars(10, kept.low, grown.low, 60) /\ y = Dollars(10, kept.p, grown.p, 60)
                     /\ z = Dollars(10, kept.high, grown.high, 60)
  BY Zenon
<1>3. x \in Int /\ y \in Int /\ x <= y BY <1>2, DollarsFollow DEF InRange
<1>4. z \in Int /\ y <= z BY <1>2, DollarsFollow DEF InRange
<1>5. /\ f.expected = y /\ f.low = x /\ f.high = z /\ f.prior = prior /\ f.counts = counts /\ f.basis = basis
      /\ f.retention = kept /\ f.expansion = grown
  BY <1>1, <1>2
<1> QED BY <1>3, <1>4, <1>5 DEF Balanced

LEMMA EstimatedIs ==
  ASSUME NEW c, c.arr = 10, c.severity = 60, NEW calibrated \in BOOLEAN,
         NEW counts, Tallied(counts.retained, counts.n), Tallied(counts.expanded, counts.n),
         NEW r \in OddsRange, NEW x \in OddsRange, NEW half \in Nat, calibrated => SureOf(counts.n)
  PROVE  ForecastSays(Estimated(c, calibrated, counts, r, x, half), calibrated, counts, r)
<1>f. PICK f : f = Estimated(c, calibrated, counts, r, x, half) OBVIOUS
<1>k. PICK kept : kept = Estimate(calibrated, r, counts.retained, counts.n, half) OBVIOUS
<1>g. PICK grown : grown = Estimate(calibrated, x, counts.expanded, counts.n, half) OBVIOUS
<1>b. PICK basis : basis = IF calibrated THEN "calibrated" ELSE "prior" OBVIOUS
<1>1. f = Valued(c, basis, r, counts, kept, grown) BY <1>f, <1>k, <1>g, <1>b, Zenon DEF Estimated
<1>2. Estimates(kept, calibrated, r, counts.retained, counts.n) BY <1>k, EstimateIs, Zenon
<1>3. Estimates(grown, calibrated, x, counts.expanded, counts.n) BY <1>g, EstimateIs, Zenon
<1>4. /\ Balanced(f) /\ f.prior = r /\ f.counts = counts /\ f.basis = basis /\ f.retention = kept
  <2>1. InRange(kept) /\ InRange(grown) BY <1>2, <1>3, Zenon DEF Estimates
  <2> QED BY <1>1, <2>1, ValuedIs
<1>5. basis = "calibrated" <=> calibrated BY <1>b
<1> QED BY <1>f, <1>2, <1>4, <1>5, Zenon DEF ForecastSays, Estimates

\* On so many labels, that many more or less can be rested on.
SureUpTo(k) == \A n \in 0..k : SureOf(n)
Labelling(L, k) == NumberedList(L, k) /\ SureUpTo(k)

LEMMA ForecastIs ==
  ASSUME NEW c, Forecasted(c), NEW L, NEW k, Labelling(L, k)
  PROVE  /\ ForecastSays(ForecastOn(c, L), Eligible(Tally(L, DOMAIN L)), Counts(L, StratumNow(c)), RetentionOf(c))
         /\ Eligible(Tally(L, DOMAIN L)) \in BOOLEAN
         /\ Tallied(Counts(L, StratumNow(c)).retained, Counts(L, StratumNow(c)).n)
         /\ Eligible(Tally(L, DOMAIN L)) => Counts(L, StratumNow(c)).n > 0
<1> PICK s : s = StratumNow(c) OBVIOUS
<1> PICK t : t = Counts(L, s) OBVIOUS
<1> PICK cal : cal = Eligible(Tally(L, DOMAIN L)) OBVIOUS
<1>1. cal \in BOOLEAN BY Zenon DEF Eligible
<1>2. NumberedList(L, k) BY DEF Labelling
<1> PICK B : B = BasisOf(L, s) OBVIOUS
<1>3. t = Tally(L, B) /\ IsFiniteSet(B) /\ Cardinality(B) \in 0..k /\ (cal => Cardinality(B) > 0) BY <1>2, CountsIs
<1>4. t.n = Cardinality(B) /\ Tallied(t.retained, t.n) /\ Tallied(t.expanded, t.n) BY <1>3, TallyIs
<1>5. SureOf(t.n) BY <1>3, <1>4 DEF Labelling, SureUpTo
<1> PICK half : half = HalfWidth(c.thin, c.unscored) OBVIOUS
<1> PICK r, x : r = RetentionOf(c) /\ x = ExpansionOf(c) OBVIOUS
<1>6. r \in OddsRange /\ x \in OddsRange /\ half \in Nat BY PriorsAre
<1>7. ForecastOn(c, L) = Estimated(c, cal, t, r, x, half)
  BY Zenon DEF ForecastOn, StratumNow, RetentionOf, ExpansionOf
<1>8. c.arr = 10 /\ c.severity = 60 BY DEF Forecasted
<1>9. ForecastSays(Estimated(c, cal, t, r, x, half), cal, t, r) BY <1>1, <1>4, <1>5, <1>6, <1>8, EstimatedIs, Zenon
<1> QED BY <1>1, <1>3, <1>4, <1>7, <1>9, Zenon

-----------------------------------------------------------------------------
\* The labels a forecast rests on.
IndexedBy(s, a) == a \in Nat /\ s = [i \in 1..a |-> s[i]]

LEMMA ListedIs ==
  ASSUME NEW s, NEW a, IndexedBy(s, a), NEW V, \A i \in 1..a : s[i] \in V
  PROVE  s \in Seq(V) /\ Len(s) = a /\ DOMAIN s = 1..a
<1>1. a \in Nat /\ s = [i \in 1..a |-> s[i]] BY DEF IndexedBy
<1>2. DOMAIN s = 1..a BY <1>1
<1>3. s \in [1..a -> V] BY <1>1, <1>2
<1> QED BY <1>1, <1>2, <1>3

\* u is s and then t.
JoinOf(u, s, a, t, b) ==
  /\ IndexedBy(u, a + b) /\ DOMAIN u = 1..(a + b)
  /\ (\A i \in 1..a : u[i] = s[i]) /\ (\A i \in 1..b : u[a + i] = t[i])

LEMMA ListedTogether ==
  ASSUME NEW s, NEW a, IndexedBy(s, a), NEW t, NEW b, IndexedBy(t, b)
  PROVE  JoinOf(s \o t, s, a, t, b)
<1> PICK V : V = {s[i] : i \in 1..a} \cup {t[i] : i \in 1..b} OBVIOUS
<1>1. a \in Nat /\ b \in Nat BY DEF IndexedBy
<1>2. (\A i \in 1..a : s[i] \in V) /\ (\A i \in 1..b : t[i] \in V) OBVIOUS
<1>3. s \in Seq(V) /\ Len(s) = a /\ t \in Seq(V) /\ Len(t) = b
  <2>1. s \in Seq(V) /\ Len(s) = a BY <1>2, ListedIs
  <2>2. t \in Seq(V) /\ Len(t) = b BY <1>2, ListedIs
  <2> QED BY <2>1, <2>2
<1> PICK u : u = s \o t OBVIOUS
<1>4. /\ u \in Seq(V) /\ Len(u) = a + b
      /\ \A i \in 1..(a + b) : u[i] = IF i <= a THEN s[i] ELSE t[i - a]
  <2>1. /\ s \o t \in Seq(V) /\ Len(s \o t) = Len(s) + Len(t)
        /\ \A i \in 1..(Len(s) + Len(t)) : (s \o t)[i] = IF i <= Len(s) THEN s[i] ELSE t[i - Len(s)]
    BY <1>3, ConcatProperties
  <2> QED BY <1>3, <2>1
<1> PICK n \in Nat : n = a + b BY <1>1
<1>5. u \in [1..n -> V] BY <1>4, LenProperties
<1>6. IndexedBy(u, n) /\ DOMAIN u = 1..n BY <1>5 DEF IndexedBy
<1>7. \A i \in 1..a : u[i] = s[i] BY <1>1, <1>4
<1>8. \A i \in 1..b : u[a + i] = t[i]
  <2> TAKE i \in 1..b
  <2>1. a + i \in 1..(a + b) /\ ~(a + i <= a) /\ (a + i) - a = i BY <1>1
  <2> QED BY <1>4, <2>1
<1>9. IndexedBy(u, a + b) /\ DOMAIN u = 1..(a + b) BY <1>6
<1> QED BY <1>7, <1>8, <1>9, Zenon DEF JoinOf

LEMMA LabelsListed ==
  ASSUME NEW outs, DatedOnce(outs), NEW course
  PROVE  /\ IndexedBy(Labels(outs, course), Len(Grouped(outs))) /\ Len(Grouped(outs)) <= Cardinality(outs)
         /\ \A i \in 1..Len(Grouped(outs)) : Labels(outs, course)[i] = LabelOf(Grouped(outs)[i], course)
<1> PICK g : g = Grouped(outs) OBVIOUS
<1> PICK l : l = Labels(outs, course) OBVIOUS
<1>1. Decisions(g, Settling(outs)) /\ Len(g) <= Cardinality(outs) BY GroupedIs DEF GroupsOf
<1>2. Len(g) \in Nat /\ DOMAIN g = 1..Len(g) BY <1>1, DecisionIs
<1>3. l = [i \in DOMAIN g |-> LabelOf(g[i], course)] BY Zenon DEF Labels
<1>4. IndexedBy(l, Len(g)) /\ \A i \in 1..Len(g) : l[i] = LabelOf(g[i], course) BY <1>2, <1>3 DEF IndexedBy
<1> QED BY <1>1, <1>4

\* One loss is one label, that does not keep the account.
LEMMA OneLoss ==
  ASSUME NEW e, e.id \in Int, e.day \in Int, e.bucket = "lost", NEW course
  PROVE  IndexedBy(Labels({e}, course), 1) /\ ~Labels({e}, course)[1].retained
<1> PICK outs : outs = {e} OBVIOUS
<1>1. IsFiniteSet(outs) /\ Cardinality(outs) = 1 BY FS_Singleton
<1>2. DatedOnce(outs) BY <1>1 DEF DatedOnce
<1> PICK g : g = Grouped(outs) OBVIOUS
<1>3. GroupsOf(g, Settling(outs), Settling(outs)) /\ Len(g) <= 1 BY <1>1, <1>2, GroupedIs
<1>4. Len(g) \in Nat BY <1>3, DecisionIs DEF GroupsOf
<1>5. e \in Settling(outs) BY DEF Settling, Terminal
<1>6. PICK i \in 1..Len(g) : e \in ToSet(g[i]) BY <1>3, <1>5 DEF GroupsOf, HoldsAll
<1>7. Len(g) = 1 /\ i = 1
  <2>1. PICK n \in Nat : n = Len(g) BY <1>4
  <2>2. n <= 1 /\ i \in 1..n BY <1>3, <2>1
  <2>3. PICK j \in 1..n : j = i BY <2>2
  <2>4. n = 1 /\ j = 1 BY <2>2
  <2> QED BY <2>1, <2>3, <2>4, Zenon
<1> PICK l : l = Labels(outs, course) OBVIOUS
<1>8. IndexedBy(l, 1) /\ l[1] = LabelOf(g[1], course) BY <1>2, <1>7, LabelsListed
<1>9. LabelOf(g[1], course).retained = ("lost" \notin {x.bucket : x \in ToSet(g[1])})
  <2>1. \A group, s : Labelled(group, s).retained = ("lost" \notin {x.bucket : x \in ToSet(group)})
    BY DEF Labelled
  <2> QED BY <2>1, LabelIs, Zenon
<1>10. ~l[1].retained
  <2>1. "lost" \in {x.bucket : x \in ToSet(g[1])} BY <1>6, <1>7
  <2> QED BY <1>8, <1>9, <2>1
<1> QED BY <1>8, <1>10

-----------------------------------------------------------------------------
\* The accounts looked at.
LabelsSeen(c) == Labels(c.outs, c.course) \o c.others

LEMMA CaseIs ==
  ASSUME NEW c \in ForecastCase
  PROVE  /\ Forecasted(c) /\ DatedOnce(c.outs) /\ MonthsListed(c.course) /\ c.outs \in Concluded
         /\ IndexedBy(c.others, Len(c.others)) /\ c.others \in Others
<1>1. /\ c.outs \in Concluded /\ c.course \in Course /\ c.due \in Due /\ c.factors \in Factors
      /\ c.others \in Others /\ c.inFlight \in BOOLEAN /\ c.intent \in BOOLEAN
      /\ c.arr = 10 /\ c.severity = 60 /\ c.asOf = 150
  BY DEF ForecastCase
<1>2. DatedOnce(c.outs) /\ MonthsListed(c.course) BY <1>1, ForecastAssumption DEF DatedOnce, MonthsListed
<1>3. c.factors \in FactorRows /\ c.due \in Int \cup {None}
  <2>1. \A factors \in Factors : factors \in FactorRows BY ForecastAssumption DEF FactorRows, FactorRange
  <2>2. Due \subseteq Int \cup {None} BY ForecastAssumption
  <2> QED BY <1>1, <2>1, <2>2
<1>4. IndexedBy(c.others, Len(c.others))
  <2>1. \A others \in Others : Len(others) \in Nat /\ others = [i \in 1..Len(others) |-> others[i]]
    BY ForecastAssumption
  <2>2. PICK o : o = c.others OBVIOUS
  <2>3. Len(o) \in Nat /\ o = [i \in 1..Len(o) |-> o[i]] BY <1>1, <2>1, <2>2
  <2>4. DOMAIN o = 1..Len(o) BY <2>3
  <2> QED BY <2>2, <2>3, <2>4 DEF IndexedBy
<1> QED BY <1>1, <1>2, <1>3, <1>4 DEF Forecasted

\* What an account is with other factors, or other labels.
LikeAccount(w, c) == /\ w.outs = c.outs /\ w.course = c.course /\ w.due = c.due /\ w.asOf = c.asOf
                     /\ w.inFlight = c.inFlight /\ w.intent = c.intent /\ w.arr = c.arr /\ w.severity = c.severity

LEMMA CaseChanged ==
  ASSUME NEW c \in ForecastCase, NEW x
  PROVE  /\ \E w : w = [c EXCEPT !.factors = x] /\ w.factors = x /\ w.others = c.others /\ LikeAccount(w, c)
         /\ \E w : w = [c EXCEPT !.others = x] /\ w.others = x /\ w.factors = c.factors /\ LikeAccount(w, c)
<1>1. ASSUME NEW w, w = [c EXCEPT !.factors = x] PROVE w.factors = x /\ w.others = c.others /\ LikeAccount(w, c)
  BY <1>1 DEF ForecastCase, LikeAccount
<1>2. ASSUME NEW w, w = [c EXCEPT !.others = x] PROVE w.others = x /\ w.factors = c.factors /\ LikeAccount(w, c)
  BY <1>2 DEF ForecastCase, LikeAccount
<1> QED BY <1>1, <1>2

LEMMA Joining ==
  ASSUME NEW l, NEW a, IndexedBy(l, a), NEW o, NEW b, IndexedBy(o, b), NEW d \in Nat, a <= d, SureUpTo(d + b + 1)
  PROVE  \E k \in Nat : k = a + b /\ Labelling(l \o o, k) /\ SureOf(k + 1)
<1>1. a \in Nat /\ b \in Nat BY DEF IndexedBy
<1>2. PICK k \in Nat : k = a + b BY <1>1
<1>3. DOMAIN (l \o o) = 1..k BY <1>2, ListedTogether, Zenon DEF JoinOf
<1>4. \A n \in 0..(k + 1) : n \in 0..(d + b + 1) BY <1>1, <1>2
<1>5. \A n \in 0..(k + 1) : SureOf(n) BY <1>4, Zenon DEF SureUpTo
<1>6. k + 1 \in 0..(k + 1) /\ \A n \in 0..k : n \in 0..(k + 1) OBVIOUS
<1>7. (\A n \in 0..k : SureOf(n)) /\ SureOf(k + 1) BY <1>5, <1>6, Zenon
<1>8. Labelling(l \o o, k) BY <1>2, <1>3, <1>7, Zenon DEF Labelling, NumberedList, SureUpTo
<1> QED BY <1>2, <1>7, <1>8

LEMMA SureIs ==
  ASSUME NEW outs \in Concluded, NEW others \in Others
  PROVE  SureUpTo(Cardinality(outs) + Len(others) + 1)
<1>1. \A o \in Concluded, r \in Others :
        \A n \in 0..(Cardinality(o) + Len(r) + 1), p \in 0..1000 : Interval(Credible(p, 10 + n), p)
  BY ForecastAssumption
<1>2. \A o \in Concluded, r \in Others :
        \A n \in 0..(Cardinality(o) + Len(r) + 1), p \in ChanceRange : Interval(Credible(p, 10 + n), p)
  BY <1>1, Zenon DEF ChanceRange
<1>3. \A n \in 0..(Cardinality(outs) + Len(others) + 1), p \in ChanceRange : Interval(Credible(p, 10 + n), p)
  BY <1>2, Zenon
<1> QED BY <1>3, Zenon DEF SureUpTo, SureOf

LEMMA SeenIs ==
  ASSUME NEW c \in ForecastCase
  PROVE  \E k \in Nat : /\ k = Len(Grouped(c.outs)) + Len(c.others)
                        /\ Labelling(LabelsSeen(c), k) /\ SureOf(k + 1)
<1>l. PICK l, a : l = Labels(c.outs, c.course) /\ a = Len(Grouped(c.outs)) OBVIOUS
<1>o. PICK o, b : o = c.others /\ b = Len(o) OBVIOUS
<1>d. PICK d : d = Cardinality(c.outs) OBVIOUS
<1>1. IndexedBy(l, a) /\ a <= d BY <1>l, <1>d, CaseIs, LabelsListed
<1>2. IndexedBy(o, b) BY <1>o, CaseIs
<1>3. d \in Nat
  <2>1. IsFiniteSet(c.outs) BY CaseIs DEF DatedOnce
  <2> QED BY <1>d, <2>1, FS_CardinalityType
<1>4. SureUpTo(d + b + 1)
  <2>1. c.outs \in Concluded /\ o \in Others BY <1>o, CaseIs
  <2> QED BY <1>d, <1>o, <2>1, SureIs
<1>5. PICK k \in Nat : k = a + b /\ Labelling(l \o o, k) /\ SureOf(k + 1)
  BY <1>1, <1>2, <1>3, <1>4, Joining
<1>6. LabelsSeen(c) = l \o o BY <1>l, <1>o DEF LabelsSeen
<1> QED BY <1>l, <1>o, <1>5, <1>6

\* The least of two.
LEMMA MinOfTwo ==
  ASSUME NEW a \in Int, NEW b \in Int
  PROVE  Min({a, b}) = IF a <= b THEN a ELSE b
<1>1. \E x \in {a, b} : \A y \in {a, b} : x <= y OBVIOUS
<1>2. Min({a, b}) = CHOOSE x \in {a, b} : \A y \in {a, b} : x <= y BY Zenon DEF Min
<1>3. PICK m : m = Min({a, b}) OBVIOUS
<1>4. m \in {a, b} /\ \A y \in {a, b} : m <= y BY <1>1, <1>2, <1>3
<1> QED BY <1>3, <1>4

LEMMA AlikeIs ==
  ASSUME NEW c, NEW w, LikeAccount(w, c)
  PROVE  /\ StratumNow(w) = StratumNow(c) /\ Labels(w.outs, w.course) = Labels(c.outs, c.course)
         /\ w.others = c.others => LabelsSeen(w) = LabelsSeen(c)
         /\ w.factors = c.factors => RetentionOf(w) = RetentionOf(c)
         /\ Forecasted(c) /\ w.factors \in FactorRows => Forecasted(w)
<1>1. w.course = c.course /\ w.outs = c.outs BY DEF LikeAccount
<1>2. StratumNow(w) = StratumNow(c) BY <1>1, Zenon DEF StratumNow
<1>3. Labels(w.outs, w.course) = Labels(c.outs, c.course) BY <1>1, Zenon
<1>4. w.others = c.others => LabelsSeen(w) = LabelsSeen(c) BY <1>3, Zenon DEF LabelsSeen
<1>5. w.factors = c.factors => RetentionOf(w) = RetentionOf(c) BY Zenon DEF RetentionOf, LikeAccount
<1>6. Forecasted(c) /\ w.factors \in FactorRows => Forecasted(w) BY Zenon DEF Forecasted, LikeAccount
<1> QED BY <1>2, <1>3, <1>4, <1>5, <1>6, Zenon

\* A factor that gets worse.
LEMMA WorseFactor ==
  ASSUME NEW c \in ForecastCase, NEW i \in 1..4, c.factors[i] > 50
  PROVE  \E w : /\ w = [c EXCEPT !.factors[i] = 50] /\ Forecasted(w)
                /\ LabelsSeen(w) = LabelsSeen(c) /\ StratumNow(w) = StratumNow(c)
                /\ RetentionOf(w) <= RetentionOf(c)
<1>1. Forecasted(c) BY CaseIs
<1>2. PICK A : A = 50..200 OBVIOUS
<1>3. PICK D : D = 1..4 OBVIOUS
<1>4. PICK g : g = c.factors OBVIOUS
<1>5. PICK h : h = [g EXCEPT ![i] = 50] OBVIOUS
<1>6. g \in [D -> A] /\ i \in D /\ 50 \in A BY <1>1, <1>2, <1>3, <1>4 DEF Forecasted, FactorRows, FactorRange
<1>7. h \in [D -> A] /\ h[i] = 50 /\ \A j \in D : j # i => h[j] = g[j] BY <1>5, <1>6
<1>8. \A j \in D : h[j] <= g[j]
  <2>1. \A j \in D : g[j] \in 50..200 BY <1>2, <1>6
  <2>2. g[i] >= 50 BY <1>6, <2>1
  <2>3. ASSUME NEW j \in D PROVE h[j] <= g[j]
    <3>1. CASE j = i BY <1>7, <2>2, <3>1
    <3>2. CASE j # i
      <4>1. h[j] = g[j] /\ g[j] \in 50..200 BY <1>7, <2>1, <3>2
      <4> QED BY <4>1
    <3> QED BY <3>1, <3>2
  <2> QED BY <2>3
<1>9. PICK w : w = [c EXCEPT !.factors = h] /\ w.factors = h /\ w.others = c.others /\ LikeAccount(w, c)
  BY CaseChanged
<1>10. w = [c EXCEPT !.factors[i] = 50] BY <1>4, <1>5, <1>9 DEF ForecastCase
<1>11. g \in FactorRows /\ h \in FactorRows BY <1>2, <1>3, <1>6, <1>7 DEF FactorRows, FactorRange
<1>12. Forecasted(w) /\ LabelsSeen(w) = LabelsSeen(c) /\ StratumNow(w) = StratumNow(c)
  <2>1. w.factors \in FactorRows BY <1>9, <1>11
  <2> QED BY <1>1, <1>9, <2>1, AlikeIs, Zenon
<1>13. PICK inside \in BOOLEAN : inside = DecisionPoint(c.due, c.outs, c.asOf).inside
  <2>1. c.due \in Int \cup {None} /\ c.asOf \in Int BY <1>1 DEF Forecasted
  <2> QED BY <2>1, DecisionPointIs
<1>14. PICK flying \in BOOLEAN : flying = c.inFlight BY <1>1 DEF Forecasted
<1>15. RetentionOf(c) = PriorRetention(g, flying, inside) BY <1>4, <1>13, <1>14, Zenon DEF RetentionOf
<1>16. RetentionOf(w) = PriorRetention(h, flying, inside) BY <1>9, <1>13, <1>14, Zenon DEF RetentionOf, LikeAccount
<1>17. PriorRetention(h, flying, inside) <= PriorRetention(g, flying, inside)
  <2>1. NoBetter(h, g) BY <1>3, <1>8 DEF NoBetter
  <2>2. h \in FactorRows /\ g \in FactorRows BY <1>11
  <2> QED BY <2>1, <2>2, RetentionPrior, Zenon
<1>18. RetentionOf(w) <= RetentionOf(c) BY <1>15, <1>16, <1>17, Zenon
<1> QED BY <1>10, <1>12, <1>18, Zenon

LEMMA OrderedHolds ==
  ASSUME NEW c \in ForecastCase
  PROVE  Ordered(c, Forecast(c)) /\ Balanced(Forecast(c))
<1>f. PICK f : f = Forecast(c) OBVIOUS
<1>l. PICK L : L = LabelsSeen(c) OBVIOUS
<1>k. PICK k \in Nat : Labelling(L, k) BY <1>l, SeenIs
<1>c. PICK cal : cal = Eligible(Tally(L, DOMAIN L)) OBVIOUS
<1>t. PICK t : t = Counts(L, StratumNow(c)) OBVIOUS
<1>r. PICK r : r = RetentionOf(c) OBVIOUS
<1>1. Forecasted(c) BY CaseIs
<1>2. \A w : Forecast(w) = ForecastOn(w, LabelsSeen(w)) BY Zenon DEF Forecast, LabelsSeen
<1>3. /\ ForecastSays(f, cal, t, r) /\ cal \in BOOLEAN /\ Tallied(t.retained, t.n) /\ (cal => t.n > 0)
  BY <1>f, <1>l, <1>k, <1>c, <1>t, <1>r, <1>1, <1>2, ForecastIs, Zenon
<1>4. Balanced(f) /\ f.prior = r /\ f.counts = t BY <1>3, Zenon DEF ForecastSays
<1>5. f.basis = "calibrated" <=> cal BY <1>3, Zenon DEF ForecastSays
<1>6. r \in ChanceRange
  <2>1. r \in OddsRange BY <1>r, <1>1, PriorsAre
  <2> QED BY <2>1 DEF OddsRange, ChanceRange
<1>7. cal => f.retention.p = MixedChance(r, t.retained, t.n) BY <1>3, Zenon DEF ForecastSays
<1>8. ~cal => f.retention.p = r BY <1>3, Zenon DEF ForecastSays
<1>9. \A e \in {f.retention, f.expansion} : 0 <= e.low /\ e.low <= e.p /\ e.p <= e.high /\ e.high <= 1000
  <2>1. InRange(f.retention) /\ InRange(f.expansion) BY <1>4 DEF Balanced
  <2> QED BY <2>1, InRangeIs
<1>10. f.low <= f.expected /\ f.expected <= f.high BY <1>4 DEF Balanced
<1>11. ASSUME f.basis = "calibrated", NEW rate, rate = (1000 * f.counts.retained) \div f.counts.n
       PROVE  f.retention.p <= Max({f.prior, rate}) /\ f.retention.p + 1 >= Min({f.prior, rate})
  <2>1. cal BY <1>5, <1>11
  <2>2. PICK p : p = MixedChance(r, t.retained, t.n) OBVIOUS
  <2>3. p \in ChanceRange BY <1>3, <1>6, <2>2, MixedIs
  <2>4. rate = (1000 * t.retained) \div t.n BY <1>4, <1>11
  <2>5. rate \in Int /\ (p <= r \/ p <= rate) /\ (p >= r \/ p >= rate)
    <3>1. t.n > 0 BY <1>3, <2>1
    <3> QED BY <1>3, <1>6, <2>2, <2>4, <3>1, MixedBetween
  <2>6. p \in Int /\ r \in Int BY <1>6, <2>3 DEF ChanceRange
  <2>7. Max({r, rate}) = (IF r >= rate THEN r ELSE rate) /\ Min({r, rate}) = (IF r <= rate THEN r ELSE rate)
    BY <2>5, <2>6, MaxOfTwo, MinOfTwo
  <2>8. p <= Max({r, rate}) /\ p + 1 >= Min({r, rate}) BY <2>5, <2>6, <2>7
  <2>9. f.retention.p = p /\ f.prior = r BY <1>4, <1>7, <2>1, <2>2
  <2> QED BY <2>8, <2>9
<1>12. ASSUME NEW i \in 1..4, c.factors[i] > 50
       PROVE  Forecast([c EXCEPT !.factors[i] = 50]).retention.p <= f.retention.p
  <2>1. PICK w : /\ w = [c EXCEPT !.factors[i] = 50] /\ Forecasted(w)
                 /\ LabelsSeen(w) = LabelsSeen(c) /\ StratumNow(w) = StratumNow(c)
                 /\ RetentionOf(w) <= RetentionOf(c)
    BY <1>12, WorseFactor
  <2>2. PICK q : q = RetentionOf(w) OBVIOUS
  <2>3. ForecastSays(Forecast(w), cal, t, q)
    BY <1>l, <1>k, <1>c, <1>t, <1>2, <2>1, <2>2, ForecastIs, Zenon
  <2>4. q \in OddsRange BY <2>1, <2>2, PriorsAre
  <2>5. q \in ChanceRange /\ q <= r BY <1>r, <2>1, <2>2, <2>4 DEF OddsRange, ChanceRange
  <2>6. Forecast(w).retention.p <= f.retention.p
    <3>1. CASE cal
      <4>1. Forecast(w).retention.p = MixedChance(q, t.retained, t.n) BY <2>3, <3>1, Zenon DEF ForecastSays
      <4>2. MixedChance(q, t.retained, t.n) <= MixedChance(r, t.retained, t.n) BY <1>3, <1>6, <2>5, MixedFollows
      <4> QED BY <1>7, <3>1, <4>1, <4>2
    <3>2. CASE ~cal
      <4>1. Forecast(w).retention.p = q BY <2>3, <3>2, Zenon DEF ForecastSays
      <4> QED BY <1>8, <2>5, <3>2, <4>1
    <3> QED BY <1>3, <3>1, <3>2
  <2> QED BY <2>1, <2>6, Zenon
<1>13. Ordered(c, f)
  <2>1. PICK rate : rate = (1000 * f.counts.retained) \div f.counts.n OBVIOUS
  <2>2. f.basis = "calibrated" =>
          f.retention.p <= Max({f.prior, rate}) /\ f.retention.p + 1 >= Min({f.prior, rate})
    BY <1>11, <2>1
  <2>3. f.basis = "calibrated" =>
          LET u == (1000 * f.counts.retained) \div f.counts.n IN
          /\ f.retention.p <= Max({f.prior, u})
          /\ f.retention.p + 1 >= Min({f.prior, u})
    BY <2>1, <2>2
  <2> QED BY <1>9, <1>10, <1>12, <2>3, ZenonT(60) DEF Ordered
<1> QED BY <1>f, <1>4, <1>13, Zenon

\* The labels with those of a loss.
LEMMA LabelsMore ==
  ASSUME NEW l, NEW a, IndexedBy(l, a), NEW o, NEW b, IndexedBy(o, b), NEW one, IndexedBy(one, 1), ~one[1].retained,
         NEW k \in Nat, k = a + b, SureUpTo(k), SureOf(k + 1)
  PROVE  LossMore(l \o o, l \o (o \o one), k) /\ Labelling(l \o (o \o one), k + 1)
<1>1. a \in Nat /\ b \in Nat BY DEF IndexedBy
<1>2. PICK v : v = o \o one OBVIOUS
<1>3. PICK d \in Nat : d = b + 1 BY <1>1
<1>4. IndexedBy(v, d) /\ (\A i \in 1..b : v[i] = o[i]) /\ v[d] = one[1]
  <2>1. IndexedBy(v, b + 1) /\ (\A i \in 1..b : v[i] = o[i]) /\ \A i \in 1..1 : v[b + i] = one[i]
    <3>1. JoinOf(o \o one, o, b, one, 1) BY ListedTogether, Zenon
    <3> QED BY <1>2, <3>1, Zenon DEF JoinOf
  <2>2. 1 \in 1..1 OBVIOUS
  <2>3. v[b + 1] = one[1] BY <2>1, <2>2, Zenon
  <2> QED BY <1>3, <2>1, <2>3
<1>5. PICK L : L = l \o o OBVIOUS
<1>6. PICK M : M = l \o v OBVIOUS
<1>7. /\ DOMAIN L = 1..(a + b) /\ (\A i \in 1..a : L[i] = l[i]) /\ \A i \in 1..b : L[a + i] = o[i]
  <2>1. JoinOf(l \o o, l, a, o, b) BY ListedTogether, Zenon
  <2> QED BY <1>5, <2>1, Zenon DEF JoinOf
<1>8. /\ DOMAIN M = 1..(a + d) /\ (\A i \in 1..a : M[i] = l[i]) /\ \A i \in 1..d : M[a + i] = v[i]
  <2>1. JoinOf(l \o v, l, a, v, d) BY <1>4, ListedTogether, Zenon
  <2> QED BY <1>6, <2>1, Zenon DEF JoinOf
<1>9. DOMAIN L = 1..k /\ DOMAIN M = 1..(k + 1)
  <2>1. a + b = k /\ a + d = k + 1 BY <1>1, <1>3
  <2> QED BY <1>7, <1>8, <2>1
<1>10. ASSUME NEW i \in 1..k PROVE M[i] = L[i]
  <2>1. CASE i \in 1..a BY <1>7, <1>8, <2>1
  <2>2. CASE i \notin 1..a
    <3>1. PICK j \in Int : j = i - a BY <1>1
    <3>2. j \in 1..b /\ j \in 1..d /\ i = a + j BY <1>1, <1>3, <2>2, <3>1
    <3>3. L[a + j] = o[j] /\ v[j] = o[j] BY <1>4, <1>7, <3>2, Zenon
    <3>4. M[a + j] = v[j] BY <1>8, <3>2, Zenon
    <3> QED BY <3>2, <3>3, <3>4, Zenon
  <2> QED BY <2>1, <2>2
<1>11. M[k + 1] = one[1]
  <2>1. d \in 1..d /\ a + d = k + 1 BY <1>1, <1>3
  <2>2. M[a + d] = v[d] BY <1>8, <2>1, Zenon
  <2> QED BY <1>4, <2>1, <2>2, Zenon
<1>12. ~M[k + 1].retained BY <1>11, Zenon
<1>13. NumberedList(L, k) /\ NumberedList(M, k + 1) BY <1>9 DEF NumberedList
<1>14. SureUpTo(k + 1)
  <2>1. \A n \in 0..(k + 1) : n \in 0..k \/ n = k + 1 OBVIOUS
  <2> QED BY <2>1, Zenon DEF SureUpTo
<1>15. LossMore(L, M, k) BY <1>10, <1>12, <1>13, Zenon DEF LossMore
<1>16. Labelling(M, k + 1) BY <1>13, <1>14, Zenon DEF Labelling
<1> QED BY <1>2, <1>5, <1>6, <1>15, <1>16, Zenon

LEMMA LossesHold ==
  ASSUME NEW c \in ForecastCase
  PROVE  LossesCount(c, Forecast(c))
<1>f. PICK f : f = Forecast(c) OBVIOUS
<1>l. PICK L : L = LabelsSeen(c) OBVIOUS
<1>e. PICK loss : loss = [id |-> 99, day |-> 20, bucket |-> "lost"] OBVIOUS
<1>o. PICK one : one = Labels({loss}, c.course) OBVIOUS
<1>k. PICK k \in Nat : k = Len(Grouped(c.outs)) + Len(c.others) /\ Labelling(L, k) /\ SureOf(k + 1) BY <1>l, SeenIs
<1>1. IndexedBy(one, 1) /\ ~one[1].retained
  <2>1. loss.id \in Int /\ loss.day \in Int /\ loss.bucket = "lost" BY <1>e
  <2> QED BY <1>o, <2>1, OneLoss
<1>2. Forecasted(c) BY CaseIs
<1>3. DecisionPoint(c.due, c.outs, c.asOf).status = "resolved" => c.outs # {} /\ c.due < c.asOf
  <2>1. c.due \in Int \cup {None} /\ c.asOf \in Int BY <1>2 DEF Forecasted
  <2> QED BY <2>1, DecisionPointIs
<1>v. PICK v : v = c.others \o one OBVIOUS
<1>4. PICK w : w = [c EXCEPT !.others = v] /\ w.others = v /\ w.factors = c.factors /\ LikeAccount(w, c)
  BY CaseChanged
<1>5. Forecasted(w) /\ StratumNow(w) = StratumNow(c) /\ RetentionOf(w) = RetentionOf(c)
  <2>1. w.factors \in FactorRows BY <1>2, <1>4 DEF Forecasted
  <2> QED BY <1>2, <1>4, <2>1, AlikeIs, Zenon
<1>m. PICK M : M = LabelsSeen(w) OBVIOUS
<1>6. LossMore(L, M, k) /\ Labelling(M, k + 1)
  <2>1. PICK l, a : l = Labels(c.outs, c.course) /\ a = Len(Grouped(c.outs)) OBVIOUS
  <2>2. PICK o, b : o = c.others /\ b = Len(o) OBVIOUS
  <2>3. IndexedBy(l, a) BY <2>1, CaseIs, LabelsListed
  <2>4. IndexedBy(o, b) BY <2>2, CaseIs
  <2>5. k = a + b /\ SureUpTo(k) /\ SureOf(k + 1) BY <1>k, <2>1, <2>2 DEF Labelling
  <2>6. LossMore(l \o o, l \o (o \o one), k) /\ Labelling(l \o (o \o one), k + 1)
    BY <1>1, <2>3, <2>4, <2>5, LabelsMore
  <2>7. L = l \o o BY <1>l, <2>1, <2>2, Zenon DEF LabelsSeen
  <2>8. M = l \o (o \o one)
    <3>1. Labels(w.outs, w.course) = l BY <1>4, <2>1, AlikeIs
    <3>2. w.others = o \o one BY <1>v, <1>4, <2>2
    <3> QED BY <1>m, <3>1, <3>2, Zenon DEF LabelsSeen
  <2> QED BY <2>6, <2>7, <2>8, Zenon
<1>g. PICK g : g = Forecast(w) OBVIOUS
<1>s. PICK s : s = StratumNow(c) OBVIOUS
<1>t. PICK t, u : t = Counts(L, s) /\ u = Counts(M, s) OBVIOUS
<1>r. PICK r : r = RetentionOf(c) OBVIOUS
<1>c. PICK cal, then : cal = Eligible(Tally(L, DOMAIN L)) /\ then = Eligible(Tally(M, DOMAIN M)) OBVIOUS
<1>7. \A x : Forecast(x) = ForecastOn(x, LabelsSeen(x)) BY Zenon DEF Forecast, LabelsSeen
<1>8. ForecastSays(f, cal, t, r) /\ Tallied(t.retained, t.n)
  BY <1>f, <1>l, <1>k, <1>s, <1>t, <1>r, <1>c, <1>2, <1>7, ForecastIs, Zenon
<1>9. ForecastSays(g, then, u, r)
  BY <1>g, <1>m, <1>s, <1>t, <1>r, <1>c, <1>5, <1>6, <1>7, ForecastIs, Zenon
<1>10. (cal => then) /\ (t.n + 1 = u.n => u.retained = t.retained) BY <1>c, <1>t, <1>6, OneWorse, Zenon
<1>11. f.basis = "calibrated" => g.basis = "calibrated" BY <1>8, <1>9, <1>10, Zenon DEF ForecastSays
<1>12. ASSUME f.basis = "calibrated", f.counts.n + 1 = g.counts.n PROVE g.retention.p <= f.retention.p
  <2>1. cal BY <1>8, <1>12, Zenon DEF ForecastSays
  <2>2. then BY <1>10, <2>1
  <2>3. f.counts = t /\ f.retention.p = MixedChance(r, t.retained, t.n) BY <1>8, <2>1, Zenon DEF ForecastSays
  <2>4. g.counts = u /\ g.retention.p = MixedChance(r, u.retained, u.n) BY <1>9, <2>2, Zenon DEF ForecastSays
  <2>5. t.n + 1 = u.n BY <1>12, <2>3, <2>4
  <2>6. u.retained = t.retained BY <1>10, <2>5
  <2>7. r \in ChanceRange
    <3>1. r \in OddsRange BY <1>r, <1>2, PriorsAre
    <3> QED BY <3>1 DEF OddsRange, ChanceRange
  <2>8. MixedChance(r, t.retained, t.n + 1) <= MixedChance(r, t.retained, t.n) BY <1>8, <2>7, MixedFalls
  <2> QED BY <2>3, <2>4, <2>5, <2>6, <2>8
<1>13. Worse(f, g) BY <1>11, <1>12, Zenon DEF Worse
<1>14. w = [c EXCEPT !.others = c.others \o Labels({[id |-> 99, day |-> 20, bucket |-> "lost"]}, c.course)]
  BY <1>e, <1>o, <1>v, <1>4, Zenon
<1>15. Worse(f, Forecast([c EXCEPT !.others =
                            c.others \o Labels({[id |-> 99, day |-> 20, bucket |-> "lost"]}, c.course)]))
  BY <1>g, <1>13, <1>14, Zenon
<1> QED BY <1>f, <1>3, <1>15, Zenon DEF LossesCount

-----------------------------------------------------------------------------
\* Two accounts together.
LEMMA TotalOfTwo ==
  ASSUME NEW D, D = {1, 2}, NEW h, h[1] \in Int, h[2] \in Int
  PROVE  Total(h, D) = h[1] + h[2]
<1>1. IsFiniteSet(D)
  <2>1. IsFiniteSet({1}) BY FS_Singleton
  <2>2. IsFiniteSet({1} \cup {2}) BY <2>1, FS_AddElement
  <2>3. D = {1} \cup {2} OBVIOUS
  <2> QED BY <2>2, <2>3
<1>2. \A x \in D : h[x] \in Int OBVIOUS
<1>3. PICK E : E = D \ {1} OBVIOUS
<1>4. E = {2} /\ IsFiniteSet(E) /\ 2 \in E /\ E \ {2} = {} BY <1>1, <1>3, FS_RemoveElement
<1>5. 1 \in D /\ Summed(h, D) = h[1] + Summed(h, E) BY <1>1, <1>2, <1>3, SumStep
<1>6. \A x \in E : h[x] \in Int BY <1>4
<1>7. Summed(h, E) = h[2] + Summed(h, E \ {2}) BY <1>4, <1>6, SumStep
<1>8. Summed(h, E \ {2}) = 0 BY <1>4, SumEmpty
<1> QED BY <1>5, <1>7, <1>8, TotalIsSummed

\* The root of two squares is at most the sum of their roots.
LEMMA RootOfSquares ==
  ASSUME NEW v \in Nat, NEW w \in Nat
  PROVE  Root(v * v + w * w) \in Nat /\ Root(v * v + w * w) <= v + w
<1>1. PICK n \in Nat : n = v * v + w * w OBVIOUS
<1>2. PICK r \in Nat : r = Root(n) /\ r * r <= n BY RootIs
<1>3. ASSUME r > v + w PROVE FALSE
  <2>1. PICK x \in Nat : x = v + w OBVIOUS
  <2>2. x * x = v * v + w * w + 2 * (v * w) BY <2>1
  <2>3. v * w >= 0 OBVIOUS
  <2>4. PICK a, b \in Nat : a = x * x /\ b = v * w BY <2>3
  <2>5. a >= n BY <1>1, <2>2, <2>4
  <2>6. (x + 1) * (x + 1) <= r * r
    <3>1. x + 1 <= r BY <1>3, <2>1
    <3>2. (x + 1) * (x + 1) <= (x + 1) * r BY <3>1
    <3>3. (x + 1) * r <= r * r BY <3>1
    <3>4. PICK d, e, g \in Nat : d = (x + 1) * (x + 1) /\ e = (x + 1) * r /\ g = r * r OBVIOUS
    <3> QED BY <3>2, <3>3, <3>4
  <2>7. (x + 1) * (x + 1) = x * x + 2 * x + 1 OBVIOUS
  <2>8. PICK d, g \in Nat : d = (x + 1) * (x + 1) /\ g = r * r OBVIOUS
  <2> QED BY <1>2, <2>4, <2>5, <2>6, <2>7, <2>8
<1> QED BY <1>1, <1>2, <1>3

LEMMA PortfolioHolds ==
  ASSUME NEW f, Balanced(f), NEW g, Balanced(g)
  PROVE  PortfolioOrdered(Portfolio(<<f, g>>))
<1>b. PICK b : b = <<f, g>> OBVIOUS
<1>d. PICK D : D = DOMAIN b OBVIOUS
<1>1. D = {1, 2} /\ b[1] = f /\ b[2] = g BY <1>b, <1>d
<1>2. PICK fl \in Int : fl = f.low BY DEF Balanced
<1>3. PICK fe \in Int : fe = f.expected BY DEF Balanced
<1>4. PICK fh \in Int : fh = f.high BY DEF Balanced
<1>5. PICK gl \in Int : gl = g.low BY DEF Balanced
<1>6. PICK ge \in Int : ge = g.expected BY DEF Balanced
<1>7. PICK gh \in Int : gh = g.high BY DEF Balanced
<1>8. fl <= fe /\ fe <= fh /\ gl <= ge /\ ge <= gh BY <1>2, <1>3, <1>4, <1>5, <1>6, <1>7 DEF Balanced
<1>9. PICK v : v = (fh - fl) \div 2 OBVIOUS
<1>10. PICK w : w = (gh - gl) \div 2 OBVIOUS
<1>11. v \in Nat /\ 2 * v <= fh - fl /\ w \in Nat /\ 2 * w <= gh - gl BY <1>8, <1>9, <1>10
<1>12. PICK wide : wide = [i \in D |-> (b[i].high - b[i].low) \div 2] OBVIOUS
<1>13. PICK square : square = [i \in D |-> wide[i] * wide[i]] OBVIOUS
<1>14. PICK lows : lows = [i \in D |-> b[i].low] OBVIOUS
<1>15. PICK means : means = [i \in D |-> b[i].expected] OBVIOUS
<1>16. PICK highs : highs = [i \in D |-> b[i].high] OBVIOUS
<1>17. PICK p : p = Portfolio(b) OBVIOUS
<1>18. p = [expected |-> Total(means, D),
            independent |-> [low |-> Total(means, D) - Root(Total(square, D)),
                             high |-> Total(means, D) + Root(Total(square, D))],
            correlated |-> [low |-> Total(lows, D), high |-> Total(highs, D)]]
  BY <1>d, <1>12, <1>13, <1>14, <1>15, <1>16, <1>17, Zenon DEF Portfolio
<1>19. wide[1] = v /\ wide[2] = w BY <1>1, <1>2, <1>4, <1>5, <1>7, <1>9, <1>10, <1>12
<1>20. Total(square, D) = v * v + w * w
  <2>1. square[1] = v * v /\ square[2] = w * w BY <1>1, <1>13, <1>19
  <2>2. v * v \in Int /\ w * w \in Int BY <1>11
  <2> QED BY <1>1, <2>1, <2>2, TotalOfTwo
<1>21. Total(means, D) = fe + ge
  <2>1. means[1] = fe /\ means[2] = ge BY <1>1, <1>3, <1>6, <1>15
  <2> QED BY <1>1, <2>1, TotalOfTwo
<1>22. Total(lows, D) = fl + gl
  <2>1. lows[1] = fl /\ lows[2] = gl BY <1>1, <1>2, <1>5, <1>14
  <2> QED BY <1>1, <2>1, TotalOfTwo
<1>23. Total(highs, D) = fh + gh
  <2>1. highs[1] = fh /\ highs[2] = gh BY <1>1, <1>4, <1>7, <1>16
  <2> QED BY <1>1, <2>1, TotalOfTwo
<1>24. PICK h \in Nat : h = Root(Total(square, D)) /\ h <= v + w BY <1>11, <1>20, RootOfSquares
<1>25. PICK e \in Int : e = fe + ge OBVIOUS
<1>26. PICK l \in Int : l = fl + gl OBVIOUS
<1>27. PICK u \in Int : u = fh + gh OBVIOUS
<1>28. /\ p.expected = e /\ p.independent.low = e - h /\ p.independent.high = e + h
       /\ p.correlated.low = l /\ p.correlated.high = u
  BY <1>18, <1>21, <1>22, <1>23, <1>24, <1>25, <1>26, <1>27
<1>29. l <= e /\ e <= u /\ 2 * h <= u - l BY <1>8, <1>11, <1>24, <1>25, <1>26, <1>27
<1>30. \A r \in {p.independent, p.correlated} : r.low <= p.expected /\ p.expected <= r.high
  BY <1>28, <1>29
<1>31. p.independent.high - p.independent.low <= p.correlated.high - p.correlated.low + 2 BY <1>28, <1>29
<1>32. PortfolioOrdered(p) BY <1>30, <1>31, Zenon DEF PortfolioOrdered
<1> QED BY <1>b, <1>17, <1>32

-----------------------------------------------------------------------------
\* A forecast is sound: labels look back, each outcome in one; estimates lie in their
\* intervals, follow the factors, and do not gain from a loss; a portfolio contains what
\* it expects (wizard_d_foresight.py:174-205, 268-272, 339-364, 411-463, 483-498).
LEMMA ForecastHolds ==
  ASSUME NEW c \in ForecastCase
  PROVE  ForecastSound(c, Forecast(c))
<1>1. DatedOnce(c.outs) /\ MonthsListed(c.course) BY CaseIs
<1>2. LooksNotAhead(c) BY <1>1, LabelsLookBack
<1>3. Ordered(c, Forecast(c)) /\ Balanced(Forecast(c)) BY OrderedHolds
<1>4. LossesCount(c, Forecast(c)) BY LossesHold
<1>5. PICK x : x = <<60, 80, 75, 90>> OBVIOUS
<1>6. PICK w : w = [c EXCEPT !.factors = x] /\ w.factors = x /\ w.others = c.others /\ LikeAccount(w, c)
  BY CaseChanged
<1>7. Balanced(Forecast(w))
  <2>1. x \in FactorRows BY <1>5 DEF FactorRows, FactorRange
  <2>2. Forecasted(c) BY CaseIs
  <2>3. Forecasted(w) BY <1>6, <2>1, <2>2 DEF Forecasted, LikeAccount
  <2>4. LabelsSeen(w) = LabelsSeen(c) BY <1>6 DEF LabelsSeen, LikeAccount
  <2>5. PICK k \in Nat : Labelling(LabelsSeen(w), k) BY <2>4, SeenIs
  <2>6. Forecast(w) = ForecastOn(w, LabelsSeen(w)) BY Zenon DEF Forecast, LabelsSeen
  <2>7. ForecastSays(Forecast(w), Eligible(Tally(LabelsSeen(w), DOMAIN LabelsSeen(w))),
                     Counts(LabelsSeen(w), StratumNow(w)), RetentionOf(w))
    BY <2>3, <2>5, <2>6, ForecastIs
  <2> QED BY <2>7, Zenon DEF ForecastSays
<1>8. PortfolioOrdered(Portfolio(<<Forecast(c), Forecast(w)>>)) BY <1>3, <1>7, PortfolioHolds
<1> QED BY <1>2, <1>3, <1>4, <1>5, <1>6, <1>8, Zenon DEF ForecastSound

\* Whatever input is looked at, forecasts, weights and evidence are sound.
THEOREM OutlookSoundHolds == OutlookSpec => []OutlookSound
<1>1. OutlookInit => (outlook.of = "forecast" => ForecastSound(outlook, Forecast(outlook)))
  <2> SUFFICES ASSUME OutlookInit, outlook.of = "forecast" PROVE ForecastSound(outlook, Forecast(outlook))
    OBVIOUS
  <2>1. outlook \notin WeightCase /\ outlook \notin SampleCase BY DEF WeightCase, SampleCase
  <2>2. outlook \in ForecastCase BY <2>1 DEF OutlookInit
  <2> QED BY <2>2, ForecastHolds
<1>2. /\ (outlook.of = "forecast" => ForecastSound(outlook, Forecast(outlook))) /\ [FALSE]_outlook
      => (outlook.of = "forecast" => ForecastSound(outlook, Forecast(outlook)))'
  <2> SUFFICES ASSUME outlook.of = "forecast" => ForecastSound(outlook, Forecast(outlook)), [FALSE]_outlook
               PROVE  (outlook.of = "forecast" => ForecastSound(outlook, Forecast(outlook)))'
    OBVIOUS
  <2>1. outlook' = outlook OBVIOUS
  <2> QED BY <2>1, Zenon
<1>3. /\ (outlook.of = "forecast" => ForecastSound(outlook, Forecast(outlook)))
      /\ (outlook.of = "weights" => WeightsSound(outlook))
      /\ (outlook.of = "samples" => EvidenceSymmetric(outlook))
      => OutlookSound
  BY Zenon DEF OutlookSound
<1> QED BY <1>1, <1>2, <1>3, EvidenceSymmetricHolds, WeightsSoundHolds, PTL DEF OutlookSpec
=============================================================================
