------------------------------ MODULE LoadProofs ------------------------------
(***************************************************************************)
(* LoadedOnce is an invariant of LoadFiles.                                *)
(*                                                                         *)
(* A loader is a fold over the rows of a file.  A table of what it computes*)
(* for every set of rows exists for any number of rows (TableExists, by    *)
(* induction), so the fold is a sequence of steps, one by row (..BySteps), *)
(* and what one row keeps, the file keeps (Grown, Rejoined, ...).          *)
(*                                                                         *)
(* LoadInv is the inductive invariant: the tables, as committed and as the *)
(* run sees them, are Sound; rows taken over are in both; and in a run that*)
(* has not failed the rows of the files it is past are in what it sees.    *)
(***************************************************************************)
EXTENDS LoadFiles, RuleProofs, SequenceTheorems

\* A finite set of integers has a least member.
LEMMA MinIs ==
  ASSUME NEW S, IsFiniteSet(S), S # {}, S \subseteq Int
  PROVE  Min(S) \in S /\ \A y \in S : Min(S) <= y
<1> DEFINE Good == {T \in SUBSET S : T # {} => \E x \in T : \A y \in T : x <= y}
<1>1. {} \in Good OBVIOUS
<1>2. ASSUME NEW T \in SUBSET S, T # {}, \A x \in T : T \ {x} \in Good
      PROVE  T \in Good
  <2>1. PICK z \in T : TRUE BY <1>2
  <2>2. CASE T \ {z} = {} BY <2>1, <2>2
  <2>3. CASE T \ {z} # {}
    <3>1. PICK x \in T \ {z} : \A y \in T \ {z} : x <= y BY <1>2, <2>1, <2>3
    <3>2. CASE x <= z BY <3>1, <3>2
    <3>3. CASE ~(x <= z)
      <4>1. \A y \in T : z <= y BY <3>1, <3>3
      <4> QED BY <2>1, <4>1
    <3> QED BY <3>2, <3>3
  <2> QED BY <2>2, <2>3
<1>3. S \in Good
  <2> HIDE DEF Good
  <2>1. \A T \in SUBSET S : T # {} /\ (\A x \in T : T \ {x} \in Good) => T \in Good BY <1>2
  <2> QED BY <1>1, <2>1, SubsetInduction
<1>4. \E x \in S : \A y \in S : x <= y BY <1>3
<1> QED BY <1>4, Zenon DEF Min

\* What a list is, whatever its items.
IsList(s) == s \in Seq(Range(s))

\* A list has as many places as items.
LEMMA ListIs ==
  ASSUME NEW s, IsList(s)
  PROVE  Len(s) \in Nat /\ DOMAIN s = 1..Len(s)
BY DEF IsList

\* A sequence over a set is a list.
LEMMA ListIn ==
  ASSUME NEW A, NEW s \in Seq(A)
  PROVE  IsList(s)
<1>1. \A i \in 1..Len(s) : s[i] \in Range(s) BY DEF Range
<1>2. s \in Seq(Range(s)) BY <1>1
<1> QED BY <1>2 DEF IsList

\* A list with one item more.
LEMMA ListAppended ==
  ASSUME NEW s, IsList(s), NEW x, NEW t, t = Append(s, x)
  PROVE  /\ IsList(t) /\ Len(t) = Len(s) + 1
         /\ \A i \in 1..Len(s) : t[i] = s[i]
         /\ t[Len(s) + 1] = x
<1> DEFINE A == Range(s) \cup {x}
<1>1. s \in Seq(A) /\ x \in A BY DEF IsList
<1> HIDE DEF A
<1>2. t \in Seq(A) BY <1>1
<1>3. IsList(t) BY <1>2, ListIn
<1> QED BY <1>1, <1>3

\* Two lists, one after the other.
LEMMA ListJoined ==
  ASSUME NEW s, IsList(s), NEW t, IsList(t), NEW u, u = s \o t
  PROVE  /\ IsList(u) /\ Len(u) = Len(s) + Len(t)
         /\ \A i \in 1..Len(s) : u[i] = s[i]
         /\ \A i \in 1..Len(t) : u[Len(s) + i] = t[i]
<1> DEFINE A == Range(s) \cup Range(t)
<1>1. s \in Seq(A) /\ t \in Seq(A) BY DEF IsList
<1> HIDE DEF A
<1>2. u \in Seq(A) BY <1>1
<1>3. IsList(u) BY <1>2, ListIn
<1> QED BY <1>1, <1>3

\* A finite set as a list: its members, each once.
LEMMA ListOf ==
  ASSUME NEW S, IsFiniteSet(S), NEW s, s = SetToSeq(S)
  PROVE  /\ IsList(s) /\ Range(s) = S
         /\ \A i, j \in DOMAIN s : s[i] = s[j] => i = j
<1>0. PICK n \in Nat : ExistsBijection(1..n, S) BY FS_NatBijection
<1>1. PICK f \in Bijection(1..n, S) : TRUE BY <1>0 DEF ExistsBijection
<1>2. Cardinality(S) = n BY <1>0, FS_CountingElements
<1>3. f \in [1..Cardinality(S) -> S] /\ \A i, j \in DOMAIN f : f[i] = f[j] => i = j
  BY <1>1, <1>2 DEF Bijection, Injection, IsInjective
<1>4. \E g \in [1..Cardinality(S) -> S] : \A i, j \in DOMAIN g : g[i] = g[j] => i = j BY <1>3
<1>a. s = CHOOSE g \in [1..Cardinality(S) -> S] : \A i, j \in DOMAIN g : g[i] = g[j] => i = j
  BY Zenon DEF SetToSeq, IsInjective
<1>5. s \in [1..Cardinality(S) -> S] /\ \A i, j \in DOMAIN s : s[i] = s[j] => i = j
  BY <1>4, <1>a, Zenon
<1>6. Range(s) \subseteq S BY <1>5 DEF Range
<1>7. Range(s) = S
  <2>1. s \in Injection(1..n, S) BY <1>2, <1>5 DEF Injection, IsInjective
  <2>2. IsFiniteSet(1..n) /\ Cardinality(1..n) = Cardinality(S) BY <1>2, FS_Interval
  <2>3. s \in Surjection(1..n, S) BY <2>1, <2>2, FS_Injection
  <2> QED BY <1>5, <1>2, <2>3 DEF Range, Surjection
<1>8. s \in Seq(Range(s))
  <2>1. s \in [1..n -> Range(s)] BY <1>5, <1>7, <1>2
  <2> QED BY <2>1
<1> QED BY <1>5, <1>7, <1>8 DEF IsList

\* The files whose rows become nodes by one loader each.
Loaders == {"stakeholders.csv", "decisions.csv", "engagement_events.csv",
            "enhanced_qualitative_signals.csv", "industry_benchmarks.csv"}

\* What becomes of the nodes, accounts or edges a loader has at its next row.
NodeTaken(f, ns, r) ==
  IF LeftOut(f, r) \/ \E i \in DOMAIN ns : Same(f, ns[i], r) THEN ns ELSE Append(ns, Made(f, r))
AccountTaken(as, r) ==
  IF Named(as, r.name) = {} THEN Append(as, Account(r)) ELSE [as EXCEPT ![Min(Named(as, r.name))] = Filled(@, r)]
ProfileTaken(as, r) ==
  IF Resolve(r) = None THEN as ELSE [as EXCEPT ![Resolve(r)].profile = r.profile @@ @]
EdgeKept(es, e) == IF e.by = EdgesBy THEN es ELSE Append(es, e)
EdgeTaken(nodes, es, r) ==
  IF Proper(RowEdges(nodes, r)) = {} THEN es ELSE Append(es, CHOOSE e \in Proper(RowEdges(nodes, r)) : TRUE)

\* The same by the name of the loader; edges are joined among the nodes c.
Stepped(f, c, x, r) ==
  IF f \in Loaders THEN NodeTaken(f, x, r)
  ELSE IF f = "accounts" THEN AccountTaken(x, r)
  ELSE IF f = "profiles" THEN ProfileTaken(x, r)
  ELSE IF f = "unlinked" THEN EdgeKept(x, r)
  ELSE EdgeTaken(c, x, r)

\* The last of the rows a fold is applied to is the greatest of their numbers.
LEMMA LastIsGreatest ==
  ASSUME NEW n \in Nat
  PROVE  /\ \A s \in SUBSET (1..n + 1) : n + 1 \in s => Max(s) = n + 1
         /\ \A k \in 1..n : Max(1..k) = k /\ (1..k) \ {k} = 1..k - 1
<1>1. ASSUME NEW s \in SUBSET (1..n + 1), n + 1 \in s PROVE Max(s) = n + 1
  <2>1. IsFiniteSet(1..n + 1) BY FS_Interval
  <2>2. IsFiniteSet(s) BY <2>1, FS_Subset
  <2>3. s \subseteq Int OBVIOUS
  <2>4. PICK m : m = Max(s) OBVIOUS
  <2>5. m \in s /\ m >= n + 1 BY <1>1, <2>2, <2>3, <2>4, MaxIs
  <2>6. m = n + 1 BY <2>5
  <2> QED BY <2>4, <2>6
<1>2. ASSUME NEW k \in 1..n PROVE Max(1..k) = k /\ (1..k) \ {k} = 1..k - 1
  <2>1. IsFiniteSet(1..k) /\ 1..k \subseteq Int /\ k \in 1..k BY FS_Interval
  <2>2. Max(1..k) \in 1..k /\ Max(1..k) >= k BY <2>1, MaxIs
  <2> QED BY <2>2
<1> QED BY <1>1, <1>2

\* What a fold computes, for every set of rows.
Table(h, f, c, x, rows, n) ==
  h = [s \in SUBSET (1..n) |-> IF s = {} THEN x ELSE Stepped(f, c, h[s \ {Max(s)}], rows[Max(s)])]

\* There is one, for any number of rows.
LEMMA TableExists ==
  ASSUME NEW f, NEW c, NEW x, NEW rows, NEW n \in Nat
  PROVE  \E h : Table(h, f, c, x, rows, n)
<1> USE DEF Table
<1> DEFINE Is(h, k) == Table(h, f, c, x, rows, k)
           Good == {k \in Nat : \E h : Is(h, k)}
<1>1. 0 \in Good
  <2>1. SUBSET (1..0) = {{}} OBVIOUS
  <2>2. Is([s \in {{}} |-> x], 0) BY <2>1
  <2> QED BY <2>2
<1>2. ASSUME NEW k \in Nat, k \in Good PROVE k + 1 \in Good
  <2>1. PICK h : Is(h, k) BY <1>2
  <2> DEFINE g == [s \in SUBSET (1..k + 1) |->
                     IF k + 1 \in s THEN Stepped(f, c, h[s \ {k + 1}], rows[k + 1]) ELSE h[s]]
  <2>2. ASSUME NEW s \in SUBSET (1..k + 1)
        PROVE  g[s] = IF s = {} THEN x ELSE Stepped(f, c, g[s \ {Max(s)}], rows[Max(s)])
    <3>1. CASE k + 1 \in s
      <4>1. Max(s) = k + 1 BY <3>1, LastIsGreatest
      <4>2. g[s \ {k + 1}] = h[s \ {k + 1}] OBVIOUS
      <4>3. g[s] = Stepped(f, c, h[s \ {k + 1}], rows[k + 1]) BY <3>1
      <4> HIDE DEF g
      <4> QED BY <3>1, <4>1, <4>2, <4>3
    <3>2. CASE k + 1 \notin s
      <4>1. s \in SUBSET (1..k) BY <3>2
      <4>3. g[s] = h[s] BY <3>2, <4>1
      <4>2. g[s \ {Max(s)}] = h[s \ {Max(s)}]
        <5> PICK m : m = Max(s) OBVIOUS
        <5>1. s \ {m} \in SUBSET (1..k) /\ k + 1 \notin s \ {m} BY <3>2, <4>1
        <5> QED BY <5>1
      <4>4. h[s] = IF s = {} THEN x ELSE Stepped(f, c, h[s \ {Max(s)}], rows[Max(s)]) BY <2>1, <4>1
      <4> HIDE DEF g
      <4> QED BY <4>2, <4>3, <4>4
    <3> QED BY <3>1, <3>2
  <2>3. DOMAIN g = SUBSET (1..k + 1) /\ g = [s \in SUBSET (1..k + 1) |-> g[s]] OBVIOUS
  <2> HIDE DEF g
  <2>4. Is(g, k + 1) BY <2>2, <2>3
  <2>5. \E j : Is(j, k + 1)
    <3> HIDE DEF Is
    <3> QED BY <2>4
  <2> HIDE DEF Is
  <2> QED BY <2>5
<1> HIDE DEF Good
<1>3. Nat \subseteq Good BY <1>1, <1>2, NatInductive
<1> QED BY <1>3 DEF Good

\* A fold, row by row: F[k] is what there is after k rows.
BySteps(F, f, c, x, rows) ==
  F[0] = x /\ \A k \in 1..Len(rows) : F[k] = Stepped(f, c, F[k - 1], rows[k])

\* The same, as FoldLeft is defined: over the sets of rows.
BySets(H, f, c, x, rows) ==
  \A s \in SUBSET DOMAIN rows : H[s] = IF s = {} THEN x ELSE Stepped(f, c, H[s \ {Max(s)}], rows[Max(s)])

\* A fold over the sets of rows is one row by row.
LEMMA StepsOfTable ==
  ASSUME NEW f, NEW c, NEW x, NEW rows, IsList(rows), NEW H, BySets(H, f, c, x, rows)
  PROVE  \E F : BySteps(F, f, c, x, rows) /\ H[DOMAIN rows] = F[Len(rows)]
<1> PICK n : n = Len(rows) OBVIOUS
<1>1. n \in Nat /\ DOMAIN rows = 1..n BY ListIs
<1>5. \A s \in SUBSET (1..n) : H[s] = IF s = {} THEN x ELSE Stepped(f, c, H[s \ {Max(s)}], rows[Max(s)])
  BY <1>1 DEF BySets
<1> DEFINE F == [k \in 0..n |-> H[1..k]]
<1>6. F[0] = x
  <2>1. 1..0 = {} OBVIOUS
  <2>2. H[{}] = x BY <1>5
  <2>3. F[0] = H[1..0] BY <1>1
  <2> QED BY <2>1, <2>2, <2>3
<1>7. ASSUME NEW k \in 1..n PROVE F[k] = Stepped(f, c, F[k - 1], rows[k])
  <2>1. Max(1..k) = k /\ (1..k) \ {k} = 1..k - 1 BY <1>1, LastIsGreatest
  <2>3. PICK s : s = 1..k OBVIOUS
  <2>4. s \in SUBSET (1..n) /\ s # {}
    <3>1. k \in Int /\ 1 <= k /\ k <= n /\ n \in Int BY <1>1, <1>7
    <3>2. 1 \in 1..k /\ 1..k \subseteq 1..n BY <3>1
    <3> QED BY <2>3, <3>2
  <2>5. H[s] = Stepped(f, c, H[s \ {Max(s)}], rows[Max(s)]) BY <1>5, <2>4
  <2>2. H[1..k] = Stepped(f, c, H[1..k - 1], rows[k]) BY <2>1, <2>3, <2>5
  <2> QED BY <1>1, <2>2
<1>8. H[DOMAIN rows] = F[n]
  <2>1. n \in 0..n BY <1>1
  <2> QED BY <1>1, <2>1
<1> HIDE DEF F
<1> QED BY <1>6, <1>7, <1>8 DEF BySteps

\* A loader of nodes takes over its rows one by one.
LEMMA ExtendedBySteps ==
  ASSUME NEW nodes, NEW f \in Loaders, NEW rows, IsList(rows)
  PROVE  \E F : BySteps(F, f, nodes, nodes, rows) /\ Extended(nodes, f, rows) = F[Len(rows)]
<1> DEFINE It(H) == H = [s \in SUBSET DOMAIN rows |->
                         IF s = {} THEN nodes
                         ELSE LET x == Max(s) ns == H[s \ {x}] r == rows[x] IN
                              IF LeftOut(f, r) \/ \E i \in DOMAIN ns : Same(f, ns[i], r) THEN ns
                              ELSE Append(ns, Made(f, r))]
           Its(H) == \A s \in SUBSET DOMAIN rows :
                        H[s] = IF s = {} THEN nodes ELSE NodeTaken(f, H[s \ {Max(s)}], rows[Max(s)])
<1>0. \A x, r : Stepped(f, nodes, x, r) = NodeTaken(f, x, r) BY DEF Stepped, Loaders
<1>1. Len(rows) \in Nat /\ DOMAIN rows = 1..Len(rows) BY ListIs
<1>2. \E G : It(G)
  <2>1. PICK h : Table(h, f, nodes, nodes, rows, Len(rows)) BY <1>1, TableExists
  <2>2. h = [s \in SUBSET DOMAIN rows |-> IF s = {} THEN nodes ELSE NodeTaken(f, h[s \ {Max(s)}], rows[Max(s)])]
    <3> HIDE DEF It, Its
    <3> QED BY <1>0, <1>1, <2>1 DEF Table
  <2>3. It(h) BY <2>2, Zenon DEF NodeTaken
  <2> QED BY <2>3
<1>3. \E H : It(H) /\ Extended(nodes, f, rows) = H[DOMAIN rows]
  BY <1>2, Zenon DEF Extended, FoldLeft, MapThenFoldSet
<1>4. PICK H : It(H) /\ Extended(nodes, f, rows) = H[DOMAIN rows] BY <1>3
<1>5. Its(H) BY <1>4, Zenon DEF NodeTaken
<1> HIDE DEF It
<1>6. ASSUME NEW s \in SUBSET DOMAIN rows
      PROVE  H[s] = IF s = {} THEN nodes ELSE Stepped(f, nodes, H[s \ {Max(s)}], rows[Max(s)])
  <2>1. H[s] = IF s = {} THEN nodes ELSE NodeTaken(f, H[s \ {Max(s)}], rows[Max(s)]) BY <1>5, Zenon
  <2>2. Stepped(f, nodes, H[s \ {Max(s)}], rows[Max(s)]) = NodeTaken(f, H[s \ {Max(s)}], rows[Max(s)])
    BY <1>0, Zenon
  <2> HIDE DEF Its
  <2> QED BY <2>1, <2>2
<1> HIDE DEF Its
<1>7. BySets(H, f, nodes, nodes, rows) BY <1>6, Zenon DEF BySets
<1>8. \E F : BySteps(F, f, nodes, nodes, rows) /\ H[DOMAIN rows] = F[Len(rows)]
  BY <1>7, StepsOfTable
<1> QED BY <1>4, <1>8

\* So does load_accounts.
LEMMA AccountsBySteps ==
  ASSUME NEW accounts, NEW rows, IsList(rows)
  PROVE  \E F : BySteps(F, "accounts", accounts, accounts, rows)
         /\ LoadedAccounts(accounts, rows) = F[Len(rows)]
<1> DEFINE It(H) == H = [s \in SUBSET DOMAIN rows |->
                         IF s = {} THEN accounts
                         ELSE LET x == Max(s) as == H[s \ {x}] r == rows[x] IN
                              IF Named(as, r.name) = {} THEN Append(as, Account(r))
                              ELSE [as EXCEPT ![Min(Named(as, r.name))] = Filled(@, r)]]
           Its(H) == \A s \in SUBSET DOMAIN rows :
                        H[s] = IF s = {} THEN accounts ELSE AccountTaken(H[s \ {Max(s)}], rows[Max(s)])
<1>0. \A x, r : Stepped("accounts", accounts, x, r) = AccountTaken(x, r) BY DEF Stepped, Loaders
<1>1. Len(rows) \in Nat /\ DOMAIN rows = 1..Len(rows) BY ListIs
<1>2. \E G : It(G)
  <2>1. PICK h : Table(h, "accounts", accounts, accounts, rows, Len(rows)) BY <1>1, TableExists
  <2>2. h = [s \in SUBSET DOMAIN rows |-> IF s = {} THEN accounts ELSE AccountTaken(h[s \ {Max(s)}], rows[Max(s)])]
    <3> HIDE DEF It, Its
    <3> QED BY <1>0, <1>1, <2>1 DEF Table
  <2>3. It(h) BY <2>2, Zenon DEF AccountTaken
  <2> QED BY <2>3
<1>3. \E H : It(H) /\ LoadedAccounts(accounts, rows) = H[DOMAIN rows]
  BY <1>2, Zenon DEF LoadedAccounts, FoldLeft, MapThenFoldSet
<1>4. PICK H : It(H) /\ LoadedAccounts(accounts, rows) = H[DOMAIN rows] BY <1>3
<1>5. Its(H) BY <1>4, Zenon DEF AccountTaken
<1> HIDE DEF It
<1>6. ASSUME NEW s \in SUBSET DOMAIN rows
      PROVE  H[s] = IF s = {} THEN accounts ELSE Stepped("accounts", accounts, H[s \ {Max(s)}], rows[Max(s)])
  <2>1. H[s] = IF s = {} THEN accounts ELSE AccountTaken(H[s \ {Max(s)}], rows[Max(s)]) BY <1>5, Zenon
  <2>2. Stepped("accounts", accounts, H[s \ {Max(s)}], rows[Max(s)]) = AccountTaken(H[s \ {Max(s)}], rows[Max(s)])
    BY <1>0, Zenon
  <2> HIDE DEF Its
  <2> QED BY <2>1, <2>2
<1> HIDE DEF Its
<1>7. BySets(H, "accounts", accounts, accounts, rows) BY <1>6, Zenon DEF BySets
<1>8. \E F : BySteps(F, "accounts", accounts, accounts, rows) /\ H[DOMAIN rows] = F[Len(rows)]
  BY <1>7, StepsOfTable
<1> QED BY <1>4, <1>8

\* So does load_business_profiles.
LEMMA ProfilesBySteps ==
  ASSUME NEW accounts, NEW rows, IsList(rows)
  PROVE  \E F : BySteps(F, "profiles", accounts, accounts, rows) /\ Profiled(accounts, rows) = F[Len(rows)]
<1> DEFINE It(H) == H = [s \in SUBSET DOMAIN rows |->
                         IF s = {} THEN accounts
                         ELSE LET x == Max(s) as == H[s \ {x}] r == rows[x] IN
                              IF Resolve(r) = None THEN as ELSE [as EXCEPT ![Resolve(r)].profile = r.profile @@ @]]
           Its(H) == \A s \in SUBSET DOMAIN rows :
                        H[s] = IF s = {} THEN accounts ELSE ProfileTaken(H[s \ {Max(s)}], rows[Max(s)])
<1>0. \A x, r : Stepped("profiles", accounts, x, r) = ProfileTaken(x, r) BY DEF Stepped, Loaders
<1>1. Len(rows) \in Nat /\ DOMAIN rows = 1..Len(rows) BY ListIs
<1>2. \E G : It(G)
  <2>1. PICK h : Table(h, "profiles", accounts, accounts, rows, Len(rows)) BY <1>1, TableExists
  <2>2. h = [s \in SUBSET DOMAIN rows |-> IF s = {} THEN accounts ELSE ProfileTaken(h[s \ {Max(s)}], rows[Max(s)])]
    <3> HIDE DEF It, Its
    <3> QED BY <1>0, <1>1, <2>1 DEF Table
  <2>3. It(h) BY <2>2, Zenon DEF ProfileTaken
  <2> QED BY <2>3
<1>3. \E H : It(H) /\ Profiled(accounts, rows) = H[DOMAIN rows]
  BY <1>2, Zenon DEF Profiled, FoldLeft, MapThenFoldSet
<1>4. PICK H : It(H) /\ Profiled(accounts, rows) = H[DOMAIN rows] BY <1>3
<1>5. Its(H) BY <1>4, Zenon DEF ProfileTaken
<1> HIDE DEF It
<1>6. ASSUME NEW s \in SUBSET DOMAIN rows
      PROVE  H[s] = IF s = {} THEN accounts ELSE Stepped("profiles", accounts, H[s \ {Max(s)}], rows[Max(s)])
  <2>1. H[s] = IF s = {} THEN accounts ELSE ProfileTaken(H[s \ {Max(s)}], rows[Max(s)]) BY <1>5, Zenon
  <2>2. Stepped("profiles", accounts, H[s \ {Max(s)}], rows[Max(s)]) = ProfileTaken(H[s \ {Max(s)}], rows[Max(s)])
    BY <1>0, Zenon
  <2> HIDE DEF Its
  <2> QED BY <2>1, <2>2
<1> HIDE DEF Its
<1>7. BySets(H, "profiles", accounts, accounts, rows) BY <1>6, Zenon DEF BySets
<1>8. \E F : BySteps(F, "profiles", accounts, accounts, rows) /\ H[DOMAIN rows] = F[Len(rows)]
  BY <1>7, StepsOfTable
<1> QED BY <1>4, <1>8

\* The edges are looked at one by one.
LEMMA UnlinkedBySteps ==
  ASSUME NEW edges, IsList(edges)
  PROVE  \E F : BySteps(F, "unlinked", edges, <<>>, edges) /\ Unlinked(edges) = F[Len(edges)]
<1> DEFINE It(H) == H = [s \in SUBSET DOMAIN edges |->
                         IF s = {} THEN <<>>
                         ELSE LET x == Max(s) es == H[s \ {x}] e == edges[x] IN
                              IF e.by = EdgesBy THEN es ELSE Append(es, e)]
           Its(H) == \A s \in SUBSET DOMAIN edges :
                        H[s] = IF s = {} THEN <<>> ELSE EdgeKept(H[s \ {Max(s)}], edges[Max(s)])
<1>0. \A x, r : Stepped("unlinked", edges, x, r) = EdgeKept(x, r) BY DEF Stepped, Loaders
<1>1. Len(edges) \in Nat /\ DOMAIN edges = 1..Len(edges) BY ListIs
<1>2. \E G : It(G)
  <2>1. PICK h : Table(h, "unlinked", edges, <<>>, edges, Len(edges)) BY <1>1, TableExists
  <2>2. h = [s \in SUBSET DOMAIN edges |-> IF s = {} THEN <<>> ELSE EdgeKept(h[s \ {Max(s)}], edges[Max(s)])]
    <3> HIDE DEF It, Its
    <3> QED BY <1>0, <1>1, <2>1 DEF Table
  <2>3. It(h) BY <2>2, Zenon DEF EdgeKept
  <2> QED BY <2>3
<1>3. \E H : It(H) /\ Unlinked(edges) = H[DOMAIN edges]
  BY <1>2, Zenon DEF Unlinked, FoldLeft, MapThenFoldSet
<1>4. PICK H : It(H) /\ Unlinked(edges) = H[DOMAIN edges] BY <1>3
<1>5. Its(H) BY <1>4, Zenon DEF EdgeKept
<1> HIDE DEF It
<1>6. ASSUME NEW s \in SUBSET DOMAIN edges
      PROVE  H[s] = IF s = {} THEN <<>> ELSE Stepped("unlinked", edges, H[s \ {Max(s)}], edges[Max(s)])
  <2>1. H[s] = IF s = {} THEN <<>> ELSE EdgeKept(H[s \ {Max(s)}], edges[Max(s)]) BY <1>5, Zenon
  <2>2. Stepped("unlinked", edges, H[s \ {Max(s)}], edges[Max(s)]) = EdgeKept(H[s \ {Max(s)}], edges[Max(s)])
    BY <1>0, Zenon
  <2> HIDE DEF Its
  <2> QED BY <2>1, <2>2
<1> HIDE DEF Its
<1>7. BySets(H, "unlinked", edges, <<>>, edges) BY <1>6, Zenon DEF BySets
<1>8. \E F : BySteps(F, "unlinked", edges, <<>>, edges) /\ H[DOMAIN edges] = F[Len(edges)]
  BY <1>7, StepsOfTable
<1> QED BY <1>4, <1>8

\* The rows of the edges file are taken over one by one.
LEMMA JoinedBySteps ==
  ASSUME NEW nodes, NEW edges, NEW rows, IsList(rows)
  PROVE  \E F : BySteps(F, "joined", nodes, edges, rows) /\ Joined(nodes, edges, rows) = F[Len(rows)]
<1> DEFINE It(H) == H = [s \in SUBSET DOMAIN rows |->
                         IF s = {} THEN edges
                         ELSE LET x == Max(s) es == H[s \ {x}] r == rows[x] IN
                              IF Proper(RowEdges(nodes, r)) = {} THEN es
                              ELSE Append(es, CHOOSE e \in Proper(RowEdges(nodes, r)) : TRUE)]
           Its(H) == \A s \in SUBSET DOMAIN rows :
                        H[s] = IF s = {} THEN edges ELSE EdgeTaken(nodes, H[s \ {Max(s)}], rows[Max(s)])
<1>0. \A x, r : Stepped("joined", nodes, x, r) = EdgeTaken(nodes, x, r) BY DEF Stepped, Loaders
<1>1. Len(rows) \in Nat /\ DOMAIN rows = 1..Len(rows) BY ListIs
<1>2. \E G : It(G)
  <2>1. PICK h : Table(h, "joined", nodes, edges, rows, Len(rows)) BY <1>1, TableExists
  <2>2. h = [s \in SUBSET DOMAIN rows |-> IF s = {} THEN edges ELSE EdgeTaken(nodes, h[s \ {Max(s)}], rows[Max(s)])]
    <3> HIDE DEF It, Its
    <3> QED BY <1>0, <1>1, <2>1 DEF Table
  <2>3. It(h) BY <2>2, Zenon DEF EdgeTaken
  <2> QED BY <2>3
<1>3. \E H : It(H) /\ Joined(nodes, edges, rows) = H[DOMAIN rows]
  BY <1>2, Zenon DEF Joined, FoldLeft, MapThenFoldSet
<1>4. PICK H : It(H) /\ Joined(nodes, edges, rows) = H[DOMAIN rows] BY <1>3
<1>5. Its(H) BY <1>4, Zenon DEF EdgeTaken
<1> HIDE DEF It
<1>6. ASSUME NEW s \in SUBSET DOMAIN rows
      PROVE  H[s] = IF s = {} THEN edges ELSE Stepped("joined", nodes, H[s \ {Max(s)}], rows[Max(s)])
  <2>1. H[s] = IF s = {} THEN edges ELSE EdgeTaken(nodes, H[s \ {Max(s)}], rows[Max(s)]) BY <1>5, Zenon
  <2>2. Stepped("joined", nodes, H[s \ {Max(s)}], rows[Max(s)]) = EdgeTaken(nodes, H[s \ {Max(s)}], rows[Max(s)])
    BY <1>0, Zenon
  <2> HIDE DEF Its
  <2> QED BY <2>1, <2>2
<1> HIDE DEF Its
<1>7. BySets(H, "joined", nodes, edges, rows) BY <1>6, Zenon DEF BySets
<1>8. \E F : BySteps(F, "joined", nodes, edges, rows) /\ H[DOMAIN rows] = F[Len(rows)]
  BY <1>7, StepsOfTable
<1> QED BY <1>4, <1>8

\* The nodes once the first k rows were taken: what was there comes first, what was added
\* stands for a row no earlier node stood for, and each row has a node or is left out.
Grown(nodes, ns, f, rows, k) ==
  /\ IsList(ns) /\ Len(nodes) <= Len(ns)
  /\ \A i \in 1..Len(nodes) : ns[i] = nodes[i]
  /\ \A i \in Len(nodes) + 1..Len(ns) : \E x \in DOMAIN rows :
       /\ ~LeftOut(f, rows[x]) /\ ns[i] = Made(f, rows[x])
       /\ \A j \in 1..i - 1 : ~Same(f, ns[j], rows[x])
  /\ \A x \in 1..k : \/ LeftOut(f, rows[x])
                     \/ \E i \in 1..Len(ns) : Same(f, ns[i], rows[x]) \/ ns[i] = Made(f, rows[x])

\* Taking over one row more keeps this.
LEMMA GrownStep ==
  ASSUME NEW nodes, IsList(nodes), NEW ns, NEW f, NEW rows, IsList(rows), NEW k \in 1..Len(rows),
         Grown(nodes, ns, f, rows, k - 1)
  PROVE  Grown(nodes, NodeTaken(f, ns, rows[k]), f, rows, k)
<1>1. /\ Len(nodes) \in Nat /\ Len(rows) \in Nat /\ DOMAIN rows = 1..Len(rows)
      /\ Len(ns) \in Nat /\ DOMAIN ns = 1..Len(ns) /\ k \in Int /\ k >= 1
      /\ IsList(ns)
  BY ListIs DEF Grown
<1>2. CASE LeftOut(f, rows[k]) \/ \E i \in DOMAIN ns : Same(f, ns[i], rows[k])
  <2>1. NodeTaken(f, ns, rows[k]) = ns BY <1>2 DEF NodeTaken
  <2>2. \A x \in 1..k : x \in 1..k - 1 \/ x = k BY <1>1
  <2>3. \A x \in 1..k : \/ LeftOut(f, rows[x])
                     \/ \E i \in 1..Len(ns) : Same(f, ns[i], rows[x]) \/ ns[i] = Made(f, rows[x])
    BY <1>1, <1>2, <2>2 DEF Grown
  <2> QED BY <2>1, <2>3 DEF Grown
<1>3. CASE ~(LeftOut(f, rows[k]) \/ \E i \in DOMAIN ns : Same(f, ns[i], rows[k]))
  <2>1. PICK new : new = Append(ns, Made(f, rows[k])) OBVIOUS
  <2>2. NodeTaken(f, ns, rows[k]) = new BY <1>3, <2>1 DEF NodeTaken
  <2>3. /\ IsList(new) /\ Len(new) = Len(ns) + 1
        /\ \A i \in 1..Len(ns) : new[i] = ns[i]
        /\ new[Len(ns) + 1] = Made(f, rows[k])
    <3>1. IsList(ns) BY <1>1
    <3> PICK m : m = Made(f, rows[k]) OBVIOUS
    <3>2. new = Append(ns, m) BY <2>1
    <3> HIDE <2>1
    <3>3. IsList(new) BY <3>1, <3>2, ListAppended
    <3>4. Len(new) = Len(ns) + 1 BY <3>1, <3>2, ListAppended
    <3>5. \A i \in 1..Len(ns) : new[i] = ns[i] BY <3>1, <3>2, ListAppended
    <3>6. new[Len(ns) + 1] = m BY <3>1, <3>2, ListAppended
    <3> QED BY <3>3, <3>4, <3>5, <3>6
  <2>4. \A i \in 1..Len(nodes) : new[i] = nodes[i] BY <1>1, <2>3 DEF Grown
  <2>5. ASSUME NEW i \in Len(nodes) + 1..Len(new)
        PROVE  \E x \in DOMAIN rows : /\ ~LeftOut(f, rows[x]) /\ new[i] = Made(f, rows[x])
                                      /\ \A j \in 1..i - 1 : ~Same(f, new[j], rows[x])
    <3>1. CASE i = Len(ns) + 1
      <4>1. \A j \in 1..i - 1 : ~Same(f, new[j], rows[k]) BY <1>1, <1>3, <2>3, <3>1
      <4> QED BY <1>1, <1>3, <2>3, <3>1, <4>1
    <3>2. CASE i # Len(ns) + 1
      <4>1. i \in Len(nodes) + 1..Len(ns) BY <1>1, <2>3, <3>2
      <4>2. PICK x \in DOMAIN rows : /\ ~LeftOut(f, rows[x]) /\ ns[i] = Made(f, rows[x])
                                     /\ \A j \in 1..i - 1 : ~Same(f, ns[j], rows[x])
        BY <4>1 DEF Grown
      <4>3. new[i] = ns[i] /\ \A j \in 1..i - 1 : new[j] = ns[j] BY <1>1, <2>3, <4>1
      <4>4. \A j \in 1..i - 1 : ~Same(f, new[j], rows[x]) BY <4>2, <4>3
      <4> QED BY <4>2, <4>3, <4>4
    <3> QED BY <3>1, <3>2
  <2>6. ASSUME NEW x \in 1..k
        PROVE  \/ LeftOut(f, rows[x])
               \/ \E i \in 1..Len(new) : Same(f, new[i], rows[x]) \/ new[i] = Made(f, rows[x])
    <3>1. CASE x = k
      <4>1. Len(ns) + 1 \in 1..Len(new) BY <1>1, <2>3
      <4> QED BY <2>3, <3>1, <4>1
    <3>2. CASE x # k
      <4>1. x \in 1..k - 1 BY <1>1, <3>2
      <4>2. ASSUME NEW i \in 1..Len(ns), Same(f, ns[i], rows[x]) \/ ns[i] = Made(f, rows[x])
            PROVE  \E j \in 1..Len(new) : Same(f, new[j], rows[x]) \/ new[j] = Made(f, rows[x])
        <5>1. i \in 1..Len(new) /\ new[i] = ns[i] BY <1>1, <2>3
        <5> QED BY <4>2, <5>1
      <4> QED BY <4>1, <4>2 DEF Grown
    <3> QED BY <3>1, <3>2
  <2> QED BY <1>1, <2>2, <2>3, <2>4, <2>5, <2>6 DEF Grown
<1> QED BY <1>2, <1>3

\* So it holds of the whole file.
LEMMA ExtendedIs ==
  ASSUME NEW nodes, IsList(nodes), NEW f \in Loaders, NEW rows, IsList(rows)
  PROVE  Grown(nodes, Extended(nodes, f, rows), f, rows, Len(rows))
<1>1. PICK n : n = Len(rows) OBVIOUS
<1>2. PICK F : BySteps(F, f, nodes, nodes, rows) /\ Extended(nodes, f, rows) = F[n] BY <1>1, ExtendedBySteps
<1> DEFINE Good == {k \in Nat : k <= n => Grown(nodes, F[k], f, rows, k)}
<1>3. n \in Nat /\ Len(nodes) \in Nat BY <1>1, ListIs
<1>4. 0 \in Good
  <2>1. Grown(nodes, nodes, f, rows, 0) BY <1>3 DEF Grown
  <2> QED BY <1>2, <2>1 DEF BySteps
<1>5. ASSUME NEW k \in Nat, k \in Good PROVE k + 1 \in Good
  <2> SUFFICES ASSUME k + 1 <= n PROVE Grown(nodes, F[k + 1], f, rows, k + 1)
    OBVIOUS
  <2>1. Grown(nodes, F[k], f, rows, k) BY <1>3, <1>5
  <2>2. k + 1 \in 1..n /\ (k + 1) - 1 = k BY <1>3
  <2>3. F[k + 1] = NodeTaken(f, F[k], rows[k + 1]) BY <1>1, <1>2, <2>2 DEF BySteps, Stepped
  <2> PICK m : m = k + 1 OBVIOUS
  <2>4. m \in 1..Len(rows) /\ Grown(nodes, F[k], f, rows, m - 1) BY <1>1, <2>1, <2>2
  <2>5. Grown(nodes, NodeTaken(f, F[k], rows[m]), f, rows, m) BY <2>4, GrownStep
  <2> QED BY <2>3, <2>5
<1> HIDE DEF Good
<1>6. Nat \subseteq Good BY <1>4, <1>5, NatInductive
<1>7. Grown(nodes, F[n], f, rows, n) BY <1>3, <1>6 DEF Good
<1> QED BY <1>1, <1>2, <1>7

\* A row names an account of its tenant or none.
LEMMA AccountFound ==
  ASSUME NEW accounts, IsList(accounts), NEW rows, NEW r, AccountOf(accounts, rows, r) # None
  PROVE  /\ AccountOf(accounts, rows, r) \in DOMAIN accounts
         /\ r.name # None \/ r.src # None
<1> DEFINE named == IF r.name = None THEN {} ELSE Named(accounts, r.name)
           sourced == IF r.src = None THEN {} ELSE Sourced(accounts, rows, r.src)
<1>1. Len(accounts) \in Nat /\ DOMAIN accounts = 1..Len(accounts) BY ListIs
<1>2. IsFiniteSet(DOMAIN accounts) BY <1>1, FS_Interval
<1>3. named \subseteq DOMAIN accounts BY DEF Named
<1>4. sourced \subseteq DOMAIN accounts
  <2>1. ASSUME NEW src PROVE Sourced(accounts, rows, src) \subseteq DOMAIN accounts
    <3> DEFINE stored == {a \in DOMAIN accounts : accounts[a].src = src}
               filed == {a \in DOMAIN accounts : \E i \in DOMAIN rows :
                           rows[i].name = accounts[a].name /\ rows[i].src = src}
    <3>1. Sourced(accounts, rows, src) = IF stored # {} THEN {Max(stored)} ELSE filed BY DEF Sourced
    <3>2. stored \subseteq DOMAIN accounts /\ filed \subseteq DOMAIN accounts OBVIOUS
    <3> HIDE DEF stored, filed
    <3>3. stored # {} => Max(stored) \in stored
      <4>1. IsFiniteSet(stored) /\ stored \subseteq Int BY <1>1, <1>2, <3>2, FS_Subset
      <4> QED BY <4>1, MaxIs
    <3> QED BY <3>1, <3>2, <3>3
  <2> QED BY <2>1
<1>5. /\ AccountOf(accounts, rows, r) =
           CASE named # {} -> Min(named)
             [] named = {} /\ sourced # {} -> Min(sourced)
             [] named = {} /\ sourced = {} /\ Unsourced(accounts, rows) /\ r.src \in 1001..1000 + Len(accounts) ->
                  r.src - 1000
             [] named = {} /\ sourced = {} /\ r.src \in DOMAIN accounts -> r.src
             [] OTHER -> None
  BY DEF AccountOf
<1>6. named # {} => r.name # None OBVIOUS
<1>7. sourced # {} => r.src # None OBVIOUS
<1>8. None \notin Int BY UploadAssumption
<1> HIDE DEF named, sourced
<1>9. /\ named # {} => Min(named) \in named
      /\ sourced # {} => Min(sourced) \in sourced
  <2>1. IsFiniteSet(named) /\ named \subseteq Int /\ IsFiniteSet(sourced) /\ sourced \subseteq Int
    BY <1>1, <1>2, <1>3, <1>4, FS_Subset
  <2> QED BY <2>1, MinIs
<1>10. CASE named # {} BY <1>3, <1>5, <1>6, <1>9, <1>10
<1>11. CASE named = {} /\ sourced # {} BY <1>4, <1>5, <1>7, <1>9, <1>11
<1>12. CASE named = {} /\ sourced = {} /\ r.src \in 1001..1000 + Len(accounts) /\ Unsourced(accounts, rows)
  <2>1. r.src - 1000 \in DOMAIN accounts /\ r.src # None BY <1>1, <1>8, <1>12
  <2>2. AccountOf(accounts, rows, r) = r.src - 1000
        \/ (r.src \in DOMAIN accounts /\ AccountOf(accounts, rows, r) = r.src) BY <1>5, <1>12
  <2> QED BY <2>1, <2>2
<1>13. CASE named = {} /\ sourced = {} /\ r.src \in DOMAIN accounts
            /\ ~(r.src \in 1001..1000 + Len(accounts) /\ Unsourced(accounts, rows))
  <2>1. AccountOf(accounts, rows, r) = r.src BY <1>5, <1>13
  <2> QED BY <1>1, <1>8, <1>13, <2>1
<1> QED BY <1>5, <1>10, <1>11, <1>12, <1>13

\* The same of the accounts the run under way sees.
LEMMA ResolvedIn ==
  ASSUME IsList(txn.accounts), NEW r, Resolve(r) # None
  PROVE  Resolve(r) \in DOMAIN txn.accounts /\ (r.name # None \/ r.src # None)
BY AccountFound DEF Resolve

\* A node made for a row is of an account of the tenant.
LEMMA MadeHasAccount ==
  ASSUME IsList(txn.accounts), txn.accounts # <<>>, NEW f \in Loaders, NEW r, ~LeftOut(f, r)
  PROVE  Made(f, r).acct \in DOMAIN txn.accounts
<1>1. 1 \in DOMAIN txn.accounts
  <2> PICK s : s = txn.accounts OBVIOUS
  <2>1. s \in Seq(Range(s)) /\ s # <<>> BY DEF IsList
  <2>2. 1 \in DOMAIN s BY <2>1
  <2> QED BY <2>2
<1>2. CASE f = "industry_benchmarks.csv" BY <1>1, <1>2 DEF Made, Benchmark, N
<1>3. CASE f # "industry_benchmarks.csv"
  <2>1. Resolve(r) \in DOMAIN txn.accounts BY <1>3, ResolvedIn DEF LeftOut
  <2>2. Made(f, r).acct = Resolve(r)
    BY <1>3 DEF Made, Loaders, Stakeholder, FiledDecision, Engagement, Signal, N
  <2> QED BY <2>1, <2>2
<1> QED BY <1>2, <1>3

\* What it is.
LEMMA MadeIsPlain ==
  ASSUME NEW f \in Loaders, NEW r, f = "decisions.csv" => r \in Uploaded("decisions.csv")
  PROVE  Plain(Made(f, r))
<1>1. CASE f = "decisions.csv"
  <2>1. Made(f, r) = N(Resolve(r), "DECISION", None, r.title, DecisionId(r), None, On(r), None)
    BY <1>1 DEF Made, FiledDecision
  <2>2. ASSUME NEW s \in Uploaded("decisions.csv")
        PROVE  /\ s.id # None => r.title # DecisionId(s)
               /\ DecisionId(r) # None => DecisionId(r) # s.title
    <3>1. s.id # None => r.title # DecisionId(s) BY <1>1, UploadAssumption
    <3>2. r.id # None => s.title # DecisionId(r) BY <1>1, UploadAssumption
    <3>3. r.id = None => DecisionId(r) = None BY DEF DecisionId
    <3> QED BY <3>1, <3>2, <3>3
  <2> HIDE <1>1
  <2>3. PICK m : m = Made(f, r) OBVIOUS
  <2>4. m.kind = "DECISION" /\ m.title = r.title /\ m.key = DecisionId(r) BY <2>1, <2>3 DEF N
  <2>5. Plain(m) BY <2>2, <2>4 DEF Plain
  <2> QED BY <2>3, <2>5
<1>2. CASE f # "decisions.csv"
  <2>1. PICK m : m = Made(f, r) OBVIOUS
  <2>2. m.kind # "DECISION" BY <1>2, <2>1 DEF Made, Loaders, Stakeholder, Engagement, Signal, Benchmark, N
  <2>3. m.sub = "engagement" /\ m.kind = "SIGNAL" => m.key = None
    BY <1>2, <2>1 DEF Made, Loaders, Stakeholder, Engagement, Signal, Benchmark, N
  <2> QED BY <2>1, <2>2, <2>3 DEF Plain
<1> QED BY <1>1, <1>2

\* A node that would be a twin of what is made for a row stands for the row already.
LEMMA TwinStands ==
  ASSUME NEW f \in Loaders, NEW r, f = "decisions.csv" => r \in Uploaded("decisions.csv"),
         NEW n, Plain(n), Twice(n, Made(f, r)) \/ Twice(Made(f, r), n)
  PROVE  Same(f, n, r)
<1> PICK m : m = Made(f, r) OBVIOUS
<1>0. Twice(n, m) \/ Twice(m, n) OBVIOUS
<1>1. CASE f = "stakeholders.csv"
  <2>1. m.kind = "STAKEHOLDER" /\ m.acct = Resolve(r) /\ m.title = r.who BY <1>1 DEF Made, Stakeholder, N
  <2>2. n.kind = m.kind /\ n.acct = m.acct /\ n.title = m.title BY <1>0, <2>1 DEF Twice
  <2> QED BY <1>1, <2>1, <2>2 DEF Same, SameStakeholder
<1>2. CASE f = "decisions.csv"
  <2>1. m.kind = "DECISION" /\ m.acct = Resolve(r) /\ m.title = r.title /\ m.key = DecisionId(r)
    BY <1>2 DEF Made, FiledDecision, N
  <2>2. /\ n.kind = m.kind /\ n.acct = m.acct /\ n.key = m.key
        /\ m.key = None => n.title = m.title BY <1>0, <2>1 DEF Twice
  <2>3. r.id # None => DecisionId(r) # None BY <1>2, UploadAssumption
  <2>4. r.id = None => DecisionId(r) = None BY DEF DecisionId
  <2>5. SameDecision(n, r) BY <2>1, <2>2, <2>3, <2>4 DEF SameDecision
  <2> QED BY <1>2, <2>5 DEF Same
<1>3. CASE f = "engagement_events.csv"
  <2>1. /\ m.kind = "SIGNAL" /\ m.sub = "engagement" /\ m.acct = Resolve(r) /\ m.title = r.title
        /\ m.key = None /\ m.day = On(r)
    BY <1>3 DEF Made, Engagement, N
  <2>2. n.kind = m.kind /\ n.acct = m.acct /\ n.sub = "engagement" /\ n.title = m.title /\ n.day = m.day
    <3>1. CASE Twice(m, n) BY <2>1, <3>1 DEF Twice
    <3>2. CASE Twice(n, m)
      <4>1. n.kind = "SIGNAL" /\ n.acct = m.acct BY <2>1, <3>2 DEF Twice
      <4>2. CASE n.sub = "engagement" BY <2>1, <3>2, <4>1, <4>2 DEF Twice
      <4>3. CASE n.sub # "engagement"
        <5>1. n.key # None /\ n.key = m.key BY <2>1, <3>2, <4>1, <4>3 DEF Twice
        <5> QED BY <2>1, <5>1
      <4> QED BY <4>2, <4>3
    <3> QED BY <1>0, <3>1, <3>2
  <2>3. SameEvent(n, r) BY <2>1, <2>2 DEF SameEvent
  <2> QED BY <1>3, <2>3 DEF Same
<1>4. CASE f = "enhanced_qualitative_signals.csv"
  <2>1. m.kind = "SIGNAL" /\ m.sub = "signal" /\ m.acct = Resolve(r) /\ m.key = SignalId(r)
    BY <1>4 DEF Made, Signal, N
  <2>2. n.kind = "SIGNAL" /\ n.sub # "engagement" /\ n.key = m.key /\ n.key # None
    <3>1. CASE Twice(m, n)
      <4>1. n.kind = "SIGNAL" /\ m.key # None /\ n.key = m.key BY <2>1, <3>1 DEF Twice
      <4>2. n.sub # "engagement" BY <4>1 DEF Plain
      <4> QED BY <4>1, <4>2
    <3>2. CASE Twice(n, m)
      <4>1. n.kind = "SIGNAL" BY <2>1, <3>2 DEF Twice
      <4>2. n.sub # "engagement"
        <5> SUFFICES ASSUME n.sub = "engagement" PROVE FALSE OBVIOUS
        <5>1. n.sub = m.sub BY <2>1, <3>2, <4>1 DEF Twice
        <5> QED BY <2>1, <5>1
      <4>3. n.key # None /\ n.key = m.key BY <2>1, <3>2, <4>1, <4>2 DEF Twice
      <4> QED BY <4>1, <4>2, <4>3
    <3> QED BY <1>0, <3>1, <3>2
  <2>3. SameSignal(n, r) BY <2>1, <2>2 DEF SameSignal
  <2> QED BY <1>4, <2>3 DEF Same
<1>5. CASE f = "industry_benchmarks.csv"
  <2>1. m.kind = "EXTERNAL_CONTEXT" /\ m.key = <<"bench", r.kpi>> BY <1>5 DEF Made, Benchmark, N
  <2>2. n.kind = m.kind /\ n.key = m.key BY <1>0, <2>1 DEF Twice
  <2>3. SameBenchmark(n, r) BY <2>1, <2>2 DEF SameBenchmark
  <2> QED BY <1>5, <2>3 DEF Same
<1> QED BY <1>1, <1>2, <1>3, <1>4, <1>5 DEF Loaders

\* Nodes as Tables has them, of accounts A.
SoundNodes(ns, A) ==
  /\ IsList(ns)
  /\ \A i \in 1..Len(ns) : Plain(ns[i]) /\ ns[i].acct \in A
  /\ \A i, j \in 1..Len(ns) : Twice(ns[i], ns[j]) => i = j

\* Nodes follow others: those are still there, where they were.
Follow(new, old) == Len(old) <= Len(new) /\ \A i \in 1..Len(old) : new[i] = old[i]

\* Rows of a file.
Filed(f, rows) == IsList(rows) /\ (f = "decisions.csv" => Range(rows) \subseteq Uploaded("decisions.csv"))

\* Loading a file of nodes makes no twin and moves no node: nothing twice, whatever was there.
LEMMA ExtendedNodes ==
  ASSUME NEW nodes, SoundNodes(nodes, DOMAIN txn.accounts), NEW f \in Loaders, NEW rows, Filed(f, rows),
         IsList(txn.accounts), txn.accounts # <<>> \/ f # "industry_benchmarks.csv"
  PROVE  SoundNodes(Extended(nodes, f, rows), DOMAIN txn.accounts) /\ Follow(Extended(nodes, f, rows), nodes)
<1> PICK new : new = Extended(nodes, f, rows) OBVIOUS
<1>1. Grown(nodes, new, f, rows, Len(rows)) BY ExtendedIs DEF SoundNodes, Filed
<1>2. /\ IsList(new) /\ Len(nodes) <= Len(new) /\ Len(nodes) \in Nat /\ Len(new) \in Nat
      /\ \A i \in 1..Len(nodes) : new[i] = nodes[i]
  BY <1>1, ListIs DEF Grown, SoundNodes
<1>3. ASSUME NEW i \in Len(nodes) + 1..Len(new)
      PROVE  /\ Plain(new[i]) /\ new[i].acct \in DOMAIN txn.accounts
             /\ \A j \in 1..i - 1 : Plain(new[j]) => ~Twice(new[i], new[j]) /\ ~Twice(new[j], new[i])
  <2>1. PICK x \in DOMAIN rows : /\ ~LeftOut(f, rows[x]) /\ new[i] = Made(f, rows[x])
                                 /\ \A j \in 1..i - 1 : ~Same(f, new[j], rows[x])
    BY <1>1 DEF Grown
  <2> PICK r : r = rows[x] OBVIOUS
  <2>2. f = "decisions.csv" => r \in Uploaded("decisions.csv") BY DEF Filed, Range
  <2>3. Plain(Made(f, r)) BY <2>2, MadeIsPlain
  <2>4. Made(f, r).acct \in DOMAIN txn.accounts
    <3>1. CASE txn.accounts # <<>> BY <2>1, <3>1, MadeHasAccount
    <3>2. CASE f # "industry_benchmarks.csv"
      <4>1. Resolve(r) \in DOMAIN txn.accounts BY <2>1, <3>2, ResolvedIn DEF LeftOut
      <4>2. Made(f, r).acct = Resolve(r)
        BY <3>2 DEF Made, Loaders, Stakeholder, FiledDecision, Engagement, Signal, N
      <4> QED BY <4>1, <4>2
    <3> QED BY <3>1, <3>2
  <2>5. \A j \in 1..i - 1 : Plain(new[j]) => ~Twice(Made(f, r), new[j]) /\ ~Twice(new[j], Made(f, r))
    BY <2>1, <2>2, TwinStands
  <2> QED BY <2>1, <2>3, <2>4, <2>5
<1>4. ASSUME NEW i \in 1..Len(new) PROVE Plain(new[i]) /\ new[i].acct \in DOMAIN txn.accounts
  <2>1. CASE i \in 1..Len(nodes) BY <1>2, <2>1 DEF SoundNodes
  <2>2. CASE i \notin 1..Len(nodes)
    <3>1. i \in Len(nodes) + 1..Len(new) BY <1>2, <2>2
    <3> QED BY <1>3, <3>1
  <2> QED BY <2>1, <2>2
<1>5. ASSUME NEW i \in 1..Len(new), NEW j \in 1..Len(new), j < i
      PROVE  ~Twice(new[i], new[j]) /\ ~Twice(new[j], new[i])
  <2>1. CASE i \in 1..Len(nodes)
    <3>1. j \in 1..Len(nodes) /\ i # j BY <1>2, <1>5, <2>1
    <3>2. new[i] = nodes[i] /\ new[j] = nodes[j] BY <1>2, <2>1, <3>1
    <3> QED BY <2>1, <3>1, <3>2 DEF SoundNodes
  <2>2. CASE i \notin 1..Len(nodes)
    <3>1. i \in Len(nodes) + 1..Len(new) /\ j \in 1..i - 1 BY <1>2, <1>5, <2>2
    <3>2. Plain(new[j]) BY <1>4
    <3> QED BY <1>3, <3>1, <3>2
  <2> QED BY <2>1, <2>2
<1>6. ASSUME NEW i \in 1..Len(new), NEW j \in 1..Len(new), Twice(new[i], new[j]) PROVE i = j
  <2>1. ~(j < i) /\ ~(i < j) BY <1>5, <1>6
  <2> QED BY <1>2, <2>1
<1> QED BY <1>2, <1>4, <1>6 DEF SoundNodes, Follow

\* A list with one item replaced.
LEMMA ListReplaced ==
  ASSUME NEW s, IsList(s), NEW i \in DOMAIN s, NEW x, NEW t, t = [s EXCEPT ![i] = x]
  PROVE  /\ IsList(t) /\ Len(t) = Len(s)
         /\ t[i] = x /\ \A j \in DOMAIN s : j # i => t[j] = s[j]
<1>1. s \in Seq(Range(s) \cup {x})
  <2> DEFINE A == Range(s) B == Range(s) \cup {x}
  <2>1. s \in Seq(A) /\ A \subseteq B BY DEF IsList
  <2> HIDE DEF A, B
  <2> QED BY <2>1, SeqMonotonic DEF A, B
<1> PICK B : B = Range(s) \cup {x} OBVIOUS
<1>2. s \in Seq(B) /\ x \in B BY <1>1
<1>3. t \in Seq(B) /\ Len(t) = Len(s) BY <1>2
<1>4. IsList(t) BY <1>3, ListIn
<1>5. t[i] = x /\ \A j \in DOMAIN s : j # i => t[j] = s[j] OBVIOUS
<1> QED BY <1>3, <1>4, <1>5

\* Accounts as Tables has them.
SoundAccounts(old) ==
  /\ IsList(old)
  /\ \A a \in 1..Len(old) : /\ old[a] = Account(old[a])
                           /\ \E r \in AccountsGiven : r.name = old[a].name /\ r.src = old[a].src
  /\ \A a, b \in 1..Len(old) : old[a].name = old[b].name => a = b

\* load_accounts at one row: no name twice, none lost.
LEMMA AccountTakenIs ==
  ASSUME NEW old, SoundAccounts(old), NEW r \in AccountsGiven
  PROVE  SoundAccounts(AccountTaken(old, r)) /\ Len(old) <= Len(AccountTaken(old, r))
<1> PICK new : new = AccountTaken(old, r) OBVIOUS
<1>1. IsList(old) /\ Len(old) \in Nat /\ DOMAIN old = 1..Len(old) BY ListIs DEF SoundAccounts
<1>2. CASE Named(old, r.name) = {}
  <2> PICK x : x = Account(r) OBVIOUS
  <2>1. new = Append(old, x) BY <1>2 DEF AccountTaken
  <2>2. IsList(new) BY <1>1, <2>1, ListAppended
  <2>3. Len(new) = Len(old) + 1 BY <1>1, <2>1, ListAppended
  <2>4. \A a \in 1..Len(old) : new[a] = old[a] BY <1>1, <2>1, ListAppended
  <2>5. new[Len(old) + 1] = x BY <1>1, <2>1, ListAppended
  <2>6. x = Account(x) /\ x.name = r.name /\ x.src = r.src BY DEF Account
  <2>7. \A a \in 1..Len(old) : old[a].name # r.name BY <1>1, <1>2 DEF Named
  <2> PICK n : n = Len(old) OBVIOUS
  <2>10. n \in Nat /\ 1..Len(new) = 1..n + 1 /\ \A a \in 1..n + 1 : a = n + 1 \/ a \in 1..n BY <1>1, <2>3
  <2>11. \A a \in 1..n : /\ new[a] = old[a] /\ old[a].name # r.name BY <2>4, <2>7
  <2>12. new[n + 1] = x BY <2>5
  <2>13. \A a \in 1..n : old[a] = Account(old[a])
        /\ \E q \in AccountsGiven : q.name = old[a].name /\ q.src = old[a].src
    BY DEF SoundAccounts
  <2>14. \A a, b \in 1..n : old[a].name = old[b].name => a = b BY DEF SoundAccounts
  <2>8. ASSUME NEW a \in 1..n + 1
        PROVE  new[a] = Account(new[a]) /\ \E q \in AccountsGiven : q.name = new[a].name /\ q.src = new[a].src
    <3>1. CASE a = n + 1 BY <2>6, <2>12, <3>1
    <3>2. CASE a \in 1..n BY <2>11, <2>13, <3>2
    <3> QED BY <2>10, <3>1, <3>2
  <2>9. ASSUME NEW a \in 1..n + 1, NEW b \in 1..n + 1, new[a].name = new[b].name PROVE a = b
    <3>1. CASE a \in 1..n /\ b \in 1..n BY <2>9, <2>11, <2>14, <3>1
    <3>2. CASE a \in 1..n /\ b = n + 1 BY <2>6, <2>9, <2>11, <2>12, <3>2
    <3>3. CASE b \in 1..n /\ a = n + 1 BY <2>6, <2>9, <2>11, <2>12, <3>3
    <3>4. CASE a = n + 1 /\ b = n + 1 BY <3>4
    <3> QED BY <2>10, <3>1, <3>2, <3>3, <3>4
  <2>15. SoundAccounts(new) BY <2>2, <2>8, <2>9, <2>10 DEF SoundAccounts
  <2> QED BY <1>1, <2>3, <2>15
<1>3. CASE Named(old, r.name) # {}
  <2> PICK m : m = Min(Named(old, r.name)) OBVIOUS
  <2>1. m \in 1..Len(old) /\ old[m].name = r.name
    <3> PICK S : S = Named(old, r.name) OBVIOUS
    <3>1. S \subseteq 1..Len(old) BY <1>1 DEF Named
    <3>4. IsFiniteSet(1..Len(old)) BY <1>1, FS_Interval
    <3>2. IsFiniteSet(S) /\ S \subseteq Int BY <3>1, <3>4, FS_Subset
    <3>3. Min(S) \in S BY <1>3, <3>2, MinIs
    <3> QED BY <1>1, <3>3 DEF Named
  <2> PICK x : x = Filled(old[m], r) OBVIOUS
  <2>2. new = [old EXCEPT ![m] = x] BY <1>3 DEF AccountTaken
  <2>3. m \in DOMAIN old BY <1>1, <2>1
  <2>4. IsList(new) BY <1>1, <2>2, <2>3, ListReplaced
  <2>5. Len(new) = Len(old) BY <1>1, <2>2, <2>3, ListReplaced
  <2>6. new[m] = x BY <1>1, <2>2, <2>3, ListReplaced
  <2>7. \A a \in 1..Len(old) : a # m => new[a] = old[a] BY <1>1, <2>2, <2>3, ListReplaced
  <2>8. old[m] = [name |-> old[m].name, src |-> old[m].src, profile |-> old[m].profile]
    BY <2>1 DEF SoundAccounts, Account
  <2>9. /\ x = Account(x) /\ x.name = old[m].name
        /\ x.src = IF old[m].src = None THEN r.src ELSE old[m].src
    <3> PICK was : was = old[m] OBVIOUS
    <3>1. was = [name |-> was.name, src |-> was.src, profile |-> was.profile] BY <2>8
    <3>2. x = [name |-> was.name, src |-> IF was.src = None THEN r.src ELSE was.src,
               profile |-> was.profile @@ r.profile] BY <3>1 DEF Filled
    <3> QED BY <3>2 DEF Account
  <2>10. \E q \in AccountsGiven : q.name = x.name /\ q.src = x.src
    <3>1. CASE old[m].src = None BY <2>1, <2>9, <3>1
    <3>2. CASE old[m].src # None BY <2>1, <2>9, <3>2 DEF SoundAccounts
    <3> QED BY <3>1, <3>2
  <2>11. \A a \in 1..Len(new) : new[a] = Account(new[a])
        /\ \E q \in AccountsGiven : q.name = new[a].name /\ q.src = new[a].src
    BY <2>5, <2>6, <2>7, <2>9, <2>10 DEF SoundAccounts
  <2>12. \A a \in 1..Len(new) : new[a].name = old[a].name BY <2>5, <2>6, <2>7, <2>9
  <2>13. \A a, b \in 1..Len(new) : new[a].name = new[b].name => a = b BY <2>5, <2>12 DEF SoundAccounts
  <2>14. SoundAccounts(new) BY <2>4, <2>11, <2>13 DEF SoundAccounts
  <2> QED BY <1>1, <2>5, <2>14
<1> QED BY <1>2, <1>3

\* load_accounts.
LEMMA LoadedAccountsAre ==
  ASSUME NEW old, SoundAccounts(old), NEW rows, IsList(rows), Range(rows) \subseteq AccountsGiven
  PROVE  SoundAccounts(LoadedAccounts(old, rows)) /\ Len(old) <= Len(LoadedAccounts(old, rows))
<1> PICK n : n = Len(rows) OBVIOUS
<1>1. PICK F : BySteps(F, "accounts", old, old, rows) /\ LoadedAccounts(old, rows) = F[n] BY AccountsBySteps
<1>2. n \in Nat /\ DOMAIN rows = 1..n BY ListIs
<1>3. Len(old) \in Nat BY ListIs DEF SoundAccounts
<1> DEFINE Good == {k \in Nat : k <= n => SoundAccounts(F[k]) /\ Len(old) <= Len(F[k])}
<1>4. 0 \in Good
  <2>1. F[0] = old BY <1>1 DEF BySteps
  <2>2. SoundAccounts(F[0]) /\ Len(old) <= Len(F[0]) BY <1>3, <2>1
  <2> QED BY <2>2
<1>5. ASSUME NEW k \in Nat, k \in Good PROVE k + 1 \in Good
  <2> SUFFICES ASSUME k + 1 <= n PROVE SoundAccounts(F[k + 1]) /\ Len(old) <= Len(F[k + 1])
    OBVIOUS
  <2>1. SoundAccounts(F[k]) /\ Len(old) <= Len(F[k]) BY <1>2, <1>5
  <2>2. k + 1 \in 1..n /\ (k + 1) - 1 = k BY <1>2
  <2>3. F[k + 1] = AccountTaken(F[k], rows[k + 1]) BY <1>1, <2>2 DEF BySteps, Stepped, Loaders
  <2>4. rows[k + 1] \in AccountsGiven BY <1>2, <2>2 DEF Range
  <2> PICK x, y : x = F[k] /\ y = F[k + 1] OBVIOUS
  <2> PICK r : r = rows[k + 1] OBVIOUS
  <2>5. SoundAccounts(x) /\ r \in AccountsGiven /\ y = AccountTaken(x, r) BY <2>1, <2>3, <2>4
  <2>6. SoundAccounts(y) /\ Len(x) <= Len(y) BY <2>5, AccountTakenIs
  <2>7. Len(x) \in Nat /\ Len(y) \in Nat BY <2>5, <2>6, ListIs DEF SoundAccounts
  <2>8. Len(old) <= Len(x) BY <2>1
  <2>9. Len(old) <= Len(y) BY <1>3, <2>6, <2>7, <2>8
  <2> QED BY <2>6, <2>9
<1> HIDE DEF Good
<1>6. Nat \subseteq Good BY <1>4, <1>5, NatInductive
<1>7. n \in Good /\ n <= n BY <1>2, <1>6
<1>8. SoundAccounts(F[n]) /\ Len(old) <= Len(F[n]) BY <1>7 DEF Good
<1> QED BY <1>1, <1>8

\* Accounts that differ in their profiles alone.
SameNames(old, other) == /\ Len(old) = Len(other)
                 /\ \A a \in 1..Len(old) : old[a].name = other[a].name /\ old[a].src = other[a].src

\* load_business_profiles at one row: no name and no source id changes.
LEMMA ProfileTakenIs ==
  ASSUME NEW old, SoundAccounts(old), NEW r, Resolve(r) # None => Resolve(r) \in DOMAIN old
  PROVE  SoundAccounts(ProfileTaken(old, r)) /\ SameNames(ProfileTaken(old, r), old)
<1>1. IsList(old) /\ Len(old) \in Nat /\ DOMAIN old = 1..Len(old) BY ListIs DEF SoundAccounts
<1>2. CASE Resolve(r) = None BY <1>2 DEF ProfileTaken, SameNames
<1>3. CASE Resolve(r) # None
  <2> PICK m : m = Resolve(r) OBVIOUS
  <2> PICK x : x = [old[m] EXCEPT !.profile = r.profile @@ @] OBVIOUS
  <2> PICK new : new = [old EXCEPT ![m] = x] OBVIOUS
  <2>1. m \in DOMAIN old BY <1>3
  <2>2. ProfileTaken(old, r) = new BY <1>3 DEF ProfileTaken
  <2>3. IsList(new) BY <1>1, <2>1, ListReplaced
  <2>4. Len(new) = Len(old) BY <1>1, <2>1, ListReplaced
  <2>5. new[m] = x BY <1>1, <2>1, ListReplaced
  <2>6. \A a \in 1..Len(old) : a # m => new[a] = old[a] BY <1>1, <2>1, ListReplaced
  <2>7. x = Account(x) /\ x.name = old[m].name /\ x.src = old[m].src
    <3> PICK was : was = old[m] OBVIOUS
    <3>1. was = [name |-> was.name, src |-> was.src, profile |-> was.profile]
      BY <1>1, <2>1 DEF SoundAccounts, Account
    <3>2. x = [name |-> was.name, src |-> was.src, profile |-> r.profile @@ was.profile] BY <3>1
    <3> QED BY <3>2 DEF Account
  <2>8. \A a \in 1..Len(new) : new[a].name = old[a].name /\ new[a].src = old[a].src BY <2>4, <2>5, <2>6, <2>7
  <2>9. \A a \in 1..Len(new) : new[a] = Account(new[a]) BY <2>4, <2>5, <2>6, <2>7 DEF SoundAccounts
  <2>10. \A a \in 1..Len(new) : \E q \in AccountsGiven : q.name = new[a].name /\ q.src = new[a].src
    BY <2>4, <2>8 DEF SoundAccounts
  <2>11. \A a, b \in 1..Len(new) : new[a].name = new[b].name => a = b BY <2>4, <2>8 DEF SoundAccounts
  <2>12. SoundAccounts(new) BY <2>3, <2>9, <2>10, <2>11 DEF SoundAccounts
  <2>13. SameNames(new, old) BY <2>4, <2>8 DEF SameNames
  <2> QED BY <2>2, <2>12, <2>13
<1> QED BY <1>2, <1>3

\* load_business_profiles.
LEMMA ProfiledAre ==
  ASSUME NEW old, SoundAccounts(old), old = txn.accounts, NEW rows, IsList(rows)
  PROVE  SoundAccounts(Profiled(old, rows)) /\ SameNames(Profiled(old, rows), old)
<1> PICK n : n = Len(rows) OBVIOUS
<1>1. PICK F : BySteps(F, "profiles", old, old, rows) /\ Profiled(old, rows) = F[n] BY ProfilesBySteps
<1>2. n \in Nat /\ DOMAIN rows = 1..n BY ListIs
<1>3. IsList(old) /\ Len(old) \in Nat /\ DOMAIN old = 1..Len(old) BY ListIs DEF SoundAccounts
<1> DEFINE Good == {k \in Nat : k <= n => SoundAccounts(F[k]) /\ SameNames(F[k], old)}
<1>4. 0 \in Good
  <2>1. F[0] = old BY <1>1 DEF BySteps
  <2>2. SameNames(old, old) BY DEF SameNames
  <2> QED BY <2>1, <2>2
<1>5. ASSUME NEW k \in Nat, k \in Good PROVE k + 1 \in Good
  <2> SUFFICES ASSUME k + 1 <= n PROVE SoundAccounts(F[k + 1]) /\ SameNames(F[k + 1], old)
    OBVIOUS
  <2>1. SoundAccounts(F[k]) /\ SameNames(F[k], old) BY <1>2, <1>5
  <2>2. k + 1 \in 1..n /\ (k + 1) - 1 = k BY <1>2
  <2>3. F[k + 1] = ProfileTaken(F[k], rows[k + 1]) BY <1>1, <2>2 DEF BySteps, Stepped, Loaders
  <2> PICK x, y : x = F[k] /\ y = F[k + 1] OBVIOUS
  <2> PICK r : r = rows[k + 1] OBVIOUS
  <2>4. SoundAccounts(x) /\ SameNames(x, old) /\ y = ProfileTaken(x, r) BY <2>1, <2>3
  <2>5. DOMAIN x = DOMAIN old
    <3>1. Len(x) = Len(old) BY <2>4 DEF SameNames
    <3>2. DOMAIN x = 1..Len(x) BY <2>4, ListIs DEF SoundAccounts
    <3> QED BY <1>3, <3>1, <3>2
  <2>6. Resolve(r) # None => Resolve(r) \in DOMAIN x BY <1>3, <2>5, ResolvedIn
  <2>7. SoundAccounts(y) /\ SameNames(y, x) BY <2>4, <2>6, ProfileTakenIs
  <2>8. SameNames(y, old) BY <2>4, <2>7 DEF SameNames
  <2> QED BY <2>7, <2>8
<1> HIDE DEF Good
<1>6. Nat \subseteq Good BY <1>4, <1>5, NatInductive
<1>7. SoundAccounts(F[n]) /\ SameNames(F[n], old) BY <1>2, <1>6 DEF Good
<1> QED BY <1>1, <1>7

\* A row means the same account among accounts that are alike.
LEMMA SameNamesResolve ==
  ASSUME NEW old, NEW other, IsList(old), IsList(other), SameNames(old, other), NEW rows, NEW r
  PROVE  AccountOf(old, rows, r) = AccountOf(other, rows, r)
<1>1. Len(old) = Len(other) /\ DOMAIN old = 1..Len(old) /\ DOMAIN other = 1..Len(old) BY ListIs DEF SameNames
<1>2. \A a \in DOMAIN old : old[a].name = other[a].name /\ old[a].src = other[a].src BY <1>1 DEF SameNames
<1>3. \A x : Named(old, x) = Named(other, x) BY <1>1, <1>2 DEF Named
<1>4. ASSUME NEW src PROVE Sourced(old, rows, src) = Sourced(other, rows, src)
  <2>1. {a \in DOMAIN old : old[a].src = src} = {a \in DOMAIN other : other[a].src = src} BY <1>1, <1>2
  <2>2. {a \in DOMAIN old : \E i \in DOMAIN rows : rows[i].name = old[a].name /\ rows[i].src = src}
      = {a \in DOMAIN other : \E i \in DOMAIN rows : rows[i].name = other[a].name /\ rows[i].src = src}
        BY <1>1, <1>2
  <2> QED BY <2>1, <2>2, Zenon DEF Sourced
<1>5. Unsourced(old, rows) = Unsourced(other, rows)
  <2>1. Unsourced(old, rows) => Unsourced(other, rows) BY <1>1, <1>2 DEF Unsourced
  <2>2. Unsourced(other, rows) => Unsourced(old, rows) BY <1>1, <1>2 DEF Unsourced
  <2>3. Unsourced(old, rows) \in BOOLEAN /\ Unsourced(other, rows) \in BOOLEAN BY DEF Unsourced
  <2> QED BY <2>1, <2>2, <2>3
<1>6. DOMAIN old = DOMAIN other BY <1>1
<1> QED BY <1>1, <1>3, <1>4, <1>5, <1>6 DEF AccountOf

\* Nodes of a set that are nobody's twins.
NoTwins(S, nodes, A) ==
  \A y \in S : /\ Plain(y) /\ y.acct \in A
               /\ \A i \in 1..Len(nodes) : ~Twice(y, nodes[i]) /\ ~Twice(nodes[i], y)
               /\ \A z \in S : Twice(y, z) => y = z

\* Such nodes may be added all at once.
LEMMA NodesJoined ==
  ASSUME NEW nodes, NEW A, SoundNodes(nodes, A), NEW S, IsFiniteSet(S), NoTwins(S, nodes, A)
  PROVE  SoundNodes(nodes \o SetToSeq(S), A) /\ Follow(nodes \o SetToSeq(S), nodes)
<1> PICK t : t = SetToSeq(S) OBVIOUS
<1> PICK new : new = nodes \o t OBVIOUS
<1>1. IsList(nodes) BY DEF SoundNodes
<1>2. IsList(t) /\ Range(t) = S /\ \A i, j \in DOMAIN t : t[i] = t[j] => i = j BY ListOf
<1>3. IsList(new) BY <1>1, <1>2, ListJoined
<1>4. Len(new) = Len(nodes) + Len(t) BY <1>1, <1>2, ListJoined
<1>5. \A i \in 1..Len(nodes) : new[i] = nodes[i] BY <1>1, <1>2, ListJoined
<1>6. \A i \in 1..Len(t) : new[Len(nodes) + i] = t[i] BY <1>1, <1>2, ListJoined
<1> PICK n, m : n = Len(nodes) /\ m = Len(t) OBVIOUS
<1>7. n \in Nat /\ m \in Nat /\ DOMAIN t = 1..m BY <1>1, <1>2, ListIs
<1>8. \A i \in 1..m : t[i] \in S BY <1>2, <1>7 DEF Range
<1>9. ASSUME NEW i \in 1..n + m, i \notin 1..n
      PROVE  i - n \in 1..m /\ new[i] = t[i - n] /\ new[i] \in S
  <2>1. i - n \in 1..m /\ n + (i - n) = i BY <1>7, <1>9
  <2>2. new[n + (i - n)] = t[i - n] BY <1>6, <2>1
  <2> QED BY <1>8, <2>1, <2>2
<1>10. \A i \in 1..n + m : Plain(new[i]) /\ new[i].acct \in A
  <2> TAKE i \in 1..n + m
  <2>1. CASE i \in 1..n BY <1>5, <2>1 DEF SoundNodes
  <2>2. CASE i \notin 1..n BY <1>9, <2>2 DEF NoTwins
  <2> QED BY <2>1, <2>2
<1>11. ASSUME NEW i \in 1..n + m, NEW j \in 1..n + m, Twice(new[i], new[j]) PROVE i = j
  <2>1. CASE i \in 1..n /\ j \in 1..n BY <1>5, <1>11, <2>1 DEF SoundNodes
  <2>2. CASE i \in 1..n /\ j \notin 1..n
    <3>1. new[i] = nodes[i] /\ new[j] \in S BY <1>5, <1>9, <2>2
    <3> QED BY <1>11, <2>2, <3>1 DEF NoTwins
  <2>3. CASE i \notin 1..n /\ j \in 1..n
    <3>1. new[j] = nodes[j] /\ new[i] \in S BY <1>5, <1>9, <2>3
    <3> QED BY <1>11, <2>3, <3>1 DEF NoTwins
  <2>4. CASE i \notin 1..n /\ j \notin 1..n
    <3>1. new[i] \in S /\ new[j] \in S BY <1>9, <2>4
    <3>2. new[i] = new[j] BY <1>11, <3>1 DEF NoTwins
    <3>3. /\ i - n \in DOMAIN t /\ new[i] = t[i - n]
          /\ j - n \in DOMAIN t /\ new[j] = t[j - n] BY <1>7, <1>9, <2>4
    <3> PICK x, y : x = i - n /\ y = j - n OBVIOUS
    <3>4. x \in DOMAIN t /\ y \in DOMAIN t /\ t[x] = t[y] BY <3>2, <3>3
    <3>5. x = y BY <1>2, <3>4
    <3>6. i - n = j - n BY <3>5
    <3> QED BY <1>7, <3>6
  <2> QED BY <2>1, <2>2, <2>3, <2>4
<1>12. 1..Len(new) = 1..n + m BY <1>4
<1>13. SoundNodes(new, A) BY <1>3, <1>10, <1>11, <1>12 DEF SoundNodes
<1>14. Follow(new, nodes) BY <1>4, <1>5, <1>7 DEF Follow
<1> QED BY <1>13, <1>14

\* extract_stakeholders_from_profiles adds a person in a role once.
LEMMA ExtractedIs ==
  ASSUME NEW d, d = [accounts |-> d.accounts, nodes |-> d.nodes, edges |-> d.edges],
         SoundAccounts(d.accounts), SoundNodes(d.nodes, DOMAIN d.accounts), NEW e, e = Extracted(d)
  PROVE  /\ e = [accounts |-> d.accounts, nodes |-> e.nodes, edges |-> d.edges]
         /\ SoundNodes(e.nodes, DOMAIN d.accounts) /\ Follow(e.nodes, d.nodes)
<1> DEFINE missing == {x \in (DOMAIN d.accounts) \X (DOMAIN RoleField) :
                         /\ RoleField[x[2]] \in DOMAIN d.accounts[x[1]].profile
                         /\ ~\E i \in DOMAIN d.nodes : LET n == d.nodes[i] IN
                              n.kind = "STAKEHOLDER" /\ n.acct = x[1] /\ n.sub = x[2]}
           made(x) == N(x[1], "STAKEHOLDER", x[2], d.accounts[x[1]].profile[RoleField[x[2]]],
                        None, None, date, None)
<1> PICK S : S = {made(x) : x \in missing} OBVIOUS
<1>1. e = [d EXCEPT !.nodes = @ \o SetToSeq(S)] BY Zenon DEF Extracted
<1>2. IsFiniteSet(S)
  <2>1. IsFiniteSet(DOMAIN d.accounts)
    <3>1. DOMAIN d.accounts = 1..Len(d.accounts) /\ Len(d.accounts) \in Nat BY ListIs DEF SoundAccounts
    <3> PICK k : k = Len(d.accounts) OBVIOUS
    <3>2. k \in Nat BY <3>1
    <3>3. IsFiniteSet(1..k) BY <3>2, FS_Interval
    <3> QED BY <3>1, <3>3
  <2>2. IsFiniteSet(DOMAIN RoleField)
    <3>1. DOMAIN RoleField = {"champion", "csm"} BY DEF RoleField
    <3>2. IsFiniteSet({"champion"}) BY FS_Singleton
    <3>3. IsFiniteSet({"champion"} \cup {"csm"}) BY <3>2, FS_AddElement
    <3>4. {"champion"} \cup {"csm"} = {"champion", "csm"} OBVIOUS
    <3> QED BY <3>1, <3>3, <3>4
  <2>3. IsFiniteSet((DOMAIN d.accounts) \X (DOMAIN RoleField)) BY <2>1, <2>2, FS_Product
  <2>4. missing \subseteq (DOMAIN d.accounts) \X (DOMAIN RoleField) OBVIOUS
  <2> PICK M : M = missing OBVIOUS
  <2>5. IsFiniteSet(M) BY <2>3, <2>4, FS_Subset
  <2> DEFINE f == [x \in M |-> made(x)]
  <2>6. f \in Surjection(M, S) BY DEF Surjection
  <2>7. IsFiniteSet(S)
    <3> HIDE DEF f, missing, made
    <3> QED BY <2>5, <2>6, FS_Surjection
  <2> QED BY <2>7
<1>3. DOMAIN d.nodes = 1..Len(d.nodes) BY ListIs DEF SoundNodes
<1>4. ASSUME NEW y \in S
      PROVE  \E a \in DOMAIN d.accounts, role \in DOMAIN RoleField :
               /\ y = made(<<a, role>>)
               /\ \A i \in 1..Len(d.nodes) :
                    ~(d.nodes[i].kind = "STAKEHOLDER" /\ d.nodes[i].acct = a /\ d.nodes[i].sub = role)
  <2>1. PICK x \in missing : y = made(x) OBVIOUS
  <2>2. x = <<x[1], x[2]>> /\ x[1] \in DOMAIN d.accounts /\ x[2] \in DOMAIN RoleField BY <2>1
  <2>3. \A i \in 1..Len(d.nodes) :
          ~(d.nodes[i].kind = "STAKEHOLDER" /\ d.nodes[i].acct = x[1] /\ d.nodes[i].sub = x[2])
    BY <1>3, <2>1
  <2> HIDE DEF missing, made
  <2> QED BY <2>1, <2>2, <2>3
<1>5. ASSUME NEW y \in S
      PROVE  /\ Plain(y) /\ y.acct \in DOMAIN d.accounts
             /\ \A i \in 1..Len(d.nodes) : ~Twice(y, d.nodes[i]) /\ ~Twice(d.nodes[i], y)
             /\ \A z \in S : Twice(y, z) => y = z
  <2>1. PICK a \in DOMAIN d.accounts, role \in DOMAIN RoleField :
               /\ y = made(<<a, role>>)
               /\ \A i \in 1..Len(d.nodes) :
                    ~(d.nodes[i].kind = "STAKEHOLDER" /\ d.nodes[i].acct = a /\ d.nodes[i].sub = role)
    BY <1>4
  <2>2. y.kind = "STAKEHOLDER" /\ y.acct = a /\ y.sub = role BY <2>1 DEF N
  <2>3. Plain(y) BY <2>2 DEF Plain
  <2>4. ASSUME NEW i \in 1..Len(d.nodes) PROVE ~Twice(y, d.nodes[i]) /\ ~Twice(d.nodes[i], y)
    <3> PICK n : n = d.nodes[i] OBVIOUS
    <3>1. ~(n.kind = "STAKEHOLDER" /\ n.acct = a /\ n.sub = role) BY <2>1
    <3>2. ~Twice(y, n) BY <2>2, <3>1 DEF Twice
    <3>3. ~Twice(n, y) BY <2>2, <3>1 DEF Twice
    <3> QED BY <3>2, <3>3
  <2>5. ASSUME NEW z \in S, Twice(y, z) PROVE y = z
    <3>1. PICK b \in DOMAIN d.accounts, other \in DOMAIN RoleField : z = made(<<b, other>>) BY <1>4
    <3>2. z.acct = b /\ z.sub = other BY <3>1 DEF N
    <3>3. a = b /\ role = other BY <2>2, <2>5, <3>2 DEF Twice
    <3> HIDE DEF made
    <3> QED BY <2>1, <3>1, <3>3
  <2> QED BY <2>2, <2>3, <2>4, <2>5
<1> HIDE DEF missing, made
<1> PICK nodes : nodes = d.nodes \o SetToSeq(S) OBVIOUS
<1>6. SoundNodes(nodes, DOMAIN d.accounts) /\ Follow(nodes, d.nodes)
  <2> PICK ns, A : ns = d.nodes /\ A = DOMAIN d.accounts OBVIOUS
  <2>1. SoundNodes(ns, A) OBVIOUS
  <2>2. NoTwins(S, ns, A) BY <1>5 DEF NoTwins
  <2>3. SoundNodes(ns \o SetToSeq(S), A) /\ Follow(ns \o SetToSeq(S), ns) BY <1>2, <2>1, <2>2, NodesJoined
  <2> QED BY <2>3
<1>7. e = [accounts |-> d.accounts, nodes |-> nodes, edges |-> d.edges] BY <1>1
<1> QED BY <1>6, <1>7

\* A node that is no twin may be added.
LEMMA NodeAppended ==
  ASSUME NEW nodes, NEW A, SoundNodes(nodes, A), NEW m, NoTwins({m}, nodes, A), NEW new, new = Append(nodes, m)
  PROVE  SoundNodes(new, A) /\ Follow(new, nodes) /\ Len(new) = Len(nodes) + 1 /\ new[Len(nodes) + 1] = m
<1>1. IsList(nodes) BY DEF SoundNodes
<1>2. IsList(new) BY <1>1, ListAppended
<1>3. Len(new) = Len(nodes) + 1 BY <1>1, ListAppended
<1>4. \A i \in 1..Len(nodes) : new[i] = nodes[i] BY <1>1, ListAppended
<1>5. new[Len(nodes) + 1] = m BY <1>1, ListAppended
<1> PICK n : n = Len(nodes) OBVIOUS
<1>6. n \in Nat BY <1>1, ListIs
<1>7. 1..Len(new) = 1..n + 1 /\ \A i \in 1..n + 1 : i = n + 1 \/ i \in 1..n BY <1>3, <1>6
<1>8. /\ Plain(m) /\ m.acct \in A
      /\ \A i \in 1..n : ~Twice(m, nodes[i]) /\ ~Twice(nodes[i], m) BY DEF NoTwins
<1>9. \A i \in 1..n + 1 : Plain(new[i]) /\ new[i].acct \in A
  <2> TAKE i \in 1..n + 1
  <2>1. CASE i \in 1..n BY <1>4, <2>1 DEF SoundNodes
  <2>2. CASE i = n + 1 BY <1>5, <1>8, <2>2
  <2> QED BY <1>7, <2>1, <2>2
<1>10. ASSUME NEW i \in 1..n + 1, NEW j \in 1..n + 1, Twice(new[i], new[j]) PROVE i = j
  <2>1. CASE i \in 1..n /\ j \in 1..n BY <1>4, <1>10, <2>1 DEF SoundNodes
  <2>2. CASE i \in 1..n /\ j = n + 1 BY <1>4, <1>5, <1>8, <1>10, <2>2
  <2>3. CASE i = n + 1 /\ j \in 1..n BY <1>4, <1>5, <1>8, <1>10, <2>3
  <2>4. CASE i = n + 1 /\ j = n + 1 BY <2>4
  <2> QED BY <1>7, <2>1, <2>2, <2>3, <2>4
<1>11. SoundNodes(new, A) BY <1>2, <1>7, <1>9, <1>10 DEF SoundNodes
<1>12. Follow(new, nodes) BY <1>3, <1>4, <1>6 DEF Follow
<1> QED BY <1>3, <1>5, <1>11, <1>12

\* Edges as Tables has them, among nodes.
EdgeSound(e, nodes) == /\ {e.from, e.to} \subseteq DOMAIN nodes /\ e.from # e.to
                       /\ e.by # EdgesBy => nodes[e.from].acct = nodes[e.to].acct

\* The edges of the edges file.
Filings(es) == {i \in DOMAIN es : es[i].by = EdgesBy}

\* The edges of a tenant, whose file never had fewer rows.
SoundEdges(es, nodes) ==
  /\ IsList(es)
  /\ \A i \in 1..Len(es) : EdgeSound(es[i], nodes)
  /\ \A i, j \in 1..Len(es) : es[i] = es[j] /\ es[i].by # EdgesBy => i = j
  /\ \E rows \in EdgeFiles : Cardinality(Filings(es)) <= Len(rows)

\* Edges of nodes are edges of the nodes that follow them.
LEMMA EdgesFollow ==
  ASSUME NEW es, NEW old, SoundEdges(es, old), NEW new, IsList(old), IsList(new), Follow(new, old)
  PROVE  SoundEdges(es, new)
<1> PICK n, m : n = Len(old) /\ m = Len(new) OBVIOUS
<1>1. n \in Nat /\ m \in Nat /\ DOMAIN old = 1..n /\ DOMAIN new = 1..m BY ListIs
<1>2. n <= m /\ \A i \in 1..n : new[i] = old[i] BY DEF Follow
<1>3. \A i \in 1..n : i \in 1..m BY <1>1, <1>2
<1>4. ASSUME NEW i \in 1..Len(es) PROVE EdgeSound(es[i], new)
  <2>1. EdgeSound(es[i], old) BY DEF SoundEdges
  <2> PICK e : e = es[i] OBVIOUS
  <2>2. e.from \in 1..n /\ e.to \in 1..n /\ e.from # e.to
        /\ (e.by # EdgesBy => old[e.from].acct = old[e.to].acct) BY <1>1, <2>1 DEF EdgeSound
  <2>3. EdgeSound(e, new) BY <1>1, <1>2, <1>3, <2>2 DEF EdgeSound
  <2> QED BY <2>3
<1> QED BY <1>4 DEF SoundEdges

\* Edges added that no file brought.
LEMMA EdgesJoined ==
  ASSUME NEW es, NEW nodes, SoundEdges(es, nodes), NEW S, IsFiniteSet(S),
         \A e \in S : /\ EdgeSound(e, nodes) /\ e.by # EdgesBy
                      /\ \A i \in 1..Len(es) : es[i] # e
  PROVE  SoundEdges(es \o SetToSeq(S), nodes)
<1> PICK t : t = SetToSeq(S) OBVIOUS
<1> PICK new : new = es \o t OBVIOUS
<1>1. IsList(es) BY DEF SoundEdges
<1>2. IsList(t) /\ Range(t) = S /\ \A i, j \in DOMAIN t : t[i] = t[j] => i = j BY ListOf
<1>3. IsList(new) BY <1>1, <1>2, ListJoined
<1>4. Len(new) = Len(es) + Len(t) BY <1>1, <1>2, ListJoined
<1>5. \A i \in 1..Len(es) : new[i] = es[i] BY <1>1, <1>2, ListJoined
<1>6. \A i \in 1..Len(t) : new[Len(es) + i] = t[i] BY <1>1, <1>2, ListJoined
<1> PICK n, m : n = Len(es) /\ m = Len(t) OBVIOUS
<1>7. n \in Nat /\ m \in Nat /\ DOMAIN t = 1..m /\ DOMAIN es = 1..n BY <1>1, <1>2, ListIs
<1>8. \A i \in 1..m : t[i] \in S BY <1>2, <1>7 DEF Range
<1>9. ASSUME NEW i \in 1..n + m, i \notin 1..n
      PROVE  i - n \in 1..m /\ new[i] = t[i - n] /\ new[i] \in S
  <2>1. i - n \in 1..m /\ n + (i - n) = i BY <1>7, <1>9
  <2>2. new[n + (i - n)] = t[i - n] BY <1>6, <2>1
  <2> QED BY <1>8, <2>1, <2>2
<1>10. \A i \in 1..n + m : EdgeSound(new[i], nodes)
  <2> TAKE i \in 1..n + m
  <2>1. CASE i \in 1..n BY <1>5, <2>1 DEF SoundEdges
  <2>2. CASE i \notin 1..n BY <1>9, <2>2
  <2> QED BY <2>1, <2>2
<1>11. ASSUME NEW i \in 1..n + m, NEW j \in 1..n + m, new[i] = new[j], new[i].by # EdgesBy PROVE i = j
  <2>1. CASE i \in 1..n /\ j \in 1..n BY <1>5, <1>11, <2>1 DEF SoundEdges
  <2>2. CASE i \in 1..n /\ j \notin 1..n BY <1>5, <1>9, <1>11, <2>2
  <2>3. CASE i \notin 1..n /\ j \in 1..n BY <1>5, <1>9, <1>11, <2>3
  <2>4. CASE i \notin 1..n /\ j \notin 1..n
    <3>1. /\ i - n \in DOMAIN t /\ new[i] = t[i - n]
          /\ j - n \in DOMAIN t /\ new[j] = t[j - n] BY <1>7, <1>9, <2>4
    <3> PICK x, y : x = i - n /\ y = j - n OBVIOUS
    <3>2. x \in DOMAIN t /\ y \in DOMAIN t /\ t[x] = t[y] BY <1>11, <3>1
    <3>3. x = y BY <1>2, <3>2
    <3>4. i - n = j - n BY <3>3
    <3> QED BY <1>7, <3>4
  <2> QED BY <2>1, <2>2, <2>3, <2>4
<1>12. 1..Len(new) = 1..n + m /\ DOMAIN new = 1..n + m BY <1>3, <1>4, ListIs
<1>13. Filings(new) = Filings(es)
  <2>1. ASSUME NEW i \in 1..n + m, new[i].by = EdgesBy PROVE i \in 1..n /\ es[i].by = EdgesBy
    <3>1. i \in 1..n BY <1>9, <2>1
    <3> QED BY <1>5, <2>1, <3>1
  <2>2. ASSUME NEW i \in 1..n, es[i].by = EdgesBy PROVE i \in 1..n + m /\ new[i].by = EdgesBy
    BY <1>5, <1>7, <2>2
  <2> QED BY <1>7, <1>12, <2>1, <2>2 DEF Filings
<1>14. SoundEdges(new, nodes) BY <1>3, <1>10, <1>11, <1>12, <1>13 DEF SoundEdges
<1> QED BY <1>14

\* The tables of a tenant.
Sound(d) ==
  /\ d = [accounts |-> d.accounts, nodes |-> d.nodes, edges |-> d.edges]
  /\ SoundAccounts(d.accounts) /\ SoundNodes(d.nodes, DOMAIN d.accounts) /\ SoundEdges(d.edges, d.nodes)

\* Tables, said by parts.
LEMMA TablesSound ==
  ASSUME NEW d
  PROVE  Tables(d) <=> Sound(d)
<1>1. ASSUME IsList(d.accounts), IsList(d.nodes), IsList(d.edges)
      PROVE  Tables(d) <=> Sound(d)
  <2>1. /\ DOMAIN d.accounts = 1..Len(d.accounts)
        /\ DOMAIN d.nodes = 1..Len(d.nodes)
        /\ DOMAIN d.edges = 1..Len(d.edges) BY <1>1, ListIs
  <2>2. \A s \in {d.accounts, d.nodes, d.edges} : s \in Seq(Range(s)) BY <1>1 DEF IsList
  <2>3. (/\ \A a \in DOMAIN d.accounts : /\ d.accounts[a] = Account(d.accounts[a])
                                  /\ \E r \in AccountsGiven : r.name = d.accounts[a].name /\ r.src = d.accounts[a].src
         /\ AccountsOnce(d)) <=> SoundAccounts(d.accounts)
    BY <1>1, <2>1 DEF AccountsOnce, SoundAccounts
  <2>4. ((\A i \in DOMAIN d.nodes : Plain(d.nodes[i])) /\ NodesOnce(d) /\ NodesHaveAccounts(d))
          <=> SoundNodes(d.nodes, DOMAIN d.accounts)
    BY <1>1, <2>1 DEF NodesOnce, NodesHaveAccounts, SoundNodes
  <2>5. EdgesJoin(d) <=> \A i \in 1..Len(d.edges) : EdgeSound(d.edges[i], d.nodes)
    BY <2>1 DEF EdgesJoin, EdgeSound
  <2>6. EdgesOnce(d) <=> /\ \A i, j \in 1..Len(d.edges) : d.edges[i] = d.edges[j] /\ d.edges[i].by # EdgesBy => i = j
                         /\ \E rows \in EdgeFiles : Cardinality(Filings(d.edges)) <= Len(rows)
    BY <2>1, Zenon DEF EdgesOnce, Filings
  <2>7. EdgesJoin(d) /\ EdgesOnce(d) <=> SoundEdges(d.edges, d.nodes)
    BY <1>1, <2>5, <2>6 DEF SoundEdges
  <2> QED BY <2>2, <2>3, <2>4, <2>7 DEF Tables, Sound
<1>2. Tables(d) => IsList(d.accounts) /\ IsList(d.nodes) /\ IsList(d.edges)
  <2> SUFFICES ASSUME Tables(d) PROVE IsList(d.accounts) /\ IsList(d.nodes) /\ IsList(d.edges) OBVIOUS
  <2>1. \A s \in {d.accounts, d.nodes, d.edges} : IsList(s) BY Zenon DEF Tables, IsList
  <2> QED BY <2>1
<1>3. Sound(d) => IsList(d.accounts) /\ IsList(d.nodes) /\ IsList(d.edges)
  BY DEF Sound, SoundAccounts, SoundNodes, SoundEdges
<1> QED BY <1>1, <1>2, <1>3

\* log_outcome: an outcome is there after it, and only once; its edges stay in the account.
LEMMA LogOutcomeIs ==
  ASSUME NEW d, Sound(d), NEW acct \in DOMAIN d.accounts, NEW r, NEW by, by # EdgesBy,
         NEW e, e = LogOutcome(d, acct, r, by)
  PROVE  /\ Sound(e) /\ Follow(e.nodes, d.nodes) /\ e.accounts = d.accounts
         /\ Represented(e.nodes, "outcomes.csv", r, acct)
<1> PICK ns, n : ns = d.nodes /\ n = Len(ns) OBVIOUS
<1>1. IsList(ns) /\ n \in Nat /\ DOMAIN ns = 1..n BY ListIs DEF Sound, SoundNodes
<1>0. SoundNodes(ns, DOMAIN d.accounts) /\ SoundEdges(d.edges, ns) BY DEF Sound
<1>2. CASE \E i \in DOMAIN ns : SameOutcome(ns[i], acct, r)
  <2>1. e = d BY <1>2 DEF LogOutcome
  <2>2. Follow(ns, ns) BY <1>1 DEF Follow
  <2>3. PICK i \in DOMAIN ns : SameOutcome(ns[i], acct, r) BY <1>2
  <2>4. Represented(ns, "outcomes.csv", r, acct) BY <2>3 DEF Represented, SameOutcome, On
  <2> QED BY <2>1, <2>2, <2>4
<1>3. CASE ~\E i \in DOMAIN ns : SameOutcome(ns[i], acct, r)
  <2> PICK id : id = n + 1 OBVIOUS
  <2> PICK m : m = Outcome(acct, r, <<"outcome", id>>) OBVIOUS
  <2> PICK L : L = Linked(ns, acct, r.links) OBVIOUS
  <2> PICK S : S = {Edge(i, id, by) : i \in L} OBVIOUS
  <2> PICK new : new = Append(ns, m) OBVIOUS
  <2>1. e = [d EXCEPT !.nodes = new, !.edges = @ \o SetToSeq(S)] BY <1>3, Zenon DEF LogOutcome
  <2>2. /\ m.kind = "OUTCOME" /\ m.acct = acct /\ m.sub = r.type /\ m.ref = r.ref /\ m.day = On(r) /\ m.rev = r.rev
    BY DEF Outcome, N
  <2>3. NoTwins({m}, ns, DOMAIN d.accounts)
    <3>1. Plain(m) /\ m.acct \in DOMAIN d.accounts BY <2>2 DEF Plain
    <3>2. ASSUME NEW i \in 1..n PROVE ~Twice(m, ns[i]) /\ ~Twice(ns[i], m)
      <4> PICK x : x = ns[i] OBVIOUS
      <4>1. ~SameOutcome(x, acct, r) BY <1>1, <1>3
      <4>2. ~Twice(m, x) BY <2>2, <4>1 DEF Twice, SameOutcome
      <4>3. ~Twice(x, m) BY <2>2, <4>1 DEF Twice, SameOutcome
      <4> QED BY <4>2, <4>3
    <3> QED BY <3>1, <3>2 DEF NoTwins
  <2>4. SoundNodes(new, DOMAIN d.accounts) BY <1>0, <2>3, NodeAppended
  <2>5. Follow(new, ns)
    <3>1. IsList(ns) /\ Len(ns) \in Nat BY <1>1
    <3>2. Len(new) = Len(ns) + 1 BY <3>1, ListAppended
    <3>3. \A i \in 1..Len(ns) : new[i] = ns[i] BY <3>1, ListAppended
    <3> QED BY <3>1, <3>2, <3>3 DEF Follow
  <2>6. Len(new) = n + 1 /\ new[n + 1] = m BY <1>0, <2>3, NodeAppended
  <2>7. IsList(new) /\ DOMAIN new = 1..n + 1 BY <2>4, <2>6, ListIs DEF SoundNodes
  <2>8. SoundEdges(d.edges, new) BY <1>0, <1>1, <2>5, <2>7, EdgesFollow
  <2>9. L \subseteq 1..n /\ \A i \in L : ns[i].acct = acct BY <1>1 DEF Linked
  <2>10. IsFiniteSet(S)
    <3>1. IsFiniteSet(1..n) BY <1>1, FS_Interval
    <3>2. IsFiniteSet(L) BY <2>9, <3>1, FS_Subset
    <3> DEFINE f == [i \in L |-> Edge(i, id, by)]
    <3>3. f \in Surjection(L, S) BY DEF Surjection
    <3> HIDE DEF f
    <3> QED BY <3>2, <3>3, FS_Surjection
  <2>11. ASSUME NEW x \in S
         PROVE  /\ EdgeSound(x, new) /\ x.by # EdgesBy
                /\ \A i \in 1..Len(d.edges) : d.edges[i] # x
    <3>1. PICK i \in L : x = Edge(i, id, by) OBVIOUS
    <3>2. x.from = i /\ x.to = id /\ x.by = by BY <3>1 DEF Edge
    <3>3. i \in 1..n /\ i # id /\ i \in 1..n + 1 /\ id \in 1..n + 1 /\ id \notin 1..n BY <1>1, <2>9
    <3>4. new[i].acct = acct /\ new[id].acct = acct BY <2>2, <2>5, <2>6, <2>9, <3>3 DEF Follow
    <3>5. EdgeSound(x, new) BY <2>7, <3>2, <3>3, <3>4 DEF EdgeSound
    <3>6. ASSUME NEW j \in 1..Len(d.edges) PROVE d.edges[j] # x
      <4>1. EdgeSound(d.edges[j], ns) BY <1>0 DEF SoundEdges
      <4>2. d.edges[j].to \in 1..n BY <1>1, <4>1 DEF EdgeSound
      <4> QED BY <3>2, <3>3, <4>2
    <3> QED BY <3>2, <3>5, <3>6
  <2>12. SoundEdges(d.edges \o SetToSeq(S), new)
    <3> PICK es : es = d.edges OBVIOUS
    <3>1. SoundEdges(es, new) BY <2>8
    <3>2. \A x \in S : /\ EdgeSound(x, new) /\ x.by # EdgesBy
                       /\ \A i \in 1..Len(es) : es[i] # x BY <2>11
    <3>3. SoundEdges(es \o SetToSeq(S), new) BY <2>10, <3>1, <3>2, EdgesJoined
    <3> QED BY <3>3
  <2> PICK edges : edges = d.edges \o SetToSeq(S) OBVIOUS
  <2>13. e = [accounts |-> d.accounts, nodes |-> new, edges |-> edges] BY <2>1 DEF Sound
  <2>14. Sound(e) BY <2>4, <2>12, <2>13 DEF Sound
  <2>15. Represented(new, "outcomes.csv", r, acct)
    <3>1. n + 1 \in DOMAIN new BY <1>1, <2>7
    <3> QED BY <2>2, <2>6, <3>1 DEF Represented
  <2> QED BY <2>5, <2>13, <2>14, <2>15
<1> QED BY <1>2, <1>3

\* What is left of the edges es after k of them were looked at.
LeftOver(out, es, k) ==
  /\ IsList(out)
  /\ \A i \in 1..Len(out) : \E j \in 1..k : out[i] = es[j] /\ es[j].by # EdgesBy
  /\ \A i, j \in 1..Len(out) : out[i] = out[j] => i = j

\* At one edge more.
LEMMA EdgeKeptIs ==
  ASSUME NEW es, NEW nodes, SoundEdges(es, nodes), NEW k \in 1..Len(es), NEW out, LeftOver(out, es, k - 1)
  PROVE  LeftOver(EdgeKept(out, es[k]), es, k)
<1> PICK e : e = es[k] OBVIOUS
<1> PICK n : n = Len(out) OBVIOUS
<1>1. IsList(out) /\ n \in Nat BY ListIs DEF LeftOver
<1>2. Len(es) \in Nat BY ListIs DEF SoundEdges
<1>3. \A j \in 1..k - 1 : j \in 1..k /\ j \in 1..Len(es) /\ j # k BY <1>2
<1>4. \A i \in 1..n : \E j \in 1..k - 1 : out[i] = es[j] /\ es[j].by # EdgesBy BY DEF LeftOver
<1>5. CASE e.by = EdgesBy
  <2>1. EdgeKept(out, e) = out BY <1>5 DEF EdgeKept
  <2>2. \A i \in 1..n : \E j \in 1..k : out[i] = es[j] /\ es[j].by # EdgesBy BY <1>3, <1>4
  <2>3. LeftOver(out, es, k) BY <2>2 DEF LeftOver
  <2> QED BY <2>1, <2>3
<1>6. CASE e.by # EdgesBy
  <2> PICK new : new = Append(out, e) OBVIOUS
  <2>1. EdgeKept(out, e) = new BY <1>6 DEF EdgeKept
  <2>2. IsList(new) BY <1>1, ListAppended
  <2>3. Len(new) = n + 1 BY <1>1, ListAppended
  <2>4. \A i \in 1..n : new[i] = out[i] BY <1>1, ListAppended
  <2>5. new[n + 1] = e BY <1>1, ListAppended
  <2>6. 1..Len(new) = 1..n + 1 /\ \A i \in 1..n + 1 : i = n + 1 \/ i \in 1..n BY <1>1, <2>3
  <2>7. ASSUME NEW i \in 1..n + 1 PROVE \E j \in 1..k : new[i] = es[j] /\ es[j].by # EdgesBy
    <3>1. CASE i \in 1..n BY <1>3, <1>4, <2>4, <3>1
    <3>2. CASE i = n + 1
      <4>1. k \in 1..k BY <1>2
      <4> QED BY <1>6, <2>5, <3>2, <4>1
    <3> QED BY <2>6, <3>1, <3>2
  <2>8. ASSUME NEW i \in 1..n PROVE new[i] # e
    <3>1. PICK j \in 1..k - 1 : out[i] = es[j] /\ es[j].by # EdgesBy BY <1>4
    <3>2. j \in 1..Len(es) /\ j # k BY <1>3
    <3>3. es[j] # es[k] BY <3>1, <3>2 DEF SoundEdges
    <3> QED BY <2>4, <3>1, <3>3
  <2>9. ASSUME NEW i \in 1..n + 1, NEW j \in 1..n + 1, new[i] = new[j] PROVE i = j
    <3>1. CASE i \in 1..n /\ j \in 1..n BY <2>4, <2>9, <3>1 DEF LeftOver
    <3>2. CASE i \in 1..n /\ j = n + 1 BY <2>5, <2>8, <2>9, <3>2
    <3>3. CASE i = n + 1 /\ j \in 1..n BY <2>5, <2>8, <2>9, <3>3
    <3>4. CASE i = n + 1 /\ j = n + 1 BY <3>4
    <3> QED BY <2>6, <3>1, <3>2, <3>3, <3>4
  <2>10. LeftOver(new, es, k) BY <2>2, <2>6, <2>7, <2>9 DEF LeftOver
  <2> QED BY <2>1, <2>10
<1> QED BY <1>5, <1>6

\* Unlinked keeps the edges of other loaders, each once.
LEMMA UnlinkedIs ==
  ASSUME NEW es, NEW nodes, SoundEdges(es, nodes)
  PROVE  LeftOver(Unlinked(es), es, Len(es))
<1> PICK n : n = Len(es) OBVIOUS
<1>0. IsList(es) BY DEF SoundEdges
<1>1. PICK F : BySteps(F, "unlinked", es, <<>>, es) /\ Unlinked(es) = F[n] BY <1>0, UnlinkedBySteps
<1>2. n \in Nat BY <1>0, ListIs
<1> DEFINE Good == {k \in Nat : k <= n => LeftOver(F[k], es, k)}
<1>4. 0 \in Good
  <2>1. F[0] = <<>> BY <1>1 DEF BySteps
  <2>2. IsList(<<>>) /\ Len(<<>>) = 0 BY DEF IsList
  <2>3. LeftOver(F[0], es, 0) BY <2>1, <2>2 DEF LeftOver
  <2> QED BY <2>3
<1>5. ASSUME NEW k \in Nat, k \in Good PROVE k + 1 \in Good
  <2> SUFFICES ASSUME k + 1 <= n PROVE LeftOver(F[k + 1], es, k + 1)
    OBVIOUS
  <2>1. LeftOver(F[k], es, k) BY <1>2, <1>5
  <2>2. k + 1 \in 1..n /\ (k + 1) - 1 = k BY <1>2
  <2>3. F[k + 1] = EdgeKept(F[k], es[k + 1]) BY <1>1, <2>2 DEF BySteps, Stepped, Loaders
  <2> PICK m : m = k + 1 OBVIOUS
  <2> PICK x : x = F[k] OBVIOUS
  <2>4. m \in 1..Len(es) /\ LeftOver(x, es, m - 1) BY <2>1, <2>2
  <2>5. LeftOver(EdgeKept(x, es[m]), es, m) BY <2>4, EdgeKeptIs
  <2> QED BY <2>3, <2>5
<1> HIDE DEF Good
<1>6. Nat \subseteq Good BY <1>4, <1>5, NatInductive
<1>7. n \in Good /\ n <= n BY <1>2, <1>6
<1>8. LeftOver(F[n], es, n) BY <1>7 DEF Good
<1> QED BY <1>1, <1>8

\* The edges of a row join nodes there are.
LEMMA RowEdgesIn ==
  ASSUME NEW nodes, NEW r, NEW e \in Proper(RowEdges(nodes, r))
  PROVE  EdgeSound(e, nodes) /\ e.by = EdgesBy
<1>1. ASSUME NEW acct, NEW ref PROVE Found(nodes, acct, ref) \subseteq DOMAIN nodes
  <2> PICK tiers : tiers = Tiers(nodes, acct, ref) OBVIOUS
  <2>1. \A k \in 1..5 : tiers[k] \subseteq DOMAIN nodes
    <3>1. /\ tiers[1] \subseteq DOMAIN nodes /\ tiers[2] \subseteq DOMAIN nodes /\ tiers[3] \subseteq DOMAIN nodes
          /\ tiers[4] \subseteq DOMAIN nodes /\ tiers[5] \subseteq DOMAIN nodes BY DEF Tiers
    <3>2. \A k \in 1..5 : k \in {1, 2, 3, 4, 5} OBVIOUS
    <3> QED BY <3>1, <3>2
  <2> PICK full : full = {k \in 1..5 : tiers[k] # {}} OBVIOUS
  <2>2. Found(nodes, acct, ref) = IF full = {} THEN {} ELSE tiers[Min(full)] BY Zenon DEF Found
  <2>3. full # {} => Min(full) \in 1..5
    <3>0. PICK n \in Nat : n = 5 OBVIOUS
    <3>3. IsFiniteSet(1..n) BY FS_Interval
    <3>1. IsFiniteSet(1..5) BY <3>0, <3>3
    <3>2. IsFiniteSet(full) /\ full \subseteq Int /\ full \subseteq 1..5 BY <3>1, FS_Subset
    <3> QED BY <3>2, MinIs
  <2> QED BY <2>1, <2>2, <2>3
<1>2. e \in RowEdges(nodes, r) /\ e.from # e.to BY DEF Proper
<1>3. PICK i \in Found(nodes, Resolve(r), r.from), j \in Found(nodes, Resolve(r), r.to) : e = Edge(i, j, EdgesBy)
  BY <1>2 DEF RowEdges
<1>4. e.from = i /\ e.to = j /\ e.by = EdgesBy BY <1>3 DEF Edge
<1>5. i \in DOMAIN nodes /\ j \in DOMAIN nodes BY <1>1, <1>3
<1> QED BY <1>2, <1>4, <1>5 DEF EdgeSound

\* The edges after k rows: those kept, and one of a row at most.
Rejoined(out, kept, nodes, k) ==
  /\ IsList(out) /\ Len(kept) <= Len(out) /\ Len(out) <= Len(kept) + k
  /\ \A i \in 1..Len(kept) : out[i] = kept[i]
  /\ \A i \in Len(kept) + 1..Len(out) : EdgeSound(out[i], nodes) /\ out[i].by = EdgesBy

\* At one row more.
LEMMA EdgeTakenIs ==
  ASSUME NEW kept, IsList(kept), NEW nodes, NEW r, NEW k \in Nat, NEW out, Rejoined(out, kept, nodes, k)
  PROVE  Rejoined(EdgeTaken(nodes, out, r), kept, nodes, k + 1)
<1> PICK n, q : n = Len(out) /\ q = Len(kept) OBVIOUS
<1>1. IsList(out) /\ n \in Nat /\ q \in Nat /\ q <= n /\ n <= q + k BY ListIs DEF Rejoined
<1>2. CASE Proper(RowEdges(nodes, r)) = {}
  <2>1. EdgeTaken(nodes, out, r) = out BY <1>2 DEF EdgeTaken
  <2>2. n <= q + (k + 1) BY <1>1
  <2>3. Rejoined(out, kept, nodes, k + 1) BY <2>2 DEF Rejoined
  <2> QED BY <2>1, <2>3
<1>3. CASE Proper(RowEdges(nodes, r)) # {}
  <2> PICK e : e = CHOOSE x \in Proper(RowEdges(nodes, r)) : TRUE OBVIOUS
  <2> PICK new : new = Append(out, e) OBVIOUS
  <2>1. EdgeTaken(nodes, out, r) = new BY <1>3, Zenon DEF EdgeTaken
  <2>2. e \in Proper(RowEdges(nodes, r)) BY <1>3, Zenon
  <2>3. EdgeSound(e, nodes) /\ e.by = EdgesBy BY <2>2, RowEdgesIn
  <2>4. IsList(new) BY <1>1, ListAppended
  <2>5. Len(new) = n + 1 BY <1>1, ListAppended
  <2>6. \A i \in 1..n : new[i] = out[i] BY <1>1, ListAppended
  <2>7. new[n + 1] = e BY <1>1, ListAppended
  <2>8. q <= Len(new) /\ Len(new) <= q + (k + 1) BY <1>1, <2>5
  <2>9. \A i \in 1..q : new[i] = kept[i]
    <3>1. \A i \in 1..q : i \in 1..n BY <1>1
    <3> QED BY <2>6, <3>1 DEF Rejoined
  <2>10. ASSUME NEW i \in q + 1..Len(new) PROVE EdgeSound(new[i], nodes) /\ new[i].by = EdgesBy
    <3>1. CASE i = n + 1 BY <2>3, <2>7, <3>1
    <3>2. CASE i # n + 1
      <4>1. i \in q + 1..n /\ i \in 1..n BY <1>1, <2>5, <3>2
      <4> QED BY <2>6, <4>1 DEF Rejoined
    <3> QED BY <3>1, <3>2
  <2>11. Rejoined(new, kept, nodes, k + 1) BY <2>4, <2>8, <2>9, <2>10 DEF Rejoined
  <2> QED BY <2>1, <2>11
<1> QED BY <1>2, <1>3

\* All rows of the edges file: an edge of each at most.
LEMMA JoinedIs ==
  ASSUME NEW nodes, NEW kept, IsList(kept), NEW rows, IsList(rows)
  PROVE  Rejoined(Joined(nodes, kept, rows), kept, nodes, Len(rows))
<1> PICK n : n = Len(rows) OBVIOUS
<1>1. PICK F : BySteps(F, "joined", nodes, kept, rows) /\ Joined(nodes, kept, rows) = F[n] BY JoinedBySteps
<1>2. n \in Nat /\ Len(kept) \in Nat BY ListIs
<1> DEFINE Good == {k \in Nat : k <= n => Rejoined(F[k], kept, nodes, k)}
<1>4. 0 \in Good
  <2>1. F[0] = kept BY <1>1 DEF BySteps
  <2>2. Rejoined(F[0], kept, nodes, 0) BY <1>2, <2>1 DEF Rejoined
  <2> QED BY <2>2
<1>5. ASSUME NEW k \in Nat, k \in Good PROVE k + 1 \in Good
  <2> SUFFICES ASSUME k + 1 <= n PROVE Rejoined(F[k + 1], kept, nodes, k + 1)
    OBVIOUS
  <2>1. Rejoined(F[k], kept, nodes, k) BY <1>2, <1>5
  <2>2. k + 1 \in 1..n /\ (k + 1) - 1 = k BY <1>2
  <2>3. F[k + 1] = EdgeTaken(nodes, F[k], rows[k + 1]) BY <1>1, <2>2 DEF BySteps, Stepped, Loaders
  <2> PICK x, r : x = F[k] /\ r = rows[k + 1] OBVIOUS
  <2>4. Rejoined(x, kept, nodes, k) BY <2>1
  <2>5. Rejoined(EdgeTaken(nodes, x, r), kept, nodes, k + 1) BY <2>4, EdgeTakenIs
  <2> QED BY <2>3, <2>5
<1> HIDE DEF Good
<1>6. Nat \subseteq Good BY <1>4, <1>5, NatInductive
<1>7. n \in Good /\ n <= n BY <1>2, <1>6
<1>8. Rejoined(F[n], kept, nodes, n) BY <1>7 DEF Good
<1> QED BY <1>1, <1>8

\* load_signal_edges: never more edges than rows, however often the file is loaded.
LEMMA RelinkedIs ==
  ASSUME NEW d, Sound(d), NEW rows \in EdgeFiles, IsList(rows), NEW e, e = Relinked(d, rows)
  PROVE  Sound(e) /\ e.nodes = d.nodes /\ e.accounts = d.accounts
<1> PICK es, ns : es = d.edges /\ ns = d.nodes OBVIOUS
<1> PICK kept : kept = Unlinked(es) OBVIOUS
<1> PICK new : new = Joined(ns, kept, rows) OBVIOUS
<1>1. SoundEdges(es, ns) BY DEF Sound
<1>2. LeftOver(kept, es, Len(es)) BY <1>1, UnlinkedIs
<1>3. IsList(kept) BY <1>2 DEF LeftOver
<1>4. Rejoined(new, kept, ns, Len(rows)) BY <1>3, JoinedIs
<1> PICK n, q, m : n = Len(new) /\ q = Len(kept) /\ m = Len(rows) OBVIOUS
<1>5. n \in Nat /\ q \in Nat /\ m \in Nat /\ q <= n /\ n <= q + m /\ IsList(new) /\ DOMAIN new = 1..n
  BY <1>3, <1>4, ListIs DEF Rejoined
<1>6. ASSUME NEW i \in 1..q PROVE EdgeSound(new[i], ns) /\ new[i].by # EdgesBy /\ new[i] = kept[i]
  <2>1. new[i] = kept[i] BY <1>4 DEF Rejoined
  <2>2. PICK j \in 1..Len(es) : kept[i] = es[j] /\ es[j].by # EdgesBy BY <1>2 DEF LeftOver
  <2> QED BY <1>1, <2>1, <2>2 DEF SoundEdges
<1>7. ASSUME NEW i \in q + 1..n PROVE EdgeSound(new[i], ns) /\ new[i].by = EdgesBy BY <1>4 DEF Rejoined
<1>8. \A i \in 1..n : i \in 1..q \/ i \in q + 1..n BY <1>5
<1>9. \A i \in 1..n : EdgeSound(new[i], ns) BY <1>6, <1>7, <1>8
<1>10. ASSUME NEW i \in 1..n, NEW j \in 1..n, new[i] = new[j], new[i].by # EdgesBy PROVE i = j
  <2>1. i \in 1..q /\ j \in 1..q BY <1>7, <1>8, <1>10
  <2>2. kept[i] = kept[j] BY <1>6, <1>10, <2>1
  <2> QED BY <1>2, <2>1, <2>2 DEF LeftOver
<1>11. Filings(new) = q + 1..n
  <2>1. \A i \in q + 1..n : i \in 1..n BY <1>5
  <2> QED BY <1>5, <1>6, <1>7, <1>8, <2>1 DEF Filings
<1>12. Cardinality(Filings(new)) <= m
  <2>0. PICK a \in Int : a = q + 1 BY <1>5
  <2>1. n \in Int BY <1>5
  <2>2. Cardinality(a..n) = IF a > n THEN 0 ELSE n - a + 1 BY <2>1, FS_Interval
  <2>3. Filings(new) = a..n BY <1>11, <2>0
  <2> PICK c : c = Cardinality(Filings(new)) OBVIOUS
  <2>4. c = IF a > n THEN 0 ELSE n - a + 1 BY <2>2, <2>3
  <2>5. c <= m BY <1>5, <2>0, <2>4
  <2> QED BY <2>5
<1>13. SoundEdges(new, ns) BY <1>5, <1>9, <1>10, <1>12 DEF SoundEdges
<1>14. e = [accounts |-> d.accounts, nodes |-> d.nodes, edges |-> new] BY DEF Relinked, Sound
<1>15. Sound(e) BY <1>13, <1>14 DEF Sound
<1> QED BY <1>14, <1>15

\* The title of a decision of the graph is no id of a row, and its id no title of one.
LEMMA PlainDecision ==
  ASSUME NEW n, Plain(n), n.kind = "DECISION", NEW s \in Uploaded("decisions.csv")
  PROVE  (s.id # None => n.title # DecisionId(s)) /\ (n.key # None => n.key # s.title)
BY DEF Plain

\* A node that stands for a row is the one Represented looks for.
LEMMA ExtendedStand ==
  ASSUME NEW nodes, SoundNodes(nodes, DOMAIN txn.accounts), IsList(txn.accounts),
         NEW f \in {"stakeholders.csv", "decisions.csv", "engagement_events.csv"},
         NEW rows, Filed(f, rows), NEW new, new = Extended(nodes, f, rows),
         NEW x \in DOMAIN rows, Resolve(rows[x]) # None
  PROVE  Represented(new, f, rows[x], Resolve(rows[x]))
<1> PICK r : r = rows[x] OBVIOUS
<1> PICK a : a = Resolve(r) OBVIOUS
<1>0. f \in Loaders BY DEF Loaders
<1>1. SoundNodes(new, DOMAIN txn.accounts) BY <1>0, ExtendedNodes
<1>2. Grown(nodes, new, f, rows, Len(rows)) BY <1>0, ExtendedIs DEF SoundNodes, Filed
<1>3. x \in 1..Len(rows) BY ListIs DEF Filed
<1>4. ~LeftOut(f, r) BY DEF LeftOut
<1>5. PICK i \in 1..Len(new) : Same(f, new[i], r) \/ new[i] = Made(f, r) BY <1>2, <1>3, <1>4 DEF Grown
<1> PICK n : n = new[i] OBVIOUS
<1>6. i \in DOMAIN new /\ Plain(n) BY <1>1, ListIs DEF SoundNodes
<1>7. n.acct = a /\ (Same(f, n, r) \/ n = Made(f, r)) 
  <2>1. CASE Same(f, n, r) BY <2>1 DEF Same, SameStakeholder, SameDecision, SameEvent
  <2>2. CASE n = Made(f, r) BY <2>2 DEF Made, Stakeholder, FiledDecision, Engagement, N
  <2> QED BY <1>5, <2>1, <2>2
<1>8. CASE f = "stakeholders.csv"
  <2>1. n.kind = "STAKEHOLDER" /\ n.title = r.who
    BY <1>7, <1>8 DEF Same, SameStakeholder, Made, Stakeholder, N
  <2> QED BY <1>6, <1>7, <1>8, <2>1 DEF Represented
<1>9. CASE f = "engagement_events.csv"
  <2>1. n.kind = "SIGNAL" /\ n.sub = "engagement" /\ n.title = r.title /\ n.day = On(r)
    BY <1>7, <1>9 DEF Same, SameEvent, Made, Engagement, N
  <2>2. r.day = 0 \/ n.day = r.day BY <2>1 DEF On
  <2> QED BY <1>6, <1>7, <1>9, <2>1, <2>2 DEF Represented
<1>10. CASE f = "decisions.csv"
  <2>1. r \in Uploaded("decisions.csv") BY <1>10 DEF Filed, Range
  <2>2. r.id = None => DecisionId(r) = None BY DEF DecisionId
  <2>3. n.kind = "DECISION" /\ n.key = DecisionId(r) /\ (r.id = None => n.title = r.title)
    <3>1. CASE n = Made(f, r) BY <1>10, <3>1 DEF Made, FiledDecision, N
    <3>2. CASE Same(f, n, r)
      <4>1. n.kind = "DECISION" /\ (IF n.key = None THEN n.title ELSE n.key) =
            (IF r.id = None THEN r.title ELSE DecisionId(r))
        BY <1>10, <3>2 DEF Same, SameDecision
      <4>2. (r.id # None => n.title # DecisionId(r)) /\ (n.key # None => n.key # r.title)
        <5>1. n.kind = "DECISION" /\ Plain(n) BY <1>6, <4>1
        <5> QED BY <2>1, <5>1, PlainDecision
      <4> QED BY <2>2, <4>1, <4>2
    <3> QED BY <1>7, <3>1, <3>2
  <2> QED BY <1>6, <1>7, <1>10, <2>3 DEF Represented
<1> QED BY <1>8, <1>9, <1>10

\* What stands for a row stands for it in the nodes that follow.
LEMMA RepresentedFollows ==
  ASSUME NEW old, NEW new, IsList(old), IsList(new), Follow(new, old),
         NEW f, NEW r, NEW a, Represented(old, f, r, a)
  PROVE  Represented(new, f, r, a)
<1> PICK n, m : n = Len(old) /\ m = Len(new) OBVIOUS
<1>1. n \in Nat /\ m \in Nat /\ DOMAIN old = 1..n /\ DOMAIN new = 1..m BY ListIs
<1>2. n <= m /\ \A i \in 1..n : new[i] = old[i] BY DEF Follow
<1>3. \A i \in DOMAIN old : i \in DOMAIN new /\ new[i] = old[i] BY <1>1, <1>2
<1>4. CASE f = "stakeholders.csv" BY <1>3, <1>4 DEF Represented
<1>5. CASE f = "decisions.csv" BY <1>3, <1>5 DEF Represented
<1>6. CASE f = "engagement_events.csv" BY <1>3, <1>6 DEF Represented
<1>7. CASE f = "outcomes.csv" BY <1>3, <1>7 DEF Represented
<1>8. CASE f \notin {"stakeholders.csv", "decisions.csv", "engagement_events.csv", "outcomes.csv"}
  BY <1>8 DEF Represented
<1> QED BY <1>4, <1>5, <1>6, <1>7, <1>8

\* Tables that have what others have, and more.
TablesGrow(new, old) == Follow(new.nodes, old.nodes) /\ DOMAIN old.accounts \subseteq DOMAIN new.accounts

\* Rows taken over, as the tables d have them.
DoneIn(taken, d) ==
  \A x \in taken : x[3] # None => /\ x[3] \in DOMAIN d.accounts
                                  /\ x[2].name # None \/ x[2].src # None
                                  /\ Represented(d.nodes, x[1], x[2], x[3])

\* Rows taken over stay in tables that only grow.
LEMMA DoneStays ==
  ASSUME NEW old, NEW new, Sound(old), Sound(new), TablesGrow(new, old), NEW taken, DoneIn(taken, old)
  PROVE  DoneIn(taken, new)
<1>1. IsList(old.nodes) /\ IsList(new.nodes) BY DEF Sound, SoundNodes
<1>2. ASSUME NEW x \in taken, x[3] # None PROVE Represented(new.nodes, x[1], x[2], x[3])
  <2>1. Represented(old.nodes, x[1], x[2], x[3]) BY <1>2 DEF DoneIn
  <2>2. Follow(new.nodes, old.nodes) BY DEF TablesGrow
  <2> QED BY <1>1, <2>1, <2>2, RepresentedFollows
<1> QED BY <1>2 DEF DoneIn, TablesGrow

\* Nodes follow themselves.
LEMMA FollowSelf == ASSUME NEW s, IsList(s) PROVE Follow(s, s)
BY ListIs DEF Follow

\* And what follows them, by another step.
LEMMA FollowOn ==
  ASSUME NEW r, NEW s, NEW t, IsList(r), IsList(s), IsList(t), Follow(t, s), Follow(s, r)
  PROVE  Follow(t, r)
<1> PICK i, j, k : i = Len(r) /\ j = Len(s) /\ k = Len(t) OBVIOUS
<1>1. i \in Nat /\ j \in Nat /\ k \in Nat BY ListIs
<1>2. i <= j /\ j <= k /\ \A x \in 1..i : x \in 1..j BY <1>1 DEF Follow
<1>3. \A x \in 1..i : t[x] = r[x] BY <1>2 DEF Follow
<1> QED BY <1>1, <1>2, <1>3 DEF Follow

\* Nodes put in the place of those they follow.
LEMMA NodesReplaced ==
  ASSUME NEW d, Sound(d), NEW ns, SoundNodes(ns, DOMAIN d.accounts), Follow(ns, d.nodes),
         NEW e, e = [d EXCEPT !.nodes = ns]
  PROVE  Sound(e) /\ e.nodes = ns /\ e.accounts = d.accounts
<1>1. e = [accounts |-> d.accounts, nodes |-> ns, edges |-> d.edges] BY DEF Sound
<1>2. SoundEdges(d.edges, ns)
  <2>1. IsList(d.nodes) /\ IsList(ns) /\ SoundEdges(d.edges, d.nodes) BY DEF Sound, SoundNodes
  <2> QED BY <2>1, EdgesFollow
<1>3. Sound(e) BY <1>1, <1>2 DEF Sound
<1> QED BY <1>1, <1>3

\* load_benchmarks.
LEMMA BenchmarkedIs ==
  ASSUME NEW d, Sound(d), IsList(txn.accounts), DOMAIN d.accounts = DOMAIN txn.accounts,
         NEW rows, IsList(rows), NEW e, e = Benchmarked(d, rows)
  PROVE  Sound(e) /\ Follow(e.nodes, d.nodes) /\ e.accounts = d.accounts
<1> PICK bench : bench = "industry_benchmarks.csv" OBVIOUS
<1>1. CASE d.accounts = <<>>
  <2>1. e = d BY <1>1 DEF Benchmarked
  <2> QED BY <2>1, FollowSelf DEF Sound, SoundNodes
<1>2. CASE d.accounts # <<>>
  <2> PICK ns : ns = Extended(d.nodes, bench, rows) OBVIOUS
  <2>1. e = [d EXCEPT !.nodes = ns] BY <1>2 DEF Benchmarked
  <2>2. txn.accounts # <<>>
    <3> PICK s, t : s = d.accounts /\ t = txn.accounts OBVIOUS
    <3>1. IsList(s) /\ s # <<>> /\ DOMAIN s = DOMAIN t BY <1>2 DEF Sound, SoundAccounts
    <3>2. t # <<>> BY <3>1 DEF IsList
    <3> QED BY <3>2
  <2>3. SoundNodes(d.nodes, DOMAIN txn.accounts) BY DEF Sound
  <2>4. bench \in Loaders /\ Filed(bench, rows) BY DEF Loaders, Filed
  <2>5. SoundNodes(ns, DOMAIN txn.accounts) /\ Follow(ns, d.nodes) BY <2>2, <2>3, <2>4, ExtendedNodes
  <2> QED BY <2>1, <2>5, NodesReplaced
<1> QED BY <1>1, <1>2

\* The files of a run, or staged for one.
Piled(files) ==
  /\ \A f \in Types : IsList(files[f]) /\ Range(files[f]) \subseteq Uploaded(f)
  /\ files["signal_edges.csv"] \in EdgeFiles

\* The rows of a file that have an account are in the graph: one, those before the k-th, all.
Stood(f, r) == Resolve(r) # None => Represented(txn.nodes, f, r, Resolve(r))
StoodTo(f, k) == \A x \in DOMAIN HeldRows(f) : x < k => Stood(f, HeldRows(f)[x])
StoodAll(f) == \A x \in DOMAIN HeldRows(f) : Stood(f, HeldRows(f)[x])

\* How far a run has come that has not failed.
Progress ==
  /\ load.at \in {"outcomes", "commit", "edges", "consume"} => StoodAll("stakeholders.csv")
  /\ load.at = "outcomes" => StoodTo("outcomes.csv", load.row)
  /\ load.at \in {"commit", "edges", "consume"} =>
       StoodAll("outcomes.csv") /\ StoodAll("decisions.csv") /\ StoodAll("engagement_events.csv")

\* Where no phase of a run is under way.
Settled == load.at \in {"idle", "consume", "seed"}

\* What holds at every step of every run.
LoadInv ==
  /\ load = [at |-> load.at, files |-> load.files, row |-> load.row, failed |-> load.failed]
  /\ load.row \in Nat \ {0}
  /\ load.at \in {"accounts", "signals", "stakeholders"} => load.row = 1
  /\ Piled(pile) /\ Piled(load.files)
  /\ Sound(db) /\ Sound(txn) /\ (Settled => txn = db)
  /\ DoneIn(done, db) /\ DoneIn(done, txn)
  /\ ~load.failed => Progress

\* It holds of a tenant as it is at first.
LEMMA LoadInvInit == LoadInit => LoadInv
<1> SUFFICES ASSUME LoadInit PROVE LoadInv OBVIOUS
<1>1. db \in AtFirst /\ txn = db /\ pile = NoFiles /\ load = Waiting /\ done = {} BY DEF LoadInit
<1>2. Sound(db) BY <1>1, AtFirstAssumption, TablesSound
<1>3. load = [at |-> "idle", files |-> NoFiles, row |-> 1, failed |-> FALSE] BY <1>1 DEF Waiting
<1>4. /\ load = [at |-> load.at, files |-> load.files, row |-> load.row, failed |-> load.failed]
      /\ load.at = "idle" /\ load.row = 1 /\ load.files = NoFiles BY <1>3
<1>5. Piled(NoFiles)
  <2>1. \A f \in Types : NoFiles[f] = <<>> BY DEF NoFiles
  <2>2. IsList(<<>>) /\ Range(<<>>) = {} BY DEF IsList, Range
  <2>3. "signal_edges.csv" \in Types BY DEF Types, GraphFiles
  <2>4. <<>> \in EdgeFiles BY DEF EdgeFiles
  <2> QED BY <2>1, <2>2, <2>3, <2>4 DEF Piled
<1>6. DoneIn(done, db) /\ DoneIn(done, txn) BY <1>1 DEF DoneIn
<1>7. Progress BY <1>4 DEF Progress
<1> QED BY <1>1, <1>2, <1>4, <1>5, <1>6, <1>7 DEF LoadInv

\* Files that are staged.
LEMMA StagedPiled ==
  ASSUME NEW batch \in Batch, NEW files, Piled(files),
         NEW more, more = [f \in Types |-> IF f \in DOMAIN batch THEN batch[f] ELSE files[f]]
  PROVE  Piled(more)
<1>1. ASSUME NEW f \in Types PROVE IsList(more[f]) /\ Range(more[f]) \subseteq Uploaded(f)
  <2>1. CASE f \in DOMAIN batch
    <3>1. more[f] = batch[f] BY <2>1
    <3>2. batch[f] \in Seq(Range(batch[f])) BY <2>1, UploadAssumption
    <3>3. IsList(batch[f]) BY <3>2 DEF IsList
    <3>4. Range(batch[f]) \subseteq Uploaded(f)
      <4> PICK R : R = Range(batch[f]) OBVIOUS
      <4>1. R \in {Range(b[f]) : b \in {x \in Batch : f \in DOMAIN x}} BY <2>1
      <4>2. R \subseteq Uploaded(f) BY <4>1 DEF Uploaded
      <4> QED BY <4>2
    <3> QED BY <3>1, <3>3, <3>4
  <2>2. CASE f \notin DOMAIN batch
    <3>1. more[f] = files[f] BY <2>2
    <3> QED BY <3>1 DEF Piled
  <2> QED BY <2>1, <2>2
<1>2. more["signal_edges.csv"] \in EdgeFiles
  <2> PICK f : f = "signal_edges.csv" OBVIOUS
  <2>1. f \in Types BY DEF Types, GraphFiles
  <2>2. CASE f \in DOMAIN batch
    <3>1. more[f] = batch[f] BY <2>1, <2>2
    <3>2. batch["signal_edges.csv"] \in EdgeFiles BY <2>2 DEF EdgeFiles
    <3> QED BY <3>1, <3>2
  <2>3. CASE f \notin DOMAIN batch
    <3>1. more[f] = files[f] BY <2>1, <2>3
    <3> QED BY <3>1 DEF Piled
  <2> QED BY <2>2, <2>3
<1> QED BY <1>1, <1>2 DEF Piled

\* A phase that keeps the files, the rows taken over and the accounts by name, and adds to
\* what the run sees: a row stands where it stood.
LEMMA StoodFollows ==
  ASSUME load'.files = load.files, Sound(txn), Sound(txn'), SameNames(txn'.accounts, txn.accounts),
         Follow(txn'.nodes, txn.nodes), NEW f
  PROVE  /\ StoodAll(f) => StoodAll(f)'
         /\ \A k : StoodTo(f, k) => StoodTo(f, k)'
<1>1. IsList(txn.accounts) /\ IsList(txn'.accounts) /\ IsList(txn.nodes) /\ IsList(txn'.nodes)
  BY DEF Sound, SoundAccounts, SoundNodes
<1>2. HeldRows(f)' = HeldRows(f) BY DEF HeldRows
<1>3. AccountRows' = AccountRows BY DEF AccountRows, HeldRows
<1>4. ASSUME NEW r PROVE Resolve(r)' = Resolve(r)
  <2>1. AccountOf(txn'.accounts, AccountRows, r) = AccountOf(txn.accounts, AccountRows, r)
    BY <1>1, SameNamesResolve
  <2> QED BY <1>3, <2>1 DEF Resolve
<1>5. ASSUME NEW r, Stood(f, r) PROVE Stood(f, r)'
  <2>1. Resolve(r) # None => Represented(txn'.nodes, f, r, Resolve(r))
    BY <1>1, <1>5, RepresentedFollows DEF Stood
  <2> QED BY <1>4, <2>1 DEF Stood
<1> QED BY <1>2, <1>5 DEF StoodAll, StoodTo

\* A phase that keeps the rows taken over and adds to what the run sees, committed or not.
LEMMA PhaseKeeps ==
  ASSUME Sound(db), Sound(txn), DoneIn(done, db), DoneIn(done, txn),
         Sound(txn'), TablesGrow(txn', txn), done' = done, db' = db \/ db' = txn'
  PROVE  Sound(db') /\ DoneIn(done', db') /\ DoneIn(done', txn')
<1>1. DoneIn(done, txn') BY DoneStays
<1> QED BY <1>1

\* Accounts are alike to themselves.
LEMMA SameNamesSelf == ASSUME NEW accounts PROVE SameNames(accounts, accounts)
BY DEF SameNames

\* Tables have what they have.
LEMMA TableGrowsSelf == ASSUME NEW d, Sound(d) PROVE TablesGrow(d, d)
BY FollowSelf DEF TablesGrow, Sound, SoundNodes

\* What a phase does to the run: where it is, its row, whether it failed.
LEMMA RunIs ==
  ASSUME LoadInv, NEW to, load' = [load EXCEPT !.at = to]
  PROVE  load' = [at |-> to, files |-> load.files, row |-> load.row, failed |-> load.failed]
BY DEF LoadInv

\* upload_csv touches no table.
LEMMA StageBatchKeeps == ASSUME LoadInv, NEW b \in Batch, StageBatch(b) PROVE LoadInv'
<1>1. /\ UNCHANGED <<db, txn, load, done>> /\ load.at = "idle"
      /\ pile' = [f \in Types |-> IF f \in DOMAIN b THEN b[f] ELSE pile[f]] BY DEF StageBatch
<1>2. Piled(pile') BY <1>1, StagedPiled DEF LoadInv
<1>3. Progress' BY <1>1 DEF Progress
<1>4. Settled' = Settled BY <1>1 DEF Settled
<1> QED BY <1>1, <1>2, <1>3, <1>4 DEF LoadInv

\* Nor does a new day.
LEMMA TomorrowKeeps == ASSUME LoadInv, Tomorrow PROVE LoadInv'
<1>1. UNCHANGED <<db, txn, load, done, pile>> /\ load.at = "idle" BY DEF Tomorrow
<1>3. Progress' BY <1>1 DEF Progress
<1>4. Settled' = Settled BY <1>1 DEF Settled
<1> QED BY <1>1, <1>3, <1>4 DEF LoadInv

\* A run begins with the files as they are staged.
LEMMA BeginLoadKeeps == ASSUME LoadInv, BeginLoad PROVE LoadInv'
<1>1. /\ load' = [at |-> "accounts", files |-> pile, row |-> 1, failed |-> FALSE]
      /\ txn' = db /\ UNCHANGED <<db, pile, done>> BY DEF BeginLoad, Waiting
<1>2. /\ load' = [at |-> load'.at, files |-> load'.files, row |-> load'.row, failed |-> load'.failed]
      /\ load'.at = "accounts" /\ load'.files = pile /\ load'.row = 1 BY <1>1
<1>3. Progress' BY <1>2 DEF Progress
<1>4. ~Settled' BY <1>2 DEF Settled
<1> QED BY <1>1, <1>2, <1>3, <1>4 DEF LoadInv

\* load_accounts and the stakeholders of the profiles.
LEMMA LoadRosterKeeps == ASSUME LoadInv, LoadRoster PROVE LoadInv'
<1>1. /\ load.at = "accounts" /\ load' = [load EXCEPT !.at = "signals"]
      /\ db' = txn' /\ UNCHANGED <<pile, done>>
      /\ txn' = IF AccountRows = <<>> THEN txn
                ELSE Extracted([txn EXCEPT !.accounts = LoadedAccounts(@, AccountRows)])
  BY DEF LoadRoster, To, Kept, Commit
<1>2. /\ load'.at = "signals" /\ load'.files = load.files /\ load'.row = load.row
      /\ load' = [at |-> load'.at, files |-> load'.files, row |-> load'.row, failed |-> load'.failed]
  BY <1>1, RunIs
<1>3. Sound(txn') /\ TablesGrow(txn', txn)
  <2>1. CASE AccountRows = <<>> BY <1>1, <2>1, TableGrowsSelf DEF LoadInv
  <2>2. CASE AccountRows # <<>>
    <3> PICK rows : rows = AccountRows OBVIOUS
    <3> PICK old, more : old = txn.accounts /\ more = LoadedAccounts(old, rows) OBVIOUS
    <3> PICK d : d = [accounts |-> more, nodes |-> txn.nodes, edges |-> txn.edges] OBVIOUS
    <3>1. Sound(txn) /\ Piled(load.files) BY DEF LoadInv
    <3>2. IsList(rows) /\ Range(rows) \subseteq AccountsGiven
      <4>1. rows = load.files["account_details.csv"] \/ rows = load.files["accounts.csv"]
        BY DEF AccountRows, HeldRows
      <4>2. "account_details.csv" \in Types /\ "accounts.csv" \in Types BY DEF Types
      <4>3. IsList(rows) /\ (Range(rows) \subseteq Uploaded("account_details.csv")
            \/ Range(rows) \subseteq Uploaded("accounts.csv"))
        BY <3>1, <4>1, <4>2 DEF Piled
      <4> QED BY <4>3 DEF AccountsGiven
    <3>3. SoundAccounts(old) BY <3>1 DEF Sound
    <3>4. SoundAccounts(more) /\ Len(old) <= Len(more) BY <3>2, <3>3, LoadedAccountsAre
    <3>5. DOMAIN old \subseteq DOMAIN more
      <4>1. DOMAIN old = 1..Len(old) /\ Len(old) \in Nat BY <3>3, ListIs DEF SoundAccounts
      <4>2. DOMAIN more = 1..Len(more) /\ Len(more) \in Nat BY <3>4, ListIs DEF SoundAccounts
      <4> QED BY <3>4, <4>1, <4>2
    <3>6. [txn EXCEPT !.accounts = LoadedAccounts(@, AccountRows)] = d BY <3>1 DEF Sound
    <3>7. txn' = Extracted(d) BY <1>1, <2>2, <3>6
    <3>8. d = [accounts |-> d.accounts, nodes |-> d.nodes, edges |-> d.edges] /\ d.accounts = more
          /\ d.nodes = txn.nodes /\ d.edges = txn.edges OBVIOUS
    <3>9. SoundNodes(d.nodes, DOMAIN d.accounts) BY <3>1, <3>5, <3>8 DEF Sound, SoundNodes
    <3> PICK e : e = txn' OBVIOUS
    <3>10. SoundAccounts(d.accounts) /\ e = Extracted(d) BY <3>4, <3>7, <3>8
    <3>11. /\ e = [accounts |-> d.accounts, nodes |-> e.nodes, edges |-> d.edges]
           /\ SoundNodes(e.nodes, DOMAIN d.accounts) /\ Follow(e.nodes, d.nodes)
      BY <3>8, <3>9, <3>10, ExtractedIs
    <3>12. e = [accounts |-> more, nodes |-> e.nodes, edges |-> txn.edges]
           /\ SoundNodes(e.nodes, DOMAIN more) /\ Follow(e.nodes, txn.nodes) BY <3>8, <3>11
    <3> HIDE <3>11
    <3>13. SoundEdges(txn.edges, e.nodes)
      <4>1. IsList(txn.nodes) /\ IsList(e.nodes) /\ SoundEdges(txn.edges, txn.nodes)
        BY <3>1, <3>12 DEF Sound, SoundNodes
      <4> QED BY <3>12, <4>1, EdgesFollow
    <3>14. e.accounts = more /\ e.edges = txn.edges BY <3>12
    <3>15. Sound(e) BY <3>4, <3>12, <3>13, <3>14 DEF Sound
    <3>16. TablesGrow(e, txn) BY <3>5, <3>12, <3>14 DEF TablesGrow
    <3> QED BY <3>15, <3>16
  <2> QED BY <2>1, <2>2
<1>4. Sound(db') /\ DoneIn(done', db') /\ DoneIn(done', txn') BY <1>1, <1>3, PhaseKeeps DEF LoadInv
<1>5. Progress' BY <1>2 DEF Progress
<1>6. load.row = 1 /\ load.row \in Nat \ {0} /\ Piled(load.files) /\ Piled(pile) BY <1>1 DEF LoadInv
<1> QED BY <1>1, <1>2, <1>3, <1>4, <1>5, <1>6 DEF LoadInv

\* A file of nodes taken over by a phase.
LEMMA WithRowsIs ==
  ASSUME LoadInv, NEW f \in {"enhanced_qualitative_signals.csv", "stakeholders.csv"},
         NEW e, e = WithRowsOf(f)
  PROVE  /\ Sound(e) /\ TablesGrow(e, txn) /\ e.accounts = txn.accounts
         /\ e.nodes = Extended(txn.nodes, f, HeldRows(f))
<1> PICK rows : rows = HeldRows(f) OBVIOUS
<1> PICK ns : ns = Extended(txn.nodes, f, rows) OBVIOUS
<1>1. Sound(txn) /\ Piled(load.files) BY DEF LoadInv
<1>2. e = [txn EXCEPT !.nodes = ns] BY DEF WithRowsOf
<1>3. f \in Loaders /\ f # "industry_benchmarks.csv" /\ Filed(f, rows)
  <2>1. f \in Types BY DEF Types, GraphFiles
  <2>2. IsList(rows) BY <1>1, <2>1 DEF Piled, HeldRows
  <2> QED BY <2>2 DEF Loaders, Filed
<1>4. IsList(txn.accounts) /\ SoundNodes(txn.nodes, DOMAIN txn.accounts) BY <1>1 DEF Sound, SoundAccounts
<1>5. SoundNodes(ns, DOMAIN txn.accounts) /\ Follow(ns, txn.nodes) BY <1>3, <1>4, ExtendedNodes
<1>6. Sound(e) /\ e.nodes = ns /\ e.accounts = txn.accounts BY <1>1, <1>2, <1>5, NodesReplaced
<1> QED BY <1>5, <1>6 DEF TablesGrow

\* load_signals.
LEMMA LoadSignalsKeeps == ASSUME LoadInv, LoadSignals PROVE LoadInv'
<1>1. /\ load.at = "signals" /\ load' = [load EXCEPT !.at = "stakeholders"]
      /\ db' = txn' /\ UNCHANGED <<pile, done>> /\ txn' = WithRowsOf("enhanced_qualitative_signals.csv")
  BY DEF LoadSignals, To, Kept, Commit
<1>2. /\ load'.at = "stakeholders" /\ load'.files = load.files /\ load'.row = load.row
      /\ load' = [at |-> load'.at, files |-> load'.files, row |-> load'.row, failed |-> load'.failed]
  BY <1>1, RunIs
<1>3. Sound(txn') /\ TablesGrow(txn', txn) BY <1>1, WithRowsIs
<1>4. Sound(db') /\ DoneIn(done', db') /\ DoneIn(done', txn') BY <1>1, <1>3, PhaseKeeps DEF LoadInv
<1>5. Progress' BY <1>2 DEF Progress
<1>6. load.row = 1 /\ load.row \in Nat \ {0} /\ Piled(load.files) /\ Piled(pile) BY <1>1 DEF LoadInv
<1> QED BY <1>1, <1>2, <1>3, <1>4, <1>5, <1>6 DEF LoadInv

\* load_stakeholders: its rows stand for nodes from here on.
LEMMA LoadStakeholdersKeeps == ASSUME LoadInv, LoadStakeholders PROVE LoadInv'
<1> PICK f : f = "stakeholders.csv" OBVIOUS
<1>1. /\ load.at = "stakeholders" /\ load' = [load EXCEPT !.at = "outcomes"]
      /\ db' = db /\ UNCHANGED <<pile, done>> /\ txn' = WithRowsOf(f)
  BY DEF LoadStakeholders, To, Kept, Hold
<1>2. /\ load'.at = "outcomes" /\ load'.files = load.files /\ load'.row = load.row
      /\ load' = [at |-> load'.at, files |-> load'.files, row |-> load'.row, failed |-> load'.failed]
  BY <1>1, RunIs
<1>3. /\ Sound(txn') /\ TablesGrow(txn', txn) /\ txn'.accounts = txn.accounts
      /\ txn'.nodes = Extended(txn.nodes, f, HeldRows(f)) BY <1>1, WithRowsIs
<1>4. Sound(db') /\ DoneIn(done', db') /\ DoneIn(done', txn') BY <1>1, <1>3, PhaseKeeps DEF LoadInv
<1>6. load.row = 1 /\ load.row \in Nat \ {0} /\ Piled(load.files) /\ Piled(pile) /\ Sound(txn)
  BY <1>1 DEF LoadInv
<1>5. Progress'
  <2>1. StoodAll(f)'
    <3>1. Filed(f, HeldRows(f))
      <4>1. f \in Types BY DEF Types, GraphFiles
      <4>2. IsList(HeldRows(f)) BY <1>6, <4>1 DEF Piled, HeldRows
      <4> QED BY <4>2 DEF Filed
    <3>2. IsList(txn.accounts) /\ SoundNodes(txn.nodes, DOMAIN txn.accounts) BY <1>6 DEF Sound, SoundAccounts
    <3>3. \A x \in DOMAIN HeldRows(f) : Resolve(HeldRows(f)[x]) # None =>
             Represented(txn'.nodes, f, HeldRows(f)[x], Resolve(HeldRows(f)[x]))
      BY <1>3, <3>1, <3>2, ExtendedStand
    <3>4. HeldRows(f)' = HeldRows(f) /\ AccountRows' = AccountRows BY <1>2 DEF HeldRows, AccountRows
    <3>5. \A r : Resolve(r)' = Resolve(r) BY <1>3, <3>4 DEF Resolve
    <3> QED BY <3>3, <3>4, <3>5 DEF StoodAll, Stood
  <2>2. StoodTo("outcomes.csv", load.row)'
    <3>1. load'.row = 1 BY <1>2, <1>6
    <3>2. IsList(HeldRows("outcomes.csv"))
      <4>1. "outcomes.csv" \in Types BY DEF Types, GraphFiles
      <4> QED BY <1>6, <4>1 DEF Piled, HeldRows
    <3>3. HeldRows("outcomes.csv")' = HeldRows("outcomes.csv") BY <1>2 DEF HeldRows
    <3>4. \A x \in DOMAIN HeldRows("outcomes.csv") : ~(x < 1) BY <3>2, ListIs
    <3> QED BY <3>1, <3>3, <3>4 DEF StoodTo
  <2> QED BY <1>2, <2>1, <2>2 DEF Progress
<1>7. ~Settled' BY <1>2 DEF Settled
<1> QED BY <1>1, <1>2, <1>3, <1>4, <1>5, <1>6, <1>7 DEF LoadInv

\* A file of the run is a list of rows that were uploaded.
LEMMA HeldFiled ==
  ASSUME Piled(load.files), NEW f \in Types
  PROVE  Filed(f, HeldRows(f))
<1>1. IsList(HeldRows(f)) /\ Range(HeldRows(f)) \subseteq Uploaded(f) BY DEF Piled, HeldRows
<1> QED BY <1>1 DEF Filed

\* load_outcomes, a row and its commit.
LEMMA LoadOutcomeKeeps == ASSUME LoadInv, LoadOutcome PROVE LoadInv'
<1> PICK f : f = "outcomes.csv" OBVIOUS
<1> PICK rows : rows = HeldRows(f) OBVIOUS
<1> PICK r : r = rows[load.row] OBVIOUS
<1> PICK acct : acct = Resolve(r) OBVIOUS
<1> PICK next : next = IF acct = None THEN txn ELSE LogOutcome(txn, acct, r, "process_data.linked_signal_id") OBVIOUS
<1>1. /\ load.at = "outcomes" /\ load.row \in DOMAIN rows /\ load' = [load EXCEPT !.row = @ + 1]
      /\ UNCHANGED <<pile, done>>
      /\ IF next = txn THEN UNCHANGED <<db, txn>> ELSE Commit(next)
  BY Zenon DEF LoadOutcome, Kept
<1>2. txn' = next /\ (db' = db \/ db' = txn') BY <1>1 DEF Commit
<1>3. /\ load.row \in Nat \ {0} /\ Piled(load.files) /\ Piled(pile) /\ Sound(txn)
      /\ load = [at |-> load.at, files |-> load.files, row |-> load.row, failed |-> load.failed] BY DEF LoadInv
<1>4. /\ load'.at = "outcomes" /\ load'.files = load.files /\ load'.row = load.row + 1
      /\ load' = [at |-> load'.at, files |-> load'.files, row |-> load'.row, failed |-> load'.failed]
      /\ load'.failed = load.failed
  <2>1. load' = [at |-> load.at, files |-> load.files, row |-> load.row + 1, failed |-> load.failed]
    BY <1>1, <1>3
  <2> QED BY <1>1, <2>1
<1>5. /\ Sound(next) /\ Follow(next.nodes, txn.nodes) /\ next.accounts = txn.accounts
      /\ acct # None => Represented(next.nodes, f, r, acct)
  <2>1. IsList(txn.accounts) /\ IsList(txn.nodes) BY <1>3 DEF Sound, SoundAccounts, SoundNodes
  <2>2. CASE acct = None BY <1>3, <2>1, <2>2, FollowSelf
  <2>3. CASE acct # None
    <3>1. acct \in DOMAIN txn.accounts BY <2>1, <2>3, ResolvedIn
    <3> PICK by : by = "process_data.linked_signal_id" OBVIOUS
    <3>2. by # EdgesBy BY DEF EdgesBy
    <3>3. next = LogOutcome(txn, acct, r, by) BY <2>3
    <3>4. /\ Sound(next) /\ Follow(next.nodes, txn.nodes) /\ next.accounts = txn.accounts
          /\ Represented(next.nodes, "outcomes.csv", r, acct) BY <1>3, <3>1, <3>2, <3>3, LogOutcomeIs
    <3> QED BY <3>4
  <2> QED BY <2>2, <2>3
<1>6. Sound(txn') /\ TablesGrow(txn', txn) BY <1>2, <1>5 DEF TablesGrow
<1>7. Sound(db') /\ DoneIn(done', db') /\ DoneIn(done', txn') BY <1>1, <1>2, <1>6, PhaseKeeps DEF LoadInv
<1>8. ASSUME ~load.failed PROVE Progress'
  <2>1. StoodAll("stakeholders.csv") /\ StoodTo(f, load.row) BY <1>1, <1>8 DEF LoadInv, Progress
  <2>2. SameNames(txn'.accounts, txn.accounts) BY <1>2, <1>5, SameNamesSelf
  <2>3. Follow(txn'.nodes, txn.nodes) BY <1>2, <1>5
  <2>4. StoodAll("stakeholders.csv")' BY <1>3, <1>4, <1>6, <2>1, <2>2, <2>3, StoodFollows
  <2>5. StoodTo(f, load.row) => \A x \in DOMAIN HeldRows(f)' : x < load.row => Stood(f, HeldRows(f)[x])'
    <3> PICK k : k = load.row OBVIOUS
    <3>1. StoodTo(f, k) => StoodTo(f, k)' BY <1>3, <1>4, <1>6, <2>2, <2>3, StoodFollows
    <3> QED BY <3>1 DEF StoodTo
  <2>6. HeldRows(f)' = rows /\ AccountRows' = AccountRows BY <1>4 DEF HeldRows, AccountRows
  <2>7. Stood(f, r)'
    <3>1. Resolve(r)' = acct BY <1>2, <1>5, <2>6 DEF Resolve
    <3> QED BY <1>2, <1>5, <3>1 DEF Stood
  <2>8. ASSUME NEW x \in DOMAIN rows, x < load.row + 1 PROVE Stood(f, rows[x])'
    <3>1. CASE x = load.row BY <2>7, <3>1
    <3>2. CASE x # load.row
      <4>1. DOMAIN rows = 1..Len(rows) /\ Len(rows) \in Nat
        <5>1. f \in Types BY DEF Types, GraphFiles
        <5>2. IsList(rows) BY <1>3, <5>1, HeldFiled DEF Filed
        <5> QED BY <5>2, ListIs
      <4>2. x < load.row BY <1>3, <2>8, <3>2, <4>1
      <4> QED BY <2>1, <2>5, <2>6, <4>2
    <3> QED BY <3>1, <3>2
  <2>9. StoodTo(f, load.row)' BY <1>4, <2>6, <2>8 DEF StoodTo
  <2> QED BY <1>4, <2>4, <2>9 DEF Progress
<1>9. load'.row \in Nat \ {0} BY <1>3, <1>4
<1>10. ~Settled' BY <1>4 DEF Settled
<1> QED BY <1>1, <1>3, <1>4, <1>6, <1>7, <1>8, <1>9, <1>10 DEF LoadInv

\* The commit of the nodes.
LEMMA CommitNodesKeeps == ASSUME LoadInv, CommitNodes PROVE LoadInv'
<1>1. /\ load.at = "commit" /\ load' = [load EXCEPT !.at = "edges"]
      /\ db' = txn /\ txn' = txn /\ UNCHANGED <<pile, done>>
  BY DEF CommitNodes, To, Kept, Commit
<1>2. load' = [at |-> "edges", files |-> load.files, row |-> load.row, failed |-> load.failed] BY <1>1, RunIs
<1>3. /\ load'.at = "edges" /\ load'.files = load.files /\ load'.row = load.row /\ load'.failed = load.failed
      /\ load' = [at |-> load'.at, files |-> load'.files, row |-> load'.row, failed |-> load'.failed] BY <1>2
<1>4. Sound(txn) /\ DoneIn(done, txn) /\ Piled(pile) /\ Piled(load.files) /\ load.row \in Nat \ {0}
  BY DEF LoadInv
<1>5. ASSUME ~load.failed PROVE Progress'
  <2>1. /\ StoodAll("stakeholders.csv") /\ StoodAll("outcomes.csv")
        /\ StoodAll("decisions.csv") /\ StoodAll("engagement_events.csv") BY <1>1, <1>5 DEF LoadInv, Progress
  <2>2. SameNames(txn'.accounts, txn.accounts) /\ Follow(txn'.nodes, txn.nodes)
    BY <1>1, <1>4, FollowSelf, SameNamesSelf DEF Sound, SoundNodes
  <2>3. Sound(txn') BY <1>1, <1>4
  <2>4. \A f : StoodAll(f) => StoodAll(f)' BY <1>3, <1>4, <2>2, <2>3, StoodFollows
  <2> QED BY <1>3, <2>1, <2>4 DEF Progress
<1>6. ~Settled' BY <1>3 DEF Settled
<1> QED BY <1>1, <1>3, <1>4, <1>5, <1>6 DEF LoadInv

\* load_signal_edges.
LEMMA LoadEdgesKeeps == ASSUME LoadInv, LoadEdges PROVE LoadInv'
<1> PICK rows : rows = HeldRows("signal_edges.csv") OBVIOUS
<1>1. /\ load.at = "edges" /\ load' = [load EXCEPT !.at = "consume"] /\ UNCHANGED <<pile, done>>
      /\ txn' = (IF rows = <<>> THEN txn ELSE Relinked(txn, rows)) /\ db' = txn'
  BY DEF LoadEdges, To, Kept, Commit
<1>2. load' = [at |-> "consume", files |-> load.files, row |-> load.row, failed |-> load.failed] BY <1>1, RunIs
<1>3. /\ load'.at = "consume" /\ load'.files = load.files /\ load'.row = load.row /\ load'.failed = load.failed
      /\ load' = [at |-> load'.at, files |-> load'.files, row |-> load'.row, failed |-> load'.failed] BY <1>2
<1>4. Sound(txn) /\ Piled(pile) /\ Piled(load.files) /\ load.row \in Nat \ {0} BY DEF LoadInv
<1>5. Sound(txn') /\ txn'.nodes = txn.nodes /\ txn'.accounts = txn.accounts
  <2>1. CASE rows = <<>> BY <1>1, <1>4, <2>1
  <2>2. CASE rows # <<>>
    <3>1. rows \in EdgeFiles BY <1>4 DEF Piled, HeldRows
    <3>2. "signal_edges.csv" \in Types BY DEF Types, GraphFiles
    <3>3. IsList(rows) BY <1>4, <3>2, HeldFiled DEF Filed
    <3> QED BY <1>1, <1>4, <2>2, <3>1, <3>3, RelinkedIs
  <2> QED BY <2>1, <2>2
<1>6. TablesGrow(txn', txn) BY <1>4, <1>5, FollowSelf DEF TablesGrow, Sound, SoundNodes
<1>7. Sound(db') /\ DoneIn(done', db') /\ DoneIn(done', txn') BY <1>1, <1>5, <1>6, PhaseKeeps DEF LoadInv
<1>8. ASSUME ~load.failed PROVE Progress'
  <2>1. /\ StoodAll("stakeholders.csv") /\ StoodAll("outcomes.csv")
        /\ StoodAll("decisions.csv") /\ StoodAll("engagement_events.csv") BY <1>1, <1>8 DEF LoadInv, Progress
  <2>2. SameNames(txn'.accounts, txn.accounts) /\ Follow(txn'.nodes, txn.nodes)
    BY <1>5, <1>6, SameNamesSelf DEF TablesGrow
  <2>4. \A f : StoodAll(f) => StoodAll(f)' BY <1>3, <1>4, <1>5, <2>2, StoodFollows
  <2> QED BY <1>3, <2>1, <2>4 DEF Progress
<1> QED BY <1>1, <1>3, <1>4, <1>5, <1>7, <1>8 DEF LoadInv

\* A phase that fails: what is committed holds what was taken over.
LEMMA PhaseBreaksKeeps == ASSUME LoadInv, PhaseBreaks PROVE LoadInv'
<1> PICK to : to = IF load.at \in {"accounts", "signals"} THEN "stakeholders" ELSE "consume" OBVIOUS
<1>1. /\ load' = [load EXCEPT !.failed = TRUE,
                            !.at = IF @ \in {"accounts", "signals"} THEN "stakeholders" ELSE "consume"]
      /\ db' = db /\ txn' = db /\ UNCHANGED <<pile, done>>
  BY DEF PhaseBreaks, Commit
<1>2. load' = [at |-> to, files |-> load.files, row |-> load.row, failed |-> TRUE] BY <1>1 DEF LoadInv
<1>3. /\ load'.at = to /\ load'.files = load.files /\ load'.row = load.row /\ load'.failed = TRUE
      /\ load' = [at |-> load'.at, files |-> load'.files, row |-> load'.row, failed |-> load'.failed] BY <1>2
<1>4. to \in {"accounts", "signals", "stakeholders"} => load.row = 1 BY DEF LoadInv
<1> QED BY <1>1, <1>3, <1>4 DEF LoadInv

\* The staging is emptied: its rows are in the graph.
LEMMA ConsumeFilesKeeps == ASSUME LoadInv, ConsumeFiles PROVE LoadInv'
<1>1. /\ load.at = "consume" /\ load' = [load EXCEPT !.at = "seed"] /\ UNCHANGED <<db, txn>>
      /\ IF load.failed THEN UNCHANGED <<pile, done>> ELSE pile' = NoFiles /\ done' = done \cup Taken
  BY DEF ConsumeFiles, To
<1>2. load' = [at |-> "seed", files |-> load.files, row |-> load.row, failed |-> load.failed] BY <1>1, RunIs
<1>3. /\ load'.at = "seed" /\ load'.files = load.files /\ load'.row = load.row /\ load'.failed = load.failed
      /\ load' = [at |-> load'.at, files |-> load'.files, row |-> load'.row, failed |-> load'.failed] BY <1>2
<1>4. /\ Sound(db) /\ txn = db /\ DoneIn(done, db) /\ Piled(pile) /\ Piled(load.files) /\ load.row \in Nat \ {0}
  BY <1>1 DEF LoadInv, Settled
<1>5. Piled(NoFiles)
  <2>1. \A f \in Types : NoFiles[f] = <<>> BY DEF NoFiles
  <2>2. IsList(<<>>) /\ Range(<<>>) = {} BY DEF IsList, Range
  <2>3. "signal_edges.csv" \in Types BY DEF Types, GraphFiles
  <2>4. <<>> \in EdgeFiles BY DEF EdgeFiles
  <2> QED BY <2>1, <2>2, <2>3, <2>4 DEF Piled
<1>6. Piled(pile') BY <1>1, <1>4, <1>5
<1>7. ASSUME ~load.failed, NEW x \in Taken, x[3] # None
      PROVE  /\ x[3] \in DOMAIN db.accounts
             /\ x[2].name # None \/ x[2].src # None
             /\ Represented(db.nodes, x[1], x[2], x[3])
  <2>0. PICK f \in GraphFiles \ {"industry_benchmarks.csv"} : \E r \in Range(HeldRows(f)) : x = <<f, r, Resolve(r)>>
    BY DEF Taken
  <2>1. PICK r \in Range(HeldRows(f)) : x = <<f, r, Resolve(r)>> BY <2>0
  <2>2. x[1] = f /\ x[2] = r /\ x[3] = Resolve(r) BY <2>1
  <2>3. IsList(txn.accounts) BY <1>4 DEF Sound, SoundAccounts
  <2>4. Resolve(r) \in DOMAIN txn.accounts /\ (r.name # None \/ r.src # None) BY <1>7, <2>2, <2>3, ResolvedIn
  <2>5. Represented(txn.nodes, f, r, Resolve(r))
    <3>1. CASE f \in {"stakeholders.csv", "outcomes.csv", "decisions.csv", "engagement_events.csv"}
      <4>1. StoodAll(f) BY <1>1, <1>7, <3>1 DEF LoadInv, Progress
      <4>2. Stood(f, r) BY <4>1 DEF StoodAll, Range
      <4> QED BY <1>7, <2>2, <4>2 DEF Stood
    <3>2. CASE f \notin {"stakeholders.csv", "outcomes.csv", "decisions.csv", "engagement_events.csv"}
      BY <3>2 DEF Represented
    <3> QED BY <3>1, <3>2
  <2> QED BY <1>4, <2>2, <2>4, <2>5
<1>8. DoneIn(done', db)
  <2>1. CASE load.failed BY <1>1, <1>4, <2>1
  <2>2. CASE ~load.failed BY <1>1, <1>4, <1>7, <2>2 DEF DoneIn
  <2> QED BY <2>1, <2>2
<1>9. Progress' BY <1>3 DEF Progress
<1> QED BY <1>1, <1>3, <1>4, <1>6, <1>8, <1>9 DEF LoadInv

\* seed_platform_benchmarks.
LEMMA SeedBenchmarksKeeps == ASSUME LoadInv, SeedBenchmarks PROVE LoadInv'
<1>1. /\ load.at = "seed" /\ load' = Waiting /\ UNCHANGED <<pile, done>> /\ db' = txn'
      /\ txn' = db \/ txn' = Benchmarked(db, Curated)
  BY DEF SeedBenchmarks, Commit, Kept
<1>2. /\ load'.at = "idle" /\ load'.files = NoFiles /\ load'.row = 1
      /\ load' = [at |-> load'.at, files |-> load'.files, row |-> load'.row, failed |-> load'.failed]
  BY <1>1 DEF Waiting
<1>3. Sound(db) /\ txn = db /\ Piled(pile) BY <1>1 DEF LoadInv, Settled
<1>4. Sound(txn') /\ TablesGrow(txn', txn)
  <2>1. CASE txn' = db BY <1>3, <2>1, TableGrowsSelf
  <2>2. CASE txn' = Benchmarked(db, Curated)
    <3> PICK e : e = txn' OBVIOUS
    <3>1. IsList(Curated) BY UploadAssumption DEF IsList
    <3>2. IsList(txn.accounts) /\ DOMAIN db.accounts = DOMAIN txn.accounts BY <1>3 DEF Sound, SoundAccounts
    <3>3. e = Benchmarked(db, Curated) BY <2>2
    <3>4. Sound(e) /\ Follow(e.nodes, db.nodes) /\ e.accounts = db.accounts
      BY <1>3, <3>1, <3>2, <3>3, BenchmarkedIs
    <3> QED BY <1>3, <3>4 DEF TablesGrow
  <2> QED BY <1>1, <2>1, <2>2
<1>5. Sound(db') /\ DoneIn(done', db') /\ DoneIn(done', txn') BY <1>1, <1>4, PhaseKeeps DEF LoadInv
<1>6. Piled(NoFiles)
  <2>1. \A f \in Types : NoFiles[f] = <<>> BY DEF NoFiles
  <2>2. IsList(<<>>) /\ Range(<<>>) = {} BY DEF IsList, Range
  <2>3. "signal_edges.csv" \in Types BY DEF Types, GraphFiles
  <2>4. <<>> \in EdgeFiles BY DEF EdgeFiles
  <2> QED BY <2>1, <2>2, <2>3, <2>4 DEF Piled
<1>7. Progress' BY <1>2 DEF Progress
<1> QED BY <1>1, <1>2, <1>3, <1>4, <1>5, <1>6, <1>7 DEF LoadInv

\* An outcome a person logs between runs.
LEMMA PersonLogsKeeps == ASSUME LoadInv, NEW r \in Logged, PersonLogs(r) PROVE LoadInv'
<1> PICK acct : acct = AccountOf(db.accounts, <<>>, r) OBVIOUS
<1> PICK by : by = "log_outcome" OBVIOUS
<1>1. /\ load.at = "idle" /\ UNCHANGED <<pile, load, done>> /\ acct # None
      /\ db' = txn' /\ txn' = LogOutcome(db, acct, r, by)
  BY DEF PersonLogs, Commit
<1>2. Sound(db) /\ txn = db BY <1>1 DEF LoadInv, Settled
<1>3. Sound(txn') /\ TablesGrow(txn', txn)
  <2>1. IsList(db.accounts) BY <1>2 DEF Sound, SoundAccounts
  <2>2. acct \in DOMAIN db.accounts BY <1>1, <2>1, AccountFound
  <2>3. by # EdgesBy BY DEF EdgesBy
  <2> PICK e : e = txn' OBVIOUS
  <2>4. e = LogOutcome(db, acct, r, by) BY <1>1
  <2>5. Sound(e) /\ Follow(e.nodes, db.nodes) /\ e.accounts = db.accounts
    BY <1>2, <2>2, <2>3, <2>4, LogOutcomeIs
  <2> QED BY <1>2, <2>5 DEF TablesGrow
<1>4. Sound(db') /\ DoneIn(done', db') /\ DoneIn(done', txn') BY <1>1, <1>3, PhaseKeeps DEF LoadInv
<1>5. Progress' BY <1>1 DEF Progress
<1> QED BY <1>1, <1>3, <1>4, <1>5 DEF LoadInv

\* A database with its accounts replaced.
LEMMA AccountsSet == ASSUME NEW a, NEW n, NEW x, NEW p, NEW t, t = [accounts |-> a, nodes |-> n, edges |-> x]
 PROVE [t EXCEPT !.accounts = p] = [accounts |-> p, nodes |-> n, edges |-> x]
OBVIOUS

\* A database with its nodes replaced.
LEMMA NodesSet == ASSUME NEW a, NEW n, NEW x, NEW p, NEW t, t = [accounts |-> a, nodes |-> n, edges |-> x]
 PROVE [t EXCEPT !.nodes = p] = [accounts |-> a, nodes |-> p, edges |-> x]
OBVIOUS

\* Replacing both at once is replacing one after the other.
LEMMA SetInTurn == ASSUME NEW t, NEW m, NEW p
 PROVE [t EXCEPT !.nodes = m, !.accounts = p] = [[t EXCEPT !.nodes = m] EXCEPT !.accounts = p]
OBVIOUS

\* A database with its nodes and its accounts replaced.
LEMMA BothSet ==
  ASSUME NEW a, NEW n, NEW x, NEW p, NEW m, NEW t, t = [accounts |-> a, nodes |-> n, edges |-> x],
         NEW e, e = [t EXCEPT !.nodes = m, !.accounts = p]
  PROVE  e = [accounts |-> p, nodes |-> m, edges |-> x]
<1>1. PICK u : u = [t EXCEPT !.nodes = m] OBVIOUS
<1>2. u = [accounts |-> a, nodes |-> m, edges |-> x] BY <1>1, NodesSet
<1>3. PICK v : v = [u EXCEPT !.accounts = p] OBVIOUS
<1>4. v = [accounts |-> p, nodes |-> m, edges |-> x] BY <1>2, <1>3, AccountsSet
<1>5. v = e BY <1>1, <1>3, SetInTurn
<1> QED BY <1>4, <1>5

\* load_decisions, load_engagement, load_business_profiles and load_benchmarks.
LEMMA LoadNodesKeeps == ASSUME LoadInv, LoadNodes PROVE LoadInv'
<1> PICK dec, eng : dec = "decisions.csv" /\ eng = "engagement_events.csv" OBVIOUS
<1> PICK decided : decided = Extended(txn.nodes, dec, HeldRows(dec)) OBVIOUS
<1> PICK engaged : engaged = Extended(decided, eng, HeldRows(eng)) OBVIOUS
<1> PICK profiled : profiled = Profiled(txn.accounts, HeldRows("account_business_profiles.csv")) OBVIOUS
<1> PICK d : d = [accounts |-> profiled, nodes |-> engaged, edges |-> txn.edges] OBVIOUS
<1>1. Sound(txn) /\ Piled(pile) /\ Piled(load.files) /\ load.row \in Nat \ {0} BY DEF LoadInv
<1>2. /\ load.at = "outcomes" /\ load.row > Len(HeldRows("outcomes.csv")) /\ load' = [load EXCEPT !.at = "commit"]
      /\ UNCHANGED <<pile, done>> /\ db' = db
      /\ txn' = Benchmarked(d, HeldRows("industry_benchmarks.csv"))
  <2>1. txn = [accounts |-> txn.accounts, nodes |-> txn.nodes, edges |-> txn.edges] BY <1>1 DEF Sound
  <2>2. PICK a, n, x : a = txn.accounts /\ n = txn.nodes /\ x = txn.edges OBVIOUS
  <2>3. txn = [accounts |-> a, nodes |-> n, edges |-> x] BY <2>1, <2>2
  <2>4. profiled = Profiled(a, HeldRows("account_business_profiles.csv")) BY <2>2
  <2>5. PICK e : e = [txn EXCEPT !.nodes = engaged, !.accounts = profiled] OBVIOUS
  <2>6. e = [accounts |-> profiled, nodes |-> engaged, edges |-> x] BY <2>3, <2>5, BothSet
  <2>7. e = [txn EXCEPT !.nodes = engaged, !.accounts = Profiled(@, HeldRows("account_business_profiles.csv"))]
    BY <2>2, <2>4, <2>5
  <2>8. e = d BY <2>2, <2>6
  <2> QED BY <2>7, <2>8 DEF LoadNodes, To, Kept, Hold
<1>3. load' = [at |-> "commit", files |-> load.files, row |-> load.row, failed |-> load.failed] BY <1>2, RunIs
<1>4. /\ load'.at = "commit" /\ load'.files = load.files /\ load'.row = load.row /\ load'.failed = load.failed
      /\ load' = [at |-> load'.at, files |-> load'.files, row |-> load'.row, failed |-> load'.failed] BY <1>3
<1>5. \A f \in Types : Filed(f, HeldRows(f)) BY <1>1, HeldFiled
<1>6. {dec, eng, "outcomes.csv", "industry_benchmarks.csv", "account_business_profiles.csv"} \subseteq Types
  BY DEF Types, GraphFiles
<1>7. dec \in Loaders /\ eng \in Loaders /\ dec # "industry_benchmarks.csv" /\ eng # "industry_benchmarks.csv"
  BY DEF Loaders
<1>8. /\ SoundAccounts(txn.accounts) /\ IsList(txn.accounts) /\ IsList(txn.nodes)
      /\ SoundNodes(txn.nodes, DOMAIN txn.accounts) /\ SoundEdges(txn.edges, txn.nodes)
  BY <1>1 DEF Sound, SoundAccounts, SoundNodes
<1>9. SoundNodes(decided, DOMAIN txn.accounts) /\ Follow(decided, txn.nodes)
  BY <1>5, <1>6, <1>7, <1>8, ExtendedNodes
<1>10. SoundNodes(engaged, DOMAIN txn.accounts) /\ Follow(engaged, decided)
  BY <1>5, <1>6, <1>7, <1>8, <1>9, ExtendedNodes
<1>11. IsList(decided) /\ IsList(engaged) BY <1>9, <1>10 DEF SoundNodes
<1>12. Follow(engaged, txn.nodes) BY <1>8, <1>9, <1>10, <1>11, FollowOn
<1>13. SoundAccounts(profiled) /\ SameNames(profiled, txn.accounts)
  <2>1. IsList(HeldRows("account_business_profiles.csv")) BY <1>5, <1>6 DEF Filed
  <2> QED BY <1>8, <2>1, ProfiledAre
<1>14. DOMAIN profiled = DOMAIN txn.accounts
  <2>1. Len(profiled) = Len(txn.accounts) BY <1>13 DEF SameNames
  <2>2. DOMAIN profiled = 1..Len(profiled) /\ DOMAIN txn.accounts = 1..Len(txn.accounts)
    BY <1>8, <1>13, ListIs DEF SoundAccounts
  <2> QED BY <2>1, <2>2
<1>15. /\ d = [accounts |-> d.accounts, nodes |-> d.nodes, edges |-> d.edges]
       /\ d.accounts = profiled /\ d.nodes = engaged /\ d.edges = txn.edges OBVIOUS
<1>16. Sound(d)
  <2>1. SoundEdges(txn.edges, engaged) BY <1>8, <1>11, <1>12, EdgesFollow
  <2> QED BY <1>10, <1>13, <1>14, <1>15, <2>1 DEF Sound
<1> PICK e : e = txn' OBVIOUS
<1>17. Sound(e) /\ Follow(e.nodes, engaged) /\ e.accounts = profiled
  <2>1. IsList(HeldRows("industry_benchmarks.csv")) BY <1>5, <1>6 DEF Filed
  <2>2. e = Benchmarked(d, HeldRows("industry_benchmarks.csv")) BY <1>2
  <2>3. Sound(e) /\ Follow(e.nodes, d.nodes) /\ e.accounts = d.accounts
    BY <1>8, <1>14, <1>15, <1>16, <2>1, <2>2, BenchmarkedIs
  <2> QED BY <1>15, <2>3
<1>18. IsList(e.nodes) BY <1>17 DEF Sound, SoundNodes
<1>19. Follow(e.nodes, txn.nodes) /\ Follow(e.nodes, decided)
  <2>1. Follow(e.nodes, decided) BY <1>10, <1>11, <1>17, <1>18, FollowOn
  <2>2. Follow(e.nodes, txn.nodes) BY <1>8, <1>11, <1>12, <1>17, <1>18, FollowOn
  <2> QED BY <2>1, <2>2
<1>20. Sound(txn') /\ TablesGrow(txn', txn) BY <1>14, <1>17, <1>19 DEF TablesGrow
<1>21. Sound(db') /\ DoneIn(done', db') /\ DoneIn(done', txn') BY <1>2, <1>20, PhaseKeeps DEF LoadInv
<1>22. ASSUME ~load.failed PROVE Progress'
  <2>1. StoodAll("stakeholders.csv") /\ StoodTo("outcomes.csv", load.row) BY <1>2, <1>22 DEF LoadInv, Progress
  <2>2. SameNames(txn'.accounts, txn.accounts) /\ Follow(txn'.nodes, txn.nodes) BY <1>13, <1>17, <1>19
  <2>3. StoodAll("outcomes.csv")
    <3> PICK rows : rows = HeldRows("outcomes.csv") OBVIOUS
    <3>1. IsList(rows) BY <1>5, <1>6 DEF Filed
    <3>2. DOMAIN rows = 1..Len(rows) /\ Len(rows) \in Nat BY <3>1, ListIs
    <3>3. Len(rows) < load.row BY <1>1, <1>2, <3>2
    <3>4. \A x \in DOMAIN rows : x < load.row BY <1>1, <3>2, <3>3
    <3> QED BY <2>1, <3>4 DEF StoodAll, StoodTo
  <2>4. \A f : StoodAll(f) => StoodAll(f)' BY <1>1, <1>4, <1>20, <2>2, StoodFollows
  <2>5. /\ HeldRows(dec)' = HeldRows(dec) /\ HeldRows(eng)' = HeldRows(eng) /\ AccountRows' = AccountRows
    BY <1>4 DEF HeldRows, AccountRows
  <2>6. ASSUME NEW r PROVE Resolve(r)' = Resolve(r)
    <3>1. IsList(txn'.accounts) BY <1>20 DEF Sound, SoundAccounts
    <3>2. AccountOf(txn'.accounts, AccountRows, r) = AccountOf(txn.accounts, AccountRows, r)
      BY <1>8, <2>2, <3>1, SameNamesResolve
    <3> QED BY <2>5, <3>2 DEF Resolve
  <2>7. StoodAll(dec)'
    <3>1. ASSUME NEW x \in DOMAIN HeldRows(dec), Resolve(HeldRows(dec)[x]) # None
          PROVE  Represented(e.nodes, dec, HeldRows(dec)[x], Resolve(HeldRows(dec)[x]))
      <4>1. Represented(decided, dec, HeldRows(dec)[x], Resolve(HeldRows(dec)[x]))
        BY <1>5, <1>6, <1>8, <3>1, ExtendedStand
      <4> QED BY <1>11, <1>18, <1>19, <4>1, RepresentedFollows
    <3> QED BY <2>5, <2>6, <3>1 DEF StoodAll, Stood
  <2>8. StoodAll(eng)'
    <3>1. ASSUME NEW x \in DOMAIN HeldRows(eng), Resolve(HeldRows(eng)[x]) # None
          PROVE  Represented(e.nodes, eng, HeldRows(eng)[x], Resolve(HeldRows(eng)[x]))
      <4>1. Represented(engaged, eng, HeldRows(eng)[x], Resolve(HeldRows(eng)[x]))
        BY <1>5, <1>6, <1>8, <1>9, <3>1, ExtendedStand
      <4> QED BY <1>11, <1>17, <1>18, <4>1, RepresentedFollows
    <3> QED BY <2>5, <2>6, <3>1 DEF StoodAll, Stood
  <2> QED BY <1>4, <2>1, <2>3, <2>4, <2>7, <2>8 DEF Progress
<1>23. ~Settled' BY <1>4 DEF Settled
<1> QED BY <1>1, <1>2, <1>4, <1>20, <1>21, <1>22, <1>23 DEF LoadInv

\* Every step of every run.
LEMMA LoadStepKeeps == LoadInv /\ [LoadNext]_avars => LoadInv'
<1> SUFFICES ASSUME LoadInv, [LoadNext]_avars PROVE LoadInv' OBVIOUS
<1>1. CASE \E b \in Batch : StageBatch(b) BY <1>1, StageBatchKeeps
<1>2. CASE BeginLoad BY <1>2, BeginLoadKeeps
<1>3. CASE LoadRoster BY <1>3, LoadRosterKeeps
<1>4. CASE LoadSignals BY <1>4, LoadSignalsKeeps
<1>5. CASE LoadStakeholders BY <1>5, LoadStakeholdersKeeps
<1>6. CASE LoadOutcome BY <1>6, LoadOutcomeKeeps
<1>7. CASE LoadNodes BY <1>7, LoadNodesKeeps
<1>8. CASE CommitNodes BY <1>8, CommitNodesKeeps
<1>9. CASE LoadEdges BY <1>9, LoadEdgesKeeps
<1>10. CASE PhaseBreaks BY <1>10, PhaseBreaksKeeps
<1>11. CASE ConsumeFiles BY <1>11, ConsumeFilesKeeps
<1>12. CASE SeedBenchmarks BY <1>12, SeedBenchmarksKeeps
<1>13. CASE \E r \in Logged : PersonLogs(r) BY <1>13, PersonLogsKeeps
<1>14. CASE Tomorrow BY <1>14, TomorrowKeeps
<1>15. CASE UNCHANGED avars
  <2>1. UNCHANGED <<db, txn, pile, load, done>> BY <1>15 DEF avars
  <2>2. Settled' = Settled BY <2>1 DEF Settled
  <2>3. Progress => Progress'
    <3> SUFFICES ASSUME Progress PROVE Progress' OBVIOUS
    <3>1. /\ \A f : HeldRows(f)' = HeldRows(f)
          /\ \A r : Resolve(r)' = Resolve(r) BY <2>1 DEF HeldRows, Resolve, AccountRows
    <3>2. \A f, r : Stood(f, r)' = Stood(f, r) BY <2>1, <3>1 DEF Stood
    <3>3. \A f : StoodAll(f) => StoodAll(f)' BY <3>1, <3>2 DEF StoodAll
    <3>4. StoodTo("outcomes.csv", load.row) => StoodTo("outcomes.csv", load.row)'
      BY <2>1, <3>1, <3>2 DEF StoodTo
    <3> QED BY <2>1, <3>3, <3>4 DEF Progress
  <2> QED BY <2>1, <2>2, <2>3 DEF LoadInv
<1> QED
  BY <1>1, <1>2, <1>3, <1>4, <1>5, <1>6, <1>7, <1>8, <1>9, <1>10, <1>11, <1>12, <1>13, <1>14, <1>15 DEF LoadNext

\* A row that bears the name of an account, or the source id of one and no name, means it,
\* if the id is that of one name.
LEMMA MeansAccount ==
  ASSUME NEW accounts, SoundAccounts(accounts), NEW a \in DOMAIN accounts, NEW r,
         r.name # None \/ r.src # None,
         accounts[a].name = r.name \/ (r.name = None /\ accounts[a].src = r.src /\ OneName(r.src))
  PROVE  AccountOf(accounts, <<>>, r) = a
<1>1. DOMAIN accounts = 1..Len(accounts) /\ Len(accounts) \in Nat BY ListIs DEF SoundAccounts
<1>2. accounts[a].name # None
  <2>1. PICK q \in AccountsGiven : q.name = accounts[a].name BY <1>1 DEF SoundAccounts
  <2> QED BY <2>1, UploadAssumption
<1>3. Min({a}) = a /\ Max({a}) = a
  <2> PICK s : s = {a} OBVIOUS
  <2>1. IsFiniteSet(s) BY FS_Singleton
  <2>2. s # {} /\ s \subseteq Int BY <1>1
  <2>3. Min(s) \in s BY <2>1, <2>2, MinIs
  <2>4. Max(s) \in s BY <2>1, <2>2, MaxIs
  <2> QED BY <2>3, <2>4
<1>4. CASE accounts[a].name = r.name
  <2>1. r.name # None BY <1>2, <1>4
  <2>2. Named(accounts, r.name) = {a} BY <1>1, <1>4 DEF Named, SoundAccounts
  <2> PICK named : named = IF r.name = None THEN {} ELSE Named(accounts, r.name) OBVIOUS
  <2>3. named = {a} BY <2>1, <2>2
  <2>4. AccountOf(accounts, <<>>, r) = Min(named) BY <2>3 DEF AccountOf
  <2> QED BY <1>3, <2>3, <2>4
<1>5. CASE r.name = None /\ accounts[a].src = r.src /\ OneName(r.src)
  <2>1. r.src # None BY <1>5
  <2>2. {b \in DOMAIN accounts : accounts[b].src = r.src} = {a}
    <3>1. ASSUME NEW b \in DOMAIN accounts, accounts[b].src = r.src PROVE b = a
      <4>1. PICK q \in AccountsGiven : q.name = accounts[b].name /\ q.src = accounts[b].src
        BY <1>1 DEF SoundAccounts
      <4>2. PICK p \in AccountsGiven : p.name = accounts[a].name /\ p.src = accounts[a].src
        BY <1>1 DEF SoundAccounts
      <4>3. q.name = p.name BY <1>5, <3>1, <4>1, <4>2 DEF OneName
      <4> QED BY <1>1, <4>1, <4>2, <4>3 DEF SoundAccounts
    <3> QED BY <1>5, <3>1
  <2>3. Sourced(accounts, <<>>, r.src) = {a} BY <1>3, <2>2, Zenon DEF Sourced
  <2> PICK sourced : sourced = IF r.src = None THEN {} ELSE Sourced(accounts, <<>>, r.src) OBVIOUS
  <2>4. sourced = {a} /\ sourced # {} BY <2>1, <2>3
  <2>5. AccountOf(accounts, <<>>, r) = Min(sourced) BY <1>5, <2>4 DEF AccountOf
  <2> QED BY <1>3, <2>4, <2>5
<1> QED BY <1>4, <1>5

\* And it is more than LoadedOnce says.
LEMMA LoadInvMeans == LoadInv => LoadedOnce
<1> SUFFICES ASSUME LoadInv PROVE LoadedOnce OBVIOUS
<1>1. Sound(db) /\ DoneIn(done, db) /\ (Settled => txn = db) BY DEF LoadInv
<1>2. Tables(db) BY <1>1, TablesSound
<1>3. NothingTwice BY <1>2 DEF NothingTwice, Tables
<1>4. AllTaken BY <1>1 DEF AllTaken, DoneIn
<1>5. SameAccount
  <2>1. ASSUME NEW x \in done, x[3] # None,
               \/ db.accounts[x[3]].name = x[2].name
               \/ x[2].name = None /\ db.accounts[x[3]].src = x[2].src /\ OneName(x[2].src)
        PROVE  AccountOf(db.accounts, <<>>, x[2]) = x[3]
    <3> PICK r, a : r = x[2] /\ a = x[3] OBVIOUS
    <3>1. a \in DOMAIN db.accounts /\ (r.name # None \/ r.src # None) BY <1>1, <2>1 DEF DoneIn
    <3>2. SoundAccounts(db.accounts) BY <1>1 DEF Sound
    <3> QED BY <2>1, <3>1, <3>2, MeansAccount
  <2> QED BY <2>1 DEF SameAccount
<1>6. Whole BY <1>1, <1>2 DEF Whole, Settled, Tables
<1> QED BY <1>3, <1>4, <1>5, <1>6 DEF LoadedOnce

\* LoadedOnce, for every upload, every table at first and any number of runs and failures:
\* no file makes a thing of an account twice, every row whose staging was emptied is in the
\* graph, a row with a name, or with a source id the files give to one name, means one
\* account for good, and no edge leaves its tenant (csv_ingest.py:207-215, 251-253,
\* 837-850, 986-989).
THEOREM LoadedOnceHolds == LoadSpec => []LoadedOnce
<1>1. LoadInit => LoadInv BY LoadInvInit
<1>2. LoadInv /\ [LoadNext]_avars => LoadInv' BY LoadStepKeeps
<1>3. LoadInv => LoadedOnce BY LoadInvMeans
<1> QED BY <1>1, <1>2, <1>3, PTL DEF LoadSpec
==============================================================================
