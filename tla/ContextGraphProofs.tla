------------------------- MODULE ContextGraphProofs -------------------------
(***************************************************************************)
(* That supersession never loses a claim, for any number of sessions,      *)
(* edges, nodes and writers: StrongestLive is an invariant of ContextGraph.*)
(*                                                                         *)
(* Outranks is a strict partial order on rows, and a session that is about *)
(* to commit only kills rows its own row outranks, and is born dead only   *)
(* under a row that outranks it.  A row nothing outranks therefore         *)
(* survives every commit, unless the new row outranks it; and then the new *)
(* row is live, and nothing outranks it in turn.  No finiteness is needed: *)
(* the maximal live row of a triple is carried from step to step.          *)
(***************************************************************************)
EXTENDS ContextGraph, WellFoundedInduction, TLAPS

Tiers == {"unknown", "inferred", "asserted", "observed"}

LEMMA TierIsTier == ASSUME NEW e PROVE Tier(e) \in Tiers
  BY DEF Tier, Tiers, TierRank

LEMMA RankIsNat ==
  ASSUME NEW e
  PROVE  TierRank[Tier(e)] \in Nat
  BY TierIsTier DEF Tiers, TierRank

LEMMA RankTellsTier ==
  ASSUME NEW e, NEW f
  PROVE  TierRank[Tier(e)] = TierRank[Tier(f)] <=> Tier(e) = Tier(f)
  BY TierIsTier DEF Tiers, TierRank

LEMMA PriorityIsNat ==
  ASSUME NEW by, Ranked(by)
  PROVE  Priority(by) \in 1..2
  BY DEF Ranked, Priority, WriterPriority

\* Nothing outranks itself.
LEMMA OutranksIrreflexive ==
  ASSUME NEW e
  PROVE  ~Outranks(e, e)
  BY RankIsNat DEF Outranks, OutranksByWriter

LEMMA OutranksTransitive ==
  ASSUME NEW a, NEW b, NEW c, Outranks(a, b), Outranks(b, c)
  PROVE  Outranks(a, c)
<1> DEFINE up(x, y) == TierRank[Tier(x)] > TierRank[Tier(y)]
           alike(x, y) == TierRank[Tier(x)] = TierRank[Tier(y)]
<1>1. ASSUME NEW x, NEW y, OutranksByWriter(x, y) PROVE alike(x, y)
  BY <1>1 DEF OutranksByWriter, Inferred
<1>2. CASE OutranksByWriter(a, b) /\ OutranksByWriter(b, c)
  <2>1. Priority(a.by) < Priority(c.by)
    BY <1>2, PriorityIsNat DEF OutranksByWriter
  <2>2. a.by # c.by
    BY <2>1, <1>2, PriorityIsNat DEF OutranksByWriter
  <2> QED
    BY <1>2, <2>1, <2>2 DEF Outranks, OutranksByWriter, Inferred
<1>3. CASE up(a, b) /\ (up(b, c) \/ OutranksByWriter(b, c))
  <2>1. up(b, c) \/ alike(b, c)
    BY <1>1, <1>3
  <2> QED
    BY <1>3, <2>1, RankIsNat DEF Outranks
<1>4. CASE OutranksByWriter(a, b) /\ up(b, c)
  <2>1. alike(a, b)
    BY <1>1, <1>4
  <2> QED
    BY <1>4, <2>1, RankIsNat DEF Outranks
<1> QED
  BY <1>2, <1>3, <1>4 DEF Outranks

\* Rows that agree in tier and writer outrank, and are outranked by, the same rows.
LEMMA OutranksBySignature ==
  ASSUME NEW a, NEW b, NEW c, NEW d,
         Tier(a) = Tier(c), a.by = c.by, Tier(b) = Tier(d), b.by = d.by
  PROVE  Outranks(a, b) <=> Outranks(c, d)
  BY DEF Outranks, OutranksByWriter, Inferred

\* A live row another writer's row may supersede is outranked by it.
LEMMA SupersedesOutranks ==
  ASSUME NEW old, NEW new, ShouldSupersede(old, new), old.by # new.by
  PROVE  Outranks(new, old)
  BY DEF ShouldSupersede, Outranks

-----------------------------------------------------------------------------
\* What a session that has not committed knows.
FreshWrite(p) ==
  /\ p.row \in EdgeRow
  /\ p.over = 0
  /\ p.kills \subseteq DOMAIN edge
  /\ p.born \in DOMAIN edge \cup {None}
  /\ ~retiered =>
       /\ \A k \in p.kills : SameTriple(edge[k], p.row) /\ Outranks(p.row, edge[k])
       /\ p.born # None => SameTriple(edge[p.born], p.row) /\ Outranks(edge[p.born], p.row)

RewriteOf(p) ==
  /\ p.row \in EdgeRow
  /\ p.over \in DOMAIN edge
  /\ SameTriple(edge[p.over], p.row) /\ edge[p.over].by = p.row.by

GraphInv ==
  /\ edge \in Seq(EdgeRow)
  /\ writing \in [Session -> SUBSET [row : EdgeRow, over : Nat, kills : SUBSET Nat, born : Nat \cup {None}]]
  /\ retiered \in BOOLEAN
  /\ \A w \in Session : \A p \in writing[w] : FreshWrite(p) \/ RewriteOf(p)
  /\ StrongestLive

\* A strongest live row of the triple of row k.
Top(k, m) ==
  /\ m \in DOMAIN edge /\ SameTriple(edge[m], edge[k])
  /\ edge[m].sup = None
  /\ \A r \in DOMAIN edge : SameTriple(edge[r], edge[k]) => ~Outranks(edge[r], edge[m])

LEMMA StrongestIsTop ==
  StrongestLive <=> (~retiered => \A k \in DOMAIN edge : \E m : Top(k, m))
  BY DEF StrongestLive, Top, Triple, Edges

LEMMA TripleTransitive ==
  ASSUME NEW a, NEW b, NEW c, SameTriple(a, b), SameTriple(b, c)
  PROVE  SameTriple(a, c) /\ SameTriple(b, a)
  BY DEF SameTriple

-----------------------------------------------------------------------------
\* Rows that keep their triple, writer, tier and superseded_by keep every fact.
SameRow(old, new) ==
  /\ new.from = old.from /\ new.to = old.to /\ new.kind = old.kind
  /\ new.by = old.by /\ Tier(new) = Tier(old)

LEMMA SameRowSame ==
  ASSUME NEW a, NEW b, NEW c, NEW d, SameRow(a, c), SameRow(b, d)
  PROVE  /\ SameTriple(a, b) <=> SameTriple(c, d)
         /\ Outranks(a, b) <=> Outranks(c, d)
  BY OutranksBySignature DEF SameRow, SameTriple

LEMMA SameRowReflexive == ASSUME NEW a PROVE SameRow(a, a)
  BY DEF SameRow

\* Superseding a set of rows changes nothing else.
LEMMA SupersedingRows ==
  ASSUME NEW rows \in Seq(EdgeRow), NEW K, NEW by \in Nat
  PROVE  /\ Superseding(rows, K, by) \in Seq(EdgeRow)
         /\ Len(Superseding(rows, K, by)) = Len(rows)
         /\ \A k \in DOMAIN rows :
              /\ SameRow(rows[k], Superseding(rows, K, by)[k])
              /\ k \notin K => Superseding(rows, K, by)[k] = rows[k]
<1> DEFINE S == Superseding(rows, K, by)
<1>1. DOMAIN rows = 1..Len(rows) /\ Len(rows) \in Nat
  OBVIOUS
<1>2. ASSUME NEW k \in DOMAIN rows PROVE S[k] \in EdgeRow
  <2>1. rows[k] \in EdgeRow
    OBVIOUS
  <2> QED
    BY <2>1 DEF Superseding, EdgeRow
<1>3. S \in [1..Len(rows) -> EdgeRow]
  BY <1>1, <1>2 DEF Superseding
<1>4. S \in Seq(EdgeRow) /\ Len(S) = Len(rows)
  BY <1>1, <1>3
<1>5. ASSUME NEW k \in DOMAIN rows
      PROVE  SameRow(rows[k], S[k]) /\ (k \notin K => S[k] = rows[k])
  <2>1. rows[k] \in EdgeRow
    OBVIOUS
  <2> QED
    BY <2>1 DEF Superseding, SameRow, Tier, EdgeRow
<1> QED
  BY <1>4, <1>5

\* The tables are empty at first, and a session has nothing to commit: the
\* inductive invariant of upsert_edge holds (context_graph.py:1060-1256).
THEOREM GraphInvInit == GraphInit => GraphInv
<1> SUFFICES ASSUME GraphInit PROVE GraphInv
  OBVIOUS
<1>1. edge \in Seq(EdgeRow) /\ DOMAIN edge = {}
  BY DEF GraphInit
<1>2. StrongestLive
  BY <1>1 DEF StrongestLive, Edges
<1>3. \A w \in Session : writing[w] = {}
  BY DEF GraphInit
<1>4. writing \in [Session -> SUBSET [row : EdgeRow, over : Nat, kills : SUBSET Nat, born : Nat \cup {None}]]
  BY DEF GraphInit
<1>5. retiered \in BOOLEAN
  BY DEF GraphInit
<1> QED
  BY <1>1, <1>2, <1>3, <1>4, <1>5 DEF GraphInv

\* A step that touches neither edges nor pending writes.
LEMMA GraphInvUnchanged ==
  ASSUME GraphInv, UNCHANGED <<edge, writing, retiered>>
  PROVE  GraphInv'
<1>1. \A p : FreshWrite(p) <=> FreshWrite(p)'
  BY DEF FreshWrite
<1>2. \A p : RewriteOf(p) <=> RewriteOf(p)'
  BY DEF RewriteOf
<1>3. StrongestLive <=> StrongestLive'
  BY DEF StrongestLive, Triple, Edges
<1> QED
  BY <1>1, <1>2, <1>3 DEF GraphInv

\* What upsert_edge decides to write is safe to commit.
LEMMA ReadDecides ==
  ASSUME GraphInv, NEW w \in Session, NEW input \in EdgeInput, EdgeRead(w, input),
         NEW p \in writing'[w]
  PROVE  /\ p \in [row : EdgeRow, over : Nat, kills : SUBSET Nat, born : Nat \cup {None}]
         /\ FreshWrite(p) \/ RewriteOf(p)
<1> DEFINE e == CleanEdge(input)
<1>0. DOMAIN edge = 1..Len(edge) /\ Len(edge) \in Nat /\ DOMAIN edge \subseteq Nat
  BY DEF GraphInv
<1>1. e \in EdgeRow
  <2>1. input \in EdgeRow
    BY GraphAssumption
  <2>2. input.conf \in Int \cup {None}
    BY <2>1 DEF EdgeRow
  <2>3. Clamp(input.conf) \in Int \cup {None}
    BY <2>2 DEF Clamp
  <2>4. WouldClampEdge(input) \in BOOLEAN
    BY DEF WouldClampEdge
  <2> QED
    BY <2>1, <2>3, <2>4 DEF CleanEdge, EdgeRow
<1>2. CASE Own(e) # {}
  <2>1. PICK k \in Own(e) : p = [row |-> e, over |-> k, kills |-> {}, born |-> None]
    BY <1>2 DEF EdgeRead, GraphInv
  <2>2. k \in DOMAIN edge /\ SameTriple(edge[k], e) /\ edge[k].by = e.by
    BY DEF Own, Triple, Edges
  <2> QED
    BY <1>0, <1>1, <2>1, <2>2 DEF RewriteOf
<1>3. CASE Own(e) = {}
  <2>1. PICK l \in Losers(e) : p = [row |-> e, over |-> 0, kills |-> l.kills, born |-> l.born]
    BY <1>3 DEF EdgeRead, GraphInv
  <2>2. l.kills \subseteq Weaker(e) /\ l.born \in Stronger(e) \cup {None}
    BY DEF Losers
  <2>3. ASSUME NEW k \in Weaker(e)
        PROVE  k \in DOMAIN edge /\ SameTriple(edge[k], e) /\ Outranks(e, edge[k])
    BY <1>3, SupersedesOutranks DEF Weaker, Others, Own, Triple, Edges
  <2>4. ASSUME NEW k \in Stronger(e)
        PROVE  k \in DOMAIN edge /\ SameTriple(edge[k], e) /\ Outranks(edge[k], e)
    BY DEF Stronger, Others, Triple, Edges, Outranks
  <2> QED
    BY <1>0, <1>1, <2>1, <2>2, <2>3, <2>4 DEF FreshWrite
<1> QED
  BY <1>2, <1>3

LEMMA ReadKeeps ==
  ASSUME GraphInv, NEW w \in Session, NEW input \in EdgeInput, EdgeRead(w, input)
  PROVE  GraphInv'
<1> DEFINE L == [row : EdgeRow, over : Nat, kills : SUBSET Nat, born : Nat \cup {None}]
<1>1. UNCHANGED <<edge, retiered>>
  BY DEF EdgeRead
<1>2. \A v \in Session : v # w => writing'[v] = writing[v]
  BY DEF EdgeRead, GraphInv
<1>3. \A p \in writing'[w] : p \in L /\ (FreshWrite(p) \/ RewriteOf(p))
  BY ReadDecides
<1>4. writing' \in [Session -> SUBSET L]
  <2>1. \E S : writing' = [writing EXCEPT ![w] = S]
    BY DEF EdgeRead
  <2>2. writing'[w] \in SUBSET L
    BY <1>3
  <2> QED
    BY <2>1, <2>2 DEF GraphInv
<1>5. \A p : (FreshWrite(p) <=> FreshWrite(p)') /\ (RewriteOf(p) <=> RewriteOf(p)')
  BY <1>1 DEF FreshWrite, RewriteOf
<1>6. StrongestLive'
  BY <1>1 DEF GraphInv, StrongestLive, Triple, Edges
<1> QED
  BY <1>1, <1>2, <1>3, <1>4, <1>5, <1>6 DEF GraphInv

LEMMA RollbackKeeps ==
  ASSUME GraphInv, NEW w \in Session, EdgeRollback(w)
  PROVE  GraphInv'
<1>1. UNCHANGED <<edge, retiered>>
  BY DEF EdgeRollback
<1>2. \A v \in Session : writing'[v] \subseteq writing[v]
  BY DEF EdgeRollback, GraphInv
<1>3. writing' \in [Session -> SUBSET [row : EdgeRow, over : Nat, kills : SUBSET Nat, born : Nat \cup {None}]]
  BY DEF EdgeRollback, GraphInv
<1>5. \A p : (FreshWrite(p) <=> FreshWrite(p)') /\ (RewriteOf(p) <=> RewriteOf(p)')
  BY <1>1 DEF FreshWrite, RewriteOf
<1>6. StrongestLive'
  BY <1>1 DEF GraphInv, StrongestLive, Triple, Edges
<1> QED
  BY <1>1, <1>2, <1>3, <1>5, <1>6 DEF GraphInv

\* A commit that rewrites a row in place.
LEMMA RewriteKeeps ==
  ASSUME GraphInv, NEW w \in Session, NEW p \in writing[w], p.over # 0,
         edge' = [edge EXCEPT ![p.over] = [p.row EXCEPT !.sup = edge[p.over].sup]],
         retiered' = (retiered \/ Tier(p.row) # Tier(edge[p.over])),
         writing' = [writing EXCEPT ![w] = {}]
  PROVE  GraphInv'
<1>1. RewriteOf(p)
  BY DEF GraphInv, FreshWrite
<1>2. DOMAIN edge = 1..Len(edge) /\ Len(edge) \in Nat
  BY DEF GraphInv
<1>3. [p.row EXCEPT !.sup = edge[p.over].sup] \in EdgeRow
  <2>1. edge[p.over] \in EdgeRow
    BY <1>1, <1>2 DEF GraphInv, RewriteOf
  <2>2. edge[p.over].sup \in Nat \cup {None}
    BY <2>1 DEF EdgeRow
  <2>3. p.row \in EdgeRow
    BY <1>1 DEF RewriteOf
  <2> QED
    BY <2>2, <2>3 DEF EdgeRow
<1>4. edge' \in Seq(EdgeRow) /\ DOMAIN edge' = DOMAIN edge
  BY <1>1, <1>3 DEF GraphInv, RewriteOf
<1>5. ASSUME NEW k \in DOMAIN edge
      PROVE  /\ edge'[k].sup = edge[k].sup
             /\ SameTriple(edge[k], edge'[k]) /\ edge'[k].by = edge[k].by
             /\ ~retiered' => SameRow(edge[k], edge'[k])
  <2>1. CASE k # p.over
    <3>1. edge'[k] = edge[k]
      BY <2>1, <1>1, <1>2 DEF RewriteOf
    <3> QED
      BY <3>1 DEF SameTriple, SameRow
  <2>2. CASE k = p.over
    <3>1. edge'[k] = [p.row EXCEPT !.sup = edge[p.over].sup]
      BY <2>2, <1>1, <1>2 DEF RewriteOf
    <3>2. p.row \in EdgeRow
      BY <1>1 DEF RewriteOf
    <3>3. /\ edge'[k].sup = edge[k].sup /\ edge'[k].from = p.row.from /\ edge'[k].to = p.row.to
          /\ edge'[k].kind = p.row.kind /\ edge'[k].by = p.row.by /\ edge'[k].tier = p.row.tier
      BY <3>1, <3>2, <2>2 DEF EdgeRow
    <3>4. Tier(edge'[k]) = Tier(p.row)
      BY <3>3 DEF Tier
    <3> QED
      BY <3>3, <3>4, <2>2, <1>1 DEF SameTriple, SameRow, RewriteOf
  <2> QED
    BY <2>1, <2>2
<1>6. ~retiered' => ~retiered
  BY DEF GraphInv
<1>7. ASSUME NEW q, FreshWrite(q) PROVE FreshWrite(q)'
  <2>1. ASSUME ~retiered', NEW k \in q.kills
        PROVE  SameTriple(edge'[k], q.row) /\ Outranks(q.row, edge'[k])
    <3>1. k \in DOMAIN edge /\ SameTriple(edge[k], q.row) /\ Outranks(q.row, edge[k])
      BY <1>7, <1>6, <2>1 DEF FreshWrite
    <3>2. SameRow(edge[k], edge'[k]) /\ SameRow(q.row, q.row)
      BY <1>5, <1>6, <2>1, <3>1, SameRowReflexive
    <3> QED
      BY <3>1, <3>2, SameRowSame
  <2>2. ASSUME ~retiered', q.born # None
        PROVE  SameTriple(edge'[q.born], q.row) /\ Outranks(edge'[q.born], q.row)
    <3>1. q.born \in DOMAIN edge /\ SameTriple(edge[q.born], q.row) /\ Outranks(edge[q.born], q.row)
      BY <1>7, <1>6, <2>2 DEF FreshWrite
    <3>2. SameRow(edge[q.born], edge'[q.born]) /\ SameRow(q.row, q.row)
      BY <1>5, <1>6, <2>2, <3>1, SameRowReflexive
    <3> QED
      BY <3>1, <3>2, SameRowSame
  <2> QED
    BY <1>4, <1>7, <2>1, <2>2 DEF FreshWrite
<1>8. ASSUME NEW q, RewriteOf(q) PROVE RewriteOf(q)'
  BY <1>4, <1>5, <1>8 DEF RewriteOf, SameTriple
<1>9. ASSUME ~retiered', NEW k \in DOMAIN edge' PROVE \E m : Top(k, m)'
  <2>1. PICK m : Top(k, m)
    BY <1>4, <1>6, <1>9, StrongestIsTop DEF GraphInv
  <2>2. \A j \in DOMAIN edge : SameRow(edge[j], edge'[j])
    BY <1>5, <1>9
  <2>3. k \in DOMAIN edge /\ m \in DOMAIN edge
    BY <1>4, <1>9, <2>1 DEF Top
  <2>4. SameTriple(edge'[m], edge'[k])
    <3>1. SameRow(edge[m], edge'[m]) /\ SameRow(edge[k], edge'[k])
      BY <2>2, <2>3
    <3> QED
      BY <3>1, <2>1, SameRowSame DEF Top
  <2>5. ASSUME NEW r \in DOMAIN edge', SameTriple(edge'[r], edge'[k])
        PROVE  ~Outranks(edge'[r], edge'[m])
    <3>1. /\ r \in DOMAIN edge
          /\ SameRow(edge[r], edge'[r]) /\ SameRow(edge[m], edge'[m]) /\ SameRow(edge[k], edge'[k])
      BY <1>4, <2>2, <2>3
    <3>2. SameTriple(edge[r], edge[k])
      BY <2>5, <3>1, SameRowSame
    <3>3. ~Outranks(edge[r], edge[m])
      BY <3>1, <3>2, <2>1 DEF Top
    <3> QED
      BY <3>1, <3>3, SameRowSame
  <2>6. edge'[m].sup = None
    BY <1>5, <2>1, <2>3 DEF Top
  <2>7. Top(k, m)'
    BY <1>4, <2>3, <2>4, <2>5, <2>6 DEF Top
  <2> QED
    BY <2>7
<1>10. StrongestLive'
  BY <1>9 DEF StrongestLive, Top, Triple, Edges
<1>11. /\ writing' \in [Session -> SUBSET [row : EdgeRow, over : Nat, kills : SUBSET Nat, born : Nat \cup {None}]]
       /\ \A v \in Session : writing'[v] \subseteq writing[v]
       /\ retiered' \in BOOLEAN
  BY DEF GraphInv
<1> QED
  BY <1>4, <1>7, <1>8, <1>10, <1>11 DEF GraphInv

\* A commit that adds a row.
LEMMA AppendKeeps ==
  ASSUME GraphInv, NEW w \in Session, NEW p \in writing[w], p.over = 0,
         edge' = Append(Superseding(edge, p.kills, Len(edge) + 1), [p.row EXCEPT !.sup = p.born]),
         UNCHANGED retiered,
         writing' = [writing EXCEPT ![w] = {}]
  PROVE  GraphInv'
<1> DEFINE S == Superseding(edge, p.kills, Len(edge) + 1)
           new == [p.row EXCEPT !.sup = p.born]
           n == Len(edge) + 1
<1>1. FreshWrite(p)
  <2>1. DOMAIN edge = 1..Len(edge) /\ Len(edge) \in Nat
    BY DEF GraphInv
  <2> QED
    BY <2>1 DEF GraphInv, RewriteOf
<1>2. DOMAIN edge = 1..Len(edge) /\ Len(edge) \in Nat /\ n \in Nat /\ n \notin DOMAIN edge
  BY DEF GraphInv
<1>3. new \in EdgeRow
  <2>1. p.born \in Nat \cup {None} /\ p.row \in EdgeRow
    BY <1>1, <1>2 DEF FreshWrite
  <2> QED
    BY <2>1 DEF EdgeRow
<1>4. SameRow(p.row, new) /\ new.sup = p.born
  BY <1>1 DEF FreshWrite, EdgeRow, SameRow, Tier
<1>5. /\ S \in Seq(EdgeRow) /\ Len(S) = Len(edge)
      /\ \A k \in DOMAIN edge : /\ SameRow(edge[k], S[k])
                                /\ k \notin p.kills => S[k] = edge[k]
  BY <1>2, SupersedingRows DEF GraphInv
<1>6. /\ edge' \in Seq(EdgeRow) /\ DOMAIN edge' = DOMAIN edge \cup {n}
      /\ edge'[n] = new
      /\ \A k \in DOMAIN edge : edge'[k] = S[k]
  BY <1>2, <1>3, <1>5
<1>7. \A k \in DOMAIN edge : SameRow(edge[k], edge'[k])
  BY <1>5, <1>6
<1>8. ASSUME NEW q, FreshWrite(q) PROVE FreshWrite(q)'
  <2>1. ASSUME ~retiered', NEW k \in q.kills
        PROVE  SameTriple(edge'[k], q.row) /\ Outranks(q.row, edge'[k])
    <3>1. k \in DOMAIN edge /\ SameTriple(edge[k], q.row) /\ Outranks(q.row, edge[k])
      BY <1>8, <1>7, <2>1 DEF FreshWrite
    <3>2. SameRow(edge[k], edge'[k]) /\ SameRow(q.row, q.row)
      BY <1>7, <2>1, <3>1, SameRowReflexive
    <3> QED
      BY <3>1, <3>2, SameRowSame
  <2>2. ASSUME ~retiered', q.born # None
        PROVE  SameTriple(edge'[q.born], q.row) /\ Outranks(edge'[q.born], q.row)
    <3>1. q.born \in DOMAIN edge /\ SameTriple(edge[q.born], q.row) /\ Outranks(edge[q.born], q.row)
      BY <1>8, <1>7, <2>2 DEF FreshWrite
    <3>2. SameRow(edge[q.born], edge'[q.born]) /\ SameRow(q.row, q.row)
      BY <1>7, <2>2, <3>1, SameRowReflexive
    <3> QED
      BY <3>1, <3>2, SameRowSame
  <2> QED
    BY <1>6, <1>8, <2>1, <2>2 DEF FreshWrite
<1>9. ASSUME NEW q, RewriteOf(q) PROVE RewriteOf(q)'
  BY <1>6, <1>7, <1>9 DEF RewriteOf, SameTriple, SameRow
<1>10. ASSUME ~retiered', NEW k \in DOMAIN edge', ~SameTriple(edge'[k], new)
       PROVE  \E m : Top(k, m)'
  <2>1. k \in DOMAIN edge
    BY <1>6, <1>10 DEF SameTriple
  <2>2. PICK m : Top(k, m)
    BY <2>1, <1>10, StrongestIsTop DEF GraphInv
  <2>3. m \notin p.kills
    <3>1. SameTriple(edge[m], edge[k]) /\ m \in DOMAIN edge
      BY <2>2 DEF Top
    <3>2. SUFFICES ASSUME m \in p.kills PROVE FALSE
      OBVIOUS
    <3>3. SameTriple(edge[m], p.row)
      BY <3>2, <1>1, <1>10 DEF FreshWrite
    <3> QED
      BY <3>1, <3>3, <2>1, <1>4, <1>7, <1>10 DEF SameTriple, SameRow
  <2>4. edge'[m] = edge[m] /\ m \in DOMAIN edge
    BY <2>2, <2>3, <1>5, <1>6 DEF Top
  <2>5. ASSUME NEW r \in DOMAIN edge', SameTriple(edge'[r], edge'[k])
        PROVE  ~Outranks(edge'[r], edge'[m])
    <3>1. r \in DOMAIN edge
      BY <2>5, <1>6, <1>10 DEF SameTriple
    <3> QED
      BY <3>1, <2>1, <2>2, <2>4, <2>5, <1>7, SameRowSame DEF Top
  <2>6. SameTriple(edge'[m], edge'[k])
    BY <2>1, <2>2, <2>4, <1>7, SameRowSame DEF Top
  <2> QED
    BY <2>2, <2>4, <2>5, <2>6, <1>6 DEF Top
<1>11. ASSUME ~retiered', NEW k \in DOMAIN edge', SameTriple(edge'[k], new)
       PROVE  \E m : Top(k, m)'
  <2>1. ASSUME NEW r \in DOMAIN edge PROVE SameTriple(edge'[r], edge'[k]) <=> SameTriple(edge[r], p.row)
    BY <1>4, <1>7, <1>11 DEF SameTriple, SameRow
  <2>2. SameTriple(new, edge'[k])
    BY <1>11 DEF SameTriple
  <2>3. \A a : Outranks(new, a) <=> Outranks(p.row, a)
    BY <1>4, SameRowSame, SameRowReflexive
  <2>4. ASSUME NEW a PROVE Outranks(a, new) <=> Outranks(a, p.row)
    <3>1. SameRow(a, a)
      BY SameRowReflexive
    <3> QED
      BY <1>4, <3>1, SameRowSame
  <2>5. CASE \A r \in DOMAIN edge : SameTriple(edge[r], p.row) => ~Outranks(edge[r], p.row)
    <3>1. p.born = None
      BY <2>5, <1>1, <1>2, <1>11, GraphAssumption DEF FreshWrite
    <3>2. edge'[n].sup = None
      BY <3>1, <1>4, <1>6
    <3>3. ASSUME NEW r \in DOMAIN edge', SameTriple(edge'[r], edge'[k])
          PROVE  ~Outranks(edge'[r], new)
      <4>1. CASE r = n
        BY <4>1, <1>6, OutranksIrreflexive
      <4>2. CASE r \in DOMAIN edge
        <5>1. ~Outranks(edge[r], p.row)
          BY <4>2, <2>1, <2>5, <3>3
        <5>2. SameRow(edge[r], edge'[r])
          BY <4>2, <1>7
        <5> QED
          BY <5>1, <5>2, <1>4, SameRowSame
      <4> QED
        BY <4>1, <4>2, <1>6
    <3>4. PICK j : j = n
      OBVIOUS
    <3>5. j \in DOMAIN edge' /\ edge'[j] = new
      BY <1>6, <3>4
    <3>6. Top(k, j)'
      BY <3>2, <3>3, <3>4, <3>5, <2>2 DEF Top
    <3> QED
      BY <3>6
  <2>6. CASE \E r \in DOMAIN edge : SameTriple(edge[r], p.row) /\ Outranks(edge[r], p.row)
    <3>1. PICK r \in DOMAIN edge : SameTriple(edge[r], p.row) /\ Outranks(edge[r], p.row)
      BY <2>6
    <3>2. PICK m : Top(r, m)
      BY <3>1, <1>11, StrongestIsTop DEF GraphInv
    <3>3. /\ m \in DOMAIN edge /\ SameTriple(edge[m], p.row) /\ edge[m].sup = None
          /\ \A q \in DOMAIN edge : SameTriple(edge[q], p.row) => ~Outranks(edge[q], edge[m])
      BY <3>1, <3>2 DEF Top, SameTriple
    <3>4. ~Outranks(p.row, edge[m])
      BY <3>1, <3>3, OutranksTransitive
    <3>5. m \notin p.kills
      BY <3>4, <1>1, <1>11 DEF FreshWrite
    <3>6. edge'[m] = edge[m]
      BY <3>3, <3>5, <1>5, <1>6
    <3>7. ASSUME NEW q \in DOMAIN edge', SameTriple(edge'[q], edge'[k])
          PROVE  ~Outranks(edge'[q], edge'[m])
      <4>1. CASE q = n
        BY <4>1, <3>4, <3>6, <2>3, <1>6
      <4>2. CASE q \in DOMAIN edge
        <5>1. ~Outranks(edge[q], edge[m])
          BY <4>2, <2>1, <3>3, <3>7
        <5>2. SameRow(edge[q], edge'[q])
          BY <4>2, <1>7
        <5> QED
          BY <5>1, <5>2, <3>6, SameRowSame, SameRowReflexive
      <4> QED
        BY <4>1, <4>2, <1>6
    <3>8. SameTriple(edge'[m], edge'[k])
      BY <2>1, <3>3
    <3> QED
      BY <3>3, <3>6, <3>7, <3>8, <1>6 DEF Top
  <2> QED
    BY <2>5, <2>6
<1>12. StrongestLive'
  BY <1>10, <1>11 DEF StrongestLive, Top, Triple, Edges
<1>13. /\ writing' \in [Session -> SUBSET [row : EdgeRow, over : Nat, kills : SUBSET Nat, born : Nat \cup {None}]]
       /\ \A v \in Session : writing'[v] \subseteq writing[v]
       /\ retiered' \in BOOLEAN
  BY DEF GraphInv
<1> QED
  BY <1>6, <1>8, <1>9, <1>12, <1>13 DEF GraphInv

\* Every upsert, reload, commit and rollback keeps the inductive invariant: what a
\* session is about to commit kills only what its row outranks, and every triple
\* keeps a live row nothing outranks (supersession.py:187-280).
THEOREM GraphInvNext == GraphInv /\ [GraphNext]_gvars => GraphInv'
<1> SUFFICES ASSUME GraphInv, [GraphNext]_gvars PROVE GraphInv'
  OBVIOUS
<1>1. CASE \E input \in NodeInput : UpsertNode(input)
  BY <1>1, GraphInvUnchanged DEF UpsertNode
<1>2. CASE \E i \in 1..MaxNodes : Reload(i)
  BY <1>2, GraphInvUnchanged DEF Reload
<1>3. ASSUME NEW w \in Session, \E e \in EdgeInput : EdgeRead(w, e) PROVE GraphInv'
  BY <1>3, ReadKeeps
<1>4. ASSUME NEW w \in Session, EdgeCommit(w) PROVE GraphInv'
  <2>1. PICK p \in writing[w] :
          /\ IF p.over = 0
             THEN /\ edge' = Append(Superseding(edge, p.kills, Len(edge) + 1),
                                    [p.row EXCEPT !.sup = p.born])
                  /\ UNCHANGED retiered
             ELSE /\ edge' = [edge EXCEPT ![p.over] = [p.row EXCEPT !.sup = edge[p.over].sup]]
                  /\ retiered' = (retiered \/ Tier(p.row) # Tier(edge[p.over]))
          /\ writing' = [writing EXCEPT ![w] = {}]
    BY <1>4 DEF EdgeCommit
  <2> QED
    BY <2>1, AppendKeeps, RewriteKeeps
<1>5. ASSUME NEW w \in Session, EdgeRollback(w) PROVE GraphInv'
  BY <1>5, RollbackKeeps
<1>6. CASE UNCHANGED gvars
  BY <1>6, GraphInvUnchanged DEF gvars
<1> QED
  BY <1>1, <1>2, <1>3, <1>4, <1>5, <1>6 DEF GraphNext

\* However many sessions write at once, every triple keeps a live row that nothing
\* on record outranks (supersession.py:190-280).
THEOREM StrongestLiveHolds == GraphSpec => []StrongestLive
<1>1. GraphInv => StrongestLive
  BY DEF GraphInv
<1> QED
  BY <1>1, GraphInvInit, GraphInvNext, PTL DEF GraphSpec

-----------------------------------------------------------------------------
(***************************************************************************)
(* What the gate and the clamps let in.  The invariant is on nodes and on  *)
(* edges, those that are only decided included: the nodes a session looked *)
(* at may be written over before it commits, but never change their type.  *)
(***************************************************************************)
Bounded(c) == ~OutOfBounds(c)

\* What upsert_node leaves of an input.
CleanRow(n) ==
  /\ n \in NodeRow /\ Bounded(n.conf) /\ Bounded(n.pconf)
  /\ n.type = "OUTCOME" /\ ~n.earned => n.conf # None /\ n.conf <= 3

\* The caller a row came from.
FromInput(n) ==
  \E m \in NodeInput : n.type = m.type /\ n.acct = m.acct /\ (n.src # None => n.src = m.src)

NodeInv ==
  /\ node \in Seq(NodeRow)
  /\ \A i \in DOMAIN node : CleanRow(node[i]) /\ FromInput(node[i])

\* An edge that the gate let in, as the nodes are now.
GateKept(e) ==
  /\ e.from \in DOMAIN node /\ e.to \in DOMAIN node /\ Bounded(e.conf)
  /\ e.kind \in Causal =>
       /\ ~OutcomeToOutcome(node[e.from], node[e.to])
       /\ PolarityMismatch(node[e.from], node[e.to]) => e.from \in retold \/ e.to \in retold

GateInv ==
  /\ \A k \in DOMAIN edge : GateKept(edge[k])
  /\ \A w \in Session : \A p \in writing[w] : GateKept(p.row)

LEMMA ClampBounds ==
  ASSUME NEW c \in Int \cup {None}
  PROVE  Bounded(Clamp(c)) /\ Clamp(c) \in Int \cup {None}
BY DEF Bounded, OutOfBounds, Clamp

LEMMA CleanNodeIsClean ==
  ASSUME NEW input \in NodeInput
  PROVE  LET n == CleanNode(input)
         IN  /\ CleanRow(n) /\ n.type = input.type /\ n.acct = input.acct /\ n.src = input.src
             /\ FromInput(n)
<1> DEFINE m == [input EXCEPT !.conf = Clamp(@), !.pconf = Clamp(@)]
           n == CleanNode(input)
<1>1. input \in NodeRow
  BY GraphAssumption
<1>2. /\ m \in NodeRow /\ Bounded(m.conf) /\ Bounded(m.pconf)
      /\ m.type = input.type /\ m.acct = input.acct /\ m.src = input.src
  <2>1. input.conf \in Int \cup {None} /\ input.pconf \in Int \cup {None}
    BY <1>1 DEF NodeRow
  <2>2. Clamp(input.conf) \in Int \cup {None} /\ Clamp(input.pconf) \in Int \cup {None}
    BY <2>1, ClampBounds
  <2>3. m \in NodeRow /\ m.conf = Clamp(input.conf) /\ m.pconf = Clamp(input.pconf)
    BY <1>1, <2>2 DEF NodeRow
  <2>4. m.type = input.type /\ m.acct = input.acct /\ m.src = input.src
    BY <1>1 DEF NodeRow
  <2> QED
    BY <2>1, <2>3, <2>4, ClampBounds
<1>3. n = ClampUnearned(m)
  BY DEF CleanNode
<1> HIDE DEF m, n
<1>4. CleanRow(n) /\ n.type = input.type /\ n.acct = input.acct /\ n.src = input.src
  <2>1. CASE m.type # "OUTCOME" \/ m.earned
    BY <1>2, <1>3, <2>1 DEF ClampUnearned, CleanRow
  <2>2. CASE ~(m.type # "OUTCOME" \/ m.earned)
    <3>1. m.conf \in Int \cup {None}
      BY <1>2 DEF NodeRow
    <3>2. n = [m EXCEPT !.conf = IF m.conf = None \/ m.conf > 3 THEN 3 ELSE m.conf]
      BY <1>3, <2>2 DEF ClampUnearned
    <3>3. n.conf = IF m.conf = None \/ m.conf > 3 THEN 3 ELSE m.conf
      BY <1>2, <3>2 DEF NodeRow
    <3>4. n \in NodeRow /\ n.pconf = m.pconf /\ n.type = m.type /\ n.acct = m.acct /\ n.src = m.src
      BY <1>2, <3>1, <3>2 DEF NodeRow
    <3>5. n.conf # None /\ n.conf <= 3 /\ Bounded(n.conf)
      BY <1>2, <3>1, <3>3, GraphAssumption DEF Bounded, OutOfBounds
    <3> QED
      BY <1>2, <3>4, <3>5 DEF CleanRow
  <2> QED
    BY <2>1, <2>2
<1>5. FromInput(n)
  BY <1>4 DEF FromInput
<1> QED
  BY <1>4, <1>5 DEF n

\* Rows of context_nodes keep their type and, but for what is on record as retold,
\* their subtype.
NodesGrow ==
  /\ DOMAIN node \subseteq DOMAIN node' /\ retold \subseteq retold'
  /\ \A i \in DOMAIN node :
       node'[i].type = node[i].type /\ (node'[i].sub = node[i].sub \/ i \in retold')

LEMMA GateStays ==
  ASSUME NodesGrow, NEW e, GateKept(e)
  PROVE  GateKept(e)'
BY DEF NodesGrow, GateKept, OutcomeToOutcome, PolarityMismatch

\* The same outcome loaded again.
LEMMA NodesReload ==
  ASSUME NodeInv, NEW i \in 1..MaxNodes, Reload(i)
  PROVE  NodeInv' /\ NodesGrow
<1> DEFINE row == [node[i] EXCEPT !.src = None]
<1>1. i \in DOMAIN node /\ node' = Append(node, row) /\ UNCHANGED retold
  BY DEF Reload, Outcomes, Nodes
<1>2. node[i] \in NodeRow /\ CleanRow(node[i]) /\ FromInput(node[i])
  BY <1>1 DEF NodeInv
<1>3. /\ row \in NodeRow /\ row.type = node[i].type /\ row.acct = node[i].acct /\ row.src = None
      /\ row.conf = node[i].conf /\ row.pconf = node[i].pconf /\ row.earned = node[i].earned
  BY <1>2 DEF NodeRow
<1> HIDE DEF row
<1>4. CleanRow(row) /\ FromInput(row)
  BY <1>2, <1>3 DEF CleanRow, FromInput
<1>5. /\ node' \in Seq(NodeRow) /\ DOMAIN node' = DOMAIN node \cup {Len(node) + 1}
      /\ node'[Len(node) + 1] = row /\ \A j \in DOMAIN node : node'[j] = node[j]
  BY <1>1, <1>3 DEF NodeInv
<1> QED
  BY <1>1, <1>4, <1>5 DEF NodeInv, NodesGrow

LEMMA NodesUpsert ==
  ASSUME NodeInv, NEW input \in NodeInput, UpsertNode(input)
  PROVE  NodeInv' /\ NodesGrow
<1> DEFINE n == CleanNode(input)
<1>1. CleanRow(n) /\ n.type = input.type /\ n.acct = input.acct /\ n.src = input.src /\ FromInput(n)
  BY CleanNodeIsClean
<1>2. CASE SameSource(n) = {}
  <2>1. node' = Append(node, n) /\ UNCHANGED retold
    BY <1>2 DEF UpsertNode
  <2> HIDE DEF n
  <2>2. /\ node' \in Seq(NodeRow) /\ DOMAIN node' = DOMAIN node \cup {Len(node) + 1}
        /\ node'[Len(node) + 1] = n /\ \A j \in DOMAIN node : node'[j] = node[j]
    BY <1>1, <2>1 DEF NodeInv, CleanRow
  <2> QED
    BY <1>1, <2>1, <2>2 DEF NodeInv, NodesGrow
<1>3. CASE SameSource(n) # {}
  <2>1. PICK i \in SameSource(n) :
          /\ node' = [node EXCEPT ![i] = [n EXCEPT !.type = node[i].type]]
          /\ retold' = IF n.sub = node[i].sub THEN retold ELSE retold \cup {i}
    BY <1>3 DEF UpsertNode
  <2>2. i \in DOMAIN node /\ n.src # None /\ node[i].src = n.src /\ node[i].acct = n.acct
    BY DEF SameSource, Nodes
  <2>3. node[i].type = n.type
    <3>1. PICK m \in NodeInput : /\ node[i].type = m.type /\ node[i].acct = m.acct
                                 /\ node[i].src # None => node[i].src = m.src
      BY <2>2 DEF NodeInv, FromInput
    <3> HIDE DEF n
    <3> QED
      BY <1>1, <2>2, <3>1, GraphAssumption
  <2> HIDE DEF n
  <2>4. [n EXCEPT !.type = node[i].type] = n
    BY <1>1, <2>3 DEF CleanRow, NodeRow
  <2>5. /\ node' \in Seq(NodeRow) /\ DOMAIN node' = DOMAIN node /\ node'[i] = n
        /\ \A j \in DOMAIN node : j # i => node'[j] = node[j]
    BY <1>1, <2>1, <2>2, <2>4 DEF NodeInv, CleanRow
  <2>6. NodeInv'
    BY <1>1, <2>5 DEF NodeInv
  <2>7. NodesGrow
    BY <2>1, <2>3, <2>5 DEF NodesGrow
  <2> QED
    BY <2>6, <2>7
<1> QED
  BY <1>2, <1>3

\* A row that superseded_by alone changes is as the gate let it in.
LEMMA GateOfRow ==
  ASSUME NEW old, NEW new, GateKept(old),
         new.from = old.from, new.to = old.to, new.kind = old.kind, new.conf = old.conf
  PROVE  GateKept(new)
BY DEF GateKept

LEMMA SupersedingKeepsGate ==
  ASSUME GraphInv, NEW K, NEW by, NEW k \in DOMAIN edge, GateKept(edge[k])
  PROVE  GateKept(Superseding(edge, K, by)[k])
<1>1. edge[k] \in EdgeRow
  BY DEF GraphInv
<1>2. CASE k \in K
  <2> DEFINE new == [edge[k] EXCEPT !.sup = by]
  <2>1. new.from = edge[k].from /\ new.to = edge[k].to /\ new.kind = edge[k].kind /\ new.conf = edge[k].conf
    BY <1>1 DEF EdgeRow
  <2>2. Superseding(edge, K, by)[k] = new
    BY <1>2 DEF Superseding
  <2> QED
    BY <2>1, <2>2, GateOfRow
<1>3. CASE k \notin K
  BY <1>3 DEF Superseding
<1> QED
  BY <1>2, <1>3

LEMMA GateCommits ==
  ASSUME GraphInv, GateInv, NEW w \in Session, EdgeCommit(w)
  PROVE  GateInv'
<1>1. UNCHANGED <<node, retold>> /\ \A e : GateKept(e) <=> GateKept(e)'
  BY DEF EdgeCommit, GateKept
<1>2. PICK p \in writing[w] :
        /\ IF p.over = 0
           THEN edge' = Append(Superseding(edge, p.kills, Len(edge) + 1), [p.row EXCEPT !.sup = p.born])
           ELSE edge' = [edge EXCEPT ![p.over] = [p.row EXCEPT !.sup = edge[p.over].sup]]
        /\ writing' = [writing EXCEPT ![w] = {}]
  BY DEF EdgeCommit
<1>3. p.row \in EdgeRow /\ GateKept(p.row) /\ edge \in Seq(EdgeRow)
  BY DEF GraphInv, GateInv, FreshWrite, RewriteOf
<1>4. ASSUME NEW s PROVE GateKept([p.row EXCEPT !.sup = s])
  <2> DEFINE new == [p.row EXCEPT !.sup = s]
  <2>1. new.from = p.row.from /\ new.to = p.row.to /\ new.kind = p.row.kind /\ new.conf = p.row.conf
    BY <1>3 DEF EdgeRow
  <2> HIDE DEF new
  <2>2. GateKept(new)
    BY <1>3, <2>1, GateOfRow
  <2> QED
    BY <2>2 DEF new
<1>5. \A v \in Session : \A q \in writing'[v] : GateKept(q.row)
  BY <1>2 DEF GraphInv, GateInv
<1>6. \A k \in DOMAIN edge' : GateKept(edge'[k])
  <2>1. CASE p.over = 0
    <3> DEFINE S == Superseding(edge, p.kills, Len(edge) + 1)
               new == [p.row EXCEPT !.sup = p.born]
    <3>1. edge' = Append(S, new)
      BY <1>2, <2>1
    <3>2. S \in Seq(EdgeRow) /\ Len(S) = Len(edge) /\ DOMAIN edge = 1..Len(edge)
      BY <1>3, SupersedingRows
    <3>3. \A k \in DOMAIN edge : GateKept(S[k])
      BY SupersedingKeepsGate DEF GateInv
    <3>4. GateKept(new)
      BY <1>4
    <3> HIDE DEF S, new
    <3>5. DOMAIN edge' = DOMAIN edge \cup {Len(edge) + 1} /\ edge'[Len(edge) + 1] = new
          /\ \A k \in DOMAIN edge : edge'[k] = S[k]
      BY <3>1, <3>2
    <3> QED
      BY <3>3, <3>4, <3>5
  <2>2. CASE p.over # 0
    <3>1. edge' = [edge EXCEPT ![p.over] = [p.row EXCEPT !.sup = edge[p.over].sup]]
      BY <1>2, <2>2
    <3>2. GateKept([p.row EXCEPT !.sup = edge[p.over].sup])
      BY <1>4
    <3> QED
      BY <3>1, <3>2 DEF GateInv
  <2> QED
    BY <2>1, <2>2
<1> QED
  BY <1>1, <1>5, <1>6 DEF GateInv

LEMMA GateReads ==
  ASSUME GraphInv, GateInv, NEW w \in Session, NEW input \in EdgeInput, EdgeRead(w, input)
  PROVE  GateInv'
<1> DEFINE e == CleanEdge(input)
<1>1. UNCHANGED <<node, edge, retold>> /\ \A f : GateKept(f) <=> GateKept(f)'
  BY DEF EdgeRead, GateKept
<1>2. GateKept(e)
  <2>1. input \in EdgeRow
    BY GraphAssumption
  <2>2. input.conf \in Int \cup {None}
    BY <2>1 DEF EdgeRow
  <2>3. e.conf = Clamp(input.conf)
    BY <2>1 DEF CleanEdge, EdgeRow
  <2>4. Bounded(e.conf)
    BY <2>2, <2>3, ClampBounds
  <2>5. {e.from, e.to} \subseteq Nodes(node) /\ GateAccepts(node[e.from], node[e.to], e.kind, FALSE)
    BY DEF EdgeRead
  <2> QED
    BY <2>4, <2>5 DEF GateKept, GateAccepts, Nodes
<1>3. \A p \in writing'[w] : p.row = e
  BY DEF EdgeRead, GraphInv
<1>4. \A v \in Session : v # w => writing'[v] = writing[v]
  BY DEF EdgeRead, GraphInv
<1> HIDE DEF e
<1> QED
  BY <1>1, <1>2, <1>3, <1>4 DEF GateInv

GateAll == GraphInv /\ NodeInv /\ GateInv

LEMMA GateAllInit == GraphInit => GateAll
<1> SUFFICES ASSUME GraphInit PROVE GateAll
  OBVIOUS
<1>1. node = <<>> /\ edge = <<>> /\ \A w \in Session : writing[w] = {}
  BY DEF GraphInit
<1> QED
  BY <1>1, GraphInvInit DEF GateAll, NodeInv, GateInv

LEMMA GateAllNext == GateAll /\ [GraphNext]_gvars => GateAll'
<1> SUFFICES ASSUME GateAll, [GraphNext]_gvars PROVE GateAll'
  OBVIOUS
<1>1. GraphInv'
  BY GraphInvNext DEF GateAll
<1>2. ASSUME NodesGrow, UNCHANGED <<edge, writing>> PROVE GateInv'
  BY <1>2, GateStays DEF GateAll, GateInv
<1>3. ASSUME NEW n \in NodeInput, UpsertNode(n) PROVE NodeInv' /\ GateInv'
  BY <1>2, <1>3, NodesUpsert DEF GateAll, UpsertNode
<1>4. ASSUME NEW i \in 1..MaxNodes, Reload(i) PROVE NodeInv' /\ GateInv'
  BY <1>2, <1>4, NodesReload DEF GateAll, Reload
<1>5. ASSUME UNCHANGED node PROVE NodeInv'
  BY <1>5 DEF GateAll, NodeInv
<1>6. ASSUME NEW w \in Session, NEW e \in EdgeInput, EdgeRead(w, e) PROVE NodeInv' /\ GateInv'
  BY <1>5, <1>6, GateReads DEF GateAll, EdgeRead
<1>7. ASSUME NEW w \in Session, EdgeCommit(w) PROVE NodeInv' /\ GateInv'
  BY <1>5, <1>7, GateCommits DEF GateAll, EdgeCommit
<1>8. ASSUME NEW w \in Session, EdgeRollback(w) PROVE NodeInv' /\ GateInv'
  <2>1. UNCHANGED <<node, edge, retold>> /\ \A v \in Session : writing'[v] \subseteq writing[v]
    BY <1>8 DEF EdgeRollback, GateAll, GraphInv
  <2>2. \A e : GateKept(e) <=> GateKept(e)'
    BY <2>1 DEF GateKept
  <2>3. GateInv'
    BY <2>1, <2>2 DEF GateAll, GateInv
  <2> QED
    BY <1>5, <2>1, <2>3
<1>9. ASSUME UNCHANGED gvars PROVE NodeInv' /\ GateInv'
  <2>1. UNCHANGED <<node, edge, writing, retold>>
    BY <1>9 DEF gvars
  <2>2. \A e : GateKept(e) <=> GateKept(e)'
    BY <2>1 DEF GateKept
  <2>3. GateInv'
    BY <2>1, <2>2 DEF GateAll, GateInv
  <2> QED
    BY <1>5, <2>1, <2>3
<1> QED
  BY <1>1, <1>3, <1>4, <1>6, <1>7, <1>8, <1>9 DEF GraphNext, GateAll

LEMMA GateAllHolds == GraphSpec => []GateAll
BY GateAllInit, GateAllNext, PTL DEF GraphSpec

\* What a line of the audit report says, of the invariants the gate and the clamps are for.
LEMMA AuditLine ==
  ASSUME NEW nd, NEW ed, NEW v \in GraphAudit(nd, ed)
  PROVE  /\ v[2] # {}
         /\ v[1] = "I1" => v[2] = I1(nd, ed)
         /\ v[1] = "I2" => v[2] = I2(nd, ed)
         /\ v[1] = "I4 nodes" => v[2] = I4(nd, ed).nodes
         /\ v[1] = "I4 edges" => v[2] = I4(nd, ed).edges
         /\ v[1] = "I4 props" => v[2] = I4(nd, ed).props
<1>1. v[2] # {}
  BY DEF GraphAudit
<1>2. \/ v = <<"I1", I1(nd, ed)>>
      \/ v = <<"I2", I2(nd, ed)>>
      \/ v = <<"I3", I3(nd, ed)>>
      \/ v = <<"I4 nodes", I4(nd, ed).nodes>>
      \/ v = <<"I4 edges", I4(nd, ed).edges>>
      \/ v = <<"I4 props", I4(nd, ed).props>>
      \/ v = <<"I5", I5(nd)>>
      \/ v = <<"I11", I11(nd)>>
      \/ v = <<"I13", I13(nd)>>
      \/ v = <<"I14", I14(nd)>>
      \/ v = <<"I15", I15(nd)>>
      \/ v = <<"I17", I17(nd, ed)>>
  BY DEF GraphAudit
<1>3. ASSUME v = <<"I1", I1(nd, ed)>> PROVE v[1] = "I1" /\ v[2] = I1(nd, ed)
  BY <1>3
<1>4. ASSUME v = <<"I2", I2(nd, ed)>> PROVE v[1] = "I2" /\ v[2] = I2(nd, ed)
  BY <1>4
<1>5. ASSUME v = <<"I3", I3(nd, ed)>> PROVE v[1] = "I3"
  BY <1>5
<1>6. ASSUME v = <<"I4 nodes", I4(nd, ed).nodes>> PROVE v[1] = "I4 nodes" /\ v[2] = I4(nd, ed).nodes
  BY <1>6
<1>7. ASSUME v = <<"I4 edges", I4(nd, ed).edges>> PROVE v[1] = "I4 edges" /\ v[2] = I4(nd, ed).edges
  BY <1>7
<1>8. ASSUME v = <<"I4 props", I4(nd, ed).props>> PROVE v[1] = "I4 props" /\ v[2] = I4(nd, ed).props
  BY <1>8
<1>9. ASSUME v = <<"I5", I5(nd)>> PROVE v[1] = "I5"
  BY <1>9
<1>10. ASSUME v = <<"I11", I11(nd)>> PROVE v[1] = "I11"
  BY <1>10
<1>11. ASSUME v = <<"I13", I13(nd)>> PROVE v[1] = "I13"
  BY <1>11
<1>12. ASSUME v = <<"I14", I14(nd)>> PROVE v[1] = "I14"
  BY <1>12
<1>13. ASSUME v = <<"I15", I15(nd)>> PROVE v[1] = "I15"
  BY <1>13
<1>14. ASSUME v = <<"I17", I17(nd, ed)>> PROVE v[1] = "I17"
  BY <1>14
<1> QED
  BY <1>1, <1>2, <1>3, <1>4, <1>5, <1>6, <1>7, <1>8, <1>9, <1>10, <1>11, <1>12, <1>13, <1>14

\* What the gate and the clamps let in the audit does not report, for any nodes, edges,
\* writers and sessions, also when nodes are written over between the gate and the
\* commit (context_graph.py:1096-1135).
THEOREM GateMatchesAuditHolds == GraphSpec => []GateMatchesAudit
<1>1. ASSUME GateAll PROVE GateMatchesAudit
  <2>1. I1(node, edge) = {}
    BY <1>1 DEF GateAll, GateInv, GateKept, I1, CausalEdges, Edges
  <2>2. /\ I4(node, edge).nodes = {} /\ I4(node, edge).edges = {} /\ I4(node, edge).props = {}
    BY <1>1 DEF GateAll, NodeInv, GateInv, GateKept, CleanRow, Bounded, I4, Nodes, Edges
  <2>3. \A k \in I2(node, edge) : {edge[k].from, edge[k].to} \cap retold # {}
    BY <1>1 DEF GateAll, GateInv, GateKept, I2, CausalEdges, Edges
  <2>4. ASSUME NEW v \in GraphAudit(node, edge)
        PROVE  /\ v[1] \notin {"I1", "I4 nodes", "I4 edges", "I4 props"}
               /\ v[1] = "I2" => v[2] = I2(node, edge)
    BY <2>1, <2>2, AuditLine
  <2> QED
    BY <2>3, <2>4 DEF GateMatchesAudit
<1> QED
  BY <1>1, GateAllHolds, PTL

\* An outcome without evidence or reference is never counted as revenue, whoever writes
\* it and however often it is written over (context_graph_invariants.py:1367-1382).
THEOREM UnearnedNotCountedHolds == GraphSpec => []UnearnedNotCounted
<1>1. ASSUME GateAll PROVE UnearnedNotCounted
  <2> SUFFICES ASSUME NEW i \in Outcomes(node), ~node[i].earned
               PROVE  i \notin Counted(node, node[i].acct)
    BY DEF UnearnedNotCounted
  <2>1. node[i] \in NodeRow /\ node[i].conf # None /\ node[i].conf <= 3
    BY <1>1 DEF GateAll, NodeInv, CleanRow, Outcomes, Nodes
  <2>2. node[i].conf \in Int
    BY <2>1 DEF NodeRow
  <2> QED
    BY <2>1, <2>2 DEF Counted
<1> QED
  BY <1>1, GateAllHolds, PTL

-----------------------------------------------------------------------------
(***************************************************************************)
(* get_causal_chain.  The walk is a recursive function of the level: that  *)
(* one exists for every depth is shown by induction, and so is what it has *)
(* found.  It enters no node twice and loses nothing by it: of a node that *)
(* was expanded all neighbours are at hand.                                *)
(***************************************************************************)
\* Induction over the naturals, for a set of them.
LEMMA NatInductive ==
  ASSUME NEW Good, 0 \in Good, \A n \in Nat : n \in Good => n + 1 \in Good
  PROVE  Nat \subseteq Good
<1> DEFINE Bad == Nat \ Good
<1> SUFFICES ASSUME Bad # {} PROVE FALSE
  OBVIOUS
<1>1. PICK n \in Bad : \A m \in Bad : <<m, n>> \notin OpToRel(<, Nat)
  <2>1. Bad \subseteq Nat OBVIOUS
  <2> HIDE DEF Bad
  <2> QED BY <2>1, NatLessThanWellFounded, WFMin
<1>2. n \in Nat /\ n # 0 OBVIOUS
<1>3. n - 1 \in Nat /\ (n - 1) + 1 = n BY <1>2
<1>4. n - 1 \in Bad
  <2>1. n \notin Good OBVIOUS
  <2> QED BY <1>3, <2>1
<1>5. <<n - 1, n>> \in OpToRel(<, Nat) BY <1>2, <1>3 DEF OpToRel
<1> QED BY <1>1, <1>4, <1>5

Step(ed, up, n) == IF up THEN Sources(ed, n) ELSE Targets(ed, n)

Steps(ed, up, S) == UNION {Step(ed, up, n) : n \in S}

\* One level of the walk.
Level(ed, up, start, w) ==
  LET expanded == w.seen \cup w.at
      next == (UNION {Step(ed, up, n) : n \in w.at \ w.seen}) \ w.seen
  IN [seen |-> expanded, at |-> next, found |-> w.found \cup (next \ {start})]

Walk0(start) == [seen |-> {}, at |-> {start}, found |-> {}]

\* w is the walk, to a depth.
Walk(w, ed, up, start, depth) ==
  w = [d \in 0..depth |-> IF d = 0 THEN Walk0(start) ELSE Level(ed, up, start, w[d - 1])]

LEMMA LevelOf ==
  ASSUME NEW ed, NEW up, NEW start, NEW w
  PROVE  /\ Level(ed, up, start, w).seen = w.seen \cup w.at
         /\ Level(ed, up, start, w).at = Steps(ed, up, w.at \ w.seen) \ w.seen
         /\ Level(ed, up, start, w).found =
              w.found \cup ((Steps(ed, up, w.at \ w.seen) \ w.seen) \ {start})
<1> DEFINE new == UNION {Step(ed, up, n) : n \in w.at \ w.seen}
<1>1. new = Steps(ed, up, w.at \ w.seen)
  BY DEF Steps
<1>2. Level(ed, up, start, w) = [seen |-> w.seen \cup w.at, at |-> new \ w.seen,
                                 found |-> w.found \cup ((new \ w.seen) \ {start})]
  BY DEF Level
<1> HIDE DEF new
<1> QED
  BY <1>1, <1>2

LEMMA WalkExists ==
  ASSUME NEW ed, NEW up, NEW start, NEW depth \in Nat
  PROVE  \E w : Walk(w, ed, up, start, depth)
<1> DEFINE Good == {d \in Nat : \E w : Walk(w, ed, up, start, d)}
<1>1. 0 \in Good
  <2>1. Walk([d \in 0..0 |-> Walk0(start)], ed, up, start, 0)
    BY DEF Walk
  <2> QED
    BY <2>1
<1>2. ASSUME NEW d \in Nat, d \in Good PROVE d + 1 \in Good
  <2>1. PICK w : Walk(w, ed, up, start, d)
    BY <1>2
  <2> DEFINE g == [i \in 0..(d + 1) |-> IF i = d + 1 THEN Level(ed, up, start, w[d]) ELSE w[i]]
  <2>2. ASSUME NEW i \in 0..(d + 1)
        PROVE  g[i] = IF i = 0 THEN Walk0(start) ELSE Level(ed, up, start, g[i - 1])
    <3>1. CASE i = d + 1
      <4>1. i # 0 /\ i - 1 \in 0..(d + 1) /\ i - 1 = d /\ i - 1 # d + 1
        BY <3>1
      <4>2. g[i - 1] = w[d] /\ g[i] = Level(ed, up, start, w[d])
        BY <3>1, <4>1
      <4> HIDE DEF g
      <4> QED
        BY <4>1, <4>2
    <3>2. CASE i # d + 1
      <4>1. i \in 0..d /\ g[i] = w[i]
        BY <3>2
      <4>2. i # 0 => i - 1 \in 0..(d + 1) /\ i - 1 # d + 1
        BY <3>2
      <4>3. i # 0 => g[i - 1] = w[i - 1]
        BY <4>2
      <4>4. w[i] = IF i = 0 THEN Walk0(start) ELSE Level(ed, up, start, w[i - 1])
        BY <2>1, <4>1 DEF Walk
      <4> HIDE DEF g
      <4> QED
        BY <4>1, <4>3, <4>4
    <3> QED
      BY <3>1, <3>2
  <2>3. g = [i \in 0..(d + 1) |-> IF i = 0 THEN Walk0(start) ELSE Level(ed, up, start, g[i - 1])]
    <3>1. g = [i \in 0..(d + 1) |-> g[i]]
      OBVIOUS
    <3> HIDE DEF g
    <3> QED
      BY <2>2, <3>1
  <2>4. Walk(g, ed, up, start, d + 1)
    <3> HIDE DEF g
    <3> QED
      BY <2>3 DEF Walk
  <2> QED
    BY <2>4
<1>3. depth \in Good
  <2> HIDE DEF Good
  <2> QED
    BY <1>1, <1>2, NatInductive
<1> QED
  BY <1>3

LEMMA ChainIsWalk ==
  ASSUME NEW ed, NEW up, NEW start, NEW depth \in Nat
  PROVE  \E w : Walk(w, ed, up, start, depth) /\ Chain(ed, start, up, depth) = w[depth].found
<1> DEFINE walk == CHOOSE w : w = [d \in 0..depth |->
                      IF d = 0 THEN [seen |-> {}, at |-> {start}, found |-> {}]
                      ELSE Level(ed, up, start, w[d - 1])]
<1>1. Chain(ed, start, up, depth) = walk[depth].found
  BY DEF Chain, Level, Step
<1>2. Walk(walk, ed, up, start, depth)
  <2>1. PICK w : Walk(w, ed, up, start, depth)
    BY WalkExists
  <2>2. w = [d \in 0..depth |-> IF d = 0 THEN [seen |-> {}, at |-> {start}, found |-> {}]
                                ELSE Level(ed, up, start, w[d - 1])]
    BY <2>1 DEF Walk, Walk0
  <2> QED
    BY <2>2, Zenon DEF Walk, Walk0
<1> QED
  BY <1>1, <1>2, Zenon

LEMMA InSteps ==
  ASSUME NEW ed, NEW up, NEW S, NEW x
  PROVE  x \in Steps(ed, up, S) <=> \E y \in S : x \in Step(ed, up, y)
BY DEF Steps

\* What is within so many steps of the start.
Within(within, ed, up, start) ==
  /\ within[0] = {start}
  /\ \A d \in Nat : within[d + 1] = within[d] \cup Steps(ed, up, within[d])

\* A walk to a depth has found all that is within it, but for the start.
LEMMA WalkFinds ==
  ASSUME NEW ed, NEW up, NEW start, NEW depth \in Nat, NEW within,
         Within(within, ed, up, start)
  PROVE  Chain(ed, start, up, depth) = within[depth] \ {start}
<1>1. PICK w : Walk(w, ed, up, start, depth) /\ Chain(ed, start, up, depth) = w[depth].found
  BY ChainIsWalk
<1> DEFINE Good == {d \in Nat : d <= depth =>
                      /\ w[d].seen \cup w[d].at = within[d]
                      /\ Steps(ed, up, w[d].seen) \subseteq within[d]
                      /\ w[d].found = within[d] \ {start}}
<1>2. w[0] = Walk0(start)
  BY <1>1 DEF Walk
<1>3. 0 \in Good
  BY <1>2 DEF Walk0, Steps, Within
<1>4. ASSUME NEW d \in Nat, d \in Good PROVE d + 1 \in Good
  <2> SUFFICES ASSUME d + 1 <= depth
               PROVE  /\ w[d + 1].seen \cup w[d + 1].at = within[d + 1]
                      /\ Steps(ed, up, w[d + 1].seen) \subseteq within[d + 1]
                      /\ w[d + 1].found = within[d + 1] \ {start}
    OBVIOUS
  <2>1. /\ w[d].seen \cup w[d].at = within[d]
        /\ Steps(ed, up, w[d].seen) \subseteq within[d]
        /\ w[d].found = within[d] \ {start}
    BY <1>4
  <2>2. w[d + 1] = Level(ed, up, start, w[d])
    <3>1. d + 1 \in 0..depth /\ d + 1 # 0 /\ (d + 1) - 1 = d
      OBVIOUS
    <3> QED
      BY <1>1, <3>1 DEF Walk
  <2> HIDE DEF Good
  <2>3. PICK new : new = Steps(ed, up, w[d].at \ w[d].seen)
    OBVIOUS
  <2>4. /\ w[d + 1].seen = w[d].seen \cup w[d].at
        /\ w[d + 1].at = new \ w[d].seen
        /\ w[d + 1].found = w[d].found \cup ((new \ w[d].seen) \ {start})
    BY ONLY LevelOf, <2>2, <2>3
  <2>5. Steps(ed, up, within[d]) = Steps(ed, up, w[d].seen) \cup new
    <3>1. within[d] = w[d].seen \cup (w[d].at \ w[d].seen)
      BY <2>1
    <3>2. ASSUME NEW S, NEW T PROVE Steps(ed, up, S \cup T) = Steps(ed, up, S) \cup Steps(ed, up, T)
      BY DEF Steps
    <3> QED
      BY <2>3, <3>1, <3>2
  <2>6. within[d + 1] = within[d] \cup new
    BY <2>1, <2>5 DEF Within
  <2> QED
    BY <2>1, <2>4, <2>5, <2>6
<1>5. depth \in Good
  <2> HIDE DEF Good
  <2> QED
    BY <1>3, <1>4, NatInductive
<1> QED
  BY <1>1, <1>5

\* A live causal edge runs from a to b.
Link(a, b) == \E k \in LiveCausal(edge) : edge[k].from = a /\ edge[k].to = b

LEMMA StepIsLink ==
  ASSUME NEW a, NEW b
  PROVE  /\ a \in Step(edge, TRUE, b) <=> Link(a, b)
         /\ b \in Step(edge, FALSE, a) <=> Link(a, b)
BY DEF Step, Sources, Targets, Link

LEMMA LinkEnds ==
  ASSUME GateInv, NEW a, NEW b, Link(a, b)
  PROVE  a \in DOMAIN node /\ b \in DOMAIN node
BY DEF GateInv, GateKept, Link, LiveCausal, CausalEdges, Edges

\* A path of so many links from m to n.
PathOf(path, d, m, n) ==
  /\ path \in [1..(d + 1) -> Nodes(node)]
  /\ path[1] = m /\ path[d + 1] = n
  /\ \A j \in 1..d : Link(path[j], path[j + 1])

Hops(d, m, n) == \E path : PathOf(path, d, m, n)

LEMMA CausesIsHops ==
  ASSUME NEW depth \in Nat, NEW m, NEW n
  PROVE  Causes(depth, m, n) <=> \E d \in 1..depth : Hops(d, m, n)
<1>1. ASSUME NEW d \in 1..depth, NEW path \in [1..(d + 1) -> Nodes(node)]
      PROVE  Len(path) = d + 1 /\ Len(path) - 1 = d
  OBVIOUS
<1>2. ASSUME Causes(depth, m, n) PROVE \E d \in 1..depth : Hops(d, m, n)
  <2>1. PICK d \in 1..depth : \E path \in [1..(d + 1) -> Nodes(node)] :
          /\ path[1] = m /\ path[Len(path)] = n
          /\ \A j \in 1..(Len(path) - 1) : Link(path[j], path[j + 1])
    BY <1>2 DEF Causes, Link
  <2>2. PICK path \in [1..(d + 1) -> Nodes(node)] :
          /\ path[1] = m /\ path[Len(path)] = n
          /\ \A j \in 1..(Len(path) - 1) : Link(path[j], path[j + 1])
    BY <2>1
  <2>3. PathOf(path, d, m, n)
    BY <1>1, <2>2 DEF PathOf
  <2> QED
    BY <2>3 DEF Hops
<1>3. ASSUME NEW d \in 1..depth, Hops(d, m, n) PROVE Causes(depth, m, n)
  <2>1. PICK path : PathOf(path, d, m, n)
    BY <1>3 DEF Hops
  <2>2. path \in UNION {[1..(c + 1) -> Nodes(node)] : c \in 1..depth}
    BY <2>1 DEF PathOf
  <2>3. path \in [1..(d + 1) -> Nodes(node)]
    BY <2>1 DEF PathOf
  <2>4. Len(path) = d + 1 /\ Len(path) - 1 = d
    BY <1>1, <2>3
  <2> QED
    BY <2>1, <2>2, <2>4 DEF Causes, Link, PathOf
<1> QED
  BY <1>2, <1>3

LEMMA NoHops ==
  ASSUME NEW m, NEW n
  PROVE  Hops(0, m, n) <=> m = n /\ n \in Nodes(node)
<1>1. ASSUME Hops(0, m, n) PROVE m = n /\ n \in Nodes(node)
  BY <1>1 DEF Hops, PathOf
<1>2. ASSUME m = n, n \in Nodes(node) PROVE Hops(0, m, n)
  <2>1. PathOf([j \in 1..(0 + 1) |-> n], 0, m, n)
    BY <1>2 DEF PathOf
  <2> QED
    BY <2>1 DEF Hops
<1> QED
  BY <1>1, <1>2

\* A path is one shorter by a link, at its end or at its beginning.
LEMMA HopsEnd ==
  ASSUME GateInv, NEW d \in Nat, NEW m, NEW n
  PROVE  Hops(d + 1, m, n) <=> \E x : Hops(d, m, x) /\ Link(x, n)
<1>1. ASSUME Hops(d + 1, m, n) PROVE \E x : Hops(d, m, x) /\ Link(x, n)
  <2>1. PICK path : PathOf(path, d + 1, m, n)
    BY <1>1 DEF Hops
  <2>2. PathOf([j \in 1..(d + 1) |-> path[j]], d, m, path[d + 1])
    BY <2>1 DEF PathOf
  <2>3. Link(path[d + 1], n)
    BY <2>1 DEF PathOf
  <2> QED
    BY <2>2, <2>3 DEF Hops
<1>2. ASSUME NEW x, Hops(d, m, x), Link(x, n) PROVE Hops(d + 1, m, n)
  <2>1. PICK path : PathOf(path, d, m, x)
    BY <1>2 DEF Hops
  <2>2. n \in Nodes(node)
    BY <1>2, LinkEnds DEF Nodes
  <2> DEFINE longer == [j \in 1..((d + 1) + 1) |-> IF j = d + 2 THEN n ELSE path[j]]
  <2>3. longer \in [1..((d + 1) + 1) -> Nodes(node)]
    BY <2>1, <2>2 DEF PathOf
  <2>4. longer[1] = m /\ longer[(d + 1) + 1] = n
    BY <2>1 DEF PathOf
  <2>5. ASSUME NEW j \in 1..(d + 1) PROVE Link(longer[j], longer[j + 1])
    <3>1. CASE j = d + 1
      <4>1. longer[j] = x /\ longer[j + 1] = n
        BY <2>1, <3>1 DEF PathOf
      <4> QED
        BY <1>2, <4>1
    <3>2. CASE j # d + 1
      <4>1. longer[j] = path[j] /\ longer[j + 1] = path[j + 1] /\ j \in 1..d
        BY <3>2
      <4> QED
        BY <2>1, <4>1 DEF PathOf
    <3> QED
      BY <3>1, <3>2
  <2>6. PathOf(longer, d + 1, m, n)
    <3> HIDE DEF longer
    <3> QED
      BY <2>3, <2>4, <2>5 DEF PathOf
  <2> QED
    BY <2>6 DEF Hops
<1> QED
  BY <1>1, <1>2

LEMMA HopsBegin ==
  ASSUME GateInv, NEW d \in Nat, NEW m, NEW n
  PROVE  Hops(d + 1, m, n) <=> \E x : Link(m, x) /\ Hops(d, x, n)
<1>1. ASSUME Hops(d + 1, m, n) PROVE \E x : Link(m, x) /\ Hops(d, x, n)
  <2>1. PICK path : PathOf(path, d + 1, m, n)
    BY <1>1 DEF Hops
  <2> DEFINE shorter == [j \in 1..(d + 1) |-> path[j + 1]]
  <2>2. PathOf(shorter, d, path[2], n)
    <3>1. shorter \in [1..(d + 1) -> Nodes(node)] /\ shorter[1] = path[2] /\ shorter[d + 1] = n
      BY <2>1 DEF PathOf
    <3>2. ASSUME NEW j \in 1..d PROVE Link(shorter[j], shorter[j + 1])
      <4>1. shorter[j] = path[j + 1] /\ shorter[j + 1] = path[(j + 1) + 1] /\ j + 1 \in 1..(d + 1)
        OBVIOUS
      <4> HIDE DEF shorter
      <4> QED
        BY <2>1, <4>1 DEF PathOf
    <3> HIDE DEF shorter
    <3> QED
      BY <3>1, <3>2 DEF PathOf
  <2>3. Link(m, path[2])
    <3>1. 1 \in 1..(d + 1) /\ 1 + 1 = 2
      OBVIOUS
    <3> QED
      BY <2>1, <3>1 DEF PathOf
  <2> QED
    BY <2>2, <2>3 DEF Hops
<1>2. ASSUME NEW x, Link(m, x), Hops(d, x, n) PROVE Hops(d + 1, m, n)
  <2>1. PICK path : PathOf(path, d, x, n)
    BY <1>2 DEF Hops
  <2>2. m \in Nodes(node)
    BY <1>2, LinkEnds DEF Nodes
  <2> DEFINE longer == [j \in 1..((d + 1) + 1) |-> IF j = 1 THEN m ELSE path[j - 1]]
  <2>3. longer \in [1..((d + 1) + 1) -> Nodes(node)]
    BY <2>1, <2>2 DEF PathOf
  <2>4. longer[1] = m /\ longer[(d + 1) + 1] = n
    BY <2>1 DEF PathOf
  <2>5. ASSUME NEW j \in 1..(d + 1) PROVE Link(longer[j], longer[j + 1])
    <3>1. CASE j = 1
      <4>1. longer[j] = m /\ longer[j + 1] = x
        BY <2>1, <3>1 DEF PathOf
      <4> QED
        BY <1>2, <4>1
    <3>2. CASE j # 1
      <4>1. longer[j] = path[j - 1] /\ longer[j + 1] = path[(j - 1) + 1] /\ j - 1 \in 1..d
        BY <3>2
      <4> HIDE DEF longer
      <4> QED
        BY <2>1, <4>1 DEF PathOf
    <3> QED
      BY <3>1, <3>2
  <2>6. PathOf(longer, d + 1, m, n)
    <3> HIDE DEF longer
    <3> QED
      BY <2>3, <2>4, <2>5 DEF PathOf
  <2> QED
    BY <2>6 DEF Hops
<1> QED
  BY <1>1, <1>2

LEMMA HopsEnds ==
  ASSUME NEW d \in Nat, NEW m, NEW n, Hops(d, m, n)
  PROVE  m \in Nodes(node) /\ n \in Nodes(node)
BY DEF Hops, PathOf

\* Upstream the walk finds the nodes a path leads from, downstream those one leads to.
LEMMA UpstreamFinds ==
  ASSUME GateInv, NEW n \in Nodes(node), NEW depth \in Nat, NEW m
  PROVE  m \in Chain(edge, n, TRUE, depth) <=> m # n /\ \E d \in 1..depth : Hops(d, m, n)
<1> DEFINE within == [d \in Nat |-> {x \in Nodes(node) : \E e \in 0..d : Hops(e, x, n)}]
<1>1. within[0] = {n}
  <2>1. ASSUME NEW x PROVE x \in within[0] <=> Hops(0, x, n)
    BY HopsEnds
  <2> HIDE DEF within
  <2> QED
    BY <2>1, NoHops
<1>2. ASSUME NEW d \in Nat PROVE within[d + 1] = within[d] \cup Steps(edge, TRUE, within[d])
  <2>1. ASSUME NEW x PROVE x \in Steps(edge, TRUE, within[d]) <=> \E y \in within[d] : Link(x, y)
    <3> HIDE DEF within
    <3> QED
      BY StepIsLink, InSteps
  <2>2. ASSUME NEW x \in within[d + 1] PROVE x \in within[d] \cup Steps(edge, TRUE, within[d])
    <3>1. PICK e \in 0..(d + 1) : x \in Nodes(node) /\ Hops(e, x, n)
      BY <2>2
    <3>2. CASE e \in 0..d
      BY <3>1, <3>2
    <3>3. CASE e = d + 1
      <4>1. PICK y : Link(x, y) /\ Hops(d, y, n)
        BY <3>1, <3>3, HopsBegin
      <4>2. y \in within[d]
        BY <4>1, HopsEnds
      <4> QED
        BY <2>1, <4>1, <4>2
    <3>4. e \in 0..d \/ e = d + 1
      BY <3>1
    <3> QED
      BY <3>2, <3>3, <3>4
  <2>3. ASSUME NEW x \in within[d] PROVE x \in within[d + 1]
    BY <2>3
  <2>4. ASSUME NEW x \in Steps(edge, TRUE, within[d]) PROVE x \in within[d + 1]
    <3>1. PICK y \in within[d] : Link(x, y)
      BY <2>1, <2>4
    <3>2. PICK e \in 0..d : Hops(e, y, n)
      BY <3>1
    <3>3. Hops(e + 1, x, n)
      BY <3>1, <3>2, HopsBegin
    <3>4. x \in Nodes(node) /\ e + 1 \in 0..(d + 1)
      BY <3>3, HopsEnds
    <3> QED
      BY <3>3, <3>4
  <2> HIDE DEF within
  <2> QED
    BY <2>2, <2>3, <2>4
<1>3. Chain(edge, n, TRUE, depth) = within[depth] \ {n}
  <2> HIDE DEF within
  <2>1. PICK up, w : up = TRUE /\ w = within
    OBVIOUS
  <2>2. Within(w, edge, up, n)
    BY <1>1, <1>2, <2>1 DEF Within
  <2>3. Chain(edge, n, up, depth) = w[depth] \ {n}
    BY <2>2, WalkFinds
  <2> QED
    BY <2>1, <2>3
<1>4. m \in within[depth] <=> \E d \in 0..depth : Hops(d, m, n)
  BY HopsEnds
<1>5. m # n => ~Hops(0, m, n)
  BY NoHops
<1> HIDE DEF within
<1>6. (\E d \in 0..depth : Hops(d, m, n)) <=> Hops(0, m, n) \/ \E d \in 1..depth : Hops(d, m, n)
  <2>1. \A d \in 0..depth : d = 0 \/ d \in 1..depth
    OBVIOUS
  <2>2. 0 \in 0..depth /\ \A d \in 1..depth : d \in 0..depth
    OBVIOUS
  <2> QED
    BY <2>1, <2>2
<1> QED
  BY <1>3, <1>4, <1>5, <1>6

LEMMA DownstreamFinds ==
  ASSUME GateInv, NEW n \in Nodes(node), NEW depth \in Nat, NEW m
  PROVE  m \in Chain(edge, n, FALSE, depth) <=> m # n /\ \E d \in 1..depth : Hops(d, n, m)
<1> DEFINE within == [d \in Nat |-> {x \in Nodes(node) : \E e \in 0..d : Hops(e, n, x)}]
<1>1. within[0] = {n}
  <2>1. ASSUME NEW x PROVE x \in within[0] <=> Hops(0, n, x)
    BY HopsEnds
  <2> HIDE DEF within
  <2> QED
    BY <2>1, NoHops
<1>2. ASSUME NEW d \in Nat PROVE within[d + 1] = within[d] \cup Steps(edge, FALSE, within[d])
  <2>1. ASSUME NEW x PROVE x \in Steps(edge, FALSE, within[d]) <=> \E y \in within[d] : Link(y, x)
    <3> HIDE DEF within
    <3> QED
      BY StepIsLink, InSteps
  <2>2. ASSUME NEW x \in within[d + 1] PROVE x \in within[d] \cup Steps(edge, FALSE, within[d])
    <3>1. PICK e \in 0..(d + 1) : x \in Nodes(node) /\ Hops(e, n, x)
      BY <2>2
    <3>2. CASE e \in 0..d
      BY <3>1, <3>2
    <3>3. CASE e = d + 1
      <4>1. PICK y : Hops(d, n, y) /\ Link(y, x)
        BY <3>1, <3>3, HopsEnd
      <4>2. y \in within[d]
        BY <4>1, HopsEnds
      <4> QED
        BY <2>1, <4>1, <4>2
    <3>4. e \in 0..d \/ e = d + 1
      BY <3>1
    <3> QED
      BY <3>2, <3>3, <3>4
  <2>3. ASSUME NEW x \in within[d] PROVE x \in within[d + 1]
    BY <2>3
  <2>4. ASSUME NEW x \in Steps(edge, FALSE, within[d]) PROVE x \in within[d + 1]
    <3>1. PICK y \in within[d] : Link(y, x)
      BY <2>1, <2>4
    <3>2. PICK e \in 0..d : Hops(e, n, y)
      BY <3>1
    <3>3. Hops(e + 1, n, x)
      BY <3>1, <3>2, HopsEnd
    <3>4. x \in Nodes(node) /\ e + 1 \in 0..(d + 1)
      BY <3>3, HopsEnds
    <3> QED
      BY <3>3, <3>4
  <2> HIDE DEF within
  <2> QED
    BY <2>2, <2>3, <2>4
<1>3. Chain(edge, n, FALSE, depth) = within[depth] \ {n}
  <2> HIDE DEF within
  <2>1. PICK up, w : up = FALSE /\ w = within
    OBVIOUS
  <2>2. Within(w, edge, up, n)
    BY <1>1, <1>2, <2>1 DEF Within
  <2>3. Chain(edge, n, up, depth) = w[depth] \ {n}
    BY <2>2, WalkFinds
  <2> QED
    BY <2>1, <2>3
<1>4. m \in within[depth] <=> \E d \in 0..depth : Hops(d, n, m)
  BY HopsEnds
<1>5. m # n => ~Hops(0, n, m)
  BY NoHops
<1> HIDE DEF within
<1>6. (\E d \in 0..depth : Hops(d, n, m)) <=> Hops(0, n, m) \/ \E d \in 1..depth : Hops(d, n, m)
  <2>1. \A d \in 0..depth : d = 0 \/ d \in 1..depth
    OBVIOUS
  <2>2. 0 \in 0..depth /\ \A d \in 1..depth : d \in 0..depth
    OBVIOUS
  <2> QED
    BY <2>1, <2>2
<1> QED
  BY <1>3, <1>4, <1>5, <1>6

LEMMA FindsAtDepth ==
  ASSUME GateInv, NEW depth \in Nat
  PROVE  ChainFinds(depth)
<1> SUFFICES ASSUME NEW n \in Nodes(node)
             PROVE  /\ Chain(edge, n, TRUE, depth) =
                         {m \in Nodes(node) \ {n} : Causes(depth, m, n)}
                    /\ \A m \in Nodes(node) :
                         m \in Chain(edge, n, FALSE, depth) <=> n \in Chain(edge, m, TRUE, depth)
  BY DEF ChainFinds
<1>1. ASSUME NEW m
      PROVE  m \in Chain(edge, n, TRUE, depth) <=> m \in Nodes(node) \ {n} /\ Causes(depth, m, n)
  <2>1. m \in Chain(edge, n, TRUE, depth) <=> m # n /\ Causes(depth, m, n)
    BY CausesIsHops, UpstreamFinds
  <2>2. Causes(depth, m, n) => m \in Nodes(node)
    <3>1. ASSUME NEW d \in 1..depth, Hops(d, m, n) PROVE m \in Nodes(node)
      BY <3>1, HopsEnds
    <3> QED
      BY <3>1, CausesIsHops
  <2> QED
    BY <2>1, <2>2
<1>2. ASSUME NEW m \in Nodes(node)
      PROVE  m \in Chain(edge, n, FALSE, depth) <=> n \in Chain(edge, m, TRUE, depth)
  BY DownstreamFinds, UpstreamFinds
<1> QED
  BY <1>1, <1>2

\* At every depth a caller may ask for, get_causal_chain finds what causes a node within
\* it and nothing else, and downstream mirrors upstream, on any graph the writers can leave
\* behind (context_graph.py:209-289).
THEOREM ChainFindsHolds == GraphSpec => [](\A depth \in Nat : ChainFinds(depth))
<1>1. GateAll => \A depth \in Nat : ChainFinds(depth)
  BY FindsAtDepth DEF GateAll
<1> QED
  BY <1>1, GateAllHolds, PTL

\* What get_causal_chain finds is what causes a node, whatever cycles the edges form, for
\* any graph that the writers can leave behind; what is two hops away is in the
\* neighbourhood traverse_2hop shows (context_graph.py:209-366).
THEOREM ChainIsCausesHolds == GraphSpec => []ChainIsCauses
<1>1. ASSUME GateInv PROVE ChainIsCauses
  <2>1. \A depth \in 0..3 : ChainFinds(depth)
    BY <1>1, FindsAtDepth
  <2>2. ASSUME NEW n \in Nodes(node), NEW m \in Chain(edge, n, TRUE, 2),
               node[m].acct = node[n].acct
        PROVE  m \in Ego(node, edge, node[n].acct, n)
    <3>1. PICK d \in 1..2 : m # n /\ Hops(d, m, n)
      <4>1. m # n /\ \E d \in 1..2 : Hops(d, m, n)
        BY <1>1, <2>2, UpstreamFinds
      <4> QED
        BY <4>1
    <3>2. ASSUME NEW a, NEW b, Link(a, b) PROVE a \in Around(edge, b)
      BY <3>2 DEF Link, LiveCausal, CausalEdges, Around, Touching
    <3>3. ASSUME NEW a, NEW b PROVE Hops(1, a, b) => Link(a, b)
      <4>1. Hops(0 + 1, a, b) => \E x : Link(a, x) /\ Hops(0, x, b)
        BY <1>1, HopsBegin
      <4>2. \A x : Hops(0, x, b) => x = b
        BY NoHops
      <4> QED
        BY <4>1, <4>2
    <3>4. \/ m \in Around(edge, n)
          \/ \E x \in Around(edge, n) \ {n} : m \in Around(edge, x)
      <4>1. CASE d = 1
        BY <3>1, <3>2, <3>3, <4>1
      <4>2. CASE d = 2
        <5>1. Hops(1 + 1, m, n) => \E x : Link(m, x) /\ Hops(1, x, n)
          BY <1>1, HopsBegin
        <5>2. PICK x : Link(m, x) /\ Link(x, n)
          BY <3>1, <3>3, <4>2, <5>1
        <5>3. m \in Around(edge, x) /\ x \in Around(edge, n)
          BY <3>2, <5>2
        <5> QED
          BY <5>3
      <4> QED
        BY <4>1, <4>2
    <3>5. m \in Nodes(node)
      BY <3>1, HopsEnds
    <3> QED
      BY <2>2, <3>4, <3>5 DEF Ego
  <2> QED
    BY <2>1, <2>2 DEF ChainIsCauses
<1> QED
  BY <1>1, GateAllHolds, PTL DEF GateAll

-----------------------------------------------------------------------------
(***************************************************************************)
(* An outcome loaded again.  What a reader sums is a function of the       *)
(* columns that the second row shares with the first.                      *)
(***************************************************************************)
\* The rows from the first to the last but one are there before and after; the last is
\* row i without its event id.
Reloaded(i) ==
  /\ DOMAIN node' = DOMAIN node \cup {Len(node) + 1} /\ DOMAIN node = 1..Len(node)
  /\ i \in DOMAIN node
  /\ \A j \in DOMAIN node : node'[j] = node[j]
  /\ LET n == node'[Len(node) + 1]
     IN /\ n.type = node[i].type /\ n.sub = node[i].sub /\ n.acct = node[i].acct
        /\ n.at = node[i].at /\ n.impact = node[i].impact /\ n.tag = node[i].tag
        /\ n.conf = node[i].conf /\ n.title = node[i].title /\ n.live = node[i].live

LEMMA ReloadAppends ==
  ASSUME NodeInv, NEW i \in 1..MaxNodes, Reload(i)
  PROVE  Reloaded(i)
<1> DEFINE row == [node[i] EXCEPT !.src = None]
<1>1. i \in DOMAIN node /\ node' = Append(node, row) /\ node[i] \in NodeRow /\ Len(node) \in Nat
  BY DEF NodeInv, Reload, Outcomes, Nodes
<1>2. /\ row \in NodeRow
      /\ row.type = node[i].type /\ row.sub = node[i].sub /\ row.acct = node[i].acct
      /\ row.at = node[i].at /\ row.impact = node[i].impact /\ row.tag = node[i].tag
      /\ row.conf = node[i].conf /\ row.title = node[i].title /\ row.live = node[i].live
  BY <1>1 DEF NodeRow
<1> HIDE DEF row
<1>3. /\ DOMAIN node' = DOMAIN node \cup {Len(node) + 1} /\ DOMAIN node = 1..Len(node)
      /\ node'[Len(node) + 1] = row /\ \A j \in DOMAIN node : node'[j] = node[j]
  BY <1>1, <1>2 DEF NodeInv
<1> QED
  BY <1>1, <1>2, <1>3 DEF Reloaded

\* get_revenue_at_risk sums a set of amounts, and the second row adds none.
LEMMA RevenueReloaded ==
  ASSUME NEW i, Reloaded(i), NEW a
  PROVE  AccountRevenue(node', a) = AccountRevenue(node, a)
<1> DEFINE amounts(nd, b) == {Weighted(nd[j]) : j \in {k \in Counted(nd, a) : Bucket(nd[k]) = b}}
           new == Len(node) + 1
<1>1. /\ new \in Counted(node', a) <=> i \in Counted(node, a)
      /\ Weighted(node'[new]) = Weighted(node[i]) /\ Bucket(node'[new]) = Bucket(node[i])
  BY DEF Reloaded, Counted, Weighted, Bucket, Outcomes, Nodes
<1>2. ASSUME NEW j \in DOMAIN node
      PROVE  /\ j \in Counted(node', a) <=> j \in Counted(node, a)
             /\ Weighted(node'[j]) = Weighted(node[j]) /\ Bucket(node'[j]) = Bucket(node[j])
  BY DEF Reloaded, Counted, Outcomes, Nodes
<1>3. Counted(node', a) \subseteq DOMAIN node \cup {new} /\ Counted(node, a) \subseteq DOMAIN node
  BY DEF Reloaded, Counted, Outcomes, Nodes
<1>4. i \in DOMAIN node
  BY DEF Reloaded
<1> HIDE DEF new
<1>5. ASSUME NEW b PROVE amounts(node', b) = amounts(node, b)
  <2>1. ASSUME NEW x \in amounts(node', b) PROVE x \in amounts(node, b)
    <3>1. PICK j \in Counted(node', a) : Bucket(node'[j]) = b /\ x = Weighted(node'[j])
      OBVIOUS
    <3>2. CASE j \in DOMAIN node
      BY <1>2, <3>1, <3>2
    <3>3. CASE j = new
      BY <1>1, <1>4, <3>1, <3>3
    <3> QED
      BY <1>3, <3>2, <3>3
  <2>2. ASSUME NEW x \in amounts(node, b) PROVE x \in amounts(node', b)
    <3>1. PICK j \in Counted(node, a) : Bucket(node[j]) = b /\ x = Weighted(node[j])
      OBVIOUS
    <3> QED
      BY <1>2, <1>3, <3>1
  <2> QED
    BY <2>1, <2>2
<1>6. \A nd : AccountRevenue(nd, a) =
         [b \in {"at_risk", "protected", "expansion", "lost"} |-> ClusterTotal(amounts(nd, b))]
  BY DEF AccountRevenue
<1> HIDE DEF amounts
<1> QED
  BY <1>5, <1>6

\* The rollup skips a row alike an earlier one, and the second row is alike the first.
LEMMA RollupReloaded ==
  ASSUME NEW i, Reloaded(i), NEW a
  PROVE  Rollup(node', {a}) = Rollup(node, {a})
<1> DEFINE new == Len(node) + 1
           sel(nd) == {j \in Outcomes(nd) : nd[j].acct \in {a} /\ nd[j].impact # None}
           sum(nd, b) == SumOver(nd, {j \in RolledUp(nd, {a}) : Bucket(nd[j]) = b})
<1>1. i \in DOMAIN node /\ new \notin DOMAIN node /\ \A j \in DOMAIN node : j < new
  BY DEF Reloaded
<1>2. /\ \A j \in DOMAIN node : j \in sel(node') <=> j \in sel(node)
      /\ new \in sel(node') => i \in sel(node')
      /\ sel(node') \subseteq DOMAIN node \cup {new} /\ sel(node) \subseteq DOMAIN node
  BY DEF Reloaded, Outcomes, Nodes
<1>3. Alike(node'[new], node'[i])
  BY DEF Reloaded, Alike
<1>4. \A j, k \in DOMAIN node : Alike(node'[j], node'[k]) <=> Alike(node[j], node[k])
  BY DEF Reloaded
<1> HIDE DEF new, sel
<1>5. RolledUp(node', {a}) = RolledUp(node, {a})
  <2>1. RolledUp(node', {a}) = FirstOfAlike(node', sel(node'))
        /\ RolledUp(node, {a}) = FirstOfAlike(node, sel(node))
    BY DEF RolledUp, sel
  <2>2. new \notin FirstOfAlike(node', sel(node'))
    <3>1. ASSUME new \in sel(node') PROVE i \in sel(node') /\ i < new /\ Alike(node'[new], node'[i])
      BY <1>1, <1>2, <1>3, <3>1
    <3>2. ASSUME NEW S, NEW x \in FirstOfAlike(node', S), NEW j \in S
          PROVE  x \in S /\ ~(j < x /\ Alike(node'[x], node'[j]))
      BY DEF FirstOfAlike
    <3>3. new \in FirstOfAlike(node', sel(node')) => new \in sel(node')
      BY DEF FirstOfAlike
    <3> QED
      BY <3>1, <3>2, <3>3
  <2>3. ASSUME NEW j \in DOMAIN node
        PROVE  j \in FirstOfAlike(node', sel(node')) <=> j \in FirstOfAlike(node, sel(node))
    <3>1. ASSUME NEW k \in sel(node'), k < j PROVE k \in DOMAIN node
      BY <1>1, <1>2, <3>1 DEF Reloaded, new
    <3> QED
      BY <1>2, <1>4, <3>1 DEF FirstOfAlike
  <2>4. FirstOfAlike(node', sel(node')) \subseteq DOMAIN node \cup {new}
        /\ FirstOfAlike(node, sel(node)) \subseteq DOMAIN node
    BY <1>2 DEF FirstOfAlike
  <2> QED
    BY <2>1, <2>2, <2>3, <2>4
<1>6. ASSUME NEW j \in RolledUp(node, {a}) PROVE node'[j] = node[j]
  BY <1>2 DEF Reloaded, RolledUp, FirstOfAlike, Outcomes, Nodes
<1>7. ASSUME NEW b PROVE sum(node', b) = sum(node, b)
  <2> DEFINE S == {j \in RolledUp(node, {a}) : Bucket(node[j]) = b}
  <2>1. {j \in RolledUp(node', {a}) : Bucket(node'[j]) = b} = S
    BY <1>5, <1>6
  <2>2. [j \in S |-> 10 * Magnitude(node'[j].impact)] = [j \in S |-> 10 * Magnitude(node[j].impact)]
    BY <1>6
  <2> QED
    BY <2>1, <2>2 DEF SumOver
<1>8. \A nd : Rollup(nd, {a}) = [b \in {"at_risk", "protected", "expansion", "lost"} |-> sum(nd, b)]
  BY DEF Rollup
<1> HIDE DEF sum
<1> QED
  BY <1>7, <1>8

\* Both rows of a definitive subtype are duplicates of one another to the audit.
LEMMA CopyReported ==
  ASSUME NodeInv, NEW i \in 1..MaxNodes, Reload(i), node[i].sub \in Definitive
  PROVE  {i, Len(node')} \subseteq I13(node')
<1> DEFINE new == Len(node) + 1
<1>1. Reloaded(i) /\ i \in Outcomes(node)
  BY ReloadAppends DEF Reload
<1>2. Len(node') = new /\ i # new
  BY <1>1 DEF Reload, Reloaded, NodeInv
<1>3. {i, new} \subseteq Outcomes(node') /\ node'[i] = node[i]
  BY <1>1 DEF Reloaded, Outcomes, Nodes
<1>4. node'[new].sub = node[i].sub /\ node'[new].acct = node[i].acct
  BY <1>1 DEF Reloaded
<1> QED
  BY <1>2, <1>3, <1>4 DEF I13

\* A copy carries the amount, the tag and the subtype of the original, so Wizard B counts it too.
LEMMA CopyRealized ==
  ASSUME NodeInv, NEW i \in 1..MaxNodes, Reload(i), NEW b, i \in Realizing(node, node[i].acct, b)
  PROVE  {i, Len(node')} \subseteq Realizing(node', node[i].acct, b)
<1> DEFINE new == Len(node) + 1
<1>1. Reloaded(i) /\ i \in Outcomes(node)
  BY ReloadAppends DEF Reload
<1>2. Len(node') = new
  BY <1>1 DEF Reload, Reloaded, NodeInv
<1>3. {i, new} \subseteq Outcomes(node') /\ node'[i] = node[i]
  BY <1>1 DEF Reloaded, Outcomes, Nodes
<1>4. /\ node'[new].sub = node[i].sub /\ node'[new].acct = node[i].acct
      /\ node'[new].impact = node[i].impact /\ node'[new].tag = node[i].tag
  BY <1>1 DEF Reloaded
<1>5. RealizedBucket(node'[new]) = RealizedBucket(node[i])
  BY <1>4 DEF RealizedBucket
<1>6. node[i].impact # None /\ b \in RealizedBucket(node[i])
  BY DEF Realizing
<1> QED
  BY <1>2, <1>3, <1>4, <1>5, <1>6 DEF Realizing

\* For any outcomes, amounts and accounts, an outcome that is loaded a second time changes
\* neither of the amounts read with deduplication; Wizard B counts it wherever it counts the
\* original, and when it is a definitive one the audit reports both rows
\* (context_graph.py:384-440, wizard_b_hindsight.py:144-156,
\* context_graph_invariants.py:840-898).
THEOREM ReloadIsToldHolds == GraphSpec => ReloadIsTold
<1> DEFINE Told(i) ==
      /\ \A a \in {node[j].acct : j \in Nodes(node)} :
           /\ AccountRevenue(node', a) = AccountRevenue(node, a)
           /\ Rollup(node', {a}) = Rollup(node, {a})
      /\ \A b \in Buckets : i \in Realizing(node, node[i].acct, b) =>
           {i, Len(node')} \subseteq Realizing(node', node[i].acct, b)
      /\ node[i].sub \in Definitive => {i, Len(node')} \subseteq I13(node')
<1>1. ASSUME GateAll, NEW i \in 1..MaxNodes, Reload(i) PROVE Told(i)
  <2>1. NodeInv /\ Reloaded(i)
    BY <1>1, ReloadAppends DEF GateAll
  <2>2. \A a : AccountRevenue(node', a) = AccountRevenue(node, a) /\ Rollup(node', {a}) = Rollup(node, {a})
    BY <2>1, RevenueReloaded, RollupReloaded
  <2> QED
    BY <1>1, <2>1, <2>2, CopyReported, CopyRealized
<1>2. GateAll /\ [GraphNext]_gvars => [\A i \in 1..MaxNodes : Reload(i) => Told(i)]_gvars
  BY <1>1
<1> QED
  BY <1>2, GateAllHolds, PTL DEF GraphSpec, ReloadIsTold

=============================================================================
