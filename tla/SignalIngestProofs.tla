------------------------- MODULE SignalIngestProofs -------------------------
(***************************************************************************)
(* Proofs about SignalIngest for any lanes, ids, texts, moments and window.*)
(***************************************************************************)
EXTENDS SignalIngest, FiniteSetTheorems, WellFoundedInduction, TLAPS

Busy == {l \in Lane : adding[l] # {}}

\* The rows stored and those about to be are within the bound.
Room == Len(rows) + Cardinality(Busy) <= MaxRows

\* What Insert does to the rows: nothing, or one more at the end.
LEMMA InsertAppends ==
  ASSUME TypeOK, NEW l \in Lane, Insert(l)
  PROVE  \E m \in Item :
           /\ adding[l] = {m}
           /\ rows' = IF Exists(m.sid) THEN rows ELSE Append(rows, m)
<1>1. PICK m \in adding[l] : rows' = IF Exists(m.sid) THEN rows ELSE Append(rows, m)
  BY DEF Insert
<1>2. adding[l] \in {{}} \cup {{n} : n \in Item}
  BY DEF TypeOK
<1>3. m \in Item /\ adding[l] = {m}
  BY <1>1, <1>2
<1> QED
  BY <1>1, <1>3

LEMMA BusyShrinks ==
  ASSUME TypeOK, NEW l \in Lane, Insert(l)
  PROVE  /\ Cardinality(Busy) \in Nat
         /\ Cardinality(Busy') = Cardinality(Busy) - 1
<1>1. IsFiniteSet(Busy)
  BY IngestAssumption, FS_Subset DEF Busy
<1>2. l \in Busy
  BY InsertAppends DEF Busy
<1>3. Busy' = Busy \ {l}
  BY DEF Insert, Busy, TypeOK
<1> QED
  BY <1>1, <1>2, <1>3, FS_RemoveElement, FS_CardinalityType

LEMMA BusyGrows ==
  ASSUME TypeOK, NEW l \in Lane, NEW m \in Item, Look(l, m)
  PROVE  /\ Cardinality(Busy) \in Nat
         /\ Len(rows) + Cardinality(Busy) < MaxRows
         /\ Cardinality(Busy') \in {Cardinality(Busy), Cardinality(Busy) + 1}
<1>1. IsFiniteSet(Busy)
  BY IngestAssumption, FS_Subset DEF Busy
<1>2. l \notin Busy
  BY DEF Look, Busy
<1>3. Busy' = Busy \/ Busy' = Busy \cup {l}
  BY DEF Look, Busy, TypeOK
<1>4. Len(rows) + Cardinality(Busy) < MaxRows
  BY DEF Look, Busy
<1> QED
  BY <1>1, <1>2, <1>3, <1>4, FS_AddElement, FS_CardinalityType

LEMMA TypeInit == Init => TypeOK /\ Room
<1> SUFFICES ASSUME Init PROVE TypeOK /\ Room
  OBVIOUS
<1>1. Busy = {}
  BY DEF Init, Busy
<1>2. Cardinality(Busy) = 0
  BY <1>1, FS_EmptySet
<1> QED
  BY <1>2, IngestAssumption DEF Init, TypeOK, Room

LEMMA TypeNext == TypeOK /\ Room /\ [Next]_vars => TypeOK' /\ Room'
<1> SUFFICES ASSUME TypeOK, Room, [Next]_vars PROVE TypeOK' /\ Room'
  OBVIOUS
<1>1. ASSUME NEW l \in Lane, Insert(l) PROVE TypeOK' /\ Room'
  <2>1. PICK m \in Item : rows' = IF Exists(m.sid) THEN rows ELSE Append(rows, m)
    BY <1>1, InsertAppends
  <2>2. rows' \in Seq(Item) /\ Len(rows') \in {Len(rows), Len(rows) + 1} /\ Len(rows) \in Nat
    BY <2>1 DEF TypeOK
  <2>3. Len(rows') + Cardinality(Busy') <= MaxRows /\ Cardinality(Busy') \in Nat
    <3>1. /\ Cardinality(Busy) \in Nat
          /\ Cardinality(Busy') = Cardinality(Busy) - 1
      BY <1>1, BusyShrinks
    <3>2. Cardinality(Busy') \in Nat
      <4>1. IsFiniteSet(Busy')
        BY IngestAssumption, FS_Subset DEF Busy
      <4> QED
        BY <4>1, FS_CardinalityType
    <3> QED
      BY <2>2, <3>1, <3>2, IngestAssumption DEF Room
  <2> QED
    BY <1>1, <2>2, <2>3, IngestAssumption DEF Insert, TypeOK, Room
<1>2. ASSUME NEW l \in Lane, NEW m \in Item, Look(l, m) PROVE TypeOK' /\ Room'
  <2>1. Room'
    <3>1. Len(rows') = Len(rows) /\ Len(rows) \in Nat
      BY <1>2 DEF Look, TypeOK
    <3>2. /\ Cardinality(Busy) \in Nat
          /\ Len(rows) + Cardinality(Busy) < MaxRows
          /\ Cardinality(Busy') \in {Cardinality(Busy), Cardinality(Busy) + 1}
      BY <1>2, BusyGrows
    <3>3. MaxRows \in Nat
      BY IngestAssumption
    <3>4. Len(rows') + Cardinality(Busy') <= MaxRows
      BY <3>1, <3>2, <3>3
    <3> QED
      BY <3>4 DEF Room
  <2>2. clock' \in [Text -> Moments \cup {0}]
    BY <1>2 DEF Look, TypeOK, Item
  <2>3. messy' \in SUBSET Text
    BY <1>2 DEF Look, TypeOK, Item
  <2>4. adding' \in [Lane -> {{}} \cup {{n} : n \in Item}] /\ dropped' \in SUBSET Item
    BY <1>2 DEF Look, TypeOK
  <2> QED
    BY <1>2, <2>1, <2>2, <2>3, <2>4 DEF Look, TypeOK
<1>3. CASE UNCHANGED vars
  BY <1>3 DEF vars, TypeOK, Room, Busy
<1> QED
  BY <1>1, <1>2, <1>3 DEF Next

\* Every state ingest reaches is well typed, whatever the constants.
THEOREM IngestTypeCorrect == Spec => []TypeOK
<1>1. Spec => [](TypeOK /\ Room)
  BY TypeInit, TypeNext, PTL DEF Spec
<1> QED
  BY <1>1, PTL

\* A step leaves the rows as they are, or appends one whose id is not there.
LEMMA RowsGrow ==
  ASSUME TypeOK, [Next]_vars
  PROVE  \/ rows' = rows
         \/ \E l \in Lane : \E m \in Item :
              /\ Insert(l) /\ adding[l] = {m}
              /\ ~Exists(m.sid)
              /\ rows' = Append(rows, m)
<1>1. ASSUME NEW l \in Lane, Insert(l)
      PROVE  \/ rows' = rows
             \/ \E m \in Item : adding[l] = {m} /\ ~Exists(m.sid) /\ rows' = Append(rows, m)
  BY <1>1, InsertAppends
<1>2. ASSUME NEW l \in Lane, NEW m \in Item, Look(l, m) PROVE rows' = rows
  BY <1>2 DEF Look
<1>3. CASE UNCHANGED vars
  BY <1>3 DEF vars
<1> QED
  BY <1>1, <1>2, <1>3 DEF Next

\* What appending does to the positions.
LEMMA AfterAppend ==
  ASSUME TypeOK, NEW m \in Item, rows' = Append(rows, m)
  PROVE  /\ Len(rows) \in Nat
         /\ Stored' = Stored \cup {Len(rows) + 1}
         /\ \A i \in Stored : i \in Nat /\ i <= Len(rows) /\ rows'[i] = rows[i] /\ rows[i] \in Item
         /\ rows'[Len(rows) + 1] = m
BY DEF TypeOK, Stored

LEMMA IdOnceNext == TypeOK /\ IdOnce /\ [Next]_vars => IdOnce'
<1> SUFFICES ASSUME TypeOK, IdOnce, [Next]_vars PROVE IdOnce'
  OBVIOUS
<1>1. CASE rows' = rows
  BY <1>1 DEF IdOnce, Stored
<1>2. ASSUME NEW m \in Item, ~Exists(m.sid), rows' = Append(rows, m) PROVE IdOnce'
  <2>1. /\ Stored' = Stored \cup {Len(rows) + 1}
        /\ \A i \in Stored : rows'[i] = rows[i]
        /\ rows'[Len(rows) + 1] = m
    BY <1>2, AfterAppend
  <2>2. \A i \in Stored : rows[i].sid = m.sid => m.sid = NoId
    BY <1>2 DEF Exists
  <2> QED
    BY <2>1, <2>2 DEF IdOnce
<1> QED
  BY <1>1, <1>2, RowsGrow

\* A source's id names one row, for any number of lanes and any order of arrival:
\* the table's constraint is enough although the look-up and the insert are apart.
THEOREM IdOnceHolds == Spec => []IdOnce
<1>1. Init => IdOnce
  BY DEF Init, IdOnce, Stored
<1>2. TypeOK /\ IdOnce /\ [Next]_vars => IdOnce'
  BY IdOnceNext
<1> QED
  BY <1>1, <1>2, IngestTypeCorrect, PTL DEF Spec

-----------------------------------------------------------------------------
\* The code's rounded distance is at most Window only for moments that are near.
LEMMA RoundingIsNear ==
  ASSUME NEW a \in Nat, NEW b \in Nat, Abs(Days(a, b)) <= Window
  PROVE  Near(b, a)
<1>1. Window \in Nat
  BY IngestAssumption
<1>2. DEFINE d == (a - b) \div 2
<1>3. d \in Int /\ 2 * d <= a - b /\ a - b <= 2 * d + 1
  OBVIOUS
<1>4. -Window <= d /\ d <= Window
  <2> HIDE DEF d
  <2>1. (IF d < 0 THEN -d ELSE d) <= Window
    BY DEF d, Abs, Days
  <2> QED
    BY <1>1, <1>3, <2>1
<1> HIDE DEF d
<1>5. -(2 * Window) <= a - b /\ a - b <= 2 * Window + 1
  BY <1>1, <1>3, <1>4
<1> QED
  BY <1>1, <1>5 DEF Near, Abs

LEMMA DropIsCovered ==
  ASSUME TypeOK, NEW m \in Item, Exists(m.sid) \/ Duplicate(m)
  PROVE  \E i \in Stored :
           \/ rows[i].sid = m.sid /\ m.sid # NoId
           \/ rows[i].text = m.text /\ Near(rows[i].at, m.at)
<1>1. CASE Exists(m.sid)
  BY <1>1 DEF Exists
<1>2. CASE Duplicate(m)
  <2>1. PICK i \in Stored : rows[i].text = m.text /\ Abs(Days(m.at, rows[i].at)) <= Window
    BY <1>2 DEF Duplicate
  <2>2. rows[i] \in Item
    BY DEF TypeOK, Stored
  <2>3. m.at \in Nat /\ rows[i].at \in Nat
    BY <2>2, IngestAssumption DEF Item
  <2> QED
    BY <2>1, <2>3, RoundingIsNear
<1> QED
  BY <1>1, <1>2

LEMMA DropsNext == TypeOK /\ DropsAreCovered /\ [Next]_vars => DropsAreCovered'
<1> SUFFICES ASSUME TypeOK, DropsAreCovered, [Next]_vars, NEW m \in dropped'
             PROVE  \E i \in Stored' :
                      \/ rows'[i].sid = m.sid /\ m.sid # NoId
                      \/ rows'[i].text = m.text /\ Near(rows'[i].at, m.at)
  BY DEF DropsAreCovered
<1>1. \E i \in Stored :
        \/ rows[i].sid = m.sid /\ m.sid # NoId
        \/ rows[i].text = m.text /\ Near(rows[i].at, m.at)
  <2>1. CASE m \in dropped
    BY <2>1 DEF DropsAreCovered
  <2>2. CASE m \notin dropped
    <3>1. m \in Item /\ (Exists(m.sid) \/ Duplicate(m))
      BY <2>2 DEF Next, Look, Insert, vars
    <3> QED
      BY <3>1, DropIsCovered
  <2> QED
    BY <2>1, <2>2
<1>2. Stored \subseteq Stored' /\ \A i \in Stored : rows'[i] = rows[i]
  <2>1. CASE rows' = rows
    BY <2>1 DEF Stored
  <2>2. ASSUME NEW n \in Item, rows' = Append(rows, n)
        PROVE  Stored \subseteq Stored' /\ \A i \in Stored : rows'[i] = rows[i]
    BY <2>2, AfterAppend
  <2> QED
    BY <2>1, <2>2, RowsGrow
<1> QED
  BY <1>1, <1>2

\* Nothing that was turned away is missing from the table, in any order of arrival
\* and for any window.
THEOREM DropsAreCoveredHolds == Spec => []DropsAreCovered
<1>1. Init => DropsAreCovered
  BY DEF Init, DropsAreCovered
<1>2. TypeOK /\ DropsAreCovered /\ [Next]_vars => DropsAreCovered'
  BY DropsNext
<1> QED
  BY <1>1, <1>2, IngestTypeCorrect, PTL DEF Spec

-----------------------------------------------------------------------------
(***************************************************************************)
(* One row per window.  ingest compares a communication with one row only; *)
(* that this is enough needs the rows of a text to be in order of          *)
(* occurred_at, which they are until it is messy.                          *)
(***************************************************************************)
LEMMA HasLargest ==
  ASSUME NEW n \in Nat, NEW T \in SUBSET (1..n), T # {}
  PROVE  \E x \in T : \A y \in T : y <= x
<1> DEFINE D == {n - i : i \in T}
<1>1. D \subseteq Nat /\ D # {}
  <2>1. \A i \in T : n - i \in Nat
    OBVIOUS
  <2> QED
    BY <2>1
<1>2. PICK d \in D : \A e \in D : ~(<<e, d>> \in OpToRel(<, Nat))
  BY <1>1, NatLessThanWellFounded, WFMin
<1>3. \A e \in D : ~(e < d)
  BY <1>1, <1>2 DEF OpToRel
<1>4. PICK x \in T : d = n - x
  BY <1>1
<1>5. ASSUME NEW y \in T PROVE y <= x
  <2>1. ~(n - y < n - x)
    BY <1>3, <1>4
  <2> QED
    BY <2>1
<1> QED
  BY <1>5

\* The rows of a text that is not messy, and what is about to join them.
RowsInOrder ==
  \A i, j \in Stored :
    i < j /\ rows[i].text = rows[j].text /\ rows[i].text \notin messy => rows[i].at <= rows[j].at

ClockIsLatest ==
  \A i \in Stored : rows[i].text \notin messy => rows[i].at <= clock[rows[i].text]

AddingIsNew ==
  \A l \in Lane : \A m \in adding[l] : m.text \notin messy =>
    /\ m.at <= clock[m.text]
    /\ \A i \in Stored : rows[i].text = m.text =>
         rows[i].at <= m.at /\ ~Near(rows[i].at, m.at)

AddingAlone ==
  \A k, l \in Lane : \A m \in adding[k], n \in adding[l] :
    k # l /\ m.text = n.text => m.text \in messy

Arrivals == RowsInOrder /\ ClockIsLatest /\ AddingIsNew /\ AddingAlone /\ OneInWindow

\* The rows and what is being added are items, with natural moments.
LEMMA ItemType == \A m \in Item : m.text \in Text /\ m.at \in Nat
  BY IngestAssumption DEF Item

LEMMA RowType == TypeOK => \A i \in Stored : rows[i] \in Item
  BY DEF TypeOK, Stored

LEMMA AddingType == TypeOK => \A l \in Lane : \A m \in adding[l] : m \in Item
<1> SUFFICES ASSUME TypeOK, NEW l \in Lane, NEW m \in adding[l] PROVE m \in Item
  OBVIOUS
<1>1. adding[l] \in {{}} \cup {{n} : n \in Item}
  BY DEF TypeOK
<1> QED
  BY <1>1

LEMMA FarEnough ==
  ASSUME NEW a \in Nat, NEW b \in Nat, NEW c \in Nat, c <= b, b <= a,
         ~(Abs(Days(a, b)) <= Window)
  PROVE  ~Near(c, a)
<1>1. Window \in Nat
  BY IngestAssumption
<1>2. DEFINE d == (a - b) \div 2
<1>3. d \in Int /\ 2 * d <= a - b /\ 0 <= d
  OBVIOUS
<1>4. d > Window
  <2> HIDE DEF d
  <2>1. ~((IF d < 0 THEN -d ELSE d) <= Window)
    BY DEF d, Abs, Days
  <2> QED
    BY <1>1, <1>3, <2>1
<1> HIDE DEF d
<1>5. a - c >= 2 * (Window + 1)
  BY <1>1, <1>3, <1>4
<1> QED
  BY <1>1, <1>5 DEF Near, Abs

LEMMA NewIsFar ==
  ASSUME TypeOK, RowsInOrder, NEW m \in Item, ~Duplicate(m), m.text \notin messy,
         \A i \in Stored : rows[i].text = m.text => rows[i].at <= m.at,
         NEW i \in Stored, rows[i].text = m.text
  PROVE  ~Near(rows[i].at, m.at)
<1> DEFINE T == {k \in Stored : rows[k].text = m.text}
<1>1. Len(rows) \in Nat /\ T \in SUBSET (1..Len(rows)) /\ i \in T
  BY DEF TypeOK, Stored
<1>2. PICK j \in T : \A k \in T : k <= j
  BY <1>1, HasLargest, T # {}
<1>3. ~(Abs(Days(m.at, rows[j].at)) <= Window)
  BY <1>2 DEF Duplicate
<1>4. \A k \in Stored : rows[k] \in Item /\ rows[k].at \in Nat
  BY RowType, ItemType
<1>5. rows[i].at <= rows[j].at
  <2>1. i = j \/ i < j
    BY <1>1, <1>2
  <2> QED
    BY <1>2, <1>4, <2>1 DEF RowsInOrder
<1>6. m.at \in Nat
  BY ItemType
<1> QED
  BY <1>2, <1>3, <1>4, <1>5, <1>6, FarEnough

LEMMA ArrivalsLook ==
  ASSUME TypeOK, Arrivals, NEW l \in Lane, NEW m \in Item, Look(l, m)
  PROVE  Arrivals'
<1> USE DEF Arrivals
<1>1. rows' = rows /\ Stored' = Stored /\ messy \subseteq messy'
  BY DEF Look, Stored
<1>2. \A t \in Text : clock[t] \in Nat /\ clock'[t] \in Nat /\ clock[t] <= clock'[t]
  BY IngestAssumption DEF Look, TypeOK, Item
<1>3. \A i \in Stored : rows[i] \in Item /\ rows[i].text \in Text /\ rows[i].at \in Nat
  BY RowType, ItemType
<1>4. \A k \in Lane : \A n \in adding[k] : n \in Item /\ n.text \in Text /\ n.at \in Nat
  BY AddingType, ItemType
<1>5. RowsInOrder' /\ OneInWindow'
  BY <1>1 DEF RowsInOrder, OneInWindow
<1>6. ClockIsLatest'
  BY <1>1, <1>2, <1>3 DEF ClockIsLatest
<1>7. ASSUME NEW k \in Lane, NEW n \in adding[k], n.text \notin messy'
      PROVE  /\ n.at <= clock'[n.text]
             /\ \A i \in Stored : rows[i].text = n.text =>
                  rows[i].at <= n.at /\ ~Near(rows[i].at, n.at)
  BY <1>1, <1>2, <1>4, <1>7 DEF AddingIsNew
<1>8. CASE adding' = adding
  <2>1. AddingIsNew'
    BY <1>1, <1>7, <1>8 DEF AddingIsNew
  <2>2. AddingAlone'
    BY <1>1, <1>8 DEF AddingAlone
  <2> QED
    BY <1>5, <1>6, <2>1, <2>2
<1>9. CASE adding' # adding
  <2>1. /\ adding' = [adding EXCEPT ![l] = {m}]
        /\ ~Duplicate(m)
        /\ adding[l] = {}
    BY <1>9 DEF Look
  <2>2. /\ adding'[l] = {m}
        /\ \A k \in Lane : k # l => adding'[k] = adding[k]
    BY <2>1 DEF TypeOK
  <2>3. m.text \in Text /\ m.at \in Nat
    BY ItemType
  <2>4. m.text \notin messy' =>
          /\ m.at >= clock[m.text]
          /\ \A k \in Lane : \A n \in adding[k] : n.text # m.text
    <3>1. m.text \notin messy' =>
            ~(m.at < clock[m.text] \/ \E k \in Lane : \E n \in adding[k] : n.text = m.text)
      BY DEF Look, TypeOK
    <3> QED
      BY <1>2, <2>3, <3>1
  <2>5. clock'[m.text] >= m.at
    BY <1>2, <2>3 DEF Look, TypeOK
  <2>6. ASSUME m.text \notin messy'
        PROVE  \A i \in Stored : rows[i].text = m.text =>
                 rows[i].at <= m.at /\ ~Near(rows[i].at, m.at)
    <3>1. m.text \notin messy
      BY <1>1, <2>6
    <3>2. \A i \in Stored : rows[i].text = m.text => rows[i].at <= m.at
      BY <1>2, <1>3, <2>4, <2>3, <2>6, <3>1 DEF ClockIsLatest
    <3> QED
      BY <2>1, <3>1, <3>2, NewIsFar
  <2>7. AddingIsNew'
    <3> SUFFICES ASSUME NEW k \in Lane, NEW n \in adding'[k], n.text \notin messy'
                 PROVE  /\ n.at <= clock'[n.text]
                        /\ \A i \in Stored : rows[i].text = n.text =>
                             rows[i].at <= n.at /\ ~Near(rows[i].at, n.at)
      BY <1>1 DEF AddingIsNew
    <3>1. CASE k = l
      BY <2>2, <2>3, <2>5, <2>6, <3>1, <1>2
    <3>2. CASE k # l
      BY <2>2, <1>7, <3>2
    <3> QED
      BY <3>1, <3>2
  <2>8. AddingAlone'
    BY <1>1, <2>2, <2>4 DEF AddingAlone
  <2> QED
    BY <1>5, <1>6, <2>7, <2>8
<1> QED
  BY <1>8, <1>9

LEMMA ArrivalsInsert ==
  ASSUME TypeOK, Arrivals, NEW l \in Lane, Insert(l)
  PROVE  Arrivals'
<1> USE DEF Arrivals
<1>1. PICK m \in Item : /\ adding[l] = {m}
                        /\ rows' = IF Exists(m.sid) THEN rows ELSE Append(rows, m)
  BY InsertAppends
<1>2. /\ clock' = clock /\ messy' = messy
      /\ adding'[l] = {}
      /\ \A k \in Lane : k # l => adding'[k] = adding[k]
      /\ \A k \in Lane : adding'[k] \subseteq adding[k]
  BY DEF Insert, TypeOK
<1>3. AddingAlone'
  BY <1>2 DEF AddingAlone
<1>4. CASE rows' = rows
  <2>1. Stored' = Stored
    BY <1>4 DEF Stored
  <2>2. RowsInOrder' /\ OneInWindow' /\ ClockIsLatest'
    BY <1>2, <1>4, <2>1 DEF RowsInOrder, OneInWindow, ClockIsLatest
  <2>3. AddingIsNew'
    BY <1>2, <1>4, <2>1 DEF AddingIsNew
  <2> QED
    BY <1>3, <2>2, <2>3
<1>5. CASE rows' = Append(rows, m)
  <2>1. /\ Len(rows) \in Nat
        /\ Stored' = Stored \cup {Len(rows) + 1}
        /\ \A i \in Stored : i \in Nat /\ i <= Len(rows) /\ rows'[i] = rows[i] /\ rows[i] \in Item
        /\ rows'[Len(rows) + 1] = m
    BY <1>5, AfterAppend
  <2>2. m.text \notin messy =>
          /\ m.at <= clock[m.text]
          /\ \A i \in Stored : rows[i].text = m.text =>
               rows[i].at <= m.at /\ ~Near(rows[i].at, m.at)
    BY <1>1 DEF AddingIsNew
  <2>3. RowsInOrder'
    BY <1>2, <2>1, <2>2 DEF RowsInOrder
  <2>4. OneInWindow'
    BY <1>2, <2>1, <2>2 DEF OneInWindow
  <2>5. ClockIsLatest'
    BY <1>2, <2>1, <2>2 DEF ClockIsLatest
  <2>6. AddingIsNew'
    <3> SUFFICES ASSUME NEW k \in Lane, NEW n \in adding'[k], n.text \notin messy
                 PROVE  /\ n.at <= clock[n.text]
                        /\ \A i \in Stored' : rows'[i].text = n.text =>
                             rows'[i].at <= n.at /\ ~Near(rows'[i].at, n.at)
      BY <1>2 DEF AddingIsNew
    <3>1. k # l /\ n \in adding[k]
      BY <1>2
    <3>2. m.text # n.text
      BY <1>1, <3>1 DEF AddingAlone
    <3> QED
      BY <2>1, <3>1, <3>2 DEF AddingIsNew
  <2> QED
    BY <1>3, <2>3, <2>4, <2>5, <2>6
<1> QED
  BY <1>1, <1>4, <1>5

LEMMA ArrivalsNext == TypeOK /\ Arrivals /\ [Next]_vars => Arrivals'
<1> SUFFICES ASSUME TypeOK, Arrivals, [Next]_vars PROVE Arrivals'
  OBVIOUS
<1>1. CASE UNCHANGED vars
  BY <1>1 DEF vars, Arrivals, RowsInOrder, ClockIsLatest, AddingIsNew, AddingAlone,
     OneInWindow, Stored
<1> QED
  BY <1>1, ArrivalsLook, ArrivalsInsert DEF Next

\* As long as a text arrives in order of occurred_at and in one lane at a time, its
\* rows are never within the window of each other, for any window and any number of
\* texts that arrive otherwise.
THEOREM OneInWindowHolds == Spec => []OneInWindow
<1>1. Init => Arrivals
  BY DEF Init, Arrivals, RowsInOrder, ClockIsLatest, AddingIsNew, AddingAlone, OneInWindow,
     Stored
<1>2. TypeOK /\ Arrivals /\ [Next]_vars => Arrivals'
  BY ArrivalsNext
<1>3. Arrivals => OneInWindow
  BY DEF Arrivals
<1> QED
  BY <1>1, <1>2, <1>3, IngestTypeCorrect, PTL DEF Spec
=============================================================================
