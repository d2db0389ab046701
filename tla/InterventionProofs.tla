------------------------- MODULE InterventionProofs -------------------------
(***************************************************************************)
(* Proofs about Interventions for any trigger keys, callers and number of  *)
(* changes of the settings.                                                *)
(***************************************************************************)
EXTENDS Interventions, FiniteSetTheorems, TLAPS

CallType == [at : PC, row : Key \cup {NoKey}, loaded : States, auto : BOOLEAN]

\* A caller has a row exactly when it is inside a call that has loaded one.
HasRow == \A c \in Caller : Row(c) = NoKey <=> At(c) \in {"idle", "look"}

Typed == TypeOK /\ HasRow

-----------------------------------------------------------------------------
(***************************************************************************)
(* What the helpers do to a caller                                         *)
(***************************************************************************)
LEMMA LoadMoves ==
  ASSUME TypeOK, NEW c \in Caller, NEW k \in Key, NEW to \in PC, Load(c, k, to)
  PROVE  /\ call' \in [Caller -> CallType]
         /\ At(c)' = to /\ Row(c)' = k
         /\ \A d \in Caller : d # c => call'[d] = call[d]
BY DEF TypeOK, Load, CallType, At, Row

LEMMA GotoMoves ==
  ASSUME TypeOK, NEW c \in Caller, NEW from \in PC, NEW to \in PC, Goto(c, from, to)
  PROVE  /\ call' \in [Caller -> CallType]
         /\ At(c) = from /\ At(c)' = to
         /\ Row(c)' = IF to = "idle" THEN NoKey ELSE Row(c)
         /\ \A d \in Caller : d # c => call'[d] = call[d]
<1>1. CASE to = "idle"
  BY <1>1 DEF TypeOK, Goto, CallType, At, Row, Idle, PC, States
<1>2. CASE to # "idle"
  BY <1>2 DEF TypeOK, Goto, CallType, At, Row
<1> QED
  BY <1>1, <1>2

\* A call that is not between two calls has a row of the table.
LEMMA RowIsKey ==
  ASSUME Typed, NEW c \in Caller, At(c) \notin {"idle", "look"}
  PROVE  Row(c) \in Key
<1>1. call[c] \in CallType
  BY DEF Typed, TypeOK, CallType
<1>2. Row(c) \in Key \cup {NoKey}
  BY <1>1 DEF CallType, Row
<1> QED
  BY <1>2 DEF Typed, HasRow

\* How one caller's move affects HasRow.
LEMMA HasRowKept ==
  ASSUME HasRow, NEW c \in Caller,
         \A d \in Caller : d # c => call'[d] = call[d],
         Row(c)' = NoKey <=> At(c)' \in {"idle", "look"}
  PROVE  HasRow'
BY DEF HasRow, Row, At

LEMMA NoteType ==
  ASSUME TypeOK, NEW kind \in Mishaps, NEW c, NEW k, NEW between, Note(kind, c, k, between)
  PROVE  mishaps' \in SUBSET Mishaps /\ mishaps \subseteq mishaps'
BY DEF TypeOK, Note

LEMMA WriteType ==
  ASSUME TypeOK, NEW c, NEW new \in States, WriteState(c, new)
  PROVE  state' \in [Key -> States]
BY DEF TypeOK, WriteState

-----------------------------------------------------------------------------
(***************************************************************************)
(* Type correctness                                                        *)
(***************************************************************************)
LEMMA TypeInit == Init => Typed
<1> SUFFICES ASSUME Init PROVE Typed
  OBVIOUS
<1>1. Idle \in CallType /\ call = [c \in Caller |-> Idle]
  BY DEF Init, Idle, CallType, PC, States
<1>2. call \in [Caller -> CallType]
  BY <1>1
<1>3. HasRow
  BY <1>1 DEF HasRow, Row, At, Idle
<1>4. TypeOK
  <2>1. state \in [Key -> States] /\ nodes \in [Key -> Nat]
    BY DEF Init, States
  <2>2. outcomes \in [Key -> Nat] /\ sends \in [Key -> Nat]
    BY DEF Init
  <2>3. kill \in BOOLEAN /\ auto \in BOOLEAN /\ flips \in 0..MaxFlips
    <3>1. kill = FALSE /\ auto = FALSE /\ flips = 0
      BY DEF Init
    <3>2. flips \in 0..MaxFlips
      BY <3>1, InterventionsAssumption
    <3> QED
      BY <3>1, <3>2
  <2>4. sentAt \in SUBSET Key /\ recent \in SUBSET Key /\ reported \in SUBSET Key
        /\ mishaps \in SUBSET Mishaps
    BY DEF Init
  <2> QED
    BY <1>2, <2>1, <2>2, <2>3, <2>4 DEF TypeOK, CallType
<1> QED
  BY <1>3, <1>4 DEF Typed

LEMMA EvaluateTyped ==
  ASSUME Typed, NEW c \in Caller,
         \/ EvaluateStart(c) \/ EvaluateSkips(c) \/ EvaluateInsert(c)
         \/ \E k \in Key : EvaluateRead(c, k)
  PROVE  Typed'
<1> USE DEF table, world
<1>1. CASE EvaluateStart(c)
  <2>1. /\ call' \in [Caller -> CallType]
        /\ Row(c)' = Row(c) /\ At(c)' = "look" /\ At(c) = "idle"
        /\ \A d \in Caller : d # c => call'[d] = call[d]
    BY <1>1 DEF EvaluateStart, Typed, TypeOK, CallType, PC, At, Row
  <2>2. HasRow'
    BY <2>1, HasRowKept DEF Typed, HasRow
  <2> QED
    BY <1>1, <2>1, <2>2 DEF EvaluateStart, Typed, TypeOK, CallType
<1>2. CASE EvaluateSkips(c)
  <2>1. /\ call' \in [Caller -> CallType]
        /\ Row(c)' = NoKey /\ At(c)' = "idle"
        /\ \A d \in Caller : d # c => call'[d] = call[d]
    BY <1>2, GotoMoves DEF EvaluateSkips, Typed, PC
  <2>2. HasRow'
    BY <2>1, HasRowKept DEF Typed
  <2> QED
    BY <1>2, <2>1, <2>2 DEF EvaluateSkips, Typed, TypeOK, CallType
<1>3. CASE EvaluateInsert(c)
  <2>1. /\ call' \in [Caller -> CallType]
        /\ At(c)' \in {"idle", "policy"}
        /\ Row(c)' = IF At(c)' = "idle" THEN NoKey ELSE Row(c)
        /\ \A d \in Caller : d # c => call'[d] = call[d]
    BY <1>3, GotoMoves DEF EvaluateInsert, Typed, PC
  <2>2. Row(c) \in Key
    BY <1>3, RowIsKey DEF EvaluateInsert
  <2>3. HasRow'
    BY <2>1, <2>2, HasRowKept, InterventionsAssumption DEF Typed
  <2>4. state' \in [Key -> States]
    BY <1>3 DEF EvaluateInsert, Typed, TypeOK, States
  <2> QED
    BY <1>3, <2>1, <2>3, <2>4 DEF EvaluateInsert, Typed, TypeOK, CallType
<1>4. ASSUME NEW k \in Key, EvaluateRead(c, k) PROVE Typed'
  <2>1. /\ call' \in [Caller -> CallType]
        /\ Row(c)' = k /\ At(c)' = "insert"
        /\ \A d \in Caller : d # c => call'[d] = call[d]
    BY <1>4, LoadMoves DEF EvaluateRead, Typed, PC
  <2>2. HasRow'
    BY <2>1, HasRowKept, InterventionsAssumption DEF Typed
  <2> QED
    BY <1>4, <2>1, <2>2 DEF EvaluateRead, Typed, TypeOK, CallType, Mishaps
<1> QED
  BY <1>1, <1>2, <1>3, <1>4

LEMMA ApproveTyped ==
  ASSUME Typed, NEW c \in Caller,
         \/ \E k \in Key : ApproveRead(c, k)
         \/ PolicyRefused(c) \/ ApproveCommit(c) \/ Deliver(c) \/ SendCommit(c)
  PROVE  Typed'
<1> USE DEF table, world
<1>1. ASSUME NEW k \in Key, ApproveRead(c, k) PROVE Typed'
  <2>1. /\ call' \in [Caller -> CallType]
        /\ Row(c)' = k /\ At(c)' = "approve"
        /\ \A d \in Caller : d # c => call'[d] = call[d]
    BY <1>1, LoadMoves DEF ApproveRead, Typed, PC
  <2>2. HasRow'
    BY <2>1, HasRowKept, InterventionsAssumption DEF Typed
  <2>3. mishaps' \in SUBSET Mishaps
    BY <1>1, NoteType DEF ApproveRead, Typed, Mishaps
  <2> QED
    BY <1>1, <2>1, <2>2, <2>3 DEF ApproveRead, Typed, TypeOK, CallType
<1>2. CASE PolicyRefused(c)
  <2>1. /\ call' \in [Caller -> CallType]
        /\ Row(c)' = NoKey /\ At(c)' = "idle"
        /\ \A d \in Caller : d # c => call'[d] = call[d]
    BY <1>2, GotoMoves DEF PolicyRefused, Typed, PC
  <2>2. HasRow'
    BY <2>1, HasRowKept DEF Typed
  <2> QED
    BY <1>2, <2>1, <2>2 DEF PolicyRefused, Typed, TypeOK, CallType
<1>3. CASE ApproveCommit(c)
  <2>1. /\ call' \in [Caller -> CallType]
        /\ Row(c)' = Row(c) /\ At(c)' = "deliver" /\ At(c) = "approve"
        /\ \A d \in Caller : d # c => call'[d] = call[d]
    BY <1>3, GotoMoves DEF ApproveCommit, Typed, PC
  <2>2. Row(c) \in Key
    BY <2>1, RowIsKey
  <2>3. HasRow'
    BY <2>1, <2>2, HasRowKept, InterventionsAssumption DEF Typed
  <2>4. state' \in [Key -> States]
    BY <1>3, WriteType DEF ApproveCommit, Typed, States
  <2> QED
    BY <1>3, <2>1, <2>3, <2>4 DEF ApproveCommit, Typed, TypeOK, CallType
<1>4. CASE Deliver(c)
  <2>1. Row(c) \in Key
    BY <1>4, RowIsKey DEF Deliver
  <2>2. /\ call' \in [Caller -> CallType]
        /\ Row(c)' = Row(c) /\ At(c)' = "send"
        /\ \A d \in Caller : d # c => call'[d] = call[d]
    BY <1>4, <2>1, LoadMoves DEF Deliver, Typed, PC
  <2>3. HasRow'
    BY <2>1, <2>2, HasRowKept, InterventionsAssumption DEF Typed
  <2>4. sends' \in [Key -> Nat]
    BY <1>4, <2>1 DEF Deliver, Typed, TypeOK
  <2> QED
    BY <1>4, <2>2, <2>3, <2>4 DEF Deliver, Typed, TypeOK, CallType
<1>5. CASE SendCommit(c)
  <2>1. /\ call' \in [Caller -> CallType]
        /\ Row(c)' = NoKey /\ At(c)' = "idle" /\ At(c) = "send"
        /\ \A d \in Caller : d # c => call'[d] = call[d]
    BY <1>5, GotoMoves DEF SendCommit, Typed, PC
  <2>2. Row(c) \in Key
    BY <2>1, RowIsKey
  <2>3. HasRow'
    BY <2>1, HasRowKept DEF Typed
  <2>4. state' \in [Key -> States]
    BY <1>5, WriteType DEF SendCommit, Typed, States
  <2>5. nodes' \in [Key -> Nat] /\ sentAt' \in SUBSET Key
    BY <1>5, <2>2 DEF SendCommit, Typed, TypeOK
  <2> QED
    BY <1>5, <2>1, <2>3, <2>4, <2>5 DEF SendCommit, Typed, TypeOK, CallType
<1> QED
  BY <1>1, <1>2, <1>3, <1>4, <1>5

LEMMA ReportTyped ==
  ASSUME Typed, NEW c \in Caller,
         \/ \E k \in Key, report \in {"started", "done", "cancelled"} : ReportRead(c, k, report)
         \/ StartedCommit(c) \/ OutcomeRead(c) \/ OutcomeInsert(c) \/ CloseCommit(c)
  PROVE  Typed'
<1> USE DEF table, world
<1>1. ASSUME NEW k \in Key, NEW report, ReportRead(c, k, report) PROVE Typed'
  <2>1. /\ call' \in [Caller -> CallType]
        /\ Row(c)' = k /\ At(c)' \in {"started", "close", "outcome"}
        /\ \A d \in Caller : d # c => call'[d] = call[d]
    <3>1. PICK to \in {"started", "close", "outcome"} : Load(c, k, to)
      BY <1>1 DEF ReportRead
    <3> QED
      BY <3>1, LoadMoves DEF Typed, PC
  <2>2. HasRow'
    BY <2>1, HasRowKept, InterventionsAssumption DEF Typed
  <2>3. mishaps' \in SUBSET Mishaps
    BY <1>1, NoteType DEF ReportRead, Typed, Mishaps
  <2> QED
    BY <1>1, <2>1, <2>2, <2>3 DEF ReportRead, Typed, TypeOK, CallType
<1>2. CASE StartedCommit(c)
  <2>1. /\ call' \in [Caller -> CallType]
        /\ Row(c)' = NoKey /\ At(c)' = "idle" /\ At(c) = "started"
        /\ \A d \in Caller : d # c => call'[d] = call[d]
    BY <1>2, GotoMoves DEF StartedCommit, Typed, PC
  <2>2. Row(c) \in Key
    BY <2>1, RowIsKey
  <2>3. HasRow'
    BY <2>1, HasRowKept DEF Typed
  <2> QED
    BY <1>2, <2>1, <2>2, <2>3 DEF StartedCommit, Typed, TypeOK, CallType
<1>3. CASE OutcomeRead(c)
  <2>1. /\ call' \in [Caller -> CallType]
        /\ Row(c)' = Row(c) /\ At(c)' \in {"close", "log"} /\ At(c) = "outcome"
        /\ \A d \in Caller : d # c => call'[d] = call[d]
    BY <1>3, GotoMoves DEF OutcomeRead, Typed, PC
  <2>2. Row(c) \in Key
    BY <2>1, RowIsKey
  <2>3. HasRow'
    BY <2>1, <2>2, HasRowKept, InterventionsAssumption DEF Typed
  <2>4. mishaps' \in SUBSET Mishaps
    BY <1>3, NoteType DEF OutcomeRead, Typed, Mishaps
  <2> QED
    BY <1>3, <2>1, <2>3, <2>4 DEF OutcomeRead, Typed, TypeOK, CallType
<1>4. CASE OutcomeInsert(c)
  <2>1. Row(c) \in Key
    BY <1>4, RowIsKey DEF OutcomeInsert
  <2>2. /\ call' \in [Caller -> CallType]
        /\ Row(c)' = Row(c) /\ At(c)' = "close"
        /\ \A d \in Caller : d # c => call'[d] = call[d]
    BY <1>4, <2>1, LoadMoves DEF OutcomeInsert, Typed, PC
  <2>3. HasRow'
    BY <2>1, <2>2, HasRowKept, InterventionsAssumption DEF Typed
  <2>4. outcomes' \in [Key -> Nat]
    BY <1>4, <2>1 DEF OutcomeInsert, Typed, TypeOK
  <2> QED
    BY <1>4, <2>2, <2>3, <2>4 DEF OutcomeInsert, Typed, TypeOK, CallType
<1>5. CASE CloseCommit(c)
  <2>1. /\ call' \in [Caller -> CallType]
        /\ Row(c)' = NoKey /\ At(c)' = "idle" /\ At(c) = "close"
        /\ \A d \in Caller : d # c => call'[d] = call[d]
    BY <1>5, GotoMoves DEF CloseCommit, Typed, PC
  <2>2. Row(c) \in Key
    BY <2>1, RowIsKey
  <2>3. HasRow'
    BY <2>1, HasRowKept DEF Typed
  <2>4. state' \in [Key -> States]
    BY <1>5, WriteType DEF CloseCommit, Typed, States
  <2> QED
    BY <1>5, <2>1, <2>2, <2>3, <2>4 DEF CloseCommit, Typed, TypeOK, CallType
<1> QED
  BY <1>1, <1>2, <1>3, <1>4, <1>5

LEMMA WorldTyped ==
  ASSUME Typed,
         \/ \E c \in Caller : Abort(c)
         \/ \E k \in Key : WindowEnds(k)
         \/ Configure \/ UNCHANGED vars
  PROVE  Typed'
<1> USE DEF table, world
<1>1. ASSUME NEW c \in Caller, Abort(c) PROVE Typed'
  <2>1. /\ call' \in [Caller -> CallType]
        /\ Row(c)' = NoKey /\ At(c)' = "idle"
        /\ \A d \in Caller : d # c => call'[d] = call[d]
    BY <1>1 DEF Abort, Typed, TypeOK, CallType, Idle, PC, States, At, Row
  <2>2. HasRow'
    BY <2>1, HasRowKept DEF Typed
  <2> QED
    BY <1>1, <2>1, <2>2 DEF Abort, Typed, TypeOK, CallType, Mishaps
<1>2. ASSUME NEW k \in Key, WindowEnds(k) PROVE Typed'
  BY <1>2 DEF WindowEnds, Typed, TypeOK, HasRow, Row, At
<1>3. CASE Configure
  BY <1>3, InterventionsAssumption DEF Configure, Typed, TypeOK, HasRow, Row, At
<1>4. CASE UNCHANGED vars
  BY <1>4 DEF vars, Typed, TypeOK, HasRow, Row, At
<1> QED
  BY <1>1, <1>2, <1>3, <1>4

\* The steps of the system, grouped by the operation they belong to.
LEMMA StepKinds ==
  ASSUME [Next]_vars
  PROVE  \/ \E c \in Caller :
              \/ EvaluateStart(c) \/ EvaluateSkips(c) \/ EvaluateInsert(c)
              \/ \E k \in Key : EvaluateRead(c, k)
         \/ \E c \in Caller :
              \/ \E k \in Key : ApproveRead(c, k)
              \/ At(c) = "policy" /\ ApproveRead(c, Row(c))
              \/ PolicyRefused(c) \/ ApproveCommit(c) \/ Deliver(c) \/ SendCommit(c)
         \/ \E c \in Caller :
              \/ \E k \in Key, report \in {"started", "done", "cancelled"} : ReportRead(c, k, report)
              \/ StartedCommit(c) \/ OutcomeRead(c) \/ OutcomeInsert(c) \/ CloseCommit(c)
         \/ \E c \in Caller : Abort(c)
         \/ \E k \in Key : WindowEnds(k)
         \/ Configure \/ UNCHANGED vars
<1>1. ASSUME NEW c \in Evaluator, ApproveRead(c, Row(c)) PROVE At(c) = "policy"
  BY <1>1, InterventionsAssumption DEF ApproveRead
<1>2. ASSUME NEW c \in Caller, Begin(c) \/ Continue(c)
      PROVE  \/ EvaluateStart(c) \/ EvaluateSkips(c) \/ EvaluateInsert(c)
             \/ \E k \in Key : EvaluateRead(c, k)
             \/ \E k \in Key : ApproveRead(c, k)
             \/ At(c) = "policy" /\ ApproveRead(c, Row(c))
             \/ PolicyRefused(c) \/ ApproveCommit(c) \/ Deliver(c) \/ SendCommit(c)
             \/ \E k \in Key, report \in {"started", "done", "cancelled"} : ReportRead(c, k, report)
             \/ StartedCommit(c) \/ OutcomeRead(c) \/ OutcomeInsert(c) \/ CloseCommit(c)
  BY <1>1, <1>2, Zenon DEF Begin, Continue
<1> QED
  BY <1>2, Zenon DEF Next

LEMMA TypeNext == Typed /\ [Next]_vars => Typed'
<1> SUFFICES ASSUME Typed, [Next]_vars PROVE Typed'
  OBVIOUS
<1>1. ASSUME NEW c \in Caller, At(c) = "policy", ApproveRead(c, Row(c))
      PROVE  \E k \in Key : ApproveRead(c, k)
  BY <1>1, RowIsKey
<1> QED
  BY <1>1, StepKinds, EvaluateTyped, ApproveTyped, ReportTyped, WorldTyped, Zenon

\* Every state the interventions reach is well typed, for any constants.
THEOREM InterventionTypeCorrect == Spec => []TypeOK
<1>1. Spec => []Typed
  BY TypeInit, TypeNext, PTL DEF Spec
<1>2. Typed => TypeOK
  BY DEF Typed
<1> QED
  BY <1>1, <1>2, PTL

-----------------------------------------------------------------------------
(***************************************************************************)
(* One open row.  OneMatter is kept until two evaluations overlap.  Each   *)
(* lemma is about one way a step can touch the rows and the callers.       *)
(***************************************************************************)

\* c lets go of its row, or had none; the table is left alone.
LEMMA MatterLeft ==
  ASSUME OneMatter, NEW c \in Caller, UNCHANGED <<state, recent>>,
         \A d \in Caller : d # c => call'[d] = call[d],
         Row(c)' = NoKey, At(c)' \in {"idle", "look"}
  PROVE  OneMatter'
<1>1. Open' = Open
  BY DEF Open
<1>2. \A d \in Caller : d # c => Row(d)' = Row(d) /\ At(d)' = At(d)
  BY DEF Row, At
<1> QED
  BY <1>1, <1>2 DEF OneMatter, InsertsAlone, WorksOnTheOpenRow, Works

\* c begins to work on an open row, or goes on with it.
LEMMA MatterEntered ==
  ASSUME OneMatter, NEW c \in Caller, UNCHANGED <<state, recent>>,
         \A d \in Caller : d # c => call'[d] = call[d],
         NEW k \in Open, k # NoKey, Row(c)' = k, At(c)' \notin {"idle", "look", "insert"}
  PROVE  OneMatter'
<1>1. Open' = Open /\ Open = {k} /\ state[k] \notin {"absent", "closed"}
  BY DEF Open, OneMatter
<1>2. \A d \in Caller : d # c => Row(d)' = Row(d) /\ At(d)' = At(d)
  BY DEF Row, At
<1>3. \A d \in Caller : At(d) # "insert"
  BY DEF OneMatter, InsertsAlone
<1>4. \A d \in Caller : Works(d) => Row(d) = k
  BY <1>1 DEF OneMatter, WorksOnTheOpenRow
<1>5. \A d \in Caller : Works(d)' => Row(d)' = k
  BY <1>2, <1>4 DEF Works
<1> QED
  BY <1>1, <1>2, <1>3, <1>5 DEF OneMatter, InsertsAlone, WorksOnTheOpenRow

\* c works on its row and writes nothing but that row, if anything.
LEMMA MatterWorkedOn ==
  ASSUME OneMatter, NEW c \in Caller, Works(c), Row(c) \in Key,
         \A d \in Caller : d # c => call'[d] = call[d],
         \A k \in Key : k # Row(c) => state'[k] = state[k],
         state'[Row(c)] # "absent",
         state'[Row(c)] = "closed" => Row(c) \in recent',
         \/ Row(c)' = Row(c) /\ At(c)' \notin {"idle", "look", "insert"}
         \/ Row(c)' = NoKey /\ At(c)' = "idle"
  PROVE  OneMatter'
<1>1. Open' \subseteq {Row(c)}
  BY DEF Open, OneMatter, WorksOnTheOpenRow
<1>2. \A d \in Caller : d # c => Row(d)' = Row(d) /\ At(d)' = At(d)
  BY DEF Row, At
<1>3. \A d \in Caller : At(d) # "insert"
  BY DEF OneMatter, InsertsAlone, Works
<1>4. \A d \in Caller : At(d)' # "insert"
  BY <1>2, <1>3
<1>5. \A d \in Caller : Works(d)' => Row(d)' = Row(c)
  BY <1>2 DEF OneMatter, WorksOnTheOpenRow, Works
<1>6. \A d \in Caller : InsertsAlone(d)'
  BY <1>4 DEF InsertsAlone
<1>7. \A d \in Caller : WorksOnTheOpenRow(d)'
  BY <1>1, <1>5 DEF WorksOnTheOpenRow
<1>8. \A d \in Caller : Row(d)' = NoKey <=> At(d)' \in {"idle", "look"}
  BY <1>2 DEF OneMatter, Works
<1> QED
  BY <1>1, <1>6, <1>7, <1>8 DEF OneMatter

LEMMA EvaluateMatter ==
  ASSUME Typed, OneMatter, "evaluate" \notin mishaps', NEW c \in Caller,
         \/ EvaluateStart(c) \/ EvaluateSkips(c) \/ EvaluateInsert(c)
         \/ \E k \in Key : EvaluateRead(c, k)
  PROVE  OneMatter'
<1> USE DEF table
<1>1. CASE EvaluateStart(c)
  <2>1. /\ Row(c)' = Row(c) /\ At(c)' = "look" /\ At(c) = "idle"
        /\ \A d \in Caller : d # c => call'[d] = call[d]
    BY <1>1 DEF EvaluateStart, Typed, TypeOK, At, Row
  <2> QED
    BY <1>1, <2>1, MatterLeft DEF EvaluateStart, Typed, HasRow
<1>2. CASE EvaluateSkips(c)
  BY <1>2, GotoMoves, MatterLeft DEF EvaluateSkips, Typed, PC
<1>3. CASE EvaluateInsert(c)
  <2>1. /\ At(c) = "insert" /\ At(c)' \in {"idle", "policy"}
        /\ Row(c)' = IF At(c)' = "idle" THEN NoKey ELSE Row(c)
        /\ \A d \in Caller : d # c => call'[d] = call[d]
    BY <1>3, GotoMoves DEF EvaluateInsert, Typed, PC
  <2>2. Row(c) \in Key
    BY <2>1, RowIsKey
  <2>3. /\ state[Row(c)] = "absent" /\ Open = {}
        /\ \A d \in Caller : d # c => Row(d) = NoKey /\ At(d) \in {"idle", "look"}
    BY <2>1 DEF OneMatter, InsertsAlone
  <2>4. state' = [state EXCEPT ![Row(c)] = "proposed"]
    BY <1>3, <2>3 DEF EvaluateInsert
  <2>5. Open' = {Row(c)} /\ state'[Row(c)] = "proposed"
    BY <2>2, <2>3, <2>4 DEF Open, Typed, TypeOK
  <2>6. \A d \in Caller : d # c => Row(d)' = NoKey /\ At(d)' \in {"idle", "look"}
    BY <2>1, <2>3 DEF Row, At
  <2>7. Row(c) # NoKey
    BY <2>2, InterventionsAssumption
  <2>8. \A d \in Caller : At(d)' # "insert" /\ (Works(d)' => d = c /\ Row(c)' = Row(c))
    BY <2>1, <2>6 DEF Works
  <2> QED
    BY <2>1, <2>5, <2>6, <2>7, <2>8 DEF OneMatter, InsertsAlone, WorksOnTheOpenRow
<1>4. ASSUME NEW k \in Key, EvaluateRead(c, k) PROVE OneMatter'
  <2>1. /\ Row(c)' = k /\ At(c)' = "insert" /\ At(c) = "look"
        /\ \A d \in Caller : d # c => call'[d] = call[d]
    BY <1>4, LoadMoves DEF EvaluateRead, Typed, PC
  <2>2. UNCHANGED <<state, recent>> /\ state[k] = "absent" /\ Open = {} /\ recent = {}
    BY <1>4 DEF EvaluateRead, MayPropose
  <2>3. \A d \in Caller : d # c => At(d) # "insert"
    BY <1>4 DEF EvaluateRead
  <2>4. ASSUME NEW d \in Caller PROVE ~Works(d)
    <3> SUFFICES ASSUME Works(d) PROVE FALSE
      OBVIOUS
    <3>1. Row(d) \in Key
      BY RowIsKey DEF Works, OneMatter
    <3>2. state[Row(d)] # "absent" /\ state[Row(d)] # "closed"
      BY <2>2 DEF OneMatter, WorksOnTheOpenRow
    <3> QED
      BY <2>2, <3>1, <3>2 DEF Open
  <2>5. \A d \in Caller : d # c => Row(d) = NoKey /\ At(d) \in {"idle", "look"}
    BY <2>3, <2>4 DEF Works, OneMatter
  <2>6. \A d \in Caller : d # c => Row(d)' = NoKey /\ At(d)' \in {"idle", "look"}
    BY <2>1, <2>5 DEF Row, At
  <2>7. Open' = {} /\ recent' = {} /\ state'[k] = "absent" /\ k # NoKey
    BY <2>2, InterventionsAssumption DEF Open
  <2> QED
    BY <2>1, <2>6, <2>7 DEF OneMatter, InsertsAlone, WorksOnTheOpenRow, Works
<1> QED
  BY <1>1, <1>2, <1>3, <1>4

\* What the writes of approve and report do to the state of their row.
LEMMA WriteMoves ==
  ASSUME Typed, NEW c \in Caller, Row(c) \in Key, NEW new \in States, WriteState(c, new)
  PROVE  /\ \A k \in Key : k # Row(c) => state'[k] = state[k]
         /\ state'[Row(c)] \in {new, state[Row(c)]}
BY DEF WriteState, Typed, TypeOK

LEMMA ApproveMatter ==
  ASSUME Typed, OneMatter, NEW c \in Caller,
         \/ \E k \in Key : ApproveRead(c, k)
         \/ PolicyRefused(c) \/ ApproveCommit(c) \/ Deliver(c) \/ SendCommit(c)
  PROVE  OneMatter'
<1> USE DEF table
<1>1. ASSUME NEW k \in Key, ApproveRead(c, k) PROVE OneMatter'
  <2>1. /\ Row(c)' = k /\ At(c)' = "approve"
        /\ \A d \in Caller : d # c => call'[d] = call[d]
    BY <1>1, LoadMoves DEF ApproveRead, Typed, PC
  <2>2. k \in Open /\ k # NoKey /\ UNCHANGED <<state, recent>>
    BY <1>1, InterventionsAssumption DEF ApproveRead, MayApprove, Open
  <2> QED
    BY <2>1, <2>2, MatterEntered
<1>2. CASE PolicyRefused(c)
  BY <1>2, GotoMoves, MatterLeft DEF PolicyRefused, Typed, PC
<1>3. ASSUME At(c) \in {"approve", "deliver", "send"}
      PROVE  /\ Row(c) \in Key /\ Row(c) # NoKey /\ Works(c)
             /\ state[Row(c)] # "absent"
             /\ state[Row(c)] = "closed" => Row(c) \in recent
  <2>1. Row(c) \in Key /\ Row(c) # NoKey
    BY <1>3, RowIsKey, InterventionsAssumption
  <2>2. Works(c)
    BY <1>3, <2>1 DEF Works
  <2> QED
    BY <2>1, <2>2 DEF OneMatter, WorksOnTheOpenRow
<1>4. CASE ApproveCommit(c)
  <2>1. /\ At(c) = "approve" /\ Row(c)' = Row(c) /\ At(c)' = "deliver"
        /\ \A d \in Caller : d # c => call'[d] = call[d]
    BY <1>4, GotoMoves DEF ApproveCommit, Typed, PC
  <2>2. /\ \A k \in Key : k # Row(c) => state'[k] = state[k]
        /\ state'[Row(c)] \in {"approved", state[Row(c)]}
    BY <1>3, <1>4, <2>1, WriteMoves DEF ApproveCommit, States
  <2> QED
    BY <1>3, <1>4, <2>1, <2>2, MatterWorkedOn DEF ApproveCommit
<1>5. CASE Deliver(c)
  <2>1. At(c) = "deliver"
    BY <1>5 DEF Deliver
  <2>2. /\ Row(c)' = Row(c) /\ At(c)' = "send"
        /\ \A d \in Caller : d # c => call'[d] = call[d]
    BY <1>3, <1>5, <2>1, LoadMoves DEF Deliver, Typed, PC
  <2> QED
    BY <1>3, <1>5, <2>1, <2>2, MatterWorkedOn DEF Deliver
<1>6. CASE SendCommit(c)
  <2>1. /\ At(c) = "send" /\ Row(c)' = NoKey /\ At(c)' = "idle"
        /\ \A d \in Caller : d # c => call'[d] = call[d]
    BY <1>6, GotoMoves DEF SendCommit, Typed, PC
  <2>2. /\ \A k \in Key : k # Row(c) => state'[k] = state[k]
        /\ state'[Row(c)] \in {"sent", state[Row(c)]}
    BY <1>3, <1>6, <2>1, WriteMoves DEF SendCommit, States
  <2> QED
    BY <1>3, <1>6, <2>1, <2>2, MatterWorkedOn DEF SendCommit
<1> QED
  BY <1>1, <1>2, <1>4, <1>5, <1>6

LEMMA ReportMatter ==
  ASSUME Typed, OneMatter, NEW c \in Caller,
         \/ \E k \in Key, report \in {"started", "done", "cancelled"} : ReportRead(c, k, report)
         \/ StartedCommit(c) \/ OutcomeRead(c) \/ OutcomeInsert(c) \/ CloseCommit(c)
  PROVE  OneMatter'
<1> USE DEF table
<1>1. ASSUME NEW k \in Key, NEW report \in {"started", "done", "cancelled"}, ReportRead(c, k, report)
      PROVE  OneMatter'
  <2>1. /\ Row(c)' = k /\ At(c)' \in {"started", "close", "outcome"}
        /\ \A d \in Caller : d # c => call'[d] = call[d]
    <3>1. PICK to \in {"started", "close", "outcome"} : Load(c, k, to)
      BY <1>1 DEF ReportRead
    <3> QED
      BY <3>1, LoadMoves DEF Typed, PC
  <2>2. k \in Open /\ k # NoKey /\ UNCHANGED <<state, recent>>
    BY <1>1, InterventionsAssumption DEF ReportRead, MayReport, Open
  <2> QED
    BY <2>1, <2>2, MatterEntered
<1>2. CASE StartedCommit(c)
  BY <1>2, GotoMoves, MatterLeft DEF StartedCommit, Typed, PC
<1>3. ASSUME At(c) \in {"outcome", "log", "close"}
      PROVE  /\ Row(c) \in Key /\ Row(c) # NoKey /\ Works(c)
             /\ state[Row(c)] # "absent"
             /\ state[Row(c)] = "closed" => Row(c) \in recent
  <2>1. Row(c) \in Key /\ Row(c) # NoKey
    BY <1>3, RowIsKey, InterventionsAssumption
  <2>2. Works(c)
    BY <1>3, <2>1 DEF Works
  <2> QED
    BY <2>1, <2>2 DEF OneMatter, WorksOnTheOpenRow
<1>4. CASE OutcomeRead(c)
  <2>1. /\ At(c) = "outcome" /\ Row(c)' = Row(c) /\ At(c)' \in {"close", "log"}
        /\ \A d \in Caller : d # c => call'[d] = call[d]
    BY <1>4, GotoMoves DEF OutcomeRead, Typed, PC
  <2> QED
    BY <1>3, <1>4, <2>1, MatterWorkedOn DEF OutcomeRead
<1>5. CASE OutcomeInsert(c)
  <2>1. At(c) = "log"
    BY <1>5 DEF OutcomeInsert
  <2>2. /\ Row(c)' = Row(c) /\ At(c)' = "close"
        /\ \A d \in Caller : d # c => call'[d] = call[d]
    BY <1>3, <1>5, <2>1, LoadMoves DEF OutcomeInsert, Typed, PC
  <2> QED
    BY <1>3, <1>5, <2>1, <2>2, MatterWorkedOn DEF OutcomeInsert
<1>6. CASE CloseCommit(c)
  <2>1. /\ At(c) = "close" /\ Row(c)' = NoKey /\ At(c)' = "idle"
        /\ \A d \in Caller : d # c => call'[d] = call[d]
    BY <1>6, GotoMoves DEF CloseCommit, Typed, PC
  <2>2. /\ \A k \in Key : k # Row(c) => state'[k] = state[k]
        /\ state'[Row(c)] \in {"closed", state[Row(c)]}
    BY <1>3, <1>6, <2>1, WriteMoves DEF CloseCommit, States
  <2>3. Row(c) \in recent'
    BY <1>6 DEF CloseCommit
  <2> QED
    BY <1>3, <2>1, <2>2, <2>3, MatterWorkedOn
<1> QED
  BY <1>1, <1>2, <1>4, <1>5, <1>6

LEMMA WorldMatter ==
  ASSUME Typed, OneMatter,
         \/ \E c \in Caller : Abort(c)
         \/ \E k \in Key : WindowEnds(k)
         \/ Configure \/ UNCHANGED vars
  PROVE  OneMatter'
<1> USE DEF table
<1>1. ASSUME NEW c \in Caller, Abort(c) PROVE OneMatter'
  <2>1. /\ Row(c)' = NoKey /\ At(c)' = "idle"
        /\ \A d \in Caller : d # c => call'[d] = call[d]
    BY <1>1 DEF Abort, Typed, TypeOK, Idle, At, Row
  <2> QED
    BY <1>1, <2>1, MatterLeft DEF Abort
<1>2. ASSUME NEW k \in Key, WindowEnds(k) PROVE OneMatter'
  <2>1. /\ UNCHANGED <<state, call>> /\ k \in recent /\ recent' = recent \ {k}
        /\ \A c \in Caller : Row(c) # k
    BY <1>2 DEF WindowEnds
  <2>2. Open' = Open
    BY <2>1 DEF Open
  <2> QED
    BY <2>1, <2>2 DEF OneMatter, InsertsAlone, WorksOnTheOpenRow, Works, Row, At
<1>3. CASE Configure \/ UNCHANGED vars
  <2>1. UNCHANGED <<state, recent, call>>
    BY <1>3 DEF Configure, vars
  <2> QED
    BY <2>1 DEF OneMatter, InsertsAlone, WorksOnTheOpenRow, Works, Row, At, Open
<1> QED
  BY <1>1, <1>2, <1>3

\* What has gone wrong is not forgotten.
LEMMA MishapsGrow ==
  ASSUME [Next]_vars
  PROVE  mishaps \subseteq mishaps'
<1>1. CASE \E c \in Caller :
             \/ EvaluateStart(c) \/ EvaluateSkips(c) \/ EvaluateInsert(c)
             \/ \E k \in Key : EvaluateRead(c, k)
  BY <1>1 DEF EvaluateStart, EvaluateSkips, EvaluateInsert, EvaluateRead
<1>2. CASE \E c \in Caller :
             \/ \E k \in Key : ApproveRead(c, k)
             \/ At(c) = "policy" /\ ApproveRead(c, Row(c))
             \/ PolicyRefused(c) \/ ApproveCommit(c) \/ Deliver(c) \/ SendCommit(c)
  BY <1>2 DEF ApproveRead, PolicyRefused, ApproveCommit, Deliver, SendCommit, Note
<1>3. CASE \E c \in Caller :
             \/ \E k \in Key, report \in {"started", "done", "cancelled"} : ReportRead(c, k, report)
             \/ StartedCommit(c) \/ OutcomeRead(c) \/ OutcomeInsert(c) \/ CloseCommit(c)
  BY <1>3 DEF ReportRead, StartedCommit, OutcomeRead, OutcomeInsert, CloseCommit, Note
<1>4. CASE \/ \E c \in Caller : Abort(c)
           \/ \E k \in Key : WindowEnds(k)
           \/ Configure \/ UNCHANGED vars
  BY <1>4 DEF Abort, WindowEnds, Configure, vars
<1> QED
  BY <1>1, <1>2, <1>3, <1>4, StepKinds, Zenon

MatterInv == Typed /\ Before("evaluate", OneMatter)

LEMMA MatterInit == Init => MatterInv
<1> SUFFICES ASSUME Init PROVE MatterInv
  OBVIOUS
<1>1. Typed
  BY TypeInit
<1>2. Open = {} /\ \A c \in Caller : Row(c) = NoKey /\ At(c) = "idle"
  BY DEF Init, Open, Row, At, Idle
<1>3. OneMatter
  BY <1>2 DEF OneMatter, InsertsAlone, WorksOnTheOpenRow, Works
<1> QED
  BY <1>1, <1>3 DEF MatterInv, Before

LEMMA MatterNext == MatterInv /\ [Next]_vars => MatterInv'
<1> SUFFICES ASSUME MatterInv, [Next]_vars PROVE MatterInv'
  OBVIOUS
<1>1. Typed /\ Typed'
  BY TypeNext DEF MatterInv
<1>2. ASSUME "evaluate" \notin mishaps' PROVE OneMatter'
  <2>1. OneMatter
    BY <1>2, MishapsGrow DEF MatterInv, Before
  <2>2. ASSUME NEW c \in Caller, At(c) = "policy", ApproveRead(c, Row(c))
        PROVE  \E k \in Key : ApproveRead(c, k)
    BY <1>1, <2>2, RowIsKey
  <2> QED
    BY <1>1, <1>2, <2>1, <2>2, StepKinds, EvaluateMatter, ApproveMatter, ReportMatter,
       WorldMatter, Zenon
<1> QED
  BY <1>1, <1>2 DEF MatterInv, Before

LEMMA MatterHolds == Spec => []MatterInv
BY MatterInit, MatterNext, PTL DEF Spec

\* At most one intervention of an (account, playbook) is open until two
\* evaluations overlap, for any trigger keys, people and callbacks
\* (governance.py:176-193, 218-219).
THEOREM OneOpenAloneHolds == Spec => []OneOpenAlone
<1>1. ASSUME \A k, l \in Open : k = l PROVE OneOpen
  <2>1. CASE Open = {}
    BY <2>1, FS_EmptySet DEF OneOpen
  <2>2. CASE Open # {}
    <3>1. PICK k : Open = {k}
      BY <1>1, <2>2
    <3> QED
      BY <3>1, FS_Singleton DEF OneOpen
  <2> QED
    BY <2>1, <2>2
<1>2. MatterInv => OneOpenAlone
  BY <1>1 DEF MatterInv, OneOpenAlone, Before, OneMatter
<1> QED
  BY <1>2, MatterHolds, PTL

\* Only an evaluation's insert makes a proposal of an absent row.
LEMMA OnlyInsertsPropose ==
  ASSUME Typed, [Next]_vars, NEW k \in Key, state[k] = "absent", state'[k] = "proposed"
  PROVE  \E c \in Caller : At(c) = "insert" /\ Row(c) = k
<1>0. state' # state
  OBVIOUS
<1>1. ASSUME NEW c \in Caller,
             \/ EvaluateStart(c) \/ EvaluateSkips(c) \/ EvaluateInsert(c)
             \/ \E l \in Key : EvaluateRead(c, l)
      PROVE  At(c) = "insert" /\ Row(c) = k
  <2>1. EvaluateInsert(c)
    BY <1>0, <1>1 DEF EvaluateStart, EvaluateSkips, EvaluateRead, table
  <2> QED
    BY <2>1 DEF EvaluateInsert, Typed, TypeOK
<1>2. ASSUME NEW c \in Caller,
             \/ \E l \in Key : ApproveRead(c, l)
             \/ At(c) = "policy" /\ ApproveRead(c, Row(c))
             \/ PolicyRefused(c) \/ ApproveCommit(c) \/ Deliver(c) \/ SendCommit(c)
      PROVE  FALSE
  <2>1. ApproveCommit(c) \/ SendCommit(c)
    BY <1>0, <1>2 DEF ApproveRead, PolicyRefused, Deliver, table
  <2>2. At(c) \in {"approve", "send"} /\ (WriteState(c, "approved") \/ WriteState(c, "sent"))
    BY <2>1 DEF ApproveCommit, SendCommit, Goto
  <2>3. Row(c) \in Key
    BY <2>2, RowIsKey
  <2> QED
    BY <2>2, <2>3, WriteMoves DEF States
<1>3. ASSUME NEW c \in Caller,
             \/ \E l \in Key, report \in {"started", "done", "cancelled"} : ReportRead(c, l, report)
             \/ StartedCommit(c) \/ OutcomeRead(c) \/ OutcomeInsert(c) \/ CloseCommit(c)
      PROVE  FALSE
  <2>1. CloseCommit(c)
    BY <1>0, <1>3 DEF ReportRead, StartedCommit, OutcomeRead, OutcomeInsert, table
  <2>2. At(c) = "close" /\ WriteState(c, "closed")
    BY <2>1 DEF CloseCommit, Goto
  <2>3. Row(c) \in Key
    BY <2>2, RowIsKey
  <2> QED
    BY <2>2, <2>3, WriteMoves DEF States
<1>4. ASSUME \/ \E c \in Caller : Abort(c)
             \/ \E l \in Key : WindowEnds(l)
             \/ Configure \/ UNCHANGED vars
      PROVE  FALSE
  BY <1>0, <1>4 DEF Abort, WindowEnds, Configure, vars, table
<1> QED
  BY <1>1, <1>2, <1>3, <1>4, StepKinds, Zenon

\* Nothing is proposed while a row of the pair is open or closed within the
\* window, until two evaluations overlap (governance.py:183-193).
THEOREM QuietWindowHolds == Spec => QuietWindow
<1>1. ASSUME MatterInv, [Next]_vars
      PROVE  [Before("evaluate", \A k \in Key :
                state[k] = "absent" /\ state'[k] = "proposed" => Open = {} /\ recent = {})]_vars
  <2>1. ASSUME "evaluate" \notin mishaps, NEW k \in Key,
               state[k] = "absent", state'[k] = "proposed"
        PROVE  Open = {} /\ recent = {}
    <3>1. PICK c \in Caller : At(c) = "insert"
      BY <1>1, <2>1, OnlyInsertsPropose DEF MatterInv
    <3> QED
      BY <1>1, <2>1, <3>1 DEF MatterInv, Before, OneMatter, InsertsAlone
  <2> QED
    BY <2>1 DEF Before
<1> QED
  BY <1>1, MatterHolds, PTL DEF Spec, QuietWindow

-----------------------------------------------------------------------------
(***************************************************************************)
(* One decision on a row.  Until two decisions on one row overlap, a call  *)
(* that approves or sends has its row for itself, the row is still what    *)
(* the call read, and the history of sends agrees with the table.          *)
(***************************************************************************)
Delivering == {"approve", "deliver", "send"}
Deciding == Delivering \cup {"started", "outcome", "log", "close"}

\* What the table and the history say of a row.
RowSound(k) ==
  /\ state[k] \in {"absent", "proposed"} => sends[k] = 0 /\ k \notin sentAt
  /\ state[k] = "approved" => sends[k] \in {0, 1} /\ k \notin sentAt
  /\ state[k] = "sent" => sends[k] = 1 /\ k \in sentAt
  /\ state[k] = "closed" => sends[k] = IF k \in sentAt THEN 1 ELSE 0
  /\ nodes[k] = IF k \in sentAt THEN 1 ELSE 0

Alone(c) == \A d \in Caller : d # c /\ Row(d) = Row(c) => At(d) \notin Deciding

\* What a call in the middle of a decision knows of its row.
CallSound(c) ==
  /\ At(c) \in Delivering => Alone(c)
  /\ At(c) = "approve" => state[Row(c)] = "proposed" /\ call[c].loaded = "proposed"
  /\ At(c) = "deliver" => state[Row(c)] = "approved" /\ sends[Row(c)] = 0
  /\ At(c) = "send" => /\ state[Row(c)] = "approved" /\ call[c].loaded = "approved"
                       /\ sends[Row(c)] = 1
  /\ At(c) = "started" => state[Row(c)] \in {"sent", "closed"}
  /\ At(c) \in {"outcome", "log", "close"} =>
       /\ state[Row(c)] \in {"proposed", "sent", "closed"}
       /\ call[c].loaded = "closed" => state[Row(c)] = "closed"

OneDecision ==
  /\ \A k \in Key : RowSound(k)
  /\ \A c \in Caller : CallSound(c)

\* c goes to another place of its call, or takes a row, and writes nothing.
LEMMA SoundMoved ==
  ASSUME OneDecision, NEW c \in Caller, UNCHANGED <<state, sentAt, nodes, sends>>,
         \A d \in Caller : d # c => call'[d] = call[d],
         CallSound(c)',
         \/ At(c)' \notin Deciding
         \/ \A d \in Caller : d # c /\ Row(d) = Row(c)' => At(d) \notin Delivering
  PROVE  OneDecision'
<1>1. \A d \in Caller : d # c => Row(d)' = Row(d) /\ At(d)' = At(d)
  BY DEF Row, At
<1>2. \A k \in Key : RowSound(k)'
  BY DEF OneDecision, RowSound
<1>3. ASSUME NEW d \in Caller, d # c PROVE CallSound(d)'
  <2>1. CallSound(d)
    BY DEF OneDecision
  <2>2. At(d) \in Delivering => Alone(d)'
    BY <1>1, <1>3, <2>1 DEF CallSound, Alone
  <2> QED
    BY <1>1, <1>3, <2>1, <2>2 DEF CallSound
<1> QED
  BY <1>2, <1>3 DEF OneDecision

\* c writes to its row alone, and the other calls on that row can bear it.
LEMMA SoundWrote ==
  ASSUME OneDecision, NEW c \in Caller, NEW k \in Key, Row(c) = k,
         \A d \in Caller : d # c => call'[d] = call[d],
         \A l \in Key : l # k =>
           /\ state'[l] = state[l] /\ sends'[l] = sends[l] /\ nodes'[l] = nodes[l]
           /\ l \in sentAt' <=> l \in sentAt,
         RowSound(k)', CallSound(c)',
         Row(c)' = k \/ At(c)' \notin Deciding,
         At(c)' \in Deciding => At(c) \in Deciding,
         \A d \in Caller : At(d) \in Deciding => Row(d) \in Key,
         \A d \in Caller : d # c /\ Row(d) = k /\ At(d) \in Deciding =>
           At(d) \notin Delivering /\ state'[k] = "closed"
  PROVE  OneDecision'
<1>1. \A d \in Caller : d # c => Row(d)' = Row(d) /\ At(d)' = At(d) /\ call'[d] = call[d]
  BY DEF Row, At
<1>2. ASSUME NEW l \in Key PROVE RowSound(l)'
  <2>1. RowSound(l)
    BY DEF OneDecision
  <2> QED
    BY <2>1 DEF RowSound
<1>3. ASSUME NEW d \in Caller, d # c PROVE CallSound(d)'
  <2>1. CallSound(d)
    BY DEF OneDecision
  <2>2. At(d) \in Delivering => Alone(d)'
    BY <1>1, <1>3, <2>1 DEF CallSound, Alone, Delivering, Deciding
  <2>3. CASE At(d) \in Deciding /\ Row(d) = k
    BY <1>1, <1>3, <2>2, <2>3 DEF CallSound, Deciding, Delivering
  <2>4. CASE At(d) \in Deciding /\ Row(d) # k
    <3>1. Row(d) \in Key /\ state'[Row(d)] = state[Row(d)] /\ sends'[Row(d)] = sends[Row(d)]
      BY <2>4
    <3> QED
      BY <1>1, <1>3, <2>1, <2>2, <3>1 DEF CallSound
  <2>5. CASE At(d) \notin Deciding
    BY <1>1, <1>3, <2>5 DEF CallSound, Deciding, Delivering
  <2> QED
    BY <2>3, <2>4, <2>5
<1> QED
  BY <1>2, <1>3 DEF OneDecision

\* Nobody decides on a row that a call delivers, and no call that decides has an absent row.
LEMMA DecidersKnow ==
  ASSUME Typed, OneDecision, NEW c \in Caller, At(c) \in Deciding
  PROVE  /\ Row(c) \in Key /\ state[Row(c)] # "absent"
         /\ At(c) \notin Delivering => state[Row(c)] \in {"proposed", "sent", "closed"}
<1>1. Row(c) \in Key
  BY RowIsKey DEF Deciding, Delivering
<1> QED
  BY <1>1 DEF OneDecision, CallSound, Deciding, Delivering

LEMMA EvaluateSound ==
  ASSUME Typed, OneDecision, NEW c \in Caller,
         \/ EvaluateStart(c) \/ EvaluateSkips(c) \/ EvaluateInsert(c)
         \/ \E k \in Key : EvaluateRead(c, k)
  PROVE  OneDecision'
<1> USE DEF table, world
<1>1. CASE EvaluateStart(c)
  <2>1. /\ At(c)' = "look" /\ \A d \in Caller : d # c => call'[d] = call[d]
        /\ UNCHANGED <<state, sentAt, nodes, sends>>
    BY <1>1 DEF EvaluateStart, Typed, TypeOK, At
  <2> QED
    BY <2>1, SoundMoved DEF CallSound, Deciding, Delivering
<1>2. CASE EvaluateSkips(c)
  <2>1. /\ At(c)' = "idle" /\ \A d \in Caller : d # c => call'[d] = call[d]
        /\ UNCHANGED <<state, sentAt, nodes, sends>>
    BY <1>2, GotoMoves DEF EvaluateSkips, Typed, PC
  <2> QED
    BY <2>1, SoundMoved DEF CallSound, Deciding, Delivering
<1>3. CASE EvaluateInsert(c)
  <2>1. /\ At(c) = "insert" /\ At(c)' \in {"idle", "policy"}
        /\ \A d \in Caller : d # c => call'[d] = call[d]
        /\ UNCHANGED <<sentAt, nodes, sends>>
    BY <1>3, GotoMoves DEF EvaluateInsert, Typed, PC
  <2>2. Row(c) \in Key
    BY <2>1, RowIsKey
  <2>3. CallSound(c)'
    BY <2>1 DEF CallSound, Deciding, Delivering
  <2>4. CASE state[Row(c)] = "absent"
    <3>1. state' = [state EXCEPT ![Row(c)] = "proposed"]
      BY <1>3, <2>4 DEF EvaluateInsert
    <3>2. PICK k \in Key : k = Row(c)
      BY <2>2
    <3>3. RowSound(k) /\ state[k] = "absent" /\ state'[k] = "proposed"
      BY <2>4, <3>1, <3>2 DEF OneDecision, Typed, TypeOK
    <3>4. RowSound(k)'
      BY <2>1, <3>3 DEF RowSound
    <3>5. \A d \in Caller : At(d) \in Deciding => Row(d) \in Key /\ Row(d) # k
      BY <3>2, <3>3, DecidersKnow
    <3>6. \A l \in Key : l # k => state'[l] = state[l]
      BY <3>1, <3>2 DEF Typed, TypeOK
    <3>7. At(c)' \notin Deciding
      BY <2>1 DEF Deciding, Delivering
    <3> QED
      BY <2>1, <2>3, <3>2, <3>4, <3>5, <3>6, <3>7, SoundWrote
  <2>5. CASE state[Row(c)] # "absent"
    BY <1>3, <2>1, <2>3, <2>5, SoundMoved DEF EvaluateInsert, Deciding, Delivering
  <2> QED
    BY <2>4, <2>5
<1>4. ASSUME NEW k \in Key, EvaluateRead(c, k) PROVE OneDecision'
  <2>1. /\ At(c)' = "insert" /\ \A d \in Caller : d # c => call'[d] = call[d]
        /\ UNCHANGED <<state, sentAt, nodes, sends>>
    BY <1>4, LoadMoves DEF EvaluateRead, Typed, PC
  <2> QED
    BY <2>1, SoundMoved DEF CallSound, Deciding, Delivering
<1> QED
  BY <1>1, <1>2, <1>3, <1>4

LEMMA ApproveSound ==
  ASSUME Typed, OneDecision, "decide" \notin mishaps', NEW c \in Caller,
         \/ \E k \in Key : ApproveRead(c, k)
         \/ PolicyRefused(c) \/ ApproveCommit(c) \/ Deliver(c) \/ SendCommit(c)
  PROVE  OneDecision'
<1> USE DEF table, world
<1>1. ASSUME NEW k \in Key, ApproveRead(c, k) PROVE OneDecision'
  <2>1. /\ At(c)' = "approve" /\ Row(c)' = k /\ call'[c].loaded = "proposed"
        /\ \A d \in Caller : d # c => call'[d] = call[d]
        /\ state[k] = "proposed" /\ UNCHANGED <<state, sentAt, nodes, sends>>
    <3>1. call'[c].loaded = state[k]
      BY <1>1 DEF ApproveRead, Load, Typed, TypeOK
    <3> QED
      BY <1>1, <3>1, LoadMoves DEF ApproveRead, MayApprove, Typed, PC
  <2>2. \A d \in Caller : d # c /\ Row(d) = k =>
          At(d) \notin {"approve", "outcome", "log", "close"}
    BY <1>1 DEF ApproveRead, Note
  <2>3. \A d \in Caller : d # c /\ Row(d) = k => At(d) \notin Deciding
    <3> SUFFICES ASSUME NEW d \in Caller, d # c, Row(d) = k, At(d) \in Deciding PROVE FALSE
      OBVIOUS
    <3>1. CallSound(d) /\ At(d) \in {"deliver", "send", "started"}
      BY <2>2 DEF OneDecision, Deciding, Delivering
    <3> QED
      BY <2>1, <3>1 DEF CallSound
  <2>4. \A d \in Caller : d # c => Row(d)' = Row(d) /\ At(d)' = At(d)
    BY <2>1 DEF Row, At
  <2>5. CallSound(c)'
    BY <2>1, <2>3, <2>4 DEF CallSound, Alone
  <2>6. \A d \in Caller : d # c /\ Row(d) = Row(c)' => At(d) \notin Delivering
    BY <2>1, <2>3 DEF Deciding
  <2> QED
    BY <2>1, <2>5, <2>6, SoundMoved
<1>2. CASE PolicyRefused(c)
  <2>1. /\ At(c)' = "idle" /\ \A d \in Caller : d # c => call'[d] = call[d]
        /\ UNCHANGED <<state, sentAt, nodes, sends>>
    BY <1>2, GotoMoves DEF PolicyRefused, Typed, PC
  <2> QED
    BY <2>1, SoundMoved DEF CallSound, Deciding, Delivering
<1>3. ASSUME NEW k \in Key, Row(c) = k, At(c) \in Delivering
      PROVE  /\ RowSound(k) /\ CallSound(c)
             /\ \A d \in Caller : d # c /\ Row(d) = k => At(d) \notin Deciding
             /\ \A d \in Caller : At(d) \in Deciding => Row(d) \in Key
  BY <1>3, DecidersKnow DEF OneDecision, CallSound, Alone
\* Others stay away from the row, so c is still alone with it.
<1>4. ASSUME NEW k \in Key, Row(c) = k, Row(c)' = k, At(c) \in Delivering,
             \A d \in Caller : d # c => call'[d] = call[d]
      PROVE  Alone(c)'
  <2>1. \A d \in Caller : d # c => Row(d)' = Row(d) /\ At(d)' = At(d)
    BY <1>4 DEF Row, At
  <2> QED
    BY <1>3, <1>4, <2>1 DEF Alone
<1>5. CASE ApproveCommit(c)
  <2>1. /\ At(c) = "approve" /\ At(c)' = "deliver" /\ Row(c)' = Row(c)
        /\ \A d \in Caller : d # c => call'[d] = call[d]
        /\ UNCHANGED <<sentAt, nodes, sends>>
    BY <1>5, GotoMoves DEF ApproveCommit, Typed, PC
  <2>2. PICK k \in Key : Row(c) = k
    BY <2>1, RowIsKey
  <2>3. /\ RowSound(k) /\ state[k] = "proposed" /\ call[c].loaded = "proposed"
        /\ \A d \in Caller : d # c /\ Row(d) = k => At(d) \notin Deciding
        /\ \A d \in Caller : At(d) \in Deciding => Row(d) \in Key
    BY <1>3, <2>1, <2>2 DEF CallSound, Delivering
  <2>4. state'[k] = "approved" /\ \A l \in Key : l # k => state'[l] = state[l]
    BY <1>5, <2>2, <2>3 DEF ApproveCommit, WriteState, Typed, TypeOK
  <2>5. RowSound(k)' /\ sends[k] = 0
    BY <2>1, <2>3, <2>4 DEF RowSound
  <2>6. CallSound(c)'
    BY <1>4, <2>1, <2>2, <2>4, <2>5 DEF CallSound, Delivering
  <2> QED
    BY <2>1, <2>2, <2>3, <2>4, <2>5, <2>6, SoundWrote DEF Deciding, Delivering
<1>6. CASE Deliver(c)
  <2>1. At(c) = "deliver"
    BY <1>6 DEF Deliver
  <2>2. PICK k \in Key : Row(c) = k
    BY <2>1, RowIsKey
  <2>3. /\ At(c)' = "send" /\ Row(c)' = k /\ call'[c].loaded = state[k]
        /\ \A d \in Caller : d # c => call'[d] = call[d]
        /\ UNCHANGED <<state, sentAt, nodes>>
    <3>1. call'[c].loaded = state[k]
      BY <1>6, <2>2 DEF Deliver, Load, Typed, TypeOK
    <3> QED
      BY <1>6, <2>2, <3>1, LoadMoves DEF Deliver, Typed, PC
  <2>4. /\ RowSound(k) /\ state[k] = "approved" /\ sends[k] = 0
        /\ \A d \in Caller : d # c /\ Row(d) = k => At(d) \notin Deciding
        /\ \A d \in Caller : At(d) \in Deciding => Row(d) \in Key
    BY <1>3, <2>1, <2>2 DEF CallSound, Delivering
  <2>5. sends'[k] = 1 /\ \A l \in Key : l # k => sends'[l] = sends[l]
    BY <1>6, <2>2, <2>4 DEF Deliver, Typed, TypeOK
  <2>6. RowSound(k)'
    BY <2>3, <2>4, <2>5 DEF RowSound
  <2>7. CallSound(c)'
    BY <1>4, <2>1, <2>2, <2>3, <2>4, <2>5 DEF CallSound, Delivering
  <2> QED
    BY <2>1, <2>2, <2>3, <2>4, <2>5, <2>6, <2>7, SoundWrote DEF Deciding, Delivering
<1>7. CASE SendCommit(c)
  <2>1. /\ At(c) = "send" /\ At(c)' = "idle"
        /\ \A d \in Caller : d # c => call'[d] = call[d]
        /\ UNCHANGED sends
    BY <1>7, GotoMoves DEF SendCommit, Typed, PC
  <2>2. PICK k \in Key : Row(c) = k
    BY <2>1, RowIsKey
  <2>3. /\ RowSound(k) /\ state[k] = "approved" /\ call[c].loaded = "approved" /\ sends[k] = 1
        /\ \A d \in Caller : d # c /\ Row(d) = k => At(d) \notin Deciding
        /\ \A d \in Caller : At(d) \in Deciding => Row(d) \in Key
    BY <1>3, <2>1, <2>2 DEF CallSound, Delivering
  <2>4. state'[k] = "sent" /\ \A l \in Key : l # k => state'[l] = state[l]
    BY <1>7, <2>2, <2>3 DEF SendCommit, WriteState, Typed, TypeOK
  <2>5. /\ nodes'[k] = nodes[k] + 1 /\ k \in sentAt'
        /\ \A l \in Key : l # k => nodes'[l] = nodes[l] /\ (l \in sentAt' <=> l \in sentAt)
    BY <1>7, <2>2 DEF SendCommit, Typed, TypeOK
  <2>6. RowSound(k)'
    BY <2>1, <2>3, <2>4, <2>5 DEF RowSound
  <2>7. At(c)' \notin Deciding /\ CallSound(c)'
    BY <2>1 DEF CallSound, Deciding, Delivering
  <2> QED
    BY <2>1, <2>2, <2>3, <2>4, <2>5, <2>6, <2>7, SoundWrote
<1> QED
  BY <1>1, <1>2, <1>5, <1>6, <1>7

LEMMA ReportSound ==
  ASSUME Typed, OneDecision, "decide" \notin mishaps', NEW c \in Caller,
         \/ \E k \in Key, report \in {"started", "done", "cancelled"} : ReportRead(c, k, report)
         \/ StartedCommit(c) \/ OutcomeRead(c) \/ OutcomeInsert(c) \/ CloseCommit(c)
  PROVE  OneDecision'
<1> USE DEF table, world
<1>1. ASSUME NEW k \in Key, NEW report \in {"started", "done", "cancelled"}, ReportRead(c, k, report)
      PROVE  OneDecision'
  <2>1. PICK to \in {"started", "close", "outcome"} :
          Load(c, k, to) /\ (to = "started" <=> report = "started")
    BY <1>1 DEF ReportRead
  <2>2. /\ At(c)' = to /\ Row(c)' = k
        /\ \A d \in Caller : d # c => call'[d] = call[d]
    BY <2>1, LoadMoves DEF Typed, PC
  <2>3. call'[c].loaded = state[k] /\ UNCHANGED <<state, sentAt, nodes, sends>>
    <3>1. call'[c].loaded = state[k]
      BY <2>1 DEF Load, Typed, TypeOK
    <3> QED
      BY <1>1, <3>1 DEF ReportRead
  <2>4. state[k] \in {"proposed", "sent"} /\ (to = "started" => state[k] = "sent")
    BY <1>1, <2>1 DEF ReportRead, MayReport
  <2>5. CallSound(c)'
    BY <2>2, <2>3, <2>4 DEF CallSound, Delivering
  <2>6. \A d \in Caller : d # c /\ Row(d) = Row(c)' => At(d) \notin Delivering
    <3> SUFFICES ASSUME NEW d \in Caller, d # c, Row(d) = k, At(d) \in Delivering PROVE FALSE
      BY <2>2
    <3>1. At(d) # "approve"
      BY <1>1 DEF ReportRead, Note
    <3>2. CallSound(d)
      BY DEF OneDecision
    <3> QED
      BY <2>4, <3>1, <3>2 DEF CallSound, Delivering
  <2> QED
    BY <2>2, <2>3, <2>5, <2>6, SoundMoved
<1>2. CASE StartedCommit(c)
  <2>1. /\ At(c)' = "idle" /\ \A d \in Caller : d # c => call'[d] = call[d]
        /\ UNCHANGED <<state, sentAt, nodes, sends>>
    BY <1>2, GotoMoves DEF StartedCommit, Typed, PC
  <2> QED
    BY <2>1, SoundMoved DEF CallSound, Deciding, Delivering
\* Nobody delivers a row that c reports on.
<1>3. ASSUME At(c) \in {"outcome", "log", "close"}
      PROVE  /\ state[Row(c)] \in {"proposed", "sent", "closed"}
             /\ call[c].loaded = "closed" => state[Row(c)] = "closed"
             /\ \A d \in Caller : d # c /\ Row(d) = Row(c) => At(d) \notin Delivering
  BY <1>3 DEF OneDecision, CallSound, Alone, Deciding
<1>4. CASE OutcomeRead(c)
  <2>1. /\ At(c) = "outcome" /\ At(c)' \in {"close", "log"} /\ Row(c)' = Row(c)
        /\ \A d \in Caller : d # c => call'[d] = call[d]
        /\ UNCHANGED <<state, sentAt, nodes, sends>>
    BY <1>4, GotoMoves DEF OutcomeRead, Typed, PC
  <2>2. call'[c].loaded = call[c].loaded
    BY <1>4, <2>1 DEF OutcomeRead, Goto, Typed, TypeOK
  <2>3. CallSound(c)'
    BY <1>3, <2>1, <2>2 DEF CallSound, Delivering
  <2> QED
    BY <1>3, <2>1, <2>3, SoundMoved
<1>5. CASE OutcomeInsert(c)
  <2>1. At(c) = "log"
    BY <1>5 DEF OutcomeInsert
  <2>2. PICK k \in Key : Row(c) = k
    BY <2>1, RowIsKey
  <2>3. /\ At(c)' = "close" /\ Row(c)' = k /\ call'[c].loaded = state[k]
        /\ \A d \in Caller : d # c => call'[d] = call[d]
        /\ UNCHANGED <<state, sentAt, nodes, sends>>
    <3>1. call'[c].loaded = state[k]
      BY <1>5, <2>2 DEF OutcomeInsert, Load, Typed, TypeOK
    <3> QED
      BY <1>5, <2>2, <3>1, LoadMoves DEF OutcomeInsert, Typed, PC
  <2>4. CallSound(c)'
    BY <1>3, <2>1, <2>2, <2>3 DEF CallSound, Delivering
  <2> QED
    BY <1>3, <2>1, <2>2, <2>3, <2>4, SoundMoved
<1>6. CASE CloseCommit(c)
  <2>1. /\ At(c) = "close" /\ At(c)' = "idle"
        /\ \A d \in Caller : d # c => call'[d] = call[d]
        /\ UNCHANGED <<sentAt, nodes, sends>>
    BY <1>6, GotoMoves DEF CloseCommit, Typed, PC
  <2>2. PICK k \in Key : Row(c) = k
    BY <2>1, RowIsKey
  <2>3. /\ state'[k] = "closed" /\ \A l \in Key : l # k => state'[l] = state[l]
        /\ state[k] \in {"proposed", "sent", "closed"}
    BY <1>3, <1>6, <2>1, <2>2 DEF CloseCommit, WriteState, Typed, TypeOK
  <2>4. RowSound(k)'
    <3>1. RowSound(k)
      BY DEF OneDecision
    <3> QED
      BY <2>1, <2>3, <3>1 DEF RowSound
  <2>5. \A d \in Caller : At(d) \in Deciding => Row(d) \in Key
    BY DecidersKnow
  <2>6. At(c)' \notin Deciding /\ CallSound(c)'
    BY <2>1 DEF CallSound, Deciding, Delivering
  <2> QED
    BY <1>3, <2>1, <2>2, <2>3, <2>4, <2>5, <2>6, SoundWrote
<1> QED
  BY <1>1, <1>2, <1>4, <1>5, <1>6

LEMMA WorldSound ==
  ASSUME Typed, OneDecision,
         \/ \E c \in Caller : Abort(c)
         \/ \E k \in Key : WindowEnds(k)
         \/ Configure \/ UNCHANGED vars
  PROVE  OneDecision'
<1>1. ASSUME NEW c \in Caller, Abort(c) PROVE OneDecision'
  <2>1. /\ At(c)' = "idle" /\ \A d \in Caller : d # c => call'[d] = call[d]
        /\ UNCHANGED <<state, sentAt, nodes, sends>>
    BY <1>1 DEF Abort, Typed, TypeOK, Idle, At, table, world
  <2> QED
    BY <2>1, SoundMoved DEF CallSound, Deciding, Delivering
<1>2. CASE \/ \E k \in Key : WindowEnds(k)
           \/ Configure \/ UNCHANGED vars
  <2>1. UNCHANGED <<state, sentAt, nodes, sends, call>>
    BY <1>2 DEF WindowEnds, Configure, vars, table, world
  <2> QED
    BY <2>1 DEF OneDecision, RowSound, CallSound, Alone, Row, At
<1> QED
  BY <1>1, <1>2

DecideInv == Typed /\ Before("decide", OneDecision)

LEMMA DecideInit == Init => DecideInv
<1> SUFFICES ASSUME Init PROVE DecideInv
  OBVIOUS
<1>1. \A c \in Caller : At(c) = "idle"
  BY DEF Init, At, Idle
<1>2. \A k \in Key : RowSound(k)
  BY DEF Init, RowSound
<1>3. OneDecision
  BY <1>1, <1>2 DEF OneDecision, CallSound, Delivering
<1> QED
  BY <1>3, TypeInit DEF DecideInv, Before

LEMMA DecideNext == DecideInv /\ [Next]_vars => DecideInv'
<1> SUFFICES ASSUME DecideInv, [Next]_vars PROVE DecideInv'
  OBVIOUS
<1>1. Typed /\ Typed'
  BY TypeNext DEF DecideInv
<1>2. ASSUME "decide" \notin mishaps' PROVE OneDecision'
  <2>1. OneDecision
    BY <1>2, MishapsGrow DEF DecideInv, Before
  <2>2. ASSUME NEW c \in Caller, At(c) = "policy", ApproveRead(c, Row(c))
        PROVE  \E k \in Key : ApproveRead(c, k)
    BY <1>1, <2>2, RowIsKey
  <2> QED
    BY <1>1, <1>2, <2>1, <2>2, StepKinds, EvaluateSound, ApproveSound, ReportSound,
       WorldSound, Zenon
<1> QED
  BY <1>1, <1>2 DEF DecideInv, Before

LEMMA DecideHolds == Spec => []DecideInv
BY DecideInit, DecideNext, PTL DEF Spec

\* A row is delivered at most once, and its node is in the journey exactly when it was
\* sent, until two decisions on one row overlap; calls may be cut off, repeated and
\* overtaken by settings and window ends (governance.py:310-357).
THEOREM SentOnceHolds == Spec => []SentOnce
<1>1. ASSUME Typed, OneDecision PROVE OneSend /\ \A k \in Key : nodes[k] = IF k \in sentAt THEN 1 ELSE 0
  <2>1. ASSUME NEW k \in Key PROVE sends[k] \in {0, 1} /\ nodes[k] = IF k \in sentAt THEN 1 ELSE 0
    <3>1. RowSound(k) /\ state[k] \in States
      BY <1>1 DEF OneDecision, Typed, TypeOK
    <3> QED
      BY <3>1 DEF RowSound, States
  <2> QED
    BY <2>1 DEF OneSend
<1>2. DecideInv => SentOnce
  BY <1>1 DEF DecideInv, SentOnce, Before
<1> QED
  BY <1>2, DecideHolds, PTL

\* What a person declined was not delivered and no call is about to deliver it, until two
\* decisions on one row overlap (governance.py:380, 405-406).
THEOREM DeclinedNotSentHolds == Spec => []DeclinedNotSent
<1>1. ASSUME OneDecision, NEW k \in Key, state[k] = "closed", k \notin sentAt
      PROVE  sends[k] = 0 /\ \A c \in Caller : Row(c) = k => At(c) \notin {"approve", "deliver", "send"}
  <2>1. RowSound(k) /\ \A c \in Caller : CallSound(c)
    BY <1>1 DEF OneDecision
  <2> QED
    BY <1>1, <2>1 DEF RowSound, CallSound
<1>2. DecideInv => DeclinedNotSent
  BY <1>1 DEF DecideInv, DeclinedNotSent, Before
<1> QED
  BY <1>2, DecideHolds, PTL

\* Only approve and evaluate write another state than 'closed', and neither writes to a closed row.
LEMMA ClosedStays ==
  ASSUME Typed, OneDecision, [Next]_vars, NEW k \in Key, state[k] = "closed"
  PROVE  state'[k] = "closed"
<1>1. ASSUME NEW c \in Caller, NEW new \in States, WriteState(c, new), At(c) \notin {"idle", "look"},
             new = "closed" \/ Row(c) # k
      PROVE  state'[k] = "closed"
  BY <1>1, RowIsKey, WriteMoves
<1>2. ASSUME NEW c \in Caller,
             \/ EvaluateStart(c) \/ EvaluateSkips(c) \/ EvaluateInsert(c)
             \/ \E l \in Key : EvaluateRead(c, l)
      PROVE  state'[k] = "closed"
  <2>1. EvaluateInsert(c) => state'[k] = "closed"
    BY DEF EvaluateInsert, Typed, TypeOK
  <2> QED
    BY <1>2, <2>1 DEF EvaluateStart, EvaluateSkips, EvaluateRead, table
<1>3. ASSUME NEW c \in Caller,
             \/ \E l \in Key : ApproveRead(c, l)
             \/ At(c) = "policy" /\ ApproveRead(c, Row(c))
             \/ PolicyRefused(c) \/ ApproveCommit(c) \/ Deliver(c) \/ SendCommit(c)
      PROVE  state'[k] = "closed"
  <2>1. CallSound(c)
    BY DEF OneDecision
  <2>2. CASE ApproveCommit(c)
    <3>1. At(c) = "approve" /\ WriteState(c, "approved") /\ Row(c) # k
      BY <2>1, <2>2 DEF ApproveCommit, Goto, CallSound
    <3> QED
      BY <1>1, <3>1 DEF States
  <2>3. CASE SendCommit(c)
    <3>1. At(c) = "send" /\ WriteState(c, "sent") /\ Row(c) # k
      BY <2>1, <2>3 DEF SendCommit, Goto, CallSound
    <3> QED
      BY <1>1, <3>1 DEF States
  <2> QED
    BY <1>3, <2>2, <2>3 DEF ApproveRead, PolicyRefused, Deliver, table
<1>4. ASSUME NEW c \in Caller,
             \/ \E l \in Key, report \in {"started", "done", "cancelled"} : ReportRead(c, l, report)
             \/ StartedCommit(c) \/ OutcomeRead(c) \/ OutcomeInsert(c) \/ CloseCommit(c)
      PROVE  state'[k] = "closed"
  <2>1. CASE CloseCommit(c)
    <3>1. At(c) = "close" /\ WriteState(c, "closed")
      BY <2>1 DEF CloseCommit, Goto
    <3> QED
      BY <1>1, <3>1 DEF States
  <2> QED
    BY <1>4, <2>1 DEF ReportRead, StartedCommit, OutcomeRead, OutcomeInsert, table
<1>5. ASSUME \/ \E c \in Caller : Abort(c)
             \/ \E l \in Key : WindowEnds(l)
             \/ Configure \/ UNCHANGED vars
      PROVE  state'[k] = "closed"
  BY <1>5 DEF Abort, WindowEnds, Configure, vars, table
<1> QED
  BY <1>2, <1>3, <1>4, <1>5, StepKinds, Zenon

\* A closed intervention stays closed although the callback that closes it can overtake
\* approve's last commit, until two decisions on one row overlap (governance.py:392-406).
THEOREM ClosedIsFinalHolds == Spec => ClosedIsFinal
<1>1. ASSUME DecideInv, [Next]_vars
      PROVE  [Before("decide", \A k \in Key : state[k] = "closed" => state'[k] = "closed")]_vars
  BY <1>1, ClosedStays DEF DecideInv, Before
<1> QED
  BY <1>1, DecideHolds, PTL DEF Spec, ClosedIsFinal

-----------------------------------------------------------------------------
(***************************************************************************)
(* One outcome of a workflow.  Until two calls overlap between the look-up *)
(* of the outcome and its insert, whoever is between the two is there      *)
(* alone, and what it looked up still holds.                               *)
(***************************************************************************)
LogsAlone(c) ==
  At(c) = "log" =>
    /\ outcomes[Row(c)] = 0
    /\ \A d \in Caller : d # c /\ Row(d) = Row(c) => At(d) # "log"

OnRecordOnce ==
  /\ \A k \in Key : outcomes[k] <= 1
  /\ \A c \in Caller : LogsAlone(c)

\* A step that neither looks up nor inserts an outcome leaves no call between the two.
LEMMA OutcomeUntouched ==
  ASSUME OnRecordOnce, NEW c \in Caller, UNCHANGED outcomes, At(c)' # "log",
         \A d \in Caller : d # c => call'[d] = call[d]
  PROVE  OnRecordOnce'
<1>1. \A d \in Caller : d # c => Row(d)' = Row(d) /\ At(d)' = At(d)
  BY DEF Row, At
<1> QED
  BY <1>1 DEF OnRecordOnce, LogsAlone

LEMMA OutcomeMoves ==
  ASSUME Typed, OnRecordOnce, "outcome" \notin mishaps', NEW c \in Caller,
         OutcomeRead(c) \/ OutcomeInsert(c)
  PROVE  OnRecordOnce'
<1>1. CASE OutcomeRead(c)
  <2>1. /\ At(c)' \in {"close", "log"} /\ Row(c)' = Row(c)
        /\ \A d \in Caller : d # c => call'[d] = call[d]
        /\ At(c)' = "log" => outcomes[Row(c)] = 0
        /\ UNCHANGED outcomes
    <3>1. CASE Goto(c, "outcome", "close")
      BY <1>1, <3>1, GotoMoves DEF OutcomeRead, Typed, PC, table
    <3>2. CASE Goto(c, "outcome", "log") /\ outcomes[Row(c)] = 0
      BY <1>1, <3>2, GotoMoves DEF OutcomeRead, Typed, PC, table
    <3> QED
      BY <1>1, <3>1, <3>2 DEF OutcomeRead
  <2>2. \A d \in Caller : d # c /\ Row(d) = Row(c) => At(d) # "log"
    BY <1>1 DEF OutcomeRead, Note
  <2>3. \A d \in Caller : d # c => Row(d)' = Row(d) /\ At(d)' = At(d)
    BY <2>1 DEF Row, At
  <2> QED
    BY <2>1, <2>2, <2>3 DEF OnRecordOnce, LogsAlone
<1>2. CASE OutcomeInsert(c)
  <2>1. At(c) = "log"
    BY <1>2 DEF OutcomeInsert
  <2>2. PICK k \in Key : Row(c) = k
    BY <2>1, RowIsKey
  <2>3. /\ At(c)' = "close" /\ \A d \in Caller : d # c => call'[d] = call[d]
    BY <1>2, <2>2, LoadMoves DEF OutcomeInsert, Typed, PC
  <2>4. /\ outcomes'[k] = outcomes[k] + 1 /\ outcomes[k] = 0
        /\ \A l \in Key : l # k => outcomes'[l] = outcomes[l]
    BY <1>2, <2>1, <2>2 DEF OutcomeInsert, Typed, TypeOK, OnRecordOnce, LogsAlone
  <2>5. \A l \in Key : outcomes'[l] <= 1
    BY <2>4 DEF OnRecordOnce
  <2>6. ASSUME NEW d \in Caller, At(d)' = "log" PROVE LogsAlone(d)'
    <3>1. d # c /\ At(d) = "log" /\ Row(d)' = Row(d)
      BY <2>3, <2>6 DEF Row, At
    <3>2. Row(d) \in Key /\ Row(d) # k
      BY <2>1, <2>2, <3>1, RowIsKey DEF OnRecordOnce, LogsAlone
    <3>3. \A e \in Caller : At(e)' = "log" => At(e) = "log" /\ Row(e)' = Row(e)
      BY <2>3 DEF Row, At
    <3> QED
      BY <2>4, <3>1, <3>2, <3>3 DEF OnRecordOnce, LogsAlone
  <2> QED
    BY <2>5, <2>6 DEF OnRecordOnce, LogsAlone
<1> QED
  BY <1>1, <1>2

LEMMA OutcomeOthers ==
  ASSUME Typed, OnRecordOnce, [Next]_vars, ~\E c \in Caller : OutcomeRead(c) \/ OutcomeInsert(c)
  PROVE  OnRecordOnce'
<1> USE DEF table, world
<1>1. ASSUME NEW c \in Caller, NEW from \in PC, NEW to \in PC \ {"log"},
             Goto(c, from, to), UNCHANGED outcomes
      PROVE  OnRecordOnce'
  BY <1>1, GotoMoves, OutcomeUntouched DEF Typed
<1>2. ASSUME NEW c \in Caller, NEW k \in Key, NEW to \in PC \ {"log"},
             Load(c, k, to), UNCHANGED outcomes
      PROVE  OnRecordOnce'
  BY <1>2, LoadMoves, OutcomeUntouched DEF Typed
<1>3. ASSUME NEW c \in Caller,
             \/ EvaluateStart(c) \/ EvaluateSkips(c) \/ EvaluateInsert(c)
             \/ \E k \in Key : EvaluateRead(c, k)
      PROVE  OnRecordOnce'
  <2>1. CASE EvaluateStart(c)
    <3>1. At(c)' # "log" /\ UNCHANGED outcomes /\ \A d \in Caller : d # c => call'[d] = call[d]
      BY <2>1 DEF EvaluateStart, Typed, TypeOK, At
    <3> QED
      BY <3>1, OutcomeUntouched
  <2> QED
    BY <1>1, <1>2, <1>3, <2>1 DEF EvaluateSkips, EvaluateInsert, EvaluateRead, PC
<1>4. ASSUME NEW c \in Caller,
             \/ \E k \in Key : ApproveRead(c, k)
             \/ PolicyRefused(c) \/ ApproveCommit(c) \/ Deliver(c) \/ SendCommit(c)
      PROVE  OnRecordOnce'
  <2>1. CASE Deliver(c)
    <3>1. Row(c) \in Key
      BY <2>1, RowIsKey DEF Deliver
    <3> QED
      BY <1>2, <2>1, <3>1 DEF Deliver, PC
  <2> QED
    BY <1>1, <1>2, <1>4, <2>1 DEF ApproveRead, PolicyRefused, ApproveCommit, SendCommit, PC
<1>5. ASSUME NEW c \in Caller,
             \/ \E k \in Key, report \in {"started", "done", "cancelled"} : ReportRead(c, k, report)
             \/ StartedCommit(c) \/ CloseCommit(c)
      PROVE  OnRecordOnce'
  <2>1. ASSUME NEW k \in Key, NEW report, ReportRead(c, k, report) PROVE OnRecordOnce'
    <3>1. PICK to \in {"started", "close", "outcome"} : Load(c, k, to)
      BY <2>1 DEF ReportRead
    <3> QED
      BY <1>2, <2>1, <3>1 DEF ReportRead, PC
  <2> QED
    BY <1>1, <1>5, <2>1 DEF StartedCommit, CloseCommit, PC
<1>6. ASSUME NEW c \in Caller, Abort(c) PROVE OnRecordOnce'
  <2>1. At(c)' # "log" /\ UNCHANGED outcomes /\ \A d \in Caller : d # c => call'[d] = call[d]
    BY <1>6 DEF Abort, Typed, TypeOK, At, Idle
  <2> QED
    BY <2>1, OutcomeUntouched
<1>7. CASE \/ \E k \in Key : WindowEnds(k)
           \/ Configure \/ UNCHANGED vars
  <2>1. UNCHANGED <<outcomes, call>>
    BY <1>7 DEF WindowEnds, Configure, vars
  <2> QED
    BY <2>1 DEF OnRecordOnce, LogsAlone, At, Row
<1>8. ASSUME NEW c \in Caller, At(c) = "policy", ApproveRead(c, Row(c))
      PROVE  \E k \in Key : ApproveRead(c, k)
  BY <1>8, RowIsKey
<1> QED
  BY <1>3, <1>4, <1>5, <1>6, <1>7, <1>8, StepKinds, Zenon

RecordInv == Typed /\ Before("outcome", OnRecordOnce)

\* A workflow's outcome is on record once, although its callback is repeated after a
\* failure, until a repetition overlaps the call it repeats (journeys/outcomes.py:95-101).
THEOREM OneOutcomeHolds == Spec => []OneOutcome
<1>1. Init => RecordInv
  <2> SUFFICES ASSUME Init PROVE RecordInv
    OBVIOUS
  <2>1. OnRecordOnce
    BY DEF Init, OnRecordOnce, LogsAlone, At, Idle
  <2> QED
    BY <2>1, TypeInit DEF RecordInv, Before
<1>2. RecordInv /\ [Next]_vars => RecordInv'
  <2> SUFFICES ASSUME RecordInv, [Next]_vars PROVE RecordInv'
    OBVIOUS
  <2>1. ASSUME "outcome" \notin mishaps' PROVE OnRecordOnce'
    BY <2>1, MishapsGrow, OutcomeMoves, OutcomeOthers DEF RecordInv, Before
  <2> QED
    BY <2>1, TypeNext DEF RecordInv, Before
<1>3. RecordInv => OneOutcome
  BY DEF RecordInv, OneOutcome, Before, OnRecordOnce
<1> QED
  BY <1>1, <1>2, <1>3, PTL DEF Spec

-----------------------------------------------------------------------------
(***************************************************************************)
(* Approvals are accounted for until a call is cut off: the call that will *)
(* commit 'sent' is still there.  A call that has loaded 'sent' after the  *)
(* delivery does not count: its last commit does not write the state.      *)
(***************************************************************************)
OwedBy(c, k) ==
  Row(c) = k /\ (At(c) = "deliver" \/ (At(c) = "send" /\ call[c].loaded # "sent"))

Owed(k) ==
  LET Owes == \E c \in Caller : OwedBy(c, k)
  IN  /\ state[k] = "approved" => Owes
      /\ sends[k] > 0 => Owes \/ state[k] = "sent" \/ k \in reported

\* c owes k as much as before, and no approval or delivery of k is added.
LEMMA OwedKept ==
  ASSUME NEW k, Owed(k), NEW c \in Caller,
         \A d \in Caller : d # c => call'[d] = call[d],
         OwedBy(c, k) => OwedBy(c, k)',
         state'[k] = "approved" => state[k] = "approved",
         state[k] = "sent" => state'[k] = "sent" \/ k \in reported',
         sends'[k] = sends[k], reported \subseteq reported'
  PROVE  Owed(k)'
<1>1. ASSUME NEW d \in Caller, OwedBy(d, k) PROVE OwedBy(d, k)'
  BY <1>1 DEF OwedBy, Row, At
<1> QED
  BY <1>1 DEF Owed

\* Who is going to deliver or to commit 'sent' accounts for whatever its row is.
LEMMA OwedNow ==
  ASSUME NEW k, NEW c \in Caller, OwedBy(c, k)'
  PROVE  Owed(k)'
BY DEF Owed

LEMMA OwedEvaluate ==
  ASSUME Typed, NEW k \in Key, Owed(k), NEW c \in Caller,
         \/ EvaluateStart(c) \/ EvaluateSkips(c) \/ EvaluateInsert(c)
         \/ \E l \in Key : EvaluateRead(c, l)
  PROVE  Owed(k)'
<1> USE DEF table, world
<1>1. /\ At(c) \in {"idle", "look", "insert"}
      /\ \A d \in Caller : d # c => call'[d] = call[d]
      /\ UNCHANGED <<sends, reported>>
  <2>1. CASE EvaluateStart(c)
    BY <2>1 DEF EvaluateStart, Typed, TypeOK, At
  <2>2. CASE EvaluateSkips(c)
    BY <2>2, GotoMoves DEF EvaluateSkips, Typed, PC
  <2>3. CASE EvaluateInsert(c)
    BY <2>3, GotoMoves DEF EvaluateInsert, Typed, PC
  <2>4. ASSUME NEW l \in Key, EvaluateRead(c, l)
        PROVE  /\ At(c) = "look" /\ UNCHANGED <<sends, reported>>
               /\ \A d \in Caller : d # c => call'[d] = call[d]
    BY <2>4, LoadMoves DEF EvaluateRead, Typed, PC
  <2> QED
    BY <2>1, <2>2, <2>3, <2>4
<1>2. ~OwedBy(c, k)
  BY <1>1 DEF OwedBy
<1>3. state'[k] = state[k] \/ (state[k] = "absent" /\ state'[k] = "proposed")
  <2>1. ASSUME EvaluateInsert(c)
        PROVE  state'[k] = state[k] \/ (state[k] = "absent" /\ state'[k] = "proposed")
    BY <2>1 DEF EvaluateInsert, Typed, TypeOK
  <2> QED
    BY <2>1 DEF EvaluateStart, EvaluateSkips, EvaluateRead
<1> QED
  BY <1>1, <1>2, <1>3, OwedKept

LEMMA OwedApprove ==
  ASSUME Typed, NEW k \in Key, Owed(k), NEW c \in Caller,
         \/ \E l \in Key : ApproveRead(c, l)
         \/ PolicyRefused(c) \/ ApproveCommit(c) \/ Deliver(c) \/ SendCommit(c)
  PROVE  Owed(k)'
<1> USE DEF table, world
<1>1. ASSUME NEW l \in Key, ApproveRead(c, l) PROVE Owed(k)'
  <2>1. At(c) \in {"idle", "policy"} /\ \A d \in Caller : d # c => call'[d] = call[d]
    BY <1>1, LoadMoves DEF ApproveRead, Typed, PC
  <2> QED
    BY <1>1, <2>1, OwedKept DEF ApproveRead, OwedBy
<1>2. CASE PolicyRefused(c)
  <2>1. At(c) = "policy" /\ \A d \in Caller : d # c => call'[d] = call[d]
    BY <1>2, GotoMoves DEF PolicyRefused, Typed, PC
  <2> QED
    BY <1>2, <2>1, OwedKept DEF PolicyRefused, OwedBy
<1>3. CASE ApproveCommit(c)
  <2>1. /\ At(c) = "approve" /\ At(c)' = "deliver" /\ Row(c)' = Row(c)
        /\ \A d \in Caller : d # c => call'[d] = call[d]
        /\ UNCHANGED <<sends, reported>>
    BY <1>3, GotoMoves DEF ApproveCommit, Typed, PC
  <2>2. CASE Row(c) = k
    BY <2>1, <2>2, OwedNow DEF OwedBy
  <2>3. CASE Row(c) # k
    <3>1. state'[k] = state[k]
      BY <1>3, <2>1, <2>3, RowIsKey, WriteMoves DEF ApproveCommit, States
    <3> QED
      BY <2>1, <3>1, OwedKept DEF OwedBy
  <2> QED
    BY <2>2, <2>3
<1>4. CASE Deliver(c)
  <2>1. At(c) = "deliver" /\ UNCHANGED <<state, reported>>
    BY <1>4 DEF Deliver
  <2>2. PICK l \in Key : Row(c) = l
    BY <2>1, RowIsKey
  <2>3. /\ At(c)' = "send" /\ Row(c)' = l /\ call'[c].loaded = state[l]
        /\ \A d \in Caller : d # c => call'[d] = call[d]
    <3>1. call'[c].loaded = state[l]
      BY <1>4, <2>2 DEF Deliver, Load, Typed, TypeOK
    <3> QED
      BY <1>4, <2>2, <3>1, LoadMoves DEF Deliver, Typed, PC
  <2>4. CASE l = k /\ state[k] # "sent"
    BY <2>3, <2>4, OwedNow DEF OwedBy
  <2>5. CASE l = k /\ state[k] = "sent"
    BY <2>1, <2>5 DEF Owed
  <2>6. CASE l # k
    <3>1. sends'[k] = sends[k]
      BY <1>4, <2>2, <2>6 DEF Deliver, Typed, TypeOK
    <3> QED
      BY <2>1, <2>2, <2>3, <2>6, <3>1, OwedKept DEF OwedBy
  <2> QED
    BY <2>4, <2>5, <2>6
<1>5. CASE SendCommit(c)
  <2>1. /\ At(c) = "send" /\ UNCHANGED <<sends, reported>>
        /\ \A d \in Caller : d # c => call'[d] = call[d]
    BY <1>5, GotoMoves DEF SendCommit, Typed, PC
  <2>2. Row(c) \in Key
    BY <2>1, RowIsKey
  <2>3. CASE OwedBy(c, k)
    <3>1. state'[k] = "sent"
      BY <1>5, <2>1, <2>3 DEF SendCommit, WriteState, OwedBy, Typed, TypeOK
    <3> QED
      BY <3>1 DEF Owed
  <2>4. CASE ~OwedBy(c, k)
    <3>1. state'[k] = state[k]
      BY <1>5, <2>1, <2>2, <2>4 DEF SendCommit, WriteState, OwedBy, Typed, TypeOK
    <3> QED
      BY <2>1, <2>4, <3>1, OwedKept
  <2> QED
    BY <2>3, <2>4
<1> QED
  BY <1>1, <1>2, <1>3, <1>4, <1>5

LEMMA OwedReport ==
  ASSUME Typed, NEW k \in Key, Owed(k), NEW c \in Caller,
         \/ \E l \in Key, report \in {"started", "done", "cancelled"} : ReportRead(c, l, report)
         \/ StartedCommit(c) \/ OutcomeRead(c) \/ OutcomeInsert(c) \/ CloseCommit(c)
  PROVE  Owed(k)'
<1> USE DEF table, world
<1>1. /\ At(c) \notin {"deliver", "send"} /\ UNCHANGED sends
      /\ \A d \in Caller : d # c => call'[d] = call[d]
  <2>1. ASSUME NEW l \in Key, NEW report, ReportRead(c, l, report)
        PROVE  At(c) = "idle" /\ UNCHANGED sends /\ \A d \in Caller : d # c => call'[d] = call[d]
    <3>1. PICK to \in {"started", "close", "outcome"} : Load(c, l, to)
      BY <2>1 DEF ReportRead
    <3> QED
      BY <2>1, <3>1, LoadMoves DEF ReportRead, Typed, PC
  <2>2. CASE StartedCommit(c)
    BY <2>2, GotoMoves DEF StartedCommit, Typed, PC
  <2>3. CASE OutcomeRead(c)
    BY <2>3, GotoMoves DEF OutcomeRead, Typed, PC
  <2>4. CASE OutcomeInsert(c)
    BY <2>4, RowIsKey, LoadMoves DEF OutcomeInsert, Typed, PC
  <2>5. CASE CloseCommit(c)
    BY <2>5, GotoMoves DEF CloseCommit, Typed, PC
  <2> QED
    BY <2>1, <2>2, <2>3, <2>4, <2>5
<1>2. ~OwedBy(c, k)
  BY <1>1 DEF OwedBy
<1>3. CASE CloseCommit(c)
  <2>1. Row(c) \in Key /\ reported' = reported \cup {Row(c)}
    BY <1>3, RowIsKey DEF CloseCommit, Goto
  <2>2. state'[k] = state[k] \/ (Row(c) = k /\ state'[k] = "closed")
    BY <1>3, <2>1, WriteMoves DEF CloseCommit, States
  <2> QED
    BY <1>1, <1>2, <2>1, <2>2, OwedKept
<1>4. CASE ~CloseCommit(c)
  <2>1. UNCHANGED state /\ reported \subseteq reported'
    BY <1>4 DEF ReportRead, StartedCommit, OutcomeRead, OutcomeInsert
  <2> QED
    BY <1>1, <1>2, <2>1, OwedKept
<1> QED
  BY <1>3, <1>4

AccountInv == Typed /\ Before("abort", \A k \in Key : Owed(k))

LEMMA AccountNext == AccountInv /\ [Next]_vars => AccountInv'
<1> SUFFICES ASSUME AccountInv, [Next]_vars PROVE AccountInv'
  OBVIOUS
<1>1. Typed /\ Typed'
  BY TypeNext DEF AccountInv
<1>2. ASSUME "abort" \notin mishaps', NEW k \in Key PROVE Owed(k)'
  <2>1. Owed(k)
    BY <1>2, MishapsGrow DEF AccountInv, Before
  <2>2. ASSUME NEW c \in Caller, At(c) = "policy", ApproveRead(c, Row(c))
        PROVE  \E l \in Key : ApproveRead(c, l)
    BY <1>1, <2>2, RowIsKey
  <2>3. ~\E c \in Caller : Abort(c)
    BY <1>2 DEF Abort
  <2>4. ASSUME \/ \E l \in Key : WindowEnds(l)
               \/ Configure \/ UNCHANGED vars
        PROVE  Owed(k)'
    <3>1. UNCHANGED <<state, sends, reported, call>>
      BY <2>4 DEF WindowEnds, Configure, vars, world, table
    <3> QED
      BY <2>1, <3>1 DEF Owed, OwedBy, At, Row
  <2> QED
    BY <1>1, <2>1, <2>2, <2>3, <2>4, StepKinds, OwedEvaluate, OwedApprove, OwedReport, Zenon
<1> QED
  BY <1>1, <1>2 DEF AccountInv, Before

\* Until a call is cut off, every approval is being sent, and every payload that went out
\* is on a sent row or was reported on, also when two decisions race (governance.py:446-453).
THEOREM AccountedHolds == Spec => []Accounted
<1>1. Init => AccountInv
  <2> SUFFICES ASSUME Init PROVE AccountInv
    OBVIOUS
  <2>1. \A k \in Key : Owed(k)
    BY DEF Init, Owed
  <2> QED
    BY <2>1, TypeInit DEF AccountInv, Before
<1>2. ASSUME Typed, NEW k \in Key, Owed(k)
      PROVE  LET Sending == \E c \in Caller : Row(c) = k /\ At(c) \in {"deliver", "send"}
             IN  /\ state[k] = "approved" => Sending
                 /\ sends[k] > 0 => Sending \/ state[k] = "sent" \/ k \in reported
  BY <1>2 DEF Owed, OwedBy
<1>3. AccountInv => Accounted
  BY <1>2 DEF AccountInv, Accounted, Before
<1> QED
  BY <1>1, <1>3, AccountNext, PTL DEF Spec
=============================================================================
