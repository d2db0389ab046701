------------------------ MODULE SignalPipelineProofs ------------------------
(***************************************************************************)
(* Proofs about SignalPipeline for any number of rows, drains, accounts    *)
(* and faults: type correctness, at-most-once evidence, and that the       *)
(* pipeline implements Evidence.                                           *)
(***************************************************************************)
EXTENDS SignalPipeline, TLAPS

\* A batch is made of stored rows nobody has claimed or locked.
LEMMA BatchIsFree ==
  ASSUME TypeOK, NEW d \in Drain, Select(d)
  PROVE  /\ batch'[d] \subseteq Rows
         /\ batch' = [batch EXCEPT ![d] = batch'[d]]
         /\ \A i \in batch'[d] : i <= stored /\ cg[i] = "null" /\ i \notin Locked
<1>1. PICK S \in SUBSET Selectable(d) : batch' = [batch EXCEPT ![d] = S]
  BY DEF Select
<1>2. batch'[d] = S
  BY <1>1 DEF TypeOK
<1>3. 1..stored \subseteq Rows /\ \A i \in 1..stored : i <= stored
  BY PipelineAssumption DEF TypeOK, Rows
<1> QED
  BY <1>1, <1>2, <1>3 DEF Selectable

\* Every reachable state of the pipeline is well typed.
LEMMA TypeInit == Init => TypeOK
  BY PipelineAssumption DEF Init, TypeOK, PC

LEMMA TypeNext == TypeOK /\ [Next]_vars => TypeOK'
<1> SUFFICES ASSUME TypeOK, [Next]_vars PROVE TypeOK'
  OBVIOUS
<1> USE DEF TypeOK, PC, Goto, Fault, table, local
<1>1. CASE Store
  BY <1>1, PipelineAssumption DEF Store
<1>2. ASSUME NEW d \in Drain, Select(d) PROVE TypeOK'
  <2>1. batch' \in [Drain -> SUBSET Rows]
    BY <1>2, BatchIsFree
  <2> QED
    BY <1>2, <2>1 DEF Select
<1>3. ASSUME NEW d \in Drain, Step(d) PROVE TypeOK'
  <2>1. CASE Claim(d)
    BY <2>1 DEF Claim
  <2>2. CASE EndLoop(d)
    BY <2>2, PipelineAssumption DEF EndLoop
  <2>3. CASE Return(d)
    BY <2>3 DEF Return, Forget
  <2>4. ASSUME NEW i \in Rows, Materialize(d, i) PROVE TypeOK'
    BY <2>4 DEF Materialize
  <2>5. ASSUME NEW i \in Rows, EnrichFails(d, i) PROVE TypeOK'
    BY <2>5, PipelineAssumption DEF EnrichFails
  <2>6. ASSUME NEW i \in Rows, ReadBack(d, i) PROVE TypeOK'
    BY <2>6 DEF ReadBack
  <2>7. ASSUME NEW i \in Rows, Release(d, i) PROVE TypeOK'
    BY <2>7 DEF Release
  <2>8. ASSUME NEW c \in Customer, RebuildRead(d, c) PROVE TypeOK'
    BY <2>8 DEF RebuildRead, Touched, EvidenceOf
  <2>9. CASE RebuildCommit(d)
    BY <2>9 DEF RebuildCommit
  <2>10. CASE RowRaises(d)
    BY <2>10, PipelineAssumption DEF RowRaises
  <2>11. CASE ReadBackRaises(d)
    BY <2>11, PipelineAssumption DEF ReadBackRaises
  <2>12. CASE HandlerRaises(d)
    BY <2>12, PipelineAssumption DEF HandlerRaises, Forget
  <2>13. CASE RebuildRaises(d)
    BY <2>13, PipelineAssumption DEF RebuildRaises
  <2> QED
    BY <1>3, <2>1, <2>2, <2>3, <2>4, <2>5, <2>6, <2>7, <2>8, <2>9, <2>10, <2>11,
       <2>12, <2>13 DEF Step
<1>4. ASSUME NEW d \in Drain, Crash(d) PROVE TypeOK'
  BY <1>4, PipelineAssumption DEF Crash, Forget
<1>5. CASE UNCHANGED vars
  BY <1>5 DEF vars
<1> QED
  BY <1>1, <1>2, <1>3, <1>4, <1>5 DEF Next

\* Every state the pipeline reaches is well typed, for any constants.
THEOREM TypeCorrect == Spec => []TypeOK
<1> QED
  BY TypeInit, TypeNext, PTL DEF Spec

-----------------------------------------------------------------------------
\* The loop is at one row at a time.
LEMMA AtIsUnique ==
  ASSUME TypeOK, NEW d \in Drain, NEW i, NEW j, At(d, i), At(d, j)
  PROVE  i = j
<1>1. i \in Nat /\ j \in Nat
  BY PipelineAssumption DEF TypeOK, At, Rows
<1> QED
  BY <1>1 DEF At

\* A step of d that leaves the rows the others hold alone keeps their part of
\* the discipline.
LEMMA OthersKeepTheirRows ==
  ASSUME TypeOK, ClaimDiscipline, NEW d \in Drain, NEW e \in Drain, e # d,
         pc'[e] = pc[e], todo'[e] = todo[e], batch'[e] = batch[e], stored' = stored,
         \A i \in todo[e] : cg'[i] = cg[i],
         \A f \in Drain : f # d => todo'[f] = todo[f],
         todo'[d] \cap todo[e] = {}
  PROVE  OwnsLoopRows(e)'
<1>1. OwnsLoopRows(e)
  BY DEF ClaimDiscipline
<1>2. \A i \in todo[e] : At(e, i)' <=> At(e, i)
  BY DEF At
<1> QED
  BY <1>1, <1>2 DEF OwnsLoopRows

\* The rows of a batch that is claimed change hands from the table to the drain.
LEMMA ClaimKeepsDiscipline ==
  ASSUME TypeOK, ClaimDiscipline, NEW d \in Drain, Claim(d)
  PROVE  ClaimDiscipline'
<1> USE DEF TypeOK, Goto
<1>1. \A i \in batch[d] : i \in Rows /\ cg[i] = "null" /\ i <= stored
  BY DEF Claim, ClaimDiscipline, LocksFreeRows
<1>2. \A i \in Rows : cg'[i] = IF i \in batch[d] THEN "claimed" ELSE cg[i]
  BY DEF Claim
<1>3. /\ pc' = [pc EXCEPT ![d] = "row"]
      /\ todo' = [todo EXCEPT ![d] = batch[d]]
      /\ pc[d] = "selected"
      /\ UNCHANGED <<stored, written, batch>>
  BY DEF Claim
<1>4. WrittenIsRecorded' /\ OnlyStoredRows'
  BY <1>1, <1>2, <1>3 DEF ClaimDiscipline, WrittenIsRecorded, OnlyStoredRows
<1>5. ASSUME NEW e \in Drain PROVE LocksFreeRows(e)'
  <2>1. LocksFreeRows(e)
    BY DEF ClaimDiscipline
  <2>2. pc'[e] = "selected" => e # d /\ pc[e] = "selected"
    BY <1>3
  <2>3. pc'[e] = "selected" => \A i \in batch[e] : i \notin batch[d]
    BY <1>3, <2>1, <2>2 DEF LocksFreeRows
  <2> QED
    BY <1>2, <1>3, <2>1, <2>2, <2>3 DEF LocksFreeRows
<1>6. \A e \in Drain : \A i \in todo[e] : i \in Rows /\ i \notin batch[d]
  BY <1>1 DEF ClaimDiscipline, OwnsLoopRows
<1>7. ASSUME NEW e \in Drain PROVE OwnsLoopRows(e)'
  <2>1. CASE e = d
    BY <1>1, <1>2, <1>3, <1>6, <2>1 DEF OwnsLoopRows
  <2>2. CASE e # d
    BY <1>2, <1>3, <1>6, <2>2, OthersKeepTheirRows
  <2> QED
    BY <2>1, <2>2
<1> QED
  BY <1>4, <1>5, <1>7 DEF ClaimDiscipline

\* Putting back the row a drain is at ends its claim and nothing else.
LEMMA PutBackKeepsDiscipline ==
  ASSUME TypeOK, ClaimDiscipline, NEW d \in Drain, NEW i \in Rows, At(d, i),
         pc[d] \in {"row", "handling"}, pc' = [pc EXCEPT ![d] = "row"],
         cg' = [cg EXCEPT ![i] = "null"], todo' = [todo EXCEPT ![d] = @ \ {i}],
         UNCHANGED <<stored, written, batch>>
  PROVE  ClaimDiscipline'
<1> USE DEF TypeOK
<1>1. i \in todo[d] /\ cg[i] = "claimed" /\ OwnsLoopRows(d)
  BY DEF ClaimDiscipline, OwnsLoopRows, At
<1>2. WrittenIsRecorded' /\ OnlyStoredRows'
  BY <1>1 DEF ClaimDiscipline, WrittenIsRecorded, OnlyStoredRows
<1>3. ASSUME NEW e \in Drain PROVE LocksFreeRows(e)'
  BY DEF ClaimDiscipline, LocksFreeRows
<1>4. ASSUME NEW e \in Drain PROVE OwnsLoopRows(e)'
  <2>1. CASE e = d
    BY <1>1, <2>1 DEF OwnsLoopRows
  <2>2. CASE e # d
    BY <1>1, <2>2, OthersKeepTheirRows DEF OwnsLoopRows
  <2> QED
    BY <2>1, <2>2
<1> QED
  BY <1>2, <1>3, <1>4 DEF ClaimDiscipline

\* A drain that gives up its pass leaves its claims behind in the table.
LEMMA ForgetKeepsDiscipline ==
  ASSUME TypeOK, ClaimDiscipline, NEW d \in Drain, Forget(d), UNCHANGED table
  PROVE  ClaimDiscipline'
<1> USE DEF TypeOK, Forget, table
<1>1. WrittenIsRecorded' /\ OnlyStoredRows'
  BY DEF ClaimDiscipline, WrittenIsRecorded, OnlyStoredRows
<1>2. ASSUME NEW e \in Drain PROVE LocksFreeRows(e)'
  BY DEF ClaimDiscipline, LocksFreeRows
<1>3. ASSUME NEW e \in Drain PROVE OwnsLoopRows(e)'
  <2>1. CASE e = d
    BY <2>1 DEF OwnsLoopRows
  <2>2. CASE e # d
    BY <2>2, OthersKeepTheirRows
  <2> QED
    BY <2>1, <2>2
<1> QED
  BY <1>1, <1>2, <1>3 DEF ClaimDiscipline

\* The commit of one signal: the row the drain is at gets its node, once.
LEMMA MaterializeKeepsDiscipline ==
  ASSUME TypeOK, ClaimDiscipline, NEW d \in Drain, NEW i \in Rows, Materialize(d, i)
  PROVE  ClaimDiscipline'
<1> USE DEF TypeOK
<1>1. /\ pc[d] = "row" /\ pc' = [pc EXCEPT ![d] = "committed"]
      /\ cg' = [cg EXCEPT ![i] = "node"]
      /\ written' = [written EXCEPT ![i] = @ + 1]
      /\ UNCHANGED <<stored, batch, todo>>
      /\ i \in todo[d] /\ At(d, i)
  BY DEF Materialize, Goto, local, At
<1>2. cg[i] = "claimed" /\ OwnsLoopRows(d)
  BY <1>1 DEF ClaimDiscipline, OwnsLoopRows
<1>3. written[i] = 0
  BY <1>2 DEF ClaimDiscipline, WrittenIsRecorded
<1>4. WrittenIsRecorded' /\ OnlyStoredRows'
  BY <1>1, <1>2, <1>3 DEF ClaimDiscipline, WrittenIsRecorded, OnlyStoredRows
<1>5. ASSUME NEW e \in Drain PROVE LocksFreeRows(e)'
  BY <1>1, <1>2 DEF ClaimDiscipline, LocksFreeRows
<1>6. ASSUME NEW e \in Drain PROVE OwnsLoopRows(e)'
  <2>1. CASE e = d
    <3>1. \A j \in todo[d] : At(d, j)' <=> j = i
      BY <1>1, AtIsUnique DEF At
    <3> QED
      BY <1>1, <1>2, <2>1, <3>1 DEF OwnsLoopRows
  <2>2. CASE e # d
    <3>1. todo[d] \cap todo[e] = {}
      BY <1>2, <2>2 DEF OwnsLoopRows
    <3>2. \A j \in todo[e] : cg'[j] = cg[j]
      BY <1>1, <3>1
    <3> QED
      BY <1>1, <2>2, <3>1, <3>2, OthersKeepTheirRows
  <2> QED
    BY <2>1, <2>2
<1> QED
  BY <1>4, <1>5, <1>6 DEF ClaimDiscipline

\* After the reads that follow its commit the row leaves the loop.
LEMMA ReadBackKeepsDiscipline ==
  ASSUME TypeOK, ClaimDiscipline, NEW d \in Drain, NEW i \in Rows, ReadBack(d, i)
  PROVE  ClaimDiscipline'
<1> USE DEF TypeOK
<1>1. /\ pc[d] = "committed" /\ pc' = [pc EXCEPT ![d] = "row"]
      /\ todo' = [todo EXCEPT ![d] = @ \ {i}]
      /\ UNCHANGED <<stored, cg, written, batch>>
      /\ At(d, i)
  BY DEF ReadBack, Goto, table
<1>2. WrittenIsRecorded' /\ OnlyStoredRows'
  BY <1>1 DEF ClaimDiscipline, WrittenIsRecorded, OnlyStoredRows
<1>3. ASSUME NEW e \in Drain PROVE LocksFreeRows(e)'
  BY <1>1 DEF ClaimDiscipline, LocksFreeRows
<1>4. OwnsLoopRows(d)
  BY DEF ClaimDiscipline
<1>5. ASSUME NEW e \in Drain PROVE OwnsLoopRows(e)'
  <2>1. CASE e = d
    <3>1. \A j \in todo[d] : At(d, j) => j = i
      BY <1>1, AtIsUnique
    <3> QED
      BY <1>1, <1>4, <2>1, <3>1 DEF OwnsLoopRows
  <2>2. CASE e # d
    BY <1>1, <1>4, <2>2, OthersKeepTheirRows DEF OwnsLoopRows
  <2> QED
    BY <2>1, <2>2
<1> QED
  BY <1>2, <1>3, <1>5 DEF ClaimDiscipline

\* Steps that change neither the table nor a batch nor a loop: where the drain is
\* in the pass matters only for the rows it still has.
LEMMA LocalStepKeepsDiscipline ==
  ASSUME TypeOK, ClaimDiscipline, NEW d \in Drain, NEW to \in PC, to # "selected",
         pc[d] # "committed", pc' = [pc EXCEPT ![d] = to],
         todo[d] # {} => to = "handling",
         UNCHANGED <<stored, cg, written, batch, todo>>
  PROVE  ClaimDiscipline'
<1> USE DEF TypeOK
<1>1. WrittenIsRecorded' /\ OnlyStoredRows'
  BY DEF ClaimDiscipline, WrittenIsRecorded, OnlyStoredRows
<1>2. ASSUME NEW e \in Drain PROVE LocksFreeRows(e)'
  BY DEF ClaimDiscipline, LocksFreeRows
<1>3. ASSUME NEW e \in Drain PROVE OwnsLoopRows(e)'
  <2>1. OwnsLoopRows(d)
    BY DEF ClaimDiscipline
  <2>2. CASE e = d
    BY <2>1, <2>2 DEF OwnsLoopRows
  <2>3. CASE e # d
    BY <2>1, <2>3, OthersKeepTheirRows DEF OwnsLoopRows
  <2> QED
    BY <2>2, <2>3
<1> QED
  BY <1>1, <1>2, <1>3 DEF ClaimDiscipline

\* SKIP LOCKED: a batch is disjoint from every batch that is locked.
LEMMA SelectKeepsDiscipline ==
  ASSUME TypeOK, ClaimDiscipline, NEW d \in Drain, Select(d)
  PROVE  ClaimDiscipline'
<1> USE DEF TypeOK
<1>1. /\ pc[d] = "idle" /\ pc' = [pc EXCEPT ![d] = "selected"]
      /\ UNCHANGED <<stored, cg, written, todo>>
  BY DEF Select, Goto, table
<1>2. /\ batch' = [batch EXCEPT ![d] = batch'[d]]
      /\ \A i \in batch'[d] : i <= stored /\ cg[i] = "null" /\ i \notin Locked
  BY BatchIsFree
<1>3. \A e \in Drain : pc[e] = "selected" => batch[e] \cap batch'[d] = {}
  BY <1>2 DEF Locked
<1>4. WrittenIsRecorded' /\ OnlyStoredRows'
  BY <1>1 DEF ClaimDiscipline, WrittenIsRecorded, OnlyStoredRows
<1>5. ASSUME NEW e \in Drain PROVE LocksFreeRows(e)'
  <2>1. CASE e = d
    BY <1>1, <1>2, <1>3, <2>1 DEF LocksFreeRows
  <2>2. CASE e # d
    BY <1>1, <1>2, <1>3, <2>2 DEF ClaimDiscipline, LocksFreeRows
  <2> QED
    BY <2>1, <2>2
<1>6. ASSUME NEW e \in Drain PROVE OwnsLoopRows(e)'
  <2>1. OwnsLoopRows(e) /\ OwnsLoopRows(d)
    BY DEF ClaimDiscipline
  <2> QED
    BY <1>1, <2>1 DEF OwnsLoopRows, At
<1> QED
  BY <1>4, <1>5, <1>6 DEF ClaimDiscipline

\* A new row is queued and no drain has it.
LEMMA StoreKeepsDiscipline ==
  ASSUME TypeOK, ClaimDiscipline, Store
  PROVE  ClaimDiscipline'
<1> USE DEF TypeOK
<1>1. stored' = stored + 1 /\ stored \in Nat /\ UNCHANGED <<cg, written, pc, batch, todo>>
  BY PipelineAssumption DEF Store, local
<1>2. WrittenIsRecorded' /\ OnlyStoredRows'
  BY <1>1, PipelineAssumption DEF ClaimDiscipline, WrittenIsRecorded, OnlyStoredRows, Rows
<1>3. ASSUME NEW e \in Drain PROVE LocksFreeRows(e)'
  BY <1>1, PipelineAssumption DEF ClaimDiscipline, LocksFreeRows, Rows
<1>4. ASSUME NEW e \in Drain PROVE OwnsLoopRows(e)'
  BY <1>1 DEF ClaimDiscipline, OwnsLoopRows, At
<1> QED
  BY <1>2, <1>3, <1>4 DEF ClaimDiscipline

\* The claim discipline is inductive while the reads after a commit succeed.
LEMMA DisciplineInit == Init => ClaimDiscipline
  BY DEF Init, ClaimDiscipline, WrittenIsRecorded, OnlyStoredRows, LocksFreeRows, OwnsLoopRows

LEMMA DisciplineNext ==
  ASSUME TypeOK, ClaimDiscipline, [Next]_vars, "read" \notin Faults
  PROVE  ClaimDiscipline'
<1>1. CASE Store
  BY <1>1, StoreKeepsDiscipline
<1>2. ASSUME NEW d \in Drain, Select(d) PROVE ClaimDiscipline'
  BY <1>2, SelectKeepsDiscipline
<1>3. ASSUME NEW d \in Drain, Step(d) PROVE ClaimDiscipline'
  <2>1. CASE Claim(d)
    BY <2>1, ClaimKeepsDiscipline
  <2>2. ASSUME NEW i \in Rows, Materialize(d, i) PROVE ClaimDiscipline'
    BY <2>2, MaterializeKeepsDiscipline
  <2>3. ASSUME NEW i \in Rows, EnrichFails(d, i) PROVE ClaimDiscipline'
    BY <2>3, PutBackKeepsDiscipline DEF EnrichFails, Goto
  <2>4. ASSUME NEW i \in Rows, ReadBack(d, i) PROVE ClaimDiscipline'
    BY <2>4, ReadBackKeepsDiscipline
  <2>5. ASSUME NEW i \in Rows, Release(d, i) PROVE ClaimDiscipline'
    BY <2>5, PutBackKeepsDiscipline DEF Release, Goto
  <2>6. CASE HandlerRaises(d) \/ Return(d)
    BY <2>6, ForgetKeepsDiscipline DEF HandlerRaises, Return
  <2>7. todo[d] # {} => pc[d] \in {"row", "committed", "handling"}
    BY DEF ClaimDiscipline, OwnsLoopRows
  <2>8. CASE EndLoop(d)
    BY <2>8, LocalStepKeepsDiscipline DEF EndLoop, Goto, table, PC
  <2>9. CASE RowRaises(d)
    BY <2>9, LocalStepKeepsDiscipline DEF RowRaises, Goto, table, local, PC
  <2>10. ASSUME NEW c \in Customer, RebuildRead(d, c) PROVE ClaimDiscipline'
    BY <2>7, <2>10, LocalStepKeepsDiscipline DEF RebuildRead, Goto, table, PC
  <2>11. CASE RebuildCommit(d) \/ RebuildRaises(d)
    BY <2>7, <2>11, LocalStepKeepsDiscipline DEF RebuildCommit, RebuildRaises, Goto, table, PC
  <2>12. ~ReadBackRaises(d)
    BY DEF ReadBackRaises, Fault
  <2> QED
    BY <1>3, <2>1, <2>2, <2>3, <2>4, <2>5, <2>6, <2>8, <2>9, <2>10, <2>11, <2>12 DEF Step
<1>4. ASSUME NEW d \in Drain, Crash(d) PROVE ClaimDiscipline'
  BY <1>4, ForgetKeepsDiscipline DEF Crash
<1>5. CASE UNCHANGED vars
  BY <1>5 DEF vars, ClaimDiscipline, WrittenIsRecorded, OnlyStoredRows, LocksFreeRows,
              OwnsLoopRows, At
<1> QED
  BY <1>1, <1>2, <1>3, <1>4, <1>5 DEF Next

\* Ownership of every row is exclusive, whatever crashes and whatever the model
\* refuses, as long as the reads after a commit succeed.
THEOREM ClaimDisciplineHolds ==
  ASSUME "read" \notin Faults
  PROVE  Spec => []ClaimDiscipline
<1>1. TypeOK /\ ClaimDiscipline /\ [Next]_vars => ClaimDiscipline'
  BY DisciplineNext
<1> QED
  BY <1>1, DisciplineInit, TypeCorrect, PTL DEF Spec

\* No communication is turned into evidence twice.
THEOREM AtMostOnceHolds ==
  ASSUME "read" \notin Faults
  PROVE  Spec => []AtMostOnce
<1>1. ClaimDiscipline => AtMostOnce
  BY DEF ClaimDiscipline, WrittenIsRecorded, AtMostOnce
<1> QED
  BY <1>1, ClaimDisciplineHolds, PTL

\* Evidence stays attached to its communication: the node a row points to is not
\* dropped from the row by a later step (pipeline.py:432-438).
LEMMA NodeKeptStep ==
  ASSUME TypeOK, ClaimDiscipline, [Next]_vars, "read" \notin Faults,
         NEW i \in Rows, cg[i] = "node"
  PROVE  cg'[i] = "node"
<1> USE DEF TypeOK, table, Forget
<1>1. ASSUME NEW d \in Drain, NEW j \in Rows, EnrichFails(d, j) \/ Release(d, j)
      PROVE  cg'[i] = "node"
  <2>1. j \in todo[d] /\ pc[d] # "committed" /\ cg' = [cg EXCEPT ![j] = "null"]
    BY <1>1 DEF EnrichFails, Release, At, Goto
  <2>2. cg[j] = "claimed"
    BY <2>1 DEF ClaimDiscipline, OwnsLoopRows
  <2> QED
    BY <2>1, <2>2
<1>2. ASSUME NEW d \in Drain, Claim(d) PROVE cg'[i] = "node"
  <2>1. i \notin batch[d]
    BY <1>2 DEF ClaimDiscipline, LocksFreeRows, Claim, Goto
  <2> QED
    BY <1>2, <2>1 DEF Claim
<1>3. ASSUME NEW d \in Drain, NEW j \in Rows, Materialize(d, j) PROVE cg'[i] = "node"
  BY <1>3 DEF Materialize
<1>4. CASE UNCHANGED cg
  BY <1>4
<1> QED
  BY <1>1, <1>2, <1>3, <1>4
  DEF Next, vars, Store, Select, Step, EndLoop, Return, ReadBack, RebuildRead, RebuildCommit,
      RowRaises, ReadBackRaises, HandlerRaises, RebuildRaises, Crash

\* The action property NodeKept, for any constants.
THEOREM NodeKeptHolds ==
  ASSUME "read" \notin Faults
  PROVE  Spec => NodeKept
<1>1. TypeOK /\ ClaimDiscipline /\ [Next]_vars
        => [\A i \in Rows : cg[i] = "node" => cg'[i] = "node"]_cg
  BY NodeKeptStep
<1> QED
  BY <1>1, ClaimDisciplineHolds, TypeCorrect, PTL DEF Spec, NodeKept

-----------------------------------------------------------------------------
(***************************************************************************)
(* The pipeline implements Evidence.                                       *)
(***************************************************************************)
\* The status of a row depends on its own columns only.
LEMMA StatusCases ==
  ASSUME TypeOK, NEW i \in Rows
  PROVE  /\ i > stored => StatusOf(i) = "absent"
         /\ i <= stored /\ cg[i] = "null" => StatusOf(i) = "queued"
         /\ i <= stored /\ cg[i] = "claimed" => StatusOf(i) = "held"
         /\ i <= stored /\ cg[i] = "node" => StatusOf(i) = "evidence"
<1>1. i \in Nat /\ stored \in Nat /\ (i > stored => ~(i <= stored))
  BY PipelineAssumption DEF TypeOK, Rows
<1> QED
  BY <1>1 DEF StatusOf

\* The same in the next state.
LEMMA StatusCasesNext ==
  ASSUME TypeOK', NEW i \in Rows
  PROVE  /\ i > stored' => StatusOf(i)' = "absent"
         /\ i <= stored' /\ cg'[i] = "null" => StatusOf(i)' = "queued"
         /\ i <= stored' /\ cg'[i] = "claimed" => StatusOf(i)' = "held"
         /\ i <= stored' /\ cg'[i] = "node" => StatusOf(i)' = "evidence"
<1>1. i \in Nat /\ stored' \in Nat /\ (i > stored' => ~(i <= stored'))
  BY PipelineAssumption DEF TypeOK, Rows
<1> QED
  BY <1>1 DEF StatusOf

\* The pipeline starts where Evidence starts.
LEMMA RefinementInit == Init => E!Init
<1> SUFFICES ASSUME Init PROVE E!Init
  OBVIOUS
<1>1. TypeOK
  BY TypeInit
<1>2. \A i \in Rows : i > stored
  BY PipelineAssumption DEF Init, Rows
<1>3. \A i \in Rows : StatusOf(i) = "absent"
  BY <1>1, <1>2, StatusCases
<1> QED
  BY <1>3 DEF E!Init, Init

\* A step that leaves cg, stored and written alone is invisible to Evidence.
LEMMA RefinementStutter ==
  ASSUME UNCHANGED <<stored, cg, written>>
  PROVE  UNCHANGED E!vars
<1>1. \A i \in Rows : StatusOf(i)' = StatusOf(i)
  BY DEF StatusOf
<1> QED
  BY <1>1 DEF E!vars

\* A release is a PutBack.
LEMMA RefinementPutBack ==
  ASSUME TypeOK, TypeOK', ClaimDiscipline, NEW d \in Drain, NEW i \in Rows, At(d, i),
         pc[d] # "committed", cg' = [cg EXCEPT ![i] = "null"], UNCHANGED <<stored, written>>
  PROVE  E!PutBack(i)
<1>1. cg[i] = "claimed" /\ i <= stored
  BY DEF TypeOK, ClaimDiscipline, OwnsLoopRows, OnlyStoredRows, At
<1>2. StatusOf(i) = "held" /\ StatusOf(i)' = "queued"
  BY <1>1, StatusCases, StatusCasesNext DEF TypeOK
<1>3. \A j \in Rows : j # i => StatusOf(j)' = StatusOf(j)
  BY DEF StatusOf, TypeOK
<1> QED
  BY <1>2, <1>3 DEF E!PutBack

\* The commit of one signal is a Produce.
LEMMA RefinementProduce ==
  ASSUME TypeOK, TypeOK', ClaimDiscipline, NEW d \in Drain, NEW i \in Rows, Materialize(d, i)
  PROVE  E!Produce(i)
<1>1. cg[i] = "claimed" /\ i <= stored
  BY DEF TypeOK, ClaimDiscipline, OwnsLoopRows, OnlyStoredRows, At, Materialize, Goto
<1>2. /\ cg' = [cg EXCEPT ![i] = "node"] /\ UNCHANGED stored
      /\ written' = [written EXCEPT ![i] = @ + 1]
  BY DEF Materialize
<1>3. StatusOf(i) = "held" /\ StatusOf(i)' = "evidence"
  BY <1>1, <1>2, StatusCases, StatusCasesNext DEF TypeOK
<1>4. \A j \in Rows : j # i => StatusOf(j)' = StatusOf(j)
  BY <1>2 DEF StatusOf, TypeOK
<1> QED
  BY <1>2, <1>3, <1>4 DEF E!Produce

\* The claim commit is a Take of the batch.
LEMMA RefinementTake ==
  ASSUME TypeOK, TypeOK', ClaimDiscipline, NEW d \in Drain, Claim(d)
  PROVE  [E!Next]_E!vars
<1>1. /\ cg' = [i \in Rows |-> IF i \in batch[d] THEN "claimed" ELSE cg[i]]
      /\ UNCHANGED <<stored, written>>
  BY DEF Claim
<1>2. batch[d] \subseteq Rows /\ \A i \in batch[d] : cg[i] = "null" /\ i <= stored
  BY DEF TypeOK, Claim, Goto, ClaimDiscipline, LocksFreeRows
<1>3. \A i \in batch[d] : StatusOf(i) = "queued" /\ StatusOf(i)' = "held"
  BY <1>1, <1>2, StatusCases, StatusCasesNext
<1>4. \A i \in Rows \ batch[d] : StatusOf(i)' = StatusOf(i)
  BY <1>1 DEF StatusOf
<1>5. CASE batch[d] = {}
  BY <1>1, <1>4, <1>5 DEF E!vars
<1>6. CASE batch[d] # {}
  <2>1. E!Take(batch[d])
    BY <1>1, <1>2, <1>3, <1>4, <1>6 DEF E!Take
  <2> QED
    BY <1>2, <2>1 DEF E!Next
<1> QED
  BY <1>5, <1>6

\* ingest() is a Submit of the next id.
LEMMA RefinementSubmit ==
  ASSUME TypeOK, TypeOK', ClaimDiscipline, Store
  PROVE  E!Next
<1>1. stored \in Nat /\ stored + 1 \in Rows /\ stored' = stored + 1 /\ UNCHANGED <<cg, written>>
  BY PipelineAssumption DEF Store, TypeOK, Rows
<1>2. PICK k \in Rows : k = stored + 1
  BY <1>1
<1>3. cg[k] = "null" /\ cg'[k] = "null" /\ k > stored /\ k <= stored'
  BY <1>1, <1>2 DEF TypeOK, ClaimDiscipline, OnlyStoredRows
<1>4. StatusOf(k) = "absent" /\ StatusOf(k)' = "queued"
  BY <1>3, StatusCases, StatusCasesNext
<1>5. ASSUME NEW i \in Rows, i # k PROVE StatusOf(i)' = StatusOf(i)
  <2>1. (i > stored /\ i > stored') \/ (i <= stored /\ i <= stored')
    BY <1>1, <1>2, <1>5 DEF Rows
  <2>2. cg'[i] = cg[i] /\ cg[i] \in {"null", "claimed", "node"}
    BY <1>1 DEF TypeOK
  <2> QED
    BY <2>1, <2>2, StatusCases, StatusCasesNext
<1>6. E!Submit(k)
  BY <1>1, <1>4, <1>5 DEF E!Submit
<1> QED
  BY <1>6 DEF E!Next

\* Every step of the pipeline is a step of Evidence or invisible to it.
LEMMA RefinementNext ==
  ASSUME TypeOK, TypeOK', ClaimDiscipline, [Next]_vars
  PROVE  [E!Next]_E!vars
<1> USE DEF table, Forget
<1>1. CASE Store
  BY <1>1, RefinementSubmit
<1>2. ASSUME NEW d \in Drain, Step(d) PROVE [E!Next]_E!vars
  <2>1. CASE Claim(d)
    BY <2>1, RefinementTake
  <2>2. ASSUME NEW i \in Rows, Materialize(d, i) PROVE [E!Next]_E!vars
    BY <2>2, RefinementProduce DEF E!Next
  <2>3. ASSUME NEW i \in Rows, EnrichFails(d, i) \/ Release(d, i) PROVE [E!Next]_E!vars
    BY <2>3, RefinementPutBack DEF EnrichFails, Release, Goto, E!Next
  <2>4. CASE UNCHANGED <<stored, cg, written>>
    BY <2>4, RefinementStutter
  <2> QED
    BY <1>2, <2>1, <2>2, <2>3, <2>4
    DEF Step, EndLoop, Return, ReadBack, RebuildRead, RebuildCommit,
        RowRaises, ReadBackRaises, HandlerRaises, RebuildRaises
<1>3. CASE UNCHANGED <<stored, cg, written>>
  BY <1>3, RefinementStutter
<1> QED
  BY <1>1, <1>2, <1>3 DEF Next, Select, Crash, vars

\* The pipeline implements the abstract specification, for any constants, as long
\* as the reads after a commit succeed.
THEOREM ImplementsEvidenceHolds ==
  ASSUME "read" \notin Faults
  PROVE  Spec => ImplementsEvidence
<1>1. TypeOK /\ TypeOK' /\ ClaimDiscipline /\ [Next]_vars => [E!Next]_E!vars
  BY RefinementNext
<1> QED
  BY <1>1, RefinementInit, ClaimDisciplineHolds, TypeCorrect, PTL
  DEF Spec, ImplementsEvidence, E!Spec

-----------------------------------------------------------------------------
(***************************************************************************)
(* What a pass holds and what it shows, also when a read after a commit    *)
(* raises.  The claim discipline does not survive that, so this is a       *)
(* weaker one: a drain in its handler may be at a row that is evidence.    *)
(***************************************************************************)
HoldsLoopRows(d) ==
  /\ todo[d] # {} => pc[d] \in {"row", "committed", "handling"}
  /\ \A i \in todo[d] :
       cg[i] \in IF ~At(d, i) THEN {"claimed"}
                 ELSE IF pc[d] = "committed" THEN {"node"}
                 ELSE IF pc[d] = "handling" THEN {"node", "claimed"} ELSE {"claimed"}
  /\ \A e \in Drain : e # d => todo[d] \cap todo[e] = {}

Holding == \A d \in Drain : LocksFreeRows(d) /\ HoldsLoopRows(d)

\* A step of d that leaves the rows of the others alone.
LEMMA OthersHold ==
  ASSUME TypeOK, Holding, NEW d \in Drain, NEW e \in Drain, e # d,
         \A f \in Drain \ {d} : pc'[f] = pc[f] /\ todo'[f] = todo[f] /\ batch'[f] = batch[f],
         stored' = stored, \A i \in todo[e] : cg'[i] = cg[i] /\ i \notin todo'[d],
         pc[e] = "selected" => \A i \in batch[e] : cg'[i] = cg[i],
         pc'[d] = "selected" /\ pc[e] = "selected" => batch'[d] \cap batch[e] = {}
  PROVE  LocksFreeRows(e)' /\ HoldsLoopRows(e)'
<1>1. LocksFreeRows(e) /\ HoldsLoopRows(e)
  BY DEF Holding
<1>2. \A i \in todo[e] : At(e, i)' <=> At(e, i)
  BY DEF At
<1>3. HoldsLoopRows(e)'
  BY <1>1, <1>2 DEF HoldsLoopRows
<1>4. LocksFreeRows(e)'
  BY <1>1 DEF LocksFreeRows
<1> QED
  BY <1>3, <1>4

\* What one drain does, as the others see it.
LEMMA DrainStep ==
  ASSUME TypeOK, NEW d \in Drain, Select(d) \/ Step(d) \/ Crash(d)
  PROVE  /\ stored' = stored
         /\ \A e \in Drain \ {d} :
              /\ pc'[e] = pc[e] /\ todo'[e] = todo[e] /\ batch'[e] = batch[e]
              /\ done'[e] = done[e] /\ building'[e] = building[e] /\ seen'[e] = seen[e]
BY DEF TypeOK, Goto, table, local, Forget, Select, Step, Claim, EndLoop, Return, Materialize,
       EnrichFails, ReadBack, Release, RebuildRead, RebuildCommit, RowRaises, ReadBackRaises,
       HandlerRaises, RebuildRaises, Crash

\* The row a drain is at, and what is known of the others.
LEMMA AtRow ==
  ASSUME TypeOK, Holding, NEW d \in Drain, NEW i, At(d, i)
  PROVE  /\ i \in todo[d] /\ i \in Rows /\ cg[i] # "null"
         /\ \A j \in todo[d] : j # i => cg[j] = "claimed" /\ ~At(d, j)
         /\ \A e \in Drain \ {d} : i \notin todo[e]
         /\ \A e \in Drain : pc[e] = "selected" => i \notin batch[e]
<1>1. HoldsLoopRows(d) /\ i \in todo[d] /\ i \in Rows
  BY DEF Holding, At, TypeOK
<1>2. cg[i] # "null"
  BY <1>1 DEF HoldsLoopRows
<1>3. \A j \in todo[d] : j # i => ~At(d, j)
  BY AtIsUnique
<1> QED
  BY <1>1, <1>2, <1>3 DEF HoldsLoopRows, Holding, LocksFreeRows

LEMMA HoldingNext ==
  ASSUME TypeOK, Holding, [Next]_vars
  PROVE  Holding'
<1> USE DEF Goto, table, local, Forget
<1>1. CASE UNCHANGED <<stored, cg, pc, batch, todo>>
  BY <1>1 DEF Holding, LocksFreeRows, HoldsLoopRows, At
<1>2. CASE Store
  <2>1. stored' = stored + 1 /\ stored \in Nat /\ UNCHANGED <<cg, pc, batch, todo>>
    BY <1>2, PipelineAssumption DEF Store, TypeOK
  <2>2. \A d \in Drain : HoldsLoopRows(d)'
    BY <2>1 DEF Holding, HoldsLoopRows, At
  <2>3. \A d \in Drain : \A i \in batch[d] : i \in Nat
    BY PipelineAssumption DEF TypeOK, Rows
  <2>4. \A d \in Drain : LocksFreeRows(d)'
    BY <2>1, <2>3 DEF Holding, LocksFreeRows
  <2> QED
    BY <2>2, <2>4 DEF Holding
<1>3. ASSUME NEW d \in Drain, Select(d) PROVE Holding'
  <2>1. /\ pc[d] = "idle" /\ pc'[d] = "selected" /\ UNCHANGED <<stored, cg, todo>>
        /\ \A e \in Drain \ {d} : pc'[e] = pc[e] /\ batch'[e] = batch[e]
    BY <1>3, DrainStep DEF Select, TypeOK
  <2>2. \A i \in batch'[d] : i <= stored /\ cg[i] = "null" /\ i \notin Locked
    BY <1>3, BatchIsFree
  <2>3. \A e \in Drain : pc[e] = "selected" => batch[e] \cap batch'[d] = {}
    BY <2>2 DEF Locked
  <2>4. HoldsLoopRows(d)' /\ LocksFreeRows(d)'
    BY <2>1, <2>2, <2>3 DEF Holding, HoldsLoopRows, LocksFreeRows, At
  <2>5. ASSUME NEW e \in Drain, e # d PROVE HoldsLoopRows(e)' /\ LocksFreeRows(e)'
    <3>1. \A i \in todo[e] : i \notin todo[d]
      BY <2>5 DEF Holding, HoldsLoopRows
    <3> QED
      BY <2>1, <2>3, <2>5, <3>1, OthersHold
  <2> QED
    BY <2>4, <2>5 DEF Holding
<1>4. ASSUME NEW d \in Drain, Claim(d) PROVE Holding'
  <2>1. /\ pc[d] = "selected" /\ pc'[d] = "row" /\ todo'[d] = batch[d] /\ stored' = stored
        /\ \A i \in Rows : cg'[i] = IF i \in batch[d] THEN "claimed" ELSE cg[i]
        /\ \A e \in Drain \ {d} : pc'[e] = pc[e] /\ batch'[e] = batch[e] /\ todo'[e] = todo[e]
        /\ batch[d] \subseteq Rows
    BY <1>4 DEF Claim, TypeOK
  <2>2. \A i \in batch[d] : cg[i] = "null"
    BY <2>1 DEF Holding, LocksFreeRows
  <2>3. ASSUME NEW e \in Drain, NEW i \in todo[e] PROVE i \in Rows /\ i \notin batch[d]
    BY <2>2, <2>3, AtRow DEF Holding, HoldsLoopRows, TypeOK
  <2>4. HoldsLoopRows(d)' /\ LocksFreeRows(d)'
    <3>1. \A i \in batch[d] : cg'[i] = "claimed"
      BY <2>1
    <3>2. \A e \in Drain : e # d => batch[d] \cap todo[e] = {}
      BY <2>3
    <3> QED
      BY <2>1, <3>1, <3>2 DEF HoldsLoopRows, LocksFreeRows
  <2>5. ASSUME NEW e \in Drain, e # d PROVE HoldsLoopRows(e)' /\ LocksFreeRows(e)'
    <3>1. pc[e] = "selected" => \A i \in batch[e] : i \in Rows /\ i \notin batch[d]
      BY <2>1, <2>5 DEF Holding, LocksFreeRows, TypeOK
    <3> QED
      BY <2>1, <2>3, <2>5, <3>1, OthersHold
  <2> QED
    BY <2>4, <2>5 DEF Holding
<1>5. ASSUME NEW d \in Drain, NEW i \in Rows, Materialize(d, i) PROVE Holding'
  <2>1. /\ At(d, i) /\ pc[d] = "row" /\ pc'[d] = "committed" /\ cg' = [cg EXCEPT ![i] = "node"]
        /\ UNCHANGED <<stored, batch, todo>> /\ \A e \in Drain \ {d} : pc'[e] = pc[e]
    BY <1>5 DEF Materialize, TypeOK
  <2>2. /\ i \in todo[d] /\ \A j \in todo[d] : j # i => cg[j] = "claimed" /\ ~At(d, j)
        /\ \A e \in Drain \ {d} : i \notin todo[e]
        /\ \A e \in Drain : pc[e] = "selected" => i \notin batch[e]
    BY <2>1, AtRow
  <2>3. HoldsLoopRows(d)' /\ LocksFreeRows(d)'
    <3>1. \A j \in todo[d] : (At(d, j)' <=> j = i) /\ cg'[j] = IF j = i THEN "node" ELSE "claimed"
      BY <2>1, <2>2 DEF At, TypeOK
    <3> QED
      BY <2>1, <3>1 DEF Holding, HoldsLoopRows, LocksFreeRows
  <2>4. ASSUME NEW e \in Drain, e # d PROVE HoldsLoopRows(e)' /\ LocksFreeRows(e)'
    <3>1. \A j \in todo[e] : j \notin todo[d]
      BY <2>4 DEF Holding, HoldsLoopRows
    <3> QED
      BY <2>1, <2>2, <2>4, <3>1, OthersHold DEF TypeOK
  <2> QED
    BY <2>3, <2>4 DEF Holding
<1>6. ASSUME NEW d \in Drain, NEW i \in Rows, EnrichFails(d, i) \/ ReadBack(d, i) \/ Release(d, i)
      PROVE  Holding'
  <2>1. /\ At(d, i) /\ pc'[d] = "row" /\ \A j \in Rows : j # i => cg'[j] = cg[j]
        /\ todo'[d] = todo[d] \ {i} /\ UNCHANGED <<stored, batch>>
        /\ \A e \in Drain \ {d} : pc'[e] = pc[e] /\ todo'[e] = todo[e]
    BY <1>6 DEF EnrichFails, ReadBack, Release, TypeOK
  <2>2. /\ i \in todo[d] /\ \A j \in todo[d] : j # i => cg[j] = "claimed" /\ ~At(d, j)
        /\ \A e \in Drain \ {d} : i \notin todo[e]
        /\ \A e \in Drain : pc[e] = "selected" => i \notin batch[e]
    BY <2>1, AtRow
  <2>3. HoldsLoopRows(d)' /\ LocksFreeRows(d)'
    <3>1. \A j \in todo'[d] : cg'[j] = "claimed"
      BY <2>1, <2>2 DEF TypeOK
    <3>2. \A e \in Drain : e # d => todo'[d] \cap todo'[e] = {}
      BY <2>1 DEF Holding, HoldsLoopRows
    <3> QED
      BY <2>1, <3>1, <3>2 DEF HoldsLoopRows, LocksFreeRows
  <2>4. ASSUME NEW e \in Drain, e # d PROVE HoldsLoopRows(e)' /\ LocksFreeRows(e)'
    <3>1. \A j \in todo[e] : j \notin todo'[d] /\ cg'[j] = cg[j]
      BY <2>1, <2>2, <2>4 DEF Holding, HoldsLoopRows, TypeOK
    <3>2. pc[e] = "selected" => \A j \in batch[e] : cg'[j] = cg[j]
      BY <2>1, <2>2 DEF TypeOK
    <3> QED
      BY <2>1, <2>4, <3>1, <3>2, OthersHold
  <2> QED
    BY <2>3, <2>4 DEF Holding
<1>7. ASSUME NEW d \in Drain, Forget(d), UNCHANGED <<stored, cg>> PROVE Holding'
  <2>1. /\ pc'[d] = "idle" /\ todo'[d] = {}
        /\ \A e \in Drain \ {d} : pc'[e] = pc[e] /\ todo'[e] = todo[e] /\ batch'[e] = batch[e]
    BY <1>7 DEF TypeOK
  <2>2. HoldsLoopRows(d)' /\ LocksFreeRows(d)'
    BY <2>1 DEF HoldsLoopRows, LocksFreeRows
  <2>3. ASSUME NEW e \in Drain, e # d PROVE HoldsLoopRows(e)' /\ LocksFreeRows(e)'
    BY <1>7, <2>1, <2>3, OthersHold
  <2> QED
    BY <2>2, <2>3 DEF Holding
<1>8. ASSUME NEW d \in Drain, UNCHANGED <<stored, cg, batch, todo>>,
             pc[d] \notin {"selected"}, pc'[d] # "selected",
             \A e \in Drain \ {d} : pc'[e] = pc[e],
             todo[d] = {} \/ pc'[d] = "handling"
      PROVE  Holding'
  <2>1. HoldsLoopRows(d)' /\ LocksFreeRows(d)'
    BY <1>8 DEF Holding, HoldsLoopRows, LocksFreeRows, At
  <2>2. ASSUME NEW e \in Drain, e # d PROVE HoldsLoopRows(e)' /\ LocksFreeRows(e)'
    <3>1. \A j \in todo[e] : j \notin todo[d]
      BY <2>2 DEF Holding, HoldsLoopRows
    <3> QED
      BY <1>8, <2>2, <3>1, OthersHold
  <2> QED
    BY <2>1, <2>2 DEF Holding
<1>9. ASSUME NEW d \in Drain, Step(d) PROVE Holding'
  <2>1. todo[d] # {} => pc[d] \in {"row", "committed", "handling"}
    BY DEF Holding, HoldsLoopRows
  <2>2. CASE EndLoop(d) \/ RowRaises(d) \/ ReadBackRaises(d) \/ RebuildCommit(d) \/ RebuildRaises(d)
    BY <1>8, <2>1, <2>2 DEF EndLoop, RowRaises, ReadBackRaises, RebuildCommit, RebuildRaises, TypeOK
  <2>3. ASSUME NEW c \in Customer, RebuildRead(d, c) PROVE Holding'
    BY <1>8, <2>1, <2>3 DEF RebuildRead, TypeOK
  <2>4. CASE Return(d) \/ HandlerRaises(d)
    BY <1>7, <2>4 DEF Return, HandlerRaises
  <2> QED
    BY <1>4, <1>5, <1>6, <1>9, <2>2, <2>3, <2>4 DEF Step
<1>10. ASSUME NEW d \in Drain, Crash(d) PROVE Holding'
  BY <1>7, <1>10 DEF Crash
<1> QED
  BY <1>1, <1>2, <1>3, <1>9, <1>10 DEF Next, vars

\* The rows are typed and held: the invariant the next two rest on.
LEMMA HoldingHolds == Spec => [](TypeOK /\ Holding)
<1>1. Init => Holding
  BY DEF Init, Holding, LocksFreeRows, HoldsLoopRows
<1>2. TypeOK /\ Holding /\ [Next]_vars => Holding'
  BY HoldingNext
<1> QED
  BY <1>1, <1>2, TypeCorrect, PTL DEF Spec

\* A claim has a holder.
Held == \A i \in Rows : cg[i] = "claimed" => \E d \in Drain : i \in todo[d]

LEMMA HeldNext ==
  ASSUME TypeOK, Holding, Held, [Next]_vars, Faults \cap {"handler", "crash"} = {}
  PROVE  Held'
<1> USE DEF Goto, table, local, Forget
<1>1. ASSUME NEW d \in Drain,
             \A e \in Drain : e # d => todo'[e] = todo[e],
             \A i \in Rows : cg'[i] = "claimed" => i \in todo'[d] \/ (cg[i] = "claimed" /\ i \notin todo[d])
      PROVE  Held'
  BY <1>1 DEF Held
<1>2. CASE UNCHANGED <<cg, todo>>
  BY <1>2 DEF Held
<1>3. ASSUME NEW d \in Drain, Claim(d) PROVE Held'
  BY <1>1, <1>3 DEF Claim, TypeOK, Holding, HoldsLoopRows
<1>4. ASSUME NEW d \in Drain, NEW i \in Rows,
             EnrichFails(d, i) \/ Release(d, i) \/ Materialize(d, i) \/ ReadBack(d, i)
      PROVE  Held'
  BY <1>1, <1>4 DEF EnrichFails, Release, Materialize, ReadBack, TypeOK, Holding,
                    HoldsLoopRows, At
<1>5. ASSUME NEW d \in Drain, Return(d) PROVE Held'
  <2>1. todo[d] = {}
    BY <1>5 DEF Return, Holding, HoldsLoopRows
  <2> QED
    BY <1>1, <1>5, <2>1 DEF Return, TypeOK
<1>6. ASSUME NEW d \in Drain, Step(d) PROVE Held'
  <2>1. ~HandlerRaises(d)
    BY DEF HandlerRaises, Fault
  <2> QED
    BY <1>2, <1>3, <1>4, <1>5, <1>6, <2>1
    DEF Step, EndLoop, RebuildRead, RebuildCommit, RowRaises, ReadBackRaises, RebuildRaises
<1>7. ASSUME NEW d \in Drain PROVE ~Crash(d)
  BY DEF Crash, Fault
<1> QED
  BY <1>2, <1>6, <1>7 DEF Next, vars, Store, Select

\* A row carries the claim sentinel only while one drain is on its way to deciding it,
\* for any number of drains, whatever the model refuses and wherever a row raises, as long
\* as no process stops and no commit of the handler raises (pipeline.py:376-382).
THEOREM ClaimHeldHolds ==
  ASSUME Faults \cap {"handler", "crash"} = {}
  PROVE  Spec => []ClaimHeld
<1>1. Init => Held
  BY DEF Init, Held
<1>2. TypeOK /\ Holding /\ Held /\ [Next]_vars => Held'
  BY HeldNext
<1>3. Holding /\ Held => ClaimHeld
  BY DEF Holding, HoldsLoopRows, Held, ClaimHeld
<1> QED
  BY <1>1, <1>2, <1>3, HoldingHolds, PTL DEF Spec

\* What a drain counts as done is evidence, nobody works on it any more, and what the
\* drain read for a rebuild has all of its own in it.
DoneIsEvidence(d) == \A i \in done[d] : cg[i] = "node" /\ \A e \in Drain : i \notin todo[e]

ReadsOwn(d) ==
  pc[d] = "write" => \A i \in done[d] : AccountOf[i] \in building[d] => i \in seen[d]

ShownInv == \A d \in Drain : DoneIsEvidence(d) /\ ReadsOwn(d)

\* Evidence that nobody works on is left alone.
LEMMA EvidenceStays ==
  ASSUME TypeOK, Holding, [Next]_vars, NEW i \in Rows, cg[i] = "node",
         \A e \in Drain : i \notin todo[e]
  PROVE  cg'[i] = "node" /\ \A e \in Drain : i \notin todo'[e]
<1> USE DEF TypeOK, table, local, Forget, Goto
<1>1. ASSUME NEW d \in Drain, Claim(d)
      PROVE  cg'[i] = "node" /\ \A e \in Drain : i \notin todo'[e]
  <2>1. i \notin batch[d]
    BY <1>1 DEF Holding, LocksFreeRows, Claim
  <2> QED
    BY <1>1, <2>1 DEF Claim
<1>2. ASSUME NEW d \in Drain, NEW j \in Rows,
             EnrichFails(d, j) \/ Release(d, j) \/ Materialize(d, j) \/ ReadBack(d, j)
      PROVE  cg'[i] = "node" /\ \A e \in Drain : i \notin todo'[e]
  BY <1>2 DEF EnrichFails, Release, Materialize, ReadBack, At
<1>3. ASSUME UNCHANGED cg, UNCHANGED todo \/ \E d \in Drain : Forget(d)
      PROVE  cg'[i] = "node" /\ \A e \in Drain : i \notin todo'[e]
  BY <1>3
<1> QED
  BY <1>1, <1>2, <1>3
  DEF Next, vars, Store, Select, Step, EndLoop, Return, RebuildRead, RebuildCommit, RowRaises,
      ReadBackRaises, HandlerRaises, RebuildRaises, Crash

\* A drain that counts no more rows as done, and is not just beginning to write.
LEMMA ShownKept ==
  ASSUME TypeOK, Holding, ShownInv, [Next]_vars, NEW d \in Drain, done'[d] \subseteq done[d],
         \/ pc'[d] # "write"
         \/ pc'[d] = pc[d] /\ building'[d] = building[d] /\ seen'[d] = seen[d]
  PROVE  DoneIsEvidence(d)' /\ ReadsOwn(d)'
<1>1. ASSUME NEW i \in done[d] PROVE cg'[i] = "node" /\ \A e \in Drain : i \notin todo'[e]
  BY EvidenceStays DEF TypeOK, ShownInv, DoneIsEvidence
<1>2. DoneIsEvidence(d)'
  BY <1>1 DEF DoneIsEvidence
<1>3. ReadsOwn(d)'
  BY DEF ShownInv, ReadsOwn
<1> QED
  BY <1>2, <1>3

LEMMA ShownNext ==
  ASSUME TypeOK, Holding, ShownInv, [Next]_vars
  PROVE  ShownInv'
<1> USE DEF Goto, table, local, Forget
<1>1. CASE UNCHANGED <<pc, done, building, seen>>
  BY <1>1, ShownKept DEF ShownInv
<1>2. ASSUME NEW d \in Drain, NEW i \in Rows, ReadBack(d, i) PROVE DoneIsEvidence(d)' /\ ReadsOwn(d)'
  <2>1. /\ pc[d] = "committed" /\ At(d, i) /\ cg' = cg /\ done'[d] = done[d] \cup {i}
        /\ pc'[d] = "row" /\ todo'[d] = todo[d] \ {i}
        /\ \A e \in Drain \ {d} : todo'[e] = todo[e]
    BY <1>2 DEF ReadBack, TypeOK
  <2>2. cg[i] = "node" /\ \A e \in Drain \ {d} : i \notin todo[e]
    BY <2>1, AtRow DEF Holding, HoldsLoopRows
  <2> QED
    BY <2>1, <2>2 DEF ShownInv, DoneIsEvidence, ReadsOwn
<1>3. ASSUME NEW d \in Drain, NEW c \in Customer, RebuildRead(d, c)
      PROVE  DoneIsEvidence(d)' /\ ReadsOwn(d)'
  <2>1. /\ UNCHANGED <<cg, done, todo>> /\ building'[d] = Touched(d, c)
        /\ seen'[d] = EvidenceOf(Touched(d, c))
    BY <1>3 DEF RebuildRead, TypeOK
  <2>2. \A i \in done[d] : i \in Rows /\ cg[i] = "node"
    BY DEF TypeOK, ShownInv, DoneIsEvidence
  <2> QED
    BY <2>1, <2>2 DEF ShownInv, DoneIsEvidence, ReadsOwn, EvidenceOf
<1>4. ASSUME NEW d \in Drain, Select(d) \/ Crash(d) PROVE DoneIsEvidence(d)' /\ ReadsOwn(d)'
  BY <1>4, ShownKept DEF Select, Crash, TypeOK
<1>5. ASSUME NEW d \in Drain, Step(d) PROVE DoneIsEvidence(d)' /\ ReadsOwn(d)'
  <2>1. CASE Claim(d) \/ EndLoop(d) \/ Return(d) \/ RebuildCommit(d) \/ RowRaises(d)
             \/ ReadBackRaises(d) \/ HandlerRaises(d) \/ RebuildRaises(d)
    BY <2>1, ShownKept DEF Claim, EndLoop, Return, RebuildCommit, RowRaises, ReadBackRaises,
                           HandlerRaises, RebuildRaises, TypeOK
  <2>2. ASSUME NEW i \in Rows, Materialize(d, i) \/ EnrichFails(d, i) \/ Release(d, i)
        PROVE  DoneIsEvidence(d)' /\ ReadsOwn(d)'
    BY <2>2, ShownKept DEF Materialize, EnrichFails, Release, TypeOK
  <2> QED
    BY <1>2, <1>3, <1>5, <2>1, <2>2 DEF Step
<1>6. ASSUME NEW d \in Drain, Select(d) \/ Step(d) \/ Crash(d) PROVE ShownInv'
  <2>1. ASSUME NEW e \in Drain, e # d PROVE DoneIsEvidence(e)' /\ ReadsOwn(e)'
    BY <1>6, <2>1, DrainStep, ShownKept
  <2> QED
    BY <1>4, <1>5, <1>6, <2>1 DEF ShownInv
<1> QED
  BY <1>1, <1>6 DEF Next, vars, Store

\* When a pass writes a journey it shows every row the pass materialized itself, for any
\* drains, accounts and faults (pipeline.py:440-450).
THEOREM OwnEvidenceShownHolds == Spec => []OwnEvidenceShown
<1>1. Init => ShownInv
  BY DEF Init, ShownInv, DoneIsEvidence, ReadsOwn
<1>2. TypeOK /\ Holding /\ ShownInv /\ [Next]_vars => ShownInv'
  BY ShownNext
<1>3. ShownInv => OwnEvidenceShown
  BY DEF ShownInv, ReadsOwn, OwnEvidenceShown
<1> QED
  BY <1>1, <1>2, <1>3, HoldingHolds, PTL DEF Spec
=============================================================================
