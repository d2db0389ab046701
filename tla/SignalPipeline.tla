--------------------------- MODULE SignalPipeline ---------------------------
(***************************************************************************)
(* signal_engine/pipeline.py: stored communications become evidence nodes. *)
(*                                                                         *)
(* A pass of process_pending is run by a drain: the background worker, or  *)
(* a request thread (process_signals, an HTTP ingest, a bulk import).      *)
(* Several run at once, in several processes, against one database.  Each  *)
(* step below ends where the code commits or where another drain can be    *)
(* scheduled: the locking SELECT, the claim commit, one commit per signal, *)
(* the reads after that commit, and the read and the commit of the journey *)
(* rebuild.                                                                *)
(*                                                                         *)
(* A name that begins with Mut is a wrong variant of the definition after  *)
(* it: substituted for it, it must break a property.                       *)
(***************************************************************************)
EXTENDS Naturals, FiniteSets

CONSTANTS
  MaxRows,       \* bound: how many communications are ever stored
  Customer,      \* tenants
  Account,       \* their accounts
  CustomerOf,    \* the tenant an account belongs to
  AccountOf,     \* the account a row belongs to
  Declared,      \* rows whose signal_type is a taxonomy subtype: no LLM call
  Refused,       \* rows enrich_signal answers with an error on every call
  Drain,         \* callers of process_pending
  Worker,        \* those that poll for ever (signal_engine/worker.py)
  Scope,         \* the accounts a drain asks for (its customer_id filter)
  Limit,         \* the batch limit of a drain
  Faults,        \* the kinds of fault that may happen
  MaxFaults      \* bound: how many faults happen

Rows == 1..MaxRows

ASSUME PipelineAssumption ==
  /\ MaxRows \in Nat /\ MaxFaults \in Nat
  /\ CustomerOf \in [Account -> Customer]
  /\ AccountOf \in [Rows -> Account]
  /\ Declared \subseteq Rows /\ Refused \subseteq Rows \ Declared
  /\ Worker \subseteq Drain
  /\ Scope \in [Drain -> SUBSET Account]
  /\ Limit \in [Drain -> Nat \ {0}]

VARIABLES
  stored,        \* rows 1..stored of qualitative_signals exist
  cg,            \* cg_node_id: "null", "claimed" (the sentinel -1) or "node"
  extracted,     \* rows whose intent_signals column is not NULL
  written,       \* how many times evidence was committed for a row (history)
  journey,       \* the rows whose evidence an account's stored journey shows
  pc,            \* where each drain is in process_pending
  batch,         \* the rows it selected (sigs)
  todo,          \* those its loop has not finished with
  done,          \* those it turned into evidence (out['signals'])
  left,          \* customers whose journeys are still to rebuild
  building,      \* the accounts of the run_wizard_a under way
  seen,          \* the evidence that run has read
  faults         \* faults so far, at most MaxFaults

vars == <<stored, cg, extracted, written, journey, pc, batch, todo, done, left,
          building, seen, faults>>
table == <<stored, cg, extracted, written>>
local == <<batch, todo, done, left, building, seen>>

PC == {"idle", "selected", "row", "committed", "handling", "rebuild", "write"}

TypeOK ==
  /\ stored \in 0..MaxRows
  /\ cg \in [Rows -> {"null", "claimed", "node"}]
  /\ extracted \in SUBSET Rows
  /\ written \in [Rows -> Nat]
  /\ journey \in [Account -> SUBSET Rows]
  /\ pc \in [Drain -> PC]
  /\ batch \in [Drain -> SUBSET Rows]
  /\ todo \in [Drain -> SUBSET Rows]
  /\ done \in [Drain -> SUBSET Rows]
  /\ left \in [Drain -> SUBSET Customer]
  /\ building \in [Drain -> SUBSET Account]
  /\ seen \in [Drain -> SUBSET Rows]
  /\ faults \in 0..MaxFaults

Init ==
  /\ stored = 0
  /\ cg = [i \in Rows |-> "null"]
  /\ extracted = {}
  /\ written = [i \in Rows |-> 0]
  /\ journey = [a \in Account |-> {}]
  /\ pc = [d \in Drain |-> "idle"]
  /\ batch = [d \in Drain |-> {}]
  /\ todo = [d \in Drain |-> {}]
  /\ done = [d \in Drain |-> {}]
  /\ left = [d \in Drain |-> {}]
  /\ building = [d \in Drain |-> {}]
  /\ seen = [d \in Drain |-> {}]
  /\ faults = 0

Goto(d, from, to) == pc[d] = from /\ pc' = [pc EXCEPT ![d] = to]
Fault(kind) == kind \in Faults /\ faults < MaxFaults /\ faults' = faults + 1

(***************************************************************************)
(* ingest() commits one row; which duplicates it refuses is the subject of *)
(* SignalIngest.                                                           *)
(***************************************************************************)
Store ==
  /\ stored < MaxRows
  /\ stored' = stored + 1
  /\ UNCHANGED <<cg, extracted, written, journey, pc, local, faults>>

(***************************************************************************)
(* SELECT ... cg_node_id IS NULL ORDER BY id LIMIT n FOR UPDATE SKIP       *)
(* LOCKED.  A drain at "selected" holds the row locks of its batch.        *)
(***************************************************************************)
MutLocked == {}
Locked == UNION {batch[e] : e \in {x \in Drain : pc[x] = "selected"}}

Selectable(d) ==
  {i \in 1..stored : cg[i] = "null" /\ AccountOf[i] \in Scope[d] /\ i \notin Locked}

OldestFirst(S, pool, n) ==
  /\ S \subseteq pool
  /\ \A i \in S, j \in pool \ S : i < j
  /\ Cardinality(S) = IF Cardinality(pool) < n THEN Cardinality(pool) ELSE n

\* With nothing to select the pass returns at once and changes nothing.
Select(d) ==
  /\ Goto(d, "idle", "selected")
  /\ \E S \in SUBSET Selectable(d) :
       /\ S # {}
       /\ OldestFirst(S, Selectable(d), Limit[d])
       /\ batch' = [batch EXCEPT ![d] = S]
  /\ UNCHANGED <<table, journey, todo, done, left, building, seen, faults>>

MutClaim(d) ==
  /\ Goto(d, "selected", "row")
  /\ todo' = [todo EXCEPT ![d] = batch[d]]
  /\ UNCHANGED <<table, journey, batch, done, left, building, seen, faults>>

\* The whole batch is marked with the sentinel in one commit.
Claim(d) ==
  /\ Goto(d, "selected", "row")
  /\ cg' = [i \in Rows |-> IF i \in batch[d] THEN "claimed" ELSE cg[i]]
  /\ todo' = [todo EXCEPT ![d] = batch[d]]
  /\ UNCHANGED <<stored, extracted, written, journey, batch, done, left, building, seen, faults>>

(***************************************************************************)
(* The loop takes the rows of the batch in id order.                       *)
(***************************************************************************)
At(d, i) == i \in todo[d] /\ \A j \in todo[d] : i <= j

NeedsModel(i) == i \notin Declared /\ i \notin extracted

\* materialize(): nodes, cg_node_id and the extraction columns in one commit.
Materialize(d, i) ==
  /\ Goto(d, "row", "committed")
  /\ At(d, i)
  /\ NeedsModel(i) => i \notin Refused
  /\ cg' = [cg EXCEPT ![i] = "node"]
  /\ written' = [written EXCEPT ![i] = @ + 1]
  /\ extracted' = extracted \cup ({i} \ Declared)
  /\ UNCHANGED <<stored, journey, local, faults>>

MutEnrichFails(d, i) ==
  /\ Goto(d, "row", "row")
  /\ At(d, i)
  /\ NeedsModel(i)
  /\ IF i \in Refused THEN UNCHANGED faults ELSE Fault("llm")
  /\ todo' = [todo EXCEPT ![d] = @ \ {i}]
  /\ UNCHANGED <<table, journey, batch, done, left, building, seen>>

\* enrich_signal answered {'error': ...}: the claim is released, next signal.
EnrichFails(d, i) ==
  /\ Goto(d, "row", "row")
  /\ At(d, i)
  /\ NeedsModel(i)
  /\ IF i \in Refused THEN UNCHANGED faults ELSE Fault("llm")
  /\ cg' = [cg EXCEPT ![i] = "null"]
  /\ todo' = [todo EXCEPT ![d] = @ \ {i}]
  /\ UNCHANGED <<stored, extracted, written, journey, batch, done, left, building, seen>>

\* Anything else raised before the signal's commit: rollback.
RowRaises(d) ==
  /\ Goto(d, "row", "handling")
  /\ todo[d] # {}
  /\ Fault("row")
  /\ UNCHANGED <<table, journey, local>>

\* The attributes of sig and of its nodes are read again after the commit.
ReadBack(d, i) ==
  /\ Goto(d, "committed", "row")
  /\ At(d, i)
  /\ done' = [done EXCEPT ![d] = @ \cup {i}]
  /\ todo' = [todo EXCEPT ![d] = @ \ {i}]
  /\ UNCHANGED <<table, journey, batch, left, building, seen, faults>>

\* ... and when that read raises, the same handler runs.
ReadBackRaises(d) ==
  /\ Goto(d, "committed", "handling")
  /\ Fault("read")
  /\ UNCHANGED <<table, journey, local>>

MutRelease(d, i) ==
  /\ Goto(d, "handling", "row")
  /\ At(d, i)
  /\ cg' = [j \in Rows |-> IF j \in batch[d] THEN "null" ELSE cg[j]]
  /\ todo' = [todo EXCEPT ![d] = {}]
  /\ UNCHANGED <<stored, extracted, written, journey, batch, done, left, building, seen, faults>>

MutReleaseKeeps(d, i) ==
  /\ Goto(d, "handling", "row")
  /\ At(d, i)
  /\ todo' = [todo EXCEPT ![d] = @ \ {i}]
  /\ UNCHANGED <<table, journey, batch, done, left, building, seen, faults>>

\* except Exception: cg_node_id = None, commit.
Release(d, i) ==
  /\ Goto(d, "handling", "row")
  /\ At(d, i)
  /\ cg' = [cg EXCEPT ![i] = "null"]
  /\ todo' = [todo EXCEPT ![d] = @ \ {i}]
  /\ UNCHANGED <<stored, extracted, written, journey, batch, done, left, building, seen, faults>>

Forget(d) ==
  /\ pc' = [pc EXCEPT ![d] = "idle"]
  /\ batch' = [batch EXCEPT ![d] = {}]
  /\ todo' = [todo EXCEPT ![d] = {}]
  /\ done' = [done EXCEPT ![d] = {}]
  /\ left' = [left EXCEPT ![d] = {}]
  /\ building' = [building EXCEPT ![d] = {}]
  /\ seen' = [seen EXCEPT ![d] = {}]

\* The handler's own commit raises: the exception leaves process_pending.
HandlerRaises(d) ==
  /\ pc[d] = "handling"
  /\ Fault("handler")
  /\ Forget(d)
  /\ UNCHANGED <<table, journey>>

EndLoop(d) ==
  /\ Goto(d, "row", "rebuild")
  /\ todo[d] = {}
  /\ left' = [left EXCEPT ![d] = {CustomerOf[AccountOf[i]] : i \in done[d]}]
  /\ UNCHANGED <<table, journey, batch, todo, done, building, seen, faults>>

(***************************************************************************)
(* run_wizard_a, once per customer: read the evidence of the accounts      *)
(* touched, build their journeys, one commit.  The accounts of one run do  *)
(* not read each other's evidence, so one read step stands for all.        *)
(***************************************************************************)
MutEvidenceOf(A) == {i \in extracted : cg[i] = "node" /\ AccountOf[i] \in A}
EvidenceOf(A) == {i \in Rows : cg[i] = "node" /\ AccountOf[i] \in A}

Touched(d, c) == {a \in Account : CustomerOf[a] = c /\ \E i \in done[d] : AccountOf[i] = a}

RebuildRead(d, c) ==
  /\ Goto(d, "rebuild", "write")
  /\ c \in left[d]
  /\ left' = [left EXCEPT ![d] = @ \ {c}]
  /\ building' = [building EXCEPT ![d] = Touched(d, c)]
  /\ seen' = [seen EXCEPT ![d] = EvidenceOf(Touched(d, c))]
  /\ UNCHANGED <<table, journey, batch, todo, done, faults>>

RebuildCommit(d) ==
  /\ Goto(d, "write", "rebuild")
  /\ journey' = [a \in Account |->
                   IF a \in building[d] THEN {i \in seen[d] : AccountOf[i] = a}
                                        ELSE journey[a]]
  /\ building' = [building EXCEPT ![d] = {}]
  /\ seen' = [seen EXCEPT ![d] = {}]
  /\ UNCHANGED <<table, batch, todo, done, left, faults>>

\* The rebuild raises: it is logged and rolled back, the next customer goes on.
RebuildRaises(d) ==
  /\ Goto(d, "write", "rebuild")
  /\ Fault("build")
  /\ building' = [building EXCEPT ![d] = {}]
  /\ seen' = [seen EXCEPT ![d] = {}]
  /\ UNCHANGED <<table, journey, batch, todo, done, left>>

Return(d) ==
  /\ pc[d] = "rebuild" /\ left[d] = {}
  /\ Forget(d)
  /\ UNCHANGED <<table, journey, faults>>

\* The process stops between two commits: locks and memory are gone.
Crash(d) ==
  /\ pc[d] # "idle"
  /\ Fault("crash")
  /\ Forget(d)
  /\ UNCHANGED <<table, journey>>

Step(d) ==
  \/ Claim(d) \/ EndLoop(d) \/ Return(d)
  \/ \E i \in Rows : Materialize(d, i) \/ EnrichFails(d, i) \/ ReadBack(d, i) \/ Release(d, i)
  \/ \E c \in Customer : RebuildRead(d, c)
  \/ RebuildCommit(d)
  \/ RowRaises(d) \/ ReadBackRaises(d) \/ HandlerRaises(d) \/ RebuildRaises(d)

Next == Store \/ \E d \in Drain : Select(d) \/ Step(d) \/ Crash(d)

Spec == Init /\ [][Next]_vars

\* A thread that started a pass keeps running; only the worker must start one.
Fairness ==
  /\ \A d \in Drain : WF_vars(Step(d))
  /\ \A d \in Worker : WF_vars(Select(d))

FairSpec == Spec /\ Fairness

-----------------------------------------------------------------------------
(***************************************************************************)
(* Properties                                                              *)
(***************************************************************************)

\* A communication is turned into evidence at most once, however the worker
\* and on-demand passes interleave (pipeline.py:365-378).
AtMostOnce == \A i \in Rows : written[i] <= 1

\* A row carries the claim sentinel only while one drain is on its way to
\* deciding it, and no two drains hold the same row (pipeline.py:376-382).
ClaimHeld ==
  /\ \A i \in Rows : cg[i] = "claimed" => \E d \in Drain : i \in todo[d]
  /\ \A d, e \in Drain : d # e => todo[d] \cap todo[e] = {}

\* Evidence is never detached from its communication: a row that has its node
\* is not put back in the queue (pipeline.py:432-438).
NodeKept == [][\A i \in Rows : cg[i] = "node" => cg'[i] = "node"]_cg

\* When a pass writes a journey, every row it materialized itself is shown:
\* the rebuild reads after the pass's own commits (pipeline.py:440-450).
OwnEvidenceShown ==
  \A d \in Drain : pc[d] = "write" =>
    \A i \in done[d] : AccountOf[i] \in building[d] => i \in seen[d]

\* Once every pass has returned, the stored journey of an account shows all its
\* evidence (process_pending: "so a new signal shows on the canvas immediately").
CanvasCurrent ==
  (\A d \in Drain : pc[d] = "idle") => \A a \in Account : journey[a] = EvidenceOf({a})

\* Every stored communication becomes evidence without anyone calling anything
\* (worker.py:4-6); one the model always refuses is the only exception.
BecomesEvidence ==
  \A i \in Rows \ Refused : i <= stored ~> cg[i] = "node"

\* No claim outlives its pass: the row becomes evidence or is queued again.
ClaimEnds == \A i \in Rows : cg[i] = "claimed" ~> cg[i] # "claimed"

(***************************************************************************)
(* Why a row is materialized once: the claim discipline, which is          *)
(* inductive as long as the read after a commit does not fail.             *)
(***************************************************************************)
\* What is written for a row is what its cg_node_id column says.
WrittenIsRecorded == \A i \in Rows : written[i] = IF cg[i] = "node" THEN 1 ELSE 0

OnlyStoredRows == \A i \in Rows : cg[i] # "null" => i <= stored

\* The row locks of a batch that was selected and not claimed yet.
LocksFreeRows(d) ==
  pc[d] = "selected" =>
    /\ \A i \in batch[d] : cg[i] = "null" /\ i <= stored
    /\ \A e \in Drain : e # d /\ pc[e] = "selected" => batch[d] \cap batch[e] = {}

\* The rows in a drain's loop are claimed, up to the one it just committed.
OwnsLoopRows(d) ==
  /\ todo[d] # {} => pc[d] \in {"row", "committed", "handling"}
  /\ \A i \in todo[d] :
       cg[i] = IF pc[d] = "committed" /\ At(d, i) THEN "node" ELSE "claimed"
  /\ \A e \in Drain : e # d => todo[d] \cap todo[e] = {}

\* Ownership of a row passes from the table to one drain and back, never to two
\* (pipeline.py:372-378: it must not depend on how long the row locks survive).
ClaimDiscipline ==
  /\ WrittenIsRecorded
  /\ OnlyStoredRows
  /\ \A d \in Drain : LocksFreeRows(d) /\ OwnsLoopRows(d)

(***************************************************************************)
(* The abstract specification, and what of this one it sees.               *)
(***************************************************************************)
StatusOf(i) ==
  CASE i > stored         -> "absent"
    [] i <= stored /\ cg[i] = "null"    -> "queued"
    [] i <= stored /\ cg[i] = "claimed" -> "held"
    [] i <= stored /\ cg[i] = "node"    -> "evidence"

E == INSTANCE Evidence WITH status <- [i \in Rows |-> StatusOf(i)], produced <- written

\* The pipeline implements what Evidence promises.
ImplementsEvidence == E!Spec
=============================================================================
