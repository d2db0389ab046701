----------------------------- MODULE TenantData -----------------------------
(***************************************************************************)
(* One tenant's files, measurements, health scores and score weights, and  *)
(* the calls that move them: upload_csv, process_data, the calibration of  *)
(* the weights (Wizard C) and configure_customer_kpis.                     *)
(*   utils/csv_upload.py, utils/csv_ingest.py,                             *)
(*   mcp_server/process_data_pipeline.py, mcp_server/cs_pulse_onboarding.py*)
(*   wizards/wizard_c_calibration.py                                       *)
(*                                                                         *)
(* A call runs in one of several processes, and an action is what it does  *)
(* between two commits; other processes act in between.  The tenant has    *)
(* one account, known once an accounts file was loaded.  A measurement is  *)
(* its unique key (account, kpi, moment).  Weights are named by who set    *)
(* them: 0 the defaults, p the calibration proposal p, Hand a person.      *)
(* Names that begin with Mut are wrong variants.                           *)
(***************************************************************************)
EXTENDS GraphRules

CONSTANTS
  Slot,                 \* processes a call can run in
  Key, Month,           \* measurements and months
  MonthOf(_),           \* the month a measurement counts for
  Content,              \* what can be uploaded: [file, keys, says (account_status)]
  Before,               \* what an earlier run may have loaded
  Score(_, _),          \* health of some inputs under some weights (module HealthRules)
  Mode,                 \* modes process_data is called in: "auto", "full_recalc"
  Given,                \* sets of weights passed to configure_customer_kpis: of "pillar", "kpis"
  Hand,                 \* the weights a person sets
  Fault,                \* what may fail: "load", "health", "calc", "sync", "raise", "stop"
  MaxUploads, MaxRuns, MaxProposals, MaxFaults     \* bounds on the history explored

AccountsFile == "account_details.csv"
KpiFile == "kpi_measurements.csv"
File == {AccountsFile, KpiFile}

\* A health row: the measurements read, when, and under which weights.
Weights == Nat \cup {Hand}
HealthRow == [keys : SUBSET Key, at : Nat, pillar : Weights, kpis : Weights]

\* A file of accounts brings no measurements; NULL is none of the values it stands beside.
ASSUME DataAssumption ==
  /\ IsFiniteSet(Slot) /\ IsFiniteSet(Key) /\ IsFiniteSet(Month)
  /\ \A k \in Key : MonthOf(k) \in Month
  /\ \A c \in Content \cup Before :
       c.file \in File /\ c.keys \subseteq Key /\ (c.file = AccountsFile => c.keys = {})
  /\ Hand \notin Nat
  /\ None \notin HealthRow /\ None \notin {"success", "partial", "failed"}

VARIABLES
  \* the tables
  uploads,              \* csv_uploads: [content, run (that consumed it) or None]
  staged,               \* csv_upload_staging: the upload each file holds, or 0
  known,                \* the account exists
  status,               \* its account_status
  kpi,                  \* kpi_measurements: [Key -> created_at, or 0 for no row]
  health,               \* health_scores: [Month -> row or None]
  runs,                 \* process_runs: the status of each
  config,               \* customer_configs: [pillar, kpis, origin, version]
  proposals,            \* weight_calibrations
  \* the processes
  call,                 \* [Slot -> where the call is and what it has read]
  \* history
  loaded,               \* uploads whose rows a run has committed
  raced,                \* uploads made while a run was between its read and its delete
  unresolved,           \* uploads loaded before the account was known
  overlapped,           \* two calls were under way at once
  scoredAll,            \* the last commit to kpi or health was a whole health stage
  missed,               \* months whose last calculation failed
  behind,               \* scores were written and the status was not synced since
  cut,                  \* runs whose process stopped
  faults                \* how many faults there were

data == <<uploads, staged, known, status, kpi, health, runs>>
weights == <<config, proposals>>
history == <<loaded, raced, unresolved, overlapped, scoredAll, missed, behind, cut>>
tvars == <<data, weights, call, history, faults>>

Idle == [at |-> "idle", run |-> 0, mode |-> "auto", files |-> {}, ids |-> {}, errors |-> {},
         stamp |-> 0, version |-> 0, rows |-> {}, for |-> 0, given |-> {}, seen |-> None, failing |-> {}]

\* _sync_account_status, for the accounts this run scored: churned is terminal.
MutTarget(band, old) == IF band = "healthy" THEN "active" ELSE IF band = "at_risk" THEN "at_risk" ELSE old

Target(band, old) ==
  IF band = "healthy" THEN "active" ELSE IF band \in {"at_risk", "critical"} THEN "at_risk" ELSE old

Scored == {m \in Month : health[m] # None}
Latest == CHOOSE m \in Scored : \A n \in Scored : n <= m
ScoreOf(m) == Score(health[m].keys, <<health[m].pillar, health[m].kpis>>)
Synced(band, old) == IF old = "churned" THEN old ELSE Target(band, old)

\* A tenant that uploaded nothing yet, or one whose accounts and first measurements an
\* earlier run loaded and scored (run 0, before this history).
Processed(a, c) ==
  /\ a.file = AccountsFile /\ c.file = KpiFile
  /\ uploads = <<[content |-> a, run |-> 0], [content |-> c, run |-> 0]>> /\ loaded = {1, 2}
  /\ known = TRUE
  /\ kpi = [k \in Key |-> IF k \in c.keys THEN 1 ELSE 0]
  /\ health = [m \in Month |-> IF \E k \in c.keys : MonthOf(k) = m
                 THEN [keys |-> {k \in c.keys : MonthOf(k) = m}, at |-> 2, pillar |-> 0, kpis |-> 0]
                 ELSE None]
  /\ status = Synced(Classify(ScoreOf(Latest)), a.says)

TenantInit ==
  /\ \/ /\ uploads = <<>> /\ loaded = {} /\ known = FALSE /\ status = "active"
        /\ kpi = [k \in Key |-> 0] /\ health = [m \in Month |-> None]
     \/ \E a, c \in Before : Processed(a, c)
  /\ staged = [f \in File |-> 0] /\ runs = <<>>
  /\ config = [pillar |-> 0, kpis |-> 0, origin |-> "vertical_default", version |-> 0]
  /\ proposals = <<>>
  /\ call = [s \in Slot |-> Idle]
  /\ raced = {} /\ unresolved = {} /\ overlapped = FALSE
  /\ scoredAll = TRUE /\ missed = {} /\ behind = FALSE
  /\ cut = {} /\ faults = 0

-----------------------------------------------------------------------------
Active(s) == call[s].at # "idle"
Busy == \E s \in Slot : Active(s)
Measured == {k \in Key : kpi[k] # 0}
Goto(s, c) == call' = [call EXCEPT ![s] = c] /\ UNCHANGED faults
Break(s, c) == call' = [call EXCEPT ![s] = c] /\ faults' = faults + 1
At(s, where) == call[s].at = where
\* The clock: later than every stamp there is.
Stamps == {kpi[k] : k \in Key} \cup {health[m].at : m \in {n \in Month : health[n] # None}}
          \cup {call[s].stamp : s \in Slot}
Now == 1 + CHOOSE t \in Stamps : \A u \in Stamps : u <= t

MayFail(f) == f \in Fault /\ faults < MaxFaults /\ ~overlapped

\* The uploads a run holds the content of.
Holds(s, file) == {u \in call[s].files : uploads[u].content.file = file}
Ingesting(s) == call[s].at \in {"lineage", "accounts", "stamp", "kpis", "consume"}

NewUploads == {u \in DOMAIN uploads : uploads[u].run # 0}

\* A call starts in an idle process.  Bounds: once two were under way, no third starts;
\* none begins beside another after a fault, the last proposal, or both a proposal and
\* an upload.
Starts(s) ==
  /\ ~Active(s) /\ ~overlapped
  /\ Busy => /\ faults = 0
             /\ proposals = <<>> \/ (Len(proposals) < MaxProposals /\ NewUploads = {})
  /\ overlapped' = Busy

-----------------------------------------------------------------------------
\* upload_csv: validated content replaces what is staged under its file type, and
\* leaves a record of its own, in one commit.  Bound: the last upload excludes
\* the last proposal, weights set by hand, and calls that overlap after a proposal.
NewId == Len(uploads) + 1

Upload(c) ==
  /\ Cardinality(NewUploads) < MaxUploads
  /\ \/ Len(proposals) = MaxProposals \/ config.origin = "customer_config"
     \/ (overlapped /\ proposals # <<>>)
     => NewUploads = {}
  /\ LET u == NewId IN
     /\ uploads' = Append(uploads, [content |-> c, run |-> None])
     /\ staged' = [staged EXCEPT ![c.file] = u]
     /\ raced' = IF \E s \in Slot : Ingesting(s) THEN raced \cup {u} ELSE raced
  /\ UNCHANGED <<known, status, kpi, health, runs, weights, call, loaded, unresolved,
                 overlapped, scoredAll, missed, behind, cut, faults>>

-----------------------------------------------------------------------------
\* process_data.  The run row is committed as 'running' first.
Enter(s, mode, for) ==
  /\ Len(runs) < MaxRuns
  /\ runs' = Append(runs, "running")
  /\ Goto(s, [Idle EXCEPT !.at = "look", !.run = Len(runs) + 1, !.mode = mode, !.for = for])

ProcessData(s, mode) ==
  /\ Starts(s) /\ Enter(s, mode, 0)
  /\ UNCHANGED <<uploads, staged, known, status, kpi, health, weights, loaded, raced,
                 unresolved, scoredAll, missed, behind, cut>>

Staged == {staged[f] : f \in {g \in File : staged[g] # 0}}

\* Nothing staged: with measurements in the tables the stages after the load run,
\* otherwise the call fails.
LookStaged(s) ==
  /\ At(s, "look")
  /\ Goto(s, IF Staged # {} THEN [call[s] EXCEPT !.at = "lineage", !.files = Staged]
             ELSE IF known /\ Measured # {} THEN [call[s] EXCEPT !.at = "health"]
             ELSE [call[s] EXCEPT !.at = "fail"])
  /\ UNCHANGED <<data, weights, history>>

\* The ids of what is staged are read by a second query.
ReadLineage(s) ==
  /\ At(s, "lineage")
  /\ Goto(s, [call[s] EXCEPT !.at = "accounts", !.ids = Staged])
  /\ UNCHANGED <<data, weights, history>>

\* Phase 1: accounts, committed on their own; the file's account_status counts only
\* when the account is created.
LoadAccounts(s) ==
  /\ At(s, "accounts")
  /\ LET held == Holds(s, AccountsFile) IN
     /\ known' = (known \/ held # {})
     /\ status' = IF known \/ held = {} THEN status
                  ELSE uploads[CHOOSE u \in held : TRUE].content.says
     /\ loaded' = loaded \cup held
  /\ Goto(s, [call[s] EXCEPT !.at = "stamp"])
  /\ UNCHANGED <<uploads, staged, kpi, health, runs, weights, raced, unresolved,
                 overlapped, scoredAll, missed, behind, cut>>

\* load_kpis: one created_at for the whole file, taken before the insert; rows of an
\* account nobody knows are left out.
StampKpis(s) ==
  /\ At(s, "stamp")
  /\ Goto(s, [call[s] EXCEPT !.at = "kpis", !.stamp = Now,
                             !.rows = IF known THEN UNION {uploads[u].content.keys : u \in Holds(s, KpiFile)}
                                      ELSE {}])
  /\ unresolved' = IF known THEN unresolved ELSE unresolved \cup Holds(s, KpiFile)
  /\ UNCHANGED <<data, weights, loaded, raced, overlapped, scoredAll, missed, behind, cut>>

\* INSERT ... ON CONFLICT DO NOTHING, and its commit.
LoadKpis(s) ==
  /\ At(s, "kpis")
  /\ kpi' = [k \in Key |-> IF kpi[k] = 0 /\ k \in call[s].rows THEN call[s].stamp ELSE kpi[k]]
  /\ scoredAll' = (scoredAll /\ kpi' = kpi)
  /\ loaded' = loaded \cup Holds(s, KpiFile)
  /\ Goto(s, [call[s] EXCEPT !.at = "consume"])
  /\ UNCHANGED <<uploads, staged, known, status, health, runs, weights, raced, unresolved,
                 overlapped, missed, behind, cut>>

\* A phase fails: recorded, rolled back to its last commit, and the run goes on.  Phase
\* 2 loads the files of the context graph (module ContextGraph).
PhaseFails(s) ==
  /\ MayFail("load")
  /\ call[s].at \in {"accounts", "stamp", "kpis", "consume"} /\ call[s].errors = {}
  /\ Break(s, [call[s] EXCEPT !.at = "consume", !.errors = {"load"}])
  /\ UNCHANGED <<data, weights, history>>

\* Without an error the uploads whose ids were read are marked consumed and the
\* staging of the tenant is emptied, in one commit.
MutConsumes(s) == TRUE

Consumes(s) == call[s].errors = {}

Consume(s) ==
  /\ At(s, "consume")
  /\ IF Consumes(s)
     THEN /\ uploads' = [u \in DOMAIN uploads |->
                           IF u \in call[s].ids THEN [uploads[u] EXCEPT !.run = call[s].run] ELSE uploads[u]]
          /\ staged' = [f \in File |-> 0]
     ELSE UNCHANGED <<uploads, staged>>
  /\ Goto(s, [call[s] EXCEPT !.at = "health"])
  /\ UNCHANGED <<known, status, kpi, health, runs, weights, history>>

-----------------------------------------------------------------------------
\* calculate_health_scores.  In 'auto' a scored month stays as it is unless one of
\* its measurements was created after the score was.
MutReopened(m) == FALSE

Reopened(m) == \E k \in Measured : MonthOf(k) = m /\ kpi[k] > health[m].at

ToScore(mode) ==
  {m \in Month : /\ \E k \in Measured : MonthOf(k) = m
                 /\ mode = "full_recalc" \/ health[m] = None \/ Reopened(m)}

\* What is read: the scored months, the measurements, the weights in force; then the
\* stamp.  A month whose calculation raises is left out and only counted.
ScoreRead(s) ==
  /\ At(s, "health") /\ known
  /\ \E failing \in SUBSET ToScore(call[s].mode) :
       LET next == [call[s] EXCEPT !.at = "write", !.failing = failing,
                      !.stamp = Now,
                      !.seen = [m \in ToScore(call[s].mode) \ failing |->
                         [keys |-> {k \in Measured : MonthOf(k) = m}, at |-> Now,
                          pillar |-> config.pillar, kpis |-> config.kpis]]]
       IN \/ failing = {} /\ Goto(s, next)
          \/ failing # {} /\ MayFail("calc") /\ Break(s, next)
  /\ UNCHANGED <<data, weights, history>>

ScoreWrite(s) ==
  /\ At(s, "write")
  /\ LET rows == call[s].seen IN
     /\ health' = [m \in Month |-> IF m \in DOMAIN rows THEN rows[m] ELSE health[m]]
     /\ missed' = (missed \ DOMAIN rows) \cup call[s].failing
     /\ scoredAll' = (call[s].failing = {})
     /\ behind' = (behind \/ DOMAIN rows # {})
     /\ Goto(s, [call[s] EXCEPT !.at = IF DOMAIN rows = {} THEN "finish" ELSE "sync",
                               !.seen = None, !.failing = {}])
  /\ UNCHANGED <<uploads, staged, known, status, kpi, runs, weights, loaded, raced,
                 unresolved, overlapped, cut>>

\* The stage fails, or there is no account to score: an error, and the run goes on.
ScoreFails(s) ==
  /\ LET next == [call[s] EXCEPT !.at = "finish", !.errors = @ \cup {"health"}, !.seen = None, !.failing = {}]
     IN \/ At(s, "health") /\ ~known /\ Goto(s, next)
        \/ call[s].at \in {"health", "write"} /\ MayFail("health") /\ Break(s, next)
  /\ UNCHANGED <<data, weights, history>>

\* The sync reads the latest score, then the account, and commits a status that differs;
\* neither row is locked, and another call can commit in between.
SyncScores(s) ==
  /\ At(s, "sync")
  /\ Goto(s, [call[s] EXCEPT !.at = "compare", !.seen = Classify(ScoreOf(Latest))])
  /\ UNCHANGED <<data, weights, history>>

SyncCompare(s) ==
  /\ At(s, "compare")
  /\ LET target == Synced(call[s].seen, status) IN
     /\ Goto(s, [call[s] EXCEPT !.at = IF target = status THEN "finish" ELSE "status",
                               !.seen = IF target = status THEN None ELSE target])
     /\ behind' = (behind /\ target # status)
  /\ UNCHANGED <<data, weights, loaded, raced, unresolved, overlapped, scoredAll, missed, cut>>

SyncCommit(s) ==
  /\ At(s, "status")
  /\ status' = call[s].seen
  /\ behind' = FALSE
  /\ Goto(s, [call[s] EXCEPT !.at = "finish", !.seen = None])
  /\ UNCHANGED <<uploads, staged, known, kpi, health, runs, weights, loaded, raced,
                 unresolved, overlapped, scoredAll, missed, cut>>

SyncStatus(s) == SyncScores(s) \/ SyncCompare(s) \/ SyncCommit(s)

\* A failed sync is logged and does not count as an error of the run.
Syncing == {"sync", "compare", "status"}

SyncFails(s) ==
  /\ call[s].at \in Syncing /\ MayFail("sync")
  /\ Break(s, [call[s] EXCEPT !.at = "finish", !.seen = None])
  /\ UNCHANGED <<data, weights, history>>

-----------------------------------------------------------------------------
\* The end of a run goes back to the call that made it, if any.
Leaves(s) ==
  Goto(s, IF call[s].for = 0 THEN Idle
          ELSE [Idle EXCEPT !.at = "note", !.run = call[s].run, !.for = call[s].for])

\* With errors it depends on whether any step had something to report; a health stage
\* that went through has.
Finish(s) ==
  /\ At(s, "finish")
  /\ \E outcome \in IF call[s].errors = {} THEN {"success"}
                    ELSE IF "health" \in call[s].errors THEN {"partial", "failed"} ELSE {"partial"} :
       runs' = [runs EXCEPT ![call[s].run] = outcome]
  /\ Leaves(s)
  /\ UNCHANGED <<uploads, staged, known, status, kpi, health, weights, history>>

\* An exception anywhere after the run row was committed, and what the handler makes
\* of it.
Raise(s) ==
  /\ MayFail("raise") /\ call[s].run # 0 /\ call[s].at \notin {"note", "fail"}
  /\ Break(s, [call[s] EXCEPT !.at = "fail", !.seen = None])
  /\ UNCHANGED <<data, weights, history>>

MutAborted(s) == runs

Aborted(s) == [runs EXCEPT ![call[s].run] = "failed"]

Abort(s) ==
  /\ At(s, "fail")
  /\ runs' = Aborted(s)
  /\ Leaves(s)
  /\ UNCHANGED <<uploads, staged, known, status, kpi, health, weights, history>>

\* The process stops.
Stop(s) ==
  /\ MayFail("stop") /\ Active(s)
  /\ Break(s, Idle)
  /\ cut' = cut \cup {call[s].run}
  /\ UNCHANGED <<data, weights, loaded, raced, unresolved, overlapped, scoredAll, missed, behind>>

-----------------------------------------------------------------------------
\* Calibration.  Once the outcomes open the gate, a proposal is made from the
\* weights in force; the open ones it read are superseded by it in one commit.
\* Bounds: it begins alone, a later one before any fault.
OpenProposals == {p \in DOMAIN proposals : proposals[p].state = "proposed"}

ProposeRead(s) ==
  /\ ~Busy /\ Starts(s) /\ Len(proposals) < MaxProposals
  /\ proposals # <<>> => faults = 0 /\ Cardinality(NewUploads) < MaxUploads
  /\ Goto(s, [Idle EXCEPT !.at = "propose", !.ids = OpenProposals])
  /\ UNCHANGED <<data, weights, loaded, raced, unresolved, scoredAll, missed, behind, cut>>

ProposeCommit(s) ==
  /\ At(s, "propose") /\ Len(proposals) < MaxProposals
  /\ LET closed == [p \in DOMAIN proposals |->
                       IF p \in call[s].ids THEN [proposals[p] EXCEPT !.state = "superseded"]
                       ELSE proposals[p]]
     IN proposals' = Append(closed, [state |-> "proposed", applied |-> None, recompute |-> None])
  /\ Goto(s, Idle)
  /\ UNCHANGED <<data, config, history>>

\* approve and reject load the row and check its state.
MutMayDecide(p) == proposals[p].state # "rejected"

MayDecide(p) == proposals[p].state = "proposed"

DecideRead(s, p, decision) ==
  /\ Starts(s) /\ p \in DOMAIN proposals /\ MayDecide(p)
  /\ Goto(s, [Idle EXCEPT !.at = decision, !.for = p, !.version = config.version])
  /\ UNCHANGED <<data, weights, loaded, raced, unresolved, scoredAll, missed, behind, cut>>

RejectCommit(s) ==
  /\ At(s, "reject")
  /\ proposals' = [proposals EXCEPT ![call[s].for].state = "rejected"]
  /\ Goto(s, Idle)
  /\ UNCHANGED <<data, config, history>>

\* The weights, their origin and the next version are committed with the decision;
\* then every month is recomputed by a run in the same call.
MutRecomputeMode == "auto"

RecomputeMode == "full_recalc"

ApproveCommit(s) ==
  /\ At(s, "approve") /\ Len(runs) < MaxRuns
  /\ LET p == call[s].for  v == call[s].version + 1 IN
     /\ config' = [pillar |-> p, kpis |-> p, origin |-> "wizard_c", version |-> v]
     /\ proposals' = [proposals EXCEPT ![p].state = "approved", ![p].applied = v]
     /\ Enter(s, RecomputeMode, p)
  /\ UNCHANGED <<uploads, staged, known, status, kpi, health, history>>

\* What became of the recompute is recorded on the proposal.
NoteRecompute(s) ==
  /\ At(s, "note")
  /\ proposals' = IF call[s].for \in DOMAIN proposals
                  THEN [proposals EXCEPT ![call[s].for].recompute = runs[call[s].run]]
                  ELSE proposals
  /\ Goto(s, Idle)
  /\ UNCHANGED <<data, config, history>>

\* configure_customer_kpis: only the weights that were passed change; read, commit,
\* recompute.  Bounds: it begins alone, and before the last upload.
ConfigureRead(s, fields) ==
  /\ ~Busy /\ Starts(s) /\ Len(runs) < MaxRuns /\ Cardinality(NewUploads) < MaxUploads
  /\ Goto(s, [Idle EXCEPT !.at = "configure", !.given = fields, !.version = config.version])
  /\ UNCHANGED <<data, weights, loaded, raced, unresolved, scoredAll, missed, behind, cut>>

ConfigureCommit(s) ==
  /\ At(s, "configure") /\ Len(runs) < MaxRuns
  /\ LET given == call[s].given IN
     config' = [pillar |-> IF "pillar" \in given THEN Hand ELSE config.pillar,
                kpis |-> IF "kpis" \in given THEN Hand ELSE config.kpis,
                origin |-> "customer_config", version |-> call[s].version + 1]
  /\ Enter(s, RecomputeMode, Hand)
  /\ UNCHANGED <<uploads, staged, known, status, kpi, health, proposals, history>>

-----------------------------------------------------------------------------
TenantNext ==
  \/ \E c \in Content : Upload(c)
  \/ \E s \in Slot :
       \/ \E mode \in Mode : ProcessData(s, mode)
       \/ LookStaged(s) \/ ReadLineage(s)
       \/ LoadAccounts(s) \/ StampKpis(s) \/ LoadKpis(s) \/ PhaseFails(s)
       \/ Consume(s)
       \/ ScoreRead(s) \/ ScoreWrite(s) \/ ScoreFails(s)
       \/ SyncStatus(s) \/ SyncFails(s)
       \/ Finish(s) \/ Raise(s) \/ Abort(s) \/ Stop(s)
       \/ ProposeRead(s) \/ ProposeCommit(s)
       \/ \E p \in 1..MaxProposals, d \in {"approve", "reject"} : DecideRead(s, p, d)
       \/ RejectCommit(s) \/ ApproveCommit(s) \/ NoteRecompute(s)
       \/ \E fields \in Given : ConfigureRead(s, fields)
       \/ ConfigureCommit(s)

TenantSpec == TenantInit /\ [][TenantNext]_tvars

-----------------------------------------------------------------------------
\* An upload is staged until its rows are in the tables, whatever fails on the way,
\* unless a newer file took its place; only one made while a run is at its files can
\* be deleted unread (csv_ingest.py:1069-1080).
Replaced(u) == \E v \in DOMAIN uploads : v > u /\ uploads[v].content.file = uploads[u].content.file

UploadsNotLost ==
  \A u \in DOMAIN uploads :
    /\ staged[uploads[u].content.file] = u \/ u \in loaded \cup raced \/ Replaced(u)
    /\ u \in loaded \ unresolved => uploads[u].content.keys \subseteq Measured

\* Once a health stage is through, every measurement is in the score of its month,
\* late ones too and after any failed or broken-off run before it, unless calls
\* overlapped (process_data_pipeline.py:56-64).
ScoresSeeAll ==
  scoredAll /\ ~overlapped =>
    \A k \in Measured : health[MonthOf(k)] # None /\ k \in health[MonthOf(k)].keys

\* When the recompute after an approval is on record as a success and those weights
\* are still in force, no row shows others, except months whose calculation raised:
\* these the run does not count as an error (wizard_c_calibration.py:520-523,
\* process_data_pipeline.py:169-172).
RecomputeTold ==
  \A p \in DOMAIN proposals :
    proposals[p].recompute = "success" /\ config.pillar = p /\ config.kpis = p /\ ~overlapped =>
      \A m \in Scored : (health[m].pillar = p /\ health[m].kpis = p) \/ m \in missed

\* One call at a time leaves at most one proposal open, no two approvals under one
\* version, and calibrated weights always those of an approved proposal
\* (wizard_c_calibration.py:10-16).
CalibrationConsistent ==
  ~overlapped =>
    /\ Cardinality({p \in DOMAIN proposals : proposals[p].state = "proposed"}) <= 1
    /\ \A p, q \in DOMAIN proposals :
         proposals[p].applied = proposals[q].applied /\ proposals[p].applied # None => p = q
    /\ config.origin = "wizard_c" =>
         \E p \in DOMAIN proposals :
           /\ config.pillar = p /\ config.kpis = p
           /\ proposals[p].state = "approved" /\ proposals[p].applied = config.version

\* The row of a run says 'running' only while a process is at it, or when that
\* process stopped (cs_pulse_onboarding.py:588-592).
RunsEnd ==
  \A r \in DOMAIN runs :
    runs[r] = "running" => r \in cut \/ \E s \in Slot : call[s].run = r

\* The status of the account never contradicts its latest score, as invariant I12 of
\* the audit sees it, once a sync went through after the last scores, unless calls
\* overlapped; an account that churned stays so (process_data_pipeline.py:247-278).
Accounts ==
  [a \in {1} |-> [status |-> status, score |-> IF Scored = {} THEN None ELSE ScoreOf(Latest)]]

StatusFollowsHealth == ~behind /\ ~overlapped => I12(Accounts) = {}

=============================================================================
