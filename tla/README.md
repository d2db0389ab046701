# A formal model of the CustomerIntel platform

TLA+ modules, TLC configurations and machine-checked proofs for the server of the
platform: how communications become evidence and interventions, what the context
graph keeps, how a tenant's files, scores, weights, reviews, budget and life
are handled by processes that overlap and fail, and the rules by which scores, journeys,
forecasts, calibrations and playbooks are computed. Every definition is translated from the Python source;
`PROJECT.json` names the lines ("map"). File names below are relative to
`src/backend/` unless they start with `docs/`, `scripts/` or `tests/`.

Running it, in this directory:

    tlc -workers 2 -config PipelineSafety.cfg MCSignalPipeline.tla
    tlapm SignalPipelineProofs.tla      (and SignalIngestProofs, InterventionProofs,
                                         ContextGraphProofs, TenantDataProofs,
                                         RuleProofs, LoadProofs, TenantProofs)

## 1. Inventory

### The parts and how they interact

The platform keeps everything in one PostgreSQL database through SQLAlchemy.
Three kinds of process use it: the web server (REST and MCP requests, each
handled by a thread), the worker process (`worker_main.py`), and operator
scripts. There are no in-memory queues between them: one process sees what
another has committed, and nothing else. What each commit contains, and what was
read before it, is therefore what this project models.

| Component | State | Operations | Hard behaviour | What makes it correct |
|---|---|---|---|---|
| Ingest (`signal_engine/pipeline.py: ingest, import_communications`; `ingest_api.py`) | rows of `qualitative_signals`; the unique source id | ingest one, import many | several lanes look up and insert at once; text sent again later | one row per source id; nothing dropped that is not on record; one row per text and window |
| Signal pipeline (`pipeline.py: process_pending, materialize`) | `cg_node_id` (NULL, sentinel -1, node), extraction columns, evidence nodes | one pass: select, claim, enrich, materialize, release, rebuild | the worker and on-demand passes at once; a commit per row; exceptions anywhere; process death | evidence at most once; ownership of a row; every row becomes evidence |
| Worker (`signal_engine/worker.py`, `worker_main.py`) | heartbeat row, wake event | poll, back off, stop | polling, staleness, wake-ups lost | keeps polling |
| Extraction (`signal_engine/enrichment.py`, `settings.py`) | per-process day counters | one model call | limits counted per process | daily allowance |
| Review (`signal_engine/review.py`) | node properties, `requires_review`, `signal_reviews` | accept, reclassify, reject a node or a signal | two reviewers of one signal | a signal leaves the queue only when all nodes are decided; no decision is lost |
| Urgency and sentiment rules (`signal_engine/urgency.py`) | - | - | boundary values | the model raises what a role demands, never lowers it |
| Journey builder (`journeys/wizard_a.py` and pure helpers) | `journey_data`, arc columns | rebuild accounts | rebuilds of one account overlap; months without evidence or score | the stored journey shows all evidence; the arc is one its evidence supports |
| Playbook governance (`playbooks/governance.py`, `webhook.py`) | `interventions`, INTERVENTION nodes | evaluate, approve, report | check-then-act without locks; external callbacks; cut-off calls | one open per pair, one delivery, one node, declines respected |
| Playbook definitions, tenant overlay, measured impact (`playbooks/definitions.py`, `roi/measured.py`) | tenant overlay | validate, configure, match, aggregate | partial overlays; empty strata | an overlay never weakens the definition it does not touch; money is counted once |
| Outcomes (`journeys/outcomes.py`) | OUTCOME nodes and edges | log, idempotent by reference | a repeated callback overlaps its first attempt | one outcome per reference |
| Weight calibration (`wizards/wizard_c_calibration.py`) | proposals, `config_version`, weights, health rows | propose, approve, reject, recompute | two approvals; a crash between the weights and the recompute | one open proposal; a version per applied proposal |
| Hindsight, foresight (`wizards/wizard_b_hindsight.py`, `wizard_d_foresight.py`) | append-only run rows, the forecast block of a journey | run, write back | forecast and rebuild both write whole journeys | a journey shows the newest forecast and says when it is stale |
| process_data and onboarding (`mcp_server/cs_pulse_onboarding.py`, `process_data_pipeline.py`) | run row, staged files | stage, run steps, finish | a step fails or the process dies half way; uploads during a run | runs end; staged files are consumed once; scores see all that was loaded |
| CSV loaders (`utils/csv_upload.py`, `csv_ingest.py`) | tenant tables | upload, ingest | phases with commits of their own, failures, re-uploads, corrections | a thing is stored once and under its account |
| Tenant lifecycle (`mcp_server/cs_pulse_onboarding.py`, `api_key_service.py`) | all tables of a tenant | create, clone, delete | one commit in the middle; the source changes meanwhile; order of tables | a clone is closed; a deletion is complete |
| Context graph (`utils/context_graph.py`, `context_graph_invariants.py`, `supersession.py`, `edge_factory.py`) | nodes, edges, `superseded_by` | upsert, supersede, clamp, audit, traverse | sequences of writers, sessions that overlap | no claim is lost; the audit agrees with the gate |
| LLM budget (`utils/llm_budget_controller.py`) | usage rows, budgets | check, record | check, call, record by several callers | spending within the budget up to a known overshoot |
| Health scoring, verticals (`utils/vertical_health.py`, `generic_scorer.py`, `lifecycle_stages.py`, ...) | health rows | score | boundaries, empty inputs, inverse KPIs | the order of values is the order of scores; one stage at a time |
| MCP server, auth, audit (`mcp_server/`, `api_key_service.py`) | keys, audit rows | tools, resources | the audit commit shares the caller's session | - |
| App API (`app_api/`) | users, login attempts | login, user administration | - | - |
| Adapters (`adapters/`) | the receiver's memory | receive, call back, notify | callbacks before `sent` is committed; repeated callbacks | seen from governance |
| Ask AI, ROI, front end, demo, scripts | none of their own | read and present | - | - |

`PROJECT.json` lists each with its status, and under "hazards" the places where
this code is hard to test, each at its line.

Interactions. `ingest` writes rows that `process_pending` selects; a pass ends
with `run_wizard_a`, which rebuilds journeys and then calls
`governance.evaluate_after_rebuild`; `approve` posts to an external workflow, whose callbacks
arrive as `report`, which may call `log_outcome` and rebuild the journey again.
`SignalPipeline`, `Interventions` and `SignalIngest` model the three links of
this chain. They share no variable: the first hands over stored rows (the
action `Store`), the second a fresh journey (an evaluation can start at any time).

A second chain starts at files: `upload_csv` stages them, `process_data` loads
them, scores the months and syncs the account status; approving a calibration or
configuring weights runs the same scoring; `create_customer`, `clone_customer` and
`delete_customer` begin and end what all of this works on. `TenantData` composes
staging, runs, scoring, calibration and configuration, which do share tables; `LoadFiles` opens
the load that `TenantData` treats as a step; `HealthRules` is its `Score`.
`Tenant` puts these and the other parts of one tenant side by side.

### The hard behaviours

* *Commit boundaries.* `process_pending` commits the claim, then once per row;
  `approve` commits 'approved', then an audit row, then 'sent'; each access to
  a row after a commit reads it again (SQLAlchemy expires it).
* *Check then act.* `evaluate`, `approve`, `report`, `log_outcome` and the
  content dedup of `ingest` read, decide and write later with no condition on
  the write. Unique constraints exist for the source id of a signal and for the
  trigger key of an intervention, and for nothing else of these.
* *Partial failure.* One `try` covers a row's extraction, its commit and the
  reads after the commit; its handler commits too.
* *Process death.* The claim sentinel and the state 'approved' are committed
  before the work they announce, and nothing looks for them afterwards.

## 2. Modules

### Evidence

The promise of the signal engine, without drains, locks or faults: a row is
absent, queued, held or evidence; a batch of queued rows is taken at once; a held
row is put back or becomes evidence, once. `SignalPipeline` implements it
under the mapping `StatusOf` (`cg_node_id` of a stored row).

### SignalPipeline

`process_pending`, run by several *drains*: the worker (which polls for ever)
and request threads. `stored`, `cg`, `extracted` stand for columns of
`qualitative_signals`, `journey` for `journey_data`; the rest are the local
variables of a pass (`batch` = `sigs`, `done` = `out['signals']`, ...), and
`written` counts the commits of evidence for a row.

| Action | Code |
|---|---|
| `Store` | `ingest` commits a row |
| `Select` | the query with `FOR UPDATE SKIP LOCKED`; the drain at "selected" holds the locks |
| `Claim` | the sentinel for the batch, one commit |
| `Materialize`, `EnrichFails`, `RowRaises` | a row's turn: evidence committed; the extraction answered an error; anything raised |
| `ReadBack`, `ReadBackRaises` | attribute reads after the row's commit |
| `Release`, `HandlerRaises` | the `except` block, and its own failure |
| `EndLoop`, `RebuildRead`, `RebuildCommit`, `RebuildRaises`, `Return` | the journeys of the touched accounts, per tenant |
| `Crash` | the process stops between two commits |

Abstracted: what a node says (subtype, people, urgency, the number of nodes of
one communication, all in the same commit), the tenant's taxonomy, the playbook
evaluation at the end of a rebuild (module `Interventions`). The fall-back of
line 370, a select without locks, is for sqlite scratch runs and not modelled.
A `Refused` row is one the model always answers with an error; `Declared` rows
need no model. `Select` is enabled only when there is a row to take, since an
empty pass changes nothing.

### Interventions

One (account, playbook) pair: governance never relates rows of different pairs. Rows are named
by their trigger key. Callers are *evaluators* (threads that end a rebuild, and
go on to approve when the playbook is automatic), *approvers*, and *reporters*:
callbacks of the external workflow, and people who decline, cancel or report by
hand. `call[c]` is where a caller is, its row, the state it loaded and the automation setting it read; `WriteState` writes only a change from what was
loaded, as the ORM does.

| Action | Code |
|---|---|
| `EvaluateStart`, `EvaluateRead`, `EvaluateSkips`, `EvaluateInsert` | `evaluate`: the settings, read once; three look-ups; the INSERT, refused by the unique constraint when the key is there |
| `ApproveRead`, `PolicyRefused`, `ApproveCommit` | `approve` up to the commit of 'approved', by an approver or by policy |
| `Deliver` | the row is read again, then `webhook.deliver`; delivered or not, `approve` goes on |
| `SendCommit` | 'sent', `sent_at`, the node and its edges, one commit |
| `ReportRead`, `StartedCommit`, `CloseCommit` | `report` |
| `OutcomeRead`, `OutcomeInsert` | `log_outcome` as `report` calls it: look for the reference (and for the same outcome from elsewhere), insert |
| `Abort` | the call ends between two commits |
| `WindowEnds` | `window_days` have passed since a close |
| `Configure` | `configure_tenant`: kill switch and automation level |

The three look-ups of `evaluate` are one step: rows move only from absent to open to closed, so a row that
opens or closes between two of the queries is found by a later one, and whenever all three find nothing,
doing them at once at the moment of the second finds nothing either. Which episodes
trigger (`_match`) is an input. `report`'s trailing rebuild and Slack notes change
none of these rows.

`mishaps` is a history variable. It records that two evaluations overlapped
("evaluate"), that two decisions on one row did ("decide"), two loggings of one outcome
("outcome"), or that a call was cut off ("abort"). The code has no lock
against the first three. `Before(kind, P)` says that P holds until that
happens, so one run shows both that the code is right without such an overlap and
which overlap each guarantee depends on; the unconditional forms are the
violation runs.

### SignalIngest

`ingest`: rows with the optional id of their source, the text (account and
normalised words, what `content_hash` tells apart) and `occurred_at` in half
days. `Look` is the two queries and the decision; `Insert` is the INSERT, which the unique id may refuse. `Days` rounds as
`timedelta.days` does, towards minus infinity. `messy` (history) holds the texts
that arrived out of order, or in two lanes at once.

### GraphRules and ContextGraph

`GraphRules` holds the rules of the context graph as operators over two tables, sequences
of records in order of id: polarity and the gate of `upsert_edge`, the confidence clamps,
the audit's invariants (`I1` ... those that look at nodes, edges and accounts), when an edge
supersedes another by tier and writer, duplicates, revenue
aggregates with their filters, and the traversals (`get_causal_chain`, `traverse_2hop`).

`ContextGraph` is the write path. `UpsertNode` and `Reload` are `upsert_node`, for a new
and for a known key; `EdgeRead`, `EdgeCommit` and `EdgeRollback` are `upsert_edge`: a session
decides against the rows that are committed, and its insert, the rows it kills and its
update in place become visible at its commit. No constraint backs the query for a
duplicate. `retold` and `retiered` are history: a node whose subtype was replaced after
the gate had looked, an edge whose own writer changed its tier.
Left out of the audit: the checks that need the text of a title, and those of columns no
modelled write touches.

### TenantData

One tenant's uploads, staging, measurements, scores, runs, weights and proposals. A call is in a `Slot`
(a process), at a place between two commits.

| Action | Code |
|---|---|
| `Upload` | `upload_csv`: staged content replaced, a record added |
| `ProcessData`, `LookStaged`, `ReadLineage` | the run row committed as 'running'; what is staged; the upload ids, by a second query |
| `LoadAccounts`, `StampKpis`, `LoadKpis`, `PhaseFails`, `Consume` | `ingest_staged_csvs`: phase 1 and the measurements, with their commits; a phase rolled back; staging emptied |
| `ScoreRead`, `ScoreWrite`, `ScoreFails`, `SyncStatus`, `SyncFails` | `calculate_health_scores` and `_sync_account_status` |
| `Finish`, `Raise`, `Abort`, `Stop` | the end of a run, an exception and its handler, a process that stops |
| `ProposeRead`, `ProposeCommit`, `DecideRead`, `RejectCommit`, `ApproveCommit`, `NoteRecompute` | Wizard C's propose, approve and reject |
| `ConfigureRead`, `ConfigureCommit` | `configure_customer_kpis` |

A score is a function `Score` of the inputs and weights its row was computed from, so that the properties can
compare a row with what it should have been made of. `overlapped` records that two calls were under way
at once; conditions on it say which promises rest on calls not overlapping.

### LoadFiles

The loaders, opened: `StageBatch`, then per phase `LoadRoster`, `LoadSignals`, `LoadStakeholders`,
`LoadOutcome` (by row: `log_outcome` commits), `LoadNodes`, `CommitNodes`, `LoadEdges`, `PhaseBreaks`,
`ConsumeFiles`, `SeedBenchmarks`; `PersonLogs` is `log_outcome` from the interface between runs, and `Tomorrow` moves the date
that undated rows get. `db` is what is committed, `txn` what the run sees. The resolver (`AccountOf`)
looks a row's account up by name, source id and ordinal, as the code does.
A cell of a file is a model value; parsing is left out.

### SignalReview

The nodes of one signal, its row, the history `signal_reviews` and the journey. A review reads (`Review`), flushes the
nodes it decided whole (`Flush`), looks again and commits (`CommitReview`), or rolls back; `ReadEvidence`,
`WriteJourney` and `RebuildFails` are the rebuild after it.

### LlmBudget

Gated callers (`CanCall`, then `LlmCall`), extraction (`StartExtraction`, `EndExtraction`, with counters
per process that `Restart` forgets), `AskModel`, `NextDay`. A check that fails lets the call through
and a record that fails is not noticed, as in the code. Amounts are whole units.

### TenantLife

`create_customer`, `clone_customer` (one step per table, in the order of the code) and `delete_customer` (likewise) over
rows that point at each other in the ways the clone treats differently: required columns, nullable ones, ids inside JSON that it
recognises, and ids it copies as they are (`verbatim`). `SourceChanges` is a commit of
another session between two tables, `CutOff` a call that ends. What the key's commit leaves behind is `tenant = {"shell"}`.

### Foresight

Stored journeys and forecast runs. `BeginBuild`, `CommitBuild`: a rebuild reads evidence and the newest
forecast and writes whole journeys. `BeginForecast`, `FlushForecast`, `CommitForecast`: Wizard D reads
journeys and writes them back with its block. `Hear` is a signal, dated now, before or ahead, `Reject` a review that takes one out,
`ScoreMonth` a scored month, `Tick` the clock, `Release` a new generator version, `Breaks` an exception. `NowOf` is the code's 'now', which may
move back.

### HealthRules, JourneyRules, OutlookRules, PlaybookRules

Pure code, as operators, with one variable: the input looked at. Every initial state is an input and
there are no steps; the property of a module relates the result to other results (of an
input that is worse, reordered, reduced to what was cited) or to a reference definition.

* `HealthRules`: the score of a KPI from its bands, both directions; averages of pillars and account; which weights apply;
  the lifecycle stage of an age.
* `JourneyRules`: `build_journey`: episodes, phases, the monthly series with its leading (signals) and
  trailing (scores) layer, hooks, features, and the arc classifier with its precedence.
* `OutlookRules`: Wizard D's decision point, labels, strata, prior, calibrated estimate, revenue and portfolio;
  Wizard C's samples, effects, factors, and the normalising, capping and flooring of weights. The interval of a
  proportion is a parameter (`Credible`).
* `PlaybookRules`: urgency of evidence, validation of a vertical's playbooks, the overlay as a sequence of
  `configure_tenant` calls writes it, `_match` and the trigger key, stuck rows and delivery problems, the board's counts, and measured
  impact (pillars, ledger, health lift, sensitivity).

Numbers are integers in a stated unit and division rounds down where the code keeps fractions; properties about
order allow the rounding.

### Tenant and MCTenant

`Tenant` puts the ten parts above that belong to one tenant into one specification: `area` says which part a
behaviour is of, and the others rest in an initial state, so that one run checks all of them. It shows nothing of
what parts do to each other. That is modelled inside a part: tables that several parts write (accounts, measurements, scores,
weights) are in `TenantData` together, reviews and new evidence meet the forecasts in `Foresight`, and commits of other sessions meet a clone or a deletion in
`TenantLife`. `MCTenant` gives the instance, with `MCTenantData`, `MCTenantLife`, `MCLoadFiles` and `MCHealthRules` for the parts whose instance is long.

### Names that begin with Mut

A definition `MutX`, before a definition `X`, is a wrong variant of `X`: a dropped
guard, an off-by-one, a forgotten reset. They are not part of any
specification. `PROJECT.json` says which property must fail when `MutX`
replaces `X`, which shows that the property can fail at all.

## 3. Runs

| Run | Instance | Result |
|---|---|---|
| `PipelineSafety` | worker and a request, 3 rows, 2 tenants, batches of 2, any 2 faults of: model, row, handler, rebuild, crash | holds: `AtMostOnce`, `ClaimDiscipline`, `OwnEvidenceShown`, `NodeKept`, `ImplementsEvidence` |
| `PipelineLiveness` | the same drains under `FairSpec`, row 1 refused for ever, 1 fault of: model, row, read-back, rebuild | holds: `ClaimHeld`, `BecomesEvidence`, `ClaimEnds` |
| `PipelineCrash` | one worker, one crash | `BecomesEvidence` fails |
| `PipelineCanvas` | worker and a request, no fault | `CanvasCurrent` fails |
| `InterventionSafety` | two trigger keys, two evaluators, an approver, a reporter; cut-off calls; one change of settings, automation off at first (`default_automation_level`) | holds: `OneOpenAlone`, `SentOnce`, `DeclinedNotSent`, `OneOutcome`, `Accounted`, `ClosedIsFinal`, `QuietWindow` |
| `InterventionTwoPeople` | two approvers, no cut-off calls | `OneSend` fails |
| `InterventionTwoHooks` | two evaluators, no cut-off calls | `OneOpen` fails |
| `IngestSafety` | two lanes, one source id, five moments on both sides of a one-day window, any order, 3 rows | holds: `IdOnce`, `DropsAreCovered`, `OneInWindow` |
| `IngestResend` | one lane | `ResendIsSafe` fails |
| `GraphSafety` | two sessions, 3 nodes of signals and outcomes, 3 edges of four writers, all tiers | holds: `StrongestLive`, `GateMatchesAudit`, `UnearnedNotCounted`, `ChainIsCauses`, `ReloadIsTold` |
| `GraphRollup` | the same | `UnearnedNotRolledUp` fails |
| `TenantSafety` | every part of `Tenant`: six with steps, with two processes each, and four that are rules, every input | holds: the properties below |

What `TenantSafety` shows, by part:

* `TenantData`, with 2 uploads after an earlier run or on an empty tenant, 2 runs, 2 proposals, 1 fault of
  six kinds: `UploadsNotLost` (an upload is staged until its rows are in; only one made while a run is at its files
  can be deleted unread), `ScoresSeeAll` (after a whole health stage every measurement is in its month's
  score), `RecomputeTold` (a recompute on record as a success left no row under other weights),
  `CalibrationConsistent` (one open proposal, a version per approval), `RunsEnd` ('running' only while a process
  is at it or stopped), `StatusFollowsHealth` (the audit's I12, after a sync that went through and until calls overlap).
* `LoadFiles`: `LoadedOnce`, over four batches that repeat, correct and contradict each other, one of which gives a source id to another
  name, a failure in any phase: nothing twice within an account, what was consumed is in the graph, a name means one account and so does a source id that
  stays with its name, a run is committed whole.
* `SignalReview`, two reviewers and two nodes: `ReviewShown` (between reviews that did not overlap, signal, history and
  journey say what the nodes say), `ReviewStands` (however they overlap, the flag comes down only when all is decided,
  and no decision is lost).
* `LlmBudget`: `BudgetHolds`, the exact overshoot of each limit.
* `TenantLife`, a row or two in each table: `CloneClosed` (a finished clone of a source that stood still has each row once, with every column and
  every id in a form it recognises pointing into itself), `UndisturbedEnds`.
* `Foresight`, two accounts, two sessions, two changes of the facts in any direction: `ForesightShown` (a journey shows a forecast that is on record,
  flagged when the journey has moved past it; until wizards overlap it is the newest of its account).
* `HealthScored` over every value, band and weight of the instance, negative bounds and shipped contradictions among them; `JourneyRead` over all sets of up to three of
  twelve pieces of evidence with any of a score table's shapes; `OutlookSound`; `PlaybooksSound`.

*Why these bounds.* The hazards of the pipeline need two drains, a batch that one
of them shares in part with the other (3 rows, limit 2, two tenants with one
drain that serves a single tenant), and a fault in either while the other is mid-batch. Those of
interventions need two keys, to tell the unique constraint from the open-row check,
and two overlapping callers of any kind, with a third that closes the row meanwhile.
Two evaluators by policy are also two approvers. Words recur beyond the window and are re-sent with
three rows. In the graph, a cycle and a chain of supersessions need three edges, and a row that is revived wrongly, or a claim two
sessions lose together, two sessions. In `TenantData`, two uploads are one that a run consumes and one that races with it, two
runs are one that fails and its repetition, or two that overlap, and two proposals are one that supersedes
the other; the rules on overlap look at one account, since accounts do not meet there. A review that takes a signal back and evidence of the past need two changes of the facts
and a clock that moves; a source id that moves needs the batch it comes with, one that moves it, and a retry. Three months and three signals
reach every branch of the journey rules' precedence, each of which was seen to be taken.

Every bound is a guard of the action it bounds: `MaxRows`, `MaxFaults`, `MaxFlips`; `MaxNodes`, `MaxEdges`;
`MaxUploads`, `MaxRuns`, `MaxProposals`; `MaxReviews`; `MaxCalls`, `MaxDays`, `MaxFailures`, `MaxRestarts`;
`MaxDate`, `MaxFacts`, `MaxForecasts`, `MaxBuilds`, `MaxReleases`; `MaxLoads`, `MaxLoadFaults`, `MaxDay`. Guards that only cut
the history explored (which calls may begin beside which) are marked "Bound" where they stand. `Crashes` switches `Abort`.

Symmetry in `InterventionSafety` permutes keys and callers of one kind, in `TenantSafety` the two
processes and the two accounts of the forecasts; every property checked there is a safety property that treats them alike. Deadlock is not checked:
all systems rest when nothing is left to do, and those of the rules have no steps.

*Fairness.* Liveness is stated for the pipeline only. `FairSpec` of `SignalPipeline`: a thread that started a pass runs on
(weak fairness of `Step`), and the worker starts one when there is something to
select, because `SignalEnrichmentWorker._loop` (worker.py:87-120) polls for ever
and survives every exception of a pass. Nothing obliges a request to start, a
communication to arrive or a fault to happen. `BecomesEvidence` excludes the
rows in `Refused`, and needs fewer such rows than the batch limit (below). Elsewhere nothing in the code retries: a run that failed, a
proposal or an intervention waits for a person or an outside system.

### What the violation runs say

* `PipelineCrash`: the claim is committed before the work and has no owner or age;
  after a crash or a deploy in mid-batch those rows stay at -1, for which no code looks
  (`worker.py:4-6` promises the opposite).
* `PipelineCanvas`: `run_wizard_a` reads, builds and commits without checking that
  the stored journey is not newer (`pipeline.py:354-355`). The
  journey is repaired by the next rebuild of that account.
* `InterventionTwoPeople`: `approve` checks a loaded state and writes
  unconditionally (`governance.py:312`). Receivers that deduplicate by intervention id
  absorb the second delivery; the second INTERVENTION node stays.
* `InterventionTwoHooks`: the open-row check and the insert are two steps, and the constraint
  covers equal trigger keys only (`governance.py:142`).
* `GraphRollup`: `aggregate_revenue_across_accounts` sums outcomes with no confidence filter, so an outcome without evidence, clamped to 0.3,
  is in the amounts the comment at the clamp says it is kept out of (`context_graph_invariants.py:1367-1382`).
* `IngestResend`: only the newest row by id with the same words is compared, so once words recur beyond the window, the
  older communication is new each time it is sent (`scripts/onboard_tenant.py:12`).

### Seen while modelling, without a run

* *The fault "read"* (pipeline.py:419-431): an exception in the reads after a
  row's commit reaches the handler, which puts a materialized row back in the queue;
  it is materialized again. `AtMostOnce` and `NodeKept` fail with `"read"` in `Faults`.
* *The fault "handler"*: if the handler raises, the rest of the batch
  keeps the sentinel; `ClaimEnds` fails with `"handler"` in `Faults`.
* *Starvation*: as many refused rows as the batch limit at the head of the
  queue are selected by every pass; `BecomesEvidence` fails with `Refused = {1, 2}` and a limit of 2.
* *Decline against approve*, *repeated callbacks*, *a cut-off approve*, *two ingest lanes*: `DeclinedNotSent`,
  `OneOutcome`, `Accounted` and `OneInWindow` fail without their conditions. The
  conditions are exactly these overlaps.
* *Status syncs that overlap.* `_sync_account_status` reads scores, then accounts, then commits, without a lock; the older of two
  overlapping calls can commit last, and the status contradicts the latest score until the next sync (`process_data_pipeline.py:248-249` says
  it keeps them in step). `StatusFollowsHealth` fails without its condition that no two calls overlapped.
* *Copies and Wizard B.* `realized_nrr` sums each outcome row with a bucket, copies included. The audit's I13, which calls itself its guard
  (`context_graph_invariants.py:859-860`), looks at four subtypes; another, such as a lost refresh, loaded twice is counted twice and reported by
  nobody. `ReloadIsTold` fails if its last part is asked of every subtype.
* *Ids a clone leaves.* `linked_signal_ids` is no key the clone lists, and a `source_ref` is copied as it is, so outcomes of a clone
  name rows of the source (`cs_pulse_onboarding.py:1665-1666` says nothing gets missed). Run, upload and signal columns that are copied as they
  are hold no id. `CloneClosed` fails if it asks that `verbatim` be empty.
* *Colors of a KPI.* A lower-is-better KPI scores 70 at its target, whatever its ranges call healthy; the data-center catalog has targets at the
  far end of the yellow range (`config/dc2s_kpi_catalog.json:338-353`), so yellow values have healthy scores. `HealthScored` compares a score with the
  boundaries the scorer reads, the target and the end of the risk range.
* *'Now' that moves back.* Staleness compares dates in one direction. A review that rejects the newest signal, or evidence of the past in an account
  read as of the clock, moves 'now' back, and a forecast stands unflagged that is dated after its journey
  (`docs/design/wizard-d-foresight.md:39` says evidence that arrived marks it). `ForesightShown` says only that a journey that has moved past its forecast flags it.
* *A source id that moves.* `load_accounts` knows accounts by name. A file that gives a source id to a new name makes a second account, the id's
  rows go to it from then on, and a retry of a failed load stores there again what the first attempt stored elsewhere (`csv_ingest.py:22-24` says a
  retry never duplicates). `LoadedOnce` is about one account at a time, and about source ids that stayed with their name.
* *The kill switch* is read once at the start of `approve`; a switch turned
  on before the delivery does not stop it.
* *Tenant lifecycle.* Making an API key commits (api_key_service.py:107-108), in the middle of `create_customer` and
  `clone_customer`: a call cut off after it leaves a tenant without toggles, or an empty clone, and the
  retry is refused since the domain is taken. A source that changes during a clone makes it fail, drops a nullable
  reference, or leaves an id of the source inside JSON; the run of a forecast is looked up the last way, too.
* *Staging* holds one file per type, and a run empties it by tenant, not by what it read: an
  upload made in between is gone. A failed status sync and a failed month leave a run 'success'. A run whose process
  stopped stays 'running'. Measurements stamped before and committed after a concurrent scoring are not scored
  until the month is reopened.
* *Loaders.* Undated engagement events and outcomes are stored again by every reload on another day, corrected
  values are dropped by ON CONFLICT DO NOTHING, rows of unknown accounts are consumed, of two staged
  account files the second is consumed unread, and two outcomes that agree in type, day and revenue are one. `LoadedOnce` says what remains true.
* *Calibration.* approve and reject write unconditionally, so two of them that overlap can give two proposals one version;
  a weight halved often enough rounds to 0.0000 and then counts as 1 (generic_scorer.py).
* *Scores.* `higher_is_better` gives the direction of a KPI with ranges and the operator of its target that of one without; the two may disagree. A target of 0 makes a KPI ignore its ranges; a month whose KPIs all have no weight scores 0, which is critical.
* *Reviews.* Two reviewers who decide the last two nodes at once leave the flag up; an accept that meets a reclassify keeps the new subtype with the
  old role. `review.py:77` looks a signal up by an id that is unique per tenant only.
* *Budget.* Enrichment and Ask AI do not ask `can_call`, though the controller says all callers must
  (llm_budget_controller.py:5); a limit of 0 is none; failed extraction calls are counted nowhere.
* *Forecasts.* Wizard D writes back whole journeys it read earlier, over a rebuild that came in between; evidence that is
  late, but dated before the forecast, does not make it stale, nor does a review that rejects the newest signal.
* *Journeys.* `product_friction` is a negative role, but does not speak against a steady account; evidence between
  scored months more than two apart shows in no month; `exec_sponsor_change` may rest on a signal it does not cite.
* *Playbooks.* A renewal that passed counts as zero days ahead and still satisfies `renewal_within_days`; trigger roles that
  the leading layer excludes are accepted and never fire; two overlapping `configure_tenant` calls write one JSON value; an
  outcome that two interventions name is realized under both playbooks and once in the ledger.

## 4. Proofs

| Module | Theorem | Statement | Assumes |
|---|---|---|---|
| `SignalPipelineProofs` | `TypeCorrect` | `Spec => []TypeOK` | `PipelineAssumption` |
| | `ClaimDisciplineHolds` | `Spec => []ClaimDiscipline` | and `"read" \notin Faults` |
| | `AtMostOnceHolds` | `Spec => []AtMostOnce` | the same |
| | `NodeKeptHolds` | `Spec => NodeKept` | the same |
| | `ImplementsEvidenceHolds` | `Spec => ImplementsEvidence` | the same |
| `SignalIngestProofs` | `IngestTypeCorrect` | `Spec => []TypeOK` | `IngestAssumption` |
| | `IdOnceHolds` | `Spec => []IdOnce` | the same |
| | `DropsAreCoveredHolds` | `Spec => []DropsAreCovered` | the same |
| | `OneInWindowHolds` | `Spec => []OneInWindow` | the same |
| `InterventionProofs` | `InterventionTypeCorrect` | `Spec => []TypeOK` | `InterventionsAssumption` |
| | `OneOpenAloneHolds`, `SentOnceHolds`, `DeclinedNotSentHolds`, `OneOutcomeHolds`, `AccountedHolds` | `Spec => []P` for the property named | the same |
| | `QuietWindowHolds`, `ClosedIsFinalHolds` | `Spec => QuietWindow`, `Spec => ClosedIsFinal` | the same |
| `ContextGraphProofs` | `StrongestLiveHolds`, `GateMatchesAuditHolds`, `UnearnedNotCountedHolds`, `ChainIsCausesHolds` | `GraphSpec => []P` | `GraphAssumption` |
| | `ChainFindsHolds` | `GraphSpec => [](\A depth \in Nat : ChainFinds(depth))` | the same |
| | `ReloadIsToldHolds` | `GraphSpec => ReloadIsTold` | the same |
| `TenantDataProofs` | `RunsEndHolds`, `StatusFollowsHealthHolds`, `UploadsNotLostHolds`, `ScoresSeeAllHolds`, `RecomputeToldHolds`, `CalibrationConsistentHolds` | `TenantSpec => []P` | `DataAssumption`, `ThresholdAssumption` |
| `RuleProofs` | `HealthScoredHolds` | `HealthSpec => []HealthScored` | `ThresholdAssumption`, `BandAssumption`, `CatalogAssumption` |
| | `EvidenceSymmetricHolds` | `OutlookSpec => [](outlook.of = "samples" => EvidenceSymmetric(outlook))` | `SampleAssumption` |
| | `WeightsSoundHolds` | `OutlookSpec => [](outlook.of = "weights" => WeightsSound(outlook))` | `WeightAssumption` |
| | `OutlookSoundHolds` | `OutlookSpec => []OutlookSound` | `ForecastAssumption`, `SampleAssumption`, `WeightAssumption` |
| `LoadProofs` | `LoadedOnceHolds` | `LoadSpec => []LoadedOnce` | `UploadAssumption`, `AtFirstAssumption` |
| `TenantProofs` | `ReviewShownHolds` | `ReviewSpec => []ReviewShown` | `ReviewAssumption` |
| | `ReviewStandsHolds` | `ReviewSpec => ReviewStands` | the same |
| | `BudgetHoldsAlways` | `BudgetSpec => []BudgetHolds` | `BudgetAssumption` |
| | `ForesightShownHolds` | `ForesightSpec => []ForesightShown` | `ForesightAssumption` |
| | `CloneClosedHolds`, `UndisturbedEndsHolds` | `LifeSpec => []P` | `SchemaAssumption` |

Most assumptions only give the constants their kinds: numbers, finite or disjoint sets, values that are not
in a set. The numbers of rows, tenants, drains, lanes, callers, sessions, moments and faults, the window and the scopes are arbitrary.
These say more, and TLC evaluates each of them on the instance of a run:

* `GraphAssumption`: what is upserted is a row of the two tables, and two nodes of an account with one event id have
  one type. Every caller makes the id from the table it reads (`sig-`, `ref:`, `intervention:`, ...), and looks nodes up by account and id.
* `DataAssumption`: the file of accounts brings no measurements, and a measurement has a month.
* `ReviewAssumption`: a signal under review has a node (`review.py:80-82` refuses one without), and finitely many.
* `SchemaAssumption`: a demo tenant is closed. An id names one row, of a table the deletion knows; what a column or a JSON value
  names is there, and is of a table that column is for: the foreign keys of `models.py`, and for JSON what
  `cs_pulse_onboarding.py:1630-1660` found in one. Which rows there are, and how many, is free.
* `UploadAssumption`: the files of a batch are lists of rows, of types the loaders know. A row of an accounts file has a name, and the title of a decision is not the id of one. `AtFirstAssumption`: the tables before the first run are such as the loaders leave (`Tables`).
* `BandAssumption`: the two bands are apart and within 0..100 (`config/health_thresholds.json`); `CatalogAssumption`: a KPI is of
  one pillar or none (the vertical files), bounds and targets are integers, negative ones too, in any order, and weights are numbers from 0.
* `ForecastAssumption`: an account has finitely many outcomes and months, an outcome has a day and an id of its own, factors are 0.5 to 2
  (`config/wizard_d.json`), a calibrated forecast needs a label, and the interval around a proportion holds it.
* `SampleAssumption`: a calibration looks at finitely many samples. `WeightAssumption`: the weights a pillar starts from sum to the unit, the cap is at least
  one half of it (`config/wizard_c.json`), and a factor is between 0.5 and 1.5, as `_factor` gives it.

*The pipeline.* `AtMostOnce` is not inductive: from a state where two drains hold
one row, both would write it. The strengthening is `ClaimDiscipline`, whose parts
say (1) the history agrees with the column, `written = 1` exactly when `cg` is a
node; (2) only stored rows have left NULL; (3) the rows a drain has selected and
not yet claimed are NULL and locked by it alone; (4) the rows in a drain's loop
carry the sentinel, except the one it has just committed, and no other drain has
them. (3) is what the row locks give and (4) what the claim gives when the locks are gone: `Claim` turns
one into the other, and without the sentinel commit (4) is lost at the first
commit of a row. Each action preserves the conjunction, `Crash` included: it leaves rows at the sentinel but gives them
to nobody. The assumption `"read" \notin Faults` is needed: `Release` after
`ReadBackRaises` would take a node from a row. The refinement needs (1), (3)
and (4) to show that what is taken is queued and what is produced or put back is held.

*Ingest.* `IdOnce` and `DropsAreCovered` are inductive with the types: rows are only appended, and the unique
id is checked again by the insert. `DropsAreCovered` turns on the rounding of `Days`, which says that at most
`Window` whole days are less than `Window + 1` days. `OneInWindow` is not inductive, since only the newest row with the same words
is compared. `Arrivals` adds why that is enough for a text that is not `messy`: its rows are in order of `occurred_at`, none is later than the
text's `clock`, and what a lane is about to insert is at least as late, far from every row, and in no other
lane. That a text with a row has a newest one needs `Stored` to be finite.

*Interventions.* `OneOpen` is not inductive: a caller that wrote "sent" to a row closed behind its back would open it
beside a newer one. `OneMatter` rules the newer one out: all calls that have a row have the same one, nothing else is open, and if it is
closed, its close is recent, so `evaluate` finds it; between look-up and insert of
an evaluation nobody has a row. It holds until two evaluations overlap, whatever approvals, reports, cut-off calls and the settings do. Steps fall into three kinds, with a
lemma each: a caller lets go of its row (`MatterLeft`), takes the open one (`MatterEntered`), or writes its own
(`MatterWorkedOn`). The window is what makes this work, with a call that
lasts less than `window_days` (the guard of `WindowEnds`).

`SentOnce`, `DeclinedNotSent` and `ClosedIsFinal` share the strengthening `OneDecision`, which holds until two decisions on one row
overlap: each row is in one of the shapes the code leaves (what state, `sent_at`, the node and the deliveries may say together), a caller
that approves, delivers or sends is the only one deciding its row, and the row is where that place of the call expects it: proposed, approved and not
delivered, approved and delivered once. A call that loaded a closed row finds it closed later.
`OneOutcome` needs what a logger holds between look-up and insert (`OnRecordOnce`: nobody else is logging for the row, and what it did not
find is not there). `Accounted` holds through races, so its strengthening `Owed` does not speak of overlaps: each row that says 'approved'
has a caller about to deliver or to write 'sent', and for each payload that went out there is such a caller, or the row says 'sent', or it was
reported on.

*Context graph.* `StrongestLive` says that every triple with a row has a live one nothing on record outranks, for any number of
sessions, nodes, edges and writers, as long as no writer changed the tier of its own row. `Outranks` (tier, then writer) is shown to be a strict partial order. The
strengthening adds what a session holds between its read and its commit: a fresh write kills only rows its own
row outranks, and is born dead only under a row that outranks it; an update in place is of a row of the same triple and writer.
Other sessions may commit meanwhile and leave all this true, since rows are only appended and neither tier nor writer changes. The live row
that nothing outranks is carried from step to step, so no finiteness is needed.

`GateMatchesAudit` and `UnearnedNotCounted` use `NodeInv` (every stored outcome with no evidence is clamped, also one written over) and
`GateInv` (a live or waiting edge passed the gate for the nodes as they are now, except those retold since). That a
reload keeps a node's type is where the assumption on event ids enters. `ChainIsCauses` compares a bounded walk with
reachability at depth 3, where TLC can follow it; a caller of the code chooses the depth (`max_depth`, 5 by default), and
`ChainFindsHolds` is for every depth, on every graph. Induction on the level shows that a walk of each depth exists, and that what it has
visited after `k` levels is what a causal path of at most `k` edges reaches: of a node that was expanded, all neighbours are at hand. That a path may
be taken in pieces, and that a shorter one is among the longer, are lemmas on `Paths`. `ReloadIsTold`
shows that the rows a deduplicated sum runs over, with their amounts, are the same function before and after, where sums of equal functions need no induction,
and that the copy and its original are two rows of one account, amount, tag and subtype: what Wizard B sums and what I13 looks for.

*Uploads, runs and scores.* Six invariants, each with the part of the state its property is about, TLC-checked before: `RunInv` (a call is at one
run, in the states that have one), `StatusInv`, `UploadInv` (who holds what was staged, and that a run's upload ids
were staged when it looked), `TypeInv`, `ScoreInv` (until calls overlap: a score is of everything measured before its stamp, and what the
one call at work has read is still so) and `WeightInv` (what the deciding call knows of the proposal, which is open, and of the version; the
weights in force and the rows that show them). The clock of the model is the greatest stamp plus one: that it exists for finite
sets, and that a new stamp is later than all others, is the lemma `GreatestOfFinite`, from the library's theorem on well-founded sets.
`UploadsNotLost` holds also when calls overlap, and so does its invariant. `StatusFollowsHealth` does not: `StatusInv` says of the one call at work that what it
read is still the latest score, and what it is about to write is the status for it.

*Reviews.* `ReviewStands` needs only `Shape`: a session that flushed a decision knows which nodes it picked, and once it has seen all nodes decided
they stay so, since no action takes a decision back. `ReviewShown` needs, until reviews mix, that the session at work has what is there and that the history
ends with each node's status (`Unmixed`). The urgency of a signal is a greatest element of a finite set, again by the well-founded theorem.

*Budget.* `BudgetHolds` does not say how many callers are past their check. The strengthening adds that what
gated callers spent is in the ledger up to a call per failed record, that spending and a call for each
permit stay below limit and overshoot, and that a process life counts at most `PerProcess + Threads - 1` extractions.
`TenantSafety` checks the same formula as part of `Tenant`.

*Forecasts.* `OnFile` says what holds whatever overlaps: the block of a stored journey, and of a journey some session has in
hand, names a run that is on record with its date, and an unflagged one is of a journey that is not later. Nothing is said of the facts, which change in any direction. `InTurn` says what one wizard at a time adds: the stored journeys and the
ones in hand show the newest block, and a wizard's copies are the stored ones. The proof showed that `ForesightShown` did not need an
exception the property used to make while a wizard is at work; it was dropped.

*Tenant lifecycle.* `LifeInv` follows clone and deletion step by step. `CopiedUpTo(k)`: after k steps there is one copy for each row of the tables
done, every column carried over, and nothing left in the JSON of a table that is settled, which is at its own step or, for the
three tables that point ahead, at their second pass. `DeletedUpTo(k)` is the same for the deletion. The heart is `StepsFind` and
`DeletionsFind`, which go through the two lists once: each table comes after those its columns and its JSON name, and is emptied
after those that point at it. A list in the wrong order fails there. That columns stay inside the clone holds through any disturbance.

*Sums.* What a fold over a finite set computes is proved by induction after all: the library's induction theorems take operators, but its
theorem on well-founded orders, which are sets, needs none: a smallest counterexample among the naturals, or among the subsets of a finite
set, is enough (`NatInductive`, `SubsetInduction`). `RuleProofs` derives from them that a sum adds up over a split, is monotone, and lies between the
bounds its terms give; `Max` and `Min` of a finite set likewise.

*Scores.* `HealthScored` is then: a score is a piecewise linear function of the value, whose pieces meet in the order of the bands, for
both directions of a KPI, with the rounding the code has, over integers of either sign; without ranges, the ratio to the target the way its operator points; an average with weights that are not all 0 lies between the least and the greatest of
what it averages, and follows each of them; the stages split the ages.

*Calibration.* `EvidenceSymmetric` needs that the effect size exists: the variance under its root is not negative, by
Cauchy-Schwarz for a finite sum, again by induction, and the root of a number lies below it. Turning the labels
changes the sign of the effect, and the factor is odd about its middle. `WeightsSound` follows the weights
through the three steps of the code. Each share is rounded by at most half a unit, so the parts of `n` KPIs miss the sum by `n/2` at most,
which the last one takes. What is over the cap is given to the rest in proportion; with a cap
of one half at most one weight can be over it, so one round is enough, the sum is kept, and the order of the rest up to the rounding.

*Forecasts' arithmetic.* Sorting outcomes by day is a list with one place per outcome, by a count of what comes sooner (`ByDay`); gathering a list into
decisions is an induction over its length, kept as a table over its prefixes: each outcome is in one group, groups are more than a window apart, and the months before a
group's first day do not change with later ones. A product of factors is monotone in each, also with the rounding; the prior, the counts of a stratum and the interval
then give an estimate between prior and rate. A loss is one label more, of its own, that is not retained.

*Loading.* The loaders fold over the rows of a file. `TableExists` unfolds such a fold: for each set of rows there is a table of
the results over its subsets, by induction on the subsets. What a row does to the tables is `Grown` (rows are added, nothing is taken) or, for
an account that comes again under another name, `Rejoined`. The inductive invariant `LoadInv` has the shape of the records,
that committed tables and those a run sees are sound (`Sound`: nothing twice, names and ids of one account, edges inside their
tenant), that the two agree between phases (`Settled`), what a run that is past a phase has in its tables (`DoneIn`), and that a run only moves on
(`Progress`). A failure rolls back to what was committed, and that has the same soundness: this is why `Sound` must hold at every commit of a row.

*The pipeline once more.* `OwnEvidenceShown` is about a pass and its own rows, so `ShownInv` (what a pass calls done is a node, and
in nobody's loop) suffices with every fault. `ClaimHeld` is checked with the fault "read", under which
`ClaimDiscipline` fails; the weaker `Holding` keeps locks and loops apart without saying that the rows of a loop are not yet
nodes, and from it `Held` follows as long as no process stops and no handler raises (that is its assumption).

Only model-checked: `BecomesEvidence` and `ClaimEnds`, since liveness under fairness (and ENABLED in it) is outside what the prover
does here; and `JourneyRead` and `PlaybooksSound`, long case analyses over folds of signals,
months and playbooks whose every branch `TenantSafety` takes.

## 5. Not modelled

* *App API: login, users* (`app_api/`): cookies, roles and scopes are look-ups of one row; no modelled part writes them.
* *Wizard B* (hindsight): aggregates over closed journeys, read by nobody who writes, except which outcomes its revenue sums (`Realizing`).
* *ROI scenarios, benchmarks, priorities*: arithmetic on what is shown.
* *Worker heartbeat and back-off*: pauses between polls, which the fairness of the pipeline already allows; the
  heartbeat is read by `/health` alone. (Its staleness threshold of 180 s, server.py:157, is less than the 300 s a worker
  backs off after repeated errors.)
* *Vertical files and taxonomies*: their content is a constant of the rules; the registry's cache is per process.
* *Text*: prompts, narratives, Ask AI's answers, Slack, e-mail and source adapters, which end in `ingest`.
* *Migrations, scripts, demo data, front end, deployment.* The schema is modelled where a unique constraint or a cascade decides something.
