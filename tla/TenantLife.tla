----------------------------- MODULE TenantLife -----------------------------
(***************************************************************************)
(* How a tenant begins and ends: create_customer, clone_customer (a deep   *)
(* copy of a demo tenant, table by table, every id replaced by the id of   *)
(* its copy) and delete_customer.                                          *)
(*   mcp_server/cs_pulse_onboarding.py, api_key_service.py                 *)
(*                                                                         *)
(* A row has an id, which names its table, and points at other rows in     *)
(* three ways: by a required column, a foreign key (the clone looks it up  *)
(* with map[id], which raises on an unknown id), by a nullable one         *)
(* (map.get(id), which gives NULL), and by a string id or from inside JSON *)
(* (map.get(id, id), which leaves an unknown id as it is).  Inside JSON    *)
(* the clone finds an id by the key it is under or by the whole text it is *)
(* in; an id under another key, in another text, or in a column that is    *)
(* copied as it is, stays.  Each table is a query of its own and sees what *)
(* other sessions committed meanwhile.                                     *)
(* Names that begin with Mut are wrong variants.                           *)
(***************************************************************************)
EXTENDS Naturals, Sequences

CONSTANTS
  TableOf(_),           \* the table of an id
  SourceRows,           \* the rows of a demo tenant when the call begins
  LaterRows,            \* rows other sessions may commit while it is at work
  Credential            \* what a clone never inherits: keys, webhook and Slack targets

VARIABLES
  source,               \* the rows of the demo tenant
  tenant,               \* what the new tenant has: "shell" (customer, configuration,
                        \* administrator, key), "toggles", "copy"
  job,                  \* "idle", "creating", "cloning", "deleting", "done", "failed", "refused"
  step,                 \* how many steps of the job are done
  copies,               \* uncommitted: rows of the clone, named by the id they were copied from
  deleted, accounts,    \* uncommitted: rows deleted; the accounts there were at first
  disturbed             \* history: the source changed meanwhile, or the call was cut off

cvars == <<source, tenant, job, step, copies, deleted, accounts, disturbed>>

\* A row and its copy have the same fields; in a copy required and nullable are ids
\* whose copies it points at, inside is split into those and the ids left as they were,
\* and verbatim are ids in a form, or a column, that the clone does not look into.
Row(id, required, nullable, inside, verbatim, holds) ==
  [id |-> id, required |-> required, nullable |-> nullable, inside |-> inside,
   verbatim |-> verbatim, holds |-> holds]

\* The order of the work.  A table is copied by the step of its name; a step "+t" goes
\* over the copies of t again for the ids that were not there the first time.
MutSteps ==
  <<"feature_toggles", "accounts", "context_nodes", "context_edges", "process_runs",
    "csv_uploads", "+process_runs", "health_scores", "csv_upload_staging", "+context_nodes",
    "+context_edges", "interventions", "forecast_runs", "account_forecasts",
    "weight_calibrations", "kpi_measurements", "qualitative_signals", "signal_reviews",
    "wizard_runs", "journey_data">>

Steps ==
  <<"feature_toggles", "accounts", "context_nodes", "context_edges", "process_runs",
    "csv_uploads", "+process_runs", "health_scores", "csv_upload_staging", "interventions",
    "+context_nodes", "+context_edges", "forecast_runs", "account_forecasts",
    "weight_calibrations", "kpi_measurements", "qualitative_signals", "signal_reviews",
    "wizard_runs", "journey_data">>

Again == [t \in {"+process_runs", "+context_nodes", "+context_edges"} |->
            CASE t = "+process_runs" -> "process_runs" [] t = "+context_nodes" -> "context_nodes"
              [] t = "+context_edges" -> "context_edges"]

\* Tables whose own rows are in the map when their columns are filled: the superseded_by
\* of edges and of calibrations is a second pass.
OwnFirst == {"context_edges", "weight_calibrations"}

\* delete_customer empties the tables in this order.
MutDeletions ==
  <<"interventions", "account_forecasts", "forecast_runs", "weight_calibrations", "context_edges",
    "context_nodes", "journey_data", "signal_reviews", "accounts", "qualitative_signals",
    "health_scores", "kpi_measurements", "wizard_runs", "process_runs", "csv_upload_staging",
    "csv_uploads", "llm_usage_log", "feature_toggles", "customer_api_keys",
    "users", "customer_configs", "customers">>

Deletions ==
  <<"interventions", "account_forecasts", "forecast_runs", "weight_calibrations", "context_edges",
    "context_nodes", "journey_data", "signal_reviews", "qualitative_signals", "health_scores",
    "kpi_measurements", "wizard_runs", "process_runs", "csv_upload_staging", "csv_uploads",
    "llm_usage_log", "feature_toggles", "customer_api_keys", "accounts", "users",
    "customer_configs", "customers">>

-----------------------------------------------------------------------------
\* What the rows of a demo tenant point at: required columns (the foreign keys of
\* models.py), nullable ones, the ids inside JSON that a clone recognises, and those it does
\* not: an outcome names the signals before it as texts (outcomes.py:116) and the
\* intervention that reported it in its source_ref (governance.py:413-414), which is copied
\* as it is.  (The JSON of runs, uploads and signals that is copied as it is holds no id.)
OfAccount ==
  {"context_nodes", "health_scores", "interventions", "account_forecasts", "kpi_measurements",
   "qualitative_signals", "signal_reviews", "journey_data"}

RequiredOf(table) ==
  CASE table \in OfAccount -> {"accounts"} [] table = "context_edges" -> {"context_nodes"}
    [] OTHER -> {}

NullableOf(table) ==
  CASE table \in OwnFirst -> {table}
    [] table \in {"interventions", "qualitative_signals", "signal_reviews"} -> {"context_nodes"}
    [] table \in {"kpi_measurements", "csv_upload_staging"} -> {"csv_uploads"}
    [] table = "csv_uploads" -> {"process_runs"}
    [] table = "health_scores" -> {"csv_uploads", "process_runs"}
    [] OTHER -> {}

InsideOf(table) ==
  CASE table = "context_nodes" -> {"context_nodes", "health_scores", "interventions"}
    [] table = "context_edges" -> {"context_nodes"}
    [] table = "wizard_runs" -> {"accounts", "context_nodes", "forecast_runs", "process_runs"}
    [] table = "forecast_runs" -> {"accounts"}
    [] table = "process_runs" -> {"csv_uploads"}
    [] table = "interventions" -> {"context_nodes", "health_scores"}
    [] table = "weight_calibrations" -> {"accounts", "context_nodes", "process_runs"}
    [] table \in {"account_forecasts", "journey_data"} ->
         {"accounts", "context_nodes", "health_scores", "interventions", "forecast_runs"}
    [] OTHER -> {}

VerbatimOf(table) == IF table = "context_nodes" THEN {"context_nodes", "interventions"} ELSE {}

\* A demo tenant is closed: an id names one row, of a table that a deletion
\* empties, and what a row points at is there and of a table the columns are for.
ASSUME SchemaAssumption ==
  LET ids == {r.id : r \in SourceRows} IN
  /\ \A q, r \in SourceRows : q.id = r.id => q = r
  /\ \A r \in SourceRows :
       /\ \E i \in DOMAIN Deletions : Deletions[i] = TableOf(r.id)
       /\ \A x \in r.required : x \in ids /\ TableOf(x) \in RequiredOf(TableOf(r.id))
       /\ \A x \in r.nullable : x \in ids /\ TableOf(x) \in NullableOf(TableOf(r.id))
       /\ \A x \in r.inside : x \in ids /\ TableOf(x) \in InsideOf(TableOf(r.id))
       /\ \A x \in r.verbatim : x \in ids /\ TableOf(x) \in VerbatimOf(TableOf(r.id))

LifeInit ==
  /\ source \in {SourceRows, {}} /\ tenant = {} /\ job = "idle" /\ step = 0
  /\ copies = {} /\ deleted = {} /\ accounts = {} /\ disturbed = FALSE

-----------------------------------------------------------------------------
IdsOf(rows) == {r.id : r \in rows}
RowsIn(rows, table) == {r \in rows : TableOf(r.id) = table}

\* Creating and cloning begin alike: a domain in use is refused; otherwise customer,
\* configuration and administrator are added, and making the key commits them
\* (api_key_service.py:107-108), before there is anything else.  A call that failed may
\* be made again.
Begin(kind) ==
  /\ job \in {"idle", "failed"} /\ deleted = {}
  /\ IF tenant = {} THEN tenant' = {"shell"} /\ job' = kind
     ELSE job' = "refused" /\ UNCHANGED tenant
  /\ step' = 0
  /\ UNCHANGED <<source, copies, deleted, accounts, disturbed>>

\* create_customer ends with the toggles of the beta features.
AddToggles ==
  /\ job = "creating"
  /\ tenant' = tenant \cup {"toggles"} /\ job' = "done"
  /\ UNCHANGED <<source, step, copies, deleted, accounts, disturbed>>

\* Whatever is not committed is gone.
Fail == job' = "failed" /\ copies' = {} /\ deleted' = {} /\ step' = 0

\* A call is cut off or meets an error of the database.
CutOff ==
  /\ job \in {"creating", "cloning", "deleting"}
  /\ Fail /\ disturbed' = TRUE
  /\ UNCHANGED <<source, tenant, accounts>>

-----------------------------------------------------------------------------
\* The maps as the step sees them.
Known(table) ==
  IdsOf(copies) \cup IF table \in OwnFirst THEN IdsOf(RowsIn(source, table)) ELSE {}

\* The copy of a row; inside it, the ids of known rows are replaced and the rest stay, and
\* an id the clone does not recognise stays whatever it knows.
CopyOf(r, known) ==
  [id |-> r.id, required |-> r.required, nullable |-> r.nullable \cap known,
   inside |-> [replaced |-> r.inside \cap known, left |-> r.inside \ known],
   verbatim |-> r.verbatim, holds |-> r.holds \ Credential]

\* Copying a table: a row whose required column points at no copied row raises.
CopyTable(table) ==
  LET rows == RowsIn(source, table) IN
  IF \A r \in rows : r.required \subseteq Known(table)
  THEN /\ copies' = copies \cup {CopyOf(r, Known(table)) : r \in rows}
       /\ step' = step + 1
       /\ IF step' = Len(Steps) THEN job' = "done" /\ tenant' = tenant \cup {"copy"}
          ELSE UNCHANGED <<job, tenant>>
       /\ UNCHANGED deleted
  ELSE Fail /\ UNCHANGED tenant

\* The second pass over what was read the first time.
Replace(c) ==
  LET known == IdsOf(copies) IN
  [c EXCEPT !.inside = [replaced |-> c.inside.replaced \cup (c.inside.left \cap known),
                        left |-> c.inside.left \ known]]

CopyAgain(table) ==
  /\ copies' = {IF TableOf(c.id) = table THEN Replace(c) ELSE c : c \in copies}
  /\ step' = step + 1
  /\ UNCHANGED <<job, tenant, deleted>>

CloneStep ==
  /\ job = "cloning"
  /\ LET next == Steps[step + 1] IN
     IF next \in DOMAIN Again THEN CopyAgain(Again[next]) ELSE CopyTable(next)
  /\ UNCHANGED <<source, accounts, disturbed>>

-----------------------------------------------------------------------------
\* delete_customer reads the ids of the accounts first: measurements and scores are
\* found by them.
BeginDelete ==
  /\ job = "idle"
  /\ job' = "deleting" /\ accounts' = IdsOf(RowsIn(source, "accounts"))
  /\ UNCHANGED <<source, tenant, step, copies, deleted, disturbed>>

Remaining == source \ deleted

Doomed(table) ==
  {r \in RowsIn(Remaining, table) :
     table \in {"health_scores", "kpi_measurements"} => r.required \subseteq accounts}

\* Edges go with their nodes and forecasts with their run (ON DELETE CASCADE).
Falling(rows, table) ==
  LET under == CASE table = "context_nodes" -> "context_edges"
                 [] table = "forecast_runs" -> "account_forecasts" [] OTHER -> "none"
  IN {r \in RowsIn(Remaining, under) : (r.required \cup r.inside) \cap IdsOf(rows) # {}}

\* A row that something left still points at cannot be deleted, and every row points at
\* its customer.
DeleteTable(table) ==
  LET doomed == Doomed(table)
      gone == doomed \cup Falling(doomed, table)
      left == Remaining \ gone
  IN IF (\E r \in left : r.required \cap IdsOf(doomed) # {}) \/ (table = "customers" /\ left # {})
     THEN Fail /\ UNCHANGED source
     ELSE IF step + 1 = Len(Deletions)
     THEN /\ source' = left /\ job' = "done" /\ step' = 0 /\ deleted' = {}
          /\ UNCHANGED copies
     ELSE /\ deleted' = deleted \cup gone /\ step' = step + 1
          /\ UNCHANGED <<source, job, copies>>

DeleteStep ==
  /\ job = "deleting"
  /\ DeleteTable(Deletions[step + 1])
  /\ UNCHANGED <<tenant, accounts, disturbed>>

-----------------------------------------------------------------------------
\* Another session commits a row of the source, new or in place of an older version; what
\* it points at is there, as far as it can see.
SourceChanges(r) ==
  /\ job \in {"cloning", "deleting"} /\ step > 0 /\ r \notin source
  /\ r.required \cup r.nullable \cup r.inside \cup r.verbatim \subseteq IdsOf(Remaining)
  /\ r.id \notin IdsOf(deleted)
  /\ source' = {q \in source : q.id # r.id} \cup {r}
  /\ disturbed' = TRUE
  /\ UNCHANGED <<tenant, job, step, copies, deleted, accounts>>

LifeNext ==
  \/ \E kind \in {"creating", "cloning"} : Begin(kind)
  \/ AddToggles \/ CloneStep
  \/ BeginDelete \/ DeleteStep
  \/ CutOff \/ \E r \in LaterRows : SourceChanges(r)

LifeSpec == LifeInit /\ [][LifeNext]_cvars

-----------------------------------------------------------------------------
\* Columns of the clone point at rows of the clone, whatever else was committed while it
\* was made, and it holds no credential.  (The run of a forecast is looked up the third
\* way: it counts as inside.)
ColumnsStay ==
  /\ \A c \in copies : c.required \cup c.nullable \subseteq IdsOf(copies)
  /\ \A c \in copies : c.holds \cap Credential = {}

\* A finished clone is closed, as far as it recognises ids: its columns point at rows of the
\* clone; and, when the source stood still, every row of the tables it covers has its one
\* copy, every reference by a column was carried over, no id inside JSON that is under a
\* listed key or fills a listed text still names a row of the source, and every other id
\* still does (cs_pulse_onboarding.py:1630-1704, 1747-1787).
CloneClosed ==
  /\ ColumnsStay
  /\ "copy" \in tenant /\ ~disturbed =>
       LET covered == {r \in source : \E i \in DOMAIN Steps : Steps[i] = TableOf(r.id)} IN
       /\ IdsOf(copies) = IdsOf(covered) /\ \A c, d \in copies : c.id = d.id => c = d
       /\ \A c \in copies, r \in covered : c.id = r.id =>
            /\ c.required = r.required /\ c.nullable = r.nullable
            /\ c.inside.replaced = r.inside /\ c.inside.left = {}
            /\ c.verbatim = r.verbatim

\* A call nobody disturbs goes through: no order of the tables meets a foreign key that
\* still holds; and when a deletion went through, also one that was disturbed, no row
\* of the tenant is left (cs_pulse_onboarding.py:1550-1588).
UndisturbedEnds ==
  /\ job = "failed" => disturbed
  /\ job = "done" /\ tenant = {} => source = {}
=============================================================================
