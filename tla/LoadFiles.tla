------------------------------ MODULE LoadFiles ------------------------------
(***************************************************************************)
(* How staged files become accounts, graph nodes and edges: the resolver   *)
(* and the loaders of ingest_staged_csvs, phase by phase, with the commits *)
(* between them, failures, repeated and corrected uploads, and outcomes a  *)
(* person logs meanwhile.                                                  *)
(*   utils/csv_upload.py, utils/csv_ingest.py, journeys/outcomes.py        *)
(*                                                                         *)
(* One run at a time; runs that overlap, and the measurements, are the     *)
(* subject of module TenantData.  Names are as they compare (trimmed,      *)
(* lower case where the code says so); a day is a number and 0 is no date. *)
(* Names that begin with Mut are wrong variants.                           *)
(***************************************************************************)
EXTENDS GraphRules, Integers, Sequences, SequencesExt

CONSTANTS
  Batch,                \* what is uploaded before a run: functions of file types
  Logged,               \* outcomes a person logs, as rows of outcomes.csv
  AtFirst,              \* what the tenant's tables may hold at first
  Curated,              \* rows of config/industry_benchmarks/<vertical>.csv
  MaxLoads, MaxLoadFaults, MaxDay      \* bounds on the history explored

GraphFiles == {"stakeholders.csv", "outcomes.csv", "decisions.csv", "engagement_events.csv",
               "account_business_profiles.csv", "industry_benchmarks.csv", "signal_edges.csv"}
Types == {"account_details.csv", "accounts.csv", "enhanced_qualitative_signals.csv"} \cup GraphFiles

VARIABLES
  db,                   \* what is committed: [accounts, nodes, edges], sequences in order of id
  txn,                  \* the same as the run under way sees it, with what it has not committed
  pile,                 \* csv_upload_staging: the rows staged under each type
  load,                 \* the run: [at, files, row, failed]
  date,                 \* the date
  done, loads, lapses   \* history: rows taken over, runs begun, failures

avars == <<db, txn, pile, load, date, done, loads, lapses>>

NoFiles == [f \in Types |-> <<>>]
Waiting == [at |-> "idle", files |-> NoFiles, row |-> 1, failed |-> FALSE]

LoadInit ==
  /\ db \in AtFirst /\ txn = db
  /\ pile = NoFiles /\ load = Waiting
  /\ date = 1 /\ done = {} /\ loads = 0 /\ lapses = 0

-----------------------------------------------------------------------------
\* AccountResolver: the name of a row, then its source id, then the id of a row of ours.
\* Accounts older than source ids are numbered 1000 + their order.
HeldRows(file) == load.files[file]
AccountRows == IF HeldRows("account_details.csv") # <<>> THEN HeldRows("account_details.csv")
               ELSE HeldRows("accounts.csv")

Named(accounts, name) == {a \in DOMAIN accounts : accounts[a].name = name}
Sourced(accounts, rows, src) ==
  LET stored == {a \in DOMAIN accounts : accounts[a].src = src}
      filed == {a \in DOMAIN accounts : \E i \in DOMAIN rows :
                  rows[i].name = accounts[a].name /\ rows[i].src = src}
  IN IF stored # {} THEN {Max(stored)} ELSE filed
Unsourced(accounts, rows) ==
  \A a \in DOMAIN accounts : accounts[a].src = None
    /\ ~\E i \in DOMAIN rows : rows[i].name = accounts[a].name /\ rows[i].src # None

AccountOf(accounts, rows, r) ==
  LET named == IF r.name = None THEN {} ELSE Named(accounts, r.name)
      sourced == IF r.src = None THEN {} ELSE Sourced(accounts, rows, r.src)
  IN CASE named # {} -> Min(named)
       [] named = {} /\ sourced # {} -> Min(sourced)
       [] named = {} /\ sourced = {} /\ Unsourced(accounts, rows) /\ r.src \in 1001..1000 + Len(accounts) ->
            r.src - 1000
       [] named = {} /\ sourced = {} /\ r.src \in DOMAIN accounts -> r.src
       [] OTHER -> None
Resolve(r) == AccountOf(txn.accounts, AccountRows, r)

-----------------------------------------------------------------------------
\* The loaders: what a row of a file becomes, and the nodes that stand for it already.
N(acct, kind, sub, title, key, ref, on, rev) ==
  [acct |-> acct, kind |-> kind, sub |-> sub, title |-> title, key |-> key, ref |-> ref,
   day |-> on, rev |-> rev]
On(r) == IF r.day = 0 THEN date ELSE r.day

SameStakeholder(n, r) == n.kind = "STAKEHOLDER" /\ n.acct = Resolve(r) /\ n.title = r.who
Stakeholder(r) == N(Resolve(r), "STAKEHOLDER", r.role, r.who, None, None, On(r), None)

DecisionId(r) == IF r.id = None THEN None ELSE <<"decision", r.id>>
MutSameDecision(n, r) == n.kind = "DECISION" /\ n.acct = Resolve(r) /\ n.title = r.title

SameDecision(n, r) ==
  /\ n.kind = "DECISION" /\ n.acct = Resolve(r)
  /\ (IF n.key = None THEN n.title ELSE n.key) = (IF r.id = None THEN r.title ELSE DecisionId(r))
FiledDecision(r) == N(Resolve(r), "DECISION", None, r.title, DecisionId(r), None, On(r), None)

SameEvent(n, r) == /\ n.kind = "SIGNAL" /\ n.sub = "engagement" /\ n.acct = Resolve(r)
                   /\ n.title = r.title /\ n.day = On(r)
Engagement(r) == N(Resolve(r), "SIGNAL", "engagement", r.title, None, None, On(r), None)

\* load_signals and what the pipeline makes of it (modules SignalIngest, SignalPipeline):
\* a row is known by its id, or by its text of about that day.
DedupDays == 7
SignalId(r) == IF r.id # None THEN r.id ELSE r.ref
SameSignal(n, r) ==
  /\ n.kind = "SIGNAL" /\ n.sub # "engagement"
  /\ \/ SignalId(r) # None /\ n.key = SignalId(r)
     \/ n.acct = Resolve(r) /\ n.title = r.text /\ n.day - r.day \in -DedupDays..DedupDays
Signal(r) == N(Resolve(r), "SIGNAL", "signal", r.text, SignalId(r),
               IF r.ref # None THEN r.ref ELSE r.id, r.day, None)

\* A benchmark is filed under the tenant's first account.
SameBenchmark(n, r) == n.kind = "EXTERNAL_CONTEXT" /\ n.key = <<"bench", r.kpi>>
Benchmark(r) == N(1, "EXTERNAL_CONTEXT", r.value, r.kpi, <<"bench", r.kpi>>, None, date, None)

\* A loader takes the rows of its file in turn, leaves out those of an account nobody knows,
\* undated signals, and those a node stands for already, its own included.
Same(f, n, r) ==
  CASE f = "stakeholders.csv" -> SameStakeholder(n, r)
    [] f = "decisions.csv" -> SameDecision(n, r)
    [] f = "engagement_events.csv" -> SameEvent(n, r)
    [] f = "enhanced_qualitative_signals.csv" -> SameSignal(n, r)
    [] f = "industry_benchmarks.csv" -> SameBenchmark(n, r)
Made(f, r) ==
  CASE f = "stakeholders.csv" -> Stakeholder(r)
    [] f = "decisions.csv" -> FiledDecision(r)
    [] f = "engagement_events.csv" -> Engagement(r)
    [] f = "enhanced_qualitative_signals.csv" -> Signal(r)
    [] f = "industry_benchmarks.csv" -> Benchmark(r)
LeftOut(f, r) == /\ f # "industry_benchmarks.csv"
                 /\ Resolve(r) = None \/ (f = "enhanced_qualitative_signals.csv" /\ r.day = 0)

Extended(nodes, f, rows) ==
  FoldLeft(LAMBDA ns, r : IF LeftOut(f, r) \/ \E i \in DOMAIN ns : Same(f, ns[i], r) THEN ns
                          ELSE Append(ns, Made(f, r)), nodes, rows)

\* log_outcome: the same reference, or the same decision: type, day and revenue.  The
\* dedup of the loader itself (rows without a reference) finds nothing beyond.
SameOutcome(n, acct, r) ==
  /\ n.kind = "OUTCOME" /\ n.acct = acct
  /\ \/ r.ref # None /\ n.ref = r.ref
     \/ n.sub = r.type /\ n.day = On(r) /\ n.rev = r.rev
Outcome(acct, r, key) == N(acct, "OUTCOME", r.type, r.title, key, r.ref, On(r), r.rev)

\* A node answers to its event id and its reference.
Ids(n) == {n.key, n.ref} \ {None}
Linked(nodes, acct, refs) ==
  {i \in DOMAIN nodes : nodes[i].kind = "SIGNAL" /\ nodes[i].acct = acct /\ Ids(nodes[i]) \cap refs # {}}
Edge(from, to, by) == [from |-> from, to |-> to, by |-> by]

LogOutcome(d, acct, r, by) ==
  IF \E i \in DOMAIN d.nodes : SameOutcome(d.nodes[i], acct, r) THEN d
  ELSE LET id == Len(d.nodes) + 1 IN
       [d EXCEPT !.nodes = Append(@, Outcome(acct, r, <<"outcome", id>>)),
                 !.edges = @ \o SetToSeq({Edge(i, id, by) : i \in Linked(d.nodes, acct, r.links)})]

\* load_accounts: a name is one account; of one that exists only gaps are filled.
Account(r) == [name |-> r.name, src |-> r.src, profile |-> r.profile]
Filled(a, r) == [a EXCEPT !.src = IF @ = None THEN r.src ELSE @, !.profile = @ @@ r.profile]
LoadedAccounts(accounts, rows) ==
  FoldLeft(LAMBDA as, r : IF Named(as, r.name) = {} THEN Append(as, Account(r))
                          ELSE [as EXCEPT ![Min(Named(as, r.name))] = Filled(@, r)], accounts, rows)

\* extract_stakeholders_from_profiles: one node per role of an account.
RoleField == [champion |-> "primary_champion_name", csm |-> "csm_name"]
Extracted(d) ==
  LET missing == {x \in (DOMAIN d.accounts) \X (DOMAIN RoleField) :
                    /\ RoleField[x[2]] \in DOMAIN d.accounts[x[1]].profile
                    /\ ~\E i \in DOMAIN d.nodes : LET n == d.nodes[i] IN
                         n.kind = "STAKEHOLDER" /\ n.acct = x[1] /\ n.sub = x[2]}
      made(x) == N(x[1], "STAKEHOLDER", x[2], d.accounts[x[1]].profile[RoleField[x[2]]],
                   None, None, date, None)
  IN [d EXCEPT !.nodes = @ \o SetToSeq({made(x) : x \in missing})]

\* load_business_profiles: what the file says goes before what is there.
Profiled(accounts, rows) ==
  FoldLeft(LAMBDA as, r : IF Resolve(r) = None THEN as
                          ELSE [as EXCEPT ![Resolve(r)].profile = r.profile @@ @], accounts, rows)

\* load_benchmarks, of the file or of the curated set.
Benchmarked(d, rows) ==
  IF d.accounts = <<>> THEN d ELSE [d EXCEPT !.nodes = Extended(@, "industry_benchmarks.csv", rows)]

\* load_signal_edges: a reference is looked up in the account of the row and then in all
\* of the tenant's, as it is, then with a prefix; last it is a title.
Tiers(nodes, acct, ref) ==
  LET any(x) == {i \in DOMAIN nodes : x \in Ids(nodes[i])}
      own(x) == {i \in any(x) : nodes[i].acct = acct}
  IN <<own(ref), any(ref), own(<<"decision", ref>>), any(<<"decision", ref>>),
       {i \in DOMAIN nodes : nodes[i].title = ref}>>
Found(nodes, acct, ref) ==
  LET tiers == Tiers(nodes, acct, ref)
      full == {k \in 1..5 : tiers[k] # {}}
  IN IF full = {} THEN {} ELSE tiers[Min(full)]

\* Its own edges of before are dropped.  Of several nodes that answer it takes one.
EdgesBy == "process_data.signal_edges"
RowEdges(nodes, r) ==
  {Edge(i, j, EdgesBy) : i \in Found(nodes, Resolve(r), r.from), j \in Found(nodes, Resolve(r), r.to)}
Proper(edges) == {e \in edges : e.from # e.to}
Unlinked(edges) == FoldLeft(LAMBDA es, e : IF e.by = EdgesBy THEN es ELSE Append(es, e), <<>>, edges)
Joined(nodes, edges, rows) ==
  FoldLeft(LAMBDA es, r : IF Proper(RowEdges(nodes, r)) = {} THEN es
                          ELSE Append(es, CHOOSE e \in Proper(RowEdges(nodes, r)) : TRUE), edges, rows)
Relinked(d, rows) == [d EXCEPT !.edges = Joined(d.nodes, Unlinked(@), rows)]

-----------------------------------------------------------------------------
\* upload_csv, several times: what is staged under a type is replaced.  Bound: between runs.
StageBatch(batch) ==
  /\ load.at = "idle" /\ loads < MaxLoads
  /\ pile' = [f \in Types |-> IF f \in DOMAIN batch THEN batch[f] ELSE pile[f]] /\ pile' # pile
  /\ UNCHANGED <<db, txn, load, date, done, loads, lapses>>

\* ingest_staged_csvs reads the staging once.
BeginLoad ==
  /\ load.at = "idle" /\ pile # NoFiles /\ loads < MaxLoads
  /\ load' = [Waiting EXCEPT !.at = "accounts", !.files = pile] /\ loads' = loads + 1
  /\ txn' = db
  /\ UNCHANGED <<db, pile, date, done, lapses>>

To(at) == load' = [load EXCEPT !.at = at]
Kept == <<pile, date, done, loads, lapses>>
Commit(d) == db' = d /\ txn' = d
Hold(d) == txn' = d /\ UNCHANGED db

WithRowsOf(f) == [txn EXCEPT !.nodes = Extended(@, f, HeldRows(f))]

LoadRoster ==
  /\ load.at = "accounts" /\ To("signals")
  /\ Commit(IF AccountRows = <<>> THEN txn
            ELSE Extracted([txn EXCEPT !.accounts = LoadedAccounts(@, AccountRows)]))
  /\ UNCHANGED Kept

LoadSignals ==
  /\ load.at = "signals" /\ To("stakeholders")
  /\ Commit(WithRowsOf("enhanced_qualitative_signals.csv"))
  /\ UNCHANGED Kept

LoadStakeholders ==
  /\ load.at = "stakeholders" /\ To("outcomes")
  /\ Hold(WithRowsOf("stakeholders.csv"))
  /\ UNCHANGED Kept

\* log_outcome commits by row, and what the txn holds with it.
LoadOutcome ==
  LET rows == HeldRows("outcomes.csv")  r == rows[load.row] IN
  /\ load.at = "outcomes" /\ load.row \in DOMAIN rows
  /\ load' = [load EXCEPT !.row = @ + 1]
  /\ LET acct == Resolve(r)
         next == IF acct = None THEN txn ELSE LogOutcome(txn, acct, r, "process_data.linked_signal_id")
     IN IF next = txn THEN UNCHANGED <<db, txn>> ELSE Commit(next)
  /\ UNCHANGED Kept

LoadNodes ==
  /\ load.at = "outcomes" /\ load.row > Len(HeldRows("outcomes.csv")) /\ To("commit")
  /\ LET decided == Extended(txn.nodes, "decisions.csv", HeldRows("decisions.csv"))
         engaged == Extended(decided, "engagement_events.csv", HeldRows("engagement_events.csv"))
     IN Hold(Benchmarked([txn EXCEPT !.nodes = engaged,
                             !.accounts = Profiled(@, HeldRows("account_business_profiles.csv"))],
                          HeldRows("industry_benchmarks.csv")))
  /\ UNCHANGED Kept

CommitNodes == load.at = "commit" /\ To("edges") /\ Commit(txn) /\ UNCHANGED Kept

LoadEdges ==
  /\ load.at = "edges" /\ To("consume")
  /\ LET rows == HeldRows("signal_edges.csv") IN Commit(IF rows = <<>> THEN txn ELSE Relinked(txn, rows))
  /\ UNCHANGED Kept

\* A phase that fails is rolled back to the last commit, and the next one runs.
PhaseBreaks ==
  /\ load.at \notin {"idle", "consume", "seed"} /\ lapses < MaxLoadFaults /\ lapses' = lapses + 1
  /\ load' = [load EXCEPT !.failed = TRUE, !.at = IF @ \in {"accounts", "signals"} THEN "stakeholders" ELSE "consume"]
  /\ Commit(db)
  /\ UNCHANGED <<pile, date, done, loads>>

\* Without an error the staging is emptied, that of a second accounts file included.
Taken == UNION {{<<f, r, Resolve(r)>> : r \in Range(HeldRows(f))} :
                  f \in GraphFiles \ {"industry_benchmarks.csv"}}
ConsumeFiles ==
  /\ load.at = "consume" /\ To("seed")
  /\ IF load.failed THEN UNCHANGED <<pile, done>>
     ELSE pile' = NoFiles /\ done' = done \cup Taken
  /\ UNCHANGED <<db, txn, date, loads, lapses>>

\* seed_platform_benchmarks, once: not for a tenant that has any, nor without an account.
SeedBenchmarks ==
  /\ load.at = "seed" /\ load' = Waiting
  /\ Commit(IF \E i \in DOMAIN db.nodes : db.nodes[i].kind = "EXTERNAL_CONTEXT" THEN db ELSE Benchmarked(db, Curated))
  /\ UNCHANGED Kept

\* A person logs an outcome between runs; the date changes.
PersonLogs(r) ==
  /\ load.at = "idle" /\ loads < MaxLoads
  /\ LET acct == AccountOf(db.accounts, <<>>, r) IN
     acct # None /\ Commit(LogOutcome(db, acct, r, "log_outcome")) /\ db' # db
  /\ UNCHANGED <<pile, load, date, done, loads, lapses>>
Tomorrow ==
  /\ load.at = "idle" /\ loads < MaxLoads /\ date < MaxDay /\ date' = date + 1
  /\ UNCHANGED <<db, txn, pile, load, done, loads, lapses>>

LoadNext ==
  \/ \E b \in Batch : StageBatch(b)
  \/ BeginLoad \/ LoadRoster \/ LoadSignals \/ LoadStakeholders \/ LoadOutcome \/ LoadNodes
  \/ CommitNodes \/ LoadEdges \/ PhaseBreaks \/ ConsumeFiles \/ SeedBenchmarks
  \/ \E r \in Logged : PersonLogs(r)
  \/ Tomorrow
LoadSpec == LoadInit /\ [][LoadNext]_avars

-----------------------------------------------------------------------------
\* Rows that are ever uploaded.
Uploaded(f) == UNION {Range(b[f]) : b \in {x \in Batch : f \in DOMAIN x}}
AccountsGiven == Uploaded("account_details.csv") \cup Uploaded("accounts.csv") \cup UNION {Range(d.accounts) : d \in AtFirst}

\* No file, repeated, corrected or loaded again after a failure, makes a thing of an account
\* twice: the account itself, which is its name, a person in a role, a signal, a decision with its id, an outcome, a dated
\* event, a benchmark or an edge; and the edges of the edges file are never more than the
\* rows of one (csv_ingest.py:251-253, 837-850).
Twice(m, n) ==
  m.kind = n.kind /\ m.acct = n.acct /\
  CASE m.kind = "STAKEHOLDER" -> m.title = n.title /\ m.sub = n.sub
    [] m.kind = "OUTCOME" -> (m.ref # None /\ m.ref = n.ref) \/ (m.sub = n.sub /\ m.day = n.day /\ m.rev = n.rev)
    [] m.kind = "DECISION" -> m.key = n.key /\ (m.key = None => m.title = n.title)
    [] m.kind = "SIGNAL" /\ m.sub = "engagement" -> m.sub = n.sub /\ m.title = n.title /\ m.day = n.day
    [] OTHER -> m.key # None /\ m.key = n.key
EdgeFiles == {<<>>} \cup {b["signal_edges.csv"] : b \in {x \in Batch : "signal_edges.csv" \in DOMAIN x}}
NodesOnce(d) == \A i, j \in DOMAIN d.nodes : Twice(d.nodes[i], d.nodes[j]) => i = j
AccountsOnce(d) == \A a, b \in DOMAIN d.accounts : d.accounts[a].name = d.accounts[b].name => a = b
EdgesOnce(d) ==
  /\ \A i, j \in DOMAIN d.edges : d.edges[i] = d.edges[j] /\ d.edges[i].by # EdgesBy => i = j
  /\ \E rows \in EdgeFiles : Cardinality({i \in DOMAIN d.edges : d.edges[i].by = EdgesBy}) <= Len(rows)
NothingTwice == NodesOnce(db) /\ AccountsOnce(db) /\ EdgesOnce(db)

\* Every row of a file whose staging was emptied is in the graph, under the account it was
\* for, whatever was rolled back meanwhile (csv_ingest.py:986-989); one whose account
\* nobody knows is not, nor is one that names an account of two.
Represented(nodes, f, r, acct) ==
  LET some(kind, Is(_)) == \E i \in DOMAIN nodes : nodes[i].kind = kind /\ nodes[i].acct = acct /\ Is(nodes[i])
      dated(n) == r.day = 0 \/ n.day = r.day
  IN CASE f = "stakeholders.csv" -> some("STAKEHOLDER", LAMBDA n : n.title = r.who)
       [] f = "decisions.csv" -> some("DECISION", LAMBDA n : n.key = DecisionId(r) /\ (r.id = None => n.title = r.title))
       [] f = "engagement_events.csv" ->
            some("SIGNAL", LAMBDA n : n.sub = "engagement" /\ n.title = r.title /\ dated(n))
       [] f = "outcomes.csv" ->
            some("OUTCOME", LAMBDA n : n.ref = r.ref \/ (n.sub = r.type /\ n.rev = r.rev /\ dated(n)))
       [] OTHER -> TRUE
AllTaken == \A x \in done : x[3] # None => Represented(db.nodes, x[1], x[2], x[3])

\* A row that bears the name of an account means that account whenever it is loaded, and so
\* does one with the source id only, as long as the files of accounts give that id to one
\* name (csv_ingest.py:207-215).  A file that gives the id to a second name makes a second
\* account, to which rows with the id only belong from then on.
OneName(src) == \A r, s \in AccountsGiven : r.src = src /\ s.src = src => r.name = s.name
SameAccount ==
  \A x \in done : LET r == x[2]  a == x[3] IN
    /\ a # None
    /\ db.accounts[a].name = r.name \/ (r.name = None /\ db.accounts[a].src = r.src /\ OneName(r.src))
    => AccountOf(db.accounts, <<>>, r) = a

\* A run sees nothing that is not committed once it is over, an edge joins two nodes of the
\* tenant, and one from outcomes.csv stays within an account.
EdgesJoin(d) ==
  \A i \in DOMAIN d.edges : LET e == d.edges[i] IN
    /\ {e.from, e.to} \subseteq DOMAIN d.nodes /\ e.from # e.to
    /\ e.by # EdgesBy => d.nodes[e.from].acct = d.nodes[e.to].acct
NodesHaveAccounts(d) == \A i \in DOMAIN d.nodes : d.nodes[i].acct \in DOMAIN d.accounts
Whole == /\ load.at \in {"idle", "consume", "seed"} => txn = db
         /\ EdgesJoin(db) /\ NodesHaveAccounts(db)

\* All of it.
LoadedOnce == NothingTwice /\ AllTaken /\ SameAccount /\ Whole

-----------------------------------------------------------------------------
\* One row of accounts has a name, and the title of a decision is not the id of one.
ASSUME UploadAssumption ==
  /\ None \notin Int
  /\ \A b \in Batch : DOMAIN b \subseteq Types /\ \A f \in DOMAIN b : b[f] \in Seq(Range(b[f]))
  /\ Curated \in Seq(Range(Curated))
  /\ \A r \in AccountsGiven : r.name # None
  /\ \A r, s \in Uploaded("decisions.csv") : s.id # None => DecisionId(s) # None /\ r.title # DecisionId(s)

\* Tables as the loaders make them: no engagement has an id and no decision's title passes
\* for one.  A tenant's tables at first are such.
Plain(n) ==
  /\ n.kind = "SIGNAL" /\ n.sub = "engagement" => n.key = None
  /\ n.kind = "DECISION" =>
       \A s \in Uploaded("decisions.csv") :
         /\ s.id # None => n.title # DecisionId(s)
         /\ n.key # None => n.key # s.title
Tables(d) ==
  /\ d = [accounts |-> d.accounts, nodes |-> d.nodes, edges |-> d.edges]
  /\ \A s \in {d.accounts, d.nodes, d.edges} : s \in Seq(Range(s))
  /\ \A a \in DOMAIN d.accounts : /\ d.accounts[a] = Account(d.accounts[a])
                                  /\ \E r \in AccountsGiven : r.name = d.accounts[a].name /\ r.src = d.accounts[a].src
  /\ \A i \in DOMAIN d.nodes : Plain(d.nodes[i])
  /\ NodesOnce(d) /\ AccountsOnce(d) /\ EdgesOnce(d) /\ EdgesJoin(d) /\ NodesHaveAccounts(d)

ASSUME AtFirstAssumption == \A d \in AtFirst : Tables(d)
=============================================================================
