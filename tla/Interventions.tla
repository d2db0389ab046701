--------------------------- MODULE Interventions ---------------------------
(***************************************************************************)
(* playbooks/governance.py: interventions of one (account, playbook) pair, *)
(* from proposal to close.  A row is named by its trigger key, which the   *)
(* table keeps unique for the pair.                                        *)
(*                                                                         *)
(* evaluate, approve and report load a row, decide from what they read,    *)
(* and write later, without a version check; approve and report commit     *)
(* several times on the way.  A step below ends where one of them commits, *)
(* or has read and not yet written.  Names that begin with Mut are wrong   *)
(* variants, as in SignalPipeline.                                         *)
(***************************************************************************)
EXTENDS Naturals, FiniteSets

CONSTANTS
  Key,           \* trigger keys: the sets of episodes a proposal can cite
  NoKey,         \* the row of a caller that is not in a call
  Evaluator,     \* threads that run evaluate (the hook after a journey rebuild)
  Approver,      \* requests of people who approve
  Reporter,      \* requests that report: callbacks of the external workflow, people
                 \* who decline, cancel or report by hand
  Crashes,       \* whether a call may stop half way (a crash or an exception)
  MaxFlips       \* bound: how often the tenant's settings are changed

Caller == Evaluator \cup Approver \cup Reporter

ASSUME InterventionsAssumption ==
  /\ Crashes \in BOOLEAN /\ MaxFlips \in Nat /\ NoKey \notin Key
  /\ Evaluator \cap Approver = {} /\ Evaluator \cap Reporter = {} /\ Approver \cap Reporter = {}

VARIABLES
  state,         \* of each row: "absent" until it is inserted
  sentAt,        \* rows whose sent_at is not NULL
  nodes,         \* INTERVENTION nodes written for a row
  recent,        \* closed rows whose closed_at is within window_days
  reported,      \* rows whose last_report_at is not NULL
  outcomes,      \* OUTCOME nodes written with the row's source_ref
  kill,          \* the tenant's kill switch
  auto,          \* the playbook is approval=auto and automation_level >= 1
  flips,         \* how often these two were changed
  call,          \* of each caller: where it is, its row, the state it loaded, and
                 \* the automation setting it read
  sends,         \* deliveries started for a row (history)
  mishaps        \* what has gone wrong so far (history), see Mishaps

vars == <<state, sentAt, nodes, recent, reported, outcomes, kill, auto, flips,
          call, sends, mishaps>>
table == <<state, sentAt, nodes, recent, reported, outcomes>>
world == <<kill, auto, flips, sends>>

States == {"absent", "proposed", "approved", "sent", "closed"}
PC == {"idle", "look", "insert", "policy", "approve", "deliver", "send",
       "started", "outcome", "log", "close"}

Idle == [at |-> "idle", row |-> NoKey, loaded |-> "absent", auto |-> FALSE]

\* Calls that overlap on the same matter, and calls cut off.  The code has no
\* lock against the first; the properties say what holds until it happens.
Mishaps == {"evaluate", "decide", "outcome", "abort"}

TypeOK ==
  /\ state \in [Key -> States]
  /\ sentAt \in SUBSET Key
  /\ nodes \in [Key -> Nat]
  /\ recent \in SUBSET Key /\ reported \in SUBSET Key
  /\ outcomes \in [Key -> Nat]
  /\ kill \in BOOLEAN /\ auto \in BOOLEAN /\ flips \in 0..MaxFlips
  /\ call \in [Caller -> [at : PC, row : Key \cup {NoKey}, loaded : States, auto : BOOLEAN]]
  /\ sends \in [Key -> Nat]
  /\ mishaps \in SUBSET Mishaps

Init ==
  /\ state = [k \in Key |-> "absent"]
  /\ sentAt = {} /\ recent = {} /\ reported = {}
  /\ nodes = [k \in Key |-> 0]
  /\ outcomes = [k \in Key |-> 0]
  /\ sends = [k \in Key |-> 0]
  /\ kill = FALSE /\ auto = FALSE /\ flips = 0
  /\ mishaps = {}
  /\ call = [c \in Caller |-> Idle]

At(c) == call[c].at
Row(c) == call[c].row

Goto(c, from, to) ==
  /\ At(c) = from
  /\ call' = IF to = "idle" THEN [call EXCEPT ![c] = Idle] ELSE [call EXCEPT ![c].at = to]

\* _get, or the first access after a commit: the row with the state it has now.
Load(c, k, to) ==
  call' = [call EXCEPT ![c].at = to, ![c].row = k, ![c].loaded = state[k]]

\* The ORM writes row.state only when it differs from what it loaded.
WriteState(c, new) ==
  state' = IF call[c].loaded = new THEN state ELSE [state EXCEPT ![Row(c)] = new]

\* Another call that has read and not yet written makes this one a mishap.
Note(kind, c, k, between) ==
  mishaps' = IF \E d \in Caller : d # c /\ Row(d) = k /\ At(d) \in between
             THEN mishaps \cup {kind} ELSE mishaps

(***************************************************************************)
(* evaluate: the tenant's settings are read once, at the start.  Then come *)
(* three queries for what the journey triggers: the key, an open row, a    *)
(* recent close.  These are one step: a row open between two of them, or   *)
(* closed between two, is found by the later ones, so whenever all three   *)
(* find nothing they would have at the second.                             *)
(***************************************************************************)
Open == {k \in Key : state[k] \notin {"absent", "closed"}}

EvaluateStart(c) ==
  /\ At(c) = "idle"
  /\ ~kill
  /\ call' = [call EXCEPT ![c].at = "look", ![c].auto = auto]
  /\ UNCHANGED <<table, world, mishaps>>

MutMayPropose(k) == state[k] = "absent" /\ recent = {}
MutMayProposeSoon(k) == state[k] = "absent" /\ Open = {}
MayPropose(k) == state[k] = "absent" /\ Open = {} /\ recent = {}

EvaluateRead(c, k) ==
  /\ At(c) = "look"
  /\ MayPropose(k)
  /\ Load(c, k, "insert")
  /\ mishaps' = IF \E d \in Caller : d # c /\ At(d) = "insert"
                THEN mishaps \cup {"evaluate"} ELSE mishaps
  /\ UNCHANGED <<table, world>>

\* Nothing fires, or a look-up found a row.
EvaluateSkips(c) ==
  /\ Goto(c, "look", "idle")
  /\ UNCHANGED <<table, world, mishaps>>

\* INSERT and commit.  A key another evaluator inserted meanwhile is refused
\* by uq_intervention_trigger, and the exception ends the evaluation.
EvaluateInsert(c) ==
  /\ At(c) = "insert"
  /\ IF state[Row(c)] = "absent"
     THEN /\ Goto(c, "insert", IF call[c].auto THEN "policy" ELSE "idle")
          /\ state' = [state EXCEPT ![Row(c)] = "proposed"]
     ELSE /\ Goto(c, "insert", "idle")
          /\ UNCHANGED state
  /\ UNCHANGED <<sentAt, nodes, recent, reported, outcomes, world, mishaps>>

(***************************************************************************)
(* approve, called by a person or by the policy right after a proposal     *)
(***************************************************************************)
MutMayApprove(k) == state[k] \in {"proposed", "approved", "sent"} /\ ~kill
MutMayReopen(k) == state[k] \in {"proposed", "closed"} /\ ~kill
MayApprove(k) == state[k] = "proposed" /\ ~kill

ApproveRead(c, k) ==
  /\ \/ c \in Approver /\ At(c) = "idle"
     \/ c \in Evaluator /\ At(c) = "policy" /\ k = Row(c)
  /\ MayApprove(k)
  /\ Load(c, k, "approve")
  /\ Note("decide", c, k, {"approve", "outcome", "log", "close"})
  /\ UNCHANGED <<table, world>>

\* The policy's approve raises when the row or the switch changed meanwhile.
PolicyRefused(c) ==
  /\ Goto(c, "policy", "idle")
  /\ ~MayApprove(Row(c))
  /\ UNCHANGED <<table, world, mishaps>>

ApproveCommit(c) ==
  /\ Goto(c, "approve", "deliver")
  /\ WriteState(c, "approved")
  /\ UNCHANGED <<sentAt, nodes, recent, reported, outcomes, world, mishaps>>

MutDeliver(c) ==
  /\ At(c) = "deliver"
  /\ Load(c, Row(c), "send") \/ Goto(c, "deliver", "idle")
  /\ sends' = [sends EXCEPT ![Row(c)] = @ + 1]
  /\ UNCHANGED <<table, kill, auto, flips, mishaps>>

\* The audit commit expires the row, so it is read again; then the payload is
\* posted, at most twice in one call.  Failing or not, approve goes on.
Deliver(c) ==
  /\ At(c) = "deliver"
  /\ Load(c, Row(c), "send")
  /\ sends' = [sends EXCEPT ![Row(c)] = @ + 1]
  /\ UNCHANGED <<table, kill, auto, flips, mishaps>>

\* Delivered or not: sent_at, 'sent', the node and its edges in one commit.
SendCommit(c) ==
  /\ Goto(c, "send", "idle")
  /\ WriteState(c, "sent")
  /\ sentAt' = sentAt \cup {Row(c)}
  /\ nodes' = [nodes EXCEPT ![Row(c)] = @ + 1]
  /\ UNCHANGED <<recent, reported, outcomes, world, mishaps>>

(***************************************************************************)
(* report.  'failed' is treated exactly as 'done'.  A callback can come as *)
(* soon as the payload is out, before approve has committed 'sent'.        *)
(***************************************************************************)
MutMayReport(k, report) ==
  CASE report = "started"   -> state[k] = "sent"
    [] report = "done"      -> state[k] \in {"approved", "sent"}
    [] report = "cancelled" -> state[k] \in {"proposed", "approved", "sent"}

MayReport(k, report) ==
  CASE report = "started"   -> state[k] = "sent"
    [] report = "done"      -> state[k] = "sent"
    [] report = "cancelled" -> state[k] \in {"proposed", "sent"}

\* A report that closes may carry an outcome.
ReportRead(c, k, report) ==
  /\ At(c) = "idle"
  /\ MayReport(k, report)
  /\ IF report = "started" THEN Load(c, k, "started")
     ELSE Load(c, k, "close") \/ Load(c, k, "outcome")
  /\ Note("decide", c, k, {"approve"})
  /\ UNCHANGED <<table, world>>

StartedCommit(c) ==
  /\ Goto(c, "started", "idle")
  /\ reported' = reported \cup {Row(c)}
  /\ UNCHANGED <<state, sentAt, nodes, recent, outcomes, world, mishaps>>

MutOutcomeRead(c) ==
  /\ Goto(c, "outcome", "log")
  /\ Note("outcome", c, Row(c), {"log"})
  /\ UNCHANGED <<table, world>>

\* log_outcome looks for a node with source_ref 'intervention:<id>:outcome', and
\* for one of the same type, day and revenue that came from elsewhere ...
OutcomeRead(c) ==
  /\ \/ Goto(c, "outcome", "close")
     \/ Goto(c, "outcome", "log") /\ outcomes[Row(c)] = 0
  /\ Note("outcome", c, Row(c), {"log"})
  /\ UNCHANGED <<table, world>>

\* ... and inserts one; its commit expires the intervention, which is read again.
OutcomeInsert(c) ==
  /\ At(c) = "log"
  /\ outcomes' = [outcomes EXCEPT ![Row(c)] = @ + 1]
  /\ Load(c, Row(c), "close")
  /\ UNCHANGED <<state, sentAt, nodes, recent, reported, world, mishaps>>

\* 'closed', closed_at and last_report_at; the node only gets the same facts.
CloseCommit(c) ==
  /\ Goto(c, "close", "idle")
  /\ WriteState(c, "closed")
  /\ recent' = recent \cup {Row(c)}
  /\ reported' = reported \cup {Row(c)}
  /\ UNCHANGED <<sentAt, nodes, outcomes, world, mishaps>>

(***************************************************************************)
(* The rest of the world                                                   *)
(***************************************************************************)
\* The process stops, or an exception leaves the call between two commits.
Abort(c) ==
  /\ Crashes
  /\ At(c) # "idle"
  /\ call' = [call EXCEPT ![c] = Idle]
  /\ mishaps' = mishaps \cup {"abort"}
  /\ UNCHANGED <<table, world>>

\* window_days pass after a close; a call on the row takes seconds, not days.
WindowEnds(k) ==
  /\ k \in recent
  /\ \A c \in Caller : Row(c) # k
  /\ recent' = recent \ {k}
  /\ UNCHANGED <<state, sentAt, nodes, reported, outcomes, call, world, mishaps>>

\* configure_tenant(kill_switch=..., automation_level=...); one call may set both.
Configure ==
  /\ flips < MaxFlips
  /\ flips' = flips + 1
  /\ kill' \in BOOLEAN /\ auto' \in BOOLEAN
  /\ kill' # kill \/ auto' # auto
  /\ UNCHANGED <<table, call, sends, mishaps>>

\* What a call under way does next.
Continue(c) ==
  \/ EvaluateSkips(c) \/ EvaluateInsert(c) \/ \E k \in Key : EvaluateRead(c, k)
  \/ c \in Evaluator /\ ApproveRead(c, Row(c))
  \/ PolicyRefused(c)
  \/ ApproveCommit(c) \/ Deliver(c) \/ SendCommit(c)
  \/ StartedCommit(c) \/ OutcomeRead(c) \/ OutcomeInsert(c) \/ CloseCommit(c)

Begin(c) ==
  \/ c \in Evaluator /\ EvaluateStart(c)
  \/ \E k \in Key :
    \/ c \in Approver /\ ApproveRead(c, k)
    \/ c \in Reporter /\ \E report \in {"started", "done", "cancelled"} : ReportRead(c, k, report)

Next ==
  \/ \E c \in Caller : Begin(c) \/ Continue(c) \/ Abort(c)
  \/ \E k \in Key : WindowEnds(k)
  \/ Configure

Spec == Init /\ [][Next]_vars

-----------------------------------------------------------------------------
(***************************************************************************)
(* Properties                                                              *)
(***************************************************************************)

Before(kind, P) == kind \notin mishaps => P

\* At most one intervention of an (account, playbook) is open at a time
\* (evaluate: "one open proposal per (account, playbook)").
OneOpen == Cardinality(Open) <= 1

\* ... which holds until two evaluations overlap, also when approvals and reports
\* race or calls are cut off (governance.py:176-193, 218-219).
OneOpenAlone == Before("evaluate", OneOpen)

\* An approval is delivered by one call of approve only (governance.py:310-331).
OneSend == \A k \in Key : sends[k] <= 1

\* ... which holds until two decisions on one row overlap, also when calls are cut off and
\* repeated; and the journey shows each sent intervention as one node, and none that was
\* not sent (governance.py:310-357).
SentOnce ==
  Before("decide", OneSend /\ \A k \in Key : nodes[k] = IF k \in sentAt THEN 1 ELSE 0)

\* What a person declined is never sent: a row closed with no sent_at was not
\* delivered and is not about to be (governance.py:380, 405-406).
DeclinedNotSent ==
  Before("decide",
    \A k \in Key : state[k] = "closed" /\ k \notin sentAt =>
      /\ sends[k] = 0
      /\ \A c \in Caller : Row(c) = k => At(c) \notin {"approve", "deliver", "send"})

\* A closed intervention stays closed, although the callback that closes it can
\* reach the platform before approve has committed 'sent' (governance.py:392-406).
ClosedIsFinal ==
  [][Before("decide", \A k \in Key : state[k] = "closed" => state'[k] = "closed")]_vars

\* Nothing is proposed while a row of the pair is open or closed within the
\* window (governance.py:183-193).
QuietWindow ==
  [][Before("evaluate", \A k \in Key :
       state[k] = "absent" /\ state'[k] = "proposed" => Open = {} /\ recent = {})]_vars

\* A workflow's outcome is on record once, although the callback is repeated
\* after a failure, until a repetition overlaps the call it repeats
\* (journeys/outcomes.py:95-101).
OneOutcome == Before("outcome", \A k \in Key : outcomes[k] <= 1)

\* Every approval is accounted for until a call is cut off: a row is 'approved'
\* only while a call is sending it, and a payload that went out is on the list of
\* sent rows (where a silent workflow shows as stuck) or was reported on
\* (governance.py:446-453).
Accounted ==
  Before("abort", \A k \in Key :
    LET Sending == \E c \in Caller : Row(c) = k /\ At(c) \in {"deliver", "send"}
    IN  /\ state[k] = "approved" => Sending
        /\ sends[k] > 0 => Sending \/ state[k] = "sent" \/ k \in reported)

(***************************************************************************)
(* Why one row is open until two evaluations overlap: all calls that have  *)
(* a row have the same one, nothing else is open, and if it is closed its  *)
(* close is recent, so nothing new can be proposed behind their back.      *)
(***************************************************************************)
Works(c) == Row(c) # NoKey /\ At(c) # "insert"

\* Between look-up and insert of an evaluation nobody else has a row.
InsertsAlone(c) ==
  At(c) = "insert" =>
    /\ state[Row(c)] = "absent"
    /\ Open = {} /\ recent = {}
    /\ \A d \in Caller : d # c => Row(d) = NoKey

WorksOnTheOpenRow(c) ==
  Works(c) =>
    /\ Open \subseteq {Row(c)}
    /\ state[Row(c)] # "absent"
    /\ state[Row(c)] = "closed" => Row(c) \in recent
    /\ \A d \in Caller : Works(d) => Row(d) = Row(c)

OneMatter ==
  /\ \A k, l \in Open : k = l
  /\ \A c \in Caller : Row(c) = NoKey <=> At(c) \in {"idle", "look"}
  /\ \A c \in Caller : InsertsAlone(c) /\ WorksOnTheOpenRow(c)
=============================================================================
