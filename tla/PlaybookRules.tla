---------------------------- MODULE PlaybookRules ----------------------------
(***************************************************************************)
(* What a playbook may be, when it fires and what it is said to have       *)
(* returned: the definitions of a vertical and a tenant's overlay, the     *)
(* trigger read from a journey, the urgency of evidence, the board of      *)
(* interventions and the impact measured from it.                          *)
(*   playbooks/definitions.py, playbooks/governance.py,                    *)
(*   signal_engine/urgency.py, roi/measured.py                             *)
(*                                                                         *)
(* Urgency levels are numbers, scores of a model tenths, a URL is "ok",    *)
(* "bad" or "" (to remove it).  How a row comes to its state when calls    *)
(* overlap is module Interventions; the journey is JourneyRules.  The only *)
(* variable is the input looked at.  Names that begin with Mut are wrong   *)
(* variants.                                                               *)
(***************************************************************************)
EXTENDS JourneyRules, Sequences, SequencesExt

CONSTANTS
  Cited,                \* evidence a playbook may fire on, as JourneyRules!Node
  Heard,                \* what a model heard, by node: [score, esc], or None
  Definitions,                 \* definition files: sequences of playbooks
  Calls,                \* sequences of calls that configure a tenant
  Board,                \* sets of interventions
  Reading,              \* hooks by node: [before, after, outcomes]
  OnRecord,             \* outcomes on the journeys: [id, day, type, bucket, revenue]
  MinMeasured           \* interventions a measured figure needs

VARIABLE play

-----------------------------------------------------------------------------
\* urgency.  The role of evidence sets a floor; what the model heard may raise it.
StructuralOf(role) ==
  CASE role \in {"escalation", "champion_change"} -> 3
    [] role \in {"commercial_pressure", "delivery_stall", "infra_incident", "expansion_intent"} -> 2
    [] role \in {"usage_decline", "engagement_decline", "capacity_pressure", "product_friction"} -> 1
    [] OTHER -> None

Perceived(h) ==
  LET level == Cardinality({band \in {4, 6, 8} : h.score >= band})
  IN IF h.esc >= 7 THEN Least(3, level + 1) ELSE level

MutEffective(role, h) == Perceived(h)

Effective(role, h) ==
  IF StructuralOf(role) = None THEN Perceived(h) ELSE Max({StructuralOf(role), Perceived(h)})

\* The level of cited evidence: what is stored on the node, else the floor of its role.
LevelOf(c, e) ==
  IF c.heard[e.id] # None THEN Effective(e.role, c.heard[e.id])
  ELSE IF StructuralOf(e.role) # None THEN StructuralOf(e.role) ELSE 0

\* _match, on the latest month of the leading layer.
LatestOf(j) ==
  IF DOMAIN j.series = {} THEN {} ELSE {e \in j.episodes : e.id \in j.series[Max(DOMAIN j.series)].by}

Met(pb, c, latest, cited, days) ==
  [cited |-> cited,
   fires |-> /\ cited # {}
             /\ pb.match = "all" => pb.roles \subseteq {e.role : e \in latest}
             /\ pb.floor # None => Max({LevelOf(c, e) : e \in cited}) >= pb.floor
             /\ pb.within # None => days # None /\ days <= pb.within]
MatchIn(pb, c, latest, days) == Met(pb, c, latest, {e \in latest : e.role \in pb.roles}, days)
MatchOn(pb, c, j) == MatchIn(pb, c, LatestOf(j), j.features.renewal)
Match(pb, c) == MatchOn(pb, c, Journey(c))

\* _trigger_key: the set of what is cited.
TriggerKey(match) == {e.id : e \in match.cited}

-----------------------------------------------------------------------------
\* _validate_playbook and load_vertical: one bad playbook refuses the file.
SignalRole == NegativeRole \cup PositiveRole \cup LeadingExcluded \cup {"intervention", "routine"}
RevenueType == {"churn_lost", "renewal_secured", "expansion_closed"}

Valid(pb) ==
  /\ pb.roles # {} /\ pb.roles \subseteq SignalRole
  /\ pb.match \in {"any", "all"}
  /\ pb.floor \in 0..3 \cup {None}
  /\ pb.within = None \/ pb.within > 0
  /\ pb.class \in {"notify", "schedule", "escalate", "offer"}
  /\ pb.approval = "human" \/ (pb.approval = "auto" /\ pb.class = "notify")
  /\ pb.types # {} /\ pb.types \subseteq RevenueType
  /\ pb.window > 0

Refused == <<>>
LoadVertical(file) ==
  IF /\ \A i \in DOMAIN file : Valid(file[i])
     /\ \A i, j \in DOMAIN file : file[i].id = file[j].id => i = j
  THEN file ELSE Refused

-----------------------------------------------------------------------------
\* The overlay: without a row, proposals only and nothing sent.
Absent == [row |-> FALSE, url |-> "", secret |-> FALSE, slack |-> "", off |-> {}, level |-> 0, enabled |-> TRUE]

\* A call gives some fields; None leaves a field as it is.
Changed(given, old) == IF given = None THEN old ELSE given

\* configure_tenant.  A refused call may leave a row without content behind.
Overwritten(o, call) ==
  [row |-> TRUE, url |-> Changed(call.url, o.url), secret |-> Changed(call.secret, o.secret),
   slack |-> Changed(call.slack, o.slack), off |-> Changed(call.off, o.off),
   level |-> Changed(call.level, o.level), enabled |-> IF call.kill = None THEN o.enabled ELSE ~call.kill]

Accepts(o, call, known) ==
  /\ call.url # "bad" /\ call.slack # "bad"
  /\ Overwritten(o, call).url # "" => Overwritten(o, call).secret
  /\ call.off # None => call.off \subseteq known
  /\ call.level # 2
Configure(o, call, known) ==
  IF Accepts(o, call, known) THEN Overwritten(o, call) ELSE [o EXCEPT !.row = TRUE]

\* tenant_config: all of the overlay but whether there is a row for it.
TenantConfig(o) == [o EXCEPT !.row = TRUE]
After(calls, known) == FoldLeft(LAMBDA o, call : Configure(o, call, known), Absent, calls)

\* playbooks_for_customer, and those evaluate proposes or lets policy approve.
PlaybooksFor(o, defs) == {i \in DOMAIN defs : defs[i].id \notin o.off}
Proposable(o, defs) == IF o.enabled THEN PlaybooksFor(o, defs) ELSE {}
ByPolicy(o, defs) == {i \in Proposable(o, defs) : defs[i].approval = "auto" /\ o.level >= 1}

-----------------------------------------------------------------------------
\* Rows of the board, by what happened to them.
Proposed(id, pb, roles, exposure) ==
  [id |-> id, pb |-> pb, roles |-> roles, state |-> "proposed", closed |-> None, sent |-> None, heard |-> FALSE,
   delivery |-> None, node |-> None, outcome |-> None, inWindow |-> FALSE, expected |-> FALSE, exposure |-> exposure]
Approved(r) == [r EXCEPT !.state = "approved"]
Sent(r, day, delivery) ==
  [r EXCEPT !.state = "sent", !.sent = day, !.delivery = delivery, !.node = <<"int", r.id>>]
Started(r) == [r EXCEPT !.heard = TRUE]

\* report, with or without an outcome; a declined proposal was never sent.
Reported(r, how, out, window, types) ==
  LET closed == [r EXCEPT !.state = "closed", !.closed = how, !.heard = TRUE] IN
  IF out = None THEN closed
  ELSE [closed EXCEPT !.outcome = out,
          !.inWindow = r.sent # None /\ r.sent <= out.day /\ out.day <= r.sent + window,
          !.expected = out.type \in types]

StuckAfter == 14
Stuck(r, now) == r.state = "sent" /\ ~r.heard /\ r.sent # None /\ now - r.sent >= StuckAfter
DeliveryProblem(r) == r.delivery \notin {None, "delivered"}

\* list_interventions, per playbook.
Where == {"proposed", "approved", "sent", "done", "failed", "cancelled"}
StandsAt(r) == IF r.state = "closed" THEN r.closed ELSE r.state
AddUp(S, Of(_)) == MapThenSumSet(LAMBDA r : Of(r), S)
Revenue(r) == IF r.outcome = None THEN 0 ELSE r.outcome.revenue

ByPlaybook(rows, now) ==
  [pb \in {r.pb : r \in rows} |->
     LET own == {r \in rows : r.pb = pb}
         count(Is(_)) == Cardinality({r \in own : Is(r)})
     IN [at |-> [w \in Where |-> count(LAMBDA r : StandsAt(r) = w)],
         problems |-> count(DeliveryProblem), stuck |-> count(LAMBDA r : Stuck(r, now)),
         reported |-> count(LAMBDA r : r.outcome # None),
         inWindow |-> count(LAMBDA r : r.inWindow), expected |-> count(LAMBDA r : r.expected),
         realized |-> AddUp(own, Revenue), exposure |-> AddUp(own, LAMBDA r : r.exposure)]]

\* health_counts, of every tenant: only a row that was sent is looked at.
HealthCounts(rows, now) ==
  LET sent == {r \in rows : r.sent # None} IN
  [total |-> Cardinality(rows), stuck |-> Cardinality({r \in sent : Stuck(r, now)}),
   problems |-> Cardinality({r \in sent : DeliveryProblem(r)})]

-----------------------------------------------------------------------------
\* roi: a role is attributed to a pillar, if the vertical has one for it.
PillarRole(role) ==
  CASE role \in {"usage_decline", "delivery_stall", "recovery"} -> "adoption"
    [] role \in {"engagement_decline", "champion_change", "product_friction"} -> "engagement"
    [] role \in {"escalation", "infra_incident"} -> "reliability"
    [] role = "capacity_pressure" -> "capacity"
    [] role = "commercial_pressure" -> "revenue"
    [] role \in {"expansion_intent", "expansion_realized", "advocacy"} -> "expansion"
    [] OTHER -> None
PillarFor(role, pillars) == IF PillarRole(role) \in pillars THEN PillarRole(role) ELSE "unmapped"

\* by_pillar, and for the roles without one why: no pillar, or no attribution.
ByPillar(rows, pillars) ==
  [p \in {PillarFor(role, pillars) : role \in UNION {r.roles : r \in rows}} |->
     LET own == {r \in rows : \E role \in r.roles : PillarFor(role, pillars) = p} IN
     [interventions |-> own,
      roles |-> {role \in UNION {r.roles : r \in own} : PillarFor(role, pillars) = p},
      realized |-> AddUp(own, Revenue), exposure |-> AddUp(own, LAMBDA r : r.exposure)]]
Reasons(roles, pillars) ==
  [noPillar |-> {PillarRole(role) : role \in {x \in roles : PillarRole(x) # None /\ PillarRole(x) \notin pillars}},
   noEntry |-> {role \in roles : PillarRole(role) = None}]

\* _ledger, over the outcomes of the journeys.
LedgerBucket == {"lost", "expansion", "protected", "pipeline", "at_risk"}
Ledger(outs, linked) ==
  [b \in LedgerBucket |->
     LET own == {o \in outs : o.bucket = b} IN
     [outcomes |-> Cardinality(own), revenue |-> AddUp(own, LAMBDA o : o.revenue),
      linked |-> AddUp({o \in own : o.id \in linked}, LAMBDA o : o.revenue)]]

\* _health_lift: points gained at the hook of an intervention that was done.
Lift(r, hooks) ==
  IF ~(r.closed = "done" /\ r.node \in DOMAIN hooks) THEN None
  ELSE IF hooks[r.node].before = None \/ hooks[r.node].after = None THEN None
  ELSE hooks[r.node].after - hooks[r.node].before
Lifted(rows, hooks) == {r \in rows : Lift(r, hooks) # None /\ Lift(r, hooks) > 0}

\* playbook_health_lift, in hundredths, and _sensitivity, revenue over points.
HealthLift(pb, rows, hooks) ==
  LET S == {r \in Lifted(rows, hooks) : r.pb = pb} IN
  IF Cardinality(S) < MinMeasured THEN None
  ELSE (100 * AddUp(S, LAMBDA r : Lift(r, hooks))) \div Cardinality(S)
Pairs(rows, hooks) ==
  {r \in Lifted(rows, hooks) : /\ r.outcome # None /\ r.outcome.id \in hooks[r.node].outcomes
                               /\ r.outcome.bucket \in {"protected", "expansion"}}
Sensitivity(rows, hooks) ==
  LET S == Pairs(rows, hooks) IN
  IF Cardinality(S) < MinMeasured THEN None
  ELSE [revenue |-> AddUp(S, Revenue), points |-> AddUp(S, LAMBDA r : Lift(r, hooks))]

-----------------------------------------------------------------------------
\* The inputs.
TriggerCase ==
  [of : {"trigger"}, nodes : {{x, y} : x, y \in Cited}, scores : {s \in Scores : Cardinality(DOMAIN s) # 2},
   renewal : Renewal \cup {None}, delta : Delta,
   installed : {FALSE}, heard : Heard,
   pb : UNION {{f[i] : i \in DOMAIN f} : f \in {LoadVertical(file) : file \in Definitions}}]
OverlayCase == [of : {"overlay"}, calls : Calls, file : Definitions]
BoardCase == [of : {"board"}, rows : Board, hooks : Reading, now : {30}, pillars : {{}, {"adoption"}, {"adoption", "revenue"}}]

PlayInit == play \in TriggerCase \cup OverlayCase \cup BoardCase
PlaySpec == PlayInit /\ [][FALSE]_play

-----------------------------------------------------------------------------
\* A trigger stands on what it cites: with the other evidence gone it fires still, on the
\* same, if the month it reads and 'now' are the same; more evidence of that month never
\* stops it; a playbook that wants all of its roles fires only where one that wants any
\* would, under the same key (governance.py:98-136).
Only(c, ids) == [c EXCEPT !.nodes = {n \in @ : n.id \in ids}]
Without(c, n) == [c EXCEPT !.nodes = @ \ {n}]
SameView(j, other) == other.asOf = j.asOf /\ Max(DOMAIN other.series) = Max(DOMAIN j.series)

OnWhatItCites(pb, m, j, rest, cited) ==
  SameView(j, cited) =>
    LET alone == MatchOn(pb, rest, cited) IN alone.fires /\ TriggerKey(alone) = TriggerKey(m)
MoreNeverStops(m, j, less, before) ==
  less.fires /\ Max(DOMAIN before.series) = Max(DOMAIN j.series) =>
    m.fires /\ TriggerKey(less) \subseteq TriggerKey(m)
WithLess(pb, m, j, rest, before) == MoreNeverStops(m, j, MatchOn(pb, rest, before), before)
FiresAlike(m, other) == m.fires => other.fires /\ TriggerKey(other) = TriggerKey(m)

TriggerStands(c, m, j) ==
  /\ m.fires =>
       /\ \A e \in m.cited : \E n \in c.nodes : n.id = e.id /\ n.review # "rejected"
       /\ OnWhatItCites(c.pb, m, j, Only(c, TriggerKey(m)), Journey(Only(c, TriggerKey(m))))
  /\ \A n \in c.nodes : WithLess(c.pb, m, j, Without(c, n), Journey(Without(c, n)))
  /\ c.pb.match = "all" => FiresAlike(m, MatchOn([c.pb EXCEPT !.match = "any"], c, j))

\* The role, not the tone, sets the minimum: where a cited role reaches the floor, what a
\* model heard does not matter, and nowhere does more urgency stop a playbook
\* (urgency.py:8-10).
RoleSetsMinimum(c, m, loud) ==
  /\ m.fires => loud.fires
  /\ (\E e \in m.cited : StructuralOf(e.role) # None /\ c.pb.floor # None /\ StructuralOf(e.role) >= c.pb.floor) =>
       (m.fires <=> loud.fires)
Loud(c) == [c EXCEPT !.heard = [n \in DOMAIN @ |-> [score |-> 10, esc |-> 10]]]

TriggerRight(c, m, j) ==
  TriggerStands(c, m, j) /\ RoleSetsMinimum(c, m, MatchOn(c.pb, Loud(c), j))
TriggerOf(c, j) == TriggerRight(c, MatchOn(c.pb, c, j), j)

\* A definition that was accepted can fire, unless it waits for what customers announce or
\* the CRM flags, which the leading layer leaves out (definitions.py:60-75).
AcceptedCanFire(file) ==
  \A i \in DOMAIN LoadVertical(file) :
    LET pb == file[i]
        sign(role) == [id |-> <<"sign", role>>, day |-> 100, type |-> "SIGNAL", sub |-> None, role |-> role,
                       sent |-> 5, flagged |-> FALSE, review |-> None, bucket |-> None]
        c == [nodes |-> {sign(role) : role \in pb.roles}, scores |-> <<>>, renewal |-> 100, delta |-> None,
              installed |-> FALSE, heard |-> [id \in {<<"sign", role>> : role \in pb.roles} |-> [score |-> 9, esc |-> 0]]]
    IN (IF pb.match = "all" THEN pb.roles \cap LeadingExcluded = {} ELSE ~(pb.roles \subseteq LeadingExcluded))
       => Match(pb, c).fires

\* However a tenant was configured: each field is what the last accepted call that gave it
\* says, a call repeated changes nothing, nothing is delivered unsigned, and neither a
\* kill switch nor a disabled playbook lets a proposal through; policy approves
\* notifications alone (definitions.py:176-230, governance.py:153, 224).
OverlaySound(c) ==
  LET defs == LoadVertical(c.file)
      known == {defs[i].id : i \in DOMAIN defs}
      o == After(c.calls, known)
      before(i) == After(SubSeq(c.calls, 1, i - 1), known)
      given(Field(_)) == {i \in DOMAIN c.calls : Accepts(before(i), c.calls[i], known) /\ Field(c.calls[i]) # None}
      last(Field(_), default) == IF given(Field) = {} THEN default ELSE Field(c.calls[Max(given(Field))])
  IN /\ o.url = last(LAMBDA x : x.url, "") /\ o.secret = last(LAMBDA x : x.secret, FALSE)
     /\ o.slack = last(LAMBDA x : x.slack, "") /\ o.off = last(LAMBDA x : x.off, {})
     /\ o.level = last(LAMBDA x : x.level, 0) /\ o.enabled = ~last(LAMBDA x : x.kill, FALSE)
     /\ c.calls # <<>> => TenantConfig(After(Append(c.calls, Last(c.calls)), known)) = TenantConfig(o)
     /\ o.url # "" => o.secret
     /\ o.off \subseteq known
     /\ \A i \in Proposable(o, defs) : o.enabled /\ defs[i].id \notin o.off
     /\ \A i \in ByPolicy(o, defs) : defs[i].class = "notify"

\* The board loses no row and counts none twice, and /health says the same of all tenants
\* as the lists do of each (governance.py:446-503); only a row that was sent has an outcome
\* in its window.
BoardCounts(c) ==
  LET by == ByPlaybook(c.rows, c.now)
      health == HealthCounts(c.rows, c.now)
      sum(Of(_)) == MapThenSumSet(LAMBDA pb : Of(by[pb]), DOMAIN by)
  IN /\ sum(LAMBDA s : MapThenSumSet(LAMBDA w : s.at[w], Where)) = health.total
     /\ sum(LAMBDA s : s.stuck) = health.stuck /\ sum(LAMBDA s : s.problems) = health.problems
     /\ \A pb \in DOMAIN by : by[pb].inWindow <= Least(by[pb].reported, by[pb].at["done"] + by[pb].at["failed"] + by[pb].at["cancelled"])
     /\ \A r \in c.rows : r.inWindow => r.sent # None /\ ~Stuck(r, c.now)

\* Impact is measured on what is on record: roles fall to pillars or are unmapped for a
\* reason that is given; unless two interventions name one outcome, what playbooks
\* realized is what the ledger links; a figure per point rests on enough interventions,
\* each of them measured for its playbook too, and lies between the best and the worst of
\* them (roi/measured.py:46-163, 189-264).
MeasuredOnRecord(c) ==
  LET roles == UNION {r.roles : r \in c.rows}
      pillars == ByPillar(c.rows, c.pillars)
      reasons == Reasons(pillars["unmapped"].roles, c.pillars)
      by == ByPlaybook(c.rows, c.now)
      named == {r \in c.rows : r.outcome # None}
      ledger == Ledger(OnRecord, {r.outcome.id : r \in named})
      outside == {r \in named : r.outcome.bucket \notin LedgerBucket}
      pairs == Pairs(c.rows, c.hooks)
      figure == Sensitivity(c.rows, c.hooks)
  IN /\ UNION {pillars[p].roles : p \in DOMAIN pillars} = roles
     /\ \A p, q \in DOMAIN pillars : p # q => pillars[p].roles \cap pillars[q].roles = {}
     /\ UNION {pillars[p].interventions : p \in DOMAIN pillars} = {r \in c.rows : r.roles # {}}
     /\ "unmapped" \in DOMAIN pillars => reasons.noPillar \cup reasons.noEntry # {}
     /\ (\A r, s \in named : r.outcome.id = s.outcome.id => r = s) =>
          MapThenSumSet(LAMBDA pb : by[pb].realized, DOMAIN by)
          = MapThenSumSet(LAMBDA b : ledger[b].linked, LedgerBucket) + AddUp(outside, Revenue)
     /\ figure # None =>
          LET revenueOf(r) == Revenue(r) * figure.points
              pointsOf(r) == Lift(r, c.hooks) * figure.revenue
          IN /\ figure.points > 0
             /\ \E r \in pairs : revenueOf(r) <= pointsOf(r)
             /\ \E r \in pairs : revenueOf(r) >= pointsOf(r)
             /\ \A pb \in {r.pb : r \in pairs} :
                  Cardinality({r \in pairs : r.pb = pb}) >= MinMeasured => HealthLift(pb, c.rows, c.hooks) # None

\* All of it, for the input looked at.
PlaybooksSound ==
  CASE play.of = "trigger" -> TriggerOf(play, Journey(play))
    [] play.of = "overlay" -> AcceptedCanFire(play.file) /\ OverlaySound(play)
    [] play.of = "board" -> BoardCounts(play) /\ MeasuredOnRecord(play)
    [] OTHER -> TRUE
=============================================================================
