---------------------------- MODULE JourneyRules -----------------------------
(***************************************************************************)
(* How a journey is read from an account's evidence and its monthly        *)
(* scores: episodes, phases, the leading beside the trailing layer, the    *)
(* features and the arc.                                                   *)
(*   journeys/journey_builder.py, features.py, arc_classifier.py,          *)
(*   coverage.py, utils/taxonomy_loader.py                                 *)
(*                                                                         *)
(* A month has thirty days and times of day are left out; sentiments are   *)
(* tenths; a subtype is one of the few a rule tells apart.  Modules        *)
(* SignalPipeline, SignalReview and Foresight say when a journey is read   *)
(* and written.  The only variable is the account looked at.  Names that   *)
(* begin with Mut are wrong variants.                                      *)
(***************************************************************************)
EXTENDS GraphRules, FiniteSetsExt

CONSTANTS
  Node,                 \* evidence in the graph: [id, day, type, sub, role, sent, flagged, review, bucket]
  Scores,               \* scores by month, functions of sets of months
  Renewal,              \* days a contract may be renewed on, or None
  Delta,                \* change of the adoption pillar over three months, or None
  Today,
  DecayOf(_)            \* weight of evidence so many days old

VARIABLE account

\* The cases: some evidence, some scores, what the profile says of the contract.
AccountRead(nodes, scores, renewal, delta, installed) ==
  [of |-> "journey", nodes |-> nodes, scores |-> scores, renewal |-> renewal,
   delta |-> delta, installed |-> installed]

JourneyInit ==
  \E nodes \in {{}} \cup {{x, y, z} : x, y, z \in Node}, scores \in Scores,
     renewal \in Renewal, delta \in Delta :
    account = AccountRead(nodes, scores, renewal, delta, FALSE)
JourneySpec == JourneyInit /\ [][FALSE]_account

-----------------------------------------------------------------------------
\* Time.
MonthAt(day) == (day + 29) \div 30
First(m) == 30 * m - 29
End(m) == 30 * m

\* Roles of the taxonomy.
NegativeRole == {"champion_change", "engagement_decline", "usage_decline", "escalation",
  "infra_incident", "capacity_pressure", "delivery_stall", "commercial_pressure",
  "product_friction"}
PositiveRole == {"expansion_intent", "expansion_realized", "advocacy", "recovery"}
LeadingExcluded == {"announcement", "crm_flag"}

Polarity(role) == IF role \in NegativeRole THEN -1 ELSE IF role \in PositiveRole THEN 1 ELSE 0
OutcomePolarity(bucket) ==
  CASE bucket \in {"expansion", "protected", "pipeline"} -> 1
    [] bucket \in {"lost", "at_risk"} -> -1 [] OTHER -> 0

-----------------------------------------------------------------------------
\* collect_episodes.  A sentiment that was not given is the default of the role, and so
\* is one that contradicts it.
Sentiment(n) ==
  LET pol == Polarity(n.role)
  IN IF pol = 0 THEN n.sent
     ELSE IF n.sent = None \/ n.sent * pol < 0 THEN 6 * pol ELSE n.sent

\* What a person rejected is no evidence, nor is a legacy system node.
MutIsEvidence(n) == n.sub # "arc_detection"

IsEvidence(n) == n.review # "rejected" /\ ~(n.type = "SIGNAL" /\ n.sub = "arc_detection")

KindOf == [SIGNAL |-> "signal", DECISION |-> "decision", INTERVENTION |-> "intervention",
           OUTCOME |-> "outcome"]

Episode(n) ==
  [id |-> n.id, day |-> n.day, kind |-> KindOf[n.type], sub |-> n.sub, bucket |-> n.bucket,
   role |-> CASE n.type = "SIGNAL" -> n.role [] n.type = "INTERVENTION" -> "intervention" [] OTHER -> None,
   polarity |-> CASE n.type = "SIGNAL" -> Polarity(n.role)
                  [] n.type = "OUTCOME" -> OutcomePolarity(n.bucket) [] OTHER -> 0,
   sent |-> IF n.type = "SIGNAL" THEN Sentiment(n) ELSE None,
   weak |-> n.flagged /\ n.review = None]

Event(id, day, kind, polarity) ==
  [id |-> id, day |-> day, kind |-> kind, sub |-> None, bucket |-> None, role |-> None,
   polarity |-> polarity, sent |-> None, weak |-> FALSE]

\* The scored month before m, or m itself when it is the first.
Upto(scores, m) == {x \in DOMAIN scores : x <= m}
Prev(scores, m) == IF Upto(scores, m - 1) = {} THEN m ELSE Max(Upto(scores, m - 1))

Transitions(scores) ==
  {Event(<<"health", m>>, First(m), "health_transition",
         IF scores[m] > scores[Prev(scores, m)] THEN 1 ELSE -1) :
     m \in {x \in DOMAIN scores : Classify(scores[x]) # Classify(scores[Prev(scores, x)])}}

Episodes(c) ==
  {Episode(n) : n \in {x \in c.nodes : IsEvidence(x)}}
  \cup Transitions(c.scores)
  \cup IF c.renewal = None THEN {} ELSE {Event(<<"renewal", 0>>, c.renewal, "renewal", 0)}

Signals(eps) == {e \in eps : e.kind = "signal"}
Days(eps) == {e.day : e \in eps}
Earliest(eps) == CHOOSE e \in eps : \A x \in eps : e.day <= x.day
Newest(eps) == CHOOSE e \in eps : \A x \in eps : x.day <= e.day
Least(m, n) == IF m < n THEN m ELSE n

\* 'Now' is the end of the last scored month, or later evidence; without scores it is the
\* evidence.  Nothing lies after today.
AsOf(c, eps) ==
  LET last == Max(Days(Signals(eps))) IN
  IF DOMAIN c.scores # {}
  THEN LET end == End(Max(DOMAIN c.scores))
       IN IF Signals(eps) # {} /\ last > end THEN Least(last, Today) ELSE end
  ELSE IF Signals(eps) # {} THEN Least(last, Today) ELSE Today

\* _live_months: those after the last scored one, or from the first signal.
LiveMonths(c, eps) ==
  IF Signals(eps) = {} THEN {}
  ELSE (IF DOMAIN c.scores # {} THEN Max(DOMAIN c.scores) + 1 ELSE MonthAt(Min(Days(Signals(eps)))))
       .. MonthAt(Least(Max(Days(Signals(eps))), Today))

-----------------------------------------------------------------------------
\* slope_pts_per_month, as a rise over a number of months.
Slope(scores, m, months) ==
  LET upto == Upto(scores, m)
      from == CHOOSE p \in upto : Cardinality({x \in upto : x >= p}) = Least(months + 1, Cardinality(upto))
  IN IF upto = {} THEN [rise |-> 0, span |-> 1]
     ELSE [rise |-> scores[m] - scores[from], span |-> IF from = m THEN 1 ELSE m - from]
Above(slope, pts) == slope.rise > pts * slope.span
Under(slope, pts) == slope.rise < pts * slope.span

\* detect_phases: once there was a dip it is never forgotten.
Dipped(scores, m) == \E x \in Upto(scores, m) : scores[x] < AtRisk

PhaseAt(scores, m) ==
  LET slope == Slope(scores, m, 1) IN
  CASE scores[m] < AtRisk -> "intervention"
    [] scores[m] >= AtRisk /\ Dipped(scores, m) /\ Above(slope, 3) -> "resolution"
    [] scores[m] >= AtRisk /\ ~(Dipped(scores, m) /\ Above(slope, 3)) ->
         IF Under(slope, -1) /\ scores[m] < Healthy + 5 THEN "deterioration" ELSE "baseline"

\* The trigger of a phase is the last thing that happened to the account, no response.
IsResponse(e) == e.kind \in {"decision", "intervention"} \/ (e.kind = "signal" /\ e.role = "intervention")

Trigger(eps, m) ==
  LET near == {e \in eps : /\ ~IsResponse(e) /\ e.kind # "renewal"
                           /\ First(m) - 45 <= e.day /\ e.day <= End(m)}
  IN IF near = {} THEN None ELSE Newest(near).id

\* detect_phases_from_evidence, month after month; quiet counts the months without any.
EvidencePhases(eps, months) ==
  LET in(m) == {e \in eps : /\ MonthAt(e.day) = m
                            /\ (e.kind = "signal" /\ e.role # None) \/ e.kind = "intervention"}
      neg(m) == {e \in in(m) : e.polarity < 0}
      pos(m) == {e \in in(m) : e.polarity > 0}
      acted(m) == {e \in in(m) : e.role = "intervention"}
      entry(phase, quiet, by) ==
        [phase |-> phase, quiet |-> quiet, trigger |-> IF by = {} THEN None ELSE Earliest(by).id]
      read[m \in months] ==
        LET prev == IF m - 1 \in months THEN read[m - 1] ELSE entry("baseline", 0, {})
        IN IF acted(m) # {} THEN entry("intervention", 0, acted(m))
           ELSE IF Cardinality(neg(m)) > Cardinality(pos(m)) THEN entry("deterioration", 0, neg(m))
           ELSE IF pos(m) # {} THEN
             entry(IF prev.phase = "baseline" THEN "baseline" ELSE "resolution", 0, pos(m))
           ELSE IF in(m) # {} THEN
             entry(IF prev.phase = "resolution" THEN "baseline" ELSE prev.phase, 0, in(m))
           ELSE entry(IF prev.quiet + 1 < 2 THEN prev.phase ELSE "baseline", prev.quiet + 1, {})
  IN read

\* Months of one phase run together; the trigger is that of the first.
Entered(label) == {m \in DOMAIN label : m - 1 \notin DOMAIN label \/ label[m - 1].phase # label[m].phase}

Runs(label) == [m \in Entered(label) |-> [phase |-> label[m].phase, trigger |-> label[m].trigger]]

\* Of scored months the one before counts, however long ago it was.
Phases(c, eps) ==
  IF DOMAIN c.scores # {}
  THEN [m \in {x \in DOMAIN c.scores : Prev(c.scores, x) = x
                 \/ PhaseAt(c.scores, Prev(c.scores, x)) # PhaseAt(c.scores, x)} |->
          [phase |-> PhaseAt(c.scores, m), trigger |-> Trigger(eps, m)]]
  ELSE Runs(EvidencePhases(eps, LiveMonths(c, eps)))

-----------------------------------------------------------------------------
\* leading_series: signals with a role, those aside that are somebody's own assessment.
Behavioral(eps) ==
  {e \in Signals(eps) : e.sent # None /\ e.role # None /\ e.role \notin LeadingExcluded}
Window(eps, m) == {e \in Behavioral(eps) : End(m) - 60 < e.day /\ e.day <= End(m)}

\* Evidence waiting for a review counts half.
WeightIn(m, e) == DecayOf(End(m) - e.day) * (IF e.weak THEN 1 ELSE 2)
Qual(eps, m) ==
  LET S == Window(eps, m) IN
  IF S = {} THEN None
  ELSE MapThenSumSet(LAMBDA e : WeightIn(m, e) * 5 * (e.sent + 10), S)
       \div MapThenSumSet(LAMBDA e : WeightIn(m, e), S)

SeriesAt(scores, eps, m) ==
  LET qual == Qual(eps, m)
      live == m \notin DOMAIN scores
  IN [qual |-> qual, kpi |-> IF live THEN None ELSE scores[m],
      label |-> CASE qual = None -> None
                  [] qual # None /\ live -> "leading_only"
                  [] qual # None /\ ~live ->
                       IF qual - scores[m] <= -10 THEN "early_warning"
                       ELSE IF qual - scores[m] >= 10 THEN "recovery_watch" ELSE "aligned",
      by |-> {e.id : e \in Window(eps, m)}]
Series(c, eps) == [m \in DOMAIN c.scores \cup LiveMonths(c, eps) |-> SeriesAt(c.scores, eps, m)]

Warns(s) == s.qual # None /\ (s.label = "early_warning" \/ s.qual < AtRisk)
FirstWarning(series) ==
  LET leading == {m \in DOMAIN series : Warns(series[m])}
      trailing == {m \in DOMAIN series : series[m].kpi # None /\ series[m].kpi < AtRisk}
      first(S) == IF S = {} THEN None ELSE Min(S)
  IN [leading |-> first(leading), trailing |-> first(trailing),
      lead |-> IF leading = {} \/ trailing = {} THEN None ELSE First(Min(trailing)) - First(Min(leading))]

-----------------------------------------------------------------------------
\* counterfactual_hooks: ninety days on both sides of a response.
Hooks(c, eps) ==
  [e \in {x \in eps : IsResponse(x)} |->
     [before |-> {m \in DOMAIN c.scores : e.day - 90 <= End(m) /\ End(m) < e.day},
      after |-> {m \in DOMAIN c.scores : e.day <= End(m) /\ End(m) < e.day + 90},
      outcomes |-> {o.id : o \in {x \in eps : x.kind = "outcome" /\ e.day <= x.day /\ x.day < e.day + 90}}]]

\* trajectory_label: the mean of the later half against that of the earlier one.
Total(scores, S) == MapThenSumSet(LAMBDA m : scores[m], S)
Trajectory(scores) ==
  LET n == Cardinality(DOMAIN scores)
      mid == IF n < 2 THEN 1 ELSE n \div 2
      head == {m \in DOMAIN scores : Cardinality(Upto(scores, m)) <= mid}
      tail == DOMAIN scores \ head
      gain(k) == Total(scores, tail) * mid > (Total(scores, head) + k * mid) * (n - mid)
      crisis == \E m \in DOMAIN scores : scores[m] < AtRisk
  IN IF n = 0 THEN "unknown"
     ELSE IF crisis THEN (IF n > 1 /\ gain(5) THEN "recovery" ELSE "crisis")
     ELSE IF n = 1 THEN "stable"
     ELSE IF gain(5) THEN "improving"
     ELSE IF Total(scores, tail) * mid < (Total(scores, head) - 5 * mid) * (n - mid) THEN "declining"
     ELSE "stable"

\* data_coverage.
KpiLayer(c, eps, asOf) ==
  LET old == Signals(eps) # {} /\ asOf - Min(Days(Signals(eps))) >= 45 IN
  IF DOMAIN c.scores # {}
  THEN IF asOf - First(Max(DOMAIN c.scores)) <= 75 THEN "present" ELSE "stale"
  ELSE IF c.installed \/ old THEN "none" ELSE "not_yet"

-----------------------------------------------------------------------------
\* features.compute, what the rules read.
Features(c, eps, phases, asOf) ==
  LET last == IF DOMAIN c.scores = {} THEN 0 ELSE Max(DOMAIN c.scores)
      recent == {e \in Signals(eps) : asOf - 90 < e.day /\ e.day <= asOf}
      neg == {e \in recent : e.polarity < 0}
      rec == {e \in recent : e.role = "recovery"}
  IN [only |-> DOMAIN c.scores = {},
      now |-> IF DOMAIN c.scores = {} THEN None ELSE c.scores[last],
      one |-> Slope(c.scores, last, 1), three |-> Slope(c.scores, last, 3),
      dipped |-> Dipped(c.scores, last),
      wasNegative |-> \E m \in DOMAIN phases : phases[m].phase \in {"deterioration", "intervention"},
      neg |-> Cardinality(neg), pos |-> Cardinality({e \in recent : e.polarity > 0}),
      turned |-> \E e \in neg, r \in rec : e.day < r.day,
      renewal |-> IF c.renewal = None THEN None ELSE IF c.renewal < asOf THEN 0 ELSE c.renewal - asOf,
      delta |-> c.delta]

\* The predicates of the rules, on scores ...
HealthSays(f) ==
  {p \in {"below_healthy", "below_at_risk_or_dipped", "below_healthy_or_had_negative_phase",
          "healthy", "very_healthy", "declining", "declining_3mo"} :
     CASE p = "below_healthy" -> f.now < Healthy
       [] p = "below_at_risk_or_dipped" -> f.now < AtRisk \/ f.dipped
       [] p = "below_healthy_or_had_negative_phase" -> f.now < Healthy \/ f.wasNegative
       [] p = "healthy" -> f.now >= Healthy
       [] p = "very_healthy" -> f.now >= Healthy + 10
       [] p = "declining" -> Under(f.one, -1)
       [] p = "declining_3mo" -> Under(f.three, 0)}

\* ... and on evidence, without any.
EvidenceSays(f) ==
  {p \in {"below_healthy", "below_at_risk_or_dipped", "below_healthy_or_had_negative_phase",
          "healthy", "very_healthy", "declining", "declining_3mo"} :
     CASE p \in {"below_healthy", "below_healthy_or_had_negative_phase", "declining_3mo"} ->
            f.pos < f.neg \/ f.wasNegative
       [] p = "below_at_risk_or_dipped" -> f.wasNegative \/ f.turned
       [] p = "healthy" -> f.pos > f.neg /\ ~f.wasNegative
       [] p = "very_healthy" -> f.pos - f.neg >= 3 /\ 5 * f.neg <= f.pos
       [] p = "declining" -> f.pos < f.neg}

Says(f) ==
  (IF f.only THEN EvidenceSays(f) ELSE HealthSays(f))
  \cup (IF f.renewal # None /\ f.renewal < 90 THEN {"renewal_near"} ELSE {})
  \cup (IF f.delta # None /\ f.delta < -5 THEN {"adoption_declining"} ELSE {})
  \cup (IF f.wasNegative THEN {"had_negative_phase"} ELSE {})

-----------------------------------------------------------------------------
\* RULES, in the order of their priority: a signal of each set of roles, all of one set of
\* predicates and some of the other (or a role instead), and none of the excluded roles.
Rule(arc, needs, all, any, or, excludes) ==
  [arc |-> arc, needs |-> needs, all |-> all, any |-> any, or |-> or, excludes |-> excludes]

Rules == <<
  Rule("exec_sponsor_change", {{"champion_change"}}, {},
       {"below_healthy", "declining", "had_negative_phase"}, {"engagement_decline"}, {}),
  Rule("crisis_recovery", {{"infra_incident", "escalation"}}, {"below_at_risk_or_dipped"}, {}, {}, {}),
  Rule("stalled_deployment", {{"infra_incident", "capacity_pressure", "delivery_stall"}}, {},
       {"adoption_declining", "below_healthy", "had_negative_phase"}, {}, {"champion_change"}),
  Rule("competitive_displacement", {{"commercial_pressure"}}, {},
       {"declining_3mo", "renewal_near", "below_healthy", "had_negative_phase"}, {}, {}),
  Rule("silent_churn", {{"engagement_decline", "usage_decline"}}, {"below_healthy_or_had_negative_phase"},
       {"declining", "had_negative_phase"}, {},
       {"infra_incident", "escalation", "champion_change", "commercial_pressure"}),
  Rule("expansion_champion", {{"expansion_intent"}, {"advocacy"}}, {"very_healthy"}, {}, {}, {}),
  Rule("land_and_expand", {{"expansion_intent", "expansion_realized"}}, {"healthy"}, {}, {}, {}),
  Rule("seasonal_surge", {{"routine"}}, {"healthy"}, {}, {}, {}) >>

\* seasonal_surge asks for a subtype as well.
Hits(rule, roles, eps) ==
  {e \in eps : e.role \in roles /\ (rule.arc = "seasonal_surge" => e.sub = "seasonal_pattern")}
Support(rule, eps) == {e.id : e \in UNION {Hits(rule, roles, eps) : roles \in rule.needs}}
Present(roles, eps) == \E e \in eps : e.role \in roles

Satisfied(rule, says, eps) ==
  /\ \A roles \in rule.needs : Hits(rule, roles, eps) # {}
  /\ ~Present(rule.excludes, eps)
  /\ rule.all \subseteq says
  /\ rule.any # {} => rule.any \cap says # {} \/ Present(rule.or, eps)

NegativeForSteady == NegativeRole \ {"product_friction"}

\* classify: the first rule that is satisfied; else steady, when healthy, flat and quiet,
\* or quiet without scores; else unclassified.
Matches(says, known) == {i \in DOMAIN Rules : Satisfied(Rules[i], says, known)}
Quiet(f, known, asOf) ==
  /\ ~f.wasNegative /\ ~Present(NegativeForSteady, {e \in known : e.day > asOf - 90})
  /\ f.only \/ (f.now >= Healthy /\ ~Above(f.one, 2) /\ ~Under(f.one, -2))

\* Of the rules that match, found is the first, or 0.
Verdict(found, quiet, known) ==
  [state |-> IF found # 0 THEN "classified" ELSE IF quiet THEN "steady" ELSE "unclassified",
   arc |-> IF found = 0 THEN None ELSE Rules[found].arc,
   support |-> IF found = 0 THEN {} ELSE Support(Rules[found], known),
   others |-> {Rules[i].arc : i \in {j \in DOMAIN Rules \ {found} : Support(Rules[j], known) # {}}}]

KnownAt(eps, asOf) == {e \in Signals(eps) : e.role # None /\ e.day <= asOf}
FirstOf(matches) == IF matches = {} THEN 0 ELSE Min(matches)
Arc(f, known, asOf) == Verdict(FirstOf(Matches(Says(f), known)), Quiet(f, known, asOf), known)

\* build_journey, from the episodes, then the layers, then the features.
Assembled(c, eps, asOf, phases, series, f) ==
  [asOf |-> asOf, episodes |-> eps, phases |-> phases, series |-> series,
   warning |-> FirstWarning(series), features |-> f, arc |-> Arc(f, KnownAt(eps, asOf), asOf),
   hooks |-> Hooks(c, eps), trajectory |-> Trajectory(c.scores), layer |-> KpiLayer(c, eps, asOf)]
Layered(c, eps, asOf, phases) ==
  Assembled(c, eps, asOf, phases, Series(c, eps), Features(c, eps, phases, asOf))
JourneyFrom(c, eps) == Layered(c, eps, AsOf(c, eps), Phases(c, eps))
Journey(c) == JourneyFrom(c, Episodes(c))
-----------------------------------------------------------------------------
\* What a person rejected, and what is dated after today as far as arcs go, leaves no
\* trace (journey_builder.py:104-105, arc_classifier.py:189).
RejectedLeavesNoTrace(c, j) ==
  LET rest == [c EXCEPT !.nodes = {n \in @ : n.review # "rejected"}]
  IN /\ rest # c => Journey(rest) = j
     /\ \A n \in c.nodes : n.id \in j.arc.support => n.review # "rejected" /\ n.day <= Today

\* The layers are separate: evidence moves neither the scored phases nor the trailing
\* warning, scores do not move what signals say of a month, and what a customer announces
\* or the CRM flags moves neither (journey_builder.py:10-13, taxonomy_loader.py:65-67).
SameScored(j, bare) ==
  [m \in DOMAIN j.phases |-> j.phases[m].phase] = [m \in DOMAIN bare.phases |-> bare.phases[m].phase]
SameHeard(j, other) ==
  \A m \in DOMAIN j.series \cap DOMAIN other.series : j.series[m].qual = other.series[m].qual
Separate(c, j, bare) ==
  /\ DOMAIN c.scores # {} => SameScored(j, bare)
  /\ j.warning.trailing = bare.warning.trailing
LayersSeparate(c, j) ==
  /\ Separate(c, j, Journey([c EXCEPT !.nodes = {}]))
  /\ SameHeard(j, Journey([c EXCEPT !.scores = <<>>]))
  /\ SameHeard(j, Journey([c EXCEPT !.nodes = {n \in @ : n.role \notin LeadingExcluded}]))

\* A signal the leading layer scores shows in some month of the series, if it is from
\* the last two months before the first scored one or later, not from a later month than
\* this one, and no more than one month in a row is without a score: evidence runs ahead
\* of a monthly feed and would be invisible otherwise (journey_builder.py:370-374).
SignalsShow(c, j) ==
  \A e \in Behavioral(j.episodes) :
    /\ MonthAt(e.day) <= MonthAt(Today)
    /\ DOMAIN c.scores # {} => e.day > End(Min(DOMAIN c.scores)) - 60
    /\ \A m \in DOMAIN c.scores : m - Prev(c.scores, m) <= 2
    => \E m \in DOMAIN j.series : e.id \in j.series[m].by

\* A better sentiment never lowers a month, and however positive a signal of a negative
\* role was said to be, alone it never lifts a month above the middle
\* (journey_builder.py:111-120).
NoWorse(n, j, better) ==
  \A m \in DOMAIN j.series : j.series[m].qual # None =>
    /\ n.sent >= 0 \/ n.role \notin NegativeRole => better.series[m].qual >= j.series[m].qual
    /\ better.series[m].by = {n.id} /\ n.role \in NegativeRole => better.series[m].qual < 50
SentimentCounts(c, j) ==
  \A n \in c.nodes : n.type = "SIGNAL" /\ n.sent # None =>
    NoWorse(n, j, Journey([c EXCEPT !.nodes = (@ \ {n}) \cup {[n EXCEPT !.sent = 10]}]))

\* An arc cites evidence of every kind its rule asks for and stands on what it cites: with
\* the other signals gone it is classified still, unless scores are missing and the
\* counts of signals stand in for them.  An account that is steady has neither a negative
\* phase nor, within ninety days, a signal that counts against it; scored, it is healthy
\* (arc_classifier.py:4-13, 188-232).
ArcStands(c, j) ==
  /\ j.arc.state = "classified" =>
       /\ j.arc.support # {}
       /\ DOMAIN c.scores # {} =>
            Journey([c EXCEPT !.nodes = {n \in @ : n.id \in j.arc.support}]).arc.state = "classified"
            \/ j.arc.arc = "exec_sponsor_change"
  /\ j.arc.state = "steady" =>
       /\ \A m \in DOMAIN j.phases : j.phases[m].phase \notin {"deterioration", "intervention"}
       /\ ~\E e \in Signals(j.episodes) :
            e.role \in NegativeForSteady /\ j.asOf - 90 < e.day /\ e.day <= j.asOf
       /\ DOMAIN c.scores # {} => c.scores[Max(DOMAIN c.scores)] >= Healthy

\* A phase of recovery follows a dip or a negative phase.
RecoveryFollows(c, j) ==
  \A m \in DOMAIN j.phases : j.phases[m].phase = "resolution" =>
    IF DOMAIN c.scores # {} THEN \E x \in DOMAIN c.scores : x < m /\ c.scores[x] < AtRisk
    ELSE \E x \in DOMAIN j.phases : x < m /\ j.phases[x].phase \in {"deterioration", "intervention"}

\* What a journey is right to say of the account it was read from.
ReadRight(c, j) ==
  /\ RejectedLeavesNoTrace(c, j)
  /\ LayersSeparate(c, j)
  /\ SignalsShow(c, j)
  /\ SentimentCounts(c, j)
  /\ ArcStands(c, j)
  /\ RecoveryFollows(c, j)

\* All of it, for the account looked at.
JourneyRead == account.of = "journey" => ReadRight(account, Journey(account))
=============================================================================
