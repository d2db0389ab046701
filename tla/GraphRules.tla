----------------------------- MODULE GraphRules -----------------------------
(***************************************************************************)
(* The rules of the context graph, as operators over its rows: what the    *)
(* write path refuses or weakens, what the audit reports, how edges of     *)
(* several writers outrank each other, and what the read side makes of it. *)
(*   utils/context_graph_invariants.py, utils/context_graph.py,            *)
(*   utils/supersession.py, utils/provenance.py, utils/taxonomy_loader.py  *)
(*                                                                         *)
(* A node is a record of the columns the rules read:                       *)
(*   type, sub (node_subtype), acct, at (occurred_at), impact              *)
(*   (revenue_impact), tag (revenue_impact_type), conf and pconf           *)
(*   (confidence of the row and of its properties, in tenths), earned (has *)
(*   evidence or a source_ref), arc (properties.arc_type), title, live     *)
(*   (not expired), src (source_event_id).  None is SQL NULL.              *)
(* An edge: from, to (row numbers), kind (edge_type), by (source_platform),*)
(*   tier (properties.evidence_tier), conf, earned, marked                 *)
(*   (properties.would_be_clamped), sup (superseded_by).                   *)
(* nd and ed are the two tables, as sequences in order of id.              *)
(***************************************************************************)
EXTENDS Integers, Sequences, FiniteSets

CONSTANTS
  None,                 \* SQL NULL
  Healthy, AtRisk       \* the lower bounds of config/health_thresholds.json

ASSUME ThresholdAssumption == Healthy \in Nat /\ AtRisk \in Nat /\ AtRisk <= Healthy

-----------------------------------------------------------------------------
\* Vocabulary.
NegativeOutcome == {"churn_lost", "contraction", "renewal_at_risk",
  "revenue_at_risk", "escalation", "intervention_outcome"}
PositiveOutcome == {"expansion_closed", "new_logo", "revenue_protected",
  "playbook_outcome", "recovery_milestone", "churn_averted"}
NegativeSignal == {"champion_loss", "engagement_drop", "usage_decline",
  "kpi_decline", "escalation", "support_escalation", "executive_escalation",
  "critical_incident", "competitive_eval", "silent_churn", "budget_cut",
  "contract_dispute", "downgrade_request", "arc_detection", "crisis_event",
  "integration_stall", "churn_signal"}
PositiveSignal == {"kpi_recovery", "usage_spike", "champion_reengagement",
  "executive_engagement", "expansion_signal", "csm_intervention",
  "feature_adoption_push", "deployment_improvement", "recovery_milestone",
  "qbr_positive", "qbr_alignment", "adoption_growth", "seasonal_peak",
  "capacity_add", "health_improvement"}
Causal == {"CAUSED_BY", "LED_TO", "TRIGGERED", "INDICATES", "RESULTED_IN"}
CanonicalArc == {"crisis_recovery", "expansion_champion", "champion_loss",
  "silent_churn", "infrastructure_decay", "stalled_deployment",
  "competitive_displacement", "land_and_expand", "seasonal_surge",
  "exec_sponsor_change", "stable_healthy", "new_onboarding",
  "crisis", "improving", "recovery", "declining", "stable"}
AmbiguousOutcome == {"playbook_outcome", "intervention_outcome"}
AmbiguousSignal == {"arc_detection"}

\* revenue_buckets of config/taxonomy_base.json, as the audit uses them.
TaxonomyBucket ==
  [at_risk   |-> {"renewal_at_risk", "revenue_at_risk", "renewal_uncertainty",
                  "churn_risk", "engagement_decline", "partial_recovery",
                  "capacity_constraint", "partner_friction", "refresh_at_risk"},
   lost      |-> {"churn_lost", "contraction", "refresh_lost", "support_lapsed",
                  "decommissioned"},
   expansion |-> {"expansion_closed", "new_logo", "revenue_expanded",
                  "revenue_growth", "refresh_won", "repeat_order"},
   pipeline  |-> {"expansion_approved", "expansion_opportunity"},
   protected |-> {"revenue_protected", "churn_averted", "renewal_secured",
                  "escalation_resolved", "maintenance_renewed", "attach"}]

Buckets == DOMAIN TaxonomyBucket

\* classify() of utils/health_thresholds.py.
Classify(score) ==
  IF score >= Healthy THEN "healthy" ELSE IF score >= AtRisk THEN "at_risk" ELSE "critical"

-----------------------------------------------------------------------------
\* The gate of upsert_edge.  timed: the caller gave both moments.
ReverseTime(f, t) == f.at # None /\ t.at # None /\ f.at > t.at
OutcomeToOutcome(f, t) == f.type = "OUTCOME" /\ t.type = "OUTCOME"
PolarityMismatch(f, t) ==
  /\ f.type = "SIGNAL" /\ t.type = "OUTCOME"
  /\ t.sub \notin AmbiguousOutcome /\ f.sub \notin AmbiguousSignal
  /\ \/ t.sub \in NegativeOutcome /\ f.sub \in PositiveSignal
     \/ t.sub \in PositiveOutcome /\ f.sub \in NegativeSignal

MutGateAccepts(f, t, kind, timed) == TRUE

GateAccepts(f, t, kind, timed) ==
  kind \in Causal =>
    /\ ~(timed /\ ReverseTime(f, t))
    /\ ~OutcomeToOutcome(f, t)
    /\ ~PolarityMismatch(f, t)

\* What the write path weakens instead of refusing.
Clamp(c) == IF c = None THEN None ELSE IF c < 0 THEN 0 ELSE IF c > 10 THEN 10 ELSE c

\* An outcome with no evidence and no source_ref: confidence at most 0.3, also
\* when none was given.
MutClampUnearned(n) == n

ClampUnearned(n) ==
  IF n.type # "OUTCOME" \/ n.earned THEN n
  ELSE [n EXCEPT !.conf = IF @ = None \/ @ > 3 THEN 3 ELSE @]

\* upsert_node: both clamps on the way in.
CleanNode(n) == ClampUnearned([n EXCEPT !.conf = Clamp(@), !.pconf = Clamp(@)])

\* Shadow mode (EDGE_CLAMP_ENFORCE = False): a causal edge that claims more than
\* it shows is marked, its confidence is left alone.
WouldClampEdge(e) ==
  e.kind \in Causal /\ e.tier \in {"inferred", "unknown", None} /\ ~e.earned
CleanEdge(e) == [e EXCEPT !.conf = Clamp(@), !.marked = WouldClampEdge(e)]
-----------------------------------------------------------------------------
\* Supersession: which of two edges on one (from, to, kind) is the stronger.
TierRank == [unknown |-> 0, inferred |-> 1, asserted |-> 2, observed |-> 3]
WriterPriority == <<"llm_enrichment", "wizard_a">>      \* highest first

Ranked(by) == \E p \in DOMAIN WriterPriority : WriterPriority[p] = by
Priority(by) == CHOOSE p \in DOMAIN WriterPriority : WriterPriority[p] = by

\* An absent or unrecognised tier counts as inferred.
Tier(e) == IF e.tier \in DOMAIN TierRank THEN e.tier ELSE "inferred"

Inferred(old, new) == Tier(old) = "inferred" /\ Tier(new) = "inferred"

\* Among inferred edges of two ranked writers the higher writer wins.
OutranksByWriter(strong, weak) ==
  /\ Inferred(strong, weak) /\ strong.by # weak.by
  /\ Ranked(strong.by) /\ Ranked(weak.by)
  /\ Priority(strong.by) < Priority(weak.by)

ShouldSupersede(old, new) ==
  \/ TierRank[Tier(new)] > TierRank[Tier(old)]
  \/ Tier(new) = Tier(old) /\ new.by # None /\ new.by = old.by
  \/ OutranksByWriter(new, old)

SameTriple(e, f) == e.from = f.from /\ e.to = f.to /\ e.kind = f.kind

-----------------------------------------------------------------------------
\* The audit: each operator is the set of rows one invariant reports.
Nodes(nd) == DOMAIN nd
Edges(ed) == DOMAIN ed
Outcomes(nd) == {i \in Nodes(nd) : nd[i].type = "OUTCOME"}
CausalEdges(ed) == {k \in Edges(ed) : ed[k].kind \in Causal}

I1(nd, ed) == {k \in CausalEdges(ed) : OutcomeToOutcome(nd[ed[k].from], nd[ed[k].to])}
I2(nd, ed) == {k \in CausalEdges(ed) : PolarityMismatch(nd[ed[k].from], nd[ed[k].to])}
\* Revenue without a cause.
I3(nd, ed) ==
  {i \in Outcomes(nd) : nd[i].impact # None /\ ~\E k \in CausalEdges(ed) : ed[k].to = i}
OutOfBounds(c) == c # None /\ (c < 0 \/ c > 10)
I4(nd, ed) ==
  [nodes |-> {i \in Nodes(nd) : OutOfBounds(nd[i].conf)},
   edges |-> {k \in Edges(ed) : OutOfBounds(ed[k].conf)},
   props |-> {i \in Nodes(nd) : OutOfBounds(nd[i].pconf)}]
I5(nd) == {i \in Nodes(nd) : nd[i].arc # None /\ nd[i].arc \notin CanonicalArc}
\* ac: what the accounts table and the latest health row say of each account.
I6(nd, ac) ==
  {i \in Outcomes(nd) : /\ ac[nd[i].acct].status = "churned"
                        /\ nd[i].tag = "expansion_closed"
                        /\ nd[i].at # None /\ nd[i].at > ac[nd[i].acct].updated}
ChurnLost(nd, a) == {i \in Outcomes(nd) : nd[i].acct = a /\ nd[i].sub = "churn_lost"}
I8(nd, ac) ==
  {a \in DOMAIN ac : ChurnLost(nd, a) # {} /\ ac[a].status # "churned"}
I9(nd, ac) == {a \in DOMAIN ac : Cardinality(ChurnLost(nd, a)) > 1}
I10(nd, ac) ==
  {a \in DOMAIN ac : /\ ChurnLost(nd, a) # {}
                     /\ \E i \in Outcomes(nd) : nd[i].acct = a /\ nd[i].sub = "churn_averted"}
TagBucket(tag) ==
  IF tag \in Buckets THEN {tag} ELSE {b \in Buckets : tag \in TaxonomyBucket[b]}
SubBucket(sub) == {b \in Buckets : sub \in TaxonomyBucket[b]}
I11(nd) ==
  {i \in Outcomes(nd) :
     /\ nd[i].tag # None /\ nd[i].sub # None /\ nd[i].sub \notin AmbiguousOutcome
     /\ \/ TagBucket(nd[i].tag) = {}
        \/ SubBucket(nd[i].sub) # {} /\ SubBucket(nd[i].sub) # TagBucket(nd[i].tag)}
I12(ac) ==
  {a \in DOMAIN ac :
     ac[a].score # None /\
     \/ Classify(ac[a].score) = "healthy" /\ ac[a].status = "at_risk"
     \/ Classify(ac[a].score) = "critical" /\ ac[a].status = "active"}
Definitive == {"churn_lost", "contraction", "expansion_closed", "new_logo"}
I13(nd) ==
  {i \in Outcomes(nd) :
     nd[i].sub \in Definitive
     /\ \E j \in Outcomes(nd) \ {i} : nd[j].acct = nd[i].acct /\ nd[j].sub = nd[i].sub}
MustBeNegative == {"churn_lost", "contraction"}
MustBePositive == {"expansion_closed", "new_logo", "revenue_protected", "churn_averted",
  "revenue_growth", "expansion_approved", "revenue_expanded", "renewal_secured"}
I14(nd) ==
  {i \in Outcomes(nd) :
     nd[i].impact # None /\
     \/ nd[i].sub \in MustBeNegative /\ nd[i].impact > 0
     \/ nd[i].sub \in MustBePositive /\ nd[i].impact < 0}
\* One event told as a signal and as a narrative outcome of the same day; a title
\* is equal to another when one is a long prefix of the other.
I15(nd) ==
  {i \in Nodes(nd) :
     nd[i].type = "SIGNAL" /\ nd[i].at # None /\
     \E j \in Outcomes(nd) : /\ nd[j].impact = None /\ nd[j].acct = nd[i].acct
                             /\ nd[j].at = nd[i].at /\ nd[j].title = nd[i].title}
I16(ac) ==
  {a \in DOMAIN ac :
     ac[a].status = "churned" /\ ac[a].score # None /\ ac[a].score < Healthy}
I17(nd, ed) == {k \in CausalEdges(ed) : ReverseTime(nd[ed[k].from], nd[ed[k].to])}

\* run_all_invariants: the invariants that report something, those over nodes and
\* edges and those that also read the accounts.
GraphAudit(nd, ed) ==
  {v \in {<<"I1", I1(nd, ed)>>, <<"I2", I2(nd, ed)>>, <<"I3", I3(nd, ed)>>,
          <<"I4 nodes", I4(nd, ed).nodes>>, <<"I4 edges", I4(nd, ed).edges>>,
          <<"I4 props", I4(nd, ed).props>>, <<"I5", I5(nd)>>, <<"I11", I11(nd)>>,
          <<"I13", I13(nd)>>, <<"I14", I14(nd)>>, <<"I15", I15(nd)>>,
          <<"I17", I17(nd, ed)>>} : v[2] # {}}
AccountAudit(nd, ac) ==
  {v \in {<<"I6", I6(nd, ac)>>, <<"I8", I8(nd, ac)>>, <<"I9", I9(nd, ac)>>,
          <<"I10", I10(nd, ac)>>, <<"I12", I12(ac)>>, <<"I16", I16(ac)>>} : v[2] # {}}

-----------------------------------------------------------------------------
\* Reading the graph.
LiveCausal(ed) == {k \in CausalEdges(ed) : ed[k].sup = None}

\* get_causal_chain: a walk over the causal edges nobody has superseded, level by
\* level; a node already expanded is not entered again.  The result is the set of
\* nodes listed (the code may list one more than once).
Sources(ed, n) == {ed[k].from : k \in {j \in LiveCausal(ed) : ed[j].to = n}}
Targets(ed, n) == {ed[k].to : k \in {j \in LiveCausal(ed) : ed[j].from = n}}

\* (A walk that does not remember where it has been.)
MutChain(ed, start, upstream, depth) ==
  LET step(n) == IF upstream THEN Sources(ed, n) ELSE Targets(ed, n)
      walk[d \in 0..depth] ==
        IF d = 0 THEN {} ELSE step(start) \cup UNION {step(n) : n \in walk[d - 1]}
  IN walk[depth]

Chain(ed, start, upstream, depth) ==
  LET step(n) == IF upstream THEN Sources(ed, n) ELSE Targets(ed, n)
      walk[d \in 0..depth] ==
        IF d = 0 THEN [seen |-> {}, at |-> {start}, found |-> {}]
        ELSE LET w == walk[d - 1]
                 expanded == w.seen \cup w.at
                 next == (UNION {step(n) : n \in w.at \ w.seen}) \ w.seen
             IN [seen |-> expanded, at |-> next, found |-> w.found \cup (next \ {start})]
  IN walk[depth].found

\* traverse_2hop: everything within two edges of a node, in its own account.
Touching(ed, n) == {k \in Edges(ed) : ed[k].from = n \/ ed[k].to = n}
Around(ed, n) == UNION {{ed[k].from, ed[k].to} : k \in Touching(ed, n)}
Ego(nd, ed, acct, center) ==
  IF center \notin Nodes(nd) \/ nd[center].acct # acct THEN {}
  ELSE {n \in {center} \cup Around(ed, center)
               \cup UNION {Around(ed, m) : m \in Around(ed, center) \ {center}} :
          nd[n].acct = acct}

-----------------------------------------------------------------------------
\* Revenue.
AtRiskTypes == {"at_risk", "revenue_at_risk", "churn_risk", "engagement_decline",
  "renewal_uncertainty", "capacity_constraint", "partner_friction", "partial_recovery"}
LostTypes == {"lost", "churn_lost", "contraction", "revenue_lost"}
ProtectedTypes == {"protected", "revenue_protected", "churn_averted", "renewal_secured",
  "revenue_saved", "engagement_recovery", "escalation_resolved", "intervention_outcome"}
ExpansionTypes == {"expansion", "expansion_closed", "expansion_opportunity",
  "expansion_approved", "expansion_realized", "revenue_growth", "upsell", "cross_sell"}

Magnitude(n) == IF n < 0 THEN -n ELSE n

\* _outcome_revenue_bucket_and_amount: the first set either name is in, then the sign.
Bucket(n) ==
  LET is(S) == n.tag \in S \/ n.sub \in S
  IN CASE is(AtRiskTypes)    -> "at_risk"
       [] is(LostTypes)      -> "lost"
       [] is(ExpansionTypes) -> "expansion"
       [] is(ProtectedTypes) -> "protected"
       [] n.impact < 0       -> "at_risk"
       [] n.impact > 0       -> "protected"
       [] OTHER              -> None

\* _deduplicate_outcome_amounts: from the largest down, an amount within a fifth
\* of one that was kept is the same event.  Equal amounts fall together.
ClusterTotal(amounts) ==
  LET total[S \in SUBSET amounts] ==
        IF S = {} THEN 0
        ELSE LET m == CHOOSE a \in S : \A b \in S : b <= a
             IN m + total[{b \in S \ {m} : ~(m > 0 /\ 5 * (m - b) < m)}]
  IN total[amounts]

\* get_revenue_at_risk: an account's outcomes that are not expired and have a
\* confidence of one half or none; amounts in tenths of the stored unit.
MutCounted(nd, a) ==
  {i \in Outcomes(nd) : nd[i].acct = a /\ nd[i].impact # None /\ nd[i].live}

Counted(nd, a) ==
  {i \in Outcomes(nd) :
     /\ nd[i].acct = a /\ nd[i].impact # None /\ nd[i].live
     /\ nd[i].conf = None \/ nd[i].conf >= 5}
Weighted(n) == Magnitude(n.impact) * (IF n.conf \in {None, 0} THEN 10 ELSE n.conf)

AccountRevenue(nd, a) ==
  [b \in {"at_risk", "protected", "expansion", "lost"} |->
     ClusterTotal({Weighted(nd[i]) : i \in {j \in Counted(nd, a) : Bucket(nd[j]) = b}})]

\* _dedupe_exact_outcome_nodes: of rows alike in these columns the first is kept.
Alike(m, n) ==
  /\ m.acct = n.acct /\ m.title = n.title /\ m.impact = n.impact
  /\ m.tag = n.tag /\ m.at = n.at

MutFirstOfAlike(nd, S) == S

FirstOfAlike(nd, S) == {i \in S : ~\E j \in S : j < i /\ Alike(nd[i], nd[j])}

\* aggregate_revenue_across_accounts: the rollup, over every outcome with revenue.
SumAll(amount) ==
  LET sum[T \in SUBSET DOMAIN amount] ==
        IF T = {} THEN 0
        ELSE LET i == CHOOSE j \in T : TRUE IN amount[i] + sum[T \ {i}]
  IN sum[DOMAIN amount]

SumOver(nd, S) == SumAll([i \in S |-> 10 * Magnitude(nd[i].impact)])

RolledUp(nd, accts) ==
  FirstOfAlike(nd, {i \in Outcomes(nd) : nd[i].acct \in accts /\ nd[i].impact # None})

Rollup(nd, accts) ==
  [b \in {"at_risk", "protected", "expansion", "lost"} |->
     SumOver(nd, {i \in RolledUp(nd, accts) : Bucket(nd[i]) = b})]

\* The outcomes realized_nrr sums in a bucket: every row with an amount, without
\* deduplication and without a confidence filter; the bucket is the taxonomy's, of the tag
\* or else of the subtype.  (Every row here is observed and not rejected.)
RealizedBucket(n) ==
  IF n.sub = "new_logo" THEN {"expansion"}
  ELSE SubBucket(IF n.tag = None THEN n.sub ELSE n.tag) \ {"pipeline"}

Realizing(nd, a, b) ==
  {i \in Outcomes(nd) : nd[i].acct = a /\ nd[i].impact # None /\ b \in RealizedBucket(nd[i])}
=============================================================================
