----------------------------- MODULE HealthRules -----------------------------
(***************************************************************************)
(* How the measurements of an account's month become its health: one       *)
(* score per KPI from the bands of the catalog, one average per pillar,    *)
(* one weighted mean; whose weights apply; and the stage of the account's  *)
(* life that may set them.                                                 *)
(*   utils/generic_scorer.py, utils/vertical_health.py,                    *)
(*   utils/lifecycle_stages.py, utils/account_health.py                    *)
(*                                                                         *)
(* Module TenantData uses the outcome as Score.  Scores are whole          *)
(* hundredths, rounded down; values and bounds are integers, days and      *)
(* weights naturals.  The only variable is the input looked at.  Names     *)
(* that begin with Mut are wrong variants.                                 *)
(***************************************************************************)
EXTENDS GraphRules, FiniteSetsExt

CONSTANTS
  Value,                \* measured values, and bounds of the bands
  Pillar, Code,         \* pillars and KPIs of the catalog
  PillarOf(_),          \* None for a KPI without a pillar
  Level,                \* scores of one KPI, in the cases of an account
  Weight,               \* weights in the catalog
  Over,                 \* pillar weights in a tenant's configuration
  Day                   \* ages, and bounds of the stages

\* The bands of config/health_thresholds.json.
ASSUME BandAssumption == 0 < AtRisk /\ AtRisk < Healthy /\ Healthy <= 100

\* A catalog is a file; each of its KPIs has one of its pillars or none.  Bounds may be
\* negative (NPS from -100) and need not be in order.
ASSUME CatalogAssumption ==
  /\ Value \subseteq Int /\ Level \subseteq Nat /\ Weight \subseteq Nat /\ Day \subseteq Nat
  /\ IsFiniteSet(Code) /\ \A c \in Code : PillarOf(c) \in Pillar \cup {None}
  /\ \A over \in Over : DOMAIN over \subseteq Pillar /\ over \in [DOMAIN over -> Nat]

VARIABLE input

Full == 10000
At70 == 100 * Healthy
At50 == 100 * AtRisk

-----------------------------------------------------------------------------
\* score_kpi.  worst, risk and best are the bounds the ranges of a KPI or their defaults
\* give, and the target lies between risk and best, whatever the healthy range says; between
\* two bounds the score is interpolated.  higher is its key higher_is_better, below whether
\* the operator of its target is < or <=: the one is the other's opposite only by default.
Part(value, from, to, low, high) == low + ((high - low) * (value - from)) \div (to - from)

ScoreBands(value, k) ==
  IF value <= k.worst THEN 0
  ELSE IF value < k.risk THEN Part(value, k.worst, k.risk, 0, At50)
  ELSE IF value < k.target THEN Part(value, k.risk, k.target, At50, At70)
  ELSE IF value >= k.best THEN Full
  ELSE Part(value, k.target, k.best, At70, Full)

\* Lower is better: the same bands, mirrored.
Mirror(k) == [k EXCEPT !.worst = -@, !.risk = -@, !.target = -@, !.best = -@]

\* Without ranges the ratio to the target counts, the way its operator points; without a
\* positive target the value itself.
ScoreRatio(value, k) ==
  IF ~k.below THEN (Full * value) \div k.target
  ELSE IF value <= 0 THEN Full ELSE (Full * k.target) \div value

OnScale(score) == IF score < 0 THEN 0 ELSE IF score > Full THEN Full ELSE score

ScoreKpi(value, k) ==
  IF k.ranges /\ k.target # 0
  THEN IF k.higher THEN ScoreBands(value, k) ELSE ScoreBands(-value, Mirror(k))
  ELSE OnScale(IF k.target > 0 THEN ScoreRatio(value, k) ELSE 100 * value)

-----------------------------------------------------------------------------
\* score_account_health_explained.  scores: of the KPIs that were measured.  kpis and
\* pillars: the weights set over the catalog's, by code and by pillar; kpis.l1 and
\* pillars.l2 are the catalog's.  enabled: the pillars that count, or None for all.
Used(scores, enabled) ==
  {c \in DOMAIN scores : PillarOf(c) # None /\ (enabled # None => PillarOf(c) \in enabled)}

Set(over, under, x) == IF x \in DOMAIN over THEN over[x] ELSE under[x]

\* A KPI weighs at least something: a weight of zero counts as one.
MutKpiWeight(w, c) == Set(w.kpis, w.l1, c)

KpiWeight(w, c) ==
  LET set == Set(w.kpis, w.l1, c) IN IF set = 0 THEN 1 ELSE set

\* A pillar's average over its KPIs and the health over the pillars: weighted means,
\* 0 when there is nothing to weigh.
Mean(value, weight) ==
  LET over == MapThenSumSet(LAMBDA x : weight[x], DOMAIN weight)
  IN IF over = 0 THEN 0 ELSE MapThenSumSet(LAMBDA x : value[x] * weight[x], DOMAIN weight) \div over

Average(scores, w, codes) == Mean(scores, [c \in codes |-> KpiWeight(w, c)])

Health(scores, w, enabled) ==
  LET used == Used(scores, enabled)
      pillars == {PillarOf(c) : c \in used}
  IN Mean([p \in pillars |-> Average(scores, w, {c \in used : PillarOf(c) = p})],
          [p \in pillars |-> Set(w.pillars, w.l2, p)])

-----------------------------------------------------------------------------
\* calculate_kpi_health: the weights of a stage of the account's life, else those of the
\* tenant's configuration, else the catalog's; pillars that have no weight in an
\* override do not count.  A stage may set the pillars' weights and leave the KPIs' to
\* the configuration; None is a stage that says nothing about KPIs.
Nobody == [x \in {} |-> 0]

Applied(stage, config, l1, l2) ==
  LET pillars == IF stage.pillars # Nobody THEN stage.pillars ELSE config.pillars
      kpis == IF stage.kpis # None THEN stage.kpis ELSE config.kpis
  IN [source |-> IF stage.pillars # Nobody THEN "lifecycle"
                 ELSE IF config.pillars = Nobody THEN "catalog"
                 ELSE IF config.origin = None THEN "customer_config" ELSE config.origin,
      enabled |-> IF pillars = Nobody THEN None ELSE DOMAIN pillars,
      weights |-> [l1 |-> l1, l2 |-> l2, pillars |-> pillars, kpis |-> kpis]]

-----------------------------------------------------------------------------
\* resolve_account_stage: the first stage the age falls in; an age before the start is 0.
Fits(stage, age) == age >= stage.min /\ (stage.max = None \/ age <= stage.max)

Stage(stages, days) ==
  LET age == IF days < 0 THEN 0 ELSE days
      fitting == {i \in DOMAIN stages : Fits(stages[i], age)}
  IN IF fitting = {} THEN 0 ELSE CHOOSE i \in fitting : \A j \in fitting : i <= j

\* validate_lifecycle_config, as far as days go: each stage begins after the one before it
\* ends, none before day 0, and the last has no end.
StagesValid(stages) ==
  /\ stages # <<>>
  /\ \A i \in DOMAIN stages : stages[i].min >= 0
  /\ \A i \in DOMAIN stages \ {1} : stages[i - 1].max # None /\ stages[i].min > stages[i - 1].max
  /\ stages[Len(stages)].max = None

-----------------------------------------------------------------------------
\* The inputs.
KpiCase ==
  [of : {"kpi"}, value : Value,
   k : [higher : BOOLEAN, below : BOOLEAN, ranges : BOOLEAN,
        worst : Value, risk : Value, target : Value, best : Value]]

AccountCase ==
  [of : {"account"}, scores : UNION {[S -> Level] : S \in SUBSET Code},
   l1 : [Code -> Weight], l2 : [Pillar -> Weight],
   stage : [pillars : {Nobody, [p \in Pillar |-> 1]}, kpis : {None, Nobody, [c \in Code |-> 1]}],
   config : [pillars : Over, kpis : {Nobody, [c \in Code |-> 1]}, origin : {None}]]

StageCase ==
  [of : {"stages"}, days : Day \cup {-1},
   stages : UNION {[1..n -> [min : Day, max : Day \cup {None}]] : n \in 1..3}]

HealthInit == input \in KpiCase \cup AccountCase \cup StageCase
HealthSpec == HealthInit /\ [][FALSE]_input

-----------------------------------------------------------------------------
\* With ranges higher_is_better says which values are better, without them the operator of
\* a positive target, without that the value itself.
Upwards(k) ==
  IF k.ranges /\ k.target # 0 THEN k.higher ELSE k.target > 0 => ~k.below
Better(k) == IF Upwards(k) THEN 1 ELSE -1

\* The class of a KPI's score is that of its value by the target and the risk boundary,
\* whatever its direction, as long as the bounds are in order, and a better value never
\* scores lower, whatever the bounds (generic_scorer.py:30-43).
Reaches(value, bound, k) == IF k.higher THEN value >= bound ELSE value <= bound
InOrder(k) == /\ \A pair \in {<<k.risk, k.worst>>, <<k.target, k.risk>>, <<k.best, k.target>>} :
                   Reaches(pair[1], pair[2], k)
              /\ k.risk # k.worst

KpiScored(value, k) ==
  /\ ScoreKpi(value, k) \in 0..Full
  /\ ScoreKpi(value + Better(k), k) >= ScoreKpi(value, k)
  /\ k.ranges /\ k.target # 0 /\ InOrder(k) =>
       Classify(ScoreKpi(value, k) \div 100) =
         IF Reaches(value, k.target, k) THEN "healthy"
         ELSE IF Reaches(value, k.risk, k) THEN "at_risk" ELSE "critical"

\* The health of an account lies between the lowest and the highest score it was made
\* from unless all the weight is on pillars nothing was measured in; no score of a pillar
\* that does not count moves it; raising one never lowers it, and when the pillar has
\* weight, lowering all a pillar's scores to 0 never raises it (generic_scorer.py:137-160,
\* vertical_health.py:116-135).
AccountScored(c) ==
  LET a == Applied(c.stage, c.config, c.l1, c.l2)
      h(scores) == Health(scores, a.weights, a.enabled)
      used == Used(c.scores, a.enabled)
      weighed == {x \in used : Set(a.weights.pillars, c.l2, PillarOf(x)) > 0}
  IN /\ weighed # {} => \E x, y \in weighed : c.scores[x] <= h(c.scores) /\ h(c.scores) <= c.scores[y]
     /\ weighed = {} => h(c.scores) = 0
     /\ \A x \in DOMAIN c.scores, s \in Level :
          LET new == h([c.scores EXCEPT ![x] = s])
          IN /\ x \notin weighed => new = h(c.scores)
             /\ s >= c.scores[x] => new >= h(c.scores)

\* In a configuration that passed, unless one of its stages ends before it begins, an age
\* falls in one stage at most, the one found, and in one at least from the first day of
\* the last (lifecycle_stages.py:207-215).
StagesFound(c) ==
  StagesValid(c.stages) /\ (\A i \in DOMAIN c.stages : c.stages[i].max # None => c.stages[i].min <= c.stages[i].max) =>
    LET age == IF c.days < 0 THEN 0 ELSE c.days
    IN /\ \A i \in DOMAIN c.stages : Fits(c.stages[i], age) <=> i = Stage(c.stages, c.days)
       /\ age >= c.stages[Len(c.stages)].min => Stage(c.stages, c.days) # 0

\* The three together, for the input looked at.
HealthScored ==
  CASE input.of = "kpi" -> KpiScored(input.value, input.k)
    [] input.of = "account" -> AccountScored(input)
    [] input.of = "stages" -> StagesFound(input)
    [] OTHER -> TRUE

=============================================================================
