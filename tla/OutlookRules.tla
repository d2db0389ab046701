----------------------------- MODULE OutlookRules -----------------------------
(***************************************************************************)
(* What logged outcomes teach: the forecast of an account (Wizard D),      *)
(* from the decisions its tenant's outcomes label, and the weights         *)
(* proposed from how KPIs differed before good and bad outcomes (Wizard C).*)
(*   wizards/wizard_d_foresight.py, wizards/wizard_c_calibration.py,       *)
(*   config/wizard_d.json, config/wizard_c.json                            *)
(*                                                                         *)
(* Probabilities are thousandths, factors and shares hundredths, effects   *)
(* hundredths of a standard deviation, all rounded down; weights are       *)
(* shares of Unit.  The journey behind a forecast is module JourneyRules,  *)
(* when both run is Foresight and TenantData.  The only variable is the    *)
(* input looked at.  Names that begin with Mut are wrong variants.         *)
(***************************************************************************)
EXTENDS JourneyRules, Sequences, SequencesExt

CONSTANTS
  Concluded,            \* sets of outcomes of an account: [id, day, bucket]
  Course,               \* leading beside trailing, by month, as JourneyRules!Series
  Due,                  \* days a decision is due on, or None
  Factors,              \* what the four tables may give for an account: [1..4 -> hundredths]
  Others,               \* labels of the tenant's other accounts
  MinLabels, MinClass, MinStratum,  \* what a calibrated forecast needs
  Credible(_, _),       \* interval around a mean that rests on so many labels (Beta quantiles)
  Samples,              \* sets of samples: [id, acct, label, score or None]
  Starting,             \* weights of a pillar's KPIs, by place, which sum to Unit
  Adjustment,           \* factors, in two-hundredths
  Unit, Cap             \* one, and the largest share of a KPI

\* What an account's outcomes, months, dates and tables may be: outcomes have a day and an id
\* each, tables give one half to two (config/wizard_d.json), a calibrated forecast needs
\* some labels, and an interval holds what it is around.
Interval(e, p) == e.low \in 0..1000 /\ e.high \in 0..1000 /\ e.low <= p /\ p <= e.high

ASSUME ForecastAssumption ==
  /\ MinLabels \in Nat \ {0} /\ MinClass \in Nat /\ MinStratum \in Nat \ {0}
  /\ \A outs \in Concluded : /\ IsFiniteSet(outs) /\ \A e \in outs : e.id \in Int /\ e.day \in Int
                             /\ \A e, o \in outs : e.id = o.id => e = o
  /\ \A course \in Course : DOMAIN course \subseteq Int /\ IsFiniteSet(DOMAIN course)
  /\ Due \subseteq Int \cup {None}
  /\ \A factors \in Factors : factors \in [1..4 -> 50..200]
  /\ \A others \in Others : /\ Len(others) \in Nat /\ others = [i \in 1..Len(others) |-> others[i]]
  /\ \A outs \in Concluded, others \in Others :
       \A n \in 0..(Cardinality(outs) + Len(others) + 1), p \in 0..1000 : Interval(Credible(p, 10 + n), p)

\* A score is a number; a file has finitely many samples.
ASSUME SampleAssumption ==
  \A S \in Samples : IsFiniteSet(S) /\ \A s \in S : s.score \in Int \cup {None}

\* The cap is at least one half (config/wizard_c.json: 0.5), and factors are what _factor
\* gives.
ASSUME WeightAssumption ==
  /\ Unit \in Nat \ {0} /\ Cap \in Nat /\ 2 * Cap >= Unit /\ Adjustment \subseteq 100..300
  /\ \A w \in Starting : /\ DOMAIN w \subseteq Int /\ IsFiniteSet(DOMAIN w) /\ DOMAIN w # {}
                         /\ w \in [DOMAIN w -> Nat] /\ Total(w, DOMAIN w) = Unit

VARIABLE outlook

-----------------------------------------------------------------------------
\* decision_point.  A date that passed is open still unless an outcome near it settled it.
LabelWindow == 45
Horizon == 365
Terminal == {"protected", "expansion", "lost"}
Apart(x, y) == IF x > y THEN x - y ELSE y - x

DecisionPoint(due, outs, asOf) ==
  LET near == {e \in outs : e.bucket \in Terminal /\ Apart(e.day, due) <= LabelWindow} IN
  CASE due = None -> [status |-> "unknown", inside |-> FALSE]
    [] due # None /\ due < asOf -> IF near # {} THEN [status |-> "resolved", inside |-> FALSE]
                                   ELSE [status |-> "passed_unrecorded", inside |-> TRUE]
    [] due # None /\ due >= asOf -> IF due - asOf <= Horizon THEN [status |-> "inside_horizon", inside |-> TRUE]
                                    ELSE [status |-> "beyond_horizon", inside |-> FALSE]

\* The stratum of a month: the band of its score and whether the leading layer warned.
Unknown == <<"unknown", FALSE>>
StratumOf(s) == <<IF s.kpi = None THEN "none" ELSE Classify(s.kpi), Warns(s)>>

\* collect_labels: outcomes within the window of the first are one decision, seen from
\* the month before it.
MutPrior(course, day) == {m \in DOMAIN course : m <= MonthAt(day)}

Prior(course, day) == {m \in DOMAIN course : m < MonthAt(day)}

Sooner(x, y) == x.day < y.day \/ (x.day = y.day /\ x.id < y.id)
ByDay(S) == [i \in 1..Cardinality(S) |-> CHOOSE e \in S : Cardinality({x \in S : Sooner(x, e)}) = i - 1]

Gathered(events) ==
  FoldLeft(LAMBDA groups, e :
             IF groups # <<>> /\ e.day - groups[Len(groups)][1].day <= LabelWindow
             THEN [groups EXCEPT ![Len(groups)] = Append(@, e)] ELSE Append(groups, <<e>>),
           <<>>, events)
Grouped(outs) == Gathered(ByDay({e \in outs : e.bucket \in Terminal}))

LabelOf(group, course) ==
  LET before == Prior(course, group[1].day)
      buckets == {e.bucket : e \in ToSet(group)}
  IN [day |-> group[1].day, retained |-> "lost" \notin buckets, expanded |-> "expansion" \in buckets,
      stratum |-> IF before = {} THEN Unknown ELSE StratumOf(course[Max(before)]),
      ids |-> {e.id : e \in ToSet(group)}]

Labels(outs, course) == LET groups == Grouped(outs) IN [i \in DOMAIN groups |-> LabelOf(groups[i], course)]

\* calibration_gate: counts, of all labels or of one stratum.
Tally(labels, S) ==
  [n |-> Cardinality(S), retained |-> Cardinality({i \in S : labels[i].retained}),
   expanded |-> Cardinality({i \in S : labels[i].expanded})]
Eligible(t) == t.n >= MinLabels /\ t.retained >= MinClass /\ t.n - t.retained >= MinClass
Counts(labels, stratum) ==
  LET own == Tally(labels, {i \in DOMAIN labels : labels[i].stratum = stratum})
  IN IF own.n >= MinStratum THEN own ELSE Tally(labels, DOMAIN labels)

-----------------------------------------------------------------------------
\* The prior: a product of factors, raising the chance of retention at a decision or
\* lowering the hazard until the next.
Clamped(x, low, high) == IF x < low THEN low ELSE IF x > high THEN high ELSE x
Bounded(p) == Clamped(p, 20, 980)
Multiplied(factors) == FoldLeft(LAMBDA x, f : (x * f) \div 100, 1000, factors)
Product(factors, inFlight) == Multiplied(IF inFlight THEN Append(factors, 105) ELSE factors)

PriorRetention(factors, inFlight, inside) ==
  LET product == Product(factors, inFlight)
  IN IF inside THEN Bounded((850 * product) \div 1000) ELSE Bounded(1000 - (60 * 1000) \div product)
PriorExpansion(factors, intent) ==
  Bounded((120 * Product(IF intent THEN Append(factors, 180) ELSE factors, FALSE)) \div 1000)

HalfWidth(thin, unscored) == 150 + (IF thin THEN 50 ELSE 0) + (IF unscored THEN 50 ELSE 0)

\* beta_update, or a declared range around the prior: ten labels' worth of prior.
Updated(prior, hits, n) ==
  LET p == (10 * prior + 1000 * hits) \div (10 + n)
  IN [p |-> p, low |-> Credible(p, 10 + n).low, high |-> Credible(p, 10 + n).high]
DeclaredRange(prior, half) ==
  [p |-> prior, low |-> Clamped(prior - half, 0, 1000), high |-> Clamped(prior + half, 0, 1000)]

\* Revenue at the end of the horizon, in thousandths of arr's unit.
Dollars(arr, retain, expand, severity) ==
  arr * ((retain * (100000 + 15 * expand) + (1000 - retain) * (100 - severity) * 1000) \div 100000)

\* forecast_account: the estimates, then what they come to.
Estimate(calibrated, prior, hits, n, half) ==
  IF calibrated THEN Updated(prior, hits, n) ELSE DeclaredRange(prior, half)

Valued(c, basis, prior, counts, kept, grown) ==
  [basis |-> basis, retention |-> kept, expansion |-> grown, prior |-> prior, counts |-> counts,
   arr |-> c.arr, expected |-> Dollars(c.arr, kept.p, grown.p, c.severity),
   low |-> Dollars(c.arr, kept.low, grown.low, c.severity),
   high |-> Dollars(c.arr, kept.high, grown.high, c.severity)]

Estimated(c, calibrated, counts, retain, expand, half) ==
  Valued(c, IF calibrated THEN "calibrated" ELSE "prior", retain, counts,
         Estimate(calibrated, retain, counts.retained, counts.n, half),
         Estimate(calibrated, expand, counts.expanded, counts.n, half))

ForecastOn(c, labels) ==
  LET now == IF DOMAIN c.course = {} THEN Unknown ELSE StratumOf(c.course[Max(DOMAIN c.course)])
  IN Estimated(c, Eligible(Tally(labels, DOMAIN labels)), Counts(labels, now),
       PriorRetention(c.factors, c.inFlight, DecisionPoint(c.due, c.outs, c.asOf).inside),
       PriorExpansion(<<c.factors[1], c.factors[3]>>, c.intent), HalfWidth(c.thin, c.unscored))
Forecast(c) == ForecastOn(c, Labels(c.outs, c.course) \o c.others)

\* portfolio_rollup: the interval of the sum, for independent and for correlated accounts.
Root(n) == CHOOSE r \in 0..n : r * r <= n /\ (r + 1) * (r + 1) > n
Portfolio(blocks) ==
  LET sum(f) == Total(f, DOMAIN blocks)
      wide == [i \in DOMAIN blocks |-> (blocks[i].high - blocks[i].low) \div 2]
      half == Root(sum([i \in DOMAIN blocks |-> wide[i] * wide[i]]))
      expected == sum([i \in DOMAIN blocks |-> blocks[i].expected])
  IN [expected |-> expected,
      independent |-> [low |-> expected - half, high |-> expected + half],
      correlated |-> [low |-> sum([i \in DOMAIN blocks |-> blocks[i].low]),
                      high |-> sum([i \in DOMAIN blocks |-> blocks[i].high])]]

-----------------------------------------------------------------------------
\* _effect: the difference of the means over the pooled deviation.  Two sides of one
\* sample each have none, and samples all alike on each side have the declared one.
ScoresOf(samples, label) == {s \in samples : s.label = label /\ s.score # None}
SumOf(S) == Total([s \in S |-> s.score], S)
Squares(S) == Cardinality(S) * Total([s \in S |-> s.score * s.score], S) - SumOf(S) * SumOf(S)

Effect(good, bad) ==
  LET n == Cardinality(good)  k == Cardinality(bad)
      gap == SumOf(good) * k - SumOf(bad) * n            \* times n * k
      sd == IF n + k <= 2 THEN 0
            ELSE Root((100 * (Squares(good) * k + Squares(bad) * n)) \div (n * k * (n + k - 2)))
      size == IF sd > 0 THEN (1000 * Apart(gap, 0)) \div (n * k * sd)
              ELSE IF Apart(gap, 0) >= n * k THEN 200 ELSE 0
  IN IF n = 0 \/ k = 0 THEN None ELSE IF gap < 0 THEN -size ELSE size

\* _tier and _factor: from 'medium' on, with enough samples on both sides; in
\* two-hundredths.
Adjusts(good, bad, effect) ==
  Cardinality(good) >= 3 /\ Cardinality(bad) >= 3 /\ Apart(effect, 0) >= 50
FactorFrom(good, bad, effect) == IF Adjusts(good, bad, effect) THEN 200 + Clamped(effect, -100, 100) ELSE 200
FactorOf(good, bad) == FactorFrom(good, bad, Effect(good, bad))

\* _round_to_one: shares of Unit; the last key takes what rounding left over.
RoundToOne(raw) ==
  LET total == Total(raw, DOMAIN raw)
      out == [k \in DOMAIN raw |-> (2 * raw[k] * Unit + total) \div (2 * total)]
      last == Max(DOMAIN raw)
  IN IF total = 0 THEN [k \in DOMAIN raw |-> Unit \div Cardinality(DOMAIN raw)]
     ELSE [out EXCEPT ![last] = @ + Unit - Total(out, DOMAIN out)]

\* _propose_weights, for the KPIs of a pillar: in one of three or more, what a KPI has over
\* the cap goes to those under it.
Capped(norm, over) ==
  LET under == DOMAIN norm \ over
      excess == Total([k \in over |-> norm[k] - Cap], over)
  IN IF Cardinality(DOMAIN norm) < 3 \/ over = {} THEN norm
     ELSE RoundToOne([k \in DOMAIN norm |->
            IF k \in over THEN Cap * Cardinality(under) ELSE norm[k] * Cardinality(under) + excess])
AtCap(norm) == Capped(norm, {k \in DOMAIN norm : norm[k] > Cap})
ProposeKpis(weights, factor) == AtCap(RoundToOne([k \in DOMAIN weights |-> weights[k] * factor[k]]))

\* ... and for the pillars, none of which may fall below a twentieth before rounding.
ProposePillars(weights, factor) ==
  RoundToOne([p \in DOMAIN weights |-> Max({10 * Unit, weights[p] * factor[p]})])

-----------------------------------------------------------------------------
\* The inputs.
ForecastCase ==
  [of : {"forecast"}, asOf : {150}, outs : Concluded, course : Course, due : Due, factors : Factors,
   inFlight : BOOLEAN, intent : {TRUE}, thin : BOOLEAN, unscored : {FALSE}, arr : {10}, severity : {60},
   others : Others]
WeightCase ==
  UNION {[of : {"weights"}, factor : [DOMAIN w -> Adjustment], weights : {w}] : w \in Starting}
SampleCase == [of : {"samples"}, samples : Samples]

OutlookInit == outlook \in ForecastCase \cup WeightCase \cup SampleCase
OutlookSpec == OutlookInit /\ [][FALSE]_outlook

-----------------------------------------------------------------------------
\* A label is what could be known before its decision: no month from the decision on
\* changes it; and every terminal outcome is in one label, of one decision
\* (wizard_d_foresight.py:268-272).
LooksNotAhead(c) ==
  LET labels == Labels(c.outs, c.course) IN
  /\ \A i \in DOMAIN labels :
       LET earlier == [m \in {x \in DOMAIN c.course : x < MonthAt(labels[i].day)} |-> c.course[m]]
       IN Labels(c.outs, earlier)[i] = labels[i]
  /\ \A e \in c.outs : e.bucket \in Terminal =>
       \E i \in DOMAIN labels : e.id \in labels[i].ids /\ \A j \in DOMAIN labels : e.id \in labels[j].ids => i = j
  /\ \A i, j \in DOMAIN labels : i < j => labels[j].day - labels[i].day > LabelWindow

\* The estimate lies in its interval and so does the revenue; a calibrated one between the
\* prior and what the labels say; and no factor that gets worse makes retention likelier,
\* with or without a decision ahead (wizard_d_foresight.py:339-364, 411-463).
Ordered(c, f) ==
  /\ \A e \in {f.retention, f.expansion} : 0 <= e.low /\ e.low <= e.p /\ e.p <= e.high /\ e.high <= 1000
  /\ f.low <= f.expected /\ f.expected <= f.high
  /\ f.basis = "calibrated" =>
       LET rate == (1000 * f.counts.retained) \div f.counts.n IN
       /\ f.retention.p <= Max({f.prior, rate})
       /\ f.retention.p + 1 >= Min({f.prior, rate})
  /\ \A i \in 1..4 : c.factors[i] > 50 =>
       Forecast([c EXCEPT !.factors[i] = 50]).retention.p <= f.retention.p

\* A decision counts as settled only by an outcome on record near its date, and a logged
\* loss never improves a forecast that rests on labels (wizard_d_foresight.py:174-205).
Worse(now, then) ==
  /\ now.basis = "calibrated" => then.basis = "calibrated"
  /\ now.basis = "calibrated" /\ now.counts.n + 1 = then.counts.n => then.retention.p <= now.retention.p
LossesCount(c, f) ==
  LET loss == [id |-> 99, day |-> 20, bucket |-> "lost"]
      more == [c EXCEPT !.others = @ \o Labels({loss}, c.course)]
  IN /\ DecisionPoint(c.due, c.outs, c.asOf).status = "resolved" => c.outs # {} /\ c.due < c.asOf
     /\ Worse(f, Forecast(more))

\* Both ranges of a portfolio contain what is expected, and independent accounts never
\* make the wider one (wizard_d_foresight.py:483-498).
PortfolioOrdered(p) ==
  LET width(r) == r.high - r.low
  IN /\ \A r \in {p.independent, p.correlated} : r.low <= p.expected /\ p.expected <= r.high
     /\ width(p.independent) <= width(p.correlated) + 2

\* Proposed weights make one; without confident evidence they are the weights in force, as
\* long as these keep to the cap; a KPI the evidence favours at least as much keeps its
\* lead, and none ends above the cap, up to rounding (wizard_c_calibration.py:300-350).
Weighed(c, new, pillars) ==
  LET slack == Cardinality(DOMAIN new) + 1
      same == \A k \in DOMAIN c.factor : c.factor[k] = 200
  IN /\ \A w \in {new, pillars} : Total(w, DOMAIN w) = Unit
     /\ same /\ (\A k \in DOMAIN new : c.weights[k] <= Cap) => new = c.weights
     /\ \A k \in DOMAIN new : new[k] >= -slack /\ (Cardinality(DOMAIN new) > 2 => new[k] <= Cap + slack)
     /\ \A w \in {new, pillars}, j, k \in DOMAIN new :
          c.weights[j] >= c.weights[k] /\ c.factor[j] >= c.factor[k] => w[j] + slack >= w[k]
WeightsSound(c) == Weighed(c, ProposeKpis(c.weights, c.factor), ProposePillars(c.weights, c.factor))

\* Evidence speaks both ways alike: exchanging good and bad outcomes turns the factor round,
\* samples without a score say nothing, and a better score before a good outcome, the
\* others alike, is no argument against a KPI (wizard_c_calibration.py:255-305).
SymmetricOn(good, bad) ==
  /\ FactorOf(good, bad) - 200 = 200 - FactorOf(bad, good)
  /\ FactorOf(good, bad) \in 100..300
  /\ (\A x \in good, y \in bad : x.score >= y.score) => FactorOf(good, bad) >= 200
EvidenceSymmetric(c) == SymmetricOn(ScoresOf(c.samples, "positive"), ScoresOf(c.samples, "negative"))

\* A forecast, f, of the account looked at.
ForecastSound(c, f) ==
  /\ LooksNotAhead(c) /\ Ordered(c, f) /\ LossesCount(c, f)
  /\ PortfolioOrdered(Portfolio(<<f, Forecast([c EXCEPT !.factors = <<60, 80, 75, 90>>])>>))

\* All of it, for the input looked at.
OutlookSound ==
  CASE outlook.of = "forecast" -> ForecastSound(outlook, Forecast(outlook))
    [] outlook.of = "weights" -> WeightsSound(outlook)
    [] outlook.of = "samples" -> EvidenceSymmetric(outlook)
    [] OTHER -> TRUE
=============================================================================
