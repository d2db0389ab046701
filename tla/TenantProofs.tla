----------------------------- MODULE TenantProofs -----------------------------
(***************************************************************************)
(* Proofs about four parts of a tenant, for any accounts, sessions and     *)
(* rows: the budget of its model calls (LlmBudget), the review of signals  *)
(* (SignalReview), the stored journeys and their forecasts (Foresight),    *)
(* and how a tenant begins and ends (TenantLife).                          *)
(***************************************************************************)
EXTENDS LlmBudget, SignalReview, Foresight, TenantLife, SequenceTheorems, FiniteSetTheorems, TLAPS

-----------------------------------------------------------------------------
(***************************************************************************)
(* The budget of model calls: how far its limits can be overshot, for any  *)
(* number of callers, processes and threads and any limits and costs.      *)
(*                                                                         *)
(* BudgetHolds is not inductive: it does not say how many callers are past *)
(* their check.  Two things are carried along.  What the gated callers     *)
(* spent is in the ledger, up to a call per failed record (Recorded); so   *)
(* when a check finds the ledger below the limit, what they spent is below *)
(* it too, up to those.  And what they spent, with a call for each caller  *)
(* past its check, stays below the limit and the overshoot (UnderWay):     *)
(* a call turns one of the latter into one of the former.                  *)
(***************************************************************************)
Sums == [calls : Nat, usd : Nat, month : Nat]

BudgetType ==
  /\ ledger \in Sums /\ made \in Sums
  /\ permit \subseteq Caller
  /\ failures \in Nat
  /\ counts \in [Process -> Nat] /\ extracting \in [Process -> Nat]
  /\ enriched \in [Process -> Nat] /\ restarts \in [Process -> Nat]

Recorded ==
  /\ made.calls <= ledger.calls + failures
  /\ made.usd <= ledger.usd + failures * Dearest
  /\ made.month <= ledger.month + failures * Dearest

UnderWay ==
  /\ DailyCalls > 0 => made.calls + Cardinality(permit) < DailyCalls + Overshoot
  /\ DailyUsd > 0 => made.usd + Cardinality(permit) * Dearest < DailyUsd + Overshoot * Dearest
  /\ MonthlyUsd > 0 => made.month + Cardinality(permit) * Dearest < MonthlyUsd + Overshoot * Dearest

Life == PerProcess + Threads - 1

Allowance ==
  \A p \in Process : /\ extracting[p] <= Threads
                     /\ counts[p] + extracting[p] <= Life
                     /\ enriched[p] <= restarts[p] * Life + counts[p]

BudgetInv == BudgetType /\ Recorded /\ UnderWay /\ Allowance

-----------------------------------------------------------------------------
LEMMA DearestIsDearest == Dearest \in Nat /\ \A cost \in Cost : cost \in Nat /\ cost <= Dearest
  BY BudgetAssumption DEF Dearest

LEMMA LifeIsNat == Life \in Nat
  BY BudgetAssumption DEF Life

\* n calls and one more, at the highest price; fewer calls cost no more.
LEMMA Prices ==
  ASSUME NEW n \in Nat
  PROVE  /\ n * Dearest \in Nat /\ (n + 1) * Dearest = n * Dearest + Dearest
         /\ \A m \in Nat : /\ m <= n => m * Dearest <= n * Dearest
                          /\ (m + n) * Dearest = m * Dearest + n * Dearest
  BY DearestIsDearest

LEMMA PermitsAreFew ==
  ASSUME NEW P, P \subseteq Caller
  PROVE  /\ IsFiniteSet(P)
         /\ Cardinality(P) \in Nat /\ Cardinality(Caller) \in Nat
         /\ Cardinality(P) <= Cardinality(Caller)
         /\ Cardinality(P) * Dearest \in Nat /\ Cardinality(Caller) * Dearest \in Nat
         /\ Cardinality(P) * Dearest <= Cardinality(Caller) * Dearest
<1>1. IsFiniteSet(P) /\ Cardinality(P) <= Cardinality(Caller)
  BY BudgetAssumption, FS_Subset
<1>2. Cardinality(P) \in Nat /\ Cardinality(Caller) \in Nat
  BY <1>1, BudgetAssumption, FS_CardinalityType
<1> QED
  BY <1>1, <1>2, Prices

LEMMA CallersAreCounted == Cardinality(Caller) \in Nat
  BY BudgetAssumption, FS_CardinalityType

LEMMA OvershootIsNat ==
  ASSUME failures \in Nat
  PROVE  Overshoot \in Nat /\ Overshoot * Dearest \in Nat
<1>1. Overshoot \in Nat
  BY CallersAreCounted DEF Overshoot
<1> QED
  BY <1>1, Prices

LEMMA SpentIs ==
  ASSUME NEW sums \in Sums, NEW cost \in Cost
  PROVE  /\ Spent(sums, cost) \in Sums
         /\ Spent(sums, cost).calls = sums.calls + 1
         /\ Spent(sums, cost).usd = sums.usd + cost
         /\ Spent(sums, cost).month = sums.month + cost
  BY DearestIsDearest DEF Spent, Sums

\* The overshoot, in money.
LEMMA OvershootCosts ==
  ASSUME failures \in Nat
  PROVE  /\ Cardinality(Caller) \in Nat /\ failures * Dearest \in Nat
         /\ Overshoot * Dearest = Cardinality(Caller) * Dearest + failures * Dearest
  BY CallersAreCounted, Prices DEF Overshoot

-----------------------------------------------------------------------------
LEMMA BudgetInitially == BudgetInit => BudgetInv
<1> SUFFICES ASSUME BudgetInit PROVE BudgetInv
  OBVIOUS
<1>1. BudgetType
  BY DEF BudgetInit, BudgetType, Sums
<1>2. Cardinality(permit) = 0 /\ 0 * Dearest = 0
  BY FS_EmptySet, DearestIsDearest DEF BudgetInit
<1>3. Recorded
  BY <1>2 DEF BudgetInit, Recorded
<1>4. UnderWay
  <2>1. failures = 0 /\ made = [calls |-> 0, usd |-> 0, month |-> 0]
    BY DEF BudgetInit
  <2>2. Overshoot \in Nat /\ Overshoot * Dearest \in Nat
    BY <2>1, OvershootIsNat
  <2> QED
    BY <1>2, <2>1, <2>2, BudgetAssumption DEF UnderWay
<1>5. Allowance
  BY LifeIsNat, BudgetAssumption DEF BudgetInit, Allowance
<1> QED
  BY <1>1, <1>3, <1>4, <1>5 DEF BudgetInv

\* A check that finds the ledger below its limits, or fails, and the permit it gives.
LEMMA CheckKeeps ==
  ASSUME BudgetInv, NEW c \in Caller, CanCall(c)
  PROVE  BudgetInv'
<1>1. BudgetType'
  BY DEF BudgetInv, BudgetType, Sums, CanCall
<1>2. permit \subseteq Caller /\ permit' \subseteq Caller /\ failures \in Nat
  BY <1>1 DEF BudgetInv, BudgetType, Sums
<1>3. Cardinality(permit') = Cardinality(permit) + 1
  BY <1>2, PermitsAreFew, FS_AddElement DEF CanCall
<1>4. Allowance'
  BY DEF BudgetInv, Allowance, CanCall
<1>5. CASE ~Blocked /\ failures' = failures
  <2>1. /\ DailyCalls > 0 => ledger.calls < DailyCalls
        /\ DailyUsd > 0 => ledger.usd < DailyUsd
        /\ MonthlyUsd > 0 => ledger.month < MonthlyUsd
    BY <1>5, BudgetAssumption DEF Blocked, Reached, BudgetInv, BudgetType, Sums
  <2>2. Recorded' /\ made' = made
    BY <1>5 DEF BudgetInv, Recorded, CanCall
  <2>3. Overshoot' = Overshoot
    BY <1>5 DEF Overshoot
  <2>4. UnderWay'
    BY <1>2, <2>1, <2>2, <2>3, PermitsAreFew, OvershootCosts, BudgetAssumption
       DEF BudgetInv, BudgetType, Sums, Recorded, UnderWay, Overshoot
  <2> QED
    BY <1>1, <1>4, <2>2, <2>4 DEF BudgetInv
<1>6. CASE failures' = failures + 1
  <2>1. UNCHANGED <<ledger, made>>
    BY DEF CanCall
  <2>2. failures' * Dearest = failures * Dearest + Dearest /\ failures * Dearest \in Nat
    BY <1>2, <1>6, Prices
  <2>3. Recorded'
    BY <1>6, <1>2, <2>1, <2>2, DearestIsDearest DEF BudgetInv, BudgetType, Sums, Recorded
  <2>7. Overshoot \in Nat /\ Overshoot' = Overshoot + 1 /\ Cardinality(permit) \in Nat
    BY <1>2, <1>6, OvershootIsNat, CallersAreCounted, PermitsAreFew DEF Overshoot
  <2>4. /\ Overshoot' * Dearest = Overshoot * Dearest + Dearest /\ Overshoot * Dearest \in Nat
        /\ Cardinality(permit') * Dearest = Cardinality(permit) * Dearest + Dearest
    BY <1>3, <2>7, Prices
  <2>5. UnderWay'
    BY <1>2, <1>3, <2>1, <2>7, <2>4, PermitsAreFew, DearestIsDearest, BudgetAssumption
       DEF BudgetInv, BudgetType, Sums, UnderWay
  <2> QED
    BY <1>1, <1>4, <2>3, <2>5 DEF BudgetInv
<1> QED
  BY <1>5, <1>6 DEF CanCall

\* A gated call turns a permit into spending, with its record or without it.
LEMMA CallKeeps ==
  ASSUME BudgetInv, NEW c \in Caller, NEW cost \in Cost, LlmCall(c, cost)
  PROVE  BudgetInv'
<1> cost \in Nat /\ cost <= Dearest /\ Dearest \in Nat
  BY DearestIsDearest
<1>1. BudgetType'
  BY SpentIs DEF BudgetInv, BudgetType, Sums, LlmCall
<1>2. permit \subseteq Caller /\ permit' \subseteq Caller /\ failures \in Nat
  BY <1>1 DEF BudgetInv, BudgetType, Sums
<1>3. Cardinality(permit') = Cardinality(permit) - 1 /\ Cardinality(permit') \in Nat
  BY <1>2, PermitsAreFew, FS_RemoveElement DEF LlmCall
<1>4. Allowance'
  BY DEF BudgetInv, Allowance, LlmCall
<1>5. /\ made'.calls = made.calls + 1 /\ made'.usd = made.usd + cost /\ made'.month = made.month + cost
      /\ failures' = failures \/ failures' = failures + 1
  BY SpentIs DEF LlmCall, BudgetInv, BudgetType, Sums
<1>6. /\ Cardinality(permit) = Cardinality(permit') + 1
      /\ Cardinality(permit) * Dearest = Cardinality(permit') * Dearest + Dearest
      /\ Cardinality(permit') * Dearest \in Nat
  BY <1>2, <1>3, PermitsAreFew, Prices
<1>7. /\ failures * Dearest \in Nat
      /\ failures' = failures + 1 => failures' * Dearest = failures * Dearest + Dearest
  BY <1>2, Prices
<1>8. Recorded'
  <2>1. CASE ledger' = Spent(ledger, cost) /\ failures' = failures
    BY <1>5, <1>7, <2>1, SpentIs DEF BudgetInv, BudgetType, Sums, Recorded
  <2>2. CASE failures' = failures + 1 /\ ledger' = ledger
    BY <1>5, <1>7, <1>2, <2>2 DEF BudgetInv, BudgetType, Sums, Recorded
  <2> QED
    BY <2>1, <2>2 DEF LlmCall
<1>9. /\ Overshoot \in Nat /\ Overshoot' \in Nat /\ Overshoot <= Overshoot'
      /\ Overshoot * Dearest \in Nat /\ Overshoot' * Dearest \in Nat
      /\ Overshoot * Dearest <= Overshoot' * Dearest
  <2>1. Overshoot \in Nat /\ Overshoot' \in Nat /\ Overshoot <= Overshoot'
    BY <1>2, <1>5, PermitsAreFew DEF Overshoot
  <2> QED
    BY <2>1, Prices
<1>10. UnderWay'
  BY <1>3, <1>5, <1>6, <1>9, BudgetAssumption DEF BudgetInv, BudgetType, Sums, UnderWay
<1> QED
  BY <1>1, <1>4, <1>8, <1>10 DEF BudgetInv

\* Steps that touch neither permits nor what gated callers spent: the ledger only grows.
LEMMA UngatedKeeps ==
  ASSUME BudgetInv, BudgetType', Allowance',
         UNCHANGED <<permit, made, failures>>,
         ledger' = ledger \/ \E cost \in Cost : ledger' = Spent(ledger, cost)
  PROVE  BudgetInv'
<1>1. /\ ledger.calls <= ledger'.calls /\ ledger.usd <= ledger'.usd /\ ledger.month <= ledger'.month
  BY SpentIs, DearestIsDearest DEF BudgetInv, BudgetType, Sums
<1>2. failures * Dearest \in Nat /\ failures' = failures
  BY Prices DEF BudgetInv, BudgetType, Sums
<1>3. Recorded'
  BY <1>1, <1>2 DEF BudgetInv, BudgetType, Sums, Recorded
<1>4. UnderWay'
  BY DEF BudgetInv, UnderWay, Overshoot
<1> QED
  BY <1>3, <1>4 DEF BudgetInv

LEMMA StartKeeps ==
  ASSUME BudgetInv, NEW p \in Process, StartExtraction(p)
  PROVE  BudgetInv'
<1>1. BudgetType'
  BY DEF BudgetInv, BudgetType, Sums, StartExtraction
<1>2. Allowance'
  BY BudgetAssumption DEF BudgetInv, BudgetType, Sums, Allowance, StartExtraction, Life
<1> QED
  BY <1>1, <1>2, UngatedKeeps DEF StartExtraction

LEMMA EndKeeps ==
  ASSUME BudgetInv, NEW p \in Process, NEW cost \in Cost, EndExtraction(p, cost)
  PROVE  BudgetInv'
<1>1. BudgetType'
  BY SpentIs DEF BudgetInv, BudgetType, Sums, EndExtraction
<1>2. Allowance'
  <2> SUFFICES ASSUME NEW q \in Process
               PROVE  /\ extracting'[q] <= Threads
                      /\ counts'[q] + extracting'[q] <= Life
                      /\ enriched'[q] <= restarts'[q] * Life + counts'[q]
    BY DEF Allowance
  <2>1. restarts' = restarts /\ restarts[q] * Life \in Nat
    BY LifeIsNat DEF EndExtraction, BudgetInv, BudgetType, Sums
  <2> QED
    BY <2>1, LifeIsNat, BudgetAssumption DEF BudgetInv, BudgetType, Sums, Allowance, EndExtraction
<1>3. ledger' = ledger \/ ledger' = Spent(ledger, cost)
  BY DEF EndExtraction
<1> QED
  BY <1>1, <1>2, <1>3, UngatedKeeps DEF EndExtraction

LEMMA AskKeeps ==
  ASSUME BudgetInv, NEW cost \in Cost, AskModel(cost)
  PROVE  BudgetInv'
<1>1. BudgetType'
  BY SpentIs DEF BudgetInv, BudgetType, Sums, AskModel
<1>2. Allowance'
  BY DEF BudgetInv, Allowance, AskModel
<1> QED
  BY <1>1, <1>2, UngatedKeeps DEF AskModel

\* A restart begins a life with nothing counted: the last one had at most Life.
LEMMA RestartKeeps ==
  ASSUME BudgetInv, NEW p \in Process, Restart(p)
  PROVE  BudgetInv'
<1>1. BudgetType'
  BY DEF BudgetInv, BudgetType, Sums, Restart
<1>2. Allowance'
  <2> SUFFICES ASSUME NEW q \in Process
               PROVE  /\ extracting'[q] <= Threads
                      /\ counts'[q] + extracting'[q] <= Life
                      /\ enriched'[q] <= restarts'[q] * Life + counts'[q]
    BY DEF Allowance
  <2>1. (restarts[q] + 1) * Life = restarts[q] * Life + Life /\ restarts[q] * Life \in Nat
    BY LifeIsNat DEF BudgetInv, BudgetType, Sums
  <2>2. CASE q = p
    BY <2>1, <2>2, LifeIsNat, BudgetAssumption DEF BudgetInv, BudgetType, Sums, Allowance, Restart
  <2>3. CASE q # p
    BY <2>3 DEF BudgetInv, BudgetType, Sums, Allowance, Restart
  <2> QED
    BY <2>2, <2>3
<1> QED
  BY <1>1, <1>2, UngatedKeeps DEF Restart

\* Midnight clears what was spent, and leaves the permits of yesterday.
LEMMA MidnightKeeps ==
  ASSUME BudgetInv, NextDay
  PROVE  BudgetInv'
<1>1. BudgetType'
  BY DEF BudgetInv, BudgetType, Sums, NextDay
<1>2. permit \subseteq Caller /\ failures \in Nat /\ UNCHANGED <<permit, failures>>
  BY DEF BudgetInv, BudgetType, Sums, NextDay
<1>3. /\ made'.calls = 0 /\ made'.usd = 0 /\ made'.month = made.month
      /\ ledger'.calls = 0 /\ ledger'.usd = 0 /\ ledger'.month = ledger.month
  BY DEF BudgetInv, BudgetType, Sums, NextDay
<1>4. failures * Dearest \in Nat
  BY <1>2, Prices
<1>5. Recorded'
  BY <1>2, <1>3, <1>4 DEF BudgetInv, BudgetType, Sums, Recorded
<1>6. Overshoot' = Overshoot
  BY <1>2 DEF Overshoot
<1>7. UnderWay'
  BY <1>2, <1>3, <1>4, <1>6, PermitsAreFew, OvershootCosts, BudgetAssumption
     DEF BudgetInv, BudgetType, Sums, UnderWay, Overshoot
<1>8. Allowance'
  <2> SUFFICES ASSUME NEW q \in Process
               PROVE  /\ extracting'[q] <= Threads
                      /\ counts'[q] + extracting'[q] <= Life
                      /\ enriched'[q] <= restarts'[q] * Life + counts'[q]
    BY DEF Allowance
  <2>1. restarts[q] * Life \in Nat
    BY LifeIsNat DEF BudgetInv, BudgetType, Sums
  <2> QED
    BY <2>1, LifeIsNat DEF BudgetInv, BudgetType, Sums, Allowance, NextDay
<1> QED
  BY <1>1, <1>5, <1>7, <1>8 DEF BudgetInv

LEMMA BudgetInductive == BudgetInv /\ [BudgetNext]_lvars => BudgetInv'
<1> SUFFICES ASSUME BudgetInv, [BudgetNext]_lvars PROVE BudgetInv'
  OBVIOUS
<1>1. CASE UNCHANGED lvars
  BY <1>1 DEF lvars, BudgetInv, BudgetType, Sums, Recorded, UnderWay, Allowance, Overshoot
<1>2. CASE BudgetNext
  BY <1>2, CheckKeeps, CallKeeps, StartKeeps, EndKeeps, AskKeeps, RestartKeeps, MidnightKeeps
     DEF BudgetNext
<1> QED
  BY <1>1, <1>2

LEMMA BudgetInvImplies == BudgetInv => BudgetHolds
<1> SUFFICES ASSUME BudgetInv PROVE BudgetHolds
  OBVIOUS
<1>1. permit \subseteq Caller /\ failures \in Nat
  BY DEF BudgetInv, BudgetType, Sums
<1>2. Overshoot \in Nat /\ Overshoot * Dearest \in Nat
  BY <1>1, OvershootIsNat
<1>3. \A p \in Process : enriched[p] <= (restarts[p] + 1) * (PerProcess + Threads - 1)
  <2> SUFFICES ASSUME NEW p \in Process
               PROVE  enriched[p] <= (restarts[p] + 1) * Life
    BY DEF Life
  <2>1. (restarts[p] + 1) * Life = restarts[p] * Life + Life /\ restarts[p] * Life \in Nat
    BY LifeIsNat DEF BudgetInv, BudgetType, Sums
  <2> QED
    BY <2>1, LifeIsNat DEF BudgetInv, BudgetType, Sums, Allowance
<1> QED
  BY <1>1, <1>2, <1>3, PermitsAreFew, BudgetAssumption
     DEF BudgetInv, BudgetType, Sums, UnderWay, BudgetHolds

\* Whatever the callers do at once, across midnights, failed checks and records, and
\* restarts: gated spending stays within its limits but for the calls under way
\* together and those the failures let through or hid, and each life of a process
\* within the enrichment allowance (llm_budget_controller.py:146-210,
\* enrichment.py:162-184).
THEOREM BudgetHoldsAlways == BudgetSpec => []BudgetHolds
<1>1. BudgetInit => BudgetInv
  BY BudgetInitially
<1>2. BudgetInv /\ [BudgetNext]_lvars => BudgetInv'
  BY BudgetInductive
<1>3. BudgetInv => BudgetHolds
  BY BudgetInvImplies
<1> QED
  BY <1>1, <1>2, <1>3, PTL DEF BudgetSpec

-----------------------------------------------------------------------------
(***************************************************************************)
(* Proofs about SignalReview for any number of reviewers, nodes and        *)
(* subtypes: what the signal, its history and the journey say is what the  *)
(* nodes say as long as reviews do not overlap, and no decision is lost    *)
(* however they do.                                                        *)
(***************************************************************************)
\* What a node of the signal is: typed in the taxonomy of the tenant, decided or not.
Status == {"accepted", "rejected", "reclassified"}
NodeOf ==
  [subtype : Subtype, role : {RoleOf(s) : s \in Subtype},
   urgency : {UrgencyOf(RoleOf(s)) : s \in Subtype}, review : Status \cup {Nothing}]

AtWork(r) == session[r].at # "none"
Open(r) == session[r].at \in {"decided", "flushed"}

\* A session that has not committed knows the decided nodes, and nothing else but its
\* commit can take a decision from a node: once it has seen that all is decided, so it is.
SessionShape(r) ==
  Open(r) =>
    /\ DOMAIN session[r] = {"at", "decision", "blanket", "picked", "new", "retyped", "clears",
                            "was", "urgency"}
    /\ session[r].picked \subseteq Evidence
    /\ session[r].new \in [session[r].picked -> NodeOf]
    /\ \A n \in session[r].picked : session[r].new[n].review \in Status
    /\ session[r].at = "flushed" /\ session[r].clears =>
         \A n \in Evidence \ session[r].picked : evidence[n].review # Nothing

Shape ==
  /\ evidence \in [Evidence -> NodeOf]
  /\ reviews \in Seq([node : Evidence, status : Status])
  /\ DOMAIN session = Reviewer /\ session = [r \in Reviewer |-> session[r]]
  /\ mixed \in BOOLEAN
  /\ \A r \in Reviewer : SessionShape(r)

\* The session that works alone: what it read is what is there, and what it decided is what
\* the code decides from it.
SessionTrue(r) ==
  /\ Open(r) =>
       /\ session[r].was = signal.urgency
       /\ \A n \in session[r].picked :
            /\ session[r].new[n].role = RoleOf(session[r].new[n].subtype)
            /\ ~session[r].retyped => session[r].new[n].subtype = evidence[n].subtype
       /\ session[r].decision = "accept" /\ session[r].blanket =>
            session[r].picked \subseteq Undecided(Evidence)
  /\ session[r].at = "flushed" =>
       /\ session[r].clears = Clears(Seen(r))
       /\ session[r].urgency = UrgencyIn(Seen(r))
  /\ session[r].at = "write" => session[r].shows = Shown(evidence)

\* Between and during reviews that do not overlap.
Unmixed ==
  /\ \A q, r \in Reviewer : AtWork(q) /\ AtWork(r) => q = r
  /\ signal.urgency = UrgencyIn(evidence)
  /\ Clears(evidence) => ~signal.flagged
  /\ \A n \in Evidence : evidence[n].role = RoleOf(evidence[n].subtype)
  /\ \A n \in Evidence : evidence[n].review = LastStatus(n)
  /\ ~unbuilt /\ (\A r \in Reviewer : session[r].at \notin {"rebuild", "write"}) =>
       journey = Shown(evidence)
  /\ \A r \in Reviewer : SessionTrue(r)

ReviewInv == Shape /\ (~mixed => Unmixed)

-----------------------------------------------------------------------------
(***************************************************************************)
(* The history                                                             *)
(***************************************************************************)
\* Of some of the numbers up to n one is the greatest.
LEMMA GreatestUpTo ==
  ASSUME NEW n \in Nat, NEW S \in SUBSET (1..n), S # {}
  PROVE  Largest(S) \in S /\ \A u \in S : u <= Largest(S)
<1> DEFINE Down == {j \in Nat : n - j \in S}
<1>1. Down # {} /\ Down \subseteq Nat
  <2>1. PICK u \in S : TRUE
    OBVIOUS
  <2>2. n - u \in Nat /\ n - (n - u) = u
    BY <2>1
  <2> QED
    BY <2>1, <2>2
<1>2. PICK j \in Down : \A l \in Down : ~(<<l, j>> \in OpToRel(<, Nat))
  <2> HIDE DEF Down
  <2> QED
    BY <1>1, NatLessThanWellFounded, WFMin
<1>3. \A l \in Down : ~(l < j)
  BY <1>2 DEF OpToRel
<1>4. ASSUME NEW u \in S PROVE u <= n - j
  <2>1. u \in Nat /\ u <= n /\ n - u \in Nat /\ n - (n - u) = u
    OBVIOUS
  <2>2. n - u \in Down
    BY <2>1
  <2> QED
    BY <1>3, <2>1, <2>2
<1>5. n - j \in S
  OBVIOUS
<1>6. \E x \in S : \A y \in S : y <= x
  BY <1>4, <1>5
<1> QED
  BY <1>6 DEF Largest

\* What one sequence after another holds.
LEMMA TwoInARow ==
  ASSUME NEW H, NEW a \in Seq(H), NEW b \in Seq(H)
  PROVE  /\ a \o b \in Seq(H) /\ Len(a \o b) = Len(a) + Len(b)
         /\ DOMAIN (a \o b) = 1..(Len(a) + Len(b))
         /\ \A i \in 1..Len(a) : (a \o b)[i] = a[i]
         /\ \A i \in (Len(a) + 1)..(Len(a) + Len(b)) : (a \o b)[i] = b[i - Len(a)]
  OBVIOUS

\* The commit writes one history row for each node that was decided.
LEMMA OneRowEach ==
  ASSUME Shape, NEW r \in Reviewer, Open(r)
  PROVE  LET k == Cardinality(session[r].picked)
             row(n) == [node |-> n, status |-> session[r].new[n].review]
         IN  /\ k \in Nat
             /\ RowsOf(r) \in [1..k -> {row(n) : n \in session[r].picked}]
             /\ \A n \in session[r].picked : \E i \in 1..k : RowsOf(r)[i] = row(n)
<1> DEFINE P == session[r].picked
           k == Cardinality(P)
           row(n) == [node |-> n, status |-> session[r].new[n].review]
           T == {row(n) : n \in P}
<1>1. IsFiniteSet(P) /\ P \subseteq Evidence
  BY ReviewAssumption, FS_Subset DEF Shape, SessionShape
<1>2. k \in Nat /\ ExistsBijection(1..k, P)
  BY <1>1, FS_CardinalityType
<1>3. PICK f \in Bijection(1..k, P) : TRUE
  BY <1>2 DEF ExistsBijection
<1>4. f \in [1..k -> P] /\ \A i, j \in 1..k : f[i] = f[j] => i = j
  BY <1>3 DEF Bijection, Injection, IsInjective
<1> DEFINE g == [i \in 1..k |-> row(f[i])]
<1>5. g \in [1..k -> T] /\ \A i, j \in DOMAIN g : g[i] = g[j] => i = j
  BY <1>4
<1>6. RowsOf(r) \in [1..k -> T] /\ \A i, j \in DOMAIN RowsOf(r) : RowsOf(r)[i] = RowsOf(r)[j] => i = j
  <2> HIDE DEF g
  <2> QED
    BY <1>5 DEF RowsOf
<1> HIDE DEF g
<1> DEFINE h == [n \in P |-> row(n)]
<1>7. h \in Bijection(P, T)
  BY DEF Bijection, Injection, Surjection, IsInjective
<1>8. IsFiniteSet(T) /\ Cardinality(T) = k
  <2>1. ExistsBijection(P, T)
    BY <1>7 DEF ExistsBijection
  <2> HIDE DEF T, h
  <2> QED
    BY <1>1, <2>1, FS_Bijection
<1>9. IsFiniteSet(1..k) /\ Cardinality(1..k) = k
  BY <1>2, FS_Interval
<1>10. RowsOf(r) \in Injection(1..k, T)
  <2> HIDE DEF T, k
  <2> QED
    BY <1>6 DEF Injection, IsInjective
<1>11. RowsOf(r) \in Surjection(1..k, T)
  <2> HIDE DEF T, k
  <2> QED
    BY <1>8, <1>9, <1>10, FS_Injection
<1> QED
  BY <1>2, <1>6, <1>11 DEF Surjection

\* After the commit the last row of a decided node is the decision, and the last row of any
\* other node is what it was.
LEMMA LastOfCommit ==
  ASSUME Shape, NEW r \in Reviewer, Open(r), reviews' = reviews \o RowsOf(r)
  PROVE  /\ reviews' \in Seq([node : Evidence, status : Status])
         /\ \A n \in session[r].picked : LastStatus(n)' = session[r].new[n].review
         /\ \A n \in Evidence \ session[r].picked : LastStatus(n)' = LastStatus(n)
<1> DEFINE P == session[r].picked
           k == Cardinality(P)
           row(n) == [node |-> n, status |-> session[r].new[n].review]
           R == RowsOf(r)
           H == [node : Evidence, status : Status]
           l == Len(reviews)
<1>1. /\ k \in Nat /\ R \in [1..k -> {row(n) : n \in P}]
      /\ \A n \in P : \E i \in 1..k : R[i] = row(n)
  BY OneRowEach
<1>2. P \subseteq Evidence /\ \A n \in P : session[r].new[n].review \in Status
  BY DEF Shape, SessionShape
<1>3. \A i \in 1..k : \E n \in P : R[i] = row(n)
  BY <1>1
<1>4. R \in Seq(H) /\ Len(R) = k
  <2>1. ASSUME NEW i \in 1..k PROVE R[i] \in H
    <3>1. PICK n \in P : R[i] = row(n)
      BY <1>3
    <3>2. n \in Evidence /\ session[r].new[n].review \in Status
      BY <1>2
    <3> QED
      BY <3>1, <3>2
  <2>2. R \in [1..k -> H]
    BY <1>1, <2>1
  <2> HIDE DEF R, H, k
  <2> QED
    BY <1>1, <2>2
<1>5. reviews \in Seq(H) /\ l \in Nat /\ reviews' = reviews \o R
  BY DEF Shape
<1>6. reviews' \in Seq(H)
  <2> HIDE DEF R, H, k
  <2> QED
    BY <1>4, <1>5
<1>7. /\ Len(reviews') = l + k
      /\ \A i \in 1..l : reviews'[i] = reviews[i]
      /\ \A i \in (l + 1)..(l + k) : reviews'[i] = R[i - l]
      /\ DOMAIN reviews' = 1..(l + k) /\ DOMAIN reviews = 1..l
  <2> HIDE DEF R, H, k
  <2>1. DOMAIN reviews = 1..l
    BY <1>5
  <2>2. /\ Len(reviews \o R) = l + Len(R) /\ DOMAIN (reviews \o R) = 1..(l + Len(R))
        /\ \A i \in 1..l : (reviews \o R)[i] = reviews[i]
        /\ \A i \in (l + 1)..(l + Len(R)) : (reviews \o R)[i] = R[i - l]
    BY <1>4, <1>5, TwoInARow
  <2> QED
    BY <1>4, <1>5, <2>1, <2>2
<1> HIDE DEF R, k, H, l
<1>8. ASSUME NEW n \in P PROVE LastStatus(n)' = session[r].new[n].review
  <2> DEFINE rows == {i \in 1..(l + k) : reviews'[i].node = n}
             t == Largest(rows)
  <2>1. PICK j \in 1..k : R[j] = row(n)
    BY <1>1
  <2>2. l + j \in (l + 1)..(l + k) /\ l + j \in 1..(l + k) /\ (l + j) - l = j
    BY <1>1, <1>5, <2>1
  <2>3. reviews'[l + j] = row(n)
    BY <1>7, <2>1, <2>2
  <2>4. l + j \in rows /\ rows \in SUBSET (1..(l + k)) /\ l + k \in Nat
    <3>1. row(n).node = n
      OBVIOUS
    <3>2. reviews'[l + j].node = n
      BY <2>3, <3>1
    <3>3. l + k \in Nat
      BY <1>1, <1>5
    <3> QED
      BY <2>2, <3>2, <3>3
  <2>5. t \in rows /\ \A u \in rows : u <= t
    <3> HIDE DEF rows
    <3> QED
      BY <2>4, GreatestUpTo
  <2> HIDE DEF t
  <2>6. t \in (l + 1)..(l + k) /\ t - l \in 1..k
    <3>1. t \in 1..(l + k) /\ l + j <= t
      BY <2>4, <2>5
    <3> QED
      BY <1>1, <1>5, <2>1, <3>1
  <2>7. PICK m \in P : R[t - l] = row(m)
    BY <1>3, <2>6
  <2>8. reviews'[t] = row(m) /\ m = n
    BY <1>7, <2>5, <2>6, <2>7
  <2>9. rows = {i \in DOMAIN reviews' : reviews'[i].node = n} /\ rows # {}
    BY <1>7, <2>5
  <2>10. LastStatus(n)' = reviews'[t].status
    BY <2>9 DEF LastStatus, t
  <2> QED
    BY <2>8, <2>10
<1>9. ASSUME NEW n \in Evidence \ P PROVE LastStatus(n)' = LastStatus(n)
  <2> DEFINE rows == {i \in DOMAIN reviews : reviews[i].node = n}
             later == {i \in DOMAIN reviews' : reviews'[i].node = n}
  <2>1. ASSUME NEW i \in (l + 1)..(l + k) PROVE reviews'[i].node # n
    <3>1. i - l \in 1..k
      BY <1>1, <1>5
    <3>2. PICK m \in P : R[i - l] = row(m)
      BY <1>3, <3>1
    <3>3. row(m).node = m
      OBVIOUS
    <3>4. reviews'[i] = row(m)
      BY <1>7, <3>2
    <3> HIDE DEF row
    <3>5. reviews'[i].node = m /\ m # n
      BY <3>3, <3>4
    <3> QED
      BY <3>5
  <2>2. \A i \in 1..(l + k) : i \in 1..l \/ i \in (l + 1)..(l + k)
    BY <1>1, <1>5
  <2>3. \A i \in 1..l : i \in 1..(l + k)
    BY <1>1, <1>5
  <2>4. rows = later
    BY <1>7, <2>1, <2>2, <2>3
  <2>5. rows # {} => Largest(rows) \in 1..l
    <3> HIDE DEF rows
    <3>1. rows \in SUBSET (1..l)
      BY <1>7 DEF rows
    <3> QED
      BY <1>5, <3>1, GreatestUpTo
  <2>6. rows # {} => reviews'[Largest(rows)] = reviews[Largest(rows)]
    BY <1>7, <2>5
  <2>7. LastStatus(n) = IF rows = {} THEN Nothing ELSE reviews[Largest(rows)].status
    BY DEF LastStatus
  <2>8. LastStatus(n)' = IF later = {} THEN Nothing ELSE reviews'[Largest(later)].status
    BY DEF LastStatus
  <2> HIDE DEF rows, later
  <2>9. CASE rows = {}
    BY <2>4, <2>7, <2>8, <2>9
  <2>10. CASE rows # {}
    <3>1. reviews'[Largest(later)] = reviews[Largest(rows)]
      BY <2>4, <2>6, <2>10
    <3> QED
      BY <2>4, <2>7, <2>8, <2>10, <3>1
  <2> QED
    BY <2>9, <2>10
<1> QED
  BY <1>6, <1>8, <1>9 DEF H

-----------------------------------------------------------------------------
(***************************************************************************)
(* The sessions, one step at a time                                        *)
(***************************************************************************)
\* What a decision makes of a node of the signal.
LEMMA DecidedNode ==
  ASSUME NEW node \in NodeOf, NEW decision \in Decision, NEW st \in Subtype
  PROVE  LET d == Decided(node, decision, st) IN
         /\ d \in NodeOf /\ d.review \in Status
         /\ node.role = RoleOf(node.subtype) => d.role = RoleOf(d.subtype)
         /\ decision # "reclassify" => d.subtype = node.subtype
<1>1. StatusFor(decision) \in Status
  BY DEF StatusFor, Decision, Status
<1>2. CASE decision = "reclassify"
  BY <1>1, <1>2 DEF Decided, Retyped, NodeOf
<1>3. CASE decision # "reclassify"
  BY <1>1, <1>3 DEF Decided, NodeOf
<1> QED
  BY <1>2, <1>3

LEMMA ReviewInit1 == ReviewInit => ReviewInv
<1> SUFFICES ASSUME ReviewInit PROVE ReviewInv
  OBVIOUS
<1>1. PICK st \in [Evidence -> Subtype] :
        evidence = [n \in Evidence |->
          [subtype |-> st[n], role |-> RoleOf(st[n]), urgency |-> UrgencyOf(RoleOf(st[n])),
           review |-> Nothing]]
  BY DEF ReviewInit
<1>2. reviews = <<>> /\ session = [r \in Reviewer |-> NoSession] /\ mixed = FALSE
  BY DEF ReviewInit
<1>3. signal.urgency = UrgencyIn(evidence) /\ journey = Shown(evidence)
  BY DEF ReviewInit
<1>4. \A r \in Reviewer : session[r].at = "none"
  BY <1>2 DEF NoSession
<1>5. Shape
  <2>1. evidence \in [Evidence -> NodeOf]
    BY <1>1 DEF NodeOf
  <2>2. \A r \in Reviewer : SessionShape(r)
    BY <1>4 DEF SessionShape, Open
  <2>3. DOMAIN session = Reviewer /\ session = [r \in Reviewer |-> session[r]]
    BY <1>2
  <2>4. reviews \in Seq([node : Evidence, status : Status]) /\ mixed \in BOOLEAN
    <3>1. \A H : <<>> \in Seq(H)
      OBVIOUS
    <3> QED
      BY <1>2, <3>1
  <2> QED
    BY <2>1, <2>2, <2>3, <2>4 DEF Shape
<1>6. ~Clears(evidence)
  BY <1>1, ReviewAssumption DEF Clears
<1>7. \A n \in Evidence : evidence[n].role = RoleOf(evidence[n].subtype) /\ evidence[n].review = LastStatus(n)
  <2>1. \A n \in Evidence : LastStatus(n) = Nothing
    BY <1>2 DEF LastStatus
  <2> QED
    BY <1>1, <2>1
<1>8. Unmixed
  BY <1>3, <1>4, <1>6, <1>7 DEF Unmixed, AtWork, SessionTrue, Open
<1> QED
  BY <1>5, <1>8 DEF ReviewInv

\* A session goes on while the nodes, the signal and the history stay.
LEMMA OthersKept ==
  ASSUME Shape, NEW r \in Reviewer, NEW s, session' = [session EXCEPT ![r] = s],
         UNCHANGED <<evidence, reviews>>, mixed' \in BOOLEAN, SessionShape(r)'
  PROVE  /\ Shape' /\ session'[r] = s
         /\ \A q \in Reviewer \ {r} : session'[q] = session[q]
<1>1. session'[r] = s /\ \A q \in Reviewer \ {r} : session'[q] = session[q]
  BY DEF Shape
<1>2. ASSUME NEW q \in Reviewer \ {r} PROVE SessionShape(q)'
  <2>1. SessionShape(q)
    BY DEF Shape
  <2> QED
    BY <1>1, <2>1 DEF SessionShape, Open
<1>3. DOMAIN session' = Reviewer /\ session' = [q \in Reviewer |-> session'[q]]
  BY DEF Shape
<1> QED
  BY <1>1, <1>2, <1>3 DEF Shape

LEMMA ReviewKeeps ==
  ASSUME ReviewInv, NEW r \in Reviewer, NEW decision \in Decision,
         NEW named \in {{}} \cup {{n} : n \in Evidence}, NEW st \in Subtype,
         Review(r, decision, named, st)
  PROVE  ReviewInv'
<1> DEFINE picked == Picked(named, decision)
           s == [at |-> "decided", decision |-> decision, blanket |-> named = {}, picked |-> picked,
                 new |-> [n \in picked |-> Decided(evidence[n], decision, st)],
                 retyped |-> decision = "reclassify", clears |-> FALSE, was |-> signal.urgency,
                 urgency |-> 0]
<1>1. /\ session' = [session EXCEPT ![r] = s] /\ ~mixed
      /\ mixed' = \E q \in Reviewer : session[q].at # "none"
      /\ UNCHANGED <<evidence, signal, reviews, journey, unbuilt>>
  BY DEF Review
<1>2. Shape /\ Unmixed
  BY <1>1 DEF ReviewInv
<1>3. picked \subseteq Evidence
  BY DEF Picked, Undecided
<1>4. named = {} /\ decision = "accept" => picked \subseteq Undecided(Evidence)
  BY DEF Picked
<1>5. \A n \in picked : LET d == Decided(evidence[n], decision, st) IN
        /\ d \in NodeOf /\ d.review \in Status /\ d.role = RoleOf(d.subtype)
        /\ decision # "reclassify" => d.subtype = evidence[n].subtype
  <2>1. \A n \in Evidence : evidence[n] \in NodeOf /\ evidence[n].role = RoleOf(evidence[n].subtype)
    BY <1>2 DEF Shape, Unmixed
  <2> QED
    BY <1>3, <2>1, DecidedNode
<1> HIDE DEF picked
<1>6. /\ s.at = "decided" /\ s.picked = picked /\ s.was = signal.urgency /\ s.decision = decision
      /\ s.blanket = (named = {}) /\ s.retyped = (decision = "reclassify")
      /\ s.new = [n \in picked |-> Decided(evidence[n], decision, st)]
      /\ DOMAIN s = {"at", "decision", "blanket", "picked", "new", "retyped", "clears", "was", "urgency"}
  OBVIOUS
<1> HIDE DEF s
<1>7. session'[r] = s
  BY <1>1, <1>2 DEF Shape
<1>8. SessionShape(r)'
  <2>1. s.new \in [picked -> NodeOf] /\ \A n \in picked : s.new[n].review \in Status
    BY <1>5, <1>6
  <2> QED
    BY <1>1, <1>3, <1>6, <1>7, <2>1 DEF SessionShape, Open
<1>9. Shape' /\ \A q \in Reviewer \ {r} : session'[q] = session[q]
  BY <1>1, <1>2, <1>8, OthersKept
<1>10. ASSUME ~mixed' PROVE Unmixed'
  <2>1. \A q \in Reviewer : session[q].at = "none"
    BY <1>1, <1>10
  <2>2. \A q \in Reviewer \ {r} : session'[q].at = "none"
    BY <1>9, <2>1
  <2>3. \A q \in Reviewer \ {r} : SessionTrue(q)'
    BY <2>2 DEF SessionTrue, Open
  <2>4. SessionTrue(r)'
    <3>1. \A n \in picked : s.new[n].role = RoleOf(s.new[n].subtype)
                          /\ (~s.retyped => s.new[n].subtype = evidence[n].subtype)
      BY <1>5, <1>6
    <3>2. Undecided(Evidence)' = Undecided(Evidence)
      BY <1>1 DEF Undecided
    <3>3. PICK t : t = session'[r] OBVIOUS
    <3>4. /\ t.at = "decided" /\ t.picked = picked /\ t.new = s.new /\ t.was = signal.urgency
          /\ t.decision = decision /\ t.blanket = (named = {}) /\ t.retyped = s.retyped
      BY <1>6, <1>7, <3>3
    <3>5. signal' = signal /\ evidence' = evidence
      BY <1>1
    <3>6. \A n \in t.picked : t.new[n].role = RoleOf(t.new[n].subtype)
                           /\ (~t.retyped => t.new[n].subtype = evidence[n].subtype)
      BY <3>1, <3>4
    <3>7. t.decision = "accept" /\ t.blanket => t.picked \subseteq Undecided(Evidence)'
      BY <1>4, <3>2, <3>4
    <3> QED
      BY <3>3, <3>4, <3>5, <3>6, <3>7 DEF SessionTrue, Open
  <2>5. \A p, q \in Reviewer : AtWork(p)' /\ AtWork(q)' => p = q
    BY <2>2 DEF AtWork
  <2>6. \A n \in Evidence : LastStatus(n)' = LastStatus(n)
    BY <1>1 DEF LastStatus
  <2>7. ~unbuilt => journey = Shown(evidence)
    BY <1>2, <2>1 DEF Unmixed
  <2>8. /\ signal.urgency = UrgencyIn(evidence) /\ (Clears(evidence) => ~signal.flagged)
        /\ \A n \in Evidence : evidence[n].role = RoleOf(evidence[n].subtype)
        /\ \A n \in Evidence : evidence[n].review = LastStatus(n)
    BY <1>2 DEF Unmixed
  <2>9. \A q \in Reviewer : SessionTrue(q)'
    BY <2>3, <2>4
  <2> QED
    BY <1>1, <2>5, <2>6, <2>7, <2>8, <2>9 DEF Unmixed
<1> QED
  BY <1>9, <1>10 DEF ReviewInv

LEMMA FlushKeeps ==
  ASSUME ReviewInv, NEW r \in Reviewer, Flush(r)
  PROVE  ReviewInv'
<1> DEFINE s == session'[r]
<1>1. session[r].at = "decided" /\ UNCHANGED <<evidence, signal, reviews, journey, mixed, unbuilt>>
  BY DEF Flush
<1>2. Shape /\ SessionShape(r) /\ Open(r)
  BY <1>1 DEF ReviewInv, Shape, Open
<1>3. /\ s.at = "flushed" /\ s.clears = Clears(Seen(r)) /\ s.urgency = UrgencyIn(Seen(r))
      /\ s.picked = session[r].picked /\ s.new = session[r].new /\ s.was = session[r].was
      /\ s.retyped = session[r].retyped /\ s.decision = session[r].decision
      /\ s.blanket = session[r].blanket /\ DOMAIN s = DOMAIN session[r]
  BY <1>2 DEF Flush, Shape, SessionShape
<1>4. session' = [session EXCEPT ![r] = s]
  BY <1>2 DEF Flush, Shape
<1>5. Seen(r)' = Seen(r)
  BY <1>1, <1>3 DEF Seen
<1> HIDE DEF s
<1>6. SessionShape(r)'
  <2>1. Clears(Seen(r)) => \A n \in Evidence \ session[r].picked : evidence[n].review # Nothing
    BY DEF Clears, Seen
  <2> QED
    BY <1>1, <1>2, <1>3, <2>1 DEF SessionShape, s
<1>7. Shape' /\ \A q \in Reviewer \ {r} : session'[q] = session[q]
  <2>1. mixed' \in BOOLEAN
    BY <1>1, <1>2 DEF Shape
  <2> QED
    BY <1>1, <1>2, <1>4, <1>6, <2>1, OthersKept
<1>8. ASSUME ~mixed PROVE Unmixed'
  <2>1. Unmixed
    BY <1>8 DEF ReviewInv
  <2>2. \A q \in Reviewer \ {r} : session'[q].at = "none"
    BY <1>1, <1>7, <2>1 DEF Unmixed, AtWork
  <2>3. \A q \in Reviewer \ {r} : SessionTrue(q)'
    BY <2>2 DEF SessionTrue, Open
  <2>4. SessionTrue(r)'
    <3>1. SessionTrue(r)
      BY <2>1 DEF Unmixed
    <3>2. Undecided(Evidence)' = Undecided(Evidence)
      BY <1>1 DEF Undecided
    <3> QED
      BY <1>1, <1>2, <1>3, <1>5, <3>1, <3>2 DEF SessionTrue, Open, s
  <2>5. \A p, q \in Reviewer : AtWork(p)' /\ AtWork(q)' => p = q
    BY <2>2 DEF AtWork
  <2>6. \A n \in Evidence : LastStatus(n)' = LastStatus(n)
    BY <1>1 DEF LastStatus
  <2>7. ~unbuilt => journey = Shown(evidence)
    <3>1. \A q \in Reviewer : session[q].at \notin {"rebuild", "write"}
      BY <1>1, <1>7, <2>2
    <3> QED
      BY <2>1, <3>1 DEF Unmixed
  <2>8. /\ signal.urgency = UrgencyIn(evidence) /\ (Clears(evidence) => ~signal.flagged)
        /\ \A n \in Evidence : evidence[n].role = RoleOf(evidence[n].subtype)
        /\ \A n \in Evidence : evidence[n].review = LastStatus(n)
    BY <2>1 DEF Unmixed
  <2>9. \A q \in Reviewer : SessionTrue(q)'
    BY <2>3, <2>4
  <2> QED
    BY <1>1, <2>5, <2>6, <2>7, <2>8, <2>9 DEF Unmixed
<1> QED
  BY <1>1, <1>7, <1>8 DEF ReviewInv

\* What the commit leaves of a node.
LEMMA WrittenNode ==
  ASSUME Shape, NEW r \in Reviewer, Open(r), NEW n \in Evidence
  PROVE  /\ Written(r, n) \in NodeOf
         /\ n \in session[r].picked => /\ Written(r, n).review = session[r].new[n].review
                                       /\ Written(r, n).review \in Status
         /\ n \notin session[r].picked => Written(r, n) = evidence[n]
<1>1. evidence[n] \in NodeOf /\ SessionShape(r)
  BY DEF Shape
<1>2. CASE n \notin session[r].picked
  BY <1>1, <1>2 DEF Written
<1>3. CASE n \in session[r].picked
  <2>1. session[r].new[n] \in NodeOf /\ session[r].new[n].review \in Status
    BY <1>1, <1>3 DEF SessionShape
  <2>2. [session[r].new[n] EXCEPT !.subtype = evidence[n].subtype] \in NodeOf
    BY <1>1, <2>1 DEF NodeOf
  <2>3. [session[r].new[n] EXCEPT !.subtype = evidence[n].subtype].review = session[r].new[n].review
    BY <2>1 DEF NodeOf
  <2> QED
    BY <1>3, <2>1, <2>2, <2>3 DEF Written
<1> QED
  BY <1>2, <1>3

LEMMA CommitKeeps ==
  ASSUME ReviewInv, NEW r \in Reviewer, CommitReview(r)
  PROVE  ReviewInv'
<1>1. /\ session[r].at = "flushed" /\ evidence' = [n \in Evidence |-> Written(r, n)]
      /\ reviews' = reviews \o RowsOf(r) /\ UNCHANGED <<journey, mixed, unbuilt>>
      /\ session' = [session EXCEPT ![r] = [at |-> "rebuild"]]
      /\ signal' = [flagged |-> signal.flagged /\ ~session[r].clears,
                    urgency |-> IF session[r].urgency = session[r].was THEN signal.urgency
                                ELSE session[r].urgency]
  BY DEF CommitReview
<1>2. Shape /\ SessionShape(r) /\ Open(r)
  BY <1>1 DEF ReviewInv, Shape, Open
<1>3. session'[r].at = "rebuild" /\ \A q \in Reviewer \ {r} : session'[q] = session[q]
  BY <1>1, <1>2 DEF Shape
<1>4. /\ reviews' \in Seq([node : Evidence, status : Status])
      /\ \A n \in session[r].picked : LastStatus(n)' = session[r].new[n].review
      /\ \A n \in Evidence \ session[r].picked : LastStatus(n)' = LastStatus(n)
  BY <1>1, <1>2, LastOfCommit
<1>5. \A n \in Evidence : /\ evidence'[n] \in NodeOf
                          /\ n \in session[r].picked => /\ evidence'[n].review = session[r].new[n].review
                                                        /\ evidence'[n].review \in Status
                          /\ n \notin session[r].picked => evidence'[n] = evidence[n]
  BY <1>1, <1>2, WrittenNode
<1>6. Shape'
  <2>1. evidence' \in [Evidence -> NodeOf]
    <3>1. \A n \in Evidence : Written(r, n) \in NodeOf
      BY <1>2, WrittenNode
    <3> QED
      BY <1>1, <3>1
  <2>2. DOMAIN session' = Reviewer /\ session' = [q \in Reviewer |-> session'[q]]
    BY <1>1, <1>2 DEF Shape
  <2>3. ASSUME NEW q \in Reviewer PROVE SessionShape(q)'
    <3>1. CASE q = r
      BY <1>3, <3>1 DEF SessionShape, Open
    <3>2. CASE q # r
      <4>1. session'[q] = session[q] /\ SessionShape(q)
        BY <1>2, <1>3, <3>2 DEF Shape
      <4>2. \A n \in Evidence : evidence[n].review # Nothing => evidence'[n].review # Nothing
        BY <1>5 DEF Status, Nothing
      <4> QED
        BY <4>1, <4>2 DEF SessionShape, Open
    <3> QED
      BY <3>1, <3>2
  <2>4. mixed' \in BOOLEAN
    BY <1>1, <1>2 DEF Shape
  <2> QED
    BY <1>4, <2>1, <2>2, <2>3, <2>4 DEF Shape
<1>7. ASSUME ~mixed PROVE Unmixed'
  <2>1. Unmixed /\ SessionTrue(r)
    BY <1>7 DEF ReviewInv, Unmixed
  <2>2. \A q \in Reviewer \ {r} : session'[q].at = "none"
    BY <1>1, <1>3, <2>1 DEF Unmixed, AtWork
  <2>3. \A q \in Reviewer : SessionTrue(q)'
    BY <1>3, <2>2 DEF SessionTrue, Open
  <2>4. \A p, q \in Reviewer : AtWork(p)' /\ AtWork(q)' => p = q
    BY <2>2 DEF AtWork
  <2>5. \A n \in session[r].picked : evidence'[n] = session[r].new[n]
    <3> TAKE n \in session[r].picked
    <3>1. n \in Evidence /\ session[r].new[n] \in NodeOf /\ evidence'[n] = Written(r, n)
      BY <1>1, <1>2 DEF SessionShape
    <3>2. ~session[r].retyped => session[r].new[n].subtype = evidence[n].subtype
      BY <1>2, <2>1 DEF SessionTrue
    <3>3. ~session[r].retyped =>
            [session[r].new[n] EXCEPT !.subtype = evidence[n].subtype] = session[r].new[n]
      BY <3>1, <3>2 DEF NodeOf
    <3> QED
      BY <3>1, <3>3 DEF Written
  <2>6. evidence' = Seen(r)
    <3>1. \A n \in Evidence : Written(r, n) = Seen(r)[n]
      BY <1>1, <1>5, <2>5 DEF Seen
    <3>2. Seen(r) = [n \in Evidence |-> Seen(r)[n]]
      BY DEF Seen
    <3> QED
      BY <1>1, <3>1, <3>2
  <2>7. session[r].clears = Clears(evidence)' /\ session[r].urgency = UrgencyIn(evidence)'
    <3>1. session[r].clears = Clears(Seen(r)) /\ session[r].urgency = UrgencyIn(Seen(r))
      BY <1>1, <2>1 DEF SessionTrue
    <3> QED
      BY <2>6, <3>1
  <2>8. signal'.urgency = UrgencyIn(evidence)' /\ (Clears(evidence)' => ~signal'.flagged)
    <3>1. session[r].was = signal.urgency
      BY <1>2, <2>1 DEF SessionTrue
    <3> QED
      BY <1>1, <2>7, <3>1
  <2>9. \A n \in Evidence : evidence'[n].role = RoleOf(evidence'[n].subtype)
    <3> TAKE n \in Evidence
    <3>1. evidence[n].role = RoleOf(evidence[n].subtype)
      BY <2>1 DEF Unmixed
    <3>2. n \in session[r].picked => session[r].new[n].role = RoleOf(session[r].new[n].subtype)
      BY <1>2, <2>1 DEF SessionTrue
    <3> QED
      BY <1>5, <2>5, <3>1, <3>2
  <2>10. \A n \in Evidence : evidence'[n].review = LastStatus(n)'
    <3> TAKE n \in Evidence
    <3>1. evidence[n].review = LastStatus(n)
      BY <2>1 DEF Unmixed
    <3> QED
      BY <1>4, <1>5, <3>1
  <2> QED
    BY <1>3, <2>3, <2>4, <2>8, <2>9, <2>10 DEF Unmixed
<1> QED
  BY <1>1, <1>6, <1>7 DEF ReviewInv

\* A session that is past its commit, or ends.
LEMMA SessionGoesOn ==
  ASSUME ReviewInv, NEW r \in Reviewer, NEW s, session' = [session EXCEPT ![r] = s],
         AtWork(r), s.at \in {"none", "rebuild", "write"}, s.at = "write" => s.shows = Shown(evidence),
         UNCHANGED <<evidence, signal, reviews, mixed>>,
         ~mixed /\ ~unbuilt' /\ s.at = "none" => journey' = Shown(evidence)
  PROVE  ReviewInv'
<1>1. Shape
  BY DEF ReviewInv
<1>2. session'[r] = s /\ \A q \in Reviewer \ {r} : session'[q] = session[q]
  BY <1>1 DEF Shape
<1>3. SessionShape(r)'
  BY <1>2 DEF SessionShape, Open
<1>4. Shape'
  BY <1>1, <1>3, OthersKept DEF Shape
<1>5. ASSUME ~mixed PROVE Unmixed'
  <2>1. Unmixed
    BY <1>5 DEF ReviewInv
  <2>2. \A q \in Reviewer \ {r} : session'[q].at = "none"
    BY <1>2, <2>1 DEF Unmixed, AtWork
  <2>3. \A q \in Reviewer \ {r} : SessionTrue(q)'
    BY <2>2 DEF SessionTrue, Open
  <2>4. SessionTrue(r)'
    BY <1>2 DEF SessionTrue, Open
  <2>5. \A p, q \in Reviewer : AtWork(p)' /\ AtWork(q)' => p = q
    BY <2>2 DEF AtWork
  <2>6. \A n \in Evidence : LastStatus(n)' = LastStatus(n)
    BY DEF LastStatus
  <2>7. ~unbuilt' /\ (\A q \in Reviewer : session'[q].at \notin {"rebuild", "write"}) =>
          journey' = Shown(evidence)
    BY <1>2, <1>5
  <2>8. /\ signal.urgency = UrgencyIn(evidence) /\ (Clears(evidence) => ~signal.flagged)
        /\ \A n \in Evidence : evidence[n].role = RoleOf(evidence[n].subtype)
        /\ \A n \in Evidence : evidence[n].review = LastStatus(n)
    BY <2>1 DEF Unmixed
  <2>9. \A q \in Reviewer : SessionTrue(q)'
    BY <2>3, <2>4
  <2> QED
    BY <2>5, <2>6, <2>7, <2>8, <2>9 DEF Unmixed
<1> QED
  BY <1>4, <1>5 DEF ReviewInv

LEMMA RestKeeps ==
  ASSUME ReviewInv, NEW r \in Reviewer,
         RollBack(r) \/ ReadEvidence(r) \/ WriteJourney(r) \/ RebuildFails(r)
  PROVE  ReviewInv'
<1>1. NoSession.at = "none"
  BY DEF NoSession
<1>2. CASE RollBack(r)
  <2>1. ASSUME ~mixed, ~unbuilt PROVE journey = Shown(evidence)
    <3>1. Unmixed
      BY <2>1 DEF ReviewInv
    <3>2. \A q \in Reviewer : session[q].at \notin {"rebuild", "write"}
      BY <1>2, <3>1 DEF Unmixed, AtWork, RollBack
    <3> QED
      BY <2>1, <3>1, <3>2 DEF Unmixed
  <2> QED
    BY <1>1, <1>2, <2>1, SessionGoesOn DEF RollBack, AtWork
<1>3. CASE ReadEvidence(r)
  <2> DEFINE s == [at |-> "write", shows |-> Shown(evidence)]
  <2>1. s.at = "write" /\ s.shows = Shown(evidence) /\ session' = [session EXCEPT ![r] = s]
    BY <1>3 DEF ReadEvidence
  <2> HIDE DEF s
  <2> QED
    BY <1>3, <2>1, SessionGoesOn DEF ReadEvidence, AtWork
<1>4. CASE WriteJourney(r)
  <2>1. ~mixed => session[r].shows = Shown(evidence)
    BY <1>4 DEF WriteJourney, ReviewInv, Unmixed, SessionTrue
  <2> QED
    BY <1>1, <1>4, <2>1, SessionGoesOn DEF WriteJourney, AtWork
<1>5. CASE RebuildFails(r)
  BY <1>1, <1>5, SessionGoesOn DEF RebuildFails, AtWork
<1> QED
  BY <1>2, <1>3, <1>4, <1>5

LEMMA ReviewInvNext == ReviewInv /\ [ReviewNext]_rvars => ReviewInv'
<1> SUFFICES ASSUME ReviewInv, [ReviewNext]_rvars PROVE ReviewInv'
  OBVIOUS
<1>1. CASE ReviewNext
  <2>1. PICK r \in Reviewer :
          \/ \E decision \in Decision, named \in {{}} \cup {{n} : n \in Evidence}, st \in Subtype :
               Review(r, decision, named, st)
          \/ Flush(r) \/ CommitReview(r) \/ RollBack(r)
          \/ ReadEvidence(r) \/ WriteJourney(r) \/ RebuildFails(r)
    BY <1>1 DEF ReviewNext
  <2> QED
    BY <2>1, ReviewKeeps, FlushKeeps, CommitKeeps, RestKeeps
<1>2. CASE UNCHANGED rvars
  <2>1. \A n \in Evidence : LastStatus(n)' = LastStatus(n)
    BY <1>2 DEF LastStatus, rvars
  <2>2. \A r \in Reviewer : /\ SessionTrue(r) => SessionTrue(r)'
                            /\ SessionShape(r) => SessionShape(r)'
                            /\ AtWork(r)' = AtWork(r)
    BY <1>2 DEF SessionTrue, SessionShape, Open, AtWork, Seen, Undecided, rvars
  <2>3. Shape => Shape'
    BY <1>2, <2>2 DEF Shape, rvars
  <2>4. Unmixed => Unmixed'
    BY <1>2, <2>1, <2>2 DEF Unmixed, rvars
  <2> QED
    BY <1>2, <2>3, <2>4 DEF ReviewInv, rvars
<1> QED
  BY <1>1, <1>2

-----------------------------------------------------------------------------
(***************************************************************************)
(* What follows for every behaviour                                        *)
(***************************************************************************)
LEMMA ReviewInvHolds == ReviewSpec => []ReviewInv
<1>1. ReviewInit => ReviewInv
  BY ReviewInit1
<1>2. ReviewInv /\ [ReviewNext]_rvars => ReviewInv'
  BY ReviewInvNext
<1> QED
  BY <1>1, <1>2, PTL DEF ReviewSpec

\* As long as reviews do not overlap, the urgency and the flag of the signal, the history of
\* its reviews and the journey of the account say what the nodes say (review.py:124-137).
THEOREM ReviewShownHolds == ReviewSpec => []ReviewShown
<1>1. ReviewInv => ReviewShown
  <2> SUFFICES ASSUME ReviewInv, ~mixed, \A r \in Reviewer : session[r].at = "none" PROVE
        /\ signal.urgency = UrgencyIn(evidence)
        /\ Clears(evidence) => ~signal.flagged
        /\ \A n \in Evidence : evidence[n].role = RoleOf(evidence[n].subtype)
        /\ \A n \in Evidence : evidence[n].review = LastStatus(n)
        /\ ~unbuilt => journey = Shown(evidence)
    BY DEF ReviewShown
  <2> QED
    BY DEF ReviewInv, Unmixed
<1> QED
  BY <1>1, ReviewInvHolds, PTL

\* One step takes no decision away, lowers the flag only when all is decided, and, when
\* it is the commit of a blanket accept that no review overlapped, changes no rejected or
\* reclassified node.
LEMMA ReviewStandsStep ==
  ASSUME ReviewInv, [ReviewNext]_rvars
  PROVE  /\ signal.flagged /\ ~signal'.flagged => \A n \in Evidence : evidence'[n].review # Nothing
         /\ \A n \in Evidence : evidence[n].review # Nothing => evidence'[n].review # Nothing
         /\ \A r \in Reviewer :
              session[r].at = "flushed" /\ session[r].decision = "accept" /\ session[r].blanket
                /\ session'[r].at = "rebuild" /\ ~mixed =>
              \A n \in Evidence :
                evidence[n].review \in {"rejected", "reclassified"} => evidence'[n] = evidence[n]
<1>1. CASE UNCHANGED <<evidence, signal>>
  BY <1>1
<1>2. ASSUME NEW q \in Reviewer, CommitReview(q) PROVE
         /\ signal.flagged /\ ~signal'.flagged => \A n \in Evidence : evidence'[n].review # Nothing
         /\ \A n \in Evidence : evidence[n].review # Nothing => evidence'[n].review # Nothing
         /\ \A r \in Reviewer :
              session[r].at = "flushed" /\ session[r].decision = "accept" /\ session[r].blanket
                /\ session'[r].at = "rebuild" /\ ~mixed =>
              \A n \in Evidence :
                evidence[n].review \in {"rejected", "reclassified"} => evidence'[n] = evidence[n]
  <2>1. /\ session[q].at = "flushed" /\ evidence' = [n \in Evidence |-> Written(q, n)]
        /\ session' = [session EXCEPT ![q] = [at |-> "rebuild"]]
        /\ signal'.flagged = (signal.flagged /\ ~session[q].clears)
    BY <1>2 DEF CommitReview
  <2>2. Shape /\ SessionShape(q) /\ Open(q)
    BY <2>1 DEF ReviewInv, Shape, Open
  <2>3. \A n \in Evidence : /\ n \in session[q].picked => evidence'[n].review # Nothing
                            /\ n \notin session[q].picked => evidence'[n] = evidence[n]
    BY <2>1, <2>2, WrittenNode DEF Status, Nothing
  <2>4. signal.flagged /\ ~signal'.flagged => \A n \in Evidence : evidence'[n].review # Nothing
    BY <2>1, <2>2, <2>3 DEF SessionShape
  <2>5. ASSUME NEW r \in Reviewer, session[r].at = "flushed", session[r].decision = "accept",
               session[r].blanket, ~mixed, session'[r].at = "rebuild",
               NEW n \in Evidence, evidence[n].review \in {"rejected", "reclassified"}
        PROVE  evidence'[n] = evidence[n]
    <3>1. r = q
      BY <2>1, <2>2, <2>5 DEF Shape
    <3>2. session[q].picked \subseteq Undecided(Evidence)
      BY <2>2, <2>5, <3>1 DEF ReviewInv, Unmixed, SessionTrue
    <3>3. n \notin session[q].picked
      BY <2>5, <3>2 DEF Undecided, Nothing
    <3> QED
      BY <2>3, <3>3
  <2> QED
    BY <2>3, <2>4, <2>5
<1>3. UNCHANGED <<evidence, signal>> \/ \E q \in Reviewer : CommitReview(q)
  BY DEF ReviewNext, rvars, Review, Flush, RollBack, ReadEvidence, WriteJourney, RebuildFails
<1> QED
  BY <1>1, <1>2, <1>3

\* However reviews interleave, the flag comes down only over decided nodes and no decision
\* is lost; a blanket accept that no review overlapped undoes no rejection and no
\* reclassification (review.py:95-101, 124-127).
THEOREM ReviewStandsHolds == ReviewSpec => ReviewStands
<1>1. ReviewInv /\ [ReviewNext]_rvars =>
        [/\ signal.flagged /\ ~signal'.flagged => \A n \in Evidence : evidence'[n].review # Nothing
         /\ \A n \in Evidence : evidence[n].review # Nothing => evidence'[n].review # Nothing
         /\ \A r \in Reviewer :
              session[r].at = "flushed" /\ session[r].decision = "accept" /\ session[r].blanket
                /\ session'[r].at = "rebuild" /\ ~mixed =>
              \A n \in Evidence :
                evidence[n].review \in {"rejected", "reclassified"} => evidence'[n] = evidence[n]
        ]_rvars
  BY ReviewStandsStep
<1> QED
  BY <1>1, ReviewInvHolds, PTL DEF ReviewSpec, ReviewStands

-----------------------------------------------------------------------------
(***************************************************************************)
(* Journeys and forecasts                                                  *)
(***************************************************************************)
Block == [run : Nat, asOf : Nat, stale : BOOLEAN]
StoredJourney ==
  [asOf : Nat, last : Nat, made : Nat \ {0}, forecast : Block]
KnownFacts == [heard : SUBSET (1..MaxDate), scored : Nat]

\* The journey says when it has moved past its forecast in time.
Flagged(j) ==
  j.forecast # NotRun /\ ~j.forecast.stale => j.asOf <= j.forecast.asOf /\ j.last <= j.forecast.asOf

\* The forecasts of a run: a date for each account it had a journey of.
ForecastRun == UNION {[C -> Nat] : C \in SUBSET Customer}

\* The forecast of a journey is on record, with the date it was made as of, and flagged.
Backed(c, j) ==
  /\ j \in StoredJourney /\ Flagged(j)
  /\ j.forecast.run # 0 =>
       /\ j.forecast.run \in RunsOn(c)
       /\ j.forecast.asOf = forecasts[j.forecast.run][c]

\* It shows the newest forecast of its account.
ShowsNewest(c, j) == j.forecast.run = LatestBlock(c).run

HasJourneys(s) == work[s].at \in {"built", "read", "flushed"}

WorkShape(s) ==
  /\ work[s].at \in {"free", "built", "read", "flushed"}
  /\ HasJourneys(s) =>
       /\ DOMAIN work[s].journeys \subseteq Customer
       /\ \A c \in DOMAIN work[s].journeys : Backed(c, work[s].journeys[c])
       /\ DOMAIN work[s] = {"at", "journeys"}

\* What is stored and what is under way was on record when it was read, and still is.
OnFile ==
  /\ facts \in [Customer -> KnownFacts] /\ today \in Nat
  /\ release \in Nat \ {0} /\ crossed \in BOOLEAN
  /\ forecasts \in Seq(ForecastRun)
  /\ DOMAIN stored = Customer /\ \A c \in WithJourney : Backed(c, stored[c])
  /\ DOMAIN work = Session /\ \A s \in Session : WorkShape(s)

\* A wizard that works alone finds the journeys as it read them.
WorkTrue(s) ==
  /\ work[s].at = "built" => \A c \in DOMAIN work[s].journeys : ShowsNewest(c, work[s].journeys[c])
  /\ work[s].at \in {"read", "flushed"} => work[s].journeys = [c \in WithJourney |-> stored[c]]

InTurn ==
  /\ \A s, t \in Session : work[s].at # "free" /\ work[t].at # "free" => s = t
  /\ \A c \in WithJourney : ShowsNewest(c, stored[c])
  /\ \A s \in Session : WorkTrue(s)

ForesightInv == OnFile /\ (~crossed => InTurn)

\* A run has forecasts of accounts only.
LEMMA RunRow ==
  ASSUME NEW f \in ForecastRun
  PROVE  DOMAIN f \subseteq Customer /\ \A c \in DOMAIN f : f[c] \in Nat
<1>1. PICK C \in SUBSET Customer : f \in [C -> Nat]
  BY DEF ForecastRun
<1> QED
  BY <1>1

\* latest_forecast_block gives the newest forecast of an account.
LEMMA LatestIsNewest ==
  ASSUME OnFile, NEW c \in Customer
  PROVE  /\ RunsOn(c) \in SUBSET (1..Len(forecasts)) /\ LatestBlock(c) \in Block
         /\ RunsOn(c) = {} => LatestBlock(c) = NotRun
         /\ RunsOn(c) # {} =>
              /\ LatestBlock(c).run \in RunsOn(c) /\ ~LatestBlock(c).stale
              /\ LatestBlock(c).asOf = forecasts[LatestBlock(c).run][c]
              /\ \A j \in RunsOn(c) : j <= LatestBlock(c).run
<1>1. forecasts \in Seq(ForecastRun)
  BY DEF OnFile
<1>2. Len(forecasts) \in Nat /\ DOMAIN forecasts = 1..Len(forecasts)
  BY <1>1
<1>3. RunsOn(c) \in SUBSET (1..Len(forecasts))
  BY <1>2 DEF RunsOn
<1>4. CASE RunsOn(c) = {}
  BY <1>3, <1>4 DEF LatestBlock, NotRun, Block
<1>5. CASE RunsOn(c) # {}
  <2> DEFINE i == CHOOSE i \in RunsOn(c) : \A j \in RunsOn(c) : j <= i
  <2>1. \E t \in RunsOn(c) : \A u \in RunsOn(c) : u <= t
    BY <1>2, <1>3, <1>5, GreatestUpTo
  <2>2. i \in RunsOn(c) /\ \A j \in RunsOn(c) : j <= i
    BY <2>1
  <2>3. LatestBlock(c) = [run |-> i, asOf |-> forecasts[i][c], stale |-> FALSE]
    BY <1>5 DEF LatestBlock
  <2> HIDE DEF i
  <2>4. forecasts[i] \in ForecastRun /\ c \in DOMAIN forecasts[i] /\ i \in Nat
    BY <1>1, <1>2, <2>2 DEF RunsOn
  <2>5. forecasts[i][c] \in Nat
    BY <2>4, RunRow
  <2> QED
    BY <1>3, <1>5, <2>2, <2>3, <2>4, <2>5 DEF Block
<1> QED
  BY <1>4, <1>5

\* with_staleness keeps the run and the date of a block.
LEMMA StalenessOf ==
  ASSUME NEW block \in Block, NEW j, j.asOf \in Nat, j.last \in Nat
  PROVE  LET b == WithStaleness(block, j) IN
         /\ b \in Block /\ b.run = block.run /\ b.asOf = block.asOf
         /\ b # NotRun /\ ~b.stale => j.asOf <= b.asOf /\ j.last <= b.asOf
<1>1. CASE block = NotRun
  BY <1>1 DEF WithStaleness
<1>2. CASE block # NotRun
  <2> DEFINE stale == j.asOf > block.asOf \/ j.last > block.asOf
  <2>1. WithStaleness(block, j) = [block EXCEPT !.stale = stale]
    BY <1>2 DEF WithStaleness
  <2>2. block.asOf \in Nat /\ stale \in BOOLEAN
    BY DEF Block
  <2>3. ~stale => j.asOf <= block.asOf /\ j.last <= block.asOf
    BY <2>2
  <2> HIDE DEF stale
  <2> QED
    BY <2>1, <2>2, <2>3 DEF Block
<1> QED
  BY <1>1, <1>2

\* 'now' is a date.
LEMMA NowIsDate ==
  ASSUME OnFile, NEW c \in Customer
  PROVE  NowOf(c) \in Nat /\ LastHeard(c) \in Nat
<1>1. facts[c].heard \in SUBSET (1..MaxDate) /\ facts[c].scored \in Nat /\ today \in Nat
  BY DEF OnFile, KnownFacts
<1>2. LastHeard(c) \in Nat
  <2>1. CASE facts[c].heard = {}
    BY <2>1 DEF LastHeard
  <2>2. CASE facts[c].heard # {}
    <3> DEFINE S == facts[c].heard
               d == CHOOSE d \in S : \A e \in S : e <= d
    <3>1. \E t \in S : \A u \in S : u <= t
      BY <1>1, <2>2, ForesightAssumption, GreatestUpTo
    <3>2. d \in S
      BY <3>1
    <3>3. LastHeard(c) = d
      BY <2>2 DEF LastHeard
    <3> QED
      BY <1>1, <3>2, <3>3
  <2> QED
    BY <2>1, <2>2
<1>3. NowOf(c) \in {facts[c].scored, LastHeard(c), today}
  BY DEF NowOf
<1> QED
  BY <1>1, <1>2, <1>3

\* build_journey makes a journey that shows the newest forecast.
LEMMA BuiltIsNewest ==
  ASSUME OnFile, NEW c \in Customer
  PROVE  Backed(c, Built(c)) /\ ShowsNewest(c, Built(c)) /\ Built(c) # NoJourney
<1> DEFINE j == [asOf |-> NowOf(c), last |-> LastHeard(c)]
           b == WithStaleness(LatestBlock(c), j)
<1>1. NowOf(c) \in Nat /\ LastHeard(c) \in Nat /\ release \in Nat \ {0}
  BY NowIsDate DEF OnFile
<1>2. j.asOf = NowOf(c) /\ j.last = LastHeard(c)
  OBVIOUS
<1>3. Built(c) = [asOf |-> j.asOf, last |-> j.last, made |-> release, forecast |-> b]
  BY DEF Built
<1>4. /\ b \in Block /\ b.run = LatestBlock(c).run /\ b.asOf = LatestBlock(c).asOf
      /\ b # NotRun /\ ~b.stale => j.asOf <= b.asOf /\ j.last <= b.asOf
  BY <1>1, <1>2, LatestIsNewest, StalenessOf
<1> HIDE DEF j, b
<1>5. Built(c) \in StoredJourney
  BY <1>1, <1>2, <1>3, <1>4 DEF StoredJourney
<1>6. Built(c).asOf = j.asOf /\ Built(c).last = j.last /\ Built(c).forecast = b /\ Built(c).made = release
  BY <1>3
<1>7. b.run # 0 => b.run \in RunsOn(c) /\ b.asOf = forecasts[b.run][c]
  BY <1>4, LatestIsNewest DEF NotRun
<1>8. Flagged(Built(c))
  BY <1>4, <1>6 DEF Flagged
<1>9. Backed(c, Built(c))
  BY <1>5, <1>6, <1>7, <1>8 DEF Backed
<1>10. ShowsNewest(c, Built(c))
  BY <1>4, <1>6 DEF ShowsNewest
<1> QED
  BY <1>1, <1>6, <1>9, <1>10 DEF NoJourney

\* A step leaves facts, and takes nothing from the forecasts.
FactsGrow ==
  /\ facts' \in [Customer -> KnownFacts] /\ today' \in Nat
  /\ forecasts' = forecasts \/ \E f \in ForecastRun : forecasts' = Append(forecasts, f)

\* The newest run on an account, once a run is added.
LEMMA RunAdded ==
  ASSUME OnFile, NEW f \in ForecastRun, forecasts' = Append(forecasts, f)
  PROVE  LET k == Len(forecasts) + 1 IN
         /\ forecasts' \in Seq(ForecastRun) /\ DOMAIN forecasts' = 1..k /\ k \in Nat \ {0}
         /\ DOMAIN forecasts = 1..(k - 1)
         /\ forecasts'[k] = f /\ \A i \in 1..(k - 1) : forecasts'[i] = forecasts[i]
         /\ \A c \in Customer :
              /\ RunsOn(c) \subseteq RunsOn(c)'
              /\ c \in DOMAIN f => k \in RunsOn(c)' /\ LatestBlock(c)'.run = k
              /\ c \notin DOMAIN f => LatestBlock(c)'.run = LatestBlock(c).run
<1> DEFINE k == Len(forecasts) + 1
<1>1. forecasts \in Seq(ForecastRun)
  BY DEF OnFile
<1>2. /\ forecasts' \in Seq(ForecastRun) /\ Len(forecasts') = k /\ k \in Nat \ {0}
      /\ forecasts'[k] = f /\ \A i \in 1..(k - 1) : forecasts'[i] = forecasts[i]
  BY <1>1
<1>3. DOMAIN forecasts' = 1..k /\ DOMAIN forecasts = 1..(k - 1)
  BY <1>1, <1>2
<1> HIDE DEF k
<1>4. \A i \in 1..k : i \in 1..(k - 1) \/ i = k
  BY <1>2
<1>5. \A i \in 1..(k - 1) : i \in 1..k /\ i # k /\ i <= k
  BY <1>2
<1>6. ASSUME NEW c \in Customer, c \in DOMAIN f
      PROVE  /\ RunsOn(c) \subseteq RunsOn(c)' /\ k \in RunsOn(c)' /\ LatestBlock(c)'.run = k
  <2>1. RunsOn(c)' = RunsOn(c) \cup {k}
    BY <1>2, <1>3, <1>4, <1>5, <1>6 DEF RunsOn
  <2> DEFINE R == RunsOn(c)'
  <2>2. k \in R /\ R \subseteq Nat /\ \A i \in R : i <= k
    BY <1>2, <1>3, <1>5, <2>1 DEF RunsOn
  <2>3. (CHOOSE i \in R : \A j \in R : j <= i) = k
    <3> HIDE DEF R
    <3>1. \E i \in R : \A j \in R : j <= i
      BY <2>2
    <3>2. \A i \in R : (\A j \in R : j <= i) => i = k
      BY <1>2, <2>2
    <3> QED
      BY <3>1, <3>2
  <2>4. LatestBlock(c)' = LET i == CHOOSE i \in R : \A j \in R : j <= i
                          IN [run |-> i, asOf |-> forecasts'[i][c], stale |-> FALSE]
    BY <2>2 DEF LatestBlock
  <2> QED
    BY <2>1, <2>2, <2>3, <2>4
<1>7. ASSUME NEW c \in Customer, c \notin DOMAIN f
      PROVE  RunsOn(c)' = RunsOn(c) /\ LatestBlock(c)'.run = LatestBlock(c).run
  <2>1. RunsOn(c)' = RunsOn(c)
    BY <1>2, <1>3, <1>4, <1>5, <1>7 DEF RunsOn
  <2> DEFINE i == CHOOSE i \in RunsOn(c) : \A j \in RunsOn(c) : j <= i
  <2>2. LatestBlock(c).run = IF RunsOn(c) = {} THEN 0 ELSE i
    BY DEF LatestBlock, NotRun
  <2>3. LatestBlock(c)'.run = IF RunsOn(c) = {} THEN 0 ELSE i
    BY <2>1 DEF LatestBlock, NotRun
  <2> QED
    BY <2>1, <2>2, <2>3
<1> QED
  BY <1>2, <1>3, <1>6, <1>7 DEF k

\* What was on record stays on record.
LEMMA StaysBacked ==
  ASSUME OnFile, FactsGrow, NEW c \in Customer, NEW j, Backed(c, j)
  PROVE  Backed(c, j)'
<1>1. /\ RunsOn(c) \subseteq RunsOn(c)'
      /\ \A i \in DOMAIN forecasts : forecasts'[i] = forecasts[i]
  <2>1. CASE forecasts' = forecasts
    BY <2>1 DEF RunsOn
  <2>2. CASE \E f \in ForecastRun : forecasts' = Append(forecasts, f)
    BY <2>2, RunAdded
  <2> QED
    BY <2>1, <2>2 DEF FactsGrow
<1>2. j \in StoredJourney /\ Flagged(j)
  BY DEF Backed
<1>3. j.forecast.run # 0 =>
        /\ j.forecast.run \in RunsOn(c)' /\ j.forecast.asOf = forecasts'[j.forecast.run][c]
  BY <1>1 DEF Backed, RunsOn
<1> QED
  BY <1>2, <1>3 DEF Backed

\* The forecast run puts its block into a journey.
LEMMA EmbeddedIs ==
  ASSUME NEW j \in StoredJourney, NEW run \in Nat \ {0}
  PROVE  LET e == Embedded(j, run) IN
         /\ e \in StoredJourney /\ e # NoJourney /\ Flagged(e)
         /\ e.forecast.run = run /\ e.forecast.asOf = j.asOf
<1> DEFINE b == [run |-> run, asOf |-> j.asOf, stale |-> FALSE]
           w == WithStaleness(b, j)
<1>1. j.asOf \in Nat /\ j.last \in Nat /\ j.made \in Nat \ {0}
  BY DEF StoredJourney
<1>2. b \in Block /\ b.run = run /\ b.asOf = j.asOf /\ run # 0
  BY <1>1 DEF Block
<1> HIDE DEF b
<1>3. /\ w \in Block /\ w.run = run /\ w.asOf = j.asOf
      /\ w # NotRun /\ ~w.stale => j.asOf <= w.asOf /\ j.last <= w.asOf
  BY <1>1, <1>2, StalenessOf
<1>4. Embedded(j, run) = [j EXCEPT !.forecast = w]
  BY DEF Embedded, b
<1> HIDE DEF w
<1>5. [j EXCEPT !.forecast = w] \in StoredJourney
  BY <1>3 DEF StoredJourney
<1>6. LET e == Embedded(j, run) IN
      e.asOf = j.asOf /\ e.last = j.last /\ e.made = j.made /\ e.forecast = w
  BY <1>4 DEF StoredJourney
<1>7. Embedded(j, run) # NoJourney
  BY <1>1, <1>6 DEF NoJourney
<1>8. Flagged(Embedded(j, run))
  BY <1>3, <1>6 DEF Flagged
<1> QED
  BY <1>3, <1>4, <1>5, <1>6, <1>7, <1>8

LEMMA ForesightInv1 == ForesightInit => ForesightInv
<1> SUFFICES ASSUME ForesightInit PROVE ForesightInv
  OBVIOUS
<1>1. /\ facts = [c \in Customer |-> [heard |-> {}, scored |-> 0]] /\ today = 1 /\ release = 1
      /\ stored = [c \in Customer |-> NoJourney] /\ forecasts = <<>> /\ crossed = FALSE
      /\ work = [s \in Session |-> Free]
  BY DEF ForesightInit
<1>2. WithJourney = {} /\ \A s \in Session : work[s].at = "free"
  BY <1>1 DEF WithJourney, Free
<1>3. OnFile
  <2>1. \A S : <<>> \in Seq(S)
    OBVIOUS
  <2>2. facts \in [Customer -> KnownFacts] /\ today \in Nat
    <3> DEFINE none == [heard |-> {}, scored |-> 0]
    <3>1. none \in KnownFacts
      BY DEF KnownFacts
    <3>2. facts = [c \in Customer |-> none] /\ today = 1
      BY <1>1
    <3> HIDE DEF none
    <3> QED
      BY <3>1, <3>2
  <2>3. \A s \in Session : WorkShape(s)
    BY <1>2 DEF WorkShape, HasJourneys
  <2>4. DOMAIN forecasts = {} /\ forecasts \in Seq(ForecastRun)
    BY <1>1, <2>1
  <2>5. DOMAIN stored = Customer /\ DOMAIN work = Session /\ release \in Nat \ {0} /\ crossed \in BOOLEAN
    <3>1. DOMAIN stored = Customer /\ DOMAIN work = Session
      BY <1>1
    <3>2. release \in Nat \ {0}
      <4>1. release = 1
        BY <1>1, Zenon
      <4> QED
        BY <4>1
    <3>3. crossed \in BOOLEAN
      BY <1>1, Zenon
    <3> QED
      BY <3>1, <3>2, <3>3
  <2>6. \A c \in WithJourney : Backed(c, stored[c])
    BY <1>2
  <2> QED
    BY <2>2, <2>3, <2>4, <2>5, <2>6, Zenon DEF OnFile
<1>4. InTurn
  BY <1>2 DEF InTurn, WorkTrue
<1> QED
  BY <1>3, <1>4 DEF ForesightInv

\* The journeys of a session that goes on as it is stay on record.
LEMMA WorkStays ==
  ASSUME OnFile, FactsGrow, NEW s \in Session, work'[s] = work[s]
  PROVE  WorkShape(s)'
<1>1. WorkShape(s)
  BY DEF OnFile
<1>2. ASSUME HasJourneys(s), NEW c \in DOMAIN work[s].journeys PROVE Backed(c, work[s].journeys[c])'
  <2>1. c \in Customer /\ Backed(c, work[s].journeys[c])
    BY <1>1, <1>2 DEF WorkShape
  <2> QED
    <3>1. PICK j : j = work[s].journeys[c]
      OBVIOUS
    <3>2. Backed(c, j)'
      BY <2>1, <3>1, StaysBacked
    <3>3. work'[s].journeys[c] = j
      BY <3>1
    <3> QED
      BY <3>2, <3>3 DEF Backed
<1> QED
  BY <1>1, <1>2 DEF WorkShape, HasJourneys

\* The world goes on: new evidence, a new release.
LEMMA WorldKeeps ==
  ASSUME ForesightInv, FactsGrow, forecasts' = forecasts, release' \in Nat \ {0},
         UNCHANGED <<stored, work, crossed>>
  PROVE  ForesightInv'
<1>1. OnFile
  BY DEF ForesightInv
<1>2. \A s \in Session : WorkShape(s)'
  BY <1>1, WorkStays
<1>3. \A c \in WithJourney : Backed(c, stored[c])'
  <2> TAKE c \in WithJourney
  <2>1. c \in Customer /\ Backed(c, stored[c])
    BY <1>1 DEF OnFile, WithJourney
  <2>2. PICK j : j = stored[c]
    OBVIOUS
  <2>3. Backed(c, j)'
    BY <1>1, <2>1, <2>2, StaysBacked
  <2>4. stored'[c] = j
    BY <2>2
  <2> QED
    BY <2>3, <2>4 DEF Backed
<1>4. WithJourney' = WithJourney
  BY DEF WithJourney
<1>5. OnFile'
  BY <1>1, <1>2, <1>3, <1>4 DEF OnFile, FactsGrow
<1>6. ASSUME NEW c, NEW j, ShowsNewest(c, j) PROVE ShowsNewest(c, j)'
  BY <1>6 DEF ShowsNewest, LatestBlock, RunsOn
<1>7. InTurn => InTurn'
  <2> SUFFICES ASSUME InTurn PROVE InTurn'
    OBVIOUS
  <2>1. ASSUME NEW s \in Session PROVE WorkTrue(s)'
    <3>1. WorkTrue(s) /\ work'[s] = work[s]
      BY DEF InTurn
    <3> QED
      BY <1>4, <1>6, <3>1 DEF WorkTrue, ShowsNewest
  <2>2. \A c \in WithJourney' : ShowsNewest(c, stored[c])'
    BY <1>4, <1>6 DEF InTurn, ShowsNewest
  <2> QED
    BY <2>1, <2>2 DEF InTurn
<1> QED
  BY <1>5, <1>7 DEF ForesightInv

\* A session takes a step that leaves what is stored and known.
LEMMA SessionKeeps ==
  ASSUME ForesightInv, NEW s \in Session, UNCHANGED <<today, facts, release, stored, forecasts>>,
         crossed' \in BOOLEAN, crossed => crossed', DOMAIN work' = Session,
         \A t \in Session \ {s} : work'[t] = work[t],
         WorkShape(s)', ~crossed' => WorkTrue(s)' /\ \A t \in Session \ {s} : work[t].at = "free"
  PROVE  ForesightInv'
<1>1. OnFile
  BY DEF ForesightInv
<1>2. FactsGrow
  BY <1>1 DEF OnFile, FactsGrow
<1>3. \A t \in Session : WorkShape(t)'
  BY <1>1, <1>2, WorkStays
<1>4. WithJourney' = WithJourney /\ \A c : RunsOn(c)' = RunsOn(c) /\ LatestBlock(c)' = LatestBlock(c)
  BY DEF WithJourney, RunsOn, LatestBlock
<1>5. OnFile'
  BY <1>1, <1>3, <1>4 DEF OnFile, Backed
<1>6. ASSUME ~crossed' PROVE InTurn'
  <2>1. InTurn
    BY <1>6 DEF ForesightInv
  <2>2. \A t \in Session \ {s} : work'[t].at = "free"
    BY <1>6
  <2>3. \A t \in Session : WorkTrue(t)'
    BY <1>6, <2>2 DEF WorkTrue
  <2>4. \A c \in WithJourney' : ShowsNewest(c, stored[c])'
    BY <1>4, <2>1 DEF InTurn, ShowsNewest
  <2> QED
    BY <2>2, <2>3, <2>4 DEF InTurn
<1> QED
  BY <1>5, <1>6 DEF ForesightInv

\* Whether a journey is on record and shows the newest forecast depends on facts and
\* forecasts only.
LEMMA SameFacts ==
  ASSUME UNCHANGED <<facts, forecasts>>, NEW c, NEW j
  PROVE  Backed(c, j)' = Backed(c, j) /\ ShowsNewest(c, j)' = ShowsNewest(c, j)
  BY DEF Backed, ShowsNewest, RunsOn, LatestBlock

\* Time, evidence, scores, a review.
LEMMA LearnKeeps ==
  ASSUME ForesightInv,
         Tick \/ \E c \in Customer, d \in 1..MaxDate : Hear(c, d) \/ ScoreMonth(c, d) \/ Reject(c, d)
  PROVE  ForesightInv'
<1>1. OnFile
  BY DEF ForesightInv
<1>2. CASE Tick
  <2>1. FactsGrow
    BY <1>1, <1>2 DEF OnFile, FactsGrow, Tick
  <2> QED
    BY <1>1, <1>2, <2>1, WorldKeeps DEF OnFile, Tick
<1>3. CASE \E c \in Customer, d \in 1..MaxDate : Hear(c, d) \/ ScoreMonth(c, d) \/ Reject(c, d)
  <2>1. PICK c \in Customer, d \in 1..MaxDate : Hear(c, d) \/ ScoreMonth(c, d) \/ Reject(c, d)
    BY <1>3
  <2>2. facts[c].heard \in SUBSET (1..MaxDate) /\ facts[c].scored \in Nat /\ d \in Nat
    BY <1>1, ForesightAssumption DEF OnFile, KnownFacts
  <2>3. \E h \in SUBSET (1..MaxDate), n \in Nat : NewFacts(c, h, n)
    <3>1. CASE Hear(c, d)
      BY <2>2, <3>1 DEF Hear
    <3>2. CASE ScoreMonth(c, d)
      BY <2>2, <3>2 DEF ScoreMonth
    <3>3. CASE Reject(c, d)
      BY <2>2, <3>3 DEF Reject
    <3> QED
      BY <2>1, <3>1, <3>2, <3>3
  <2>4. PICK h \in SUBSET (1..MaxDate), n \in Nat : NewFacts(c, h, n)
    BY <2>3
  <2>5. /\ facts' = [facts EXCEPT ![c] = [heard |-> h, scored |-> n]]
        /\ UNCHANGED <<today, release, stored, forecasts, work, crossed>>
    BY <2>4 DEF NewFacts
  <2>6. [heard |-> h, scored |-> n] \in KnownFacts
    BY <2>4 DEF KnownFacts
  <2>7. FactsGrow
    BY <1>1, <2>5, <2>6 DEF OnFile, FactsGrow
  <2> QED
    BY <1>1, <2>5, <2>7, <2>6, WorldKeeps DEF OnFile
<1> QED
  BY <1>2, <1>3

LEMMA ReleaseKeeps ==
  ASSUME ForesightInv, Release
  PROVE  ForesightInv'
<1>1. OnFile
  BY DEF ForesightInv
<1>2. FactsGrow
  BY <1>1 DEF OnFile, FactsGrow, Release
<1> QED
  BY <1>1, <1>2, WorldKeeps DEF OnFile, Release

LEMMA BeginBuildKeeps ==
  ASSUME ForesightInv, NEW s \in Session, NEW wanted \in SUBSET Customer, BeginBuild(s, wanted)
  PROVE  ForesightInv'
<1>1. OnFile
  BY DEF ForesightInv
<1>2. PICK built \in SUBSET wanted :
        work' = [work EXCEPT ![s] = [at |-> "built", journeys |-> [c \in built |-> Built(c)]]]
  BY DEF BeginBuild
<1>3. /\ UNCHANGED <<today, facts, release, stored, forecasts>> /\ ~crossed /\ crossed' = (crossed \/ ~Alone(s))
  BY DEF BeginBuild
<1>4. /\ work'[s].at = "built" /\ work'[s].journeys = [c \in built |-> Built(c)]
      /\ DOMAIN work'[s] = {"at", "journeys"} /\ DOMAIN work' = Session
      /\ \A t \in Session \ {s} : work'[t] = work[t]
  BY <1>1, <1>2 DEF OnFile
<1>5. \A c \in built : Backed(c, Built(c)) /\ ShowsNewest(c, Built(c))
  BY <1>1, BuiltIsNewest
<1>6. \A c \in built : Backed(c, work[s].journeys[c])' /\ ShowsNewest(c, work[s].journeys[c])'
  <2> TAKE c \in built
  <2>1. PICK j : j = Built(c)
    OBVIOUS
  <2>2. Backed(c, j)' /\ ShowsNewest(c, j)'
    BY <1>3, <1>5, <2>1, SameFacts
  <2>3. work'[s].journeys[c] = j
    BY <1>4, <2>1
  <2> QED
    BY <2>2, <2>3 DEF Backed, ShowsNewest
<1>7. WorkShape(s)'
  BY <1>4, <1>6 DEF WorkShape, HasJourneys
<1>8. WorkTrue(s)'
  BY <1>4, <1>6 DEF WorkTrue
<1>9. ~crossed' => \A t \in Session \ {s} : work[t].at = "free"
  BY <1>3 DEF Alone
<1>10. crossed' \in BOOLEAN
  BY <1>1, <1>3 DEF OnFile, Alone
<1> QED
  BY <1>3, <1>4, <1>7, <1>8, <1>9, <1>10, SessionKeeps

LEMMA BeginForecastKeeps ==
  ASSUME ForesightInv, NEW s \in Session, BeginForecast(s)
  PROVE  ForesightInv'
<1>1. OnFile
  BY DEF ForesightInv
<1>2. /\ work' = [work EXCEPT ![s] = [at |-> "read", journeys |-> [c \in WithJourney |-> stored[c]]]]
      /\ UNCHANGED <<today, facts, release, stored, forecasts>> /\ crossed' = (crossed \/ ~Alone(s))
  BY DEF BeginForecast
<1>3. /\ work'[s].at = "read" /\ work'[s].journeys = [c \in WithJourney |-> stored[c]]
      /\ DOMAIN work'[s] = {"at", "journeys"} /\ DOMAIN work' = Session
      /\ \A t \in Session \ {s} : work'[t] = work[t]
  BY <1>1, <1>2 DEF OnFile
<1>4. \A c \in WithJourney : c \in Customer /\ Backed(c, work[s].journeys[c])'
  <2> TAKE c \in WithJourney
  <2>1. PICK j : j = stored[c]
    OBVIOUS
  <2>2. Backed(c, j)'
    BY <1>1, <1>2, <2>1, SameFacts DEF OnFile
  <2>3. work'[s].journeys[c] = j
    BY <1>3, <2>1
  <2> QED
    BY <2>2, <2>3 DEF Backed, WithJourney
<1>5. WorkShape(s)'
  BY <1>3, <1>4 DEF WorkShape, HasJourneys
<1>6. WorkTrue(s)'
  BY <1>2, <1>3 DEF WorkTrue, WithJourney
<1>7. ~crossed' => \A t \in Session \ {s} : work[t].at = "free"
  BY <1>2 DEF Alone
<1>8. crossed' \in BOOLEAN
  BY <1>1, <1>2 DEF OnFile, Alone
<1> QED
  BY <1>2, <1>3, <1>5, <1>6, <1>7, <1>8, SessionKeeps

LEMMA FlushForecastKeeps ==
  ASSUME ForesightInv, NEW s \in Session, FlushForecast(s)
  PROVE  ForesightInv'
<1>1. OnFile /\ WorkShape(s)
  BY DEF ForesightInv, OnFile
<1>2. /\ work[s].at = "read" /\ work' = [work EXCEPT ![s].at = "flushed"]
      /\ UNCHANGED <<today, facts, release, stored, forecasts, crossed>>
  BY DEF FlushForecast
<1>3. DOMAIN work[s] = {"at", "journeys"}
  BY <1>1, <1>2 DEF WorkShape, HasJourneys
<1>4. /\ work'[s].at = "flushed" /\ work'[s].journeys = work[s].journeys
      /\ DOMAIN work'[s] = {"at", "journeys"} /\ DOMAIN work' = Session
      /\ \A t \in Session \ {s} : work'[t] = work[t]
  BY <1>1, <1>2, <1>3 DEF OnFile
<1>5. \A c \in DOMAIN work[s].journeys : c \in Customer /\ Backed(c, work[s].journeys[c])'
  <2> TAKE c \in DOMAIN work[s].journeys
  <2>1. PICK j : j = work[s].journeys[c]
    OBVIOUS
  <2>2. c \in Customer /\ Backed(c, j)'
    BY <1>1, <1>2, <2>1, SameFacts DEF WorkShape, HasJourneys
  <2>3. work'[s].journeys[c] = j
    BY <1>4, <2>1
  <2> QED
    BY <2>2, <2>3 DEF Backed
<1>6. WorkShape(s)'
  BY <1>4, <1>5 DEF WorkShape, HasJourneys
<1>7. ~crossed => WorkTrue(s)' /\ \A t \in Session \ {s} : work[t].at = "free"
  <2> SUFFICES ASSUME ~crossed PROVE WorkTrue(s)' /\ \A t \in Session \ {s} : work[t].at = "free"
    OBVIOUS
  <2>1. InTurn /\ WorkTrue(s)
    BY DEF ForesightInv, InTurn
  <2>2. WithJourney' = WithJourney
    BY <1>2 DEF WithJourney
  <2> QED
    BY <1>2, <1>4, <2>1, <2>2 DEF InTurn, WorkTrue
<1> QED
  BY <1>1, <1>2, <1>4, <1>6, <1>7, SessionKeeps DEF OnFile

LEMMA BreaksKeeps ==
  ASSUME ForesightInv, NEW s \in Session, Breaks(s)
  PROVE  ForesightInv'
<1>1. OnFile
  BY DEF ForesightInv
<1>2. /\ work[s].at # "free" /\ work' = [work EXCEPT ![s] = Free]
      /\ UNCHANGED <<today, facts, release, stored, forecasts, crossed>>
  BY DEF Breaks
<1>3. /\ work'[s].at = "free" /\ DOMAIN work' = Session
      /\ \A t \in Session \ {s} : work'[t] = work[t]
  BY <1>1, <1>2 DEF OnFile, Free
<1>4. WorkShape(s)' /\ WorkTrue(s)'
  BY <1>3 DEF WorkShape, HasJourneys, WorkTrue
<1>5. ~crossed => \A t \in Session \ {s} : work[t].at = "free"
  BY <1>2 DEF ForesightInv, InTurn
<1> QED
  BY <1>1, <1>2, <1>3, <1>4, <1>5, SessionKeeps DEF OnFile

\* The journeys a session commits take the place of what was there.
LEMMA CommitBuildKeeps ==
  ASSUME ForesightInv, NEW s \in Session, CommitBuild(s)
  PROVE  ForesightInv'
<1>1. OnFile /\ WorkShape(s)
  BY DEF ForesightInv, OnFile
<1> DEFINE js == work[s].journeys
<1>2. /\ work[s].at = "built" /\ work' = [work EXCEPT ![s] = Free]
      /\ stored' = [c \in Customer |-> IF c \in DOMAIN js THEN js[c] ELSE stored[c]]
      /\ UNCHANGED <<today, facts, release, forecasts, crossed>>
  BY DEF CommitBuild
<1>3. /\ work'[s].at = "free" /\ DOMAIN work' = Session
      /\ \A t \in Session \ {s} : work'[t] = work[t]
  BY <1>1, <1>2 DEF OnFile, Free
<1>4. \A c \in DOMAIN js : c \in Customer /\ Backed(c, js[c])
  BY <1>1, <1>2 DEF WorkShape, HasJourneys
<1> HIDE DEF js
<1>5. FactsGrow
  BY <1>1, <1>2 DEF FactsGrow, OnFile
<1>6. \A t \in Session : WorkShape(t)'
  <2>1. WorkShape(s)'
    BY <1>3 DEF WorkShape, HasJourneys
  <2>2. \A t \in Session \ {s} : WorkShape(t)'
    BY <1>1, <1>3, <1>5, WorkStays
  <2> QED
    BY <2>1, <2>2
<1>7. \A c \in WithJourney' : c \in Customer /\ Backed(c, stored[c])'
  <2> TAKE c \in WithJourney'
  <2>1. c \in Customer /\ stored'[c] # NoJourney
    BY DEF WithJourney
  <2>2. PICK j : j = stored'[c]
    OBVIOUS
  <2>3. Backed(c, j)
    <3>1. CASE c \in DOMAIN js
      BY <1>2, <1>4, <2>1, <2>2, <3>1
    <3>2. CASE c \notin DOMAIN js
      <4>1. stored'[c] = stored[c] /\ c \in WithJourney
        BY <1>2, <2>1, <3>2 DEF WithJourney
      <4> QED
        BY <1>1, <2>2, <4>1 DEF OnFile
    <3> QED
      BY <3>1, <3>2
  <2>4. Backed(c, j)'
    BY <1>2, <2>3, SameFacts
  <2> QED
    BY <2>1, <2>2, <2>4 DEF Backed
<1>8. OnFile'
  <2>1. DOMAIN stored' = Customer
    BY <1>2
  <2> QED
    BY <1>1, <1>2, <1>3, <1>6, <1>7, <2>1 DEF OnFile
<1>9. ASSUME ~crossed' PROVE InTurn'
  <2>1. InTurn /\ WorkTrue(s)
    BY <1>2, <1>9 DEF ForesightInv, InTurn
  <2>2. \A t \in Session : work'[t].at = "free"
    BY <1>2, <1>3, <2>1 DEF InTurn
  <2>3. \A t \in Session : WorkTrue(t)'
    BY <2>2 DEF WorkTrue
  <2>4. \A c \in WithJourney' : ShowsNewest(c, stored[c])'
    <3> TAKE c \in WithJourney'
    <3>1. c \in Customer /\ stored'[c] # NoJourney
      BY DEF WithJourney
    <3>2. PICK j : j = stored'[c]
      OBVIOUS
    <3>3. ShowsNewest(c, j)
      <4>1. CASE c \in DOMAIN js
        BY <1>2, <2>1, <3>1, <3>2, <4>1 DEF WorkTrue, js
      <4>2. CASE c \notin DOMAIN js
        <5>1. stored'[c] = stored[c] /\ c \in WithJourney
          BY <1>2, <3>1, <4>2 DEF WithJourney
        <5> QED
          BY <2>1, <3>2, <5>1 DEF InTurn
      <4> QED
        BY <4>1, <4>2
    <3>4. ShowsNewest(c, j)'
      BY <1>2, <3>3, SameFacts
    <3> QED
      BY <3>2, <3>4 DEF ShowsNewest
  <2> QED
    BY <2>2, <2>3, <2>4 DEF InTurn
<1> QED
  BY <1>8, <1>9 DEF ForesightInv

\* The forecast run is stored with its dates and put into every journey it was made of.
LEMMA CommitForecastKeeps ==
  ASSUME ForesightInv, NEW s \in Session, CommitForecast(s)
  PROVE  ForesightInv'
<1>1. OnFile /\ WorkShape(s)
  BY DEF ForesightInv, OnFile
<1> DEFINE read == work[s].journeys
           run == Len(forecasts) + 1
           f == [c \in DOMAIN read |-> read[c].asOf]
<1>2. /\ work[s].at = "flushed" /\ work' = [work EXCEPT ![s] = Free]
      /\ forecasts' = Append(forecasts, f)
      /\ stored' = [c \in Customer |-> IF c \in DOMAIN read THEN Embedded(read[c], run) ELSE stored[c]]
      /\ UNCHANGED <<today, facts, release, crossed>>
  BY DEF CommitForecast
<1>3. /\ work'[s].at = "free" /\ DOMAIN work' = Session
      /\ \A t \in Session \ {s} : work'[t] = work[t]
  BY <1>1, <1>2 DEF OnFile, Free
<1>4. DOMAIN read \subseteq Customer /\ \A c \in DOMAIN read : Backed(c, read[c])
  BY <1>1, <1>2 DEF WorkShape, HasJourneys
<1>5. \A c \in DOMAIN read : read[c] \in StoredJourney /\ read[c].asOf \in Nat
  BY <1>4 DEF Backed, StoredJourney
<1>6. f \in ForecastRun /\ DOMAIN f = DOMAIN read /\ \A c \in DOMAIN read : f[c] = read[c].asOf
  <2> HIDE DEF read
  <2>1. f \in [DOMAIN read -> Nat]
    BY <1>5
  <2> QED
    BY <1>4, <2>1 DEF ForecastRun
<1> HIDE DEF read, f
<1>7. /\ forecasts' \in Seq(ForecastRun) /\ DOMAIN forecasts' = 1..run /\ run \in Nat \ {0}
      /\ DOMAIN forecasts = 1..(run - 1)
      /\ forecasts'[run] = f /\ \A i \in 1..(run - 1) : forecasts'[i] = forecasts[i]
      /\ \A c \in Customer :
           /\ c \in DOMAIN f => run \in RunsOn(c)' /\ LatestBlock(c)'.run = run
           /\ c \notin DOMAIN f => LatestBlock(c)'.run = LatestBlock(c).run
  BY <1>1, <1>2, <1>6, RunAdded
<1> HIDE DEF run
<1>8. FactsGrow
  BY <1>1, <1>2, <1>6 DEF FactsGrow, OnFile
<1>9. \A c \in DOMAIN read : LET e == Embedded(read[c], run) IN
        /\ e \in StoredJourney /\ e # NoJourney /\ Flagged(e)
        /\ e.forecast.run = run /\ e.forecast.asOf = read[c].asOf
  BY <1>5, <1>7, EmbeddedIs
<1>10. \A t \in Session : WorkShape(t)'
  <2>1. WorkShape(s)'
    BY <1>3 DEF WorkShape, HasJourneys
  <2>2. \A t \in Session \ {s} : WorkShape(t)'
    BY <1>1, <1>3, <1>8, WorkStays
  <2> QED
    BY <2>1, <2>2
<1>11. \A c \in WithJourney' : c \in Customer /\ Backed(c, stored[c])'
  <2> TAKE c \in WithJourney'
  <2>1. c \in Customer /\ stored'[c] # NoJourney
    BY DEF WithJourney
  <2>2. PICK j : j = stored'[c]
    OBVIOUS
  <2>3. CASE c \in DOMAIN read
    <3>1. /\ j \in StoredJourney /\ Flagged(j)
          /\ j.forecast.run = run /\ j.forecast.asOf = read[c].asOf
      BY <1>2, <1>9, <2>1, <2>2, <2>3
    <3>2. run \in RunsOn(c)' /\ forecasts'[run][c] = read[c].asOf
      BY <1>6, <1>7, <2>1, <2>3
    <3>3. Backed(c, j)'
      BY <3>1, <3>2 DEF Backed
    <3> QED
      BY <2>1, <2>2, <3>3 DEF Backed
  <2>4. CASE c \notin DOMAIN read
    <3>1. stored'[c] = stored[c] /\ c \in WithJourney
      BY <1>2, <2>1, <2>4 DEF WithJourney
    <3>2. Backed(c, j)'
      BY <1>1, <1>8, <2>1, <2>2, <3>1, StaysBacked DEF OnFile
    <3> QED
      BY <2>1, <2>2, <3>2 DEF Backed
  <2> QED
    BY <2>3, <2>4
<1>12. OnFile'
  <2>1. DOMAIN stored' = Customer
    BY <1>2
  <2> QED
    BY <1>1, <1>2, <1>3, <1>7, <1>10, <1>11, <2>1 DEF OnFile
<1>13. ASSUME ~crossed' PROVE InTurn'
  <2>1. InTurn /\ WorkTrue(s)
    BY <1>2, <1>13 DEF ForesightInv, InTurn
  <2>2. \A t \in Session : work'[t].at = "free"
    BY <1>2, <1>3, <2>1 DEF InTurn
  <2>3. \A t \in Session : WorkTrue(t)'
    BY <2>2 DEF WorkTrue
  <2>4. DOMAIN read = WithJourney
    BY <1>2, <2>1 DEF WorkTrue, read
  <2>5. \A c \in WithJourney' : ShowsNewest(c, stored[c])'
    <3> TAKE c \in WithJourney'
    <3>1. c \in Customer /\ stored'[c] # NoJourney
      BY DEF WithJourney
    <3>2. c \in DOMAIN read
      BY <1>2, <2>4, <3>1 DEF WithJourney
    <3>3. PICK j : j = stored'[c]
      OBVIOUS
    <3>4. j.forecast.run = run
      BY <1>2, <1>9, <3>1, <3>2, <3>3
    <3>5. LatestBlock(c)'.run = run
      BY <1>6, <1>7, <3>1, <3>2
    <3>6. ShowsNewest(c, j)'
      BY <3>4, <3>5 DEF ShowsNewest
    <3> QED
      BY <3>3, <3>6 DEF ShowsNewest
  <2> QED
    BY <2>2, <2>3, <2>5 DEF InTurn
<1> QED
  BY <1>12, <1>13 DEF ForesightInv

LEMMA ForesightInvNext == ForesightInv /\ [ForesightNext]_fvars => ForesightInv'
<1> SUFFICES ASSUME ForesightInv, [ForesightNext]_fvars PROVE ForesightInv'
  OBVIOUS
<1>1. CASE Tick \/ \E c \in Customer, d \in 1..MaxDate : Hear(c, d) \/ ScoreMonth(c, d) \/ Reject(c, d)
  BY <1>1, LearnKeeps
<1>2. ASSUME NEW s \in Session, NEW wanted \in {Customer, Outdated} \cup {{c} : c \in Customer},
             BeginBuild(s, wanted)
      PROVE  ForesightInv'
  <2>1. wanted \in SUBSET Customer
    BY DEF Outdated, WithJourney
  <2> QED
    BY <1>2, <2>1, BeginBuildKeeps
<1>3. ASSUME NEW s \in Session,
             CommitBuild(s) \/ BeginForecast(s) \/ FlushForecast(s) \/ CommitForecast(s) \/ Breaks(s)
      PROVE  ForesightInv'
  BY <1>3, CommitBuildKeeps, BeginForecastKeeps, FlushForecastKeeps, CommitForecastKeeps, BreaksKeeps
<1>4. CASE UNCHANGED fvars
  <2>1. FactsGrow
    BY <1>4 DEF ForesightInv, OnFile, FactsGrow, fvars
  <2> QED
    BY <1>4, <2>1, WorldKeeps DEF ForesightInv, OnFile, fvars
<1> QED
  BY <1>1, <1>2, <1>3, <1>4, ReleaseKeeps DEF ForesightNext

LEMMA ForesightInvHolds == ForesightSpec => []ForesightInv
  BY ForesightInv1, ForesightInvNext, PTL DEF ForesightSpec

\* Wherever 'now' moves, every journey shows a forecast that is on record with its date and
\* flagged stale when the journey is later; and as long as wizards do not overlap it is the
\* newest of its account (wizard_d_foresight.py:23-26, 570-607).
THEOREM ForesightShownHolds == ForesightSpec => []ForesightShown
<1>1. ForesightInv => ForesightShown
  <2> SUFFICES ASSUME ForesightInv, NEW c \in WithJourney PROVE
        LET block == stored[c].forecast IN
        /\ block.run # 0 => block.run \in RunsOn(c) /\ block.asOf = forecasts[block.run][c]
        /\ block # NotRun /\ ~block.stale => stored[c].asOf <= block.asOf /\ stored[c].last <= block.asOf
        /\ ~crossed => block.run = LatestBlock(c).run
    BY DEF ForesightShown
  <2>1. Backed(c, stored[c]) /\ (~crossed => ShowsNewest(c, stored[c]))
    BY DEF ForesightInv, OnFile, InTurn
  <2> QED
    BY <2>1 DEF Backed, Flagged, ShowsNewest
<1> QED
  BY <1>1, ForesightInvHolds, PTL

-----------------------------------------------------------------------------
(***************************************************************************)
(* The beginning and the end of a tenant                                   *)
(***************************************************************************)
Done(k) == {Steps[i] : i \in 1..k}
Emptied(k) == {Deletions[i] : i \in 1..k}
CopyFields == {"id", "required", "nullable", "inside", "verbatim", "holds"}

\* The step after which nothing in the JSON of a table's copies is left as it was.
SettledBy(table) ==
  CASE table = "process_runs" -> "+process_runs" [] table = "context_nodes" -> "+context_nodes"
    [] table = "context_edges" -> "+context_edges" [] OTHER -> table

\* A source that stood still is what it was, or is gone.
Still == source \in {SourceRows, {}}

\* The copies clone by the first k steps: one for each row of their tables, with every column
\* carried over and, once the table is settled, every id inside JSON.
CopiedUpTo(k) ==
  /\ IdsOf(copies) = {r.id : r \in {q \in source : TableOf(q.id) \in Done(k)}}
  /\ \A c, d \in copies : c.id = d.id => c = d
  /\ \A c \in copies, r \in source : c.id = r.id =>
       /\ c.required = r.required /\ c.nullable = r.nullable /\ c.verbatim = r.verbatim
       /\ c.inside.left \subseteq r.inside /\ c.inside.replaced = r.inside \ c.inside.left
       /\ SettledBy(TableOf(r.id)) \in Done(k) => c.inside.left = {}

\* What a deletion has left after k steps: the rows of the tables it has not come to.
DeletedUpTo(k) ==
  /\ deleted = {r \in source : TableOf(r.id) \in Emptied(k)}
  /\ accounts = IdsOf(RowsIn(source, "accounts"))

\* While nobody disturbs the call.
LeftAlone ==
  /\ Still /\ job # "failed"
  /\ job = "cloning" => CopiedUpTo(step)
  /\ "copy" \in tenant => job = "done" /\ CopiedUpTo(20)
  /\ job = "deleting" => DeletedUpTo(step)
  /\ job \in {"idle", "creating"} => copies = {} /\ deleted = {}

LifeInv ==
  /\ step \in Nat /\ disturbed \in BOOLEAN
  /\ job \in {"idle", "creating", "cloning", "deleting", "done", "failed", "refused"}
  /\ job = "cloning" => step < 20 /\ tenant = {"shell"}
  /\ job = "creating" => tenant = {"shell"}
  /\ job = "deleting" => step < 22 /\ tenant = {}
  /\ job = "idle" => tenant = {} /\ step = 0 /\ copies = {} /\ deleted = {}
  /\ job = "done" /\ tenant = {} => source = {}
  /\ job \in {"failed", "refused"} => copies = {} /\ deleted = {} /\ "copy" \notin tenant
  /\ ColumnsStay /\ \A c \in copies : DOMAIN c = CopyFields
  /\ ~disturbed => LeftAlone

\* The order of the work and of the deletion, one step at a time.
LEMMA StepsAre ==
  /\ Len(Steps) = 20 /\ DOMAIN Steps = 1..20
  /\ Steps[1] = "feature_toggles" /\ Steps[2] = "accounts" /\ Steps[3] = "context_nodes"
  /\ Steps[4] = "context_edges" /\ Steps[5] = "process_runs" /\ Steps[6] = "csv_uploads"
  /\ Steps[7] = "+process_runs" /\ Steps[8] = "health_scores"
  /\ Steps[9] = "csv_upload_staging" /\ Steps[10] = "interventions"
  /\ Steps[11] = "+context_nodes" /\ Steps[12] = "+context_edges"
  /\ Steps[13] = "forecast_runs" /\ Steps[14] = "account_forecasts"
  /\ Steps[15] = "weight_calibrations" /\ Steps[16] = "kpi_measurements"
  /\ Steps[17] = "qualitative_signals" /\ Steps[18] = "signal_reviews"
  /\ Steps[19] = "wizard_runs" /\ Steps[20] = "journey_data"
  BY DEF Steps

LEMMA DeletionsAre ==
  /\ Len(Deletions) = 22 /\ DOMAIN Deletions = 1..22
  /\ Deletions[1] = "interventions" /\ Deletions[2] = "account_forecasts"
  /\ Deletions[3] = "forecast_runs" /\ Deletions[4] = "weight_calibrations"
  /\ Deletions[5] = "context_edges" /\ Deletions[6] = "context_nodes"
  /\ Deletions[7] = "journey_data" /\ Deletions[8] = "signal_reviews"
  /\ Deletions[9] = "qualitative_signals" /\ Deletions[10] = "health_scores"
  /\ Deletions[11] = "kpi_measurements" /\ Deletions[12] = "wizard_runs"
  /\ Deletions[13] = "process_runs" /\ Deletions[14] = "csv_upload_staging"
  /\ Deletions[15] = "csv_uploads" /\ Deletions[16] = "llm_usage_log"
  /\ Deletions[17] = "feature_toggles" /\ Deletions[18] = "customer_api_keys"
  /\ Deletions[19] = "accounts" /\ Deletions[20] = "users"
  /\ Deletions[21] = "customer_configs" /\ Deletions[22] = "customers"
  BY DEF Deletions

LEMMA DoneGrows ==
  ASSUME NEW k \in Nat
  PROVE  /\ Done(k + 1) = Done(k) \cup {Steps[k + 1]}
         /\ Emptied(k + 1) = Emptied(k) \cup {Deletions[k + 1]}
<1>1. 1..(k + 1) = (1..k) \cup {k + 1}
  OBVIOUS
<1> QED
  BY <1>1 DEF Done, Emptied

\* Every step finds in the map what it looks up: the order of the tables is right.
StepFinds(k) ==
  LET s == Steps[k + 1] IN
  /\ s \notin DOMAIN Again =>
       /\ s \notin Done(k) /\ RequiredOf(s) \subseteq Done(k)
       /\ NullableOf(s) \subseteq Done(k) \cup (OwnFirst \cap {s})
       /\ SettledBy(s) = s => InsideOf(s) \subseteq Done(k)
       /\ SettledBy(s) # s => SettledBy(s) \notin Done(k + 1)
  /\ s \in DOMAIN Again => InsideOf(Again[s]) \subseteq Done(k)

LEMMA StepsFind ==
  ASSUME NEW k \in 0..19
  PROVE  StepFinds(k)
<1> USE StepsAre DEF StepFinds, Done, Again, RequiredOf, NullableOf, InsideOf, OfAccount, OwnFirst, SettledBy
<1>1. CASE k = 0
  BY <1>1
<1>2. CASE k = 1
  BY <1>2
<1>3. CASE k = 2
  BY <1>3
<1>4. CASE k = 3
  <2> DEFINE t == Steps[4]
  <2>1. t \notin DOMAIN Again /\ t \notin Done(3) /\ t \in OwnFirst
    OBVIOUS
  <2>2. RequiredOf(t) \subseteq Done(3)
    OBVIOUS
  <2>3. NullableOf(t) = {t}
    BY <2>1
  <2>4. SettledBy(t) = t => InsideOf(t) \subseteq Done(3)
    OBVIOUS
  <2>5. SettledBy(t) # t => SettledBy(t) \notin Done(4)
    OBVIOUS
  <2> HIDE StepsAre DEF Done, Again, RequiredOf, NullableOf, InsideOf, OfAccount, OwnFirst, SettledBy, t
  <2> QED
    BY <1>4, <2>1, <2>2, <2>3, <2>4, <2>5 DEF StepFinds, t
<1>5. CASE k = 4
  BY <1>5
<1>6. CASE k = 5
  BY <1>6
<1>7. CASE k = 6
  BY <1>7
<1>8. CASE k = 7
  BY <1>8
<1>9. CASE k = 8
  BY <1>9
<1>10. CASE k = 9
  BY <1>10
<1>11. CASE k = 10
  BY <1>11
<1>12. CASE k = 11
  BY <1>12
<1>13. CASE k = 12
  BY <1>13
<1>14. CASE k = 13
  BY <1>14
<1>15. CASE k = 14
  <2> DEFINE t == Steps[15]
  <2>1. t \notin DOMAIN Again /\ t \notin Done(14) /\ t \in OwnFirst
    OBVIOUS
  <2>2. RequiredOf(t) \subseteq Done(14)
    OBVIOUS
  <2>3. NullableOf(t) = {t}
    BY <2>1
  <2>4. SettledBy(t) = t => InsideOf(t) \subseteq Done(14)
    OBVIOUS
  <2>5. SettledBy(t) # t => SettledBy(t) \notin Done(15)
    OBVIOUS
  <2> HIDE StepsAre DEF Done, Again, RequiredOf, NullableOf, InsideOf, OfAccount, OwnFirst, SettledBy, t
  <2> QED
    BY <1>15, <2>1, <2>2, <2>3, <2>4, <2>5 DEF StepFinds, t
<1>16. CASE k = 15
  BY <1>16
<1>17. CASE k = 16
  BY <1>17
<1>18. CASE k = 17
  BY <1>18
<1>19. CASE k = 18
  BY <1>19
<1>20. CASE k = 19
  BY <1>20
<1> HIDE StepsAre DEF StepFinds, Done, Again, RequiredOf, NullableOf, InsideOf, OfAccount, OwnFirst, SettledBy
<1> QED
  BY <1>1, <1>2, <1>3, <1>4, <1>5, <1>6, <1>7, <1>8, <1>9, <1>10,
     <1>11, <1>12, <1>13, <1>14, <1>15, <1>16, <1>17, <1>18, <1>19, <1>20

\* A table is emptied after the tables whose rows must point at it, and after the ones that
\* would fall with it.
LEMMA DeletionsFind ==
  ASSUME NEW k \in 0..21
  PROVE  /\ \A t : Deletions[k + 1] \in RequiredOf(t) => t \in Emptied(k)
         /\ Deletions[k + 1] = "context_nodes" => "context_edges" \in Emptied(k)
         /\ Deletions[k + 1] = "forecast_runs" => "account_forecasts" \in Emptied(k)
         /\ Deletions[k + 1] = "customers" <=> k = 21
<1>1. /\ Deletions[k + 1] = "accounts" => k = 18
      /\ Deletions[k + 1] = "context_nodes" => k = 5
      /\ Deletions[k + 1] = "forecast_runs" => k = 2
      /\ Deletions[k + 1] = "customers" <=> k = 21
  BY DeletionsAre
<1>2. OfAccount \subseteq Emptied(18) /\ "context_edges" \in Emptied(5) /\ "account_forecasts" \in Emptied(2)
  BY DeletionsAre DEF OfAccount, Emptied
<1>3. \A t : /\ Deletions[k + 1] \in RequiredOf(t) /\ t \in OfAccount => Deletions[k + 1] = "accounts"
             /\ Deletions[k + 1] \in RequiredOf(t) /\ t \notin OfAccount =>
                  t = "context_edges" /\ Deletions[k + 1] = "context_nodes"
  <2> TAKE t
  <2>1. CASE t \in OfAccount
    <3>1. t # "context_edges"
      BY <2>1 DEF OfAccount
    <3>2. RequiredOf(t) = {"accounts"}
      BY <2>1, <3>1 DEF RequiredOf
    <3> QED
      BY <2>1, <3>2
  <2>2. CASE t = "context_edges"
    <3>1. t \notin OfAccount
      BY <2>2 DEF OfAccount
    <3>2. RequiredOf(t) = {"context_nodes"}
      BY <2>2, <3>1 DEF RequiredOf
    <3> QED
      BY <2>2, <3>1, <3>2
  <2>3. CASE t \notin OfAccount /\ t # "context_edges"
    BY <2>3 DEF RequiredOf
  <2> QED
    BY <2>1, <2>2, <2>3
<1> QED
  BY <1>1, <1>2, <1>3

\* Rows are of tables that a deletion empties; a second pass has no rows of its own.
LEMMA TablesAreReal ==
  ASSUME Still, NEW r \in source
  PROVE  /\ source = SourceRows /\ TableOf(r.id) \notin DOMAIN Again
         /\ TableOf(r.id) \in Emptied(22) /\ TableOf(r.id) # "none"
<1>1. source = SourceRows
  BY DEF Still
<1>2. PICK i \in 1..22 : Deletions[i] = TableOf(r.id)
  BY <1>1, SchemaAssumption, DeletionsAre
<1>3. Deletions[i] \notin {"+process_runs", "+context_nodes", "+context_edges", "none"}
  BY DeletionsAre
<1> QED
  BY <1>1, <1>2, <1>3 DEF Again, Emptied

\* What a row of a quiet source points at is a row of it, of a table its columns are for.
LEMMA PointsWithin ==
  ASSUME Still, NEW r \in source
  PROVE  /\ \A x \in r.required \cup r.nullable \cup r.inside : \E q \in source : q.id = x
         /\ \A x \in r.required : TableOf(x) \in RequiredOf(TableOf(r.id))
         /\ \A x \in r.nullable : TableOf(x) \in NullableOf(TableOf(r.id))
         /\ \A x \in r.inside : TableOf(x) \in InsideOf(TableOf(r.id))
         /\ \A q \in source : q.id = r.id => q = r
  BY SchemaAssumption DEF Still

LEMMA NothingDone == Done(0) = {} /\ Emptied(0) = {}
  BY DEF Done, Emptied

LEMMA LifeInit1 == LifeInit => LifeInv
<1> SUFFICES ASSUME LifeInit PROVE LifeInv
  OBVIOUS
<1>1. /\ source \in {SourceRows, {}} /\ tenant = {} /\ job = "idle" /\ step = 0
      /\ copies = {} /\ deleted = {} /\ disturbed = FALSE
  BY DEF LifeInit
<1>2. LeftAlone
  BY <1>1 DEF LeftAlone, Still
<1>3. ColumnsStay
  BY <1>1 DEF ColumnsStay
<1> QED
  BY <1>1, <1>2, <1>3 DEF LifeInv

LEMMA BeginKeeps ==
  ASSUME LifeInv, NEW kind \in {"creating", "cloning"}, Begin(kind)
  PROVE  LifeInv'
<1>1. /\ job \in {"idle", "failed"} /\ step' = 0
      /\ UNCHANGED <<source, copies, deleted, accounts, disturbed>>
      /\ \/ tenant = {} /\ tenant' = {"shell"} /\ job' = kind
         \/ tenant # {} /\ tenant' = tenant /\ job' = "refused"
  BY DEF Begin
<1>2. copies = {} /\ deleted = {} /\ "copy" \notin tenant
  BY <1>1 DEF LifeInv
<1>3. ~disturbed => LeftAlone'
  <2> SUFFICES ASSUME ~disturbed PROVE LeftAlone'
    OBVIOUS
  <2>1. Still' /\ job' # "failed" /\ job' # "deleting" /\ "copy" \notin tenant'
    BY <1>1, <1>2 DEF LifeInv, LeftAlone, Still
  <2>2. CopiedUpTo(0)'
    BY <1>1, <1>2, NothingDone DEF CopiedUpTo, IdsOf
  <2> QED
    BY <1>1, <1>2, <2>1, <2>2 DEF LeftAlone
<1>4. ColumnsStay'
  BY <1>1, <1>2 DEF ColumnsStay
<1> QED
  BY <1>1, <1>2, <1>3, <1>4 DEF LifeInv

LEMMA AddTogglesKeeps ==
  ASSUME LifeInv, AddToggles
  PROVE  LifeInv'
<1>1. /\ job = "creating" /\ tenant' = tenant \cup {"toggles"} /\ job' = "done"
      /\ UNCHANGED <<source, step, copies, deleted, accounts, disturbed>>
  BY DEF AddToggles
<1>2. tenant = {"shell"}
  BY <1>1 DEF LifeInv
<1>3. ~disturbed => LeftAlone'
  BY <1>1, <1>2 DEF LifeInv, LeftAlone, Still
<1>4. ColumnsStay'
  BY <1>1 DEF LifeInv, ColumnsStay
<1> QED
  BY <1>1, <1>2, <1>3, <1>4 DEF LifeInv

LEMMA CutOffKeeps ==
  ASSUME LifeInv, CutOff
  PROVE  LifeInv'
<1>1. /\ job \in {"creating", "cloning", "deleting"} /\ job' = "failed" /\ copies' = {} /\ deleted' = {}
      /\ step' = 0 /\ disturbed' = TRUE /\ UNCHANGED <<source, tenant, accounts>>
  BY DEF CutOff, Fail
<1>2. "copy" \notin tenant
  BY <1>1 DEF LifeInv
<1>3. ColumnsStay'
  BY <1>1 DEF ColumnsStay
<1> QED
  BY <1>1, <1>2, <1>3 DEF LifeInv

LEMMA SourceChangesKeeps ==
  ASSUME LifeInv, NEW r \in LaterRows, SourceChanges(r)
  PROVE  LifeInv'
<1>1. /\ job \in {"cloning", "deleting"} /\ disturbed' = TRUE
      /\ UNCHANGED <<tenant, job, step, copies, deleted, accounts>>
  BY DEF SourceChanges
<1>2. ColumnsStay'
  BY <1>1 DEF LifeInv, ColumnsStay
<1> QED
  BY <1>1, <1>2 DEF LifeInv

LEMMA BeginDeleteKeeps ==
  ASSUME LifeInv, BeginDelete
  PROVE  LifeInv'
<1>1. /\ job = "idle" /\ job' = "deleting" /\ accounts' = IdsOf(RowsIn(source, "accounts"))
      /\ UNCHANGED <<source, tenant, step, copies, deleted, disturbed>>
  BY DEF BeginDelete
<1>2. tenant = {} /\ step = 0 /\ copies = {} /\ deleted = {}
  BY <1>1 DEF LifeInv
<1>3. ~disturbed => LeftAlone'
  <2> SUFFICES ASSUME ~disturbed PROVE LeftAlone'
    OBVIOUS
  <2>1. DeletedUpTo(0)'
    BY <1>1, <1>2, NothingDone DEF DeletedUpTo, IdsOf, RowsIn
  <2>2. Still'
    BY <1>1 DEF LifeInv, LeftAlone, Still
  <2> QED
    BY <1>1, <1>2, <2>1, <2>2 DEF LeftAlone
<1>4. ColumnsStay'
  BY <1>1, <1>2 DEF ColumnsStay
<1> QED
  BY <1>1, <1>2, <1>3, <1>4 DEF LifeInv


\* A step names the one table it settles.
LEMMA SettlesOne ==
  ASSUME NEW t, NEW s, t \notin DOMAIN Again, SettledBy(t) = s
  PROVE  /\ s \notin DOMAIN Again => t = s
         /\ s \in DOMAIN Again => t = Again[s]
  BY DEF SettledBy, Again

\* What the copy of a row is made of, and what the second pass makes of it.
LEMMA CopyIs ==
  ASSUME NEW r, NEW mapped
  PROVE  LET c == CopyOf(r, mapped) IN
         /\ DOMAIN c = CopyFields /\ c.id = r.id /\ c.required = r.required /\ c.verbatim = r.verbatim
         /\ c.nullable = r.nullable \cap mapped /\ c.holds = r.holds \ Credential
         /\ c.inside.replaced = r.inside \cap mapped /\ c.inside.left = r.inside \ mapped
  BY DEF CopyOf, CopyFields

LEMMA ReplaceIs ==
  ASSUME NEW c, DOMAIN c = CopyFields
  PROVE  LET n == Replace(c) IN
         /\ DOMAIN n = CopyFields /\ n.id = c.id /\ n.required = c.required /\ n.verbatim = c.verbatim
         /\ n.nullable = c.nullable /\ n.holds = c.holds
         /\ n.inside.replaced = c.inside.replaced \cup (c.inside.left \cap IdsOf(copies))
         /\ n.inside.left = c.inside.left \ IdsOf(copies)
  BY DEF Replace, CopyFields

\* Copying a table that nobody disturbs finds every row it looks up.
LEMMA RowsFound ==
  ASSUME Still, NEW k \in 0..19, CopiedUpTo(k), Steps[k + 1] \notin DOMAIN Again,
         NEW r \in RowsIn(source, Steps[k + 1])
  PROVE  LET mapped == Known(Steps[k + 1]) IN
         /\ r.required \subseteq IdsOf(copies) /\ r.required \subseteq mapped
         /\ r.nullable \subseteq mapped
         /\ SettledBy(Steps[k + 1]) = Steps[k + 1] => r.inside \subseteq mapped
<1> DEFINE s == Steps[k + 1]
<1>1. r \in source /\ TableOf(r.id) = s
  BY DEF RowsIn
<1>2. \A x \in r.required \cup r.nullable \cup r.inside : TableOf(x) \in Done(k) => x \in IdsOf(copies)
  <2> SUFFICES ASSUME NEW x \in r.required \cup r.nullable \cup r.inside, TableOf(x) \in Done(k)
               PROVE  x \in IdsOf(copies)
    OBVIOUS
  <2>1. PICK q \in source : q.id = x
    BY <1>1, PointsWithin
  <2> QED
    BY <2>1 DEF CopiedUpTo
<1>3. IdsOf(copies) \subseteq Known(s)
  BY DEF Known
<1>4. StepFinds(k)
  BY StepsFind
<1>5. /\ RequiredOf(s) \subseteq Done(k) /\ NullableOf(s) \subseteq Done(k) \cup (OwnFirst \cap {s})
      /\ SettledBy(s) = s => InsideOf(s) \subseteq Done(k)
  BY <1>4 DEF StepFinds
<1>6. \A x \in r.nullable : x \in Known(s)
  <2> SUFFICES ASSUME NEW x \in r.nullable PROVE x \in Known(s)
    OBVIOUS
  <2>1. TableOf(x) \in NullableOf(s)
    BY <1>1, PointsWithin
  <2>2. CASE TableOf(x) \in Done(k)
    BY <2>2, <1>2, <1>3
  <2>3. CASE s \in OwnFirst /\ TableOf(x) = s
    <3>1. PICK q \in source : q.id = x
      BY <1>1, PointsWithin
    <3>2. x \in IdsOf(RowsIn(source, s))
      BY <2>3, <3>1 DEF IdsOf, RowsIn
    <3> QED
      BY <2>3, <3>2 DEF Known
  <2> QED
    BY <2>1, <2>2, <2>3, <1>5
<1>7. \A x \in r.required : TableOf(x) \in RequiredOf(s)
  BY <1>1, PointsWithin
<1>8. \A x \in r.inside : TableOf(x) \in InsideOf(s)
  BY <1>1, PointsWithin
<1> QED
  BY <1>2, <1>3, <1>5, <1>6, <1>7, <1>8

LEMMA CopyTableCopies ==
  ASSUME Still, NEW k \in 0..19, CopiedUpTo(k), Steps[k + 1] \notin DOMAIN Again,
         source' = source,
         copies' = copies \cup
           {CopyOf(r, Known(Steps[k + 1])) : r \in RowsIn(source, Steps[k + 1])}
  PROVE  CopiedUpTo(k + 1)'
<1> DEFINE s == Steps[k + 1]
           K == Known(s)
<1>1. s \notin Done(k) /\ (SettledBy(s) # s => SettledBy(s) \notin Done(k + 1))
  BY StepsFind DEF StepFinds
<1>2. Done(k + 1) = Done(k) \cup {s}
  <2>1. k \in Nat
    OBVIOUS
  <2> HIDE DEF s, K
  <2>2. Done(k + 1) = Done(k) \cup {Steps[k + 1]}
    BY <2>1, DoneGrows
  <2> QED
    BY <2>2 DEF s
<1>3. ASSUME NEW c \in copies'
      PROVE  \/ c \in copies /\ TableOf(c.id) \in Done(k)
             \/ c \notin copies /\ \E r \in source : c = CopyOf(r, K) /\ TableOf(r.id) = s
                  /\ r \in RowsIn(source, s)
  <2>1. CASE c \in copies
    BY <2>1 DEF CopiedUpTo, IdsOf
  <2>2. CASE c \notin copies
    BY <2>2 DEF RowsIn
  <2> QED
    BY <2>1, <2>2
<1>4. IdsOf(copies)' = {r.id : r \in {q \in source : TableOf(q.id) \in Done(k + 1)}}
  <2>1. ASSUME NEW x \in IdsOf(copies)'
        PROVE  \E q \in source : q.id = x /\ TableOf(q.id) \in Done(k + 1)
    <3>1. PICK c \in copies' : c.id = x
      BY DEF IdsOf
    <3>2. CASE c \in copies
      BY <3>1, <3>2, <1>2 DEF CopiedUpTo, IdsOf
    <3>3. CASE c \notin copies
      BY <3>1, <3>3, <1>2, <1>3, CopyIs
    <3> QED
      BY <3>2, <3>3
  <2>2. ASSUME NEW q \in source, TableOf(q.id) \in Done(k + 1)
        PROVE  q.id \in IdsOf(copies)'
    <3>1. CASE TableOf(q.id) \in Done(k)
      <4>1. q.id \in IdsOf(copies)
        BY <3>1 DEF CopiedUpTo
      <4> QED
        BY <4>1 DEF IdsOf
    <3>2. CASE TableOf(q.id) = s
      <4>1. CopyOf(q, K) \in copies'
        BY <3>2 DEF RowsIn
      <4> QED
        BY <4>1, CopyIs DEF IdsOf
    <3> QED
      BY <2>2, <3>1, <3>2, <1>2
  <2> QED
    BY <2>1, <2>2
<1>5. ASSUME NEW c \in copies', NEW d \in copies', c.id = d.id
      PROVE  c = d
  <2>1. CASE c \in copies /\ d \in copies
    BY <2>1, <1>5 DEF CopiedUpTo
  <2>2. CASE c \notin copies /\ d \notin copies
    <3>1. PICK r \in source : c = CopyOf(r, K)
      BY <2>2, <1>3
    <3>2. PICK q \in source : d = CopyOf(q, K)
      BY <2>2, <1>3
    <3>3. r.id = q.id
      BY <1>5, <3>1, <3>2, CopyIs
    <3>4. r = q
      BY <3>3, PointsWithin
    <3> QED
      BY <3>1, <3>2, <3>4
  <2>3. CASE c \in copies /\ d \notin copies
    BY <2>3, <1>1, <1>3, <1>5, CopyIs
  <2>4. CASE c \notin copies /\ d \in copies
    BY <2>4, <1>1, <1>3, <1>5, CopyIs
  <2> QED
    BY <2>1, <2>2, <2>3, <2>4
<1>6. ASSUME NEW c \in copies', NEW r \in source, c.id = r.id
      PROVE  /\ c.required = r.required /\ c.nullable = r.nullable /\ c.verbatim = r.verbatim
             /\ c.inside.left \subseteq r.inside /\ c.inside.replaced = r.inside \ c.inside.left
             /\ SettledBy(TableOf(r.id)) \in Done(k + 1) => c.inside.left = {}
  <2>1. CASE c \in copies
    <3>1. /\ c.required = r.required /\ c.nullable = r.nullable /\ c.verbatim = r.verbatim
          /\ c.inside.left \subseteq r.inside /\ c.inside.replaced = r.inside \ c.inside.left
          /\ SettledBy(TableOf(r.id)) \in Done(k) => c.inside.left = {}
      BY <2>1, <1>6 DEF CopiedUpTo
    <3>2. SettledBy(TableOf(r.id)) # s
      <4>1. TableOf(r.id) \in Done(k)
        BY <2>1, <1>3, <1>6
      <4>2. TableOf(r.id) \notin DOMAIN Again
        BY TablesAreReal
      <4> QED
        BY <4>1, <4>2, <1>1, SettlesOne
    <3> QED
      BY <3>1, <3>2, <1>2
  <2>2. CASE c \notin copies
    <3>1. PICK q \in source : c = CopyOf(q, K) /\ TableOf(q.id) = s /\ q \in RowsIn(source, s)
      BY <2>2, <1>3
    <3>2. q = r
      <4>1. c.id = q.id
        BY <3>1, CopyIs
      <4> QED
        BY <4>1, <1>6, PointsWithin
    <3>3. r.nullable \subseteq K /\ (SettledBy(s) = s => r.inside \subseteq K)
      BY <3>1, <3>2, RowsFound
    <3>4. /\ c.required = r.required /\ c.nullable = r.nullable \cap K /\ c.verbatim = r.verbatim
          /\ c.inside.replaced = r.inside \cap K /\ c.inside.left = r.inside \ K
      BY <3>1, <3>2, CopyIs
    <3>5. SettledBy(s) \in Done(k + 1) => SettledBy(s) = s
      BY <1>1
    <3> HIDE DEF s, K
    <3> QED
      BY <3>1, <3>2, <3>3, <3>4, <3>5
  <2> QED
    BY <2>1, <2>2
<1> HIDE DEF s, K
<1> QED
  BY <1>4, <1>5, <1>6 DEF CopiedUpTo, IdsOf

LEMMA CopyAgainCopies ==
  ASSUME Still, NEW k \in 0..19, CopiedUpTo(k), Steps[k + 1] \in DOMAIN Again,
         \A c \in copies : DOMAIN c = CopyFields, source' = source,
         copies' = {IF TableOf(c.id) = Again[Steps[k + 1]] THEN Replace(c) ELSE c : c \in copies}
  PROVE  CopiedUpTo(k + 1)'
<1> DEFINE s == Steps[k + 1]
           New(c) == IF TableOf(c.id) = Again[s] THEN Replace(c) ELSE c
<1>1. InsideOf(Again[s]) \subseteq Done(k)
  BY StepsFind DEF StepFinds
<1>2. Done(k + 1) = Done(k) \cup {s}
  <2>1. k \in Nat
    OBVIOUS
  <2> HIDE DEF s
  <2>2. Done(k + 1) = Done(k) \cup {Steps[k + 1]}
    BY <2>1, DoneGrows
  <2> QED
    BY <2>2 DEF s
<1>3. ASSUME NEW c \in copies
      PROVE  /\ New(c).id = c.id /\ New(c).required = c.required /\ New(c).nullable = c.nullable
             /\ New(c).verbatim = c.verbatim
             /\ New(c) = c \/ New(c) = Replace(c)
             /\ TableOf(c.id) = Again[s] => New(c) = Replace(c)
  BY ReplaceIs
<1>4. copies' = {New(c) : c \in copies}
  OBVIOUS
<1> HIDE DEF New
<1>5. IdsOf(copies)' = IdsOf(copies)
  BY <1>3, <1>4 DEF IdsOf
<1>6. \A q \in source : TableOf(q.id) \in Done(k + 1) <=> TableOf(q.id) \in Done(k)
  BY <1>2, TablesAreReal
<1>7. IdsOf(copies)' = {r.id : r \in {q \in source : TableOf(q.id) \in Done(k + 1)}}
  BY <1>5, <1>6 DEF CopiedUpTo
<1>8. ASSUME NEW c \in copies', NEW d \in copies', c.id = d.id
      PROVE  c = d
  BY <1>3, <1>4, <1>8 DEF CopiedUpTo
<1>9. ASSUME NEW n \in copies', NEW r \in source, n.id = r.id
      PROVE  /\ n.required = r.required /\ n.nullable = r.nullable /\ n.verbatim = r.verbatim
             /\ n.inside.left \subseteq r.inside /\ n.inside.replaced = r.inside \ n.inside.left
             /\ SettledBy(TableOf(r.id)) \in Done(k + 1) => n.inside.left = {}
  <2>1. PICK c \in copies : n = New(c)
    BY <1>4
  <2>2. c.id = r.id
    BY <2>1, <1>3, <1>9
  <2>3. /\ c.required = r.required /\ c.nullable = r.nullable /\ c.verbatim = r.verbatim
        /\ c.inside.left \subseteq r.inside /\ c.inside.replaced = r.inside \ c.inside.left
        /\ SettledBy(TableOf(r.id)) \in Done(k) => c.inside.left = {}
    BY <2>2 DEF CopiedUpTo
  <2>4. n.required = r.required /\ n.nullable = r.nullable /\ n.verbatim = r.verbatim
    BY <2>1, <2>3, <1>3
  <2>5. n = c \/ n = Replace(c)
    BY <2>1, <1>3
  <2>6. Replace(c).inside.left = c.inside.left \ IdsOf(copies)
        /\ Replace(c).inside.replaced = c.inside.replaced \cup (c.inside.left \cap IdsOf(copies))
    BY ReplaceIs
  <2>7. n.inside.left \subseteq c.inside.left
    BY <2>5, <2>6
  <2>8. n.inside.replaced = r.inside \ n.inside.left
    BY <2>3, <2>5, <2>6
  <2>9. SettledBy(TableOf(r.id)) = s => n.inside.left = {}
    <3> SUFFICES ASSUME SettledBy(TableOf(r.id)) = s PROVE n.inside.left = {}
      OBVIOUS
    <3>1. TableOf(r.id) = Again[s]
      BY TablesAreReal, SettlesOne
    <3>2. n = Replace(c)
      BY <2>1, <2>2, <3>1, <1>3
    <3>3. \A x \in r.inside : x \in IdsOf(copies)
      <4> SUFFICES ASSUME NEW x \in r.inside PROVE x \in IdsOf(copies)
        OBVIOUS
      <4>1. TableOf(x) \in Done(k)
        BY <3>1, <1>1, PointsWithin
      <4>2. PICK q \in source : q.id = x
        BY PointsWithin
      <4> QED
        BY <4>1, <4>2 DEF CopiedUpTo
    <3> QED
      BY <3>2, <3>3, <2>3, <2>6
  <2> HIDE DEF s
  <2> QED
    BY <2>3, <2>4, <2>7, <2>8, <2>9, <1>2
<1> QED
  BY <1>7, <1>8, <1>9 DEF CopiedUpTo, IdsOf

LEMMA CloneStepKeeps ==
  ASSUME LifeInv, CloneStep
  PROVE  LifeInv'
<1> DEFINE s == Steps[step + 1]
<1>1. /\ job = "cloning" /\ step \in 0..19 /\ tenant = {"shell"}
      /\ UNCHANGED <<source, accounts, disturbed>>
  BY DEF CloneStep, LifeInv
<1> PICK k \in 0..19 : k = step
  BY <1>1
<1>2. ColumnsStay /\ (\A c \in copies : DOMAIN c = CopyFields) /\ (~disturbed => Still /\ CopiedUpTo(step))
  BY <1>1 DEF LifeInv, LeftAlone
<1>3. CASE s \in DOMAIN Again
  <2>1. /\ copies' = {IF TableOf(c.id) = Again[s] THEN Replace(c) ELSE c : c \in copies}
        /\ step' = step + 1 /\ UNCHANGED <<job, tenant, deleted>>
    BY <1>3 DEF CloneStep, CopyAgain
  <2>2. step < 19
    BY <1>1, <1>3, StepsAre DEF Again
  <2>3. ASSUME NEW n \in copies'
        PROVE  \E c \in copies : /\ DOMAIN n = CopyFields /\ n.id = c.id /\ n.required = c.required
                                 /\ n.nullable = c.nullable /\ n.holds = c.holds
    BY <2>1, <1>2, ReplaceIs
  <2>4. ASSUME NEW c \in copies
        PROVE  \E n \in copies' : n.id = c.id
    BY <2>1, <1>2, ReplaceIs
  <2>5. IdsOf(copies) \subseteq IdsOf(copies')
    BY <2>4 DEF IdsOf
  <2>6. ColumnsStay'
    BY <2>3, <2>5, <1>2 DEF ColumnsStay, IdsOf
  <2>7. ~disturbed => CopiedUpTo(k + 1)'
    BY <1>1, <1>2, <1>3, <2>1, CopyAgainCopies
  <2>8. ~disturbed => LeftAlone'
    BY <1>1, <1>2, <2>1, <2>7 DEF LeftAlone, Still
  <2> QED
    BY <1>1, <2>1, <2>2, <2>3, <2>6, <2>8 DEF LifeInv
<1>4. CASE s \notin DOMAIN Again
  <2> DEFINE rows == RowsIn(source, s)
             mapped == Known(s)
  <2>1. CopyTable(s)
    BY <1>4 DEF CloneStep
  <2>2. CASE ~(\A r \in rows : r.required \subseteq mapped)
    <3>1. job' = "failed" /\ copies' = {} /\ deleted' = {} /\ step' = 0 /\ tenant' = tenant
      BY <2>1, <2>2 DEF CopyTable, Fail
    <3>2. disturbed
      BY <1>1, <1>2, <1>4, <2>2, RowsFound
    <3>3. ColumnsStay'
      BY <3>1 DEF ColumnsStay
    <3> QED
      BY <1>1, <3>1, <3>2, <3>3 DEF LifeInv
  <2>3. CASE \A r \in rows : r.required \subseteq mapped
    <3>1. /\ copies' = copies \cup {CopyOf(r, mapped) : r \in rows} /\ step' = step + 1
          /\ deleted' = deleted
          /\ \/ step + 1 = 20 /\ job' = "done" /\ tenant' = tenant \cup {"copy"}
             \/ step + 1 # 20 /\ UNCHANGED <<job, tenant>>
      BY <2>1, <2>3, StepsAre DEF CopyTable
    <3>2. mapped \subseteq IdsOf(copies')
      <4>1. IdsOf(copies) \subseteq IdsOf(copies')
        BY <3>1 DEF IdsOf
      <4>2. \A r \in rows : r.id \in IdsOf(copies')
        BY <3>1, CopyIs DEF IdsOf
      <4> QED
        BY <4>1, <4>2 DEF Known, IdsOf
    <3>3. ASSUME NEW n \in copies'
          PROVE  /\ DOMAIN n = CopyFields /\ n.required \cup n.nullable \subseteq IdsOf(copies')
                 /\ n.holds \cap Credential = {}
      <4>1. CASE n \in copies
        <5>1. IdsOf(copies) \subseteq IdsOf(copies')
          BY <3>1 DEF IdsOf
        <5> QED
          BY <4>1, <5>1, <1>2 DEF ColumnsStay
      <4>2. CASE n \notin copies
        <5>1. PICK r \in rows : n = CopyOf(r, mapped)
          BY <4>2, <3>1
        <5> HIDE DEF rows, mapped
        <5>2. /\ DOMAIN n = CopyFields /\ n.required = r.required
              /\ n.nullable = r.nullable \cap mapped /\ n.holds = r.holds \ Credential
          BY <5>1, CopyIs
        <5> QED
          BY <5>2, <2>3, <3>2
      <4> QED
        BY <4>1, <4>2
    <3>4. ColumnsStay'
      BY <3>3 DEF ColumnsStay, IdsOf
    <3>5. ~disturbed => CopiedUpTo(k + 1)'
      BY <1>1, <1>2, <1>4, <3>1, CopyTableCopies
    <3>6. ~disturbed => LeftAlone'
      BY <1>1, <1>2, <3>1, <3>5 DEF LeftAlone, Still
    <3> QED
      BY <1>1, <3>1, <3>3, <3>4, <3>6 DEF LifeInv
  <2> QED
    BY <2>2, <2>3
<1> QED
  BY <1>3, <1>4

\* In a deletion that nobody disturbs nothing falls that was not gone already, nothing is in
\* the way, and a table is emptied whole.
LEMMA TableEmptied ==
  ASSUME Still, NEW k \in 0..21, DeletedUpTo(k)
  PROVE  LET t == Deletions[k + 1] IN
         /\ Doomed(t) = {r \in source : TableOf(r.id) = t /\ t \notin Emptied(k)}
         /\ Falling(Doomed(t), t) = {}
         /\ \A r \in Remaining : r \notin Doomed(t) => r.required \cap IdsOf(Doomed(t)) = {}
<1> DEFINE t == Deletions[k + 1]
<1>1. Remaining = {r \in source : TableOf(r.id) \notin Emptied(k)}
  BY DEF Remaining, DeletedUpTo
<1>2. ASSUME NEW r \in source, TableOf(r.id) \in {"health_scores", "kpi_measurements"}
      PROVE  r.required \subseteq accounts
  <2> SUFFICES ASSUME NEW x \in r.required PROVE x \in accounts
    OBVIOUS
  <2>1. TableOf(x) \in RequiredOf(TableOf(r.id))
    BY PointsWithin
  <2>2. RequiredOf(TableOf(r.id)) = {"accounts"}
    BY <1>2 DEF RequiredOf, OfAccount
  <2>3. PICK q \in source : q.id = x
    BY PointsWithin
  <2> QED
    BY <2>1, <2>2, <2>3 DEF DeletedUpTo, IdsOf, RowsIn
<1>3. Doomed(t) = {r \in source : TableOf(r.id) = t /\ t \notin Emptied(k)}
  BY <1>1, <1>2 DEF Doomed, RowsIn
<1>4. /\ \A u : t \in RequiredOf(u) => u \in Emptied(k)
      /\ t = "context_nodes" => "context_edges" \in Emptied(k)
      /\ t = "forecast_runs" => "account_forecasts" \in Emptied(k)
  BY DeletionsFind
<1>5. Falling(Doomed(t), t) = {}
  <2>1. \A r \in Remaining : TableOf(r.id) # "none"
    BY <1>1, TablesAreReal
  <2> QED
    BY <1>1, <1>4, <2>1 DEF Falling, RowsIn
<1>6. ASSUME NEW r \in Remaining, r \notin Doomed(t)
      PROVE  r.required \cap IdsOf(Doomed(t)) = {}
  <2> SUFFICES ASSUME NEW x \in r.required, x \in IdsOf(Doomed(t)) PROVE FALSE
    OBVIOUS
  <2>1. TableOf(x) = t
    BY <1>3 DEF IdsOf
  <2>2. TableOf(x) \in RequiredOf(TableOf(r.id))
    BY <1>1, PointsWithin
  <2>3. TableOf(r.id) \in Emptied(k)
    BY <2>1, <2>2, <1>4
  <2> QED
    BY <2>3, <1>1
<1> QED
  BY <1>3, <1>5, <1>6

LEMMA DeleteStepKeeps ==
  ASSUME LifeInv, DeleteStep
  PROVE  LifeInv'
<1> DEFINE t == Deletions[step + 1]
           doomed == Doomed(t)
           gone == doomed \cup Falling(doomed, t)
           left == Remaining \ gone
           stuck == (\E r \in left : r.required \cap IdsOf(doomed) # {}) \/ (t = "customers" /\ left # {})
<1>1. /\ job = "deleting" /\ step \in 0..21 /\ tenant = {} /\ UNCHANGED <<tenant, accounts, disturbed>>
  BY DEF DeleteStep, LifeInv
<1>2. DeleteTable(t)
  BY DEF DeleteStep
<1>3. ~disturbed => Still /\ DeletedUpTo(step)
  BY <1>1 DEF LifeInv, LeftAlone
<1>4. t = "customers" <=> step = 21
  BY <1>1, DeletionsFind
<1>5. ~disturbed =>
        /\ deleted \cup gone = {r \in source : TableOf(r.id) \in Emptied(step + 1)}
        /\ left = {r \in source : TableOf(r.id) \notin Emptied(step + 1)}
        /\ ~stuck
  <2> SUFFICES ASSUME ~disturbed
               PROVE  /\ deleted \cup gone = {r \in source : TableOf(r.id) \in Emptied(step + 1)}
                      /\ left = {r \in source : TableOf(r.id) \notin Emptied(step + 1)}
                      /\ ~stuck
    OBVIOUS
  <2>1. /\ doomed = {r \in source : TableOf(r.id) = t /\ t \notin Emptied(step)}
        /\ Falling(doomed, t) = {}
        /\ \A r \in Remaining : r \notin doomed => r.required \cap IdsOf(doomed) = {}
    BY <1>1, <1>3, TableEmptied
  <2>2. Emptied(step + 1) = Emptied(step) \cup {t}
    BY <1>1, DoneGrows
  <2>3. deleted = {r \in source : TableOf(r.id) \in Emptied(step)}
    BY <1>3 DEF DeletedUpTo
  <2> HIDE DEF t, doomed
  <2>4. gone = doomed /\ left = Remaining \ doomed
    BY <2>1
  <2>5. left = {r \in source : TableOf(r.id) \notin Emptied(step + 1)}
    BY <2>1, <2>2, <2>3, <2>4 DEF Remaining
  <2>6. t = "customers" => left = {}
    BY <1>1, <1>3, <1>4, <2>5, TablesAreReal
  <2> QED
    BY <2>1, <2>2, <2>3, <2>4, <2>5, <2>6
<1>6. CASE stuck
  <2>1. job' = "failed" /\ copies' = {} /\ deleted' = {} /\ step' = 0 /\ source' = source
    BY <1>2, <1>6 DEF DeleteTable, Fail
  <2>2. disturbed
    BY <1>5, <1>6
  <2>3. ColumnsStay'
    BY <2>1 DEF ColumnsStay
  <2> QED
    BY <1>1, <2>1, <2>2, <2>3 DEF LifeInv
<1>7. CASE ~stuck /\ step = 21
  <2>1. /\ source' = left /\ job' = "done" /\ step' = 0 /\ deleted' = {} /\ copies' = copies
    BY <1>2, <1>7, DeletionsAre DEF DeleteTable
  <2>2. left = {}
    BY <1>4, <1>7
  <2>3. ColumnsStay'
    BY <2>1 DEF LifeInv, ColumnsStay
  <2> HIDE DEF t, left, stuck
  <2>4. LeftAlone'
    BY <1>1, <2>1, <2>2 DEF LeftAlone, Still
  <2> QED
    BY <1>1, <2>1, <2>2, <2>3, <2>4 DEF LifeInv
<1>8. CASE ~stuck /\ step # 21
  <2>1. /\ deleted' = deleted \cup gone /\ step' = step + 1 /\ UNCHANGED <<source, job, copies>>
    BY <1>1, <1>2, <1>8, DeletionsAre DEF DeleteTable
  <2>2. ColumnsStay'
    BY <2>1 DEF LifeInv, ColumnsStay
  <2> HIDE DEF t, gone, left, stuck
  <2>3. ~disturbed => LeftAlone'
    <3> SUFFICES ASSUME ~disturbed PROVE LeftAlone'
      OBVIOUS
    <3> PICK k \in 0..21 : k = step
      BY <1>1
    <3>1. DeletedUpTo(k + 1)'
      BY <1>1, <1>3, <1>5, <2>1 DEF DeletedUpTo, IdsOf, RowsIn, Emptied
    <3> QED
      BY <1>1, <1>3, <2>1, <3>1 DEF LeftAlone, Still
  <2> QED
    BY <1>1, <1>8, <2>1, <2>2, <2>3 DEF LifeInv
<1> QED
  BY <1>6, <1>7, <1>8

LEMMA LifeInvNext == LifeInv /\ [LifeNext]_cvars => LifeInv'
<1> SUFFICES ASSUME LifeInv, [LifeNext]_cvars PROVE LifeInv'
  OBVIOUS
<1>1. CASE UNCHANGED cvars
  <2>1. /\ UNCHANGED <<source, tenant, job, step>>
        /\ UNCHANGED <<copies, deleted, accounts, disturbed>>
    BY <1>1 DEF cvars
  <2>2. ColumnsStay'
    BY <2>1 DEF LifeInv, ColumnsStay
  <2>3. ~disturbed => LeftAlone'
    <3> SUFFICES ASSUME ~disturbed PROVE LeftAlone'
      OBVIOUS
    <3>1. LeftAlone
      BY DEF LifeInv
    <3>2. Still'
      BY <2>1, <3>1 DEF LeftAlone, Still
    <3>3. job = "cloning" => CopiedUpTo(step)'
      BY <2>1, <3>1 DEF LeftAlone, CopiedUpTo, IdsOf
    <3>4. "copy" \in tenant => CopiedUpTo(20)'
      BY <2>1, <3>1 DEF LeftAlone, CopiedUpTo, IdsOf
    <3>5. job = "deleting" => DeletedUpTo(step)'
      BY <2>1, <3>1 DEF LeftAlone, DeletedUpTo, IdsOf, RowsIn
    <3> QED
      BY <2>1, <3>1, <3>2, <3>3, <3>4, <3>5 DEF LeftAlone
  <2> QED
    BY <2>1, <2>2, <2>3 DEF LifeInv
<1> QED
  BY <1>1, BeginKeeps, AddTogglesKeeps, CloneStepKeeps, BeginDeleteKeeps, DeleteStepKeeps,
     CutOffKeeps, SourceChangesKeeps DEF LifeNext

LEMMA LifeInvHolds == LifeSpec => []LifeInv
  BY LifeInit1, LifeInvNext, PTL DEF LifeSpec

\* The rows a clone covers.
Covered == {r \in source : \E i \in DOMAIN Steps : Steps[i] = TableOf(r.id)}

LEMMA FinishedClone ==
  ASSUME LifeInv, "copy" \in tenant, ~disturbed
  PROVE  /\ IdsOf(copies) = IdsOf(Covered) /\ \A c, d \in copies : c.id = d.id => c = d
         /\ \A c \in copies, r \in Covered : c.id = r.id =>
              /\ c.required = r.required /\ c.nullable = r.nullable /\ c.verbatim = r.verbatim
              /\ c.inside.replaced = r.inside /\ c.inside.left = {}
<1>1. Still /\ CopiedUpTo(20)
  BY DEF LifeInv, LeftAlone
<1>2. Covered = {q \in source : TableOf(q.id) \in Done(20)}
  BY StepsAre DEF Done, Covered
<1>3. IdsOf(copies) = IdsOf(Covered)
  BY <1>1, <1>2 DEF CopiedUpTo, IdsOf
<1>4. ASSUME NEW t \in Done(20), t \notin DOMAIN Again
      PROVE  SettledBy(t) \in Done(20)
  BY StepsAre DEF SettledBy, Done
<1>5. ASSUME NEW c \in copies, NEW r \in Covered, c.id = r.id
      PROVE  /\ c.required = r.required /\ c.nullable = r.nullable /\ c.verbatim = r.verbatim
             /\ c.inside.replaced = r.inside /\ c.inside.left = {}
  <2>1. r \in source /\ SettledBy(TableOf(r.id)) \in Done(20)
    BY <1>1, <1>2, <1>4, TablesAreReal
  <2>2. /\ c.required = r.required /\ c.nullable = r.nullable /\ c.verbatim = r.verbatim
        /\ c.inside.replaced = r.inside \ c.inside.left /\ c.inside.left = {}
    BY <1>1, <1>5, <2>1 DEF CopiedUpTo
  <2> QED
    BY <2>2
<1> QED
  BY <1>1, <1>3, <1>5 DEF CopiedUpTo

\* Columns of a clone point at rows of the clone and it holds no credential; a finished clone
\* of a source that stood still has one copy of every row of the tables it covers, with every
\* reference by a column carried over and every id the clone recognises replaced; ids in
\* other forms stay those of the source (cs_pulse_onboarding.py:1630-1704, 1747-1787).
THEOREM CloneClosedHolds == LifeSpec => []CloneClosed
<1>1. LifeInv => CloneClosed
  BY FinishedClone DEF LifeInv, CloneClosed, Covered
<1> QED
  BY <1>1, LifeInvHolds, PTL

\* A call fails only when something disturbed it: the order of the tables meets no foreign
\* key that still holds, neither copying nor deleting; and after a deletion that went
\* through, disturbed or not, no row of the tenant is left (cs_pulse_onboarding.py:1550-1588).
THEOREM UndisturbedEndsHolds == LifeSpec => []UndisturbedEnds
<1>1. LifeInv => UndisturbedEnds
  BY DEF LifeInv, LeftAlone, UndisturbedEnds
<1> QED
  BY <1>1, LifeInvHolds, PTL
=============================================================================
