----------------------------- MODULE LlmBudget ------------------------------
(***************************************************************************)
(* What one tenant may spend on language-model calls.  Three kinds of      *)
(* caller share the ledger llm_usage_log: gated ones (external research),  *)
(* which ask can_call first; the enrichment of signals, which counts its   *)
(* calls in each process; and Ask AI, which only records what it used.     *)
(*   utils/llm_budget_controller.py, signal_engine/enrichment.py,          *)
(*   signal_engine/external_research.py, ask_ai/answer.py                  *)
(*                                                                         *)
(* The check, the call and its record are separate steps and other callers *)
(* come in between.  Amounts are whole units of money.  Names that begin   *)
(* with Mut are wrong variants.                                            *)
(***************************************************************************)
EXTENDS Integers, FiniteSets

CONSTANTS
  Caller,                           \* gated callers that run at once
  Process, Threads,                 \* processes that enrich, and calls one has under way
  DailyCalls, DailyUsd, MonthlyUsd, \* limits; 0 turns one off
  PerProcess,                       \* max_calls_per_customer_per_day
  Cost,                             \* what a call may cost; a failed one costs 0
  MaxCalls, MaxDays, MaxFailures, MaxRestarts   \* bounds on the history explored

ASSUME BudgetAssumption ==
  /\ IsFiniteSet(Caller) /\ Cost \subseteq Nat /\ 0 \in Cost
  /\ \E top \in Cost : \A cost \in Cost : cost <= top
  /\ {DailyCalls, DailyUsd, MonthlyUsd} \subseteq Nat
  /\ PerProcess \in Nat /\ Threads \in Nat \ {0}

VARIABLES
  day,
  ledger,               \* llm_usage_log: calls and usd of the day, usd of the month
  permit,               \* gated callers whose check let them through
  counts, extracting,   \* per process: calls counted today, calls under way
  made,                 \* history: gated calls and usd of the day, gated usd of the month
  enriched,             \* history: per process, extractions of the day
  failures, restarts    \* history: failed checks and records; per process, restarts

lvars == <<day, ledger, permit, counts, extracting, made, enriched, failures, restarts>>

BudgetInit ==
  /\ day = 1 /\ ledger = [calls |-> 0, usd |-> 0, month |-> 0]
  /\ permit = {} /\ counts = [p \in Process |-> 0] /\ extracting = [p \in Process |-> 0]
  /\ made = [calls |-> 0, usd |-> 0, month |-> 0] /\ enriched = [p \in Process |-> 0]
  /\ failures = 0 /\ restarts = [p \in Process |-> 0]

Spent(sums, cost) ==
  [calls |-> sums.calls + 1, usd |-> sums.usd + cost, month |-> sums.month + cost]

\* A limit of zero is no limit.
MutReached(used, limit) == limit > 0 /\ used > limit

Reached(used, limit) == limit > 0 /\ used >= limit

Blocked ==
  \/ Reached(ledger.calls, DailyCalls) \/ Reached(ledger.usd, DailyUsd)
  \/ Reached(ledger.month, MonthlyUsd)

\* can_call; a check that fails lets the call through.
CanCall(c) ==
  /\ c \notin permit
  /\ permit' = permit \cup {c}
  /\ \/ ~Blocked /\ UNCHANGED failures
     \/ failures < MaxFailures /\ failures' = failures + 1
  /\ UNCHANGED <<day, ledger, counts, extracting, made, enriched, restarts>>

\* llm_call: the call and its record, which may fail without the caller noticing.
LlmCall(c, cost) ==
  /\ c \in permit /\ ledger.calls < MaxCalls
  /\ permit' = permit \ {c}
  /\ made' = Spent(made, cost)
  /\ \/ ledger' = Spent(ledger, cost) /\ UNCHANGED failures
     \/ failures < MaxFailures /\ failures' = failures + 1 /\ UNCHANGED ledger
  /\ UNCHANGED <<day, counts, extracting, enriched, restarts>>

\* enrich_signal: the counters of the process are looked at before the call ...
StartExtraction(p) ==
  /\ extracting[p] < Threads /\ counts[p] < PerProcess
  /\ extracting' = [extracting EXCEPT ![p] = @ + 1]
  /\ UNCHANGED <<day, ledger, permit, counts, made, enriched, failures, restarts>>

\* ... and raised after it, with a ledger row nobody here looks at; a call that raised
\* is counted in neither.
EndExtraction(p, cost) ==
  /\ extracting[p] > 0 /\ ledger.calls < MaxCalls
  /\ extracting' = [extracting EXCEPT ![p] = @ - 1]
  /\ \/ /\ counts' = [counts EXCEPT ![p] = @ + 1]
        /\ enriched' = [enriched EXCEPT ![p] = @ + 1]
        /\ ledger' = Spent(ledger, cost)
     \/ UNCHANGED <<counts, enriched, ledger>>
  /\ UNCHANGED <<day, permit, made, failures, restarts>>

\* Ask AI records what it used and asks nobody.
AskModel(cost) ==
  /\ ledger.calls < MaxCalls
  /\ ledger' = Spent(ledger, cost)
  /\ UNCHANGED <<day, permit, counts, extracting, made, enriched, failures, restarts>>

\* A process that restarts forgets what it counted.
Restart(p) ==
  /\ restarts[p] < MaxRestarts
  /\ restarts' = [restarts EXCEPT ![p] = @ + 1]
  /\ counts' = [counts EXCEPT ![p] = 0] /\ extracting' = [extracting EXCEPT ![p] = 0]
  /\ UNCHANGED <<day, ledger, permit, made, enriched, failures>>

\* Midnight, within the month.
NextDay ==
  /\ day < MaxDays
  /\ day' = day + 1
  /\ ledger' = [ledger EXCEPT !.calls = 0, !.usd = 0]
  /\ counts' = [p \in Process |-> 0] /\ enriched' = [p \in Process |-> 0]
  /\ made' = [made EXCEPT !.calls = 0, !.usd = 0]
  /\ UNCHANGED <<permit, extracting, failures, restarts>>

BudgetNext ==
  \/ \E c \in Caller : CanCall(c) \/ \E cost \in Cost : LlmCall(c, cost)
  \/ \E p \in Process : StartExtraction(p) \/ Restart(p) \/ \E cost \in Cost : EndExtraction(p, cost)
  \/ \E cost \in Cost : AskModel(cost)
  \/ NextDay

BudgetSpec == BudgetInit /\ [][BudgetNext]_lvars

-----------------------------------------------------------------------------
\* Gated callers overshoot a limit by no more than the calls under way together, plus
\* one call for each check or record that failed, across midnight too; and enrichment
\* stays within the per-process allowance of every process life there was
\* (llm_budget_controller.py:146-210, enrichment.py:162-184).
Dearest == CHOOSE x \in Cost : \A y \in Cost : y <= x
Overshoot == Cardinality(Caller) + failures

BudgetHolds ==
  /\ DailyCalls > 0 => made.calls < DailyCalls + Overshoot
  /\ DailyUsd > 0 => made.usd < DailyUsd + Overshoot * Dearest
  /\ MonthlyUsd > 0 => made.month < MonthlyUsd + Overshoot * Dearest
  /\ \A p \in Process : enriched[p] <= (restarts[p] + 1) * (PerProcess + Threads - 1)
=============================================================================
