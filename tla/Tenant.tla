------------------------------- MODULE Tenant --------------------------------
(***************************************************************************)
(* The parts of the server that work on one tenant, in one module, so that *)
(* one run checks them all: a behaviour is one of a single part, with the  *)
(* others at rest.  What two parts do to each other is not shown here: it  *)
(* is modelled inside a part (TenantData also decides on the weights,      *)
(* Foresight also takes reviews and new evidence, TenantLife also adds     *)
(* rows while a clone or a deletion is at work).                           *)
(***************************************************************************)
EXTENDS TenantData, SignalReview, LlmBudget, TenantLife, HealthRules, JourneyRules, Foresight,
        OutlookRules, LoadFiles, PlaybookRules

VARIABLE area           \* the part at work

inputs == <<input, account, outlook, play>>
vars == <<tvars, rvars, lvars, cvars, inputs, fvars, avars, area>>

Area == {"data", "review", "budget", "life", "health", "journey", "outlook", "playbook", "foresight", "load"}
AtRest == [of |-> "none"]

\* A part at rest is in one of its initial states: without uploads, with an undecided
\* signal, with a demo tenant that has no rows, with no input to score or read, with no account loaded.
Init ==
  /\ area \in Area
  /\ TenantInit /\ (area # "data" => uploads = <<>>)
  /\ ReviewInit /\ (area # "review" => ~signal.flagged /\ \A n \in Evidence : evidence[n].subtype = CHOOSE s \in Subtype : TRUE)
  /\ BudgetInit
  /\ LifeInit /\ (area # "life" => source = {})
  /\ ForesightInit
  /\ LoadInit /\ (area # "load" => db.accounts = <<>>)
  /\ IF area = "health" THEN HealthInit ELSE input = AtRest
  /\ IF area = "journey" THEN JourneyInit ELSE account = AtRest
  /\ IF area = "outlook" THEN OutlookInit ELSE outlook = AtRest
  /\ IF area = "playbook" THEN PlayInit ELSE play = AtRest

DataStep ==
  area = "data" /\ TenantNext /\ UNCHANGED <<rvars, lvars, cvars, inputs, fvars, avars, area>>
ReviewStep ==
  area = "review" /\ ReviewNext /\ UNCHANGED <<tvars, lvars, cvars, inputs, fvars, avars, area>>
BudgetStep ==
  area = "budget" /\ BudgetNext /\ UNCHANGED <<tvars, rvars, cvars, inputs, fvars, avars, area>>
LifecycleStep ==
  area = "life" /\ LifeNext /\ UNCHANGED <<tvars, rvars, lvars, inputs, fvars, avars, area>>
ForesightStep ==
  area = "foresight" /\ ForesightNext /\ UNCHANGED <<tvars, rvars, lvars, cvars, inputs, avars, area>>
LoadStep ==
  area = "load" /\ LoadNext /\ UNCHANGED <<tvars, rvars, lvars, cvars, inputs, fvars, area>>

Next == DataStep \/ ReviewStep \/ BudgetStep \/ LifecycleStep \/ ForesightStep \/ LoadStep

Spec == Init /\ [][Next]_vars
=============================================================================
