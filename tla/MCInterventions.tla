-------------------------- MODULE MCInterventions --------------------------
(***************************************************************************)
(* Small instances of Interventions: two triggers of one playbook, and the *)
(* callers each run names.                                                 *)
(***************************************************************************)
EXTENDS Interventions, TLC

CONSTANTS k1, k2, nokey, hook, hook2, person, person2, engine, engine2

Symmetry == Permutations(Key) \cup Permutations(Evaluator) \cup Permutations(Approver)
              \cup Permutations(Reporter)
=============================================================================
