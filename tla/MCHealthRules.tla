---------------------------- MODULE MCHealthRules ----------------------------
(***************************************************************************)
(* A small instance of HealthRules.                                        *)
(***************************************************************************)
EXTENDS HealthRules

\* Values and bounds on both sides of 0; two pillars, one of them with a single
\* KPI; configurations that weigh one pillar only, or one of two with zero.
MCValue == {-2, 0, 1, 3, 5}
MCPillarOf(c) == IF c = "c" THEN "P2" ELSE "P1"
MCOver == {Nobody, [p \in {"P1"} |-> 2], [p \in Pillar |-> IF p = "P1" THEN 0 ELSE 2]}
=============================================================================
