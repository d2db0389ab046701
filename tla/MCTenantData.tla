---------------------------- MODULE MCTenantData ----------------------------
(***************************************************************************)
(* A small instance of TenantData: two measurements of one month and one of *)
(* the next.                                                               *)
(***************************************************************************)
EXTENDS TenantData

CONSTANTS k1, k2, k3

MCMonthOf(k) == IF k = k3 THEN 2 ELSE 1

\* The first measurement alone is healthy under the defaults; calibration and the
\* second one bring the score down.
MCScore(keys, w) ==
  IF w = <<0, 0>> THEN (IF k2 \in keys THEN 40 ELSE 80) ELSE (IF k1 \in keys THEN 60 ELSE 90)

Accounts1(says) == [file |-> "account_details.csv", keys |-> {}, says |-> says]
Kpis(K) == [file |-> "kpi_measurements.csv", keys |-> K, says |-> "active"]

MCContent == {Accounts1("active"), Kpis({k2, k3})}
\* An earlier run processed an account that had churned.
MCBefore == {Accounts1("churned"), Kpis({k1})}
=============================================================================
