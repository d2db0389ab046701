--------------------------- MODULE MCContextGraph ---------------------------
(***************************************************************************)
(* A small instance of ContextGraph: a few kinds of node, and the writers  *)
(* of the sources with the tiers they stamp.                               *)
(***************************************************************************)
EXTENDS ContextGraph

CONSTANTS sess1, sess2

ANode == [type |-> "SIGNAL", sub |-> "kpi_recovery", acct |-> 1, at |-> 2, impact |-> None,
          tag |-> None, conf |-> 8, pconf |-> None, earned |-> TRUE, arc |-> None,
          title |-> "t", live |-> TRUE, src |-> None]

Signals == {[ANode EXCEPT !.src = "s"], [ANode EXCEPT !.src = "s", !.sub = "usage_decline"]}
OutcomesIn ==
  {[ANode EXCEPT !.type = "OUTCOME", !.sub = "churn_lost", !.tag = "churn_lost",
                 !.impact = -8, !.conf = 14, !.at = 1],
   [ANode EXCEPT !.type = "OUTCOME", !.sub = "expansion_closed", !.tag = None,
                 !.impact = 10, !.conf = None, !.earned = FALSE]}

MCNodeInput == Signals \cup OutcomesIn

\* A lost hardware refresh, a lost revenue of the taxonomy that is no lifecycle event.
MCRefreshInput ==
  {[ANode EXCEPT !.type = "OUTCOME", !.sub = "refresh_lost", !.impact = -8]} \cup OutcomesIn

AnEdge == [from |-> 1, to |-> 2, kind |-> "LED_TO", by |-> "wizard_a", tier |-> None,
           conf |-> 5, earned |-> FALSE, marked |-> FALSE, sup |-> None]

\* Four writers on one triple.
Rivals ==
  {AnEdge, [AnEdge EXCEPT !.by = "llm_enrichment"],
   [AnEdge EXCEPT !.by = "csv_import", !.tier = "unknown"],
   [AnEdge EXCEPT !.by = "csv_import", !.tier = "observed"]}

\* One writer all over the graph.
Roads ==
  {[AnEdge EXCEPT !.from = p[1], !.to = p[2]] : p \in {<<2, 1>>, <<2, 3>>, <<3, 1>>, <<3, 2>>}}

MCEdgeInput == Rivals \cup Roads
=============================================================================
