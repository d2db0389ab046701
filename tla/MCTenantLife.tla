---------------------------- MODULE MCTenantLife ----------------------------
(***************************************************************************)
(* A small instance of TenantLife: a demo tenant with a row or two in every*)
(* table, which point at each other in every way the tables do.            *)
(***************************************************************************)
EXTENDS TenantLife

MCTableOf(id) == id[1]
T(t) == <<t, 1>>
U(t) == <<t, 2>>
MCSource ==
  {Row(T("customer_configs"), {}, {}, {}, {}, {}), Row(T("users"), {}, {}, {}, {}, {}),
   Row(T("customer_api_keys"), {}, {}, {}, {}, {}), Row(T("llm_usage_log"), {}, {}, {}, {}, {}),
   Row(T("feature_toggles"), {}, {}, {}, {}, {"policy", "webhook_secret"}),
   Row(T("accounts"), {}, {}, {}, {}, {}),
   Row(T("context_nodes"), {T("accounts")}, {}, {T("interventions")}, {}, {}),
   Row(U("context_nodes"), {T("accounts")}, {}, {T("interventions")},
       {T("context_nodes"), T("interventions")}, {}),    \* an outcome an intervention reported
   Row(T("context_edges"), {T("context_nodes"), U("context_nodes")}, {U("context_edges")}, {}, {}, {}),
   Row(U("context_edges"), {T("context_nodes"), U("context_nodes")}, {}, {T("context_nodes")}, {}, {}),
   Row(T("process_runs"), {}, {}, {T("csv_uploads")}, {}, {}),
   Row(T("csv_uploads"), {}, {T("process_runs")}, {}, {}, {}),
   Row(T("health_scores"), {T("accounts")}, {T("csv_uploads"), T("process_runs")}, {}, {}, {}),
   Row(T("csv_upload_staging"), {}, {T("csv_uploads")}, {}, {}, {}),
   Row(T("interventions"), {T("accounts")}, {T("context_nodes")}, {U("context_nodes"), T("health_scores")}, {}, {}),
   Row(T("forecast_runs"), {}, {}, {}, {}, {}),
   Row(T("account_forecasts"), {T("accounts")}, {}, {T("forecast_runs"), U("context_nodes")}, {}, {}),
   Row(T("weight_calibrations"), {}, {U("weight_calibrations")}, {T("context_nodes"), T("accounts")}, {}, {}),
   Row(U("weight_calibrations"), {}, {}, {T("process_runs")}, {}, {}),
   Row(T("kpi_measurements"), {T("accounts")}, {T("csv_uploads")}, {}, {}, {}),
   Row(T("qualitative_signals"), {T("accounts")}, {U("context_nodes")}, {}, {}, {}),
   Row(T("signal_reviews"), {T("accounts")}, {U("context_nodes")}, {}, {}, {}),
   Row(T("wizard_runs"), {}, {}, {T("context_nodes")}, {}, {}),
   Row(T("journey_data"), {T("accounts")}, {},
       {T("accounts"), T("context_nodes"), T("health_scores"), T("forecast_runs")}, {}, {})}

\* What other sessions write meanwhile: a new node and rows that point at it, a new account
\* and a measurement of it, a run.
N3 == <<"context_nodes", 3>>
MCLater ==
  {Row(N3, {T("accounts")}, {}, {}, {}, {}),
   Row(<<"context_edges", 3>>, {T("context_nodes"), N3}, {}, {}, {}, {}),
   Row(U("interventions"), {T("accounts")}, {N3}, {N3}, {}, {}),
   Row(U("qualitative_signals"), {T("accounts")}, {N3}, {}, {}, {}),
   Row(T("journey_data"), {T("accounts")}, {}, {T("accounts"), N3}, {}, {}),
   Row(U("accounts"), {}, {}, {}, {}, {}),
   Row(U("kpi_measurements"), {U("accounts")}, {}, {}, {}, {}),
   Row(U("process_runs"), {}, {}, {}, {}, {})}
=============================================================================
