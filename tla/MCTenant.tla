------------------------------ MODULE MCTenant ------------------------------
(***************************************************************************)
(* A small instance of Tenant.                                             *)
(***************************************************************************)
EXTENDS Tenant, MCHealthRules, MCTenantData, MCTenantLife, MCLoadFiles, TLC

\* Two processes of the server, which nothing tells apart; each has one thread, session or
\* reviewer at work.
CONSTANTS p1, p2, acme, bolt
Symmetry == Permutations({p1, p2}) \cup Permutations({acme, bolt})

-----------------------------------------------------------------------------
\* SignalReview: two subtypes whose roles differ in urgency.
MCRoleOf(s) == IF s = "a" THEN "risk" ELSE "opportunity"
MCUrgencyOf(r) == IF r = "risk" THEN 3 ELSE 1

-----------------------------------------------------------------------------
\* JourneyRules: evidence over five months, of every polarity, some flagged, some reviewed,
\* one rejected, one dated after today.
Sig(id, on, role, sent, flagged, review) ==
  [id |-> <<"node", id>>, day |-> on, type |-> "SIGNAL", sub |-> IF role = "routine" THEN "seasonal_pattern" ELSE None,
   role |-> role, sent |-> sent, flagged |-> flagged, review |-> review, bucket |-> None]
Other(id, on, type, bucket) ==
  [id |-> <<"node", id>>, day |-> on, type |-> type, sub |-> None, role |-> None, sent |-> None, flagged |-> FALSE,
   review |-> None, bucket |-> bucket]
MCNode ==
  {Sig(1, 10, "champion_change", 8, FALSE, None), Sig(2, 20, "infra_incident", None, FALSE, None),
   Sig(3, 45, "usage_decline", -8, TRUE, None), Sig(4, 50, "recovery", 5, FALSE, "accepted"),
   Sig(5, 85, "expansion_intent", 9, FALSE, None), Sig(6, 100, "advocacy", None, TRUE, "accepted"),
   Sig(7, 130, "commercial_pressure", 2, FALSE, None), Sig(8, 70, "announcement", -10, FALSE, None),
   Sig(9, 40, "escalation", -5, FALSE, "rejected"),
   Sig(11, 140, "engagement_decline", -3, TRUE, None),
   Other(13, 65, "INTERVENTION", None)}
MCScores == [{} -> {0}] \cup [{1, 3} -> {40, 62, 85}] \cup [{1, 2, 3} -> {40, 85}]
MCDecay(d) == 8 - d \div 8
MCRenewal == {150}
MCDelta == {-6}

-----------------------------------------------------------------------------
\* OutlookRules: outcomes settled together or apart, months that warned or not, labels of
\* other accounts enough for a calibrated forecast or not; samples of every overlap, those of
\* one label in order of their scores.
Out(id, on, bucket) == [id |-> id, day |-> on, bucket |-> bucket]
MCConcluded == {{}, {Out(1, 40, "protected"), Out(2, 85, "lost")}, {Out(2, 85, "lost"), Out(3, 86, "expansion")},
  {Out(1, 40, "protected"), Out(2, 85, "lost"), Out(3, 86, "expansion"), Out(4, 130, "pipeline")}}
Entry(scored, qual, label) == [qual |-> qual, kpi |-> scored, label |-> label, by |-> {}]
MCCourse == {<<>>} \cup
  {c \in [1..3 -> {Entry(40, None, None), Entry(80, 60, "early_warning")}] : c[1].qual = None}
MCFactors == {<<60, 80, 75, 85>>, <<100, 105, 108, 105>>}
Lab(r, s) == [day |-> 10, retained |-> r, expanded |-> r, stratum |-> s, ids |-> {}]
MCOthers == {<<>>, <<Lab(TRUE, Unknown), Lab(FALSE, Unknown)>>,
   <<Lab(TRUE, <<"healthy", TRUE>>), Lab(TRUE, <<"healthy", TRUE>>), Lab(FALSE, <<"critical", FALSE>>)>>}
MCCredible(p, n) == [low |-> Clamped(p - 1000 \div n, 0, 1000), high |-> Clamped(p + 1000 \div n, 0, 1000)]
Smp(id, label, score) == [id |-> id, acct |-> id, label |-> label, score |-> score]
MCSamples ==
  {{Smp(i, IF i <= 3 THEN "positive" ELSE "negative", s[i]) : i \in 1..6} :
     s \in {t \in [1..6 -> {30, 31, 70}] : \A i \in {1, 2, 4, 5} : t[i] <= t[i + 1]}}
  \cup {{Smp(1, "positive", 80), Smp(2, "negative", 20)}, {Smp(1, "positive", 80)},
         {Smp(1, "positive", None), Smp(2, "negative", 20), Smp(3, "negative", 40)}}
MCStarting ==
  {w \in [1..3 -> {1, 10, 20, 33, 34, 45, 50, 70, 90, 98}] : w[1] + w[2] + w[3] = 100}
  \cup {w \in [1..2 -> {1, 30, 50, 70, 99}] : w[1] + w[2] = 100}

-----------------------------------------------------------------------------
\* PlaybookRules: evidence of roles that are wanted or not, some rejected or waiting for a
\* review; files that are refused for an id, a role or a class; a tenant configured by calls
\* that are refused half of the time; interventions that went every way.
MCCited == {n \in MCNode : n.id[2] \in {3, 5, 7, 8, 9}} \cup {Sig(17, 88, "infra_incident", -4, FALSE, "accepted"),
  Sig(18, 105, "usage_decline", -7, TRUE, None)}
MCHeard == {[id \in {n.id : n \in MCCited} |-> h] : h \in {None, [score |-> 0, esc |-> 0], [score |-> 6, esc |-> 8]}}
Book(id, roles, match, floor, within, class, approval) ==
  [id |-> id, roles |-> roles, match |-> match, floor |-> floor, within |-> within, class |-> class,
   approval |-> approval, types |-> {"churn_lost", "renewal_secured"}, window |-> 60]
Save == Book("a", {"commercial_pressure", "usage_decline"}, "all", 2, 60, "schedule", "human")
Handoff == Book("b", {"expansion_intent", "announcement"}, "any", 1, None, "notify", "auto")
MCFile == {<<>>, <<Save, Handoff>>, <<Handoff>>, <<Save, [Handoff EXCEPT !.id = "a"]>>,
  <<Save, [Handoff EXCEPT !.class = "offer"]>>, <<[Handoff EXCEPT !.roles = {"weather"}]>>,
  <<Book("a", {"infra_incident", "escalation"}, "any", 3, None, "escalate", "human")>>,
  <<Book("a", {"crm_flag"}, "any", None, None, "notify", "auto")>>}
Ask(url, secret, off, level, kill) ==
  [url |-> url, secret |-> secret, slack |-> None, off |-> off, level |-> level, kill |-> kill]
MCCall == {Ask("ok", None, None, None, None), Ask("ok", TRUE, {"a"}, None, None), Ask("", FALSE, None, 1, TRUE),
  Ask(None, FALSE, None, None, None), Ask(None, None, {"x"}, None, TRUE), Ask(None, None, {}, 2, FALSE),
  Ask("bad", TRUE, None, 1, None), [Ask(None, None, {}, None, FALSE) EXCEPT !.slack = "ok"]}
MCCalls == [1..3 -> MCCall]
Ended(id, on, type, bucket, revenue) == [id |-> id, day |-> on, type |-> type, bucket |-> bucket, revenue |-> revenue]
Renewed == Ended("o1", 10, "renewal_secured", "protected", 7)
Lost == Ended("o2", 20, "churn_lost", "lost", -5)
Grew == Ended("o3", 1, "expansion_closed", "expansion", 4)
Noted == Ended("o4", 12, "note", None, 1)
MCOutcomes == {Renewed, Lost, Grew, Noted}
Courses(r) ==
  LET out == Sent(r, 5, "delivered")  lost == Sent(r, 12, "failed") IN
  {r, Approved(r), out, lost, Sent(r, 18, "not_configured"), Started(out), Reported(r, "cancelled", None, 60, {}), Reported(r, "cancelled", Lost, 60, {"churn_lost"}),
   Reported(out, "done", Renewed, 60, {"renewal_secured"}), Reported(Started(out), "done", Noted, 60, {}),
   Reported(lost, "failed", Lost, 60, {}), Reported(out, "done", Grew, 60, {})}
MCBoard ==
  {{x, y, z} : x \in Courses(Proposed(1, "a", {"commercial_pressure", "usage_decline"}, 9)),
               y \in Courses(Proposed(2, "a", {"usage_decline"}, 9)),
               z \in Courses(Proposed(3, "b", {"announcement", "advocacy"}, 6))}
Hook(before, after) == [before |-> before, after |-> after, outcomes |-> {"o1", "o3"}]
MCReading == {(<<"int", 1>> :> Hook(60, 70)) @@ (<<"int", 2>> :> h) : h \in {Hook(70, 62), Hook(None, 70), Hook(50, 53)}}
=============================================================================
