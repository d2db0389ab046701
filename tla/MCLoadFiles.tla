---------------------------- MODULE MCLoadFiles ----------------------------
(***************************************************************************)
(* A small instance of LoadFiles: two accounts with source ids, named in   *)
(* every way a row can; a file that gives the id of one to a third name;   *)
(* rows that repeat each other, within a file and across files; people of  *)
(* a profile in files.                                                     *)
(***************************************************************************)
EXTENDS LoadFiles, TLC

CONSTANTS nA, nB, nC, idA, idB, d1, s1, o1, li, jo, tx, kp
Acc(name, src, profile) == [name |-> name, src |-> src, profile |-> profile]
By(name, src) == [name |-> name, src |-> src]
MCPresent == {[accounts |-> <<>>, nodes |-> <<>>, edges |-> <<>>],
  [accounts |-> <<Acc(nA, None, <<>>)>>, nodes |-> <<>>, edges |-> <<>>]}
Won(by, ref, on) == by @@ [ref |-> ref, title |-> tx, type |-> "protected", day |-> on, rev |-> 5, links |-> {s1}]
MCLogged == {Won(By(nA, None), None, 1)}
MCBatch == {
  ("account_details.csv" :> <<Acc(nA, idA, [csm_name |-> li]), Acc(nB, idB, <<>>)>>)
    @@ ("accounts.csv" :> <<Acc(nB, None, [csm_name |-> jo, primary_champion_name |-> li])>>)
    @@ ("outcomes.csv" :> <<Won(By(None, idA), o1, 1), Won(By(nB, None), None, 0)>>)
    @@ ("decisions.csv" :> <<By(None, idA) @@ [id |-> d1, title |-> tx, day |-> 0],
                             By(nA, None) @@ [id |-> None, title |-> tx, day |-> 1],
                             By(None, idB) @@ [id |-> d1, title |-> tx, day |-> 1]>>),
  "account_details.csv" :> <<Acc(nC, idA, <<>>)>>,
  ("accounts.csv" :> <<Acc(nB, None, [csm_name |-> jo, primary_champion_name |-> li])>>)
    @@ ("enhanced_qualitative_signals.csv" :>
          <<By(nA, None) @@ [id |-> s1, ref |-> None, text |-> tx, day |-> 1],
            By(nB, None) @@ [id |-> None, ref |-> None, text |-> tx, day |-> 1]>>)
    @@ ("engagement_events.csv" :> <<By(None, 1001) @@ [title |-> tx, day |-> 1]>>)
    @@ ("signal_edges.csv" :> <<By(nA, None) @@ [from |-> s1, to |-> o1], By(nB, None) @@ [from |-> s1, to |-> d1]>>),
  ("stakeholders.csv" :> <<By(nA, None) @@ [who |-> li, role |-> "csm", day |-> 1],
                           By(nA, None) @@ [who |-> jo, role |-> "contact", day |-> 0],
                           By(nB, None) @@ [who |-> jo, role |-> "contact", day |-> 0]>>)
    @@ ("outcomes.csv" :> <<Won(By(nA, None), None, 0), Won(By(nA, None), o1, 2)>>)
    @@ ("account_business_profiles.csv" :> <<By(None, idA) @@ [profile |-> [primary_champion_name |-> jo]]>>)
    @@ ("industry_benchmarks.csv" :> <<[kpi |-> kp, value |-> "ours"]>>)}
MCCurated == <<[kpi |-> kp, value |-> "curated"]>>
=============================================================================
