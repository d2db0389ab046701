---------------------------- MODULE SignalReview ----------------------------
(***************************************************************************)
(* People verify the evidence of one signal: accept, reject or reclassify  *)
(* its context-graph nodes, the whole signal or one node at a time.        *)
(*   signal_engine/review.py                                               *)
(*                                                                         *)
(* A review is a database session: it reads the nodes, writes the ones it  *)
(* decides back whole (a flush, which holds their rows until the commit),  *)
(* looks at the nodes of the signal again, commits, and then has the       *)
(* journey of the account rebuilt.  Sessions of several reviewers          *)
(* interleave.  Names that begin with Mut are wrong variants.              *)
(***************************************************************************)
EXTENDS Naturals, Sequences, FiniteSets

CONSTANTS
  Reviewer,
  Evidence,             \* the nodes of the signal
  Subtype,
  RoleOf(_),            \* role of a subtype (the tenant's taxonomy)
  UrgencyOf(_),         \* effective urgency of a role: 1 low .. 4 critical
  MaxReviews            \* bound on the decisions explored

\* A review is of a signal that has nodes (review.py:80-82); there are finitely many.
ASSUME ReviewAssumption == IsFiniteSet(Evidence) /\ Evidence # {}

VARIABLES
  evidence,             \* [Evidence -> [subtype, role, urgency, review]]
  signal,               \* qualitative_signals: [flagged (requires_review), urgency]
  reviews,              \* signal_reviews, in order
  session,              \* [Reviewer -> what the session read and decided]
  journey,              \* what the account's journey was last built from
  mixed,                \* history: two reviews were under way at once
  unbuilt               \* history: the last rebuild failed

rvars == <<evidence, signal, reviews, session, journey, mixed, unbuilt>>

Nothing == "none"         \* no decision
NoSession == [at |-> "none"]
Decision == {"accept", "reject", "reclassify"}
StatusFor(decision) ==
  CASE decision = "accept" -> "accepted" [] decision = "reject" -> "rejected"
    [] decision = "reclassify" -> "reclassified"

Largest(S) == CHOOSE x \in S : \A y \in S : y <= x

\* The journey leaves rejected evidence out; the urgency of the signal is the highest
\* of the rest, 0 when nothing is left.
LiveIn(nodes) == {n \in DOMAIN nodes : nodes[n].review # "rejected"}

UrgencyIn(nodes) ==
  IF LiveIn(nodes) = {} THEN 0 ELSE Largest({nodes[n].urgency : n \in LiveIn(nodes)})

Shown(nodes) == [n \in LiveIn(nodes) |-> nodes[n].role]

\* Extraction has typed the nodes and set the flag; nobody has reviewed anything.
ReviewInit ==
  /\ \E st \in [Evidence -> Subtype], flag \in BOOLEAN :
       /\ evidence = [n \in Evidence |->
            [subtype |-> st[n], role |-> RoleOf(st[n]), urgency |-> UrgencyOf(RoleOf(st[n])),
             review |-> Nothing]]
       /\ signal = [flagged |-> flag, urgency |-> UrgencyIn(evidence)]
       /\ journey = Shown(evidence)
  /\ reviews = <<>> /\ session = [r \in Reviewer |-> NoSession] /\ mixed = FALSE /\ unbuilt = FALSE

-----------------------------------------------------------------------------
\* Reclassifying re-types a node: role and urgency follow the new subtype.
MutRetyped(node, subtype) == [node EXCEPT !.subtype = subtype]

Retyped(node, subtype) ==
  [node EXCEPT !.subtype = subtype, !.role = RoleOf(subtype), !.urgency = UrgencyOf(RoleOf(subtype))]

Decided(node, decision, subtype) ==
  [IF decision = "reclassify" THEN Retyped(node, subtype) ELSE node
     EXCEPT !.review = StatusFor(decision)]

\* A blanket accept confirms what is undecided; it never undoes a specific decision.
MutUndecided(nodes) == nodes

Undecided(nodes) == {n \in nodes : evidence[n].review \in {Nothing, "accepted"}}

\* The nodes a call is about: the one named, or all of the signal.
Picked(named, decision) ==
  IF named # {} THEN named
  ELSE IF decision = "accept" THEN Undecided(Evidence) ELSE Evidence

\* Reading the signal and its nodes, and deciding.  Bound: once two reviews overlapped no
\* third begins.
Review(r, decision, named, subtype) ==
  LET picked == Picked(named, decision) IN
  /\ session[r].at = "none" /\ Len(reviews) < MaxReviews /\ ~mixed
  /\ picked # {} /\ (decision = "reclassify" => Cardinality(picked) = 1)
  /\ session' = [session EXCEPT ![r] =
       [at |-> "decided", decision |-> decision, blanket |-> named = {}, picked |-> picked,
        new |-> [n \in picked |-> Decided(evidence[n], decision, subtype)],
        retyped |-> decision = "reclassify", clears |-> FALSE, was |-> signal.urgency, urgency |-> 0]]
  /\ mixed' = \E q \in Reviewer : session[q].at # "none"
  /\ UNCHANGED <<evidence, signal, reviews, journey, unbuilt>>

\* The second look flushes the decided nodes, waiting for sessions that hold one of
\* them, and sees the other nodes as last committed.
Holders(r) == {q \in Reviewer \ {r} : session[q].at = "flushed" /\ session[q].picked \cap session[r].picked # {}}

Seen(r) == [n \in Evidence |-> IF n \in session[r].picked THEN session[r].new[n] ELSE evidence[n]]

Clears(nodes) == \A n \in DOMAIN nodes : nodes[n].review # Nothing

Flush(r) ==
  /\ session[r].at = "decided" /\ Holders(r) = {}
  /\ session' = [session EXCEPT ![r].at = "flushed", ![r].clears = Clears(Seen(r)),
                   ![r].urgency = UrgencyIn(Seen(r))]
  /\ UNCHANGED <<evidence, signal, reviews, journey, mixed, unbuilt>>

\* The commit: the JSON of a decided node as a whole, its subtype column only when it was
\* re-typed, the columns of the signal that are to change from what was read, and one
\* history row for each node.
Written(r, n) ==
  IF n \notin session[r].picked THEN evidence[n]
  ELSE IF session[r].retyped THEN session[r].new[n]
       ELSE [session[r].new[n] EXCEPT !.subtype = evidence[n].subtype]

RowsOf(r) ==
  CHOOSE rows \in [1..Cardinality(session[r].picked) ->
                     {[node |-> n, status |-> session[r].new[n].review] : n \in session[r].picked}] :
    \A i, j \in DOMAIN rows : rows[i] = rows[j] => i = j

CommitReview(r) ==
  /\ session[r].at = "flushed"
  /\ evidence' = [n \in Evidence |-> Written(r, n)]
  /\ signal' = [flagged |-> signal.flagged /\ ~session[r].clears,
                urgency |-> IF session[r].urgency = session[r].was THEN signal.urgency
                            ELSE session[r].urgency]
  /\ reviews' = reviews \o RowsOf(r)
  /\ session' = [session EXCEPT ![r] = [at |-> "rebuild"]]
  /\ UNCHANGED <<journey, mixed, unbuilt>>

\* A session that fails before its commit leaves nothing.
RollBack(r) ==
  /\ session[r].at \in {"decided", "flushed"}
  /\ session' = [session EXCEPT ![r] = NoSession]
  /\ UNCHANGED <<evidence, signal, reviews, journey, mixed, unbuilt>>

\* The rebuild: a read of the evidence, then the write of the journey.
ReadEvidence(r) ==
  /\ session[r].at = "rebuild"
  /\ session' = [session EXCEPT ![r] = [at |-> "write", shows |-> Shown(evidence)]]
  /\ UNCHANGED <<evidence, signal, reviews, journey, mixed, unbuilt>>

WriteJourney(r) ==
  /\ session[r].at = "write"
  /\ journey' = session[r].shows /\ unbuilt' = FALSE
  /\ session' = [session EXCEPT ![r] = NoSession]
  /\ UNCHANGED <<evidence, signal, reviews, mixed>>

\* A failed rebuild is logged; the decision stands and the journey is as it was.
RebuildFails(r) ==
  /\ session[r].at \in {"rebuild", "write"}
  /\ unbuilt' = TRUE
  /\ session' = [session EXCEPT ![r] = NoSession]
  /\ UNCHANGED <<evidence, signal, reviews, journey, mixed>>

ReviewNext ==
  \E r \in Reviewer :
    \/ \E decision \in Decision, named \in {{}} \cup {{n} : n \in Evidence}, st \in Subtype :
         /\ decision # "reclassify" => st = CHOOSE s \in Subtype : TRUE
         /\ Review(r, decision, named, st)
    \/ Flush(r) \/ CommitReview(r) \/ RollBack(r)
    \/ ReadEvidence(r) \/ WriteJourney(r) \/ RebuildFails(r)

ReviewSpec == ReviewInit /\ [][ReviewNext]_rvars

-----------------------------------------------------------------------------
\* Between reviews that did not overlap, what the signal, the history and the journey
\* say is what the nodes say: the urgency is that of the evidence not rejected, the flag
\* is down once all is decided, role follows subtype, the last history row of a node is
\* its status and the journey shows the live evidence (review.py:124-137).
LastStatus(n) ==
  LET rows == {i \in DOMAIN reviews : reviews[i].node = n}
  IN IF rows = {} THEN Nothing ELSE reviews[Largest(rows)].status

ReviewShown ==
  ~mixed /\ (\A r \in Reviewer : session[r].at = "none") =>
    /\ signal.urgency = UrgencyIn(evidence)
    /\ Clears(evidence) => ~signal.flagged
    /\ \A n \in Evidence : evidence[n].role = RoleOf(evidence[n].subtype)
    /\ \A n \in Evidence : evidence[n].review = LastStatus(n)
    /\ ~unbuilt => journey = Shown(evidence)

\* However reviews interleave, the flag comes down only when every node has a decision
\* and no decision is lost; and a blanket accept changes no rejected or reclassified
\* node, unless reviews overlapped (review.py:95-101, 124-127).
ReviewStands ==
  [][/\ signal.flagged /\ ~signal'.flagged => \A n \in Evidence : evidence'[n].review # Nothing
     /\ \A n \in Evidence : evidence[n].review # Nothing => evidence'[n].review # Nothing
     /\ \A r \in Reviewer :
          session[r].at = "flushed" /\ session[r].decision = "accept" /\ session[r].blanket
            /\ session'[r].at = "rebuild" /\ ~mixed =>
          \A n \in Evidence :
            evidence[n].review \in {"rejected", "reclassified"} => evidence'[n] = evidence[n]
    ]_rvars
=============================================================================
