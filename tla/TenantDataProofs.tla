---------------------------- MODULE TenantDataProofs ----------------------------
(***************************************************************************)
(* Proofs about TenantData for any files, measurements, months, processes, *)
(* scores and bounds.  The six properties are proved one by one, each from *)
(* an invariant of its own over the variables it needs.                    *)
(***************************************************************************)
EXTENDS TenantData, FiniteSetTheorems, SequenceTheorems, WellFoundedInduction, TLAPS

\* Where a call can be.
Loading == {"lineage", "accounts", "stamp", "kpis", "consume"}
Running == Loading \cup {"look", "health", "write", "sync", "compare", "status", "finish", "fail"}
Deciding == {"approve", "reject"}

Fields == {"at", "run", "mode", "files", "ids", "errors", "stamp", "version", "rows", "for",
           "given", "seen", "failing"}

\* Every process has a record with these fields.
SlotShape == DOMAIN call = Slot /\ \A s \in Slot : DOMAIN call[s] = Fields

-----------------------------------------------------------------------------
\* The run of a call.
RunOf(s) ==
  /\ call[s].at \in Running \cup {"idle", "note", "propose", "configure"} \cup Deciding
  /\ call[s].run \in 0..Len(runs)
  /\ call[s].at \in {"idle", "propose", "configure"} \cup Deciding => call[s].run = 0
  /\ call[s].at \in Running => call[s].run # 0
  /\ call[s].at = "note" => call[s].run # 0 /\ runs[call[s].run] # "running"

RunInv ==
  /\ SlotShape
  /\ runs \in Seq({"running", "success", "partial", "failed"})
  /\ \A s \in Slot : RunOf(s)
  /\ RunsEnd

-----------------------------------------------------------------------------
\* Moments, weights and proposals are what they should be, in the tables and in what a
\* call has read.
StampsSound ==
  /\ kpi \in [Key -> Nat]
  /\ health \in [Month -> HealthRow \cup {None}]
  /\ \A s \in Slot : call[s].stamp \in Nat

Proposal == [state : {"proposed", "superseded", "approved", "rejected"}, applied : Nat \cup {None},
             recompute : {"running", "success", "partial", "failed", None}]

SeenSound(s) ==
  call[s].at = "write" =>
    /\ DOMAIN call[s].seen \subseteq Month
    /\ \A m \in DOMAIN call[s].seen : call[s].seen[m] \in HealthRow

TypeInv ==
  /\ StampsSound
  /\ config.pillar \in Weights /\ config.kpis \in Weights /\ config.version \in Nat
  /\ proposals \in Seq(Proposal)
  /\ \A s \in Slot : call[s].for \in Weights /\ call[s].version \in Nat /\ SeenSound(s)

-----------------------------------------------------------------------------
\* The latest score and the status, and what the one call at work knows of them.
SyncSound(s) ==
  /\ call[s].at = "compare" => call[s].seen = Classify(ScoreOf(Latest))
  /\ call[s].at = "status" => call[s].seen = Synced(Classify(ScoreOf(Latest)), status)

StatusInv ==
  /\ health = [m \in Month |-> health[m]]
  /\ ~known => Scored = {}
  /\ \A s \in Slot : call[s].at = "write" => known
  /\ behind \in BOOLEAN
  /\ ~overlapped => \A s \in Slot : SyncSound(s)
  /\ ~overlapped /\ ~behind => I12(Accounts) = {}

-----------------------------------------------------------------------------
\* Uploads.
Files == [content : Content \cup Before, run : Nat \cup {None}]

FileOf(u) == uploads[u].content.file
KeysOf(u) == uploads[u].content.keys

\* What the staging area holds is an upload of that file.
StagedSound ==
  /\ DOMAIN staged = File
  /\ \A f \in File : staged[f] # 0 => staged[f] \in DOMAIN uploads /\ FileOf(staged[f]) = f

\* What a run that is at its files has read, and what of it is in the tables by now.
HoldsSound(s) ==
  call[s].at \in Loading =>
    /\ call[s].files \subseteq DOMAIN uploads
    /\ \A f \in File : staged[f] # 0 => staged[f] \in call[s].files \cup raced
    /\ call[s].at \in {"stamp", "kpis", "consume"} /\ call[s].errors = {} =>
         Holds(s, AccountsFile) \subseteq loaded
    /\ call[s].at = "kpis" =>
         /\ call[s].stamp # 0
         /\ \A u \in Holds(s, KpiFile) \ unresolved : KeysOf(u) \subseteq call[s].rows
    /\ call[s].at = "consume" /\ call[s].errors = {} => Holds(s, KpiFile) \subseteq loaded

UploadInv ==
  /\ uploads \in Seq(Files) /\ loaded \subseteq DOMAIN uploads
  /\ StagedSound
  /\ \A s \in Slot : HoldsSound(s)
  /\ UploadsNotLost

-----------------------------------------------------------------------------
\* Until two calls overlap one process at most is at work.
OneAtWork == ~overlapped => \A s, t \in Slot : Active(s) /\ Active(t) => s = t

\* A score is of everything measured before it was calculated.
ScoreSound(m) ==
  health[m] # None => \A k \in Measured : MonthOf(k) = m /\ kpi[k] <= health[m].at => k \in health[m].keys

\* What the one call at work has read is still so.
ReadSound(s) ==
  /\ call[s].at = "kpis" => \A m \in Scored : health[m].at < call[s].stamp
  /\ call[s].at = "write" =>
       /\ DOMAIN call[s].seen = ToScore(call[s].mode) \ call[s].failing
       /\ \A m \in DOMAIN call[s].seen :
            /\ call[s].seen[m] \in HealthRow
            /\ call[s].seen[m].keys = {k \in Measured : MonthOf(k) = m}

ScoreInv ==
  /\ OneAtWork
  /\ ~overlapped =>
       /\ \A m \in Month : ScoreSound(m)
       /\ \A s \in Slot : ReadSound(s)
       /\ ScoresSeeAll

-----------------------------------------------------------------------------
\* Every score shows the weights p, except those that could not be calculated.
Shows(p) == \A m \in Scored : (health[m].pillar = p /\ health[m].kpis = p) \/ m \in missed
InForce(p) == config.pillar = p /\ config.kpis = p
StillOpen(p) == proposals[p].state = "proposed"

\* What the one call at work knows of the proposal and of the weights.
DecisionSound(s) ==
  LET c == call[s] IN
  /\ c.at \in Deciding => c.for \in DOMAIN proposals /\ StillOpen(c.for)
  /\ c.at \in {"approve", "configure"} => c.version = config.version
  /\ c.at = "propose" => c.ids = OpenProposals
  /\ c.at = "write" =>
       \A m \in DOMAIN c.seen : c.seen[m].pillar = config.pillar /\ c.seen[m].kpis = config.kpis
  /\ c.at \in Running \cup {"note"} /\ c.for \in DOMAIN proposals =>
       /\ ~StillOpen(c.for) /\ InForce(c.for)
       /\ c.at # "note" => c.mode = "full_recalc"
       /\ c.at \in Syncing \cup {"finish"} /\ c.errors = {} => Shows(c.for)
       /\ c.at = "note" /\ runs[c.run] = "success" => Shows(c.for)

\* One proposal is open at most, no version is given twice, and weights said to be
\* calibrated are those of an approved proposal.
ProposalsSound ==
  /\ \A p, q \in OpenProposals : p = q
  /\ \A p \in DOMAIN proposals : StillOpen(p) => proposals[p].recompute = None /\ proposals[p].applied = None
  /\ \A p \in DOMAIN proposals : proposals[p].applied # None => proposals[p].applied <= config.version
  /\ \A p, q \in DOMAIN proposals :
       proposals[p].applied = proposals[q].applied /\ proposals[p].applied # None => p = q
  /\ config.origin = "wizard_c" =>
       \E p \in DOMAIN proposals :
         InForce(p) /\ proposals[p].state = "approved" /\ proposals[p].applied = config.version

ScoredMeasured == \A m \in Scored : \E k \in Measured : MonthOf(k) = m
Told == \A p \in DOMAIN proposals : proposals[p].recompute = "success" /\ InForce(p) => Shows(p)

WeightInv ==
  ~overlapped => ScoredMeasured /\ ProposalsSound /\ Told /\ \A s \in Slot : DecisionSound(s)

-----------------------------------------------------------------------------

-----------------------------------------------------------------------------
(***************************************************************************)
(* What the helpers do                                                     *)
(***************************************************************************)
\* One process moves.
Moved(s) ==
  /\ DOMAIN call' = Slot /\ DOMAIN call'[s] = Fields
  /\ \A t \in Slot : t # s => call'[t] = call[t]

\* A process goes on with the record c.
LEMMA SlotMoves ==
  ASSUME SlotShape, NEW s \in Slot, NEW c, DOMAIN c = Fields, call' = [call EXCEPT ![s] = c]
  PROVE  /\ SlotShape' /\ call'[s] = c
         /\ \A t \in Slot : t # s => call'[t] = call[t]
BY DEF SlotShape

LEMMA IdleShape == DOMAIN Idle = Fields
BY DEF Idle, Fields

\* A finite set of numbers has a greatest one: the smallest subset without one would
\* have a smaller subset without one.
LEMMA GreatestOfFinite ==
  ASSUME NEW S, S \subseteq Nat, IsFiniteSet(S), S # {}
  PROVE  \E t \in S : \A u \in S : u <= t
<1> DEFINE Bad(X) == X # {} /\ ~\E t \in X : \A u \in X : u <= t
           Sizes == {n \in Nat : \E X \in SUBSET S : Bad(X) /\ Cardinality(X) = n}
<1> SUFFICES ASSUME Bad(S) PROVE FALSE
  OBVIOUS
<1>1. Sizes # {}
  <2>1. Cardinality(S) \in Nat
    BY FS_CardinalityType
  <2> QED
    BY <2>1
<1>2. PICK n \in Sizes : \A l \in Sizes : ~(<<l, n>> \in OpToRel(<, Nat))
  <2> HIDE DEF Sizes
  <2>1. Sizes \subseteq Nat
    BY DEF Sizes
  <2> QED
    BY <1>1, <2>1, NatLessThanWellFounded, WFMin
<1>3. PICK X \in SUBSET S : Bad(X) /\ Cardinality(X) = n
  OBVIOUS
<1>4. PICK x \in X : TRUE
  BY <1>3
<1>5. IsFiniteSet(X)
  BY FS_Subset
<1>6. IsFiniteSet(X \ {x}) /\ Cardinality(X \ {x}) = n - 1 /\ n - 1 \in Nat
  <2>1. Cardinality(X \ {x}) \in Nat /\ Cardinality(X) \in Nat
    BY <1>5, FS_RemoveElement, FS_CardinalityType
  <2> QED
    BY <1>3, <1>5, <2>1, FS_RemoveElement
<1>7. Bad(X \ {x})
  <2>1. CASE X \ {x} = {}
    BY <1>3, <1>4, <2>1
  <2>2. ASSUME NEW y \in X \ {x}, \A u \in X \ {x} : u <= y PROVE FALSE
    <3>1. x \in Nat /\ y \in Nat /\ X \subseteq Nat
      OBVIOUS
    <3>2. CASE x <= y
      BY <1>3, <2>2, <3>1, <3>2
    <3>3. CASE y <= x
      BY <1>3, <1>4, <2>2, <3>1, <3>3
    <3> QED
      BY <3>1, <3>2, <3>3
  <2> QED
    BY <2>1, <2>2
<1>8. n - 1 \in Sizes
  BY <1>6, <1>7
<1>9. <<n - 1, n>> \in OpToRel(<, Nat)
  BY <1>6 DEF OpToRel
<1> QED
  BY <1>2, <1>8, <1>9

\* The values of a function on a finite set are finitely many.
LEMMA FiniteImage ==
  ASSUME NEW S, IsFiniteSet(S), NEW f, S \subseteq DOMAIN f
  PROVE  IsFiniteSet({f[x] : x \in S})
<1> DEFINE T == {f[x] : x \in S}
           g == [x \in S |-> f[x]]
<1>1. g \in Surjection(S, T)
  <2>1. g \in [S -> T] /\ \A t \in T : \E x \in S : g[x] = t
    OBVIOUS
  <2> HIDE DEF g, T
  <2> QED
    BY <2>1 DEF Surjection
<1> HIDE DEF g, T
<1>2. IsFiniteSet(T)
  BY <1>1, FS_Surjection
<1> QED
  BY <1>2 DEF T

\* The clock shows a moment after every stamp there is.
LEMMA NowIsLater ==
  ASSUME StampsSound, SlotShape, Slot # {}
  PROVE  Now \in Nat /\ Now # 0 /\ \A u \in Stamps : u < Now
<1> DEFINE rows == {n \in Month : health[n] # None}
           A == {kpi[k] : k \in Key}
           B == {health[m].at : m \in rows}
           C == {call[s].stamp : s \in Slot}
<1>1. A \subseteq Nat /\ C \subseteq Nat
  BY DEF StampsSound
<1>2. B \subseteq Nat
  <2>1. \A m \in rows : health[m] \in HealthRow
    BY DEF StampsSound
  <2> QED
    BY <2>1 DEF HealthRow
<1>3. IsFiniteSet(A)
  BY FiniteImage, DataAssumption DEF StampsSound
<1>4. IsFiniteSet(B)
  <2> DEFINE f == [m \in Month |-> health[m].at]
  <2>1. IsFiniteSet(rows)
    BY FS_Subset, DataAssumption
  <2>2. IsFiniteSet({f[m] : m \in rows})
    <3>1. rows \subseteq DOMAIN f
      OBVIOUS
    <3> HIDE DEF f, rows
    <3> QED
      BY <2>1, <3>1, FiniteImage
  <2>3. B = {f[m] : m \in rows}
    OBVIOUS
  <2> QED
    BY <2>2, <2>3
<1>5. IsFiniteSet(C)
  <2> DEFINE f == [s \in Slot |-> call[s].stamp]
  <2>1. IsFiniteSet({f[s] : s \in Slot})
    <3>1. Slot \subseteq DOMAIN f
      OBVIOUS
    <3> HIDE DEF f
    <3> QED
      BY <3>1, FiniteImage, DataAssumption
  <2>2. C = {f[s] : s \in Slot}
    OBVIOUS
  <2> QED
    BY <2>1, <2>2
<1>6. Stamps = (A \cup B) \cup C
  BY DEF Stamps
<1>7. C # {}
  OBVIOUS
<1> HIDE DEF A, B, C
<1>8. IsFiniteSet((A \cup B) \cup C) /\ Stamps \subseteq Nat /\ Stamps # {}
  BY <1>1, <1>2, <1>3, <1>4, <1>5, <1>6, <1>7, FS_Union
<1>9. PICK t \in Stamps : \A u \in Stamps : u <= t
  BY <1>6, <1>8, GreatestOfFinite
<1> DEFINE last == CHOOSE u \in Stamps : \A v \in Stamps : v <= u
<1>10. last \in Stamps /\ \A u \in Stamps : u <= last
  BY <1>9
<1>11. Now = 1 + last
  BY DEF Now
<1> HIDE DEF last
<1> QED
  BY <1>8, <1>10, <1>11

-----------------------------------------------------------------------------
(***************************************************************************)
(* Runs                                                                    *)
(***************************************************************************)
\* A call goes on and keeps its run, or goes from one call without a run to another.
LEMMA RunKept ==
  ASSUME RunInv, NEW s \in Slot, Moved(s), UNCHANGED runs, cut \subseteq cut',
         \/ call'[s].run = call[s].run /\ call[s].at \in Running /\ call'[s].at \in Running
         \/ call'[s].run = 0 /\ call[s].run = 0 /\ call'[s].at \in {"idle", "propose", "configure"} \cup Deciding
  PROVE  RunInv'
<1>1. SlotShape' /\ \A t \in Slot : t # s => call'[t] = call[t]
  BY DEF RunInv, SlotShape, Moved
<1>2. \A t \in Slot : call'[t].run = call[t].run
  BY <1>1
<1>3. ASSUME NEW t \in Slot PROVE RunOf(t)'
  <2>1. RunOf(t) /\ RunOf(s)
    BY DEF RunInv
  <2> QED
    BY <1>1, <2>1 DEF RunOf, Running, Loading, Deciding
<1>4. RunsEnd'
  BY <1>2 DEF RunInv, RunsEnd
<1> QED
  BY <1>1, <1>3, <1>4 DEF RunInv

\* A run begins: its row says 'running', and the call that made it has it.
LEMMA RunBegins ==
  ASSUME RunInv, NEW s \in Slot, NEW mode, NEW for, call[s].run = 0, Enter(s, mode, for),
         UNCHANGED cut
  PROVE  RunInv'
<1> DEFINE c == [Idle EXCEPT !.at = "look", !.run = Len(runs) + 1, !.mode = mode, !.for = for]
<1>1. /\ DOMAIN c = Fields /\ c.at = "look" /\ c.run = Len(runs) + 1
      /\ call' = [call EXCEPT ![s] = c] /\ runs' = Append(runs, "running")
  BY DEF Enter, Goto, Idle, Fields
<1> HIDE DEF c
<1>2. /\ SlotShape' /\ call'[s] = c /\ \A t \in Slot : t # s => call'[t] = call[t]
  BY <1>1, SlotMoves DEF RunInv
<1>3. /\ runs' \in Seq({"running", "success", "partial", "failed"})
      /\ Len(runs') = Len(runs) + 1 /\ Len(runs) \in Nat
      /\ \A r \in 1..Len(runs) : runs'[r] = runs[r]
      /\ DOMAIN runs' = 1..Len(runs) + 1
  BY <1>1 DEF RunInv
<1>4. ASSUME NEW t \in Slot PROVE RunOf(t)'
  <2>1. RunOf(t)
    BY DEF RunInv
  <2> QED
    BY <1>1, <1>2, <1>3, <2>1 DEF RunOf, Running, Loading, Deciding
<1>5. ASSUME NEW r \in DOMAIN runs', runs'[r] = "running"
      PROVE  r \in cut' \/ \E t \in Slot : call'[t].run = r
  <2>1. CASE r = Len(runs) + 1
    BY <1>1, <1>2, <2>1
  <2>2. CASE r \in DOMAIN runs
    <3>1. runs[r] = "running"
      BY <1>3, <1>5, <2>2 DEF RunInv
    <3>2. r \in cut \/ \E t \in Slot : call[t].run = r
      BY <2>2, <3>1 DEF RunInv, RunsEnd
    <3>3. r # 0
      BY <1>3, <2>2 DEF RunInv
    <3> QED
      BY <1>2, <3>2, <3>3
  <2> QED
    BY <1>3, <1>5, <2>1, <2>2 DEF RunInv
<1> QED
  BY <1>2, <1>3, <1>4, <1>5 DEF RunInv, RunsEnd

\* A run ends with an outcome, and its call is over or notes it.
LEMMA RunEnds ==
  ASSUME RunInv, NEW s \in Slot, call[s].at \in Running,
         NEW outcome \in {"success", "partial", "failed"},
         runs' = [runs EXCEPT ![call[s].run] = outcome], Leaves(s), UNCHANGED cut
  PROVE  RunInv'
<1> DEFINE c == IF call[s].for = 0 THEN Idle
                ELSE [Idle EXCEPT !.at = "note", !.run = call[s].run, !.for = call[s].for]
<1>1. /\ DOMAIN c = Fields /\ call' = [call EXCEPT ![s] = c]
      /\ \/ c.at = "idle" /\ c.run = 0
         \/ c.at = "note" /\ c.run = call[s].run
  <2>1. CASE call[s].for = 0
    BY <2>1 DEF Leaves, Goto, Idle, Fields
  <2>2. CASE call[s].for # 0
    BY <2>2 DEF Leaves, Goto, Idle, Fields
  <2> QED
    BY <2>1, <2>2
<1> HIDE DEF c
<1>2. /\ SlotShape' /\ call'[s] = c /\ \A t \in Slot : t # s => call'[t] = call[t]
  BY <1>1, SlotMoves DEF RunInv
<1>3. call[s].run \in 1..Len(runs) /\ Len(runs) \in Nat
  BY DEF RunInv, RunOf
<1>4. /\ runs' \in Seq({"running", "success", "partial", "failed"})
      /\ Len(runs') = Len(runs) /\ DOMAIN runs' = DOMAIN runs
      /\ \A r \in DOMAIN runs : runs'[r] = IF r = call[s].run THEN outcome ELSE runs[r]
  BY <1>3 DEF RunInv
<1>5. ASSUME NEW t \in Slot PROVE RunOf(t)'
  <2>1. RunOf(t) /\ RunOf(s)
    BY DEF RunInv
  <2> QED
    BY <1>1, <1>2, <1>3, <1>4, <2>1 DEF RunOf, Running, Loading, Deciding
<1>6. RunsEnd'
  BY <1>2, <1>4 DEF RunInv, RunsEnd
<1> QED
  BY <1>2, <1>4, <1>5, <1>6 DEF RunInv

\* A call that has nothing running, or whose process stops, is gone.
LEMMA RunLeft ==
  ASSUME RunInv, NEW s \in Slot, call' = [call EXCEPT ![s] = Idle], UNCHANGED runs,
         cut \subseteq cut', call[s].run \in cut' \/ call[s].at \notin Running
  PROVE  RunInv'
<1>1. /\ SlotShape' /\ call'[s] = Idle /\ \A t \in Slot : t # s => call'[t] = call[t]
  BY SlotMoves, IdleShape DEF RunInv
<1>2. ASSUME NEW t \in Slot PROVE RunOf(t)'
  <2>1. RunOf(t)
    BY DEF RunInv
  <2> QED
    BY <1>1, <2>1 DEF RunOf, Running, Loading, Deciding, Idle
<1>3. ASSUME NEW r \in DOMAIN runs, runs[r] = "running"
      PROVE  r \in cut' \/ \E t \in Slot : call'[t].run = r
  <2>1. r \in cut \/ \E t \in Slot : call[t].run = r
    BY <1>3 DEF RunInv, RunsEnd
  <2>2. r # 0
    BY DEF RunInv
  <2>3. call[s].run = r => r \in cut'
    BY <1>3, <2>2 DEF RunInv, RunOf
  <2> QED
    BY <1>1, <2>1, <2>3
<1> QED
  BY <1>1, <1>2, <1>3 DEF RunInv, RunsEnd

\* The steps of TenantData, grouped by the operation they belong to.
Run(s) ==
  \/ LookStaged(s) \/ ReadLineage(s) \/ LoadAccounts(s) \/ StampKpis(s) \/ LoadKpis(s)
  \/ PhaseFails(s) \/ Consume(s)
Scoring(s) ==
  \/ ScoreRead(s) \/ ScoreWrite(s) \/ ScoreFails(s) \/ SyncStatus(s) \/ SyncFails(s)
Ending(s) == Finish(s) \/ Raise(s) \/ Abort(s) \/ Stop(s)
Calibrating(s) ==
  \/ ProposeRead(s) \/ ProposeCommit(s)
  \/ \E p \in 1..MaxProposals, d \in {"approve", "reject"} : DecideRead(s, p, d)
  \/ RejectCommit(s) \/ ApproveCommit(s) \/ NoteRecompute(s)
  \/ \E fields \in Given : ConfigureRead(s, fields)
  \/ ConfigureCommit(s)

LEMMA StepKinds ==
  ASSUME [TenantNext]_tvars
  PROVE  \/ \E c \in Content : Upload(c)
         \/ \E s \in Slot : \E mode \in Mode : ProcessData(s, mode)
         \/ \E s \in Slot : Run(s)
         \/ \E s \in Slot : Scoring(s)
         \/ \E s \in Slot : Ending(s)
         \/ \E s \in Slot : Calibrating(s)
         \/ UNCHANGED tvars
BY Zenon DEF TenantNext, Run, Scoring, Ending, Calibrating

LEMMA RunInit == TenantInit => RunInv
<1> SUFFICES ASSUME TenantInit PROVE RunInv
  OBVIOUS
<1>1. runs = <<>> /\ call = [s \in Slot |-> Idle]
  BY DEF TenantInit
<1>2. SlotShape
  BY <1>1, IdleShape DEF SlotShape
<1>3. \A s \in Slot : RunOf(s)
  BY <1>1 DEF RunOf, Idle, Running, Loading, Deciding
<1> QED
  BY <1>1, <1>2, <1>3 DEF RunInv, RunsEnd

LEMMA RunRuns ==
  ASSUME RunInv, NEW s \in Slot, Run(s) \/ Scoring(s)
  PROVE  RunInv'
<1>1. DOMAIN call = Slot /\ DOMAIN call[s] = Fields
  BY DEF RunInv, SlotShape
<1>2. /\ UNCHANGED <<runs, cut>>
      /\ call[s].at \in Running
      /\ Moved(s) /\ call'[s].at \in Running /\ call'[s].run = call[s].run
  <2> USE DEF data, history, At, Goto, Break, Running, Loading, Fields, Moved
  <2>1. CASE LookStaged(s)
    BY <1>1, <2>1 DEF LookStaged
  <2>2. CASE ReadLineage(s)
    BY <1>1, <2>2 DEF ReadLineage
  <2>3. CASE LoadAccounts(s)
    BY <1>1, <2>3 DEF LoadAccounts
  <2>4. CASE StampKpis(s)
    BY <1>1, <2>4 DEF StampKpis
  <2>5. CASE LoadKpis(s)
    BY <1>1, <2>5 DEF LoadKpis
  <2>6. CASE PhaseFails(s)
    BY <1>1, <2>6 DEF PhaseFails
  <2>7. CASE Consume(s)
    BY <1>1, <2>7 DEF Consume
  <2>8. CASE ScoreRead(s)
    BY <1>1, <2>8 DEF ScoreRead
  <2>9. CASE ScoreWrite(s)
    BY <1>1, <2>9 DEF ScoreWrite
  <2>10. CASE ScoreFails(s)
    BY <1>1, <2>10 DEF ScoreFails
  <2>11. CASE SyncStatus(s)
    BY <1>1, <2>11 DEF SyncStatus, SyncScores, SyncCompare, SyncCommit, Syncing
  <2>12. CASE SyncFails(s)
    BY <1>1, <2>12 DEF SyncFails, Syncing
  <2> QED
    BY <2>1, <2>2, <2>3, <2>4, <2>5, <2>6, <2>7, <2>8, <2>9, <2>10, <2>11, <2>12
    DEF Run, Scoring
<1> QED
  BY <1>1, <1>2, RunKept DEF Moved

LEMMA RunEnding ==
  ASSUME RunInv, NEW s \in Slot, Ending(s)
  PROVE  RunInv'
<1>1. DOMAIN call = Slot /\ DOMAIN call[s] = Fields /\ RunOf(s)
  BY DEF RunInv, SlotShape
<1>2. CASE Finish(s)
  <2>1. PICK outcome \in {"success", "partial", "failed"} :
          runs' = [runs EXCEPT ![call[s].run] = outcome]
    BY <1>2 DEF Finish
  <2>2. call[s].at \in Running
    BY <1>2 DEF Finish, At, Running
  <2> QED
    BY <1>2, <2>1, <2>2, RunEnds DEF Finish, history
<1>3. CASE Abort(s)
  BY <1>3, RunEnds DEF Abort, Aborted, At, Running, history
<1>4. CASE Raise(s)
  <2>1. /\ Moved(s) /\ call'[s].at = "fail" /\ call'[s].run = call[s].run
        /\ UNCHANGED <<runs, cut>>
    BY <1>1, <1>4 DEF Raise, Break, data, history, Moved, Fields
  <2>2. call[s].at \in Running
    BY <1>1, <1>4 DEF Raise, RunOf, Deciding
  <2> QED
    BY <2>1, <2>2, RunKept DEF Running
<1>5. CASE Stop(s)
  BY <1>5, RunLeft DEF Stop, Break, data
<1> QED
  BY <1>2, <1>3, <1>4, <1>5 DEF Ending

LEMMA RunCalibrating ==
  ASSUME RunInv, NEW s \in Slot, Calibrating(s)
  PROVE  RunInv'
<1>1. DOMAIN call = Slot /\ DOMAIN call[s] = Fields /\ RunOf(s)
  BY DEF RunInv, SlotShape
<1>2. CASE ApproveCommit(s) \/ ConfigureCommit(s)
  <2>1. call[s].run = 0 /\ UNCHANGED cut
    BY <1>1, <1>2 DEF ApproveCommit, ConfigureCommit, At, RunOf, Deciding, history
  <2>2. \E for : Enter(s, RecomputeMode, for)
    BY <1>2 DEF ApproveCommit, ConfigureCommit
  <2> QED
    BY <2>1, <2>2, RunBegins
<1>3. CASE ProposeCommit(s) \/ RejectCommit(s) \/ NoteRecompute(s)
  <2>1. /\ call' = [call EXCEPT ![s] = Idle] /\ UNCHANGED <<runs, cut>>
        /\ call[s].at \notin Running
    BY <1>3 DEF ProposeCommit, RejectCommit, NoteRecompute, Goto, At, Running, Loading, data, history
  <2> QED
    BY <2>1, RunLeft
<1>4. ASSUME Moved(s), call[s].run = 0, call'[s].run = 0, UNCHANGED <<runs, cut>>,
             call'[s].at \in {"propose", "configure"} \cup Deciding
      PROVE  RunInv'
  BY <1>4, RunKept
<1>5. CASE ProposeRead(s)
  BY <1>1, <1>4, <1>5 DEF ProposeRead, Starts, Active, RunOf, data, Goto, Idle, Moved, Fields
<1>6. ASSUME NEW p, NEW d \in Deciding, DecideRead(s, p, d) PROVE RunInv'
  BY <1>1, <1>4, <1>6 DEF DecideRead, Starts, Active, RunOf, data, Goto, Idle, Moved, Fields
<1>7. ASSUME NEW fields, ConfigureRead(s, fields) PROVE RunInv'
  BY <1>1, <1>4, <1>7 DEF ConfigureRead, Starts, Active, RunOf, data, Goto, Idle, Moved, Fields
<1> QED
  BY <1>2, <1>3, <1>5, <1>6, <1>7 DEF Calibrating, Deciding

LEMMA RunNext == RunInv /\ [TenantNext]_tvars => RunInv'
<1> SUFFICES ASSUME RunInv, [TenantNext]_tvars PROVE RunInv'
  OBVIOUS
<1>1. ASSUME UNCHANGED <<call, runs, cut>> PROVE RunInv'
  BY <1>1 DEF RunInv, SlotShape, RunOf, RunsEnd
<1>2. ASSUME NEW s \in Slot, NEW mode, ProcessData(s, mode) PROVE RunInv'
  <2>1. RunOf(s) /\ call[s].at = "idle"
    BY <1>2 DEF RunInv, ProcessData, Starts, Active
  <2> QED
    BY <1>2, <2>1, RunBegins DEF ProcessData, RunOf
<1>3. ASSUME NEW c \in Content, Upload(c) PROVE RunInv'
  BY <1>1, <1>3 DEF Upload
<1>4. CASE UNCHANGED tvars
  BY <1>1, <1>4 DEF tvars, data, history
<1> QED
  BY <1>2, <1>3, <1>4, StepKinds, RunRuns, RunEnding, RunCalibrating

\* The row of a run says 'running' only while a process is at it, or when that process
\* stopped, for any number of processes and whatever fails
\* (cs_pulse_onboarding.py:588-592, 702-715).
THEOREM RunsEndHolds == TenantSpec => []RunsEnd
<1>1. RunInv => RunsEnd
  BY DEF RunInv
<1> QED
  BY <1>1, RunInit, RunNext, PTL DEF TenantSpec

-----------------------------------------------------------------------------
(***************************************************************************)
(* The way of a call                                                       *)
(***************************************************************************)
\* One process moves.  Only reading for the scores leads to "write", and only reading for
\* the status to "compare" and "status".
LEMMA CallMoves ==
  ASSUME RunInv, NEW s \in Slot,
         Run(s) \/ Scoring(s) \/ Ending(s) \/ Calibrating(s) \/ \E mode : ProcessData(s, mode)
  PROVE  /\ Moved(s) /\ (call'[s].at = "write" => ScoreRead(s))
         /\ call'[s].at \in {"compare", "status"} => SyncScores(s) \/ SyncCompare(s)
<1> DEFINE Reading == {"write", "compare", "status"}
<1>1. DOMAIN call = Slot /\ DOMAIN call[s] = Fields
  BY DEF RunInv, SlotShape
<1>2. DOMAIN Idle = Fields /\ Idle.at = "idle"
  BY DEF Idle, Fields
<1>3. ASSUME NEW c, DOMAIN c = Fields, c.at \notin Reading, call' = [call EXCEPT ![s] = c]
      PROVE  Moved(s) /\ call'[s].at \notin Reading
  BY <1>1, <1>3 DEF Moved
<1> USE DEF At, Goto, Break, Fields, Moved
<1>4. CASE LookStaged(s) \/ ReadLineage(s) \/ LoadAccounts(s)
  BY <1>1, <1>4 DEF LookStaged, ReadLineage, LoadAccounts
<1>5. CASE StampKpis(s) \/ LoadKpis(s) \/ PhaseFails(s) \/ Consume(s)
  BY <1>1, <1>5 DEF StampKpis, LoadKpis, PhaseFails, Consume
<1>6. CASE ScoreRead(s)
  BY <1>1, <1>6 DEF ScoreRead
<1>7. CASE ScoreWrite(s) \/ ScoreFails(s) \/ SyncStatus(s) \/ SyncFails(s)
  BY <1>1, <1>7 DEF ScoreWrite, ScoreFails, SyncStatus, SyncScores, SyncCompare, SyncCommit, SyncFails
<1>8. CASE Raise(s)
  BY <1>1, <1>8 DEF Raise
<1>9. CASE Finish(s) \/ Abort(s)
  <2>1. CASE call[s].for = 0
    BY <1>1, <1>2, <1>9, <2>1 DEF Finish, Abort, Leaves
  <2>2. CASE call[s].for # 0
    BY <1>1, <1>2, <1>9, <2>2 DEF Finish, Abort, Leaves, Idle
  <2> QED
    BY <2>1, <2>2
<1>10. CASE Stop(s) \/ ProposeCommit(s) \/ RejectCommit(s) \/ NoteRecompute(s)
  BY <1>1, <1>2, <1>10 DEF Stop, ProposeCommit, RejectCommit, NoteRecompute
<1>11. CASE ProposeRead(s) \/ \E fields : ConfigureRead(s, fields)
  BY <1>1, <1>11 DEF ProposeRead, ConfigureRead, Idle
<1>12. ASSUME NEW p, NEW d \in Deciding, DecideRead(s, p, d) PROVE Moved(s) /\ call'[s].at \notin Reading
  BY <1>1, <1>12 DEF DecideRead, Idle, Deciding
<1>13. ASSUME NEW mode, NEW for, Enter(s, mode, for) PROVE Moved(s) /\ call'[s].at \notin Reading
  BY <1>1, <1>13 DEF Enter, Idle
<1>14. CASE ApproveCommit(s) \/ ConfigureCommit(s) \/ \E mode : ProcessData(s, mode)
  BY <1>13, <1>14 DEF ApproveCommit, ConfigureCommit, ProcessData
<1> QED
  BY <1>4, <1>5, <1>6, <1>7, <1>8, <1>9, <1>10, <1>11, <1>12, <1>14
  DEF Run, Scoring, Ending, Calibrating, Deciding

-----------------------------------------------------------------------------
(***************************************************************************)
(* Moments, weights and proposals                                          *)
(***************************************************************************)
LEMMA TypeInit == TenantInit => TypeInv
<1> SUFFICES ASSUME TenantInit PROVE TypeInv
  OBVIOUS
<1>1. \A s \in Slot : call[s].for \in Weights /\ call[s].version \in Nat /\ SeenSound(s)
                      /\ call[s].stamp \in Nat
  BY DEF TenantInit, Idle, SeenSound, Weights
<1>2. kpi \in [Key -> Nat] /\ health \in [Month -> HealthRow \cup {None}]
  <2>1. CASE kpi = [k \in Key |-> 0] /\ health = [m \in Month |-> None]
    BY <2>1
  <2>2. ASSUME NEW a \in Before, NEW c \in Before, Processed(a, c)
        PROVE  kpi \in [Key -> Nat] /\ health \in [Month -> HealthRow \cup {None}]
    <3>1. kpi \in [Key -> Nat]
      BY <2>2 DEF Processed
    <3>2. c.keys \subseteq Key
      BY DataAssumption
    <3>3. \A m \in Month :
            [keys |-> {k \in c.keys : MonthOf(k) = m}, at |-> 2, pillar |-> 0, kpis |-> 0] \in HealthRow
      BY <3>2 DEF HealthRow, Weights
    <3> QED
      BY <2>2, <3>1, <3>3 DEF Processed
  <2> QED
    BY <2>1, <2>2 DEF TenantInit
<1> QED
  BY <1>1, <1>2 DEF TenantInit, TypeInv, StampsSound, Weights

\* A process goes on, and what it has read is sound.
LEMMA TypeKept ==
  ASSUME TypeInv, NEW s \in Slot, Moved(s), UNCHANGED <<kpi, health, weights>>,
         call'[s].stamp \in Nat, call'[s].for \in Weights, call'[s].version \in Nat, SeenSound(s)'
  PROVE  TypeInv'
<1>1. \A t \in Slot : t # s => SeenSound(t)'
  BY DEF TypeInv, SeenSound, Moved
<1> QED
  BY <1>1 DEF TypeInv, StampsSound, Moved, weights

\* The same, when it keeps what it has read or is over.
LEMMA TypeGoesOn ==
  ASSUME TypeInv, NEW s \in Slot, Moved(s), UNCHANGED <<kpi, health, weights>>,
         call'[s].stamp \in {0, call[s].stamp}, call'[s].for \in {0, call[s].for},
         call'[s].version \in {0, call[s].version}, call'[s].at # "write"
  PROVE  TypeInv'
BY TypeKept DEF TypeInv, StampsSound, SeenSound, Weights

LEMMA TypeRuns ==
  ASSUME RunInv, TypeInv, NEW s \in Slot, Run(s)
  PROVE  TypeInv'
<1>1. DOMAIN call = Slot /\ DOMAIN call[s] = Fields /\ Moved(s) /\ call'[s].at # "write"
  <2>1. ~ScoreRead(s)
    BY DEF Run, ScoreRead, At, LookStaged, ReadLineage, LoadAccounts, StampKpis, LoadKpis, PhaseFails, Consume
  <2> QED
    BY <2>1, CallMoves DEF RunInv, SlotShape
<1>2. Now \in Nat
  BY NowIsLater DEF RunInv, TypeInv
<1> USE DEF At, Goto, Break, Fields, data
<1>3. CASE StampKpis(s)
  BY <1>1, <1>2, <1>3, TypeKept DEF StampKpis, TypeInv, SeenSound
<1>4. CASE LoadKpis(s)
  <2>1. /\ kpi' \in [Key -> Nat] /\ UNCHANGED <<health, weights>>
        /\ call'[s].stamp = call[s].stamp /\ call'[s].for = call[s].for
        /\ call'[s].version = call[s].version
    BY <1>1, <1>4 DEF LoadKpis, TypeInv, StampsSound
  <2>2. \A t \in Slot : SeenSound(t)'
    BY <1>1 DEF TypeInv, SeenSound, Moved
  <2> QED
    BY <1>1, <2>1, <2>2 DEF TypeInv, StampsSound, Moved, weights
<1>5. CASE ~StampKpis(s) /\ ~LoadKpis(s)
  <2>1. UNCHANGED <<kpi, health, weights>>
    BY <1>5 DEF Run, LookStaged, ReadLineage, LoadAccounts, PhaseFails, Consume
  <2>2. /\ call'[s].stamp = call[s].stamp /\ call'[s].for = call[s].for
        /\ call'[s].version = call[s].version
    BY <1>1, <1>5 DEF Run, LookStaged, ReadLineage, LoadAccounts, PhaseFails, Consume
  <2> QED
    BY <1>1, <2>1, <2>2, TypeGoesOn
<1> QED
  BY <1>3, <1>4, <1>5

LEMMA TypeScores ==
  ASSUME RunInv, TypeInv, NEW s \in Slot, Scoring(s)
  PROVE  TypeInv'
<1>1. DOMAIN call = Slot /\ DOMAIN call[s] = Fields /\ Moved(s)
      /\ (call'[s].at = "write" => ScoreRead(s))
  BY CallMoves DEF RunInv, SlotShape
<1>2. Now \in Nat
  BY NowIsLater DEF RunInv, TypeInv
<1> USE DEF At, Goto, Break, Fields, data
<1>3. CASE ScoreRead(s)
  <2>1. PICK failing \in SUBSET ToScore(call[s].mode) :
          call' = [call EXCEPT ![s] =
            [call[s] EXCEPT !.at = "write", !.failing = failing, !.stamp = Now,
                            !.seen = [m \in ToScore(call[s].mode) \ failing |->
                               [keys |-> {k \in Measured : MonthOf(k) = m}, at |-> Now,
                                pillar |-> config.pillar, kpis |-> config.kpis]]]]
    BY <1>3 DEF ScoreRead
  <2>2. /\ call'[s].seen = [m \in ToScore(call[s].mode) \ failing |->
                               [keys |-> {k \in Measured : MonthOf(k) = m}, at |-> Now,
                                pillar |-> config.pillar, kpis |-> config.kpis]]
        /\ call'[s].stamp = Now /\ call'[s].for = call[s].for /\ call'[s].version = call[s].version
    BY <1>1, <2>1
  <2>3. SeenSound(s)'
    BY <1>2, <2>2 DEF SeenSound, ToScore, Measured, HealthRow, TypeInv
  <2>4. UNCHANGED <<kpi, health, weights>>
    BY <1>3 DEF ScoreRead
  <2> QED
    BY <1>1, <1>2, <2>2, <2>3, <2>4, TypeKept DEF TypeInv
<1>4. CASE ScoreWrite(s)
  <2>1. /\ health' \in [Month -> HealthRow \cup {None}] /\ UNCHANGED <<kpi, weights>>
    BY <1>4 DEF ScoreWrite, TypeInv, StampsSound, SeenSound
  <2>2. /\ call'[s].stamp = call[s].stamp /\ call'[s].for = call[s].for
        /\ call'[s].version = call[s].version /\ call'[s].at # "write"
    BY <1>1, <1>4 DEF ScoreWrite
  <2>3. \A t \in Slot : SeenSound(t)'
    BY <1>1, <2>2 DEF TypeInv, SeenSound, Moved
  <2> QED
    BY <1>1, <2>1, <2>2, <2>3 DEF TypeInv, StampsSound, Moved, weights
<1>5. CASE ScoreFails(s) \/ SyncStatus(s) \/ SyncFails(s)
  <2>1. UNCHANGED <<kpi, health, weights>>
    BY <1>5 DEF ScoreFails, SyncStatus, SyncScores, SyncCompare, SyncCommit, Syncing, SyncFails
  <2>2. /\ call'[s].stamp = call[s].stamp /\ call'[s].for = call[s].for
        /\ call'[s].version = call[s].version /\ call'[s].at # "write"
    BY <1>1, <1>5 DEF ScoreFails, SyncStatus, SyncScores, SyncCompare, SyncCommit, Syncing, SyncFails
  <2> QED
    BY <1>1, <2>1, <2>2, TypeGoesOn
<1> QED
  BY <1>3, <1>4, <1>5 DEF Scoring

\* The other steps of a call and their effect on what TypeInv speaks of.
LEMMA TypeEnding ==
  ASSUME RunInv, TypeInv, NEW s \in Slot, Ending(s)
  PROVE  TypeInv'
<1>1. DOMAIN call = Slot /\ DOMAIN call[s] = Fields /\ Moved(s)
  BY CallMoves DEF RunInv, SlotShape
<1> USE DEF At, Goto, Break, Fields, data, weights
<1>2. UNCHANGED <<kpi, health, weights>>
  BY DEF Ending, Finish, Raise, Abort, Stop
<1>3. CASE Raise(s)
  BY <1>1, <1>2, <1>3, TypeGoesOn DEF Raise
<1>4. CASE Stop(s)
  BY <1>1, <1>2, <1>4, TypeGoesOn DEF Stop, Idle
<1>5. CASE Finish(s) \/ Abort(s)
  <2>1. CASE call[s].for = 0
    BY <1>1, <1>2, <1>5, <2>1, TypeGoesOn DEF Finish, Abort, Leaves, Idle
  <2>2. CASE call[s].for # 0
    BY <1>1, <1>2, <1>5, <2>2, TypeGoesOn DEF Finish, Abort, Leaves, Idle
  <2> QED
    BY <2>1, <2>2
<1> QED
  BY <1>3, <1>4, <1>5 DEF Ending

-----------------------------------------------------------------------------
(***************************************************************************)
(* Uploads                                                                 *)
(***************************************************************************)
LEMMA UploadTypes ==
  ASSUME UploadInv, NEW u \in DOMAIN uploads
  PROVE  /\ FileOf(u) \in File /\ KeysOf(u) \subseteq Key
         /\ FileOf(u) = AccountsFile => KeysOf(u) = {}
<1>1. uploads[u] \in Files
  BY DEF UploadInv
<1>2. uploads[u].content \in Content \cup Before
  BY <1>1 DEF Files
<1> QED
  BY <1>2, DataAssumption DEF FileOf, KeysOf

\* Rows are added: what was held, loaded, raced or measured is still so.
Grows ==
  /\ DOMAIN uploads \subseteq DOMAIN uploads'
  /\ \A u \in DOMAIN uploads : uploads'[u].content = uploads[u].content
  /\ loaded \subseteq loaded' /\ unresolved \subseteq unresolved' /\ raced \subseteq raced'
  /\ Measured \subseteq Measured'

\* A call that is where it was, while nobody stages behind its back.
LEMMA HoldsKept ==
  ASSUME UploadInv, Grows, NEW t \in Slot, call'[t] = call[t],
         \A f \in File : \/ staged'[f] \in {0, staged[f]}
                         \/ call[t].at \in Loading => staged'[f] \in raced'
  PROVE  HoldsSound(t)'
<1> SUFFICES ASSUME call[t].at \in Loading PROVE HoldsSound(t)'
  BY DEF HoldsSound
<1>1. HoldsSound(t)
  BY DEF UploadInv
<1>2. call[t].files \subseteq DOMAIN uploads /\ call[t].files \subseteq DOMAIN uploads'
  BY <1>1 DEF HoldsSound, Grows
<1>3. \A file : Holds(t, file)' = Holds(t, file)
  BY <1>2 DEF Grows, Holds
<1>4. \A u \in call[t].files : KeysOf(u)' = KeysOf(u)
  BY <1>2 DEF Grows, KeysOf
<1>5. \A f \in File : staged'[f] # 0 => staged'[f] \in call[t].files \cup raced'
  BY <1>1 DEF HoldsSound, Grows
<1> QED
  BY <1>1, <1>2, <1>3, <1>4, <1>5 DEF HoldsSound, Grows, Holds

\* Nothing is staged, replaced or loaded.
LEMMA LostKept ==
  ASSUME UploadInv, Grows, UNCHANGED <<uploads, staged, loaded>>
  PROVE  UploadsNotLost'
BY DEF UploadInv, Grows, UploadsNotLost, Replaced

LEMMA UploadKept ==
  ASSUME RunInv, UploadInv, NEW s \in Slot, Moved(s), Grows, UNCHANGED <<uploads, staged, loaded>>,
         HoldsSound(s)'
  PROVE  UploadInv'
<1>1. \A t \in Slot : t # s => HoldsSound(t)'
  BY HoldsKept DEF Moved
<1> QED
  BY <1>1, LostKept DEF UploadInv, StagedSound, FileOf

\* An upload takes the place of an older one, which is superseded by it.
LEMMA UploadUploads ==
  ASSUME RunInv, UploadInv, NEW c \in Content, Upload(c)
  PROVE  UploadInv'
<1> DEFINE u == Len(uploads) + 1
           row == [content |-> c, run |-> None]
<1>1. /\ uploads' = Append(uploads, row) /\ staged' = [staged EXCEPT ![c.file] = u]
      /\ raced' = IF \E s \in Slot : Ingesting(s) THEN raced \cup {u} ELSE raced
      /\ UNCHANGED <<call, loaded, unresolved, kpi>>
  BY DEF Upload, NewId
<1>2. c.file \in File /\ row \in Files
  BY DataAssumption DEF Files
<1>3. /\ uploads' \in Seq(Files) /\ DOMAIN uploads' = DOMAIN uploads \cup {u}
      /\ u \notin DOMAIN uploads /\ u # 0
      /\ \A v \in DOMAIN uploads : uploads'[v] = uploads[v] /\ v < u
      /\ uploads'[u] = row
  BY <1>1, <1>2 DEF UploadInv
<1>4. Grows
  BY <1>1, <1>3 DEF Grows, Measured
<1>5. StagedSound'
  BY <1>1, <1>2, <1>3 DEF UploadInv, StagedSound, FileOf
<1>6. \A t \in Slot : HoldsSound(t)'
  <2>1. ASSUME NEW t \in Slot, NEW f \in File
        PROVE  staged'[f] \in {0, staged[f]} \/ (call[t].at \in Loading => staged'[f] \in raced')
    BY <1>1, <1>2 DEF UploadInv, StagedSound, Ingesting, Loading
  <2> QED
    BY <1>1, <1>4, <2>1, HoldsKept
<1>7. UploadsNotLost'
  <2>1. ASSUME NEW v \in DOMAIN uploads
        PROVE  \/ staged'[uploads'[v].content.file] = v
               \/ v \in loaded \cup raced \/ Replaced(v)'
    <3>1. CASE Replaced(v)
      BY <1>3, <3>1 DEF Replaced
    <3>2. CASE staged[FileOf(v)] = v /\ FileOf(v) = c.file
      BY <1>3, <3>2 DEF Replaced, FileOf
    <3>3. CASE staged[FileOf(v)] = v /\ FileOf(v) # c.file
      BY <1>1, <1>2, <1>3, <3>3, UploadTypes DEF UploadInv, StagedSound, FileOf
    <3> QED
      BY <3>1, <3>2, <3>3 DEF UploadInv, UploadsNotLost, FileOf
  <2>2. staged'[uploads'[u].content.file] = u
    BY <1>1, <1>2, <1>3 DEF UploadInv, StagedSound
  <2>3. u \notin loaded
    BY <1>3 DEF UploadInv
  <2> QED
    BY <1>1, <1>3, <1>4, <2>1, <2>2, <2>3 DEF UploadInv, UploadsNotLost, Grows
<1> QED
  BY <1>1, <1>3, <1>5, <1>6, <1>7 DEF UploadInv

LEMMA UploadRuns ==
  ASSUME RunInv, TypeInv, UploadInv, NEW s \in Slot, Run(s)
  PROVE  UploadInv'
<1>1. DOMAIN call = Slot /\ DOMAIN call[s] = Fields /\ Moved(s) /\ HoldsSound(s)
  BY CallMoves DEF RunInv, SlotShape, UploadInv
<1> USE DEF At, Goto, Break, Fields, data, history
<1>2. CASE LookStaged(s)
  <2>1. Grows /\ UNCHANGED <<uploads, staged, loaded, raced>>
    BY <1>2 DEF LookStaged, Grows, Measured
  <2>2. call'[s].at = "lineage" => call'[s].files = Staged
    BY <1>1, <1>2 DEF LookStaged
  <2>3. call'[s].at \in {"lineage", "health", "fail"}
    BY <1>1, <1>2 DEF LookStaged
  <2>4. Staged \subseteq DOMAIN uploads /\ \A f \in File : staged[f] # 0 => staged[f] \in Staged
    BY DEF UploadInv, StagedSound, Staged
  <2>5. HoldsSound(s)'
    BY <2>1, <2>2, <2>3, <2>4 DEF HoldsSound, Loading
  <2> QED
    BY <1>1, <2>1, <2>5, UploadKept
<1>3. CASE ReadLineage(s)
  <2>1. Grows /\ UNCHANGED <<uploads, staged, loaded, raced>>
    BY <1>3 DEF ReadLineage, Grows, Measured
  <2>2. call[s].at = "lineage" /\ call'[s].at = "accounts" /\ call'[s].files = call[s].files
    BY <1>1, <1>3 DEF ReadLineage
  <2>3. HoldsSound(s)'
    BY <1>1, <2>1, <2>2 DEF HoldsSound, Loading
  <2> QED
    BY <1>1, <2>1, <2>3, UploadKept
<1>4. CASE LoadAccounts(s)
  <2>1. /\ Grows /\ UNCHANGED <<uploads, staged, raced, unresolved, kpi>>
        /\ loaded' = loaded \cup Holds(s, AccountsFile)
    BY <1>4 DEF LoadAccounts, Grows, Measured
  <2>2. /\ call[s].at = "accounts" /\ call'[s].at = "stamp" /\ call'[s].files = call[s].files
        /\ call'[s].errors = call[s].errors
    BY <1>1, <1>4 DEF LoadAccounts
  <2>3. call[s].files \subseteq DOMAIN uploads /\ Holds(s, AccountsFile)' = Holds(s, AccountsFile)
    BY <1>1, <2>1, <2>2 DEF HoldsSound, Loading, Holds
  <2>4. HoldsSound(s)'
    BY <1>1, <2>1, <2>2, <2>3 DEF HoldsSound, Loading
  <2>5. \A t \in Slot : t # s => HoldsSound(t)'
    BY <1>1, <2>1, HoldsKept DEF Moved
  <2>6. \A u \in Holds(s, AccountsFile) : KeysOf(u) = {} /\ u \in DOMAIN uploads
    BY <2>3, UploadTypes DEF Holds, FileOf
  <2>7. UploadsNotLost' /\ loaded' \subseteq DOMAIN uploads'
    BY <2>1, <2>6 DEF UploadInv, UploadsNotLost, Replaced, KeysOf, Measured
  <2> QED
    BY <2>1, <2>4, <2>5, <2>7 DEF UploadInv, StagedSound, FileOf
<1>5. CASE StampKpis(s)
  <2>1. /\ Grows /\ UNCHANGED <<uploads, staged, loaded, raced>>
        /\ unresolved' = IF known THEN unresolved ELSE unresolved \cup Holds(s, KpiFile)
    BY <1>5 DEF StampKpis, Grows, Measured
  <2>2. /\ call[s].at = "stamp" /\ call'[s].at = "kpis" /\ call'[s].files = call[s].files
        /\ call'[s].errors = call[s].errors /\ call'[s].stamp = Now
        /\ known => call'[s].rows = UNION {uploads[u].content.keys : u \in Holds(s, KpiFile)}
    BY <1>1, <1>5 DEF StampKpis
  <2>3. \A file : Holds(s, file)' = Holds(s, file)
    BY <2>1, <2>2 DEF Holds
  <2>4. \A u \in Holds(s, KpiFile) \ unresolved' : KeysOf(u) \subseteq call'[s].rows
    BY <2>1, <2>2 DEF KeysOf
  <2>5. call'[s].stamp # 0
    BY <2>2, NowIsLater DEF RunInv, TypeInv
  <2>6. HoldsSound(s)'
    BY <1>1, <2>1, <2>2, <2>3, <2>4, <2>5 DEF HoldsSound, Loading, KeysOf
  <2> QED
    BY <1>1, <2>1, <2>6, UploadKept
<1>6. CASE LoadKpis(s)
  <2>1. /\ UNCHANGED <<uploads, staged, raced, unresolved>>
        /\ kpi' = [k \in Key |-> IF kpi[k] = 0 /\ k \in call[s].rows THEN call[s].stamp ELSE kpi[k]]
        /\ loaded' = loaded \cup Holds(s, KpiFile)
    BY <1>6 DEF LoadKpis
  <2>2. /\ call[s].at = "kpis" /\ call'[s].at = "consume" /\ call'[s].files = call[s].files
        /\ call'[s].errors = call[s].errors
    BY <1>1, <1>6 DEF LoadKpis
  <2>3. call[s].stamp # 0 /\ \A u \in Holds(s, KpiFile) \ unresolved : KeysOf(u) \subseteq call[s].rows
    BY <1>1, <2>2 DEF HoldsSound, Loading
  <2>4. Measured \subseteq Measured' /\ Key \cap call[s].rows \subseteq Measured'
    BY <2>1, <2>3 DEF Measured
  <2>5. Grows
    BY <2>1, <2>4 DEF Grows
  <2>6. call[s].files \subseteq DOMAIN uploads /\ \A file : Holds(s, file)' = Holds(s, file)
    BY <1>1, <2>1, <2>2 DEF HoldsSound, Loading, Holds
  <2>7. HoldsSound(s)'
    BY <1>1, <2>1, <2>2, <2>6 DEF HoldsSound, Loading
  <2>8. \A t \in Slot : t # s => HoldsSound(t)'
    BY <1>1, <2>1, <2>5, HoldsKept DEF Moved
  <2>9. \A u \in Holds(s, KpiFile) : u \in DOMAIN uploads /\ KeysOf(u) \subseteq Key
    BY <2>6, UploadTypes DEF Holds
  <2>10. UploadsNotLost' /\ loaded' \subseteq DOMAIN uploads'
    <3>1. ASSUME NEW u \in DOMAIN uploads, u \in loaded' \ unresolved PROVE KeysOf(u) \subseteq Measured'
      <4>1. CASE u \in loaded
        BY <2>4, <3>1, <4>1 DEF UploadInv, UploadsNotLost, KeysOf
      <4>2. CASE u \in Holds(s, KpiFile)
        BY <2>3, <2>4, <2>9, <3>1, <4>2
      <4> QED
        BY <2>1, <3>1, <4>1, <4>2
    <3> QED
      BY <2>1, <2>9, <3>1 DEF UploadInv, UploadsNotLost, Replaced, KeysOf
  <2> QED
    BY <2>1, <2>7, <2>8, <2>10 DEF UploadInv, StagedSound, FileOf
<1>7. CASE PhaseFails(s)
  <2>1. Grows /\ UNCHANGED <<uploads, staged, loaded, raced>>
    BY <1>7 DEF PhaseFails, Grows, Measured
  <2>2. /\ call[s].at \in Loading /\ call'[s].at = "consume" /\ call'[s].files = call[s].files
        /\ call'[s].errors # {}
    BY <1>1, <1>7 DEF PhaseFails, Loading
  <2>3. HoldsSound(s)'
    BY <1>1, <2>1, <2>2 DEF HoldsSound
  <2> QED
    BY <1>1, <2>1, <2>3, UploadKept
<1>8. CASE Consume(s) /\ Consumes(s)
  <2>1. /\ uploads' = [u \in DOMAIN uploads |->
                        IF u \in call[s].ids THEN [uploads[u] EXCEPT !.run = call[s].run] ELSE uploads[u]]
        /\ staged' = [f \in File |-> 0] /\ UNCHANGED <<loaded, unresolved, raced, kpi>>
        /\ call[s].at = "consume" /\ call[s].errors = {} /\ call'[s].at = "health"
    BY <1>1, <1>8 DEF Consume, Consumes
  <2>2. DOMAIN uploads' = DOMAIN uploads /\ uploads' \in Seq(Files)
        /\ \A u \in DOMAIN uploads : uploads'[u].content = uploads[u].content
    <3>1. call[s].run \in Nat
      BY DEF RunInv, RunOf
    <3>2. ASSUME NEW u \in DOMAIN uploads
          PROVE  uploads[u] \in Files /\ [uploads[u] EXCEPT !.run = call[s].run] \in Files
      <4>1. uploads[u] \in Files
        BY DEF UploadInv
      <4> QED
        BY <3>1, <4>1 DEF Files
    <3>3. Len(uploads) \in Nat /\ DOMAIN uploads = 1..Len(uploads)
      BY DEF UploadInv
    <3>4. uploads' \in [1..Len(uploads) -> Files]
      BY <2>1, <3>2, <3>3
    <3>5. uploads' \in Seq(Files)
      BY <3>3, <3>4, SeqDef
    <3> QED
      BY <2>1, <3>2, <3>5 DEF Files
  <2>3. Grows
    BY <2>1, <2>2 DEF Grows, Measured
  <2>4. \A t \in Slot : HoldsSound(t)'
    <3>1. HoldsSound(s)'
      BY <2>1 DEF HoldsSound, Loading
    <3>2. \A t \in Slot : t # s => HoldsSound(t)'
      BY <1>1, <2>1, <2>3, HoldsKept DEF Moved
    <3> QED
      BY <3>1, <3>2
  <2>5. \A u \in DOMAIN uploads : staged[FileOf(u)] = u => u \in loaded \cup raced
    <3> SUFFICES ASSUME NEW u \in DOMAIN uploads, staged[FileOf(u)] = u, u \notin raced
                 PROVE  u \in loaded
      OBVIOUS
    <3>1. FileOf(u) \in File /\ u # 0
      BY UploadTypes DEF UploadInv
    <3>2. u \in call[s].files
      BY <1>1, <2>1, <3>1 DEF HoldsSound, Loading
    <3> QED
      BY <1>1, <2>1, <3>1, <3>2 DEF HoldsSound, Loading, Holds, FileOf, File
  <2>6. UploadsNotLost'
    BY <2>1, <2>2, <2>5 DEF UploadInv, UploadsNotLost, Replaced, FileOf, Measured
  <2> QED
    BY <2>1, <2>2, <2>4, <2>6 DEF UploadInv, StagedSound
<1>9. CASE Consume(s) /\ ~Consumes(s)
  <2>1. Grows /\ UNCHANGED <<uploads, staged, loaded, raced>>
    BY <1>9 DEF Consume, Grows, Measured
  <2>2. call'[s].at = "health"
    BY <1>1, <1>9 DEF Consume
  <2>3. HoldsSound(s)'
    BY <2>2 DEF HoldsSound, Loading
  <2> QED
    BY <1>1, <2>1, <2>3, UploadKept
<1> QED
  BY <1>2, <1>3, <1>4, <1>5, <1>6, <1>7, <1>8, <1>9 DEF Run

\* Only a run at its files goes to a stage of them.
LEMMA NotLoading ==
  ASSUME RunInv, NEW s \in Slot,
         Scoring(s) \/ Ending(s) \/ Calibrating(s) \/ \E mode \in Mode : ProcessData(s, mode)
  PROVE  call'[s].at \notin Loading
<1>1. DOMAIN call = Slot /\ DOMAIN call[s] = Fields
  BY DEF RunInv, SlotShape
<1> USE DEF At, Goto, Break, Fields, Loading
<1> DEFINE c == call'[s]
<1>2. CASE Scoring(s)
  <2>1. ScoreRead(s) => c.at = "write"
    BY <1>1 DEF ScoreRead
  <2>2. ScoreWrite(s) => c.at \in {"finish", "sync"}
    BY <1>1 DEF ScoreWrite
  <2>3. ScoreFails(s) => c.at = "finish"
    BY <1>1 DEF ScoreFails
  <2>4. SyncStatus(s) \/ SyncFails(s) => c.at \in Syncing \cup {"finish"}
    BY <1>1 DEF SyncStatus, SyncScores, SyncCompare, SyncCommit, Syncing, SyncFails
  <2> QED
    BY <1>2, <2>1, <2>2, <2>3, <2>4 DEF Scoring, Syncing
<1>3. CASE Raise(s) \/ Stop(s)
  <2>1. Raise(s) => c.at = "fail"
    BY <1>1 DEF Raise
  <2>2. Stop(s) => c.at = "idle"
    BY <1>1 DEF Stop, Idle
  <2> QED
    BY <1>3, <2>1, <2>2
<1>4. CASE Finish(s) \/ Abort(s)
  <2>1. CASE call[s].for = 0
    BY <1>1, <1>4, <2>1 DEF Finish, Abort, Leaves, Idle
  <2>2. CASE call[s].for # 0
    BY <1>1, <1>4, <2>2 DEF Finish, Abort, Leaves, Idle
  <2> QED
    BY <2>1, <2>2
<1>5. CASE ProposeCommit(s) \/ RejectCommit(s) \/ NoteRecompute(s)
  BY <1>1, <1>5 DEF ProposeCommit, RejectCommit, NoteRecompute, Idle
<1>6. CASE ProposeRead(s) \/ \E fields : ConfigureRead(s, fields)
  <2>1. ProposeRead(s) => c.at = "propose"
    BY <1>1 DEF ProposeRead, Idle
  <2>2. ASSUME NEW fields, ConfigureRead(s, fields) PROVE c.at = "configure"
    BY <1>1, <2>2 DEF ConfigureRead, Idle
  <2> QED
    BY <1>6, <2>1, <2>2
<1>7. ASSUME NEW p, NEW d \in Deciding, DecideRead(s, p, d) PROVE call'[s].at \notin Loading
  BY <1>1, <1>7 DEF DecideRead, Idle, Deciding
<1>8. ASSUME NEW mode, NEW for, Enter(s, mode, for) PROVE call'[s].at \notin Loading
  BY <1>1, <1>8 DEF Enter, Idle
<1>9. CASE ApproveCommit(s) \/ ConfigureCommit(s) \/ \E mode : ProcessData(s, mode)
  BY <1>8, <1>9 DEF ApproveCommit, ConfigureCommit, ProcessData
<1> QED
  BY <1>2, <1>3, <1>4, <1>5, <1>6, <1>7, <1>9 DEF Ending, Calibrating, Deciding

\* The other stages of a run, and the other calls, leave the uploads alone.
LEMMA UploadOthers ==
  ASSUME RunInv, UploadInv, NEW s \in Slot,
         Scoring(s) \/ Ending(s) \/ Calibrating(s) \/ \E mode \in Mode : ProcessData(s, mode)
  PROVE  UploadInv'
<1>1. DOMAIN call = Slot /\ DOMAIN call[s] = Fields /\ Moved(s)
  BY CallMoves DEF RunInv, SlotShape
<1>2. UNCHANGED <<uploads, staged, loaded, unresolved, raced, kpi>>
  <2> USE DEF data, history
  <2>1. CASE Scoring(s)
    BY <2>1 DEF Scoring, ScoreRead, ScoreWrite, ScoreFails, SyncStatus, SyncScores, SyncCompare, SyncCommit, Syncing, SyncFails
  <2>2. CASE Ending(s)
    BY <2>2 DEF Ending, Finish, Raise, Abort, Stop
  <2>3. CASE Calibrating(s)
    BY <2>3 DEF Calibrating, ProposeRead, ProposeCommit, DecideRead, RejectCommit, ApproveCommit,
       NoteRecompute, ConfigureRead, ConfigureCommit
  <2>4. CASE \E mode \in Mode : ProcessData(s, mode)
    BY <2>4 DEF ProcessData
  <2> QED
    BY <2>1, <2>2, <2>3, <2>4
<1>3. call'[s].at \notin Loading
  BY NotLoading
<1>4. Grows
  BY <1>2 DEF Grows, Measured
<1>5. HoldsSound(s)'
  BY <1>3 DEF HoldsSound
<1> QED
  BY <1>1, <1>2, <1>4, <1>5, UploadKept

LEMMA UploadInit == TenantInit => UploadInv
<1> SUFFICES ASSUME TenantInit PROVE UploadInv
  OBVIOUS
<1>1. /\ staged = [f \in File |-> 0] /\ unresolved = {}
      /\ \A s \in Slot : call[s].at \notin Loading
  BY DEF TenantInit, Idle, Loading
<1>2. StagedSound /\ \A s \in Slot : HoldsSound(s)
  BY <1>1 DEF StagedSound, HoldsSound
<1>3. CASE uploads = <<>> /\ loaded = {}
  BY <1>2, <1>3 DEF UploadInv, UploadsNotLost
<1>4. ASSUME NEW a \in Before, NEW c \in Before, Processed(a, c) PROVE UploadInv
  <2>1. /\ uploads = <<[content |-> a, run |-> 0], [content |-> c, run |-> 0]>> /\ loaded = {1, 2}
        /\ kpi = [k \in Key |-> IF k \in c.keys THEN 1 ELSE 0]
        /\ a.keys = {} /\ c.keys \subseteq Key
    BY <1>4, DataAssumption DEF Processed
  <2>2. DOMAIN uploads = {1, 2}
    BY <2>1
  <2>3. uploads \in Seq(Files)
    <3>1. [content |-> a, run |-> 0] \in Files /\ [content |-> c, run |-> 0] \in Files
      BY DEF Files
    <3> QED
      BY <2>1, <3>1
  <2>4. KeysOf(1) = {} /\ KeysOf(2) = c.keys
    BY <2>1 DEF KeysOf
  <2>5. UploadsNotLost
    BY <2>1, <2>2, <2>4 DEF UploadsNotLost, KeysOf, Measured
  <2> QED
    BY <1>2, <2>1, <2>2, <2>3, <2>5 DEF UploadInv
<1> QED
  BY <1>3, <1>4 DEF TenantInit

-----------------------------------------------------------------------------
(***************************************************************************)
(* Weights and proposals a call has read                                   *)
(***************************************************************************)
LEMMA TypeCalibrating ==
  ASSUME RunInv, TypeInv, NEW s \in Slot, Calibrating(s)
  PROVE  TypeInv'
<1>1. DOMAIN call = Slot /\ DOMAIN call[s] = Fields /\ Moved(s) /\ RunOf(s)
  BY CallMoves DEF RunInv, SlotShape
<1>2. UNCHANGED <<kpi, health>>
  BY DEF Calibrating, ProposeRead, ProposeCommit, DecideRead, RejectCommit, ApproveCommit,
     NoteRecompute, ConfigureRead, ConfigureCommit, data
<1>3. ASSUME call'[s].stamp = 0, call'[s].for \in Weights, call'[s].version \in Nat,
             call'[s].at # "write", config'.pillar \in Weights, config'.kpis \in Weights,
             config'.version \in Nat, proposals' \in Seq(Proposal)
      PROVE  TypeInv'
  <2>1. \A t \in Slot : SeenSound(t)'
    BY <1>1, <1>3 DEF TypeInv, SeenSound, Moved
  <2>2. \A t \in Slot : call'[t].stamp \in Nat /\ call'[t].for \in Weights /\ call'[t].version \in Nat
    BY <1>1, <1>3 DEF TypeInv, StampsSound, Moved
  <2>3. kpi' \in [Key -> Nat] /\ health' \in [Month -> HealthRow \cup {None}]
    BY <1>2 DEF TypeInv, StampsSound
  <2> QED
    BY <1>3, <2>1, <2>2, <2>3 DEF TypeInv, StampsSound
<1>4. 0 \in Weights /\ 0 \in Nat /\ Nat \subseteq Weights /\ Hand \in Weights
  BY DEF Weights
<1>5. ASSUME NEW p \in DOMAIN proposals, NEW row \in Proposal
      PROVE  [proposals EXCEPT ![p] = row] \in Seq(Proposal)
  BY DEF TypeInv
<1>6. \A p \in DOMAIN proposals : proposals[p] \in Proposal
  BY DEF TypeInv
<1>7. DOMAIN proposals \subseteq Nat /\ proposals \in Seq(Proposal)
  BY DEF TypeInv
<1> USE DEF At, Goto, Break, Fields
<1>8. CASE ProposeRead(s)
  BY <1>1, <1>3, <1>4, <1>8 DEF ProposeRead, Idle, weights, TypeInv
<1>9. ASSUME NEW p, NEW d \in Deciding, DecideRead(s, p, d) PROVE TypeInv'
  BY <1>1, <1>3, <1>4, <1>7, <1>9 DEF DecideRead, Idle, weights, TypeInv, Deciding
<1>10. ASSUME NEW fields, ConfigureRead(s, fields) PROVE TypeInv'
  BY <1>1, <1>3, <1>4, <1>10 DEF ConfigureRead, Idle, weights, TypeInv
<1>11. ASSUME NEW c, call' = [call EXCEPT ![s] = c], c = Idle
       PROVE  call'[s].stamp = 0 /\ call'[s].for = 0 /\ call'[s].version = 0 /\ call'[s].at = "idle"
  BY <1>1, <1>11 DEF Idle
<1>12. CASE ProposeCommit(s)
  <2> DEFINE closed == [p \in DOMAIN proposals |->
                          IF p \in call[s].ids THEN [proposals[p] EXCEPT !.state = "superseded"]
                          ELSE proposals[p]]
             new == [state |-> "proposed", applied |-> None, recompute |-> None]
  <2>1. closed \in Seq(Proposal)
    <3>1. \A p \in DOMAIN proposals : [proposals[p] EXCEPT !.state = "superseded"] \in Proposal
      BY <1>6 DEF Proposal
    <3>2. DOMAIN proposals = 1..Len(proposals) /\ Len(proposals) \in Nat
      BY <1>7
    <3>3. closed \in [1..Len(proposals) -> Proposal]
      BY <1>6, <3>1, <3>2
    <3> QED
      BY <3>2, <3>3, SeqDef
  <2>2. new \in Proposal
    BY DEF Proposal
  <2>3. proposals' = Append(closed, new) /\ call' = [call EXCEPT ![s] = Idle] /\ UNCHANGED config
    BY <1>12 DEF ProposeCommit
  <2> HIDE DEF closed, new
  <2>4. proposals' \in Seq(Proposal)
    BY <2>1, <2>2, <2>3
  <2> QED
    BY <1>3, <1>4, <1>11, <2>3, <2>4 DEF TypeInv
<1>13. CASE RejectCommit(s)
  <2>1. /\ proposals' = [proposals EXCEPT ![call[s].for].state = "rejected"]
        /\ call' = [call EXCEPT ![s] = Idle] /\ UNCHANGED config
    BY <1>13 DEF RejectCommit
  <2>2. proposals' \in Seq(Proposal)
    <3>1. CASE call[s].for \in DOMAIN proposals
      <4>1. [proposals[call[s].for] EXCEPT !.state = "rejected"] \in Proposal
        BY <1>6, <3>1 DEF Proposal
      <4> QED
        BY <1>5, <2>1, <3>1, <4>1
    <3>2. CASE call[s].for \notin DOMAIN proposals
      <4>1. proposals' = proposals
        BY <1>7, <2>1, <3>2
      <4> QED
        BY <1>7, <4>1
    <3> QED
      BY <3>1, <3>2
  <2> QED
    BY <1>3, <1>4, <1>11, <2>1, <2>2 DEF TypeInv
<1>14. CASE NoteRecompute(s)
  <2>1. /\ proposals' = IF call[s].for \in DOMAIN proposals
                        THEN [proposals EXCEPT ![call[s].for].recompute = runs[call[s].run]]
                        ELSE proposals
        /\ call' = [call EXCEPT ![s] = Idle] /\ UNCHANGED config /\ call[s].at = "note"
    BY <1>14 DEF NoteRecompute
  <2>2. runs[call[s].run] \in {"running", "success", "partial", "failed"}
    BY <1>1, <2>1 DEF RunOf, RunInv
  <2>3. proposals' \in Seq(Proposal)
    <3>1. CASE call[s].for \in DOMAIN proposals
      <4>1. [proposals[call[s].for] EXCEPT !.recompute = runs[call[s].run]] \in Proposal
        BY <1>6, <2>2, <3>1 DEF Proposal
      <4> QED
        BY <1>5, <2>1, <3>1, <4>1
    <3> QED
      BY <1>7, <2>1, <3>1
  <2> QED
    BY <1>3, <1>4, <1>11, <2>1, <2>3 DEF TypeInv
<1>15. ASSUME NEW mode, NEW for \in Weights, Enter(s, mode, for)
       PROVE  /\ call'[s].stamp = 0 /\ call'[s].for \in Weights /\ call'[s].version \in Nat
              /\ call'[s].at # "write"
  BY <1>1, <1>15 DEF Enter, Idle
<1>16. CASE ApproveCommit(s)
  <2> DEFINE p == call[s].for
             v == call[s].version + 1
  <2>1. p \in Weights /\ v \in Nat
    BY DEF TypeInv
  <2>2. /\ config' = [pillar |-> p, kpis |-> p, origin |-> "wizard_c", version |-> v]
        /\ proposals' = [proposals EXCEPT ![p].state = "approved", ![p].applied = v]
        /\ Enter(s, RecomputeMode, p)
    BY <1>16 DEF ApproveCommit
  <2>3. proposals' \in Seq(Proposal)
    <3> HIDE DEF v
    <3>1. CASE p \in DOMAIN proposals
      <4>1. [[proposals[p] EXCEPT !.state = "approved"] EXCEPT !.applied = v] \in Proposal
        BY <1>6, <2>1, <3>1 DEF Proposal
      <4>2. proposals' = [proposals EXCEPT ![p] = [[proposals[p] EXCEPT !.state = "approved"]
                                                     EXCEPT !.applied = v]]
        BY <1>7, <2>2, <3>1
      <4> HIDE DEF p
      <4> QED
        BY <1>5, <3>1, <4>1, <4>2
    <3>2. CASE p \notin DOMAIN proposals
      <4>1. proposals' = proposals
        BY <1>7, <2>2, <3>2
      <4> QED
        BY <1>7, <4>1
    <3> QED
      BY <3>1, <3>2
  <2> HIDE DEF p, v
  <2>4. config'.pillar = p /\ config'.kpis = p /\ config'.version = v
    BY <2>2
  <2> QED
    BY <1>3, <1>15, <2>1, <2>2, <2>3, <2>4
<1>17. CASE ConfigureCommit(s)
  <2>1. Enter(s, RecomputeMode, Hand) /\ UNCHANGED proposals
    BY <1>17 DEF ConfigureCommit
  <2>2. config'.pillar \in Weights /\ config'.kpis \in Weights /\ config'.version \in Nat
    BY <1>4, <1>17 DEF ConfigureCommit, TypeInv
  <2> QED
    BY <1>3, <1>4, <1>7, <1>15, <2>1, <2>2
<1> QED
  BY <1>8, <1>9, <1>10, <1>12, <1>13, <1>14, <1>16, <1>17 DEF Calibrating, Deciding

LEMMA TypeNext == RunInv /\ TypeInv /\ [TenantNext]_tvars => TypeInv'
<1> SUFFICES ASSUME RunInv, TypeInv, [TenantNext]_tvars PROVE TypeInv'
  OBVIOUS
<1>1. ASSUME UNCHANGED <<kpi, health, weights, call>> PROVE TypeInv'
  BY <1>1 DEF TypeInv, StampsSound, SeenSound, weights
<1>2. ASSUME NEW c \in Content, Upload(c) PROVE TypeInv'
  BY <1>1, <1>2 DEF Upload
<1>3. CASE UNCHANGED tvars
  BY <1>1, <1>3 DEF tvars, data
<1>4. ASSUME NEW s \in Slot, NEW mode \in Mode, ProcessData(s, mode) PROVE TypeInv'
  <2>1. DOMAIN call = Slot /\ DOMAIN call[s] = Fields /\ Moved(s)
    BY <1>4, CallMoves DEF RunInv, SlotShape
  <2>2. UNCHANGED <<kpi, health, weights>>
    BY <1>4 DEF ProcessData
  <2> QED
    BY <1>4, <2>1, <2>2, TypeGoesOn DEF ProcessData, Enter, Goto, Idle, Fields
<1> QED
  BY <1>2, <1>3, <1>4, StepKinds, TypeRuns, TypeScores, TypeEnding, TypeCalibrating

LEMMA UploadNext == RunInv /\ TypeInv /\ UploadInv /\ [TenantNext]_tvars => UploadInv'
<1> SUFFICES ASSUME RunInv, TypeInv, UploadInv, [TenantNext]_tvars PROVE UploadInv'
  OBVIOUS
<1>1. CASE UNCHANGED tvars
  <2>1. Grows /\ UNCHANGED <<uploads, staged, loaded, call>>
    BY <1>1 DEF tvars, data, history, Grows, Measured
  <2>2. \A t \in Slot : HoldsSound(t)'
    BY <2>1, HoldsKept
  <2> QED
    BY <2>1, <2>2, LostKept DEF UploadInv, StagedSound, FileOf
<1> QED
  BY <1>1, StepKinds, UploadUploads, UploadRuns, UploadOthers

\* An upload is staged until its rows are in the tables, unless a newer file took its
\* place or it came while a run was at its files; and what is loaded is measured, for any
\* files, processes and failures (csv_upload.py, csv_ingest.py:1069-1080).
THEOREM UploadsNotLostHolds == TenantSpec => []UploadsNotLost
<1>1. TenantInit => RunInv /\ TypeInv /\ UploadInv
  BY RunInit, TypeInit, UploadInit
<1>2. RunInv /\ TypeInv /\ UploadInv /\ [TenantNext]_tvars => (RunInv /\ TypeInv /\ UploadInv)'
  BY RunNext, TypeNext, UploadNext
<1>3. UploadInv => UploadsNotLost
  BY DEF UploadInv
<1> QED
  BY <1>1, <1>2, <1>3, PTL DEF TenantSpec

-----------------------------------------------------------------------------
(***************************************************************************)
(* Scores                                                                  *)
(***************************************************************************)
\* A step of a process starts its call, or it is at work already.
LEMMA Actor ==
  ASSUME RunInv, NEW s \in Slot,
         Run(s) \/ Scoring(s) \/ Ending(s) \/ Calibrating(s) \/ \E mode \in Mode : ProcessData(s, mode)
  PROVE  Starts(s) \/ (Active(s) /\ UNCHANGED overlapped)
<1> USE DEF At, Active, data, history
<1>1. CASE Run(s)
  BY <1>1 DEF Run, LookStaged, ReadLineage, LoadAccounts, StampKpis, LoadKpis, PhaseFails, Consume
<1>2. CASE Scoring(s)
  BY <1>2 DEF Scoring, ScoreRead, ScoreWrite, ScoreFails, SyncStatus, SyncScores, SyncCompare, SyncCommit, Syncing, SyncFails
<1>3. CASE Ending(s)
  <2>1. call[s].run # 0 => call[s].at # "idle"
    BY DEF RunInv, RunOf
  <2> QED
    BY <1>3, <2>1 DEF Ending, Finish, Raise, Abort, Stop
<1>4. CASE Calibrating(s)
  BY <1>4 DEF Calibrating, ProposeRead, ProposeCommit, DecideRead, RejectCommit, ApproveCommit,
     NoteRecompute, ConfigureRead, ConfigureCommit
<1>5. CASE \E mode \in Mode : ProcessData(s, mode)
  BY <1>5 DEF ProcessData
<1> QED
  BY <1>1, <1>2, <1>3, <1>4, <1>5

\* One that works alone goes on alone.
LEMMA AloneKept ==
  ASSUME OneAtWork, NEW s \in Slot, Moved(s), Starts(s) \/ (Active(s) /\ UNCHANGED overlapped)
  PROVE  /\ OneAtWork'
         /\ ~overlapped' => ~overlapped /\ \A t \in Slot : t # s => ~Active(t) /\ ~Active(t)'
<1>1. ASSUME ~overlapped' PROVE ~overlapped /\ \A t \in Slot : t # s => ~Active(t)
  <2>1. CASE Starts(s)
    BY <1>1, <2>1 DEF Starts, Busy
  <2>2. CASE Active(s) /\ UNCHANGED overlapped
    BY <1>1, <2>2 DEF OneAtWork
  <2> QED
    BY <2>1, <2>2
<1>2. \A t \in Slot : t # s => Active(t)' = Active(t)
  BY DEF Moved, Active
<1> QED
  BY <1>1, <1>2 DEF OneAtWork

\* A step of one process that keeps what was said of the scores.
LEMMA ScoreKept ==
  ASSUME RunInv, ScoreInv, NEW s \in Slot, Moved(s), Starts(s) \/ (Active(s) /\ UNCHANGED overlapped),
         ~overlapped' /\ ~overlapped =>
           (\A m \in Month : ScoreSound(m)') /\ ReadSound(s)' /\ ScoresSeeAll'
  PROVE  ScoreInv'
<1>1. OneAtWork' /\ (~overlapped' => ~overlapped /\ \A t \in Slot : t # s => ~Active(t)')
  BY AloneKept DEF ScoreInv
<1>2. ~overlapped' => \A t \in Slot : t # s => ReadSound(t)'
  BY <1>1 DEF Active, ReadSound
<1> QED
  BY <1>1, <1>2 DEF ScoreInv

\* One that leaves the measurements and the scores alone.
LEMMA ScoreSame ==
  ASSUME RunInv, ScoreInv, NEW s \in Slot, Moved(s), Starts(s) \/ (Active(s) /\ UNCHANGED overlapped),
         UNCHANGED <<kpi, health, scoredAll>>, ReadSound(s)'
  PROVE  ScoreInv'
<1>1. Measured' = Measured
  BY DEF Measured
<1>2. ASSUME ~overlapped PROVE (\A m \in Month : ScoreSound(m)') /\ ScoresSeeAll'
  <2>1. \A m \in Month : ScoreSound(m)'
    BY <1>1, <1>2 DEF ScoreInv, ScoreSound
  <2>2. ScoresSeeAll'
    BY <1>1, <1>2 DEF ScoreInv, ScoresSeeAll
  <2> QED
    BY <2>1, <2>2
<1> QED
  BY <1>2, ScoreKept

\* Late measurements are later than every score.
LEMMA ScoreLoads ==
  ASSUME RunInv, TypeInv, ScoreInv, NEW s \in Slot, LoadKpis(s)
  PROVE  ScoreInv'
<1>1. Moved(s) /\ (Starts(s) \/ (Active(s) /\ UNCHANGED overlapped))
  BY CallMoves, Actor DEF Run
<1>2. /\ call[s].at = "kpis" /\ UNCHANGED health
      /\ kpi' = [k \in Key |-> IF kpi[k] = 0 /\ k \in call[s].rows THEN call[s].stamp ELSE kpi[k]]
      /\ scoredAll' = (scoredAll /\ kpi' = kpi)
  BY DEF LoadKpis, At
<1>3. call'[s].at = "consume"
  <2>1. DOMAIN call = Slot /\ DOMAIN call[s] = Fields
    BY DEF RunInv, SlotShape
  <2> QED
    BY <2>1 DEF LoadKpis, Goto, Fields
<1>4. kpi \in [Key -> Nat] /\ call[s].stamp \in Nat
      /\ \A m \in Month : health[m] # None => health[m].at \in Nat
  BY DEF TypeInv, StampsSound, HealthRow
<1>5. ASSUME ~overlapped', ~overlapped
      PROVE  (\A m \in Month : ScoreSound(m)') /\ ReadSound(s)' /\ ScoresSeeAll'
  <2>1. \A m \in Scored : health[m].at < call[s].stamp
    BY <1>2, <1>5 DEF ScoreInv, ReadSound
  <2>2. ASSUME NEW m \in Month PROVE ScoreSound(m)'
    <3> SUFFICES ASSUME health[m] # None, NEW k \in Measured', MonthOf(k) = m, kpi'[k] <= health[m].at
                 PROVE  k \in health[m].keys
      BY <1>2 DEF ScoreSound
    <3>1. k \in Key /\ health[m].at < call[s].stamp
      BY <2>1 DEF Measured, Scored
    <3>2. kpi'[k] = kpi[k]
      BY <1>2, <1>4, <3>1
    <3>3. k \in Measured
      BY <3>1, <3>2 DEF Measured
    <3>4. ScoreSound(m)
      BY <1>5 DEF ScoreInv
    <3> QED
      BY <3>2, <3>3, <3>4 DEF ScoreSound
  <2>3. ScoresSeeAll'
    <3>1. scoredAll' => scoredAll /\ Measured' = Measured
      BY <1>2 DEF Measured
    <3> QED
      BY <1>2, <1>5, <3>1 DEF ScoreInv, ScoresSeeAll
  <2> QED
    BY <1>3, <2>2, <2>3 DEF ReadSound
<1> QED
  BY <1>1, <1>5, ScoreKept

\* A calculation covers every month that has measurements, or finds it up to date.
LEMMA ScoreWrites ==
  ASSUME RunInv, TypeInv, ScoreInv, NEW s \in Slot, ScoreWrite(s)
  PROVE  ScoreInv'
<1> DEFINE rows == call[s].seen
<1>1. /\ Moved(s) /\ (Starts(s) \/ (Active(s) /\ UNCHANGED overlapped)) /\ call'[s].at # "write"
      /\ call'[s].at # "kpis"
  <2>1. Moved(s) /\ (Starts(s) \/ (Active(s) /\ UNCHANGED overlapped)) /\ call'[s].at # "write"
    BY CallMoves, Actor DEF Scoring, ScoreWrite, ScoreRead, At
  <2>2. call'[s].at # "kpis"
    BY NotLoading DEF Scoring, Loading
  <2> QED
    BY <2>1, <2>2
<1>2. /\ call[s].at = "write" /\ UNCHANGED kpi
      /\ health' = [m \in Month |-> IF m \in DOMAIN rows THEN rows[m] ELSE health[m]]
      /\ scoredAll' = (call[s].failing = {})
  BY DEF ScoreWrite, At
<1>3. Measured' = Measured /\ \A k \in Measured : k \in Key /\ MonthOf(k) \in Month /\ kpi[k] \in Nat
  BY <1>2, DataAssumption DEF Measured, TypeInv, StampsSound
<1>4. ASSUME ~overlapped', ~overlapped
      PROVE  (\A m \in Month : ScoreSound(m)') /\ ReadSound(s)' /\ ScoresSeeAll'
  <2>1. /\ DOMAIN rows = ToScore(call[s].mode) \ call[s].failing
        /\ \A m \in DOMAIN rows : rows[m] \in HealthRow /\ rows[m].keys = {k \in Measured : MonthOf(k) = m}
        /\ \A m \in Month : ScoreSound(m)
    BY <1>2, <1>4 DEF ScoreInv, ReadSound
  <2>2. ASSUME NEW m \in Month PROVE ScoreSound(m)'
    <3>1. CASE m \in DOMAIN rows
      <4>1. health'[m] = rows[m]
        BY <1>2, <3>1
      <4> HIDE DEF rows
      <4> QED
        BY <1>3, <2>1, <3>1, <4>1 DEF ScoreSound
    <3>2. CASE m \notin DOMAIN rows
      <4>1. health'[m] = health[m]
        BY <1>2, <3>2
      <4> HIDE DEF rows
      <4> QED
        BY <1>2, <1>3, <2>1, <4>1 DEF ScoreSound
    <3> QED
      BY <3>1, <3>2
  <2>3. ScoresSeeAll'
    <3> SUFFICES ASSUME call[s].failing = {}, NEW k \in Measured
                 PROVE  health'[MonthOf(k)] # None /\ k \in health'[MonthOf(k)].keys
      BY <1>2, <1>3 DEF ScoresSeeAll
    <3> DEFINE m == MonthOf(k)
    <3>1. m \in Month /\ k \in Key /\ kpi[k] \in Nat
      BY <1>3
    <3>2. CASE m \in DOMAIN rows
      <4>1. health'[m] = rows[m]
        BY <1>2, <3>1, <3>2
      <4> HIDE DEF rows
      <4> QED
        BY <2>1, <3>2, <4>1, DataAssumption
    <3>3. CASE m \notin DOMAIN rows
      <4>1. health'[m] = health[m]
        BY <1>2, <3>1, <3>3
      <4>2. m \notin ToScore(call[s].mode)
        BY <2>1, <3>3
      <4>3. health[m] # None /\ ~(kpi[k] > health[m].at)
        BY <3>1, <4>2 DEF ToScore, Reopened
      <4>4. health[m].at \in Nat
        BY <3>1, <4>3 DEF TypeInv, StampsSound, HealthRow
      <4>5. kpi[k] <= health[m].at
        BY <3>1, <4>3, <4>4
      <4>6. ScoreSound(m)
        BY <2>1, <3>1
      <4> QED
        BY <4>1, <4>3, <4>5, <4>6 DEF ScoreSound
    <3> QED
      BY <3>2, <3>3
  <2> QED
    BY <1>1, <2>2, <2>3 DEF ReadSound
<1> QED
  BY <1>1, <1>4, ScoreKept

\* What is read for the scores.
LEMMA ScoreReads ==
  ASSUME RunInv, TypeInv, ScoreInv, NEW s \in Slot, ScoreRead(s)
  PROVE  ScoreInv'
<1>1. Moved(s) /\ (Starts(s) \/ (Active(s) /\ UNCHANGED overlapped))
  BY CallMoves, Actor DEF Scoring
<1>2. DOMAIN call = Slot /\ DOMAIN call[s] = Fields
  BY DEF RunInv, SlotShape
<1>3. UNCHANGED <<kpi, health, scoredAll>>
  BY DEF ScoreRead, data, history
<1>4. Measured' = Measured /\ ToScore(call[s].mode)' = ToScore(call[s].mode)
  <2>1. Measured' = Measured
    BY <1>3 DEF Measured
  <2>2. \A m \in Month : Reopened(m)' = Reopened(m)
    BY <1>3, <2>1 DEF Reopened
  <2>3. call'[s].mode = call[s].mode
    BY <1>2 DEF ScoreRead, Goto, Break, Fields
  <2> QED
    BY <1>3, <2>1, <2>2, <2>3 DEF ToScore
<1>5. /\ call'[s].at = "write"
      /\ call'[s].mode = call[s].mode
      /\ call'[s].seen = [m \in ToScore(call[s].mode) \ call'[s].failing |->
                            [keys |-> {k \in Measured : MonthOf(k) = m}, at |-> Now,
                             pillar |-> config.pillar, kpis |-> config.kpis]]
  <2>1. PICK failing \in SUBSET ToScore(call[s].mode) :
          call' = [call EXCEPT ![s] =
            [call[s] EXCEPT !.at = "write", !.failing = failing, !.stamp = Now,
                            !.seen = [m \in ToScore(call[s].mode) \ failing |->
                               [keys |-> {k \in Measured : MonthOf(k) = m}, at |-> Now,
                                pillar |-> config.pillar, kpis |-> config.kpis]]]]
    BY DEF ScoreRead, Goto, Break
  <2>2. call'[s].failing = failing
    BY <1>2, <2>1 DEF Fields
  <2>3. call'[s].at = "write" /\ call'[s].mode = call[s].mode
    BY <1>2, <2>1 DEF Fields
  <2>4. call'[s].seen = [m \in ToScore(call[s].mode) \ failing |->
                            [keys |-> {k \in Measured : MonthOf(k) = m}, at |-> Now,
                             pillar |-> config.pillar, kpis |-> config.kpis]]
    BY <1>2, <2>1 DEF Fields
  <2> QED
    BY <2>2, <2>3, <2>4
<1>6. Now \in Nat
  BY NowIsLater DEF RunInv, TypeInv
<1>7. \A m \in ToScore(call[s].mode) :
        [keys |-> {k \in Measured : MonthOf(k) = m}, at |-> Now,
         pillar |-> config.pillar, kpis |-> config.kpis] \in HealthRow
  BY <1>6 DEF TypeInv, HealthRow, Measured
<1>8. ReadSound(s)'
  <2>1. call'[s].at # "kpis"
    BY <1>5
  <2>2. /\ DOMAIN call'[s].seen = ToScore(call[s].mode)' \ call'[s].failing
        /\ \A m \in DOMAIN call'[s].seen :
             call'[s].seen[m] \in HealthRow /\ call'[s].seen[m].keys = {k \in Measured' : MonthOf(k) = m}
    <3> DEFINE months == ToScore(call[s].mode)
               row(m) == [keys |-> {k \in Measured : MonthOf(k) = m}, at |-> Now,
                          pillar |-> config.pillar, kpis |-> config.kpis]
    <3>1. call'[s].seen = [m \in months \ call'[s].failing |-> row(m)]
      BY <1>5
    <3>2. \A m \in months : row(m) \in HealthRow /\ row(m).keys = {k \in Measured : MonthOf(k) = m}
      BY <1>7
    <3> HIDE DEF months, row
    <3>3. /\ DOMAIN call'[s].seen = months \ call'[s].failing
          /\ \A m \in DOMAIN call'[s].seen :
               call'[s].seen[m] \in HealthRow /\ call'[s].seen[m].keys = {k \in Measured : MonthOf(k) = m}
      BY <3>1, <3>2
    <3> QED
      BY <1>4, <3>3 DEF months
  <2> QED
    BY <2>1, <2>2 DEF ReadSound
<1> QED
  BY <1>1, <1>3, <1>8, ScoreSame

LEMMA ScoreInit == TenantInit => ScoreInv
<1> SUFFICES ASSUME TenantInit PROVE ScoreInv
  OBVIOUS
<1>1. \A s \in Slot : ~Active(s)
  BY DEF TenantInit, Active, Idle
<1>2. OneAtWork /\ \A s \in Slot : ReadSound(s)
  BY <1>1 DEF OneAtWork, ReadSound, Active
<1>3. (\A m \in Month : ScoreSound(m)) /\ ScoresSeeAll
  <2>1. CASE kpi = [k \in Key |-> 0] /\ health = [m \in Month |-> None]
    BY <2>1 DEF ScoreSound, ScoresSeeAll, Measured
  <2>2. ASSUME NEW a \in Before, NEW c \in Before, Processed(a, c)
        PROVE  (\A m \in Month : ScoreSound(m)) /\ ScoresSeeAll
    <3> DEFINE row(m) == [keys |-> {k \in c.keys : MonthOf(k) = m}, at |-> 2, pillar |-> 0, kpis |-> 0]
    <3>1. Measured = c.keys /\ c.keys \subseteq Key
      BY <2>2, DataAssumption DEF Processed, Measured
    <3>2. \A m \in Month : health[m] = IF \E k \in c.keys : MonthOf(k) = m THEN row(m) ELSE None
      BY <2>2 DEF Processed
    <3>3. \A m : row(m) \in HealthRow /\ row(m).keys = {k \in c.keys : MonthOf(k) = m}
      BY <3>1 DEF HealthRow, Weights
    <3> HIDE DEF row
    <3>4. \A m \in Month : ScoreSound(m)
      BY <3>1, <3>2, <3>3 DEF ScoreSound
    <3>5. ScoresSeeAll
      BY <3>1, <3>2, <3>3, DataAssumption DEF ScoresSeeAll
    <3> QED
      BY <3>4, <3>5
  <2> QED
    BY <2>1, <2>2 DEF TenantInit
<1> QED
  BY <1>2, <1>3 DEF ScoreInv

LEMMA ScoreNext == RunInv /\ TypeInv /\ ScoreInv /\ [TenantNext]_tvars => ScoreInv'
<1> SUFFICES ASSUME RunInv, TypeInv, ScoreInv, [TenantNext]_tvars PROVE ScoreInv'
  OBVIOUS
<1>1. ASSUME NEW s \in Slot,
             Run(s) \/ Scoring(s) \/ Ending(s) \/ Calibrating(s) \/ \E mode \in Mode : ProcessData(s, mode)
      PROVE  ScoreInv'
  <2>1. /\ Moved(s) /\ (call'[s].at = "write" => ScoreRead(s))
        /\ Starts(s) \/ (Active(s) /\ UNCHANGED overlapped)
    BY <1>1, CallMoves, Actor
  <2>2. CASE StampKpis(s)
    <3>1. UNCHANGED <<kpi, health, scoredAll>>
      BY <2>2 DEF StampKpis, data
    <3>2. call'[s].at = "kpis" /\ call'[s].stamp = Now
      BY <2>2 DEF StampKpis, Goto, RunInv, SlotShape, Fields
    <3>3. \A m \in Scored : health[m].at < Now
      BY NowIsLater DEF RunInv, TypeInv, Stamps, Scored
    <3>4. ReadSound(s)'
      BY <3>1, <3>2, <3>3 DEF ReadSound, Scored
    <3> QED
      BY <2>1, <3>1, <3>4, ScoreSame
  <2>3. CASE ~StampKpis(s) /\ ~LoadKpis(s) /\ ~ScoreWrite(s) /\ ~ScoreRead(s)
    <3>1. UNCHANGED <<kpi, health, scoredAll>>
      <4> USE DEF data, history
      <4>1. CASE Run(s)
        BY <2>3, <4>1 DEF Run, LookStaged, ReadLineage, LoadAccounts, PhaseFails, Consume
      <4>2. CASE Scoring(s)
        BY <2>3, <4>2 DEF Scoring, ScoreFails, SyncStatus, SyncScores, SyncCompare, SyncCommit, Syncing, SyncFails
      <4>3. CASE Ending(s)
        BY <4>3 DEF Ending, Finish, Raise, Abort, Stop
      <4>4. CASE Calibrating(s)
        BY <4>4 DEF Calibrating, ProposeRead, ProposeCommit, DecideRead, RejectCommit, ApproveCommit,
           NoteRecompute, ConfigureRead, ConfigureCommit
      <4>5. CASE \E mode \in Mode : ProcessData(s, mode)
        BY <4>5 DEF ProcessData
      <4> QED
        BY <1>1, <4>1, <4>2, <4>3, <4>4, <4>5
    <3>2. call'[s].at # "kpis"
      <4>1. CASE Run(s)
        BY <2>3, <4>1 DEF Run, LookStaged, ReadLineage, LoadAccounts, PhaseFails, Consume,
           Goto, Break, RunInv, SlotShape, Fields
      <4> QED
        BY <1>1, <4>1, NotLoading DEF Loading
    <3>3. ReadSound(s)'
      BY <2>1, <2>3, <3>2 DEF ReadSound
    <3> QED
      BY <2>1, <3>1, <3>3, ScoreSame
  <2> QED
    BY <2>2, <2>3, ScoreLoads, ScoreWrites, ScoreReads
<1>2. ASSUME UNCHANGED <<kpi, health, scoredAll, overlapped, call>> PROVE ScoreInv'
  <2>1. Measured' = Measured /\ Scored' = Scored
    BY <1>2 DEF Measured, Scored
  <2>2. OneAtWork' /\ (~overlapped' => ~overlapped)
    BY <1>2 DEF ScoreInv, OneAtWork, Active
  <2>3. ~overlapped => (\A m \in Month : ScoreSound(m)') /\ ScoresSeeAll'
    BY <1>2, <2>1 DEF ScoreInv, ScoreSound, ScoresSeeAll
  <2>4. ~overlapped => \A s \in Slot : ReadSound(s)'
    BY <1>2, <2>1 DEF ScoreInv, ReadSound, ToScore, Reopened
  <2> QED
    BY <2>2, <2>3, <2>4 DEF ScoreInv
<1>3. ASSUME NEW c \in Content, Upload(c) PROVE ScoreInv'
  BY <1>2, <1>3 DEF Upload
<1>4. CASE UNCHANGED tvars
  BY <1>2, <1>4 DEF tvars, data, history
<1> QED
  BY <1>1, <1>3, <1>4, StepKinds

\* Once a health stage is through, every measurement is in the score of its month, late
\* ones too and after any failed or broken-off run before it, unless calls overlapped:
\* for any measurements, months and failures (process_data_pipeline.py:56-64).
THEOREM ScoresSeeAllHolds == TenantSpec => []ScoresSeeAll
<1>1. TenantInit => RunInv /\ TypeInv /\ ScoreInv
  BY RunInit, TypeInit, ScoreInit
<1>2. RunInv /\ TypeInv /\ ScoreInv /\ [TenantNext]_tvars => (RunInv /\ TypeInv /\ ScoreInv)'
  BY RunNext, TypeNext, ScoreNext
<1>3. ScoreInv => ScoresSeeAll
  BY DEF ScoreInv, ScoresSeeAll
<1> QED
  BY <1>1, <1>2, <1>3, PTL DEF TenantSpec

-----------------------------------------------------------------------------
(***************************************************************************)
(* The status of the account                                               *)
(***************************************************************************)
\* What the one call at work knows survives a step that is not its reading.
LEMMA SyncKept ==
  ASSUME OneAtWork, NEW s \in Slot, Moved(s), Starts(s) \/ (Active(s) /\ UNCHANGED overlapped),
         ~overlapped' => SyncSound(s)'
  PROVE  /\ ~overlapped' => ~overlapped /\ \A t \in Slot : SyncSound(t)'
<1>1. ~overlapped' => ~overlapped /\ \A t \in Slot : t # s => ~Active(t)'
  BY AloneKept
<1> QED
  BY <1>1 DEF Active, SyncSound

\* A step that writes neither the scores nor the status.
LEMMA StatusKept ==
  ASSUME OneAtWork, StatusInv, NEW s \in Slot, Moved(s),
         Starts(s) \/ (Active(s) /\ UNCHANGED overlapped),
         UNCHANGED <<health, status, behind>>, known => known',
         call'[s].at = "write" => known', ~overlapped' /\ ~overlapped => SyncSound(s)'
  PROVE  StatusInv'
<1>1. Scored' = Scored /\ Accounts' = Accounts
  BY DEF Scored, Accounts, ScoreOf, Latest
<1>2. ~overlapped' => ~overlapped
  BY AloneKept
<1>3. ~overlapped' => \A t \in Slot : SyncSound(t)'
  BY <1>2, SyncKept
<1>4. \A t \in Slot : call'[t].at = "write" => known'
  BY DEF Moved, StatusInv
<1> QED
  BY <1>1, <1>2, <1>3, <1>4 DEF StatusInv, I12

\* What _sync_account_status makes of a score never contradicts it.
LEMMA SyncedAgrees ==
  ASSUME NEW score, NEW old
  PROVE  LET new == Synced(Classify(score), old)
         IN  /\ ~(Classify(score) = "healthy" /\ new = "at_risk")
             /\ ~(Classify(score) = "critical" /\ new = "active")
BY DEF Target, Synced

\* So the audit has nothing to say of the status it is given.
LEMMA SyncedPasses ==
  ASSUME NEW old, status' = Synced(Classify(ScoreOf(Latest)), old), UNCHANGED health
  PROVE  I12(Accounts)' = {}
<1>1. Scored' = Scored /\ Latest' = Latest /\ ScoreOf(Latest)' = ScoreOf(Latest)
  BY DEF Scored, Latest, ScoreOf
<1>2. /\ ~(Classify(ScoreOf(Latest)) = "healthy" /\ status' = "at_risk")
      /\ ~(Classify(ScoreOf(Latest)) = "critical" /\ status' = "active")
  BY SyncedAgrees
<1> QED
  BY <1>1, <1>2 DEF I12, Accounts

\* Phase 1 sets the status of an account that nobody knew, so it has no score yet.
LEMMA StatusLoads ==
  ASSUME RunInv, OneAtWork, StatusInv, NEW s \in Slot, LoadAccounts(s)
  PROVE  StatusInv'
<1>1. /\ Moved(s) /\ (Starts(s) \/ (Active(s) /\ UNCHANGED overlapped))
      /\ call'[s].at \notin {"write", "compare", "status"}
  BY CallMoves, Actor DEF LoadAccounts, ScoreRead, SyncScores, SyncCompare, At, Run
<1>2. UNCHANGED <<health, behind>> /\ (known => known')
  BY DEF LoadAccounts
<1>3. CASE known
  <2>1. UNCHANGED status
    BY <1>3 DEF LoadAccounts
  <2> QED
    BY <1>1, <1>2, <2>1, StatusKept DEF SyncSound
<1>4. CASE ~known
  <2>1. Scored' = {} /\ \A t \in Slot : call'[t].at # "write"
    BY <1>1, <1>2, <1>4 DEF StatusInv, Scored, Moved
  <2>2. I12(Accounts)' = {}
    BY <2>1 DEF I12, Accounts
  <2>3. ~overlapped' => \A t \in Slot : SyncSound(t)'
    BY <1>1, SyncKept DEF SyncSound
  <2> QED
    BY <1>2, <2>1, <2>2, <2>3 DEF StatusInv
<1> QED
  BY <1>3, <1>4

LEMMA StatusWrites ==
  ASSUME RunInv, OneAtWork, StatusInv, NEW s \in Slot, ScoreWrite(s)
  PROVE  StatusInv'
<1> DEFINE rows == call[s].seen
<1>1. /\ Moved(s) /\ (Starts(s) \/ (Active(s) /\ UNCHANGED overlapped))
      /\ call'[s].at \notin {"write", "compare", "status"}
  BY CallMoves, Actor DEF ScoreWrite, ScoreRead, SyncScores, SyncCompare, At, Scoring
<1>2. /\ known /\ UNCHANGED <<known, status>>
      /\ health' = [m \in Month |-> IF m \in DOMAIN rows THEN rows[m] ELSE health[m]]
      /\ behind' = (behind \/ DOMAIN rows # {})
  BY DEF ScoreWrite, StatusInv, At
<1>3. CASE DOMAIN rows = {}
  <2>1. UNCHANGED <<health, status, behind>>
    <3>1. health' = health
      BY <1>2, <1>3 DEF StatusInv
    <3>2. behind' = behind
      BY <1>2, <1>3 DEF StatusInv
    <3> QED
      BY <1>2, <3>1, <3>2
  <2> QED
    BY <1>1, <1>2, <2>1, StatusKept DEF SyncSound
<1>4. CASE DOMAIN rows # {}
  <2>1. behind'
    BY <1>2, <1>4
  <2>2. health' = [m \in Month |-> health'[m]]
    BY <1>2
  <2>3. ~overlapped' => \A t \in Slot : SyncSound(t)'
    BY <1>1, SyncKept DEF SyncSound
  <2> QED
    BY <1>2, <2>1, <2>2, <2>3 DEF StatusInv
<1> QED
  BY <1>3, <1>4

\* The sync brings the status in line with the latest score, which nobody else has
\* changed since it was read.
LEMMA StatusSyncs ==
  ASSUME RunInv, OneAtWork, StatusInv, NEW s \in Slot, SyncStatus(s)
  PROVE  StatusInv'
<1>1. /\ DOMAIN call = Slot /\ DOMAIN call[s] = Fields
      /\ Moved(s) /\ (Starts(s) \/ (Active(s) /\ UNCHANGED overlapped))
  BY CallMoves, Actor DEF RunInv, SlotShape, Scoring
<1>2. UNCHANGED <<known, health>> /\ Scored' = Scored /\ Latest' = Latest /\ ScoreOf(Latest)' = ScoreOf(Latest)
  BY DEF SyncStatus, SyncScores, SyncCompare, SyncCommit, data, Scored, Latest, ScoreOf
<1> USE DEF At, Goto, Fields
<1>3. CASE SyncScores(s)
  <2>1. /\ UNCHANGED <<status, behind>>
        /\ call'[s].at = "compare" /\ call'[s].seen = Classify(ScoreOf(Latest))
    BY <1>1, <1>3 DEF SyncScores, data, history
  <2> QED
    BY <1>1, <1>2, <2>1, StatusKept DEF SyncSound
<1>4. CASE SyncCompare(s)
  <2> DEFINE target == Synced(call[s].seen, status)
  <2>1. /\ UNCHANGED status /\ behind' = (behind /\ target # status)
        /\ call'[s].at = (IF target = status THEN "finish" ELSE "status")
        /\ target # status => call'[s].seen = target
    BY <1>1, <1>4 DEF SyncCompare, data
  <2>2. ~overlapped => target = Synced(Classify(ScoreOf(Latest)), status)
    BY <1>4 DEF SyncCompare, StatusInv, SyncSound
  <2> HIDE DEF target
  <2>3. CASE target = status
    <3>1. behind' = FALSE /\ call'[s].at = "finish"
      BY <2>1, <2>3
    <3>2. ~overlapped => I12(Accounts)' = {}
      BY <1>2, <2>1, <2>2, <2>3, SyncedPasses
    <3>3. ~overlapped' => ~overlapped /\ \A t \in Slot : SyncSound(t)'
      BY <1>1, <3>1, SyncKept DEF SyncSound
    <3> QED
      BY <1>1, <1>2, <3>1, <3>2, <3>3 DEF StatusInv, Moved
  <2>4. CASE target # status
    <3>1. behind' = behind /\ call'[s].at = "status" /\ call'[s].seen = target
      BY <2>1, <2>4 DEF StatusInv
    <3>2. ~overlapped => SyncSound(s)'
      BY <1>2, <2>1, <2>2, <3>1 DEF SyncSound
    <3> QED
      BY <1>1, <1>2, <2>1, <3>1, <3>2, StatusKept
  <2> QED
    BY <2>3, <2>4
<1>5. CASE SyncCommit(s)
  <2>1. behind' = FALSE /\ status' = call[s].seen /\ call'[s].at = "finish"
    BY <1>1, <1>5 DEF SyncCommit
  <2>2. ~overlapped => I12(Accounts)' = {}
    BY <1>2, <1>5, <2>1, SyncedPasses DEF SyncCommit, StatusInv, SyncSound
  <2>3. ~overlapped' => ~overlapped /\ \A t \in Slot : SyncSound(t)'
    BY <1>1, <2>1, SyncKept DEF SyncSound
  <2> QED
    BY <1>1, <1>2, <2>1, <2>2, <2>3 DEF StatusInv, Moved
<1> QED
  BY <1>3, <1>4, <1>5 DEF SyncStatus

LEMMA StatusNext == RunInv /\ OneAtWork /\ StatusInv /\ [TenantNext]_tvars => StatusInv'
<1> SUFFICES ASSUME RunInv, OneAtWork, StatusInv, [TenantNext]_tvars PROVE StatusInv'
  OBVIOUS
<1> USE DEF history, weights
<1>1. ASSUME NEW s \in Slot,
             Run(s) \/ Scoring(s) \/ Ending(s) \/ Calibrating(s) \/ \E mode \in Mode : ProcessData(s, mode)
      PROVE  StatusInv'
  <2>1. CASE LoadAccounts(s)
    BY <2>1, StatusLoads
  <2>2. CASE ScoreWrite(s)
    BY <2>2, StatusWrites
  <2>3. CASE SyncStatus(s)
    BY <2>3, StatusSyncs
  <2>4. CASE ~LoadAccounts(s) /\ ~ScoreWrite(s) /\ ~SyncStatus(s)
    <3>1. UNCHANGED <<known, health, status, behind>>
      <4>1. CASE Run(s)
        BY <2>4, <4>1 DEF Run, LookStaged, ReadLineage, StampKpis, LoadKpis, PhaseFails, Consume, data
      <4>2. CASE Scoring(s)
        BY <2>4, <4>2 DEF Scoring, ScoreRead, ScoreFails, SyncFails, data
      <4>3. CASE Ending(s)
        BY <4>3 DEF Ending, Finish, Raise, Abort, Stop, data
      <4>4. CASE Calibrating(s)
        BY <4>4 DEF Calibrating, ProposeRead, ProposeCommit, DecideRead, RejectCommit, ApproveCommit,
           NoteRecompute, ConfigureRead, ConfigureCommit, data
      <4>5. CASE \E mode \in Mode : ProcessData(s, mode)
        BY <4>5 DEF ProcessData
      <4> QED
        BY <1>1, <4>1, <4>2, <4>3, <4>4, <4>5
    <3>2. /\ Moved(s) /\ (call'[s].at = "write" => ScoreRead(s))
          /\ call'[s].at \in {"compare", "status"} => SyncScores(s) \/ SyncCompare(s)
      BY <1>1, CallMoves
    <3>3. /\ call'[s].at = "write" => known'
          /\ call'[s].at \notin {"compare", "status"}
      BY <2>4, <3>1, <3>2 DEF ScoreRead, SyncStatus
    <3>4. Starts(s) \/ (Active(s) /\ UNCHANGED overlapped)
      BY <1>1, Actor
    <3> QED
      BY <3>1, <3>2, <3>3, <3>4, StatusKept DEF SyncSound
  <2> QED
    BY <2>1, <2>2, <2>3, <2>4
<1>2. ASSUME UNCHANGED <<known, health, status, behind, call, overlapped>> PROVE StatusInv'
  <2>1. Scored' = Scored /\ Accounts' = Accounts /\ Latest' = Latest /\ ScoreOf(Latest)' = ScoreOf(Latest)
    BY <1>2 DEF Scored, Accounts, ScoreOf, Latest
  <2> QED
    BY <1>2, <2>1 DEF StatusInv, SyncSound, I12
<1>3. ASSUME NEW c \in Content, Upload(c) PROVE StatusInv'
  BY <1>2, <1>3 DEF Upload
<1>4. CASE UNCHANGED tvars
  BY <1>2, <1>4 DEF tvars, data
<1> QED
  BY <1>1, <1>3, <1>4, StepKinds

LEMMA StatusInit == TenantInit => StatusInv
<1> SUFFICES ASSUME TenantInit PROVE StatusInv
  OBVIOUS
<1>1. behind = FALSE /\ \A s \in Slot : call[s].at = "idle"
  BY DEF TenantInit, Idle
<1>2. \A s \in Slot : SyncSound(s) /\ call[s].at # "write"
  BY <1>1 DEF SyncSound
<1>3. CASE known = FALSE /\ health = [m \in Month |-> None]
  <2>1. Scored = {}
    BY <1>3 DEF Scored
  <2> QED
    BY <1>1, <1>2, <1>3, <2>1 DEF StatusInv, I12, Accounts
<1>4. ASSUME NEW a \in Before, NEW c \in Before, Processed(a, c) PROVE StatusInv
  <2>1. known /\ health = [m \in Month |-> health[m]]
    BY <1>4 DEF Processed
  <2>2. status = Synced(Classify(ScoreOf(Latest)), a.says)
    BY <1>4 DEF Processed
  <2>3. /\ ~(Classify(ScoreOf(Latest)) = "healthy" /\ status = "at_risk")
        /\ ~(Classify(ScoreOf(Latest)) = "critical" /\ status = "active")
    BY <2>2, SyncedAgrees
  <2> QED
    BY <1>1, <1>2, <2>1, <2>3 DEF StatusInv, I12, Accounts
<1> QED
  BY <1>1, <1>3, <1>4 DEF TenantInit

\* Once a sync went through after the last scores the status of the account does not
\* contradict the latest of them, whatever failed on the way, for any scores and
\* thresholds, until two calls overlap (process_data_pipeline.py:247-278).
THEOREM StatusFollowsHealthHolds == TenantSpec => []StatusFollowsHealth
<1> DEFINE Inv == RunInv /\ TypeInv /\ ScoreInv /\ StatusInv
<1>1. TenantInit => Inv
  BY RunInit, TypeInit, ScoreInit, StatusInit
<1>2. Inv /\ [TenantNext]_tvars => Inv'
  BY RunNext, TypeNext, ScoreNext, StatusNext DEF ScoreInv
<1>3. Inv => StatusFollowsHealth
  BY DEF StatusInv, StatusFollowsHealth
<1> QED
  BY <1>1, <1>2, <1>3, PTL DEF TenantSpec

-----------------------------------------------------------------------------
(***************************************************************************)
(* Weights                                                                 *)
(***************************************************************************)
\* A step of one process that keeps what was said of the weights.
LEMMA WeightKept ==
  ASSUME RunInv, ScoreInv, WeightInv, NEW s \in Slot, Moved(s),
         Starts(s) \/ (Active(s) /\ UNCHANGED overlapped),
         ~overlapped' /\ ~overlapped =>
           ScoredMeasured' /\ ProposalsSound' /\ Told' /\ DecisionSound(s)'
  PROVE  WeightInv'
<1>1. ~overlapped' => ~overlapped /\ \A t \in Slot : t # s => ~Active(t)'
  BY AloneKept DEF ScoreInv
<1>2. ~overlapped' => \A t \in Slot : t # s => DecisionSound(t)'
  BY <1>1 DEF Active, DecisionSound, Syncing, Deciding, Running, Loading
<1> QED
  BY <1>1, <1>2 DEF WeightInv

\* What is said of scores and weights, when neither changes.
LEMMA WeightTables ==
  ASSUME WeightInv, ~overlapped, UNCHANGED <<health, missed, config, proposals>>, Measured \subseteq Measured'
  PROVE  /\ ScoredMeasured' /\ ProposalsSound' /\ Told'
         /\ \A p : /\ Shows(p) => Shows(p)'
                   /\ InForce(p) => InForce(p)'
                   /\ ~StillOpen(p) => ~StillOpen(p)'
<1>1. Scored' = Scored
  BY DEF Scored
<1>2. \A p : (Shows(p) <=> Shows(p)') /\ (InForce(p) <=> InForce(p)') /\ (StillOpen(p) <=> StillOpen(p)')
  BY <1>1 DEF Shows, InForce, StillOpen
<1>3. ScoredMeasured'
  BY <1>1 DEF WeightInv, ScoredMeasured
<1>4. OpenProposals' = OpenProposals
  BY DEF OpenProposals
<1>5. ProposalsSound'
  BY <1>2, <1>4 DEF WeightInv, ProposalsSound
<1>6. Told'
  BY <1>2 DEF WeightInv, Told
<1> QED
  BY <1>2, <1>3, <1>5, <1>6

\* A run goes on, and what it knows of the weights with it.
LEMMA WeightGoesOn ==
  ASSUME RunInv, ScoreInv, WeightInv, NEW s \in Slot, Moved(s), Active(s) /\ UNCHANGED overlapped,
         UNCHANGED <<health, missed, config, proposals>>, Measured \subseteq Measured',
         call[s].at \in Running, call'[s].at \in Running, call'[s].at # "write",
         call'[s].for = call[s].for, call'[s].mode = call[s].mode,
         call'[s].at \in Syncing \cup {"finish"} /\ call'[s].errors = {} =>
           call[s].at \in Syncing \cup {"finish"} /\ call[s].errors = {}
  PROVE  WeightInv'
<1>1. ASSUME ~overlapped PROVE ScoredMeasured' /\ ProposalsSound' /\ Told' /\ DecisionSound(s)'
  <2>1. DecisionSound(s)
    BY <1>1 DEF WeightInv
  <2>2. DecisionSound(s)'
    BY <1>1, <2>1, WeightTables DEF DecisionSound, Syncing, Running, Loading, Deciding
  <2> QED
    BY <1>1, <2>2, WeightTables
<1> QED
  BY <1>1, WeightKept

\* A call is over, or a run begins that is about no proposal.
LEMMA WeightLeaves ==
  ASSUME RunInv, ScoreInv, WeightInv, NEW s \in Slot, Moved(s),
         Starts(s) \/ (Active(s) /\ UNCHANGED overlapped),
         UNCHANGED <<health, missed, config, proposals, kpi>>,
         \/ call'[s].at = "idle"
         \/ call'[s].at \in Running /\ call'[s].at # "write" /\ call'[s].for \notin DOMAIN proposals
         \/ call'[s].at = "propose" /\ call'[s].ids = OpenProposals
         \/ call'[s].at = "configure" /\ call'[s].version = config.version
         \/ /\ call'[s].at \in Deciding /\ call'[s].version = config.version
            /\ call'[s].for \in DOMAIN proposals /\ StillOpen(call'[s].for)
  PROVE  WeightInv'
<1>1. Measured' = Measured /\ OpenProposals' = OpenProposals
  BY DEF Measured, OpenProposals
<1>2. \A p : StillOpen(p) => StillOpen(p)'
  BY DEF StillOpen
<1>3. DecisionSound(s)'
  BY <1>1, <1>2 DEF DecisionSound, Syncing, Running, Loading, Deciding, StillOpen
<1>4. ~overlapped => ScoredMeasured' /\ ProposalsSound' /\ Told'
  BY <1>1, WeightTables
<1> QED
  BY <1>3, <1>4, WeightKept

LEMMA WeightRuns ==
  ASSUME RunInv, TypeInv, ScoreInv, WeightInv, NEW s \in Slot, Run(s)
  PROVE  WeightInv'
<1>1. DOMAIN call = Slot /\ DOMAIN call[s] = Fields /\ Moved(s)
  BY CallMoves DEF RunInv, SlotShape
<1> USE DEF At, Goto, Break, Fields, data, weights, history
<1>2. Active(s) /\ UNCHANGED overlapped /\ UNCHANGED <<health, missed, config, proposals>>
  BY DEF Run, LookStaged, ReadLineage, LoadAccounts, StampKpis, LoadKpis, PhaseFails, Consume, Active
<1>3. Measured \subseteq Measured'
  <2>1. CASE LoadKpis(s)
    <3>1. kpi' = [k \in Key |-> IF kpi[k] = 0 /\ k \in call[s].rows THEN call[s].stamp ELSE kpi[k]]
      BY <2>1 DEF LoadKpis
    <3> QED
      BY <3>1 DEF Measured
  <2>2. CASE ~LoadKpis(s)
    <3>1. UNCHANGED kpi
      BY <2>2 DEF Run, LookStaged, ReadLineage, LoadAccounts, StampKpis, PhaseFails, Consume
    <3> QED
      BY <3>1 DEF Measured
  <2> QED
    BY <2>1, <2>2
<1>4. /\ call[s].at \in Loading \cup {"look"}
      /\ call'[s].at \in Loading \cup {"health", "fail"}
      /\ call'[s].for = call[s].for /\ call'[s].mode = call[s].mode
  <2> USE DEF Loading
  <2>1. CASE LookStaged(s)
    BY <1>1, <2>1 DEF LookStaged
  <2>2. CASE ReadLineage(s)
    BY <1>1, <2>2 DEF ReadLineage
  <2>3. CASE LoadAccounts(s)
    BY <1>1, <2>3 DEF LoadAccounts
  <2>4. CASE StampKpis(s)
    BY <1>1, <2>4 DEF StampKpis
  <2>5. CASE LoadKpis(s)
    BY <1>1, <2>5 DEF LoadKpis
  <2>6. CASE PhaseFails(s)
    BY <1>1, <2>6 DEF PhaseFails
  <2>7. CASE Consume(s)
    BY <1>1, <2>7 DEF Consume
  <2> QED
    BY <2>1, <2>2, <2>3, <2>4, <2>5, <2>6, <2>7 DEF Run
<1>5. /\ call[s].at \in Running /\ call'[s].at \in Running /\ call'[s].at # "write"
      /\ call'[s].at \notin Syncing \cup {"finish"}
  BY <1>4 DEF Running, Loading, Syncing
<1> QED
  BY <1>1, <1>2, <1>3, <1>4, <1>5, WeightGoesOn

\* The weights in force are read with the measurements.
LEMMA WeightReads ==
  ASSUME RunInv, ScoreInv, WeightInv, NEW s \in Slot, ScoreRead(s)
  PROVE  WeightInv'
<1>1. DOMAIN call = Slot /\ DOMAIN call[s] = Fields /\ Moved(s)
  BY CallMoves DEF RunInv, SlotShape, Scoring
<1>2. Active(s) /\ UNCHANGED overlapped /\ UNCHANGED <<health, missed, config, proposals, kpi>>
  BY DEF ScoreRead, At, Active, data, weights, history
<1>3. PICK failing \in SUBSET ToScore(call[s].mode) :
        call' = [call EXCEPT ![s] =
          [call[s] EXCEPT !.at = "write", !.failing = failing, !.stamp = Now,
                          !.seen = [m \in ToScore(call[s].mode) \ failing |->
                             [keys |-> {k \in Measured : MonthOf(k) = m}, at |-> Now,
                              pillar |-> config.pillar, kpis |-> config.kpis]]]]
  BY DEF ScoreRead, Goto, Break
<1>4. call'[s].at = "write" /\ call'[s].for = call[s].for /\ call'[s].mode = call[s].mode
      /\ call[s].at = "health"
  BY <1>1, <1>3 DEF Fields, ScoreRead, At
<1>5. \A m \in DOMAIN call'[s].seen :
        call'[s].seen[m].pillar = config.pillar /\ call'[s].seen[m].kpis = config.kpis
  <2>1. call'[s].seen = [m \in ToScore(call[s].mode) \ failing |->
                             [keys |-> {k \in Measured : MonthOf(k) = m}, at |-> Now,
                              pillar |-> config.pillar, kpis |-> config.kpis]]
    BY <1>1, <1>3 DEF Fields
  <2> QED
    BY <2>1
<1>6. Measured' = Measured
  BY <1>2 DEF Measured
<1>7. ASSUME ~overlapped PROVE ScoredMeasured' /\ ProposalsSound' /\ Told' /\ DecisionSound(s)'
  <2>1. DecisionSound(s)
    BY <1>7 DEF WeightInv
  <2>2. DecisionSound(s)'
    BY <1>2, <1>4, <1>5, <1>6, <1>7, <2>1, WeightTables DEF DecisionSound, Syncing, Running, Loading, Deciding
  <2> QED
    BY <1>2, <1>6, <1>7, <2>2, WeightTables
<1> QED
  BY <1>1, <1>2, <1>7, WeightKept

\* Every month that a recompute covers shows the weights in force, and the ones it does
\* not cover are those that failed.
LEMMA WeightWrites ==
  ASSUME RunInv, ScoreInv, WeightInv, NEW s \in Slot, ScoreWrite(s)
  PROVE  WeightInv'
<1> DEFINE rows == call[s].seen
<1>1. DOMAIN call = Slot /\ DOMAIN call[s] = Fields /\ Moved(s)
  BY CallMoves DEF RunInv, SlotShape, Scoring
<1>2. /\ Active(s) /\ UNCHANGED overlapped /\ UNCHANGED <<config, proposals, kpi>>
      /\ call[s].at = "write"
      /\ health' = [m \in Month |-> IF m \in DOMAIN rows THEN rows[m] ELSE health[m]]
      /\ missed' = (missed \ DOMAIN rows) \cup call[s].failing
  BY DEF ScoreWrite, At, Active, weights
<1>3. /\ call'[s].at \in {"sync", "finish"} /\ call'[s].for = call[s].for
      /\ call'[s].mode = call[s].mode /\ call'[s].errors = call[s].errors
  BY <1>1 DEF ScoreWrite, Goto, Fields
<1>4. ASSUME ~overlapped PROVE ScoredMeasured' /\ ProposalsSound' /\ Told' /\ DecisionSound(s)'
  <2>1. DOMAIN rows = ToScore(call[s].mode) \ call[s].failing
    BY <1>2, <1>4 DEF ScoreInv, ReadSound
  <2>2. DecisionSound(s) /\ ScoredMeasured /\ ProposalsSound /\ Told
    BY <1>4 DEF WeightInv
  <2>3. \A m \in DOMAIN rows : rows[m].pillar = config.pillar /\ rows[m].kpis = config.kpis
    BY <1>2, <2>2 DEF DecisionSound, Syncing
  <2> HIDE DEF rows
  <2>4. \A m \in Scored' :
          /\ m \in Month
          /\ \/ m \in DOMAIN rows /\ health'[m] = rows[m]
             \/ m \notin DOMAIN rows /\ m \in Scored /\ health'[m] = health[m]
    <3> SUFFICES ASSUME NEW m \in Scored'
                 PROVE  /\ m \in Month
                        /\ \/ m \in DOMAIN rows /\ health'[m] = rows[m]
                           \/ m \notin DOMAIN rows /\ m \in Scored /\ health'[m] = health[m]
      OBVIOUS
    <3>1. m \in Month /\ health'[m] # None
      BY DEF Scored
    <3>2. health'[m] = IF m \in DOMAIN rows THEN rows[m] ELSE health[m]
      BY <1>2, <3>1
    <3> QED
      BY <3>1, <3>2 DEF Scored
  <2>5. Measured' = Measured
    BY <1>2 DEF Measured
  <2>6. ScoredMeasured'
    <3>1. \A m \in DOMAIN rows : \E k \in Measured : MonthOf(k) = m
      BY <2>1 DEF ToScore
    <3> QED
      BY <2>2, <2>4, <2>5, <3>1 DEF ScoredMeasured
  <2>7. OpenProposals' = OpenProposals /\ \A p : (InForce(p) <=> InForce(p)') /\ (StillOpen(p) <=> StillOpen(p)')
    BY <1>2 DEF OpenProposals, InForce, StillOpen
  <2>8. ProposalsSound'
    BY <1>2, <2>2, <2>7 DEF ProposalsSound
  <2>9. ASSUME NEW p, InForce(p), Shows(p) PROVE Shows(p)'
    BY <1>2, <2>3, <2>4, <2>9 DEF Shows, InForce
  <2>10. Told'
    BY <1>2, <2>2, <2>7, <2>9 DEF Told
  <2>11. ASSUME NEW p, InForce(p), call[s].mode = "full_recalc" PROVE Shows(p)'
    <3> SUFFICES ASSUME NEW m \in Scored', m \notin missed'
                 PROVE  health'[m].pillar = p /\ health'[m].kpis = p
      BY DEF Shows
    <3>1. CASE m \in DOMAIN rows
      BY <2>3, <2>4, <2>11, <3>1 DEF InForce
    <3>2. CASE m \notin DOMAIN rows
      <4>1. m \in Month /\ \E k \in Measured : MonthOf(k) = m
        BY <2>2, <2>4, <3>2 DEF ScoredMeasured
      <4>2. m \in ToScore(call[s].mode)
        BY <2>11, <4>1 DEF ToScore
      <4> QED
        BY <1>2, <2>1, <3>2, <4>2
    <3> QED
      BY <3>1, <3>2
  <2>12. ASSUME NEW p \in DOMAIN proposals, p = call[s].for
         PROVE  ~StillOpen(p)' /\ InForce(p)' /\ Shows(p)' /\ call[s].mode = "full_recalc"
    <3>1. ~StillOpen(p) /\ InForce(p) /\ call[s].mode = "full_recalc"
      BY <1>2, <2>2, <2>12 DEF DecisionSound, Syncing, Running
    <3> QED
      BY <2>7, <2>11, <3>1
  <2>13. DecisionSound(s)'
    BY <1>2, <1>3, <2>12 DEF DecisionSound, Syncing, Deciding
  <2> QED
    BY <2>6, <2>8, <2>10, <2>13
<1> QED
  BY <1>1, <1>2, <1>4, WeightKept

LEMMA WeightScores ==
  ASSUME RunInv, ScoreInv, WeightInv, NEW s \in Slot,
         ScoreFails(s) \/ SyncStatus(s) \/ SyncFails(s) \/ Raise(s)
  PROVE  WeightInv'
<1>1. DOMAIN call = Slot /\ DOMAIN call[s] = Fields /\ Moved(s) /\ RunOf(s)
  BY CallMoves DEF RunInv, SlotShape, Scoring, Ending
<1> USE DEF At, Goto, Break, Fields, data, weights, history
<1>2. UNCHANGED <<overlapped, health, missed, config, proposals, kpi>>
  BY DEF ScoreFails, SyncStatus, SyncScores, SyncCompare, SyncCommit, Syncing, SyncFails, Raise
<1>3. /\ call[s].at \in Running /\ call'[s].at \in Running /\ call'[s].at # "write"
      /\ call'[s].for = call[s].for /\ call'[s].mode = call[s].mode
      /\ call'[s].at \in Syncing \cup {"finish"} /\ call'[s].errors = {} =>
           call[s].at \in Syncing \cup {"finish"} /\ call[s].errors = {}
  <2>1. CASE ScoreFails(s)
    <3>1. call'[s].at = "finish" /\ call'[s].errors = call[s].errors \cup {"health"}
      BY <1>1, <2>1 DEF ScoreFails
    <3>2. call'[s].for = call[s].for /\ call'[s].mode = call[s].mode /\ call[s].at \in {"health", "write"}
      BY <1>1, <2>1 DEF ScoreFails
    <3> QED
      BY <3>1, <3>2 DEF Running
  <2>2. CASE SyncStatus(s) \/ SyncFails(s)
    BY <1>1, <2>2 DEF SyncStatus, SyncScores, SyncCompare, SyncCommit, Syncing, SyncFails, Running
  <2>3. CASE Raise(s)
    <3>1. call[s].at \in Running
      BY <1>1, <2>3 DEF Raise, RunOf, Deciding
    <3>2. call'[s].at = "fail" /\ call'[s].for = call[s].for /\ call'[s].mode = call[s].mode
      BY <1>1, <2>3 DEF Raise
    <3> QED
      BY <3>1, <3>2 DEF Running, Syncing
  <2> QED
    BY <2>1, <2>2, <2>3
<1>4. Active(s) /\ Measured' = Measured
  BY <1>2, <1>3 DEF Active, Running, Loading, Measured
<1> QED
  BY <1>1, <1>2, <1>3, <1>4, WeightGoesOn

\* The outcome of a recompute that was a success: no stage failed.
LEMMA WeightEnds ==
  ASSUME RunInv, ScoreInv, WeightInv, NEW s \in Slot, Finish(s) \/ Abort(s)
  PROVE  WeightInv'
<1>1. DOMAIN call = Slot /\ DOMAIN call[s] = Fields /\ Moved(s) /\ RunOf(s)
  BY CallMoves DEF RunInv, SlotShape, Ending
<1>2. /\ UNCHANGED <<overlapped, health, missed, config, proposals, kpi>>
      /\ call[s].at \in {"finish", "fail"} /\ Active(s)
  BY DEF Finish, Abort, At, Active, weights, history
<1>3. Measured' = Measured
  BY <1>2 DEF Measured
<1>4. CASE call[s].for = 0
  <2>1. call'[s].at = "idle"
    BY <1>1, <1>4 DEF Finish, Abort, Leaves, Goto, Idle
  <2> QED
    BY <1>1, <1>2, <2>1, WeightLeaves
<1>5. CASE call[s].for # 0
  <2>1. call'[s].at = "note" /\ call'[s].run = call[s].run /\ call'[s].for = call[s].for
    BY <1>1, <1>5 DEF Finish, Abort, Leaves, Goto, Idle
  <2>2. runs'[call[s].run] = "success" => call[s].at = "finish" /\ call[s].errors = {}
    <3>1. call[s].run \in DOMAIN runs
      BY <1>1, <1>2 DEF RunOf, Running, RunInv
    <3>2. CASE Finish(s)
      <4>1. call[s].errors # {} => runs'[call[s].run] \in {"partial", "failed"}
        BY <3>1, <3>2 DEF Finish
      <4> QED
        BY <3>2, <4>1 DEF Finish, At
    <3>3. CASE Abort(s)
      BY <3>1, <3>3 DEF Abort, Aborted
    <3> QED
      BY <3>2, <3>3
  <2>3. ASSUME ~overlapped PROVE ScoredMeasured' /\ ProposalsSound' /\ Told' /\ DecisionSound(s)'
    <3>1. DecisionSound(s)
      BY <2>3 DEF WeightInv
    <3>2. ASSUME NEW p \in DOMAIN proposals, p = call[s].for
          PROVE  ~StillOpen(p)' /\ InForce(p)' /\ (runs'[call[s].run] = "success" => Shows(p)')
      <4>1. ~StillOpen(p) /\ InForce(p) /\ (runs'[call[s].run] = "success" => Shows(p))
        BY <1>2, <2>2, <3>1, <3>2 DEF DecisionSound, Syncing, Running
      <4> QED
        BY <1>2, <1>3, <2>3, <4>1, WeightTables
    <3>3. DecisionSound(s)'
      BY <1>2, <2>1, <3>2 DEF DecisionSound, Syncing, Deciding
    <3> QED
      BY <1>2, <1>3, <2>3, <3>3, WeightTables
  <2> QED
    BY <1>1, <1>2, <2>3, WeightKept
<1> QED
  BY <1>4, <1>5

\* A call that begins.
LEMMA WeightStarts ==
  ASSUME RunInv, TypeInv, ScoreInv, WeightInv, NEW s \in Slot,
         \/ Stop(s) \/ ProposeRead(s) \/ \E fields : ConfigureRead(s, fields)
         \/ \E p \in 1..MaxProposals, d \in Deciding : DecideRead(s, p, d)
         \/ \E mode \in Mode : ProcessData(s, mode)
  PROVE  WeightInv'
<1>1. DOMAIN call = Slot /\ DOMAIN call[s] = Fields
  BY DEF RunInv, SlotShape
<1> USE DEF At, Goto, Break, Fields, data, weights, history
<1>2. Moved(s) /\ UNCHANGED <<health, missed, config, proposals, kpi>>
  BY <1>1 DEF Stop, ProposeRead, ConfigureRead, DecideRead, ProcessData, Enter, Moved, Idle
<1>3. Starts(s) \/ (Active(s) /\ UNCHANGED overlapped)
  BY DEF Stop, ProposeRead, ConfigureRead, DecideRead, ProcessData, Active
<1>4. CASE Stop(s)
  <2>1. call'[s].at = "idle"
    BY <1>1, <1>4 DEF Stop, Idle
  <2> QED
    BY <1>2, <1>3, <2>1, WeightLeaves
<1>5. CASE ProposeRead(s)
  <2>1. call'[s].at = "propose" /\ call'[s].ids = OpenProposals
    BY <1>1, <1>5 DEF ProposeRead, Idle
  <2> QED
    BY <1>2, <1>3, <2>1, WeightLeaves
<1>6. ASSUME NEW fields, ConfigureRead(s, fields) PROVE WeightInv'
  <2>1. call'[s].at = "configure" /\ call'[s].version = config.version
    BY <1>1, <1>6 DEF ConfigureRead, Idle
  <2> QED
    BY <1>2, <1>3, <2>1, WeightLeaves
<1>7. ASSUME NEW p, NEW d \in Deciding, DecideRead(s, p, d) PROVE WeightInv'
  <2>1. call'[s].at = d /\ call'[s].version = config.version /\ call'[s].for = p
    BY <1>1, <1>7 DEF DecideRead, Idle
  <2>2. p \in DOMAIN proposals /\ StillOpen(p)
    BY <1>7 DEF DecideRead, MayDecide, StillOpen
  <2> QED
    BY <1>2, <1>3, <2>1, <2>2, WeightLeaves
<1>8. ASSUME NEW mode, ProcessData(s, mode) PROVE WeightInv'
  <2>1. call'[s].at = "look" /\ call'[s].for = 0
    BY <1>1, <1>8 DEF ProcessData, Enter, Idle
  <2>2. 0 \notin DOMAIN proposals
    BY DEF TypeInv
  <2> QED
    BY <1>2, <1>3, <2>1, <2>2, WeightLeaves DEF Running
<1> QED
  BY <1>4, <1>5, <1>6, <1>7, <1>8

\* The proposal that is made is the only one open.
LEMMA WeightProposes ==
  ASSUME RunInv, TypeInv, ScoreInv, WeightInv, NEW s \in Slot, ProposeCommit(s)
  PROVE  WeightInv'
<1> DEFINE n == Len(proposals) + 1
           new == [state |-> "proposed", applied |-> None, recompute |-> None]
           closed == [p \in DOMAIN proposals |->
                        IF p \in call[s].ids THEN [proposals[p] EXCEPT !.state = "superseded"]
                        ELSE proposals[p]]
<1>1. DOMAIN call = Slot /\ DOMAIN call[s] = Fields /\ Moved(s)
  BY CallMoves DEF RunInv, SlotShape, Calibrating
<1>2. /\ UNCHANGED <<overlapped, health, missed, config, kpi>> /\ Active(s) /\ call[s].at = "propose"
      /\ proposals' = Append(closed, new)
  BY DEF ProposeCommit, At, Active, data, history
<1>3. call'[s].at = "idle"
  BY <1>1 DEF ProposeCommit, Goto, Idle
<1>4. \A p \in DOMAIN proposals : proposals[p] \in Proposal
  BY DEF TypeInv
<1>5. /\ DOMAIN proposals' = DOMAIN proposals \cup {n} /\ proposals'[n] = new
      /\ n \notin DOMAIN proposals
      /\ \A p \in DOMAIN proposals : proposals'[p] = closed[p]
  <2>1. DOMAIN proposals = 1..Len(proposals) /\ Len(proposals) \in Nat
    BY DEF TypeInv
  <2>2. closed \in Seq(Range(closed)) /\ Len(closed) = Len(proposals) /\ DOMAIN closed = 1..Len(proposals)
    <3>1. closed \in [1..Len(proposals) -> {closed[p] : p \in DOMAIN proposals}]
      BY <2>1
    <3> HIDE DEF closed
    <3>2. closed \in Seq({closed[p] : p \in DOMAIN proposals})
      BY <2>1, <3>1, SeqDef
    <3> QED
      BY <2>1, <3>1, <3>2 DEF Range
  <2> HIDE DEF closed, new
  <2> QED
    BY <1>2, <2>1, <2>2
<1>6. ASSUME ~overlapped PROVE ScoredMeasured' /\ ProposalsSound' /\ Told'
  <2>1. ScoredMeasured /\ ProposalsSound /\ Told /\ call[s].ids = OpenProposals
    BY <1>2, <1>6 DEF WeightInv, DecisionSound
  <2>2. ASSUME NEW p \in DOMAIN proposals
        PROVE  /\ proposals'[p].applied = proposals[p].applied
               /\ proposals'[p].recompute = proposals[p].recompute
               /\ proposals'[p].state # "proposed"
               /\ proposals[p].state = "approved" => proposals'[p].state = "approved"
    <3>1. proposals'[p] = closed[p] /\ proposals[p] \in Proposal
      BY <1>4, <1>5
    <3>2. CASE p \in call[s].ids
      <4>1. proposals'[p] = [proposals[p] EXCEPT !.state = "superseded"] /\ proposals[p].state = "proposed"
        BY <2>1, <3>1, <3>2 DEF OpenProposals
      <4> QED
        BY <3>1, <4>1 DEF Proposal
    <3>3. CASE p \notin call[s].ids
      BY <2>1, <3>1, <3>3 DEF OpenProposals
    <3> QED
      BY <3>2, <3>3
  <2>3. proposals'[n].applied = None /\ proposals'[n].recompute = None
    BY <1>5
  <2> HIDE DEF n, new, closed
  <2>4. \A p \in DOMAIN proposals : ~StillOpen(p)'
    BY <2>2 DEF StillOpen
  <2>5. OpenProposals' \subseteq {n}
    BY <1>5, <2>2 DEF OpenProposals
  <2>6. \A p : (InForce(p) <=> InForce(p)') /\ (Shows(p) <=> Shows(p)')
    BY <1>2 DEF InForce, Shows, Scored
  <2>7. \A p, q \in DOMAIN proposals' :
          proposals'[p].applied = proposals'[q].applied /\ proposals'[p].applied # None => p = q
    BY <1>5, <2>1, <2>2, <2>3 DEF ProposalsSound
  <2>8. \A p \in DOMAIN proposals' : proposals'[p].applied # None => proposals'[p].applied <= config'.version
    BY <1>2, <1>5, <2>1, <2>2, <2>3 DEF ProposalsSound
  <2>9. \A p \in DOMAIN proposals' : StillOpen(p)' => proposals'[p].recompute = None /\ proposals'[p].applied = None
    BY <1>5, <2>3, <2>4
  <2>10. config'.origin = "wizard_c" =>
           \E p \in DOMAIN proposals' :
             InForce(p)' /\ proposals'[p].state = "approved" /\ proposals'[p].applied = config'.version
    BY <1>2, <1>5, <2>1, <2>2, <2>6 DEF ProposalsSound
  <2>11. ProposalsSound'
    BY <2>5, <2>7, <2>8, <2>9, <2>10 DEF ProposalsSound
  <2>12. Told'
    BY <1>5, <2>1, <2>2, <2>3, <2>6, DataAssumption DEF Told
  <2>13. ScoredMeasured'
    BY <1>2, <2>1 DEF ScoredMeasured, Scored, Measured
  <2> QED
    BY <2>11, <2>12, <2>13
<1>7. DecisionSound(s)'
  BY <1>3 DEF DecisionSound, Syncing, Deciding, Running, Loading
<1> QED
  BY <1>1, <1>2, <1>6, <1>7, WeightKept

\* A decision closes the one open proposal.
LEMMA WeightRejects ==
  ASSUME RunInv, TypeInv, ScoreInv, WeightInv, NEW s \in Slot, RejectCommit(s)
  PROVE  WeightInv'
<1> DEFINE p == call[s].for
<1>1. DOMAIN call = Slot /\ DOMAIN call[s] = Fields /\ Moved(s)
  BY CallMoves DEF RunInv, SlotShape, Calibrating
<1>2. /\ UNCHANGED <<overlapped, health, missed, config, kpi>> /\ Active(s) /\ call[s].at = "reject"
      /\ proposals' = [proposals EXCEPT ![p].state = "rejected"]
  BY DEF RejectCommit, At, Active, data, history
<1>3. call'[s].at = "idle"
  BY <1>1 DEF RejectCommit, Goto, Idle
<1>4. ASSUME ~overlapped PROVE ScoredMeasured' /\ ProposalsSound' /\ Told'
  <2>1. ScoredMeasured /\ ProposalsSound /\ Told /\ p \in DOMAIN proposals /\ StillOpen(p)
    BY <1>2, <1>4 DEF WeightInv, DecisionSound, Syncing, Deciding
  <2>2. DOMAIN proposals' = DOMAIN proposals
    BY <1>2
  <2>3. ASSUME NEW q \in DOMAIN proposals
        PROVE  /\ proposals'[q].applied = proposals[q].applied
               /\ proposals'[q].recompute = proposals[q].recompute
               /\ proposals'[q].state = IF q = p THEN "rejected" ELSE proposals[q].state
    <3>1. proposals[q] \in Proposal
      BY DEF TypeInv
    <3>2. CASE q = p
      <4>1. proposals'[q] = [proposals[q] EXCEPT !.state = "rejected"]
        BY <1>2, <3>2
      <4> QED
        BY <3>1, <3>2, <4>1 DEF Proposal
    <3>3. CASE q # p
      BY <1>2, <3>3
    <3> QED
      BY <3>2, <3>3
  <2> HIDE DEF p
  <2>4. OpenProposals' \subseteq OpenProposals /\ \A q \in DOMAIN proposals : StillOpen(q)' => StillOpen(q)
    BY <2>2, <2>3 DEF OpenProposals, StillOpen
  <2>5. \A q : (InForce(q) <=> InForce(q)') /\ (Shows(q) <=> Shows(q)')
    BY <1>2 DEF InForce, Shows, Scored
  <2>6. config'.origin = "wizard_c" =>
          \E q \in DOMAIN proposals' :
            InForce(q)' /\ proposals'[q].state = "approved" /\ proposals'[q].applied = config'.version
    BY <1>2, <2>1, <2>2, <2>3, <2>5 DEF ProposalsSound, StillOpen
  <2>7. ProposalsSound'
    BY <1>2, <2>1, <2>2, <2>3, <2>4, <2>6 DEF ProposalsSound
  <2>8. Told'
    BY <2>1, <2>2, <2>3, <2>5 DEF Told
  <2>9. ScoredMeasured'
    BY <1>2, <2>1 DEF ScoredMeasured, Scored, Measured
  <2> QED
    BY <2>7, <2>8, <2>9
<1>5. DecisionSound(s)'
  BY <1>3 DEF DecisionSound, Syncing, Deciding, Running, Loading
<1> QED
  BY <1>1, <1>2, <1>4, <1>5, WeightKept

\* The weights of the proposal come into force under the next version.
LEMMA WeightApproves ==
  ASSUME RunInv, TypeInv, ScoreInv, WeightInv, NEW s \in Slot, ApproveCommit(s)
  PROVE  WeightInv'
<1> DEFINE v == call[s].version + 1
<1>0. PICK p : p = call[s].for
  OBVIOUS
<1>1. DOMAIN call = Slot /\ DOMAIN call[s] = Fields /\ Moved(s)
  BY CallMoves DEF RunInv, SlotShape, Calibrating
<1>2. /\ UNCHANGED <<overlapped, health, missed, kpi>> /\ Active(s) /\ call[s].at = "approve"
      /\ config' = [pillar |-> p, kpis |-> p, origin |-> "wizard_c", version |-> v]
      /\ proposals' = [proposals EXCEPT ![p].state = "approved", ![p].applied = v]
  BY <1>0 DEF ApproveCommit, At, Active, history
<1>3. call'[s].at = "look" /\ call'[s].for = p /\ call'[s].mode = "full_recalc"
  BY <1>0, <1>1 DEF ApproveCommit, Enter, Goto, Idle, RecomputeMode
<1>4. ASSUME ~overlapped PROVE ScoredMeasured' /\ ProposalsSound' /\ Told' /\ DecisionSound(s)'
  <2>1. /\ ScoredMeasured /\ ProposalsSound /\ Told /\ p \in DOMAIN proposals /\ StillOpen(p)
        /\ call[s].version = config.version
    BY <1>0, <1>2, <1>4 DEF WeightInv, DecisionSound, Syncing, Deciding
  <2>2. DOMAIN proposals' = DOMAIN proposals
    BY <1>2
  <2>3. ASSUME NEW q \in DOMAIN proposals
        PROVE  /\ proposals'[q].applied = IF q = p THEN v ELSE proposals[q].applied
               /\ proposals'[q].recompute = proposals[q].recompute
               /\ proposals'[q].state = IF q = p THEN "approved" ELSE proposals[q].state
               /\ proposals[q].applied \in Nat \cup {None}
    <3>1. proposals[q] \in Proposal
      BY DEF TypeInv
    <3> HIDE DEF v
    <3>2. CASE q = p
      <4>1. proposals'[q] = [[proposals[q] EXCEPT !.state = "approved"] EXCEPT !.applied = v]
        BY <1>2, <3>1, <3>2 DEF Proposal
      <4> QED
        BY <3>1, <3>2, <4>1 DEF Proposal
    <3>3. CASE q # p
      BY <1>2, <3>1, <3>3 DEF Proposal
    <3> QED
      BY <3>2, <3>3
  <2>4. v \in Nat /\ v > config.version /\ config.version \in Nat
    BY <2>1 DEF TypeInv
  <2>5. config'.pillar = p /\ config'.kpis = p /\ config'.version = v
    BY <1>2
  <2> HIDE DEF v
  <2>6. \A q \in DOMAIN proposals : ~StillOpen(q)'
    BY <2>1, <2>3 DEF StillOpen, OpenProposals, ProposalsSound
  <2>7. OpenProposals' = {}
    BY <2>2, <2>6 DEF OpenProposals, StillOpen
  <2>8. InForce(p)' /\ \A q : InForce(q)' => q = p
    BY <2>5 DEF InForce
  <2>9. \A q \in DOMAIN proposals : q # p /\ proposals[q].applied # None => proposals[q].applied < v
    BY <2>1, <2>3, <2>4 DEF ProposalsSound
  <2>10. \A q, r \in DOMAIN proposals' :
           proposals'[q].applied = proposals'[r].applied /\ proposals'[q].applied # None => q = r
    <3> SUFFICES ASSUME NEW q \in DOMAIN proposals, NEW r \in DOMAIN proposals,
                        proposals'[q].applied = proposals'[r].applied, proposals'[q].applied # None
                 PROVE  q = r
      BY <2>2
    <3>1. CASE q = p \/ r = p
      BY <2>3, <2>4, <2>9, <3>1
    <3>2. CASE q # p /\ r # p
      BY <2>1, <2>3, <3>2 DEF ProposalsSound
    <3> QED
      BY <3>1, <3>2
  <2>11. \A q \in DOMAIN proposals' : proposals'[q].applied # None => proposals'[q].applied <= config'.version
    BY <2>2, <2>3, <2>4, <2>5, <2>9
  <2>12. ProposalsSound'
    <3>1. \E q \in DOMAIN proposals' :
            InForce(q)' /\ proposals'[q].state = "approved" /\ proposals'[q].applied = config'.version
      BY <2>1, <2>2, <2>3, <2>5, <2>8
    <3> QED
      BY <2>2, <2>6, <2>7, <2>10, <2>11, <3>1 DEF ProposalsSound
  <2>13. proposals'[p].recompute = None
    BY <2>1, <2>3 DEF ProposalsSound
  <2>14. Told'
    BY <2>2, <2>8, <2>13, DataAssumption DEF Told
  <2>15. ScoredMeasured'
    BY <1>2, <2>1 DEF ScoredMeasured, Scored, Measured
  <2>16. ~StillOpen(p)'
    BY <2>1, <2>6
  <2>17. DecisionSound(s)'
    BY <1>3, <2>8, <2>16 DEF DecisionSound, Syncing, Deciding
  <2> QED
    BY <2>12, <2>14, <2>15, <2>17
<1> QED
  BY <1>1, <1>2, <1>4, WeightKept

\* What became of the recompute is what the run says, and the scores show it.
LEMMA WeightNotes ==
  ASSUME RunInv, TypeInv, ScoreInv, WeightInv, NEW s \in Slot, NoteRecompute(s)
  PROVE  WeightInv'
<1> DEFINE p == call[s].for
<1>1. DOMAIN call = Slot /\ DOMAIN call[s] = Fields /\ Moved(s)
  BY CallMoves DEF RunInv, SlotShape, Calibrating
<1>2. /\ UNCHANGED <<overlapped, health, missed, config, kpi>> /\ Active(s) /\ call[s].at = "note"
      /\ proposals' = IF p \in DOMAIN proposals
                      THEN [proposals EXCEPT ![p].recompute = runs[call[s].run]] ELSE proposals
  BY DEF NoteRecompute, At, Active, data, history
<1>3. call'[s].at = "idle"
  BY <1>1 DEF NoteRecompute, Goto, Idle
<1>4. ASSUME p \notin DOMAIN proposals PROVE WeightInv'
  <2>1. UNCHANGED <<health, missed, config, proposals, kpi>>
    BY <1>2, <1>4
  <2> QED
    BY <1>1, <1>2, <1>3, <2>1, WeightLeaves
<1>5. ASSUME ~overlapped, p \in DOMAIN proposals PROVE ScoredMeasured' /\ ProposalsSound' /\ Told'
  <2>1. /\ ScoredMeasured /\ ProposalsSound /\ Told /\ ~StillOpen(p)
        /\ runs[call[s].run] = "success" => Shows(p)
    BY <1>2, <1>5 DEF WeightInv, DecisionSound
  <2>2. DOMAIN proposals' = DOMAIN proposals
    BY <1>2
  <2>3. ASSUME NEW q \in DOMAIN proposals
        PROVE  /\ proposals'[q].applied = proposals[q].applied
               /\ proposals'[q].state = proposals[q].state
               /\ proposals'[q].recompute = IF q = p THEN runs[call[s].run] ELSE proposals[q].recompute
    <3>1. proposals[q] \in Proposal
      BY DEF TypeInv
    <3>2. CASE q = p
      <4>1. proposals'[q] = [proposals[q] EXCEPT !.recompute = runs[call[s].run]]
        BY <1>2, <1>5, <3>2
      <4> QED
        BY <3>1, <3>2, <4>1 DEF Proposal
    <3>3. CASE q # p
      BY <1>2, <3>3
    <3> QED
      BY <3>2, <3>3
  <2> HIDE DEF p
  <2>4. OpenProposals' = OpenProposals /\ \A q \in DOMAIN proposals : StillOpen(q)' <=> StillOpen(q)
    BY <2>2, <2>3 DEF OpenProposals, StillOpen
  <2>5. \A q : (InForce(q) <=> InForce(q)') /\ (Shows(q) <=> Shows(q)')
    BY <1>2 DEF InForce, Shows, Scored
  <2>6. config'.origin = "wizard_c" =>
          \E q \in DOMAIN proposals' :
            InForce(q)' /\ proposals'[q].state = "approved" /\ proposals'[q].applied = config'.version
    BY <1>2, <2>1, <2>2, <2>3, <2>5 DEF ProposalsSound
  <2>7. \A q \in DOMAIN proposals : StillOpen(q)' => proposals'[q].recompute = None /\ proposals'[q].applied = None
    BY <2>1, <2>3, <2>4 DEF ProposalsSound
  <2>8. ProposalsSound'
    BY <1>2, <2>1, <2>2, <2>3, <2>4, <2>6, <2>7 DEF ProposalsSound
  <2>9. Told'
    BY <2>1, <2>2, <2>3, <2>5 DEF Told
  <2>10. ScoredMeasured'
    BY <1>2, <2>1 DEF ScoredMeasured, Scored, Measured
  <2> QED
    BY <2>8, <2>9, <2>10
<1>6. DecisionSound(s)'
  BY <1>3 DEF DecisionSound, Syncing, Deciding, Running, Loading
<1> QED
  BY <1>1, <1>2, <1>4, <1>5, <1>6, WeightKept

\* Weights set by hand are in force as a proposal's only where they were not given.
LEMMA WeightConfigures ==
  ASSUME RunInv, TypeInv, ScoreInv, WeightInv, NEW s \in Slot, ConfigureCommit(s)
  PROVE  WeightInv'
<1>1. DOMAIN call = Slot /\ DOMAIN call[s] = Fields /\ Moved(s)
  BY CallMoves DEF RunInv, SlotShape, Calibrating
<1>2. /\ UNCHANGED <<overlapped, health, missed, kpi, proposals>> /\ Active(s) /\ call[s].at = "configure"
      /\ config'.pillar \in {Hand, config.pillar} /\ config'.kpis \in {Hand, config.kpis}
      /\ config'.origin = "customer_config" /\ config'.version = call[s].version + 1
  BY DEF ConfigureCommit, At, Active, history
<1>3. call'[s].at = "look" /\ call'[s].for = Hand
  BY <1>1 DEF ConfigureCommit, Enter, Goto, Idle
<1>4. Hand \notin DOMAIN proposals
  BY DataAssumption DEF TypeInv
<1>5. ASSUME ~overlapped PROVE ScoredMeasured' /\ ProposalsSound' /\ Told'
  <2>1. ScoredMeasured /\ ProposalsSound /\ Told /\ call[s].version = config.version
    BY <1>2, <1>5 DEF WeightInv, DecisionSound
  <2>2. \A p \in DOMAIN proposals : (InForce(p)' => InForce(p)) /\ (StillOpen(p)' <=> StillOpen(p))
    BY <1>2, <1>4 DEF InForce, StillOpen
  <2>3. OpenProposals' = OpenProposals /\ \A p : (Shows(p)' <=> Shows(p))
    BY <1>2 DEF OpenProposals, Shows, Scored
  <2>4. \A p \in DOMAIN proposals : proposals[p].applied \in Nat \cup {None} /\ config.version \in Nat
    <3>1. config.version \in Nat /\ \A p \in DOMAIN proposals : proposals[p] \in Proposal
      BY DEF TypeInv
    <3> QED
      BY <3>1 DEF Proposal
  <2>5. \A p \in DOMAIN proposals : proposals[p].applied # None => proposals[p].applied <= config'.version
    BY <1>2, <2>1, <2>4 DEF ProposalsSound
  <2>6. ProposalsSound'
    BY <1>2, <2>1, <2>2, <2>3, <2>5 DEF ProposalsSound
  <2>7. Told'
    BY <1>2, <2>1, <2>2, <2>3 DEF Told
  <2>8. ScoredMeasured'
    BY <1>2, <2>1 DEF ScoredMeasured, Scored, Measured
  <2> QED
    BY <2>6, <2>7, <2>8
<1>6. DecisionSound(s)'
  BY <1>2, <1>3, <1>4 DEF DecisionSound, Syncing, Deciding
<1> QED
  BY <1>1, <1>2, <1>5, <1>6, WeightKept

LEMMA WeightInit == TenantInit => WeightInv
<1> SUFFICES ASSUME TenantInit PROVE WeightInv
  OBVIOUS
<1>1. \A s \in Slot : DecisionSound(s)
  BY DEF TenantInit, Idle, DecisionSound, Syncing, Deciding, Running, Loading
<1>2. ProposalsSound /\ Told
  BY DEF TenantInit, ProposalsSound, Told, OpenProposals
<1>3. ScoredMeasured
  <2>1. CASE health = [m \in Month |-> None]
    BY <2>1 DEF ScoredMeasured, Scored
  <2>2. ASSUME NEW a \in Before, NEW c \in Before, Processed(a, c) PROVE ScoredMeasured
    <3>1. Measured = c.keys
      BY <2>2, DataAssumption DEF Processed, Measured
    <3>2. \A m \in Month : health[m] # None => \E k \in c.keys : MonthOf(k) = m
      BY <2>2 DEF Processed
    <3> QED
      BY <3>1, <3>2 DEF ScoredMeasured, Scored
  <2> QED
    BY <2>1, <2>2 DEF TenantInit
<1> QED
  BY <1>1, <1>2, <1>3 DEF WeightInv

LEMMA WeightNext ==
  RunInv /\ TypeInv /\ ScoreInv /\ WeightInv /\ [TenantNext]_tvars => WeightInv'
<1> SUFFICES ASSUME RunInv, TypeInv, ScoreInv, WeightInv, [TenantNext]_tvars PROVE WeightInv'
  OBVIOUS
<1>1. ASSUME UNCHANGED <<health, missed, config, proposals, kpi, overlapped, call, runs>> PROVE WeightInv'
  <2>1. Measured' = Measured /\ OpenProposals' = OpenProposals
    BY <1>1 DEF Measured, OpenProposals
  <2>2. \A p : (InForce(p) <=> InForce(p)') /\ (Shows(p) <=> Shows(p)') /\ (StillOpen(p) <=> StillOpen(p)')
    BY <1>1 DEF InForce, Shows, StillOpen, Scored
  <2>3. ~overlapped => \A s \in Slot : DecisionSound(s)'
    BY <1>1, <2>1, <2>2 DEF WeightInv, DecisionSound
  <2>4. ~overlapped => ScoredMeasured' /\ ProposalsSound' /\ Told'
    BY <1>1, <2>1, WeightTables
  <2> QED
    BY <1>1, <2>3, <2>4 DEF WeightInv
<1>2. ASSUME NEW c \in Content, Upload(c) PROVE WeightInv'
  BY <1>1, <1>2 DEF Upload, weights
<1>3. CASE UNCHANGED tvars
  BY <1>1, <1>3 DEF tvars, data, weights, history
<1>4. ASSUME NEW s \in Slot, Scoring(s) \/ Ending(s) PROVE WeightInv'
  BY <1>4, WeightReads, WeightWrites, WeightScores, WeightEnds, WeightStarts DEF Scoring, Ending
<1>5. ASSUME NEW s \in Slot, Calibrating(s) PROVE WeightInv'
  BY <1>5, WeightStarts, WeightProposes, WeightRejects, WeightApproves, WeightNotes, WeightConfigures
  DEF Calibrating, Deciding
<1> QED
  BY <1>2, <1>3, <1>4, <1>5, StepKinds, WeightRuns, WeightStarts

LEMMA WeightAlways == TenantSpec => [](RunInv /\ TypeInv /\ WeightInv)
<1>1. TenantInit => RunInv /\ TypeInv /\ ScoreInv /\ WeightInv
  BY RunInit, TypeInit, ScoreInit, WeightInit
<1>2. RunInv /\ TypeInv /\ ScoreInv /\ WeightInv /\ [TenantNext]_tvars
        => (RunInv /\ TypeInv /\ ScoreInv /\ WeightInv)'
  BY RunNext, TypeNext, ScoreNext, WeightNext
<1> QED
  BY <1>1, <1>2, PTL DEF TenantSpec

\* When the recompute after an approval is on record as a success and those weights are
\* still in force, every row shows them, except months whose calculation raised, for any
\* number of proposals, runs and failures (wizard_c_calibration.py:520-523,
\* process_data_pipeline.py:169-172).
THEOREM RecomputeToldHolds == TenantSpec => []RecomputeTold
<1>1. WeightInv => RecomputeTold
  BY DEF WeightInv, Told, InForce, Shows, RecomputeTold
<1> QED
  BY <1>1, WeightAlways, PTL

\* One call at a time leaves at most one proposal open, no two approvals under one
\* version, and calibrated weights always those of an approved proposal, for any number
\* of proposals, decisions and hand-set weights (wizard_c_calibration.py:10-16).
THEOREM CalibrationConsistentHolds == TenantSpec => []CalibrationConsistent
<1>1. ASSUME WeightInv PROVE CalibrationConsistent
  <2> SUFFICES ASSUME ~overlapped
               PROVE  /\ Cardinality(OpenProposals) <= 1
                      /\ ProposalsSound
    BY DEF CalibrationConsistent, ProposalsSound, OpenProposals, InForce
  <2>1. ProposalsSound
    BY <1>1 DEF WeightInv
  <2>2. CASE OpenProposals = {}
    BY <2>1, <2>2, FS_EmptySet
  <2>3. ASSUME NEW p \in OpenProposals PROVE Cardinality(OpenProposals) <= 1
    <3>1. OpenProposals = {p}
      BY <2>1 DEF ProposalsSound
    <3> QED
      BY <3>1, FS_Singleton
  <2> QED
    BY <2>1, <2>2, <2>3
<1> QED
  BY <1>1, WeightAlways, PTL
=============================================================================
