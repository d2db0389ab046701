------------------------------ MODULE Foresight ------------------------------
(***************************************************************************)
(* The stored journeys of a tenant and the forecasts made from them: the   *)
(* rebuild of journeys (Wizard A) and the forecast run (Wizard D), which   *)
(* writes its block into every journey.                                    *)
(*   journeys/wizard_a.py, wizards/wizard_d_foresight.py                   *)
(*                                                                         *)
(* Both read, compute and write whole journeys; web processes and the      *)
(* worker run them at once.  What a journey says of its evidence is module *)
(* JourneyRules; here a journey knows how much it was read from.  Names    *)
(* that begin with Mut are wrong variants.                                 *)
(***************************************************************************)
EXTENDS Naturals, Sequences, FiniteSets

CONSTANTS
  Customer,             \* accounts of the tenant
  Session,              \* database sessions at work
  MaxDate,              \* dates of evidence, of scored months and of the clock
  MaxFacts, MaxForecasts, MaxBuilds, MaxReleases    \* bounds on the history explored

ASSUME ForesightAssumption == MaxDate \in Nat

VARIABLES
  today,                \* the clock
  facts,                \* [Customer -> [heard, scored]]: dates of the signals that are evidence, end
                        \* of the last scored month (0: none)
  release,              \* GENERATOR_VERSION of the code
  stored,               \* journey_data: [Customer -> journey or NoJourney]
  forecasts,            \* forecast_runs with their account_forecasts, oldest first
  work,                 \* [Session -> what the session does]
  crossed,              \* history: two sessions were at work at once
  changes, builds       \* history: changes of the facts, rebuilds begun

fvars == <<today, facts, release, stored, forecasts, work, crossed, changes, builds>>

NoJourney == [made |-> 0]
NotRun == [run |-> 0, asOf |-> 0, stale |-> FALSE]
Free == [at |-> "free"]

ForesightInit ==
  /\ today = 1 /\ facts = [c \in Customer |-> [heard |-> {}, scored |-> 0]]
  /\ release = 1 /\ stored = [c \in Customer |-> NoJourney] /\ forecasts = <<>>
  /\ work = [s \in Session |-> Free] /\ crossed = FALSE
  /\ changes = 0 /\ builds = 0

WithJourney == {c \in Customer : stored[c] # NoJourney}
Alone(s) == \A t \in Session \ {s} : work[t].at = "free"

Tick ==
  /\ today < MaxDate /\ today' = today + 1
  /\ UNCHANGED <<facts, release, stored, forecasts, work, crossed, changes, builds>>

NewFacts(c, heard, scored) ==
  /\ changes < MaxFacts /\ changes' = changes + 1
  /\ facts' = [facts EXCEPT ![c] = [heard |-> heard, scored |-> scored]]
  /\ UNCHANGED <<today, release, stored, forecasts, work, crossed, builds>>

\* A signal dated d, of today, of the past or ahead of the clock.
Hear(c, d) ==
  /\ d \notin facts[c].heard
  /\ NewFacts(c, facts[c].heard \cup {d}, facts[c].scored)

\* The scores of a month that ends on d.
ScoreMonth(c, d) ==
  /\ d > facts[c].scored
  /\ NewFacts(c, facts[c].heard, d)

\* A review rejects the signals of a date; the rebuild it asks for is a session's.
Reject(c, d) ==
  /\ d \in facts[c].heard
  /\ NewFacts(c, facts[c].heard \ {d}, facts[c].scored)

\* A new build changes the shape of the journeys.
Release ==
  /\ release < MaxReleases + 1 /\ release' = release + 1
  /\ UNCHANGED <<today, facts, stored, forecasts, work, crossed, changes, builds>>

-----------------------------------------------------------------------------
\* with_staleness: whether the journey has moved past the run.
MutWithStaleness(block, journey) ==
  IF block = NotRun THEN block ELSE [block EXCEPT !.stale = FALSE]

WithStaleness(block, journey) ==
  IF block = NotRun THEN block
  ELSE [block EXCEPT !.stale = journey.asOf > block.asOf \/ journey.last > block.asOf]

\* latest_forecast_block: the newest stored forecast of the account.
RunsOn(c) == {i \in DOMAIN forecasts : c \in DOMAIN forecasts[i]}
LatestBlock(c) ==
  IF RunsOn(c) = {} THEN NotRun
  ELSE LET i == CHOOSE i \in RunsOn(c) : \A j \in RunsOn(c) : j <= i
       IN [run |-> i, asOf |-> forecasts[i][c], stale |-> FALSE]

\* 'now': the last scored month, unless the evidence goes on after it; without scores the
\* last signal, without signals the clock.  Never ahead of the clock on a signal's word.
LastHeard(c) ==
  IF facts[c].heard = {} THEN 0
  ELSE CHOOSE d \in facts[c].heard : \A e \in facts[c].heard : e <= d

NowOf(c) ==
  LET last == LastHeard(c)
      known == IF last # 0 /\ last < today THEN last ELSE today
  IN IF facts[c].scored # 0 /\ last <= facts[c].scored THEN facts[c].scored ELSE known

\* build_journey.
Built(c) ==
  LET dates == [asOf |-> NowOf(c), last |-> LastHeard(c)]
  IN [asOf |-> dates.asOf, last |-> dates.last, made |-> release,
      forecast |-> WithStaleness(LatestBlock(c), dates)]

\* A rebuild of some accounts; an account whose journey cannot be built is left out.
\* Bound: once two sessions overlapped no third begins.
BeginBuild(s, wanted) ==
  /\ work[s].at = "free" /\ builds < MaxBuilds /\ ~crossed
  /\ \E built \in SUBSET wanted :
       work' = [work EXCEPT ![s] =
         [at |-> "built", journeys |-> [c \in built |-> Built(c)]]]
  /\ builds' = builds + 1 /\ crossed' = (crossed \/ ~Alone(s))
  /\ UNCHANGED <<today, facts, release, stored, forecasts, changes>>

\* rebuild_stale_journeys takes the ones an older release made.
Outdated == {c \in WithJourney : stored[c].made # release}

\* Rows a session has flushed are held until it ends.
Held == \E t \in Session : work[t].at = "flushed"

CommitBuild(s) ==
  /\ work[s].at = "built" /\ ~Held
  /\ stored' = [c \in Customer |->
       IF c \in DOMAIN work[s].journeys THEN work[s].journeys[c] ELSE stored[c]]
  /\ work' = [work EXCEPT ![s] = Free]
  /\ UNCHANGED <<today, facts, release, forecasts, crossed, changes, builds>>

-----------------------------------------------------------------------------
\* run_wizard_d reads every stored journey; without any it is skipped ...
BeginForecast(s) ==
  /\ work[s].at = "free" /\ Len(forecasts) < MaxForecasts /\ ~crossed
  /\ WithJourney # {}
  /\ work' = [work EXCEPT ![s] = [at |-> "read", journeys |-> [c \in WithJourney |-> stored[c]]]]
  /\ crossed' = (crossed \/ ~Alone(s))
  /\ UNCHANGED <<today, facts, release, stored, forecasts, changes, builds>>

\* ... then inserts the run and its forecasts and writes each journey it read, with
\* the new block, over whatever is there; all of it holds until the commit.
FlushForecast(s) ==
  /\ work[s].at = "read" /\ ~Held
  /\ work' = [work EXCEPT ![s].at = "flushed"]
  /\ UNCHANGED <<today, facts, release, stored, forecasts, crossed, changes, builds>>

Embedded(journey, run) ==
  [journey EXCEPT !.forecast = WithStaleness([run |-> run, asOf |-> journey.asOf, stale |-> FALSE], journey)]

CommitForecast(s) ==
  /\ work[s].at = "flushed"
  /\ LET read == work[s].journeys
         run == Len(forecasts) + 1
     IN /\ forecasts' = Append(forecasts, [c \in DOMAIN read |-> read[c].asOf])
        /\ stored' = [c \in Customer |-> IF c \in DOMAIN read THEN Embedded(read[c], run) ELSE stored[c]]
  /\ work' = [work EXCEPT ![s] = Free]
  /\ UNCHANGED <<today, facts, release, crossed, changes, builds>>

\* A wizard that raises is rolled back.
Breaks(s) ==
  /\ work[s].at \in {"built", "read", "flushed"}
  /\ work' = [work EXCEPT ![s] = Free]
  /\ UNCHANGED <<today, facts, release, stored, forecasts, crossed, changes, builds>>

ForesightNext ==
  \/ \E c \in Customer, d \in 1..MaxDate : Hear(c, d) \/ ScoreMonth(c, d) \/ Reject(c, d)
  \/ Tick \/ Release
  \/ \E s \in Session :
       \/ \E wanted \in {Customer, Outdated} \cup {{c} : c \in Customer} : BeginBuild(s, wanted)
       \/ CommitBuild(s)
       \/ BeginForecast(s) \/ FlushForecast(s) \/ CommitForecast(s)
       \/ Breaks(s)

ForesightSpec == ForesightInit /\ [][ForesightNext]_fvars

-----------------------------------------------------------------------------
\* However wizards overlap and wherever 'now' moves, every journey shows a forecast that is on
\* record with the date it was made as of, and one it has moved past in time is flagged
\* stale; as long as wizards do not overlap it is the newest of its account
\* (wizard_d_foresight.py:23-26, 570-607).  A forecast dated after its journey is not flagged:
\* the staleness looks forward only, and 'now' moves back too.
ForesightShown ==
  \A c \in WithJourney :
    LET block == stored[c].forecast IN
    /\ block.run # 0 => block.run \in RunsOn(c) /\ block.asOf = forecasts[block.run][c]
    /\ block # NotRun /\ ~block.stale => stored[c].asOf <= block.asOf /\ stored[c].last <= block.asOf
    /\ ~crossed => block.run = LatestBlock(c).run

=============================================================================
