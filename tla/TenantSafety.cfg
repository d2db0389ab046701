CONSTANTS
  None = None
  Healthy = 70
  AtRisk = 50
  p1 = p1
  p2 = p2
  k1 = k1
  k2 = k2
  k3 = k3
  Slot = {p1, p2}
  Key = {k1, k2, k3}
  Month = {1, 2}
  MonthOf <- MCMonthOf
  Score <- MCScore
  Content <- MCContent
  Before <- MCBefore
  Mode = {"auto"}
  Given = {{"pillar"}}
  Hand = Hand
  Fault = {"load", "health", "calc", "sync", "raise", "stop"}
  MaxUploads = 2
  MaxRuns = 2
  MaxProposals = 2
  MaxFaults = 1
  Reviewer = {p1, p2}
  Evidence = {"n1", "n2"}
  Subtype = {"a", "b"}
  RoleOf <- MCRoleOf
  UrgencyOf <- MCUrgencyOf
  MaxReviews = 2
  Caller = {p1, p2}
  Process = {p1, p2}
  Threads = 1
  DailyCalls = 1
  DailyUsd = 3
  MonthlyUsd = 5
  PerProcess = 1
  Cost = {0, 2}
  MaxCalls = 3
  MaxDays = 2
  MaxFailures = 1
  MaxRestarts = 1
  TableOf <- MCTableOf
  SourceRows <- MCSource
  LaterRows <- MCLater
  Credential = {"webhook_secret"}
  Value <- MCValue
  Pillar = {"P1", "P2"}
  Code = {"a", "b", "c"}
  PillarOf <- MCPillarOf
  Level = {0, 10000}
  Weight = {0, 2}
  Over <- MCOver
  Day = {0, 1, 2}
  Node <- MCNode
  Scores <- MCScores
  Renewal <- MCRenewal
  Delta <- MCDelta
  Today = 135
  DecayOf <- MCDecay
  acme = acme
  bolt = bolt
  Customer = {acme, bolt}
  Session = {p1, p2}
  MaxDate = 2
  MaxFacts = 2
  MaxForecasts = 2
  MaxBuilds = 2
  MaxReleases = 1
  Concluded <- MCConcluded
  Course <- MCCourse
  Due = {None, 100, 160}
  Factors <- MCFactors
  Others <- MCOthers
  MinLabels = 3
  MinClass = 1
  MinStratum = 2
  Credible <- MCCredible
  Samples <- MCSamples
  Starting <- MCStarting
  Adjustment = {100, 200, 300}
  Unit = 100
  Cap = 50
  Cited <- MCCited
  Heard <- MCHeard
  Definitions <- MCFile
  Calls <- MCCalls
  Board <- MCBoard
  Reading <- MCReading
  OnRecord <- MCOutcomes
  MinMeasured = 2
  nA = nA
  nB = nB
  nC = nC
  idA = idA
  idB = idB
  d1 = d1
  s1 = s1
  o1 = o1
  li = li
  jo = jo
  tx = tx
  kp = kp
  Batch <- MCBatch
  Logged <- MCLogged
  AtFirst <- MCPresent
  Curated <- MCCurated
  MaxLoads = 2
  MaxLoadFaults = 1
  MaxDay = 2

SPECIFICATION Spec
INVARIANT UploadsNotLost
INVARIANT ScoresSeeAll
INVARIANT RecomputeTold
INVARIANT CalibrationConsistent
INVARIANT RunsEnd
INVARIANT StatusFollowsHealth
INVARIANT ReviewShown
PROPERTY ReviewStands
INVARIANT BudgetHolds
INVARIANT CloneClosed
INVARIANT UndisturbedEnds
INVARIANT HealthScored
INVARIANT JourneyRead
INVARIANT ForesightShown
INVARIANT OutlookSound
INVARIANT LoadedOnce
INVARIANT PlaybooksSound

SYMMETRY Symmetry
CHECK_DEADLOCK FALSE
