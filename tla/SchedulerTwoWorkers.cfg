SPECIFICATION Spec
CONSTANTS
  Schedules = {s1}
  Runs = {r1, r2}
  Workers = {w1, w2}
  NoSchedule = NoSchedule
  NoWorker = NoWorker
  NoTime = NoTime
  Times = {0, 1, 2, 3, 4, 5, 6}
  Intervals = {2}
  Timeouts = {1, 2}
  AttemptCap = 3
  Horizon = 3
  Callers = {}
  NoRun = NoRun
  Policy = "catch_up_once"
  RetryLimit = 1
  Timeout = 2
  DefaultLease = 1
  ListLimit = 3
  MaxAlive = 2
  MaxFaults = 0
  MaxVersion = 1
  MaxManual = 1
SYMMETRY Symmetry
INVARIANTS
  OverlapNeedsLapse
  RetriesBounded
PROPERTIES
  FinishedStaysFinished
CONSTRAINT NotLapsed
CHECK_DEADLOCK FALSE
