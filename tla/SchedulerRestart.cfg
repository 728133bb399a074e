SPECIFICATION Spec
CONSTANTS
  Schedules = {s1}
  Runs = {r1, r2, r3}
  Workers = {w1, w2}
  NoSchedule = NoSchedule
  NoWorker = NoWorker
  NoTime = NoTime
  Times = {0, 1, 2, 3, 4, 5, 6, 7, 8}
  Intervals = {2}
  Timeouts = {1}
  AttemptCap = 3
  Horizon = 5
  Callers = {}
  NoRun = NoRun
  Policy = "catch_up_once"
  RetryLimit = 0
  Timeout = 1
  DefaultLease = 1
  ListLimit = 3
  MaxAlive = 1
  MaxFaults = 2
  MaxVersion = 2
  MaxManual = 0
SYMMETRY Symmetry
INVARIANTS
  DuplicatesNeedEdits
  DueTimesServed
CHECK_DEADLOCK FALSE
