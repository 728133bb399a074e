SPECIFICATION LiveSpec
CONSTANTS
  Schedules = {s1}
  Runs = {r1, r2}
  Workers = {w1}
  NoSchedule = NoSchedule
  NoWorker = NoWorker
  NoTime = NoTime
  Times = {0, 1, 2, 3, 4, 5, 6}
  Intervals = {1}
  Timeouts = {1, 2}
  AttemptCap = 3
  Horizon = 2
  Callers = {c1}
  NoRun = NoRun
  Policy = "catch_up_once"
  RetryLimit = 1
  Timeout = 2
  DefaultLease = 1
  ListLimit = 3
  MaxAlive = 1
  MaxFaults = 1
  MaxVersion = 1
  MaxManual = 1
PROPERTIES
  RunsFinish
CHECK_DEADLOCK FALSE
