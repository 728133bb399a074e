SPECIFICATION LiveSpec
CONSTANTS
  MaxPids = 6
  MaxStarts = 2
  Horizon = 1
  MaxFaults = 1
  MaxRestarts = 1
  RestartWindow = 0
INVARIANTS
  AtMostOneChild
  NoChildAfterStop
  ReadyIsReported
  BudgetKept
PROPERTIES
  ShutdownEmpties
  AbsenceEnds
CONSTRAINT NotReentered
CHECK_DEADLOCK FALSE
