SPECIFICATION Spec
CONSTANTS
  Absent = Absent
  NoPlan = NoPlan
  w1 = w1
  w2 = w2
  c1 = c1
  None = None
  Types <- MCTypes
  Editions <- MCEditions
  Files <- EvFiles
  TypeOf <- EvTypeOf
  Ids <- EvFiles
  IdOf <- EvIdOf
  SeriesOf <- EvSeries
  NumberOf <- EvNumber
  Seed <- EvSeed
  Web <- MCWeb
  Sessions <- MCSessions
  Batches <- EvBatches
  MaxCommits = 2
INVARIANTS
  LocalRules
  RulesKept
CHECK_DEADLOCK FALSE
