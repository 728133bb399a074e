SPECIFICATION Spec
CONSTANTS
  Absent = Absent
  NoPlan = NoPlan
  w1 = w1
  w2 = w2
  c1 = c1
  None = None
  Types <- MCTypes
  Editions <- MCEditions
  Files <- DcFiles
  TypeOf <- DcTypeOf
  Ids <- DcIds
  IdOf <- DcIdOf
  SeriesOf <- DcSeries
  NumberOf <- DcNumber
  Seed <- DcSeed
  Web <- MCWeb
  Sessions <- MCSessions
  Batches <- DcBatches
  MaxCommits = 2
INVARIANTS
  LocalRules
  OneResolution
  SupersessionEnds
PROPERTIES
  MovesAreLegal
CHECK_DEADLOCK FALSE
