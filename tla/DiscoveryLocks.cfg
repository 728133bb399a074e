SPECIFICATION RunsLiveSpec
CONSTANTS
  Runs = {r1, r2, r3}
  Workers = {v1, v2}
  Channels = {ch1, ch2}
  LockStale = 1
  MaxWait = 1
  Nothing = Nothing
INVARIANTS
  OneRunPerChannel
  OverlapNeedsStale
PROPERTIES
  ReclaimedStays
  ChannelReopens
