SPECIFICATION Spec
CONSTANTS
  c1 = c1
  c2 = c2
  Candidates <- MCCandidates
  Queued <- MCQueued
  UrlOf <- MCUrlOf
  PagesOf <- MCPagesOf
  SlugOf <- MCSlugOf
  Plans = {k1, w1}
  Web = {w1}
  Jobs = {j1}
  MaxNumber = 2
  MaxFaults = 1
  None = None
INVARIANTS
  PromotedHasSource
  OneSourcePerCandidate
  NoOrphans
PROPERTIES
  PromotedStays
CHECK_DEADLOCK FALSE
