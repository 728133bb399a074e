SPECIFICATION Spec
CONSTANTS
  k1 = k1
  k2 = k2
  Sources = {s1, s2}
  Ops = {k1, k2, w1}
  Web = {w1}
  Pages <- MCPages
  UrlOf <- MCUrlOf
  DigestOf <- MCDigestOf
  Archived = {s1}
  First = v0
  Registered = {}
  MaxAtWork = 3
  MaxFaults = 2
  None = None
SYMMETRY Symmetry
INVARIANTS
  VerifyPasses
  TextIsCurrent
  WaitingCanBeProcessed
  DuplicatesNamed
CHECK_DEADLOCK FALSE
