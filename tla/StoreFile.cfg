SPECIFICATION Spec
CONSTANTS
  a1 = a1
  a2 = a2
  r1 = r1
  Actors <- MCActors
  Rows <- MCRows
  None = None
  MaxCrashes = 1
  MaxDowns = 1
SYMMETRY Symmetry
INVARIANTS
  VersionDescribes
  ActionsKept
  SnapshotsFit
CHECK_DEADLOCK FALSE
