SPECIFICATION Spec
CONSTANTS
  a1 = a1
  a2 = a2
  b1 = b1
  b2 = b2
  Actors <- MCActors
  Backups <- MCBackups
  PathList <- MCPaths
  Earlier <- MCEarlier
  FirstPaths <- MCFirst
  None = None
  Damaged = Damaged
  MaxEdits = 1
  MaxTampers = 1
SYMMETRY Symmetry
INVARIANTS
  ReceiptsRestorable
  NothingOlder
  RestoreExact
CHECK_DEADLOCK FALSE
