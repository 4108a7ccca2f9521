SPECIFICATION MCSpec
CONSTANTS
  Service = {s}
  Digest = {x, y}
  MaxDatabases = 2
  MaxCreated = 1
  MaxBackups = 2
  MaxFaults = 1
  KeepN = 1
SYMMETRY Symmetry
CHECK_DEADLOCK FALSE
INVARIANTS
  TypeOK
  CopiesAreKept
  NothingMisplaced
PROPERTIES
  RemovalHolds
