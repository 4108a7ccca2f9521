SPECIFICATION Spec
CONSTANTS
  Request = {r1, r2}
  Grant = {g1, g2, g3}
  Machine = {m1, m2, m3}
  Key = {k1, k2}
  NoKey = NoKey
  Report <- Reports
  Nobody = Nobody
  MAX_MACHINES = 2
  MAX_SLOT = 3
  MaxFaults = 2
SYMMETRY Symmetry
CHECK_DEADLOCK FALSE
INVARIANTS
  TypeOK
  GrantsHold
  NetworkSound
  KeptUntilRemoved
