SPECIFICATION Spec
CONSTANTS
  Workspace = {w1, w2}
  Host = {h1, h2}
  Service = {s1}
  Nobody = Nobody
  Foreign = Foreign
  MaxDomains = 3
  MaxFaults = 1
SYMMETRY Symmetry
CHECK_DEADLOCK FALSE
INVARIANTS
  TypeOK
  Reserved
  RoutesAgree
PROPERTIES
  OnlyOwnRemoved
