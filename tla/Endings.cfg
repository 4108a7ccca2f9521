SPECIFICATION EndingsSpec
CONSTANTS
  Job = {j}
  Limit = 1
  JobFaults = 2
  Delivery = {d, e}
  Handler = {h, i}
  PushFaults = 1
  Login = {l}
  Cloud = {o, w}
  Own = o
  MaxRevoked = 1
  Workspace = {x}
  Host = {h1, h2}
  Service = {s1}
  Unowned = Nobody
  Foreign = Foreign
  MaxDomains = 2
  Application = {a}
  MaxDatabases = 1
  MaxCreated = 1
  MaxBackups = 1
  Digest = {x1}
  KeepN = 1
  Caller = {c1}
  Key = {start}
  Mutation = {start}
  MaxCommands = 2
  MaxFaults = 1
  EXPIRY = 2
  RECLAIM = 0
  GET_FRESH = 1
  MUT_FRESH = 1
  PRUNE = 3
  SealYields = FALSE
CHECK_DEADLOCK FALSE
PROPERTIES
  WorkEnds
  BlocksEnd
