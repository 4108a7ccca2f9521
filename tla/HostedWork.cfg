SPECIFICATION Spec
CONSTANTS
  Job = {j, k}
  Limit = 1
  JobFaults = 1
  Delivery = {d, e}
  Handler = {h, i, g}
  PushFaults = 1
  Asker = {p, q}
  MaxTokens = 3
  TokenFaults = 1
  Caller = {c1, c2}
  Key = {start, stop}
  Mutation = {start, stop}
  MaxCommands = 2
  MaxFaults = 1
  EXPIRY = 2
  RECLAIM = 0
  GET_FRESH = 1
  MUT_FRESH = 1
  PRUNE = 3
SYMMETRY Symmetry
CONSTRAINT Bounded
CHECK_DEADLOCK FALSE
INVARIANTS
  TypeOK
  DoneOnce
  OwnersExist
PROPERTIES
  ReleasesHold
  OutcomesHold
