SPECIFICATION FairSpec
CONSTANTS
  Op = {o1, o2}
  a = a
  b = b
  Data <- MCData
  Digest <- MCDigest
  Request <- WideRequest
  None = None
  LEASE_MS = 1
  UPLOAD_TTL_MS = 2
  MAX_BLOB = 3
  MAX_CHUNKS = 2
  MaxRenewals = 1
  MaxFaults = 1
  RequestsEnd = TRUE
CHECK_DEADLOCK FALSE
INVARIANTS
  TypeOK
  AlarmPending
  NothingLeftBehind
PROPERTIES
  Reclaimed
