SPECIFICATION Spec
CONSTANTS
  Op = {o1, o2, o3}
  a = a
  b = b
  Data <- MCData
  Digest <- MCDigest
  Request <- Uploads
  None = None
  LEASE_MS = 1
  UPLOAD_TTL_MS = 2
  MAX_BLOB = 3
  MAX_CHUNKS = 2
  MaxRenewals = 0
  MaxFaults = 0
  RequestsEnd = FALSE
SYMMETRY Symmetry
CHECK_DEADLOCK FALSE
INVARIANTS
  BytesKept
  RangeRespected
  ContentAddressed
PROPERTIES
  ImplementsContract
