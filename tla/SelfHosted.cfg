SPECIFICATION Spec
CONSTANTS
  Worker = {v, w}
  MaxDeployments = 2
  SelfFaults = 2
  Domain = {a, b}
  EdgeFaults = 2
  Stranger = u
  OwnerOfApp = o
  Person = {u, o}
  Attempt = {k}
  Installation = {j}
  MaxTokens = 2
  GitFaults = 1
  MaxPushes = 2
  MaxDeploys = 2
  MaxStamps = 3
  PushTroubles = 2
  Caller = {c1, c2}
  Base = {d}
  MaxStarts = 3
  BaseFaults = 3
  Ticket = {t1, t2}
  Host = {h1, h2}
  Command = {c1, c2}
  OneTicket = {t1}
  FleetMishaps = 2
CHECK_DEADLOCK FALSE
SYMMETRY Symmetry
INVARIANTS
  TypeOK
  RunningKept
  ClaimedOnce
PROPERTIES
  StepsHold
