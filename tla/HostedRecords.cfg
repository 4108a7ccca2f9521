SPECIFICATION Spec
CONSTANTS
  Login = {l, m}
  Workspace = {o, w}
  Owned = o
  MaxRevoked = 1
  Bundle = {a, c}
  Second = c
  Import = {y, z}
  ImportFaults = 1
  Server = {h1, h2}
  Volume = {v1}
  Project = {p1}
  Title = {t1}
  Account = {a1}
  Resource = {r1}
  Dashboard = {d1, d2}
  MaxProjects = 1
  MaxChanges = 2
  MaxOrganized = 2
  Blob = {b1, b2}
  Image = {i1, i2}
  Index = {x1}
  Repo = {s1, s2}
  Client = {c1, c2}
SYMMETRY Symmetry
CONSTRAINT Bounded
CHECK_DEADLOCK FALSE
INVARIANTS
  TypeOK
  ReferencesHold
PROPERTIES
  StepsHold
