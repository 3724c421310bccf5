SPECIFICATION Spec
CONSTANTS
  Domains = {d1, d2}
  Ids = {1, 2}
  Page = 1
  c1 = c1
  c2 = c2
  Contents <- MCContents
  Payloads <- MCPayloads
  Requests = {r1, r2, r3}
  None = None
  Faults <- AllFaults
  Dashboard = TRUE
SYMMETRY Symmetric
INVARIANTS
  TypeOK
  InStep
PROPERTIES
  SyncHeals
  NoLiveRowLost
