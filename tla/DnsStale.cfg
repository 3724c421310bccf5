SPECIFICATION Spec
CONSTANTS
  Domains = {d1}
  Ids = {1}
  Page = 1
  Requests = {r1, r2}
  None = None
  c1 = c1
  c2 = c2
  Contents <- MCContents
  Payloads <- MCPayloads
  Faults = {}
  Dashboard = TRUE
PROPERTIES
  SyncRefreshes
