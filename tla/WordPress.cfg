SPECIFICATION Spec
CONSTANTS
  Domains = {d1, d2}
  Shared = Shared
  DbOf <- OwnDb
  UserOf <- SharedUser
  Requests = {r1, r2, r3}
  First = First
  None = None
  Parallel = 2
  Faults <- AllFaults
CONSTRAINT LastOverlooks
SYMMETRY Symmetric
INVARIANTS
  TypeOK
  SitesWork
  RecordAgrees
  NothingLeftBehind
