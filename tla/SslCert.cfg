SPECIFICATION Spec
CONSTANTS
  Slots = {s1, s2}
  NoRow = NoRow
  Parallel = 2
  Life = 3
  Soon = 2
  Faults <- AllFaults
SYMMETRY Symmetric
INVARIANTS
  TypeOK
  VhostAgrees
  ServesACert
  NeverOverpromises
  ExpiresOnlyUnattended
PROPERTIES
  NightlyRefreshHeals
