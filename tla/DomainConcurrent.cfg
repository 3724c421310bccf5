SPECIFICATION Spec
CONSTANTS
  Names = {d1}
  Requests = {r1, r2, r3}
  NoRow = NoRow
  Settings <- ProxySettings
  Faults <- AllFaults
  Switching = TRUE
  Serial = FALSE
SYMMETRY RequestSymmetry
INVARIANTS
  TypeOK
  NoOrphans
  ProvisionedUnlessHarmed
  Accounting
PROPERTIES
  OnlyItsDeleteRemovesRow
