SPECIFICATION FairSpec
CONSTANTS
  Names = {d1, d2}
  Requests = {r1, r2, r3}
  NoRow = NoRow
  Settings <- ProxySettings
  Faults = {"refused"}
  Switching = FALSE
  Serial = TRUE
PROPERTIES
  KeepsPromise
