SPECIFICATION Spec
CONSTANTS
  Slots = {s1}
  Parallel = 1
  NoRow = NoRow
  Life = 3
  Soon = 2
  Faults = {"refused"}
PROPERTIES
  ExpiryWarned
