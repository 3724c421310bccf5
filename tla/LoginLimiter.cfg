SPECIFICATION FairSpec
CONSTANTS
  MaxFailures = 5
  Window = 4
  MaxInFlight = 6
INVARIANTS
  TypeOK
  StreakIsLocked
  GuessBudget
PROPERTIES
  LockoutEnds
