SPECIFICATION Spec
CONSTANTS
  Accounts = {a1, a2}
  Wizards = {w1, w2, w3}
  Steps = {1, 2, 7, 8}
  None = None
  Life = 1
  MaxLogin = 1
  QueryFails = TRUE
SYMMETRY Symmetric
INVARIANTS
  TypeOK
  OnlyTheWizardBefore
  OneWizardAdmin
  PowerFades
