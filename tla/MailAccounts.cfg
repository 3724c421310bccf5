SPECIFICATION Spec
CONSTANTS
  Addresses = {a1, a2}
  d1 = d1
  Domains <- MCDomains
  DomainOf <- MCDomainOf
  Values = {v1, v2}
  Home = Home
  Requests = {r1, r2}
  Older = Older
  None = None
  Faults <- AllFaults
SYMMETRY Symmetric
INVARIANTS
  TypeOK
  RowsAreServed
  NothingUnasked
PROPERTIES
  DeleteHeals
  MailKept
