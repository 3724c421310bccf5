SPECIFICATION Spec
CONSTANTS
  Handlers = {h1, h2}
  Polls = {p1}
  Installers = {i1}
  MailFaults <- AllMailFaults
  Servers = {s1, s2}
  Local = Local
  Updates = {u1, u2}
  FirstKey = FirstKey
  NoKey = NoKey
  Jobs = {j1, j2}
  Getters = {g1}
  None = None
  TTL = 1
  ServerFaults <- AllServerFaults
  Parallel = 2
CONSTRAINT Beside
SYMMETRY Symmetric
PROPERTIES
  InstallLaunches
