SPECIFICATION Spec
CONSTANTS
  t1 = t1
  t2 = t2
  c1 = c1
  c2 = c2
  c3 = c3
  A = A
  B = B
  web = web
  drawn = drawn
  tcp = tcp
  Anything = Anything
  NoOne = NoOne
  Tunnels = {t1, t2}
  Clients = {c1, c2, c3}
  Accounts = {A, B}
  AccountOf <- MCAccountOf
  Deployments <- MCDeployments
  HTTPNames = {web}
  Generated = {drawn}
  PortNames = {tcp}
  Requests <- MCRequests
  Removable = {A}
  Admins = {1}
  MaxWrites = 2
INVARIANTS
  BoundWithinAccount
  LinksOwnName
  ClosedFleet
PROPERTIES
  ReservedToOwner
  OwnerKeepsTrying
CHECK_DEADLOCK FALSE
