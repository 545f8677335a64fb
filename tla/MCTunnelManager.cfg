SPECIFICATION Spec
CONSTANTS
  r1 = r1
  r2 = r2
  r3 = r3
  alpha = alpha
  beta = beta
  www = www
  ipA = ipA
  ipB = ipB
  acme = acme
  Janitor = janitor
  NoIP = noIP
  NoAccount = noAccount
  AnyName = anyName
  None = none
  Regs <- MCRegs
  Names <- MCNames
  Unusable <- MCUnusable
  IPs <- MCIPs
  Accounts <- MCAccounts
  AccountMax <- MCAccountMax
  Requests <- MCRequests
  MaxTunnels = 2
  MaxTunnelsPerIP = 1
  RateLimit = 2
INVARIANTS
  CountsExact
  NotOvercharged
  HoldsItsName
PROPERTY
  RegistrySpec
SYMMETRY MCSymmetry
