SPECIFICATION Spec
CONSTANTS
  c1 = c1
  c2 = c2
  acme = acme
  l1 = l1
  m1 = m1
  m2 = m2
  None = none
  Clients <- OneClient
  Accounts <- MCAccounts
  AccountOf <- OneAccountOf
  Logins <- OneLogin
  Admins <- MCAdmins
  MaxSecret = 2
  TTL = 2
INVARIANTS
  QuietFillsAreCoherent
PROPERTY
  StaleEntriesExpire
