SPECIFICATION ServingSpec
CONSTANTS
  c1 = c1
  c2 = c2
  web = web
  p1 = p1
  tcp1 = tcp1
  NoPort = noPort
  AnyName = anyName
  None = none
  Conns <- MCConns
  HTTPNames <- MCHTTPNames
  Ports <- MCPorts
  PortName <- MCPortName
  Requests <- MCRequests
INVARIANTS
  NothingLeaks
  ClosesCleanly
PROPERTY
  Dismantled
