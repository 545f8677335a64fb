SPECIFICATION Spec
CONSTANTS
  c1 = c1
  c2 = c2
  web = web
  p1 = p1
  tcp1 = tcp1
  NoPort = noPort
  AnyName = anyName
  None = none
  Conns <- MCConns
  HTTPNames <- OneHTTPNames
  Ports <- MCPorts
  PortName <- MCPortName
  Requests <- OneRequest
INVARIANT
  CleansUpAll
