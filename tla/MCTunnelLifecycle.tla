------------------------- MODULE MCTunnelLifecycle --------------------------
(* Values of the constants of TunnelLifecycle for TLC.                     *)
EXTENDS TunnelLifecycle, TLC

CONSTANTS c1, c2, web, p1, tcp1

MCConns == {c1, c2}
MCSymmetry == Permutations(MCConns)

(* A TCP tunnel that asks for its port again, with a connection pool; one  *)
(* that takes any port; an HTTP tunnel with a fixed name.                  *)
MCHTTPNames == {web}
MCPorts == {p1}
MCPortName == (p1 :> tcp1)
MCRequests ==
  {[type |-> "tcp", name |-> tcp1, port |-> p1, pool |-> TRUE],
   [type |-> "tcp", name |-> AnyName, port |-> NoPort, pool |-> FALSE],
   [type |-> "http", name |-> web, port |-> NoPort, pool |-> FALSE]}

(* With Stop: two TCP tunnels and one port.                                *)
OneHTTPNames == {}
OneRequest == {[type |-> "tcp", name |-> AnyName, port |-> NoPort, pool |-> FALSE]}
=============================================================================
