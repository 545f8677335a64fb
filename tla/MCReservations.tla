--------------------------- MODULE MCReservations ---------------------------
(* Two tunnels in each deployment that makes them meet; two accounts, one  *)
(* subdomain to name, one to draw, one port.                               *)
EXTENDS Reservations, TLC

CONSTANTS t1, t2, c1, c2, c3, A, B, web, drawn, tcp

MCAccountOf == c1 :> A @@ c2 :> B @@ c3 :> A
Tunnel(c, type, n) == [client |-> c, type |-> type, name |-> n]
Pair(first, second) == t1 :> first @@ t2 :> second

(* Strangers over one name, two unnamed TCP tunnels of one machine, an     *)
(* HTTP tunnel and a TCP one with its name for a label, TCP tunnels of two *)
(* machines of one account.                                                *)
MCDeployments ==
  {Pair(Tunnel(c1, "http", Anything), Tunnel(c2, "http", web)),
   Pair(Tunnel(c1, "tcp", Anything), Tunnel(c1, "tcp", Anything)),
   Pair(Tunnel(NoOne, "http", web), Tunnel(c1, "tcp", web)),
   Pair(Tunnel(c1, "tcp", Anything), Tunnel(c3, "tcp", tcp))}
(* To a credential, and to an account.                                     *)
Request(n, account, c) == [name |-> n, account |-> account, client |-> c]
MCRequests == {Request(web, A, c1), Request(tcp, A, NoOne)}
OneDeployment == {Pair(Tunnel(c1, "http", Anything), Tunnel(c2, "http", web))}
=============================================================================
