-------------------------- MODULE MCTunnelManager ---------------------------
(* Values of the constants of TunnelManager for TLC.                       *)
EXTENDS TunnelManager, TLC

CONSTANTS r1, r2, r3, alpha, beta, www, ipA, ipB, acme

MCRegs == {r1, r2, r3}
(* Goroutines are interchangeable. *)
MCSymmetry == Permutations(MCRegs)

MCNames == {alpha, beta, www}
MCUnusable == {www}
MCIPs == {ipA, ipB}
MCAccounts == {acme}
MCAccountMax == [a \in MCAccounts |-> 1]

(* Identified clients come from ipA, anonymous ones from ipB, who ask for  *)
(* a name that may be taken.                                               *)
MCRequests ==
  {[ip |-> ipA, account |-> acme, name |-> AnyName],
   [ip |-> ipB, account |-> NoAccount, name |-> alpha]}

(* Two kinds of client behind one address, one tunnel each per address.    *)
MCSharedRequests ==
  {[ip |-> ipA, account |-> acme, name |-> AnyName],
   [ip |-> ipA, account |-> NoAccount, name |-> AnyName]}
=============================================================================
