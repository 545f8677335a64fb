--------------------------- MODULE TunnelRegistry ---------------------------
(***************************************************************************)
(* What the tunnel manager promises to the rest of the server: a map from  *)
(* subdomain to live tunnel that is changed one entry at a time, never     *)
(* holds two tunnels under a name, and never grows past the limits of      *)
(* ManagerConfig, of an account, or of an address.                         *)
(***************************************************************************)
EXTENDS Integers, FiniteSets

CONSTANTS
  Names,           \* subdomains a tunnel may be registered under
  Tunnels,         \* what the map holds: records with fields ip and account
  NoTunnel,        \* the map's value at a free name
  Accounts, NoAccount,
  AccountMax,      \* [Accounts -> Nat], Owner.MaxTunnels: 0 means unlimited
  CappedIPs,       \* addresses whose tunnels the per-IP cap counts exactly
  MaxTunnels,      \* ManagerConfig.MaxTunnels
  MaxTunnelsPerIP  \* ManagerConfig.MaxTunnelsPerIP

VARIABLE live      \* [Names -> Tunnels \cup {NoTunnel}], what Get and List see

LiveNames == {n \in Names : live[n] # NoTunnel}
LiveOfAccount(a) == {n \in LiveNames : live[n].account = a}
LiveOfIP(ip) == {n \in LiveNames : live[n].ip = ip}

Init == live = [n \in Names |-> NoTunnel]

(* What Register adds is read off the next state: t is live'[n].           *)
(* A name is given only while it is free and every limit has room.         *)
Register(n, t) ==
  /\ live[n] = NoTunnel
  /\ Cardinality(LiveNames) < MaxTunnels
  /\ t.account \in Accounts /\ AccountMax[t.account] > 0
       => Cardinality(LiveOfAccount(t.account)) < AccountMax[t.account]
  /\ t.ip \in CappedIPs => Cardinality(LiveOfIP(t.ip)) < MaxTunnelsPerIP
  /\ live' = [live EXCEPT ![n] = t]

Unregister(n) ==
  /\ live[n] # NoTunnel
  /\ live' = [live EXCEPT ![n] = NoTunnel]

Next ==
  \E n \in Names :
    Unregister(n) \/ (live'[n] \in Tunnels /\ Register(n, live'[n]))

Spec == Init /\ [][Next]_live
=============================================================================
