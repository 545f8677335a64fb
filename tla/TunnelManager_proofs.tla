------------------------ MODULE TunnelManager_proofs ------------------------
(***************************************************************************)
(* Proofs about TunnelManager for every value of its constants: the        *)
(* counters are exact, the limits hold, and the manager implements         *)
(* TunnelRegistry.                                                         *)
(*                                                                         *)
(* IInv is the inductive invariant. Types and program points (WeakType,    *)
(* StageInv) say which call a goroutine is in and what it holds; the three *)
(* exact counts say that every table equals a sum of cardinalities; Caps   *)
(* bounds the tables by the limits that the reserving steps test.          *)
(***************************************************************************)
EXTENDS TunnelManager, FiniteSetTheorems, TLAPS

WeakType ==
  /\ tunnelCount \in Int
  /\ tunnelsByIP \in [IPs -> 0..MaxTunnelsPerIP]
  /\ tunnelsByAccount \in [Accounts -> Nat]
  /\ tunnels \in [Names -> Tunnels \cup {None}]
  /\ pc \in [Procs -> Stages]
  /\ req \in [Regs -> Requests \cup {None}]
  /\ name \in [Regs -> Names \cup {None}]
  /\ owed \in [Procs -> Tunnels \cup {None}]
  /\ stale \subseteq Names

(* A tunnel was admitted on behalf of some request.                        *)
Admitted(t) == \E q \in Requests : t.ip = q.ip /\ t.account = q.account

StageInv ==
  /\ \A r \in Regs :
       /\ pc[r] \in Reserving \cup Undoing \cup {"live"} => req[r] \in Requests
       /\ pc[r] \in {"account", "undoAccount"} => Identified(req[r])
       /\ pc[r] \in {"rate", "ip", "refund", "undoRate", "undoIP"} =>
            ~Identified(req[r]) /\ req[r].ip # NoIP
       /\ pc[r] = "live" => name[r] \in Names
       /\ pc[r] # "sweep"
  /\ pc[Janitor] \in {"idle", "sweep"} \cup Dropping
  /\ \A p \in Procs :
       /\ pc[p] \in Dropping => owed[p] \in Tunnels /\ Admitted(owed[p])
       /\ pc[p] = "dropAccount" => owed[p].account # NoAccount
       /\ pc[p] = "dropIP" => owed[p].ip # NoIP
  /\ \A n \in Names : tunnels[n] # None => Admitted(tunnels[n])

Caps ==
  /\ tunnelCount <= MaxTunnels
  /\ \A a \in Accounts : AccountMax[a] > 0 => tunnelsByAccount[a] <= AccountMax[a]

IInv ==
  /\ WeakType /\ StageInv /\ Caps
  /\ GlobalCountExact /\ AccountCountExact /\ IPCountExact

----------------------------------------------------------------------------
(* A request is identified exactly when its account is a real one.         *)
LEMMA RequestType ==
  ASSUME NEW q \in Requests
  PROVE /\ q.ip \in IPs \cup {NoIP} /\ q.account \in Accounts \cup {NoAccount}
        /\ q.name \in Names \cup {AnyName}
        /\ (Identified(q) <=> q.account \in Accounts)
        /\ (q.ip # NoIP <=> q.ip \in IPs)
<1>1. q \in [ip: IPs \cup {NoIP}, account: Accounts \cup {NoAccount},
             name: Names \cup {AnyName}]
  BY ManagerAssumption
<1>2. NoIP \notin IPs /\ NoAccount \notin Accounts
  BY ManagerAssumption
<1>3. QED
  BY <1>1, <1>2 DEF Identified

LEMMA TunnelType ==
  ASSUME NEW t \in Tunnels
  PROVE /\ t # None
        /\ t.ip \in IPs \cup {NoIP} /\ t.account \in Accounts \cup {NoAccount}
        /\ (t.account # NoAccount <=> t.account \in Accounts)
        /\ (t.ip # NoIP <=> t.ip \in IPs)
BY ManagerAssumption, NoneAssumption DEF Tunnels

LEMMA TypeInit == Init => WeakType /\ StageInv /\ Caps
BY ManagerAssumption, NoneAssumption
DEF Init, WeakType, StageInv, Caps, Procs, Stages, Reserving, Undoing, Dropping, tables

(* Types and program points are preserved by every step.                   *)
LEMMA TypeStep == WeakType /\ StageInv /\ [Next]_vars => WeakType' /\ StageInv'
<1> SUFFICES ASSUME WeakType, StageInv, [Next]_vars PROVE WeakType' /\ StageInv'
  OBVIOUS
<1> USE ManagerAssumption, NoneAssumption, RequestType, TunnelType
        DEF Procs, Stages, Reserving, Undoing, Dropping, Goto
<1>1. ASSUME NEW r \in Regs, ReserveGlobal(r) PROVE WeakType' /\ StageInv'
  BY <1>1 DEF WeakType, StageInv, ReserveGlobal, AfterGlobal, Admitted, Identified
<1>2. ASSUME NEW r \in Regs, ReserveAccount(r) PROVE WeakType' /\ StageInv'
  BY <1>2 DEF WeakType, StageInv, ReserveAccount, Admitted, Identified
<1>3. ASSUME NEW r \in Regs, CheckAndIncrement(r) PROVE WeakType' /\ StageInv'
  BY <1>3 DEF WeakType, StageInv, CheckAndIncrement, tables, Admitted, Identified
<1>4. ASSUME NEW r \in Regs, ReserveIP(r) PROVE WeakType' /\ StageInv'
  BY <1>4 DEF WeakType, StageInv, ReserveIP, Admitted, Identified
<1>5. ASSUME NEW r \in Regs, ClaimName(r) PROVE WeakType' /\ StageInv'
  BY <1>5 DEF WeakType, StageInv, ClaimName, registerSubdomain, Usable, tables, Admitted,
    Tunnels, Identified
<1>6. ASSUME NEW r \in Regs, NameRefused(r) PROVE WeakType' /\ StageInv'
  BY <1>6 DEF WeakType, StageInv, NameRefused, FirstUndo, tables, Admitted, Identified
<1>7. ASSUME NEW r \in Regs, rollbackRateLimit(r) PROVE WeakType' /\ StageInv'
  BY <1>7 DEF WeakType, StageInv, rollbackRateLimit, tables, Admitted, Identified
<1>8. ASSUME NEW r \in Regs, rollbackPerIP(r) PROVE WeakType' /\ StageInv'
  BY <1>8 DEF WeakType, StageInv, rollbackPerIP, Less, Admitted, Identified
<1>9. ASSUME NEW r \in Regs, rollbackPerAccount(r) PROVE WeakType' /\ StageInv'
  BY <1>9 DEF WeakType, StageInv, rollbackPerAccount, Less, Admitted, Identified
<1>10. ASSUME NEW r \in Regs, rollbackGlobal(r) PROVE WeakType' /\ StageInv'
  BY <1>10 DEF WeakType, StageInv, rollbackGlobal, Refuse, Admitted, Identified
<1>r. ASSUME NEW p \in Procs, NEW n \in Names, RemoveTunnel(p, n),
             pc[p] = IF p = Janitor THEN "sweep" ELSE "live",
             UNCHANGED tables, stale' \subseteq Names
      PROVE WeakType' /\ StageInv'
  <2>1. CASE tunnels[n] = None
    <3>1. WeakType'
      BY <1>r, <2>1 DEF WeakType, RemoveTunnel, Finish, Returned, tables
    <3>2. StageInv'
      BY <1>r, <2>1 DEF WeakType, StageInv, RemoveTunnel, Finish, Returned, Admitted, Identified
    <3>3. QED
      BY <3>1, <3>2
  <2>2. CASE tunnels[n] # None
    <3>1. tunnels[n] \in Tunnels /\ Admitted(tunnels[n])
      BY <2>2 DEF WeakType, StageInv
    <3>2. WeakType'
      BY <1>r, <2>2, <3>1 DEF WeakType, RemoveTunnel, tables
    <3>3. StageInv'
      BY <1>r, <2>2, <3>1 DEF WeakType, StageInv, RemoveTunnel, Admitted, Identified
    <3>4. QED
      BY <3>2, <3>3
  <2>3. QED
    BY <2>1, <2>2
<1>11. ASSUME NEW r \in Regs, CloseConnection(r) PROVE WeakType' /\ StageInv'
  BY <1>11, <1>r DEF CloseConnection, WeakType, StageInv
<1>12. ASSUME NEW p \in Procs, DropCount(p) PROVE WeakType' /\ StageInv'
  <2>1. WeakType'
    BY <1>12 DEF WeakType, DropCount, Finish, Returned
  <2>2. StageInv'
    BY <1>12 DEF WeakType, StageInv, DropCount, Finish, Returned, Admitted, Identified
  <2>3. QED
    BY <2>1, <2>2
<1>13. ASSUME NEW p \in Procs, DropAccount(p) PROVE WeakType' /\ StageInv'
  BY <1>13 DEF WeakType, StageInv, DropAccount, Finish, Returned, Less, Admitted, Identified
<1>14. ASSUME NEW p \in Procs, DropIP(p) PROVE WeakType' /\ StageInv'
  BY <1>14 DEF WeakType, StageInv, DropIP, Finish, Returned, Less, Admitted, Identified
<1>15. CASE CollectStale
  BY <1>15 DEF WeakType, StageInv, CollectStale, tables, Admitted, Identified
<1>16. CASE SweepStale
  BY <1>16, <1>r DEF SweepStale, WeakType
<1>17. CASE CleanupRateLimits
  BY <1>17 DEF WeakType, StageInv, CleanupRateLimits, tables, Admitted, Identified
<1>18. ASSUME NEW ip \in IPs, WindowEnds(ip) PROVE WeakType' /\ StageInv'
  BY <1>18 DEF WeakType, StageInv, WindowEnds, tables, Admitted, Identified
<1>19. CASE UNCHANGED vars
  BY <1>19 DEF WeakType, StageInv, vars, tables, Admitted, Identified
<1>20. QED
  BY <1>1, <1>2, <1>3, <1>4, <1>5, <1>6, <1>7, <1>8, <1>9, <1>10, <1>11, <1>12, <1>13,
     <1>14, <1>15, <1>16, <1>17, <1>18, <1>19
  DEF Next, RegisterOwned, Drop, CleanupStale

----------------------------------------------------------------------------
(* Cardinalities.                                                          *)

LEMMA Grow ==
  ASSUME NEW S, IsFiniteSet(S), NEW x, x \notin S
  PROVE Cardinality(S \cup {x}) = Cardinality(S) + 1
BY FS_AddElement

LEMMA Shrink ==
  ASSUME NEW S, IsFiniteSet(S), NEW x, x \in S
  PROVE Cardinality(S \ {x}) = Cardinality(S) - 1 /\ Cardinality(S) >= 1
<1>1. IsFiniteSet(S \ {x}) /\ Cardinality(S \ {x}) = Cardinality(S) - 1
  BY FS_RemoveElement
<1>2. QED
  BY <1>1, FS_CardinalityType

LEMMA ProcsFinite == IsFiniteSet(Procs)
BY ManagerAssumption, FS_AddElement DEF Procs

(* The sets the tables stand for are finite.                               *)
LEMMA Finite ==
  /\ IsFiniteSet(LiveNames) /\ Cardinality(LiveNames) \in Nat
  /\ IsFiniteSet(HoldGlobal) /\ Cardinality(HoldGlobal) \in Nat
  /\ IsFiniteSet(OweGlobal) /\ Cardinality(OweGlobal) \in Nat
  /\ \A a :
       LET L == {n \in LiveNames : tunnels[n].account = a} IN
       /\ IsFiniteSet(L) /\ Cardinality(L) \in Nat
       /\ IsFiniteSet(HoldAccount(a)) /\ Cardinality(HoldAccount(a)) \in Nat
       /\ IsFiniteSet(OweAccount(a)) /\ Cardinality(OweAccount(a)) \in Nat
  /\ \A ip :
       LET L == {n \in LiveNames : tunnels[n].ip = ip} IN
       /\ IsFiniteSet(L) /\ Cardinality(L) \in Nat
       /\ IsFiniteSet(HoldIP(ip)) /\ Cardinality(HoldIP(ip)) \in Nat
       /\ IsFiniteSet(OweIP(ip)) /\ Cardinality(OweIP(ip)) \in Nat
<1>1. ASSUME NEW S, S \subseteq Names \/ S \subseteq Regs \/ S \subseteq Procs
      PROVE IsFiniteSet(S) /\ Cardinality(S) \in Nat
  BY <1>1, ManagerAssumption, ProcsFinite, FS_Subset, FS_CardinalityType
<1>2. LiveNames \subseteq Names
  BY DEF LiveNames
<1>3. HoldGlobal \subseteq Regs /\ \A x : HoldAccount(x) \subseteq Regs /\ HoldIP(x) \subseteq Regs
  BY DEF HoldGlobal, HoldAccount, HoldIP
<1>4. OweGlobal \subseteq Procs /\ \A x : OweAccount(x) \subseteq Procs /\ OweIP(x) \subseteq Procs
  BY DEF OweGlobal, OweAccount, OweIP
<1>5. \A x : {n \in LiveNames : tunnels[n].account = x} \subseteq Names
             /\ {n \in LiveNames : tunnels[n].ip = x} \subseteq Names
  BY <1>2
<1>6. QED
  BY <1>1, <1>2, <1>3, <1>4, <1>5

LEMMA ExactInit == Init => GlobalCountExact /\ AccountCountExact /\ IPCountExact
<1> SUFFICES ASSUME Init PROVE GlobalCountExact /\ AccountCountExact /\ IPCountExact
  OBVIOUS
<1>1. LiveNames = {} /\ HoldGlobal = {} /\ OweGlobal = {}
  BY DEF Init, LiveNames, HoldGlobal, OweGlobal, Reserving, Undoing, Procs
<1>2. \A a : HoldAccount(a) = {} /\ OweAccount(a) = {} /\ HoldIP(a) = {} /\ OweIP(a) = {}
  BY DEF Init, HoldAccount, OweAccount, HoldIP, OweIP, Procs, Dropping
<1>3. Cardinality({}) = 0
  BY FS_EmptySet
<1>4. tunnelCount = 0 /\ tunnelsByIP = [ip \in IPs |-> 0]
      /\ tunnelsByAccount = [a \in Accounts |-> 0]
  BY DEF Init
<1>5. \A a : {n \in LiveNames : tunnels[n].account = a} = {}
             /\ {n \in LiveNames : tunnels[n].ip = a} = {}
  BY <1>1
<1>6. GlobalCountExact
  BY <1>1, <1>3, <1>4 DEF GlobalCountExact
<1>7. AccountCountExact
  <2>1. \A a \in Accounts : tunnelsByAccount[a] = 0
    BY <1>4
  <2>2. QED
    BY <1>2, <1>3, <1>5, <2>1 DEF AccountCountExact
<1>8. IPCountExact
  <2>1. \A ip \in UnmixedIPs : tunnelsByIP[ip] = 0
    BY <1>4 DEF UnmixedIPs
  <2>2. QED
    BY <1>2, <1>3, <1>5, <2>1 DEF IPCountExact
<1>9. QED
  BY <1>6, <1>7, <1>8

----------------------------------------------------------------------------
(* The global counter. Only four kinds of step move a token between the    *)
(* sets it counts.                                                         *)

LEMMA GlobalStep ==
  WeakType /\ StageInv /\ GlobalCountExact /\ [Next]_vars => GlobalCountExact'
<1> SUFFICES ASSUME WeakType, StageInv, GlobalCountExact, [Next]_vars
             PROVE GlobalCountExact'
  OBVIOUS
<1> USE DEF GlobalCountExact
<1>t. /\ pc \in [Procs -> Stages] /\ Regs \subseteq Procs
      /\ tunnelCount \in Int /\ tunnels \in [Names -> Tunnels \cup {None}]
  BY DEF WeakType, Procs
<1>f. /\ IsFiniteSet(LiveNames) /\ Cardinality(LiveNames) \in Nat
      /\ IsFiniteSet(HoldGlobal) /\ Cardinality(HoldGlobal) \in Nat
      /\ IsFiniteSet(OweGlobal) /\ Cardinality(OweGlobal) \in Nat
  BY Finite
<1> DEFINE Still == /\ LiveNames' = LiveNames /\ HoldGlobal' = HoldGlobal
                    /\ OweGlobal' = OweGlobal /\ tunnelCount' = tunnelCount
<1>s. ASSUME Still PROVE GlobalCountExact'
  BY <1>s
<1> USE DEF Goto, Reserving, Undoing, Dropping, LiveNames, HoldGlobal, OweGlobal
<1>1. ASSUME NEW r \in Regs, ReserveGlobal(r) PROVE GlobalCountExact'
  <2>1. HoldGlobal' = HoldGlobal \cup {r} /\ r \notin HoldGlobal
    BY <1>1, <1>t DEF ReserveGlobal, AfterGlobal
  <2>2. LiveNames' = LiveNames /\ OweGlobal' = OweGlobal /\ tunnelCount' = tunnelCount + 1
    BY <1>1, <1>t DEF ReserveGlobal, AfterGlobal
  <2> HIDE DEF HoldGlobal, LiveNames, OweGlobal
  <2>3. QED
    BY <2>1, <2>2, <1>f, <1>t, Grow
<1>2. ASSUME NEW r \in Regs, ReserveAccount(r) PROVE GlobalCountExact'
  BY <1>2, <1>t, <1>s DEF ReserveAccount
<1>3. ASSUME NEW r \in Regs, CheckAndIncrement(r) PROVE GlobalCountExact'
  BY <1>3, <1>t, <1>s DEF CheckAndIncrement, tables
<1>4. ASSUME NEW r \in Regs, ReserveIP(r) PROVE GlobalCountExact'
  BY <1>4, <1>t, <1>s DEF ReserveIP
<1>5. ASSUME NEW r \in Regs, ClaimName(r) PROVE GlobalCountExact'
  <2>1. PICK n \in Names : registerSubdomain(r, n)
    BY <1>5, RequestType DEF ClaimName, Usable, WeakType, StageInv
  <2>2. HoldGlobal' = HoldGlobal \ {r} /\ r \in HoldGlobal
    BY <1>5, <1>t DEF ClaimName
  <2>3. LiveNames' = LiveNames \cup {n} /\ n \notin LiveNames
    <3>1. [reg |-> r, ip |-> req[r].ip, account |-> req[r].account] # None
      BY <1>5, RequestType, TunnelType DEF ClaimName, Tunnels, WeakType, StageInv
    <3>2. QED
      BY <2>1, <3>1, <1>t DEF registerSubdomain
  <2>4. OweGlobal' = OweGlobal /\ tunnelCount' = tunnelCount
    BY <1>5, <1>t DEF ClaimName, tables
  <2> HIDE DEF HoldGlobal, LiveNames, OweGlobal
  <2>5. Cardinality(HoldGlobal') = Cardinality(HoldGlobal) - 1
    BY <2>2, <1>f, Shrink
  <2>6. Cardinality(LiveNames') = Cardinality(LiveNames) + 1
    BY <2>3, <1>f, Grow
  <2>7. QED
    BY <2>4, <2>5, <2>6, <1>f, <1>t
<1>6. ASSUME NEW r \in Regs, NameRefused(r) PROVE GlobalCountExact'
  BY <1>6, <1>t, <1>s DEF NameRefused, FirstUndo, tables
<1>7. ASSUME NEW r \in Regs, rollbackRateLimit(r) PROVE GlobalCountExact'
  BY <1>7, <1>t, <1>s DEF rollbackRateLimit, tables
<1>8. ASSUME NEW r \in Regs, rollbackPerIP(r) PROVE GlobalCountExact'
  BY <1>8, <1>t, <1>s DEF rollbackPerIP
<1>9. ASSUME NEW r \in Regs, rollbackPerAccount(r) PROVE GlobalCountExact'
  BY <1>9, <1>t, <1>s DEF rollbackPerAccount
<1>10. ASSUME NEW r \in Regs, rollbackGlobal(r) PROVE GlobalCountExact'
  <2>1. HoldGlobal' = HoldGlobal \ {r} /\ r \in HoldGlobal
    BY <1>10, <1>t DEF rollbackGlobal, Refuse
  <2>2. LiveNames' = LiveNames /\ OweGlobal' = OweGlobal /\ tunnelCount' = tunnelCount - 1
    BY <1>10, <1>t DEF rollbackGlobal, Refuse
  <2> HIDE DEF HoldGlobal, LiveNames, OweGlobal
  <2>3. QED
    BY <2>1, <2>2, <1>f, <1>t, Shrink
<1>11. ASSUME NEW p \in Procs, NEW n \in Names, RemoveTunnel(p, n),
              pc[p] \in {"live", "sweep"}, tunnelCount' = tunnelCount
       PROVE GlobalCountExact'
  <2>1. CASE tunnels[n] = None
    <3>1. pc' = [pc EXCEPT ![p] = Returned(p)] /\ tunnels' = tunnels
      BY <1>11, <2>1 DEF RemoveTunnel, Finish
    <3>2. Returned(p) \in {"idle", "sweep"}
      BY DEF Returned
    <3>3. QED
      BY <1>11, <3>1, <3>2, <1>t, <1>s
  <2>2. CASE tunnels[n] # None
    <3>1. LiveNames' = LiveNames \ {n} /\ n \in LiveNames
      BY <1>11, <2>2, <1>t DEF RemoveTunnel
    <3>2. OweGlobal' = OweGlobal \cup {p} /\ p \notin OweGlobal /\ HoldGlobal' = HoldGlobal
      BY <1>11, <2>2, <1>t DEF RemoveTunnel
    <3> HIDE DEF HoldGlobal, LiveNames, OweGlobal
    <3>3. Cardinality(LiveNames') = Cardinality(LiveNames) - 1
      BY <3>1, <1>f, Shrink
    <3>4. Cardinality(OweGlobal') = Cardinality(OweGlobal) + 1
      BY <3>2, <1>f, Grow
    <3>5. QED
      BY <3>2, <3>3, <3>4, <1>11, <1>f, <1>t
  <2>3. QED
    BY <2>1, <2>2
<1>12. ASSUME NEW r \in Regs, CloseConnection(r) PROVE GlobalCountExact'
  BY <1>12, <1>11, <1>t DEF CloseConnection, tables, StageInv
<1>13. CASE SweepStale
  BY <1>13, <1>11, <1>t DEF SweepStale, tables, WeakType, Procs
<1>14. ASSUME NEW p \in Procs, DropCount(p) PROVE GlobalCountExact'
  <2>1. OweGlobal' = OweGlobal \ {p} /\ p \in OweGlobal
    BY <1>14, <1>t DEF DropCount, Finish, Returned
  <2>2. LiveNames' = LiveNames /\ HoldGlobal' = HoldGlobal /\ tunnelCount' = tunnelCount - 1
    BY <1>14, <1>t DEF DropCount, Finish, Returned
  <2> HIDE DEF HoldGlobal, LiveNames, OweGlobal
  <2>3. QED
    BY <2>1, <2>2, <1>f, <1>t, Shrink
<1>15. ASSUME NEW p \in Procs, DropAccount(p) PROVE GlobalCountExact'
  BY <1>15, <1>t, <1>s DEF DropAccount, Finish, Returned
<1>16. ASSUME NEW p \in Procs, DropIP(p) PROVE GlobalCountExact'
  BY <1>16, <1>t, <1>s DEF DropIP, Finish, Returned
<1>17. CASE CollectStale
  BY <1>17, <1>t, <1>s DEF CollectStale, tables
<1>18. CASE CleanupRateLimits
  BY <1>18, <1>t, <1>s DEF CleanupRateLimits, tables
<1>19. ASSUME NEW ip \in IPs, WindowEnds(ip) PROVE GlobalCountExact'
  BY <1>19, <1>t, <1>s DEF WindowEnds, tables
<1>20. CASE UNCHANGED vars
  BY <1>20, <1>s DEF vars, tables
<1>21. QED
  BY <1>1, <1>2, <1>3, <1>4, <1>5, <1>6, <1>7, <1>8, <1>9, <1>10, <1>12, <1>13, <1>14,
     <1>15, <1>16, <1>17, <1>18, <1>19, <1>20
  DEF Next, RegisterOwned, Drop, CleanupStale

----------------------------------------------------------------------------
(* An account's counter, one account at a time.                            *)

LEMMA AccountStep ==
  WeakType /\ StageInv /\ AccountCountExact /\ [Next]_vars => AccountCountExact'
<1> SUFFICES ASSUME WeakType, StageInv, AccountCountExact, [Next]_vars, NEW a \in Accounts
             PROVE (tunnelsByAccount[a] =
                      Cardinality({n \in LiveNames : tunnels[n].account = a})
                        + Cardinality(HoldAccount(a)) + Cardinality(OweAccount(a)))'
  BY DEF AccountCountExact
<1> DEFINE L == {n \in LiveNames : tunnels[n].account = a}
           C == tunnelsByAccount[a]
           Exact == C = Cardinality(L) + Cardinality(HoldAccount(a)) + Cardinality(OweAccount(a))
<1>e. Exact
  BY DEF AccountCountExact
<1>t. /\ pc \in [Procs -> Stages] /\ Regs \subseteq Procs
      /\ tunnelsByAccount \in [Accounts -> Nat] /\ tunnels \in [Names -> Tunnels \cup {None}]
      /\ req \in [Regs -> Requests \cup {None}] /\ owed \in [Procs -> Tunnels \cup {None}]
      /\ C \in Nat
  BY ManagerAssumption DEF WeakType, Procs, UnmixedIPs
<1>f. /\ IsFiniteSet(L) /\ Cardinality(L) \in Nat
      /\ IsFiniteSet(HoldAccount(a)) /\ Cardinality(HoldAccount(a)) \in Nat
      /\ IsFiniteSet(OweAccount(a)) /\ Cardinality(OweAccount(a)) \in Nat
  BY Finite
<1> HIDE DEF L, C
<1>s. ASSUME L' = L, HoldAccount(a)' = HoldAccount(a), OweAccount(a)' = OweAccount(a), C' = C
      PROVE Exact'
  BY <1>s, <1>e
<1>u. ASSUME NEW x, HoldAccount(a)' = HoldAccount(a) \cup {x}, x \notin HoldAccount(a), L' = L,
             OweAccount(a)' = OweAccount(a), C' = C + 1
      PROVE Exact'
  <2>1. Cardinality(HoldAccount(a)') = Cardinality(HoldAccount(a)) + 1
    BY <1>u, <1>f, Grow
  <2>2. QED
    BY <2>1, <1>u, <1>e, <1>f, <1>t
<1>h. ASSUME NEW x, HoldAccount(a)' = HoldAccount(a) \ {x}, x \in HoldAccount(a), L' = L,
             OweAccount(a)' = OweAccount(a), C' = Less(C)
      PROVE Exact'
  <2>1. Cardinality(HoldAccount(a)') = Cardinality(HoldAccount(a)) - 1 /\ Cardinality(HoldAccount(a)) >= 1
    BY <1>h, <1>f, Shrink
  <2>2. QED
    BY <2>1, <1>h, <1>e, <1>f, <1>t DEF Less
<1>o. ASSUME NEW x, OweAccount(a)' = OweAccount(a) \ {x}, x \in OweAccount(a), L' = L,
             HoldAccount(a)' = HoldAccount(a), C' = Less(C)
      PROVE Exact'
  <2>1. Cardinality(OweAccount(a)') = Cardinality(OweAccount(a)) - 1 /\ Cardinality(OweAccount(a)) >= 1
    BY <1>o, <1>f, Shrink
  <2>2. QED
    BY <2>1, <1>o, <1>e, <1>f, <1>t DEF Less
<1> HIDE DEF Exact
<1> USE DEF L, C
<1> USE DEF Goto, Reserving, Undoing, Dropping, LiveNames, HoldAccount, OweAccount
<1>1. ASSUME NEW r \in Regs, ReserveGlobal(r) PROVE Exact'
  <2>1. PICK q \in Requests : req' = [req EXCEPT ![r] = q]
                              /\ pc' = [pc EXCEPT ![r] = AfterGlobal(q)] /\ pc[r] = "idle"
    BY <1>1 DEF ReserveGlobal
  <2>2. \/ AfterGlobal(q) \in {"account", "rate"}
        \/ AfterGlobal(q) = "name" /\ q.account \notin Accounts /\ q.ip \notin IPs
    BY RequestType, ManagerAssumption DEF AfterGlobal
  <2>3. HoldAccount(a)' = HoldAccount(a)
    BY <2>1, <2>2, <1>t DEF Dropping
  <2>4. L' = L /\ OweAccount(a)' = OweAccount(a) /\ C' = C
    BY <1>1, <2>1, <2>2, <1>t DEF ReserveGlobal
  <2>5. QED
    BY <2>3, <2>4, <1>s
<1>2. ASSUME NEW r \in Regs, ReserveAccount(r) PROVE Exact'
  <2>1. CASE req[r].account = a /\ ~AccountFull(a)
    <3>1. HoldAccount(a)' = HoldAccount(a) \cup {r} /\ r \notin HoldAccount(a)
      BY <1>2, <2>1, <1>t DEF ReserveAccount
    <3>2. L' = L /\ OweAccount(a)' = OweAccount(a) /\ C' = C + 1
      BY <1>2, <2>1, <1>t DEF ReserveAccount
    <3>3. QED
      BY <3>1, <3>2, <1>u
  <2>2. CASE ~(req[r].account = a /\ ~AccountFull(a))
    BY <1>2, <2>2, <1>t, <1>s DEF ReserveAccount, C, L
  <2>3. QED
    BY <2>1, <2>2
<1>3. ASSUME NEW r \in Regs, CheckAndIncrement(r) PROVE Exact'
  BY <1>3, <1>t, <1>s DEF CheckAndIncrement, tables, C, L
<1>4. ASSUME NEW r \in Regs, ReserveIP(r) PROVE Exact'
  BY <1>4, <1>t, <1>s, RequestType DEF ReserveIP, StageInv, WeakType, Identified, C, L
<1>5. ASSUME NEW r \in Regs, ClaimName(r) PROVE Exact'
  <2>1. PICK n \in Names : registerSubdomain(r, n)
    BY <1>5, RequestType DEF ClaimName, Usable, WeakType, StageInv
  <2> DEFINE t == [reg |-> r, ip |-> req[r].ip, account |-> req[r].account]
  <2>2. t # None /\ t.account = req[r].account /\ t.ip = req[r].ip /\ req[r] \in Requests
    BY <1>5, RequestType, TunnelType DEF ClaimName, Tunnels, StageInv
  <2> HIDE DEF t
  <2>3. tunnels' = [tunnels EXCEPT ![n] = t] /\ tunnels[n] = None
    BY <2>1 DEF registerSubdomain, t
  <2>4. OweAccount(a)' = OweAccount(a) /\ C' = C
    BY <1>5, <1>t DEF ClaimName, tables
  <2>5. CASE req[r].account = a
    <3>1. HoldAccount(a)' = HoldAccount(a) \ {r} /\ r \in HoldAccount(a)
      BY <1>5, <1>t, <2>2, <2>5 DEF ClaimName
    <3>2. L' = L \cup {n} /\ n \notin L
      BY <2>2, <2>3, <2>5, <1>t
    <3>3. Cardinality(L') = Cardinality(L) + 1
      BY <3>2, <1>f, Grow
    <3>4. Cardinality(HoldAccount(a)') = Cardinality(HoldAccount(a)) - 1
      BY <3>1, <1>f, Shrink
    <3> HIDE DEF L, C, HoldAccount, OweAccount
    <3>5. QED
      BY <2>4, <3>3, <3>4, <1>e, <1>f, <1>t DEF Exact
  <2>6. CASE req[r].account # a
    <3>1. HoldAccount(a)' = HoldAccount(a)
      BY <1>5, <1>t, <2>6 DEF ClaimName
    <3>2. L' = L
      BY <2>2, <2>3, <2>6, <1>t
    <3>3. QED
      BY <2>4, <3>1, <3>2, <1>s
  <2>7. QED
    BY <2>5, <2>6
<1>6. ASSUME NEW r \in Regs, NameRefused(r) PROVE Exact'
  <2>1. req[r] \in Requests
    BY <1>6 DEF NameRefused, StageInv
  <2>2. HoldAccount(a)' = HoldAccount(a)
    BY <1>6, <1>t, <2>1, RequestType, ManagerAssumption DEF NameRefused, FirstUndo, Identified
  <2>3. QED
    BY <1>6, <1>t, <2>2, <1>s DEF NameRefused, FirstUndo, tables, C, L
<1>7. ASSUME NEW r \in Regs, rollbackRateLimit(r) PROVE Exact'
  BY <1>7, <1>t, <1>s DEF rollbackRateLimit, tables, C, L
<1>8. ASSUME NEW r \in Regs, rollbackPerIP(r) PROVE Exact'
  BY <1>8, <1>t, <1>s DEF rollbackPerIP, C, L
<1>9. ASSUME NEW r \in Regs, rollbackPerAccount(r) PROVE Exact'
  <2>1. CASE req[r].account = a
    <3>1. HoldAccount(a)' = HoldAccount(a) \ {r} /\ r \in HoldAccount(a)
      BY <1>9, <2>1, <1>t DEF rollbackPerAccount
    <3>2. L' = L /\ OweAccount(a)' = OweAccount(a) /\ C' = Less(C)
      BY <1>9, <2>1, <1>t DEF rollbackPerAccount
    <3>3. QED
      BY <3>1, <3>2, <1>h
  <2>2. CASE req[r].account # a
    BY <1>9, <2>2, <1>t, <1>s DEF rollbackPerAccount, C, L
  <2>3. QED
    BY <2>1, <2>2
<1>10. ASSUME NEW r \in Regs, rollbackGlobal(r) PROVE Exact'
  BY <1>10, <1>t, <1>s DEF rollbackGlobal, Refuse, C, L
<1>11. ASSUME NEW p \in Procs, NEW n \in Names, RemoveTunnel(p, n),
              pc[p] \in {"live", "sweep"}, C' = C
       PROVE Exact'
  <2>1. CASE tunnels[n] = None
    BY <1>11, <2>1, <1>t, <1>s DEF RemoveTunnel, Finish, Returned, L
  <2>2. CASE tunnels[n] # None
    <3>0. HoldAccount(a)' = HoldAccount(a)
      BY <1>11, <2>2, <1>t DEF RemoveTunnel
    <3>1. CASE tunnels[n].account = a
      <4>1. L' = L \ {n} /\ n \in L
        BY <1>11, <2>2, <3>1, <1>t DEF RemoveTunnel
      <4>2. OweAccount(a)' = OweAccount(a) \cup {p} /\ p \notin OweAccount(a)
        BY <1>11, <2>2, <3>1, <1>t DEF RemoveTunnel
      <4>3. Cardinality(L') = Cardinality(L) - 1
        BY <4>1, <1>f, Shrink
      <4>4. Cardinality(OweAccount(a)') = Cardinality(OweAccount(a)) + 1
        BY <4>2, <1>f, Grow
      <4> HIDE DEF L, C, HoldAccount, OweAccount
      <4>5. QED
        BY <3>0, <4>3, <4>4, <1>11, <1>e, <1>f, <1>t DEF Exact
    <3>2. CASE tunnels[n].account # a
      <4>1. L' = L
        BY <1>11, <2>2, <3>2, <1>t DEF RemoveTunnel
      <4>2. OweAccount(a)' = OweAccount(a)
        BY <1>11, <2>2, <3>2, <1>t DEF RemoveTunnel
      <4>3. QED
        BY <3>0, <4>1, <4>2, <1>11, <1>s
    <3>3. QED
      BY <3>1, <3>2
  <2>3. QED
    BY <2>1, <2>2
<1>12. ASSUME NEW r \in Regs, CloseConnection(r) PROVE Exact'
  BY <1>12, <1>11, <1>t DEF CloseConnection, tables, StageInv, C
<1>13. ASSUME SweepStale PROVE Exact'
  BY <1>13, <1>11, <1>t DEF SweepStale, tables, WeakType, Procs, C
<1>14. ASSUME NEW p \in Procs, DropCount(p) PROVE Exact'
  <2>1. OweAccount(a)' = OweAccount(a)
    BY <1>14, <1>t, ManagerAssumption DEF DropCount, Finish, Returned
  <2>2. QED
    BY <1>14, <2>1, <1>t, <1>s DEF DropCount, Finish, Returned, C, L
<1>15. ASSUME NEW p \in Procs, DropAccount(p) PROVE Exact'
  <2>1. L' = L /\ HoldAccount(a)' = HoldAccount(a)
    BY <1>15, <1>t DEF DropAccount, Finish, Returned
  <2>2. CASE owed[p].account = a
    <3>1. OweAccount(a)' = OweAccount(a) \ {p} /\ p \in OweAccount(a)
      BY <1>15, <2>2, <1>t DEF DropAccount, Finish, Returned
    <3>2. C' = Less(C)
      BY <1>15, <2>2, <1>t DEF DropAccount
    <3>3. QED
      BY <2>1, <3>1, <3>2, <1>o
  <2>3. CASE owed[p].account # a
    <3>1. OweAccount(a)' = OweAccount(a)
      BY <1>15, <2>3, <1>t DEF DropAccount, Finish, Returned
    <3>2. C' = C
      BY <1>15, <2>3, <1>t DEF DropAccount
    <3>3. QED
      BY <2>1, <3>1, <3>2, <1>s
  <2>4. QED
    BY <2>2, <2>3
<1>16. ASSUME NEW p \in Procs, DropIP(p) PROVE Exact'
  BY <1>16, <1>t, <1>s DEF DropIP, Finish, Returned, C, L
<1>17. ASSUME CollectStale PROVE Exact'
  BY <1>17, <1>t, <1>s DEF CollectStale, tables, C, L
<1>18. ASSUME CleanupRateLimits PROVE Exact'
  BY <1>18, <1>t, <1>s DEF CleanupRateLimits, tables, C, L
<1>19. ASSUME NEW i \in IPs, WindowEnds(i) PROVE Exact'
  BY <1>19, <1>t, <1>s DEF WindowEnds, tables, C, L
<1>20. ASSUME UNCHANGED vars PROVE Exact'
  BY <1>20, <1>t, <1>s DEF vars, tables, C, L
<1>21. Exact'
  BY <1>1, <1>2, <1>3, <1>4, <1>5, <1>6, <1>7, <1>8, <1>9, <1>10, <1>12, <1>13, <1>14,
     <1>15, <1>16, <1>17, <1>18, <1>19, <1>20
  DEF Next, RegisterOwned, Drop, CleanupStale
<1>22. QED
  BY <1>21 DEF Exact

----------------------------------------------------------------------------
(* The counter of an address that identified clients do not use. There an  *)
(* Unregister takes off what a RegisterOwned put on.                       *)

LEMMA IPStep ==
  WeakType /\ StageInv /\ IPCountExact /\ [Next]_vars => IPCountExact'
<1> SUFFICES ASSUME WeakType, StageInv, IPCountExact, [Next]_vars, NEW ip \in UnmixedIPs
             PROVE (tunnelsByIP[ip] =
                      Cardinality({n \in LiveNames : tunnels[n].ip = ip})
                        + Cardinality(HoldIP(ip)) + Cardinality(OweIP(ip)))'
  BY DEF IPCountExact, UnmixedIPs
<1> DEFINE L == {n \in LiveNames : tunnels[n].ip = ip}
           C == tunnelsByIP[ip]
           Exact == C = Cardinality(L) + Cardinality(HoldIP(ip)) + Cardinality(OweIP(ip))
<1>e. Exact
  BY DEF IPCountExact
<1>t. /\ pc \in [Procs -> Stages] /\ Regs \subseteq Procs
      /\ tunnelsByIP \in [IPs -> 0..MaxTunnelsPerIP] /\ tunnels \in [Names -> Tunnels \cup {None}]
      /\ req \in [Regs -> Requests \cup {None}] /\ owed \in [Procs -> Tunnels \cup {None}]
      /\ C \in Nat
  BY ManagerAssumption DEF WeakType, Procs, UnmixedIPs
<1>f. /\ IsFiniteSet(L) /\ Cardinality(L) \in Nat
      /\ IsFiniteSet(HoldIP(ip)) /\ Cardinality(HoldIP(ip)) \in Nat
      /\ IsFiniteSet(OweIP(ip)) /\ Cardinality(OweIP(ip)) \in Nat
  BY Finite
<1> HIDE DEF L, C
<1>s. ASSUME L' = L, HoldIP(ip)' = HoldIP(ip), OweIP(ip)' = OweIP(ip), C' = C
      PROVE Exact'
  BY <1>s, <1>e
<1>u. ASSUME NEW x, HoldIP(ip)' = HoldIP(ip) \cup {x}, x \notin HoldIP(ip), L' = L,
             OweIP(ip)' = OweIP(ip), C' = C + 1
      PROVE Exact'
  <2>1. Cardinality(HoldIP(ip)') = Cardinality(HoldIP(ip)) + 1
    BY <1>u, <1>f, Grow
  <2>2. QED
    BY <2>1, <1>u, <1>e, <1>f, <1>t
<1>h. ASSUME NEW x, HoldIP(ip)' = HoldIP(ip) \ {x}, x \in HoldIP(ip), L' = L,
             OweIP(ip)' = OweIP(ip), C' = Less(C)
      PROVE Exact'
  <2>1. Cardinality(HoldIP(ip)') = Cardinality(HoldIP(ip)) - 1 /\ Cardinality(HoldIP(ip)) >= 1
    BY <1>h, <1>f, Shrink
  <2>2. QED
    BY <2>1, <1>h, <1>e, <1>f, <1>t DEF Less
<1>o. ASSUME NEW x, OweIP(ip)' = OweIP(ip) \ {x}, x \in OweIP(ip), L' = L,
             HoldIP(ip)' = HoldIP(ip), C' = Less(C)
      PROVE Exact'
  <2>1. Cardinality(OweIP(ip)') = Cardinality(OweIP(ip)) - 1 /\ Cardinality(OweIP(ip)) >= 1
    BY <1>o, <1>f, Shrink
  <2>2. QED
    BY <2>1, <1>o, <1>e, <1>f, <1>t DEF Less
<1> HIDE DEF Exact
<1> USE DEF L, C
<1> USE DEF Goto, Reserving, Undoing, Dropping, LiveNames, HoldIP, OweIP
<1>1. ASSUME NEW r \in Regs, ReserveGlobal(r) PROVE Exact'
  <2>1. PICK q \in Requests : req' = [req EXCEPT ![r] = q]
                              /\ pc' = [pc EXCEPT ![r] = AfterGlobal(q)] /\ pc[r] = "idle"
    BY <1>1 DEF ReserveGlobal
  <2>2. \/ AfterGlobal(q) \in {"account", "rate"}
        \/ AfterGlobal(q) = "name" /\ q.account \notin Accounts /\ q.ip \notin IPs
    BY RequestType, ManagerAssumption DEF AfterGlobal
  <2>3. HoldIP(ip)' = HoldIP(ip)
    BY <2>1, <2>2, <1>t, ManagerAssumption DEF Dropping, UnmixedIPs
  <2>4. L' = L /\ OweIP(ip)' = OweIP(ip) /\ C' = C
    BY <1>1, <2>1, <2>2, <1>t DEF ReserveGlobal
  <2>5. QED
    BY <2>3, <2>4, <1>s
<1>2. ASSUME NEW r \in Regs, ReserveAccount(r) PROVE Exact'
  BY <1>2, <1>t, <1>s, RequestType DEF ReserveAccount, StageInv, WeakType, UnmixedIPs, C, L
<1>3. ASSUME NEW r \in Regs, CheckAndIncrement(r) PROVE Exact'
  BY <1>3, <1>t, <1>s DEF CheckAndIncrement, tables, C, L
<1>4. ASSUME NEW r \in Regs, ReserveIP(r) PROVE Exact'
  <2>1. CASE req[r].ip = ip /\ tunnelsByIP[ip] < MaxTunnelsPerIP
    <3>0. /\ tunnelsByIP' = [tunnelsByIP EXCEPT ![ip] = @ + 1]
          /\ pc' = [pc EXCEPT ![r] = "name"] /\ pc[r] = "ip" /\ ~Identified(req[r])
          /\ UNCHANGED <<req, tunnels, owed>> /\ ip \in IPs
      BY <1>4, <2>1, ManagerAssumption DEF ReserveIP, StageInv, WeakType, UnmixedIPs
    <3>1. HoldIP(ip)' = HoldIP(ip) \cup {r} /\ r \notin HoldIP(ip)
      BY <3>0, <2>1, <1>t
    <3>2. L' = L /\ OweIP(ip)' = OweIP(ip) /\ C' = C + 1
      BY <3>0, <2>1, <1>t
    <3>3. QED
      BY <3>1, <3>2, <1>u
  <2>2. CASE ~(req[r].ip = ip /\ tunnelsByIP[ip] < MaxTunnelsPerIP)
    BY <1>4, <2>2, <1>t, <1>s, ManagerAssumption DEF ReserveIP, C, L, UnmixedIPs
  <2>3. QED
    BY <2>1, <2>2
<1>5. ASSUME NEW r \in Regs, ClaimName(r) PROVE Exact'
  <2>1. PICK n \in Names : registerSubdomain(r, n)
    BY <1>5, RequestType DEF ClaimName, Usable, WeakType, StageInv
  <2> DEFINE t == [reg |-> r, ip |-> req[r].ip, account |-> req[r].account]
  <2>2. t # None /\ t.account = req[r].account /\ t.ip = req[r].ip /\ req[r] \in Requests
    BY <1>5, RequestType, TunnelType DEF ClaimName, Tunnels, StageInv
  <2> HIDE DEF t
  <2>3. tunnels' = [tunnels EXCEPT ![n] = t] /\ tunnels[n] = None
    BY <2>1 DEF registerSubdomain, t
  <2>4. OweIP(ip)' = OweIP(ip) /\ C' = C
    BY <1>5, <1>t DEF ClaimName, tables
  <2>5. CASE req[r].ip = ip
    <3>1. HoldIP(ip)' = HoldIP(ip) \ {r} /\ r \in HoldIP(ip)
      BY <1>5, <1>t, <2>2, <2>5 DEF ClaimName, UnmixedIPs
    <3>2. L' = L \cup {n} /\ n \notin L
      BY <2>2, <2>3, <2>5, <1>t
    <3>3. Cardinality(L') = Cardinality(L) + 1
      BY <3>2, <1>f, Grow
    <3>4. Cardinality(HoldIP(ip)') = Cardinality(HoldIP(ip)) - 1
      BY <3>1, <1>f, Shrink
    <3> HIDE DEF L, C, HoldIP, OweIP
    <3>5. QED
      BY <2>4, <3>3, <3>4, <1>e, <1>f, <1>t DEF Exact
  <2>6. CASE req[r].ip # ip
    <3>1. HoldIP(ip)' = HoldIP(ip)
      BY <1>5, <1>t, <2>6 DEF ClaimName
    <3>2. L' = L
      BY <2>2, <2>3, <2>6, <1>t
    <3>3. QED
      BY <2>4, <3>1, <3>2, <1>s
  <2>7. QED
    BY <2>5, <2>6
<1>6. ASSUME NEW r \in Regs, NameRefused(r) PROVE Exact'
  <2>1. req[r] \in Requests
    BY <1>6 DEF NameRefused, StageInv
  <2>2. HoldIP(ip)' = HoldIP(ip)
    BY <1>6, <1>t, <2>1, RequestType, ManagerAssumption DEF NameRefused, FirstUndo, Identified, UnmixedIPs
  <2>3. QED
    BY <1>6, <1>t, <2>2, <1>s DEF NameRefused, FirstUndo, tables, C, L
<1>7. ASSUME NEW r \in Regs, rollbackRateLimit(r) PROVE Exact'
  BY <1>7, <1>t, <1>s DEF rollbackRateLimit, tables, C, L
<1>8. ASSUME NEW r \in Regs, rollbackPerIP(r) PROVE Exact'
  <2>1. CASE req[r].ip = ip
    <3>1. HoldIP(ip)' = HoldIP(ip) \ {r} /\ r \in HoldIP(ip)
      <4>1. req[r] \in Requests /\ ~Identified(req[r])
        BY <1>8, <2>1 DEF rollbackPerIP, StageInv, UnmixedIPs
      <4>2. QED
        BY <1>8, <2>1, <4>1, <1>t DEF rollbackPerIP
    <3>2. L' = L /\ OweIP(ip)' = OweIP(ip) /\ C' = Less(C)
      BY <1>8, <2>1, <1>t DEF rollbackPerIP, UnmixedIPs
    <3>3. QED
      BY <3>1, <3>2, <1>h
  <2>2. CASE req[r].ip # ip
    BY <1>8, <2>2, <1>t, <1>s DEF rollbackPerIP, C, L, UnmixedIPs
  <2>3. QED
    BY <2>1, <2>2
<1>9. ASSUME NEW r \in Regs, rollbackPerAccount(r) PROVE Exact'
  BY <1>9, <1>t, <1>s DEF rollbackPerAccount, C, L
<1>10. ASSUME NEW r \in Regs, rollbackGlobal(r) PROVE Exact'
  BY <1>10, <1>t, <1>s DEF rollbackGlobal, Refuse, C, L
<1>11. ASSUME NEW p \in Procs, NEW n \in Names, RemoveTunnel(p, n),
              pc[p] \in {"live", "sweep"}, C' = C
       PROVE Exact'
  <2>1. CASE tunnels[n] = None
    BY <1>11, <2>1, <1>t, <1>s DEF RemoveTunnel, Finish, Returned, L
  <2>2. CASE tunnels[n] # None
    <3>0. HoldIP(ip)' = HoldIP(ip)
      BY <1>11, <2>2, <1>t DEF RemoveTunnel
    <3>1. CASE tunnels[n].ip = ip
      <4>1. L' = L \ {n} /\ n \in L
        BY <1>11, <2>2, <3>1, <1>t DEF RemoveTunnel
      <4>2. OweIP(ip)' = OweIP(ip) \cup {p} /\ p \notin OweIP(ip)
        BY <1>11, <2>2, <3>1, <1>t DEF RemoveTunnel
      <4>3. Cardinality(L') = Cardinality(L) - 1
        BY <4>1, <1>f, Shrink
      <4>4. Cardinality(OweIP(ip)') = Cardinality(OweIP(ip)) + 1
        BY <4>2, <1>f, Grow
      <4> HIDE DEF L, C, HoldIP, OweIP
      <4>5. QED
        BY <3>0, <4>3, <4>4, <1>11, <1>e, <1>f, <1>t DEF Exact
    <3>2. CASE tunnels[n].ip # ip
      <4>1. L' = L
        BY <1>11, <2>2, <3>2, <1>t DEF RemoveTunnel
      <4>2. OweIP(ip)' = OweIP(ip)
        BY <1>11, <2>2, <3>2, <1>t DEF RemoveTunnel
      <4>3. QED
        BY <3>0, <4>1, <4>2, <1>11, <1>s
    <3>3. QED
      BY <3>1, <3>2
  <2>3. QED
    BY <2>1, <2>2
<1>12. ASSUME NEW r \in Regs, CloseConnection(r) PROVE Exact'
  BY <1>12, <1>11, <1>t DEF CloseConnection, tables, StageInv, C
<1>13. ASSUME SweepStale PROVE Exact'
  BY <1>13, <1>11, <1>t DEF SweepStale, tables, WeakType, Procs, C
<1>14. ASSUME NEW p \in Procs, DropCount(p) PROVE Exact'
  <2>1. OweIP(ip)' = OweIP(ip)
    BY <1>14, <1>t, ManagerAssumption DEF DropCount, Finish, Returned, UnmixedIPs
  <2>2. QED
    BY <1>14, <2>1, <1>t, <1>s DEF DropCount, Finish, Returned, C, L
<1>15. ASSUME NEW p \in Procs, DropAccount(p) PROVE Exact'
  <2>1. OweIP(ip)' = OweIP(ip)
    BY <1>15, <1>t, ManagerAssumption DEF DropAccount, Finish, Returned, UnmixedIPs
  <2>2. QED
    BY <1>15, <2>1, <1>t, <1>s DEF DropAccount, Finish, Returned, C, L
<1>16. ASSUME NEW p \in Procs, DropIP(p) PROVE Exact'
  <2>1. L' = L /\ HoldIP(ip)' = HoldIP(ip)
    BY <1>16, <1>t DEF DropIP, Finish, Returned
  <2>2. CASE owed[p].ip = ip
    <3>1. OweIP(ip)' = OweIP(ip) \ {p} /\ p \in OweIP(ip)
      BY <1>16, <2>2, <1>t DEF DropIP, Finish, Returned
    <3>2. C' = Less(C)
      BY <1>16, <2>2, <1>t DEF DropIP, UnmixedIPs
    <3>3. QED
      BY <2>1, <3>1, <3>2, <1>o
  <2>3. CASE owed[p].ip # ip
    <3>1. OweIP(ip)' = OweIP(ip)
      BY <1>16, <2>3, <1>t DEF DropIP, Finish, Returned
    <3>2. C' = C
      BY <1>16, <2>3, <1>t DEF DropIP, UnmixedIPs
    <3>3. QED
      BY <2>1, <3>1, <3>2, <1>s
  <2>4. QED
    BY <2>2, <2>3
<1>17. ASSUME CollectStale PROVE Exact'
  BY <1>17, <1>t, <1>s DEF CollectStale, tables, C, L
<1>18. ASSUME CleanupRateLimits PROVE Exact'
  BY <1>18, <1>t, <1>s DEF CleanupRateLimits, tables, C, L
<1>19. ASSUME NEW i \in IPs, WindowEnds(i) PROVE Exact'
  BY <1>19, <1>t, <1>s DEF WindowEnds, tables, C, L
<1>20. ASSUME UNCHANGED vars PROVE Exact'
  BY <1>20, <1>t, <1>s DEF vars, tables, C, L
<1>21. Exact'
  BY <1>1, <1>2, <1>3, <1>4, <1>5, <1>6, <1>7, <1>8, <1>9, <1>10, <1>12, <1>13, <1>14,
     <1>15, <1>16, <1>17, <1>18, <1>19, <1>20
  DEF Next, RegisterOwned, Drop, CleanupStale
<1>22. QED
  BY <1>21 DEF Exact

----------------------------------------------------------------------------
(* The limits are tested in the step that takes the slot, and a slot given *)
(* back only makes room.                                                   *)
LEMMA CapsStep == WeakType /\ StageInv /\ Caps /\ [Next]_vars => Caps'
<1> SUFFICES ASSUME WeakType, StageInv, Caps, [Next]_vars PROVE Caps'
  OBVIOUS
<1>t. /\ tunnelCount \in Int /\ MaxTunnels \in Nat /\ AccountMax \in [Accounts -> Nat]
      /\ tunnelsByAccount \in [Accounts -> Nat]
  BY ManagerAssumption DEF WeakType
<1> USE DEF Caps
<1>1. ASSUME UNCHANGED <<tunnelCount, tunnelsByAccount>> PROVE Caps'
  BY <1>1
<1>2. ASSUME NEW r \in Regs, ReserveGlobal(r) PROVE Caps'
  BY <1>2, <1>t DEF ReserveGlobal
<1>3. ASSUME NEW r \in Regs, ReserveAccount(r) PROVE Caps'
  BY <1>3, <1>t DEF ReserveAccount, AccountFull
<1>4. ASSUME tunnelCount' = tunnelCount - 1, UNCHANGED tunnelsByAccount PROVE Caps'
  BY <1>4, <1>t
<1>5. ASSUME NEW b, tunnelsByAccount' = [tunnelsByAccount EXCEPT ![b] = Less(@)],
             UNCHANGED tunnelCount
      PROVE Caps'
  BY <1>5, <1>t DEF Less
<1>6. ASSUME NEW r \in Regs, RegisterOwned(r) PROVE Caps'
  BY <1>6, <1>1, <1>2, <1>3, <1>4, <1>5
  DEF RegisterOwned, CheckAndIncrement, ReserveIP, ClaimName, NameRefused,
      rollbackRateLimit, rollbackPerIP, rollbackPerAccount, rollbackGlobal, tables
<1>7. ASSUME NEW p \in Procs, Drop(p) PROVE Caps'
  BY <1>7, <1>1, <1>4, <1>5 DEF Drop, DropCount, DropAccount, DropIP
<1>8. QED
  BY <1>1, <1>6, <1>7
  DEF Next, CloseConnection, CleanupStale, CollectStale, SweepStale, CleanupRateLimits,
      WindowEnds, vars, tables

(* IInv holds in every reachable state.                                    *)
THEOREM Inductive == Spec => []IInv
<1>1. Init => IInv
  BY TypeInit, ExactInit DEF IInv
<1>2. IInv /\ [Next]_vars => IInv'
  BY TypeStep, GlobalStep, AccountStep, IPStep, CapsStep DEF IInv
<1>3. QED
  BY <1>1, <1>2, PTL DEF Spec

(* The global counter never drifts from the tunnels it counts: whatever    *)
(* registration fails half way and however often a tunnel is unregistered, *)
(* RegisterOwned and Unregister keep it exact.                             *)
THEOREM GlobalCountCorrect == Spec => []GlobalCountExact
<1>1. IInv => GlobalCountExact
  BY DEF IInv
<1>2. QED
  BY <1>1, Inductive, PTL

(* The same of every account's counter.                                    *)
THEOREM AccountCountCorrect == Spec => []AccountCountExact
<1>1. IInv => AccountCountExact
  BY DEF IInv
<1>2. QED
  BY <1>1, Inductive, PTL

(* The same of every address no identified client shares: the condition    *)
(* under which Unregister takes off the table what RegisterOwned put on.   *)
THEOREM IPCountCorrect == Spec => []IPCountExact
<1>1. IInv => IPCountExact
  BY DEF IInv
<1>2. QED
  BY <1>1, Inductive, PTL

(* All three counters at once, of the manager as it runs.                  *)
THEOREM CountsCorrect == Spec => []CountsExact
<1>1. IInv => CountsExact
  BY DEF IInv, CountsExact
<1>2. QED
  BY <1>1, Inductive, PTL

----------------------------------------------------------------------------
(* The rate limiter's variables have a type of their own; nothing the      *)
(* other invariants say depends on them.                                   *)
RateType ==
  /\ rateLimits \in [IPs -> [count: Nat, open: BOOLEAN]]
  /\ granted \in [IPs -> Nat]
  /\ cleanup \in BOOLEAN

LEMMA RateStep == WeakType /\ StageInv /\ RateType /\ [Next]_vars => RateType'
<1> SUFFICES ASSUME WeakType, StageInv, RateType, [Next]_vars PROVE RateType'
  OBVIOUS
<1> USE DEF RateType
<1>1. ASSUME UNCHANGED <<rateLimits, granted, cleanup>> PROVE RateType'
  BY <1>1
<1>2. ASSUME NEW r \in Regs, CheckAndIncrement(r) PROVE RateType'
  <2>1. req[r].ip \in IPs
    BY <1>2, RequestType DEF CheckAndIncrement, StageInv, Reserving
  <2>2. rateLimits[req[r].ip] \in [count: Nat, open: BOOLEAN]
    BY <2>1
  <2> DEFINE Entries == [count: Nat, open: BOOLEAN]
             more == [rateLimits[req[r].ip] EXCEPT !.count = @ + 1]
  <2>6. [count |-> 1, open |-> TRUE] \in Entries /\ more \in Entries
    BY <2>2
  <2>7. \/ rateLimits' = rateLimits
        \/ rateLimits' = [rateLimits EXCEPT ![req[r].ip] = [count |-> 1, open |-> TRUE]]
        \/ rateLimits' = [rateLimits EXCEPT ![req[r].ip] = more]
    BY <1>2 DEF CheckAndIncrement
  <2> HIDE DEF more
  <2>3. rateLimits' \in [IPs -> Entries]
    BY <2>1, <2>6, <2>7
  <2>4. granted' \in [IPs -> Nat] /\ cleanup' \in BOOLEAN
    BY <1>2, <2>1 DEF CheckAndIncrement
  <2>5. QED
    BY <2>3, <2>4
<1>3. ASSUME NEW r \in Regs, ClaimName(r) PROVE RateType'
  <2>1. req[r].ip # NoIP => req[r].ip \in IPs
    BY <1>3, RequestType DEF ClaimName, StageInv, Reserving
  <2>2. granted' \in [IPs -> Nat]
    BY <1>3, <2>1 DEF ClaimName
  <2>3. QED
    BY <1>3, <2>2 DEF ClaimName
<1>4. ASSUME NEW r \in Regs, rollbackRateLimit(r) PROVE RateType'
  <2>1. req[r].ip \in IPs
    BY <1>4, RequestType DEF rollbackRateLimit, StageInv, Undoing
  <2> DEFINE Entries == [count: Nat, open: BOOLEAN]
             e == rateLimits[req[r].ip]
             less == [e EXCEPT !.count = @ - 1]
  <2>2. e \in Entries /\ Absent \in Entries
    BY <2>1 DEF Absent
  <2>3. e.count > 1 => less \in Entries
    BY <2>2
  <2>4. \/ e.count <= 1 /\ rateLimits' = [rateLimits EXCEPT ![req[r].ip] = Absent]
        \/ ~(e.count <= 1) /\ rateLimits' = [rateLimits EXCEPT ![req[r].ip] = less]
    BY <1>4 DEF rollbackRateLimit, Decrement
  <2>5. e.count \in Nat
    BY <2>2
  <2> HIDE DEF less, e
  <2>6. rateLimits' \in [IPs -> Entries]
    BY <2>1, <2>2, <2>3, <2>4, <2>5
  <2>7. QED
    BY <1>4, <2>6 DEF rollbackRateLimit
<1>5. CASE CleanupRateLimits
  BY <1>5 DEF CleanupRateLimits, Absent
<1>6. ASSUME NEW ip \in IPs, WindowEnds(ip) PROVE RateType'
  BY <1>6 DEF WindowEnds
<1>7. ASSUME NEW r \in Regs, RegisterOwned(r) PROVE RateType'
  BY <1>7, <1>1, <1>2, <1>3, <1>4
  DEF RegisterOwned, ReserveGlobal, ReserveAccount, ReserveIP, NameRefused, rollbackPerIP,
      rollbackPerAccount, rollbackGlobal
<1>8. ASSUME NEW p \in Procs, Drop(p) PROVE RateType'
  BY <1>8, <1>1 DEF Drop, DropCount, DropAccount, DropIP
<1>9. QED
  BY <1>1, <1>5, <1>6, <1>7, <1>8
  DEF Next, CloseConnection, CleanupStale, CollectStale, SweepStale, vars

(* Type correctness. That tunnelCount is never negative is not a type: it  *)
(* follows from the exact count.                                           *)
THEOREM TypeCorrect == Spec => []TypeOK
<1>1. Init => RateType
  BY DEF Init, RateType, Absent
<1>2. IInv /\ RateType /\ [Next]_vars => RateType'
  BY RateStep DEF IInv
<1>3. IInv /\ RateType => TypeOK
  <2> SUFFICES ASSUME IInv, RateType PROVE TypeOK
    OBVIOUS
  <2>1. tunnelCount >= 0
    BY Finite DEF IInv, GlobalCountExact
  <2>2. tunnelCount \in 0..MaxTunnels
    BY <2>1, ManagerAssumption DEF IInv, WeakType, Caps
  <2>3. QED
    BY <2>2 DEF IInv, WeakType, RateType, TypeOK
<1>4. QED
  BY <1>1, <1>2, <1>3, Inductive, PTL DEF Spec

----------------------------------------------------------------------------
(* The manager implements TunnelRegistry. The step to look at is ClaimName: *)
(* the limits were tested long before the name is claimed, and still hold  *)
(* for the map alone because the slot taken then is in the count now.      *)

LEMMA ClaimRefines ==
  ASSUME IInv, NEW r \in Regs, ClaimName(r)
  PROVE \E n \in Names : tunnels'[n] \in Tunnels /\ Registry!Register(n, tunnels'[n])
<1>1. PICK n \in Names : registerSubdomain(r, n)
  BY RequestType DEF ClaimName, Usable, IInv, StageInv, Reserving
<1> DEFINE t == [reg |-> r, ip |-> req[r].ip, account |-> req[r].account]
<1>2. req[r] \in Requests /\ pc[r] = "name"
  BY DEF ClaimName, IInv, StageInv, Reserving
<1>3. t \in Tunnels /\ t.account = req[r].account /\ t.ip = req[r].ip
  BY <1>2, RequestType DEF Tunnels
<1> HIDE DEF t
<1>4. tunnels[n] = None /\ tunnels' = [tunnels EXCEPT ![n] = t] /\ tunnels'[n] = t
  BY <1>1 DEF registerSubdomain, IInv, WeakType, t
<1>5. Cardinality(LiveNames) < MaxTunnels
  <2>1. r \in HoldGlobal
    BY <1>2 DEF HoldGlobal, Reserving
  <2>2. Cardinality(HoldGlobal) >= 1
    BY <2>1, Finite, Shrink
  <2>3. QED
    BY <2>2, Finite, ManagerAssumption DEF IInv, WeakType, Caps, GlobalCountExact
<1>6. ASSUME t.account \in Accounts, AccountMax[t.account] > 0
      PROVE Cardinality({m \in LiveNames : tunnels[m].account = t.account})
              < AccountMax[t.account]
  <2> DEFINE a == t.account
             L == {m \in LiveNames : tunnels[m].account = a}
  <2>1. Cardinality(L) \in Nat /\ Cardinality(OweAccount(a)) \in Nat
        /\ IsFiniteSet(HoldAccount(a)) /\ Cardinality(HoldAccount(a)) \in Nat
    BY Finite
  <2>2. r \in HoldAccount(a)
    BY <1>2, <1>3 DEF HoldAccount
  <2>3. Cardinality(HoldAccount(a)) >= 1
    BY <2>1, <2>2, Shrink
  <2>4. tunnelsByAccount[a] =
          Cardinality(L) + Cardinality(HoldAccount(a)) + Cardinality(OweAccount(a))
    BY <1>6 DEF IInv, AccountCountExact
  <2>5. tunnelsByAccount[a] <= AccountMax[a] /\ AccountMax[a] \in Nat
    BY <1>6, ManagerAssumption DEF IInv, Caps
  <2> HIDE DEF L, a
  <2>6. Cardinality(L) < AccountMax[a]
    BY <2>1, <2>3, <2>4, <2>5
  <2>7. QED
    BY <2>6 DEF L, a
<1>7. ASSUME t.ip \in UnmixedIPs
      PROVE Cardinality({m \in LiveNames : tunnels[m].ip = t.ip}) < MaxTunnelsPerIP
  <2> DEFINE i == t.ip
             L == {m \in LiveNames : tunnels[m].ip = i}
  <2>1. Cardinality(L) \in Nat /\ Cardinality(OweIP(i)) \in Nat
        /\ IsFiniteSet(HoldIP(i)) /\ Cardinality(HoldIP(i)) \in Nat
    BY Finite
  <2>2. r \in HoldIP(i)
    BY <1>2, <1>3, <1>7 DEF HoldIP, UnmixedIPs
  <2>3. Cardinality(HoldIP(i)) >= 1
    BY <2>1, <2>2, Shrink
  <2>4. tunnelsByIP[i] = Cardinality(L) + Cardinality(HoldIP(i)) + Cardinality(OweIP(i))
    BY <1>7 DEF IInv, IPCountExact
  <2>5. tunnelsByIP[i] \in 0..MaxTunnelsPerIP /\ MaxTunnelsPerIP \in Nat
    BY <1>7, ManagerAssumption DEF IInv, WeakType, UnmixedIPs
  <2> HIDE DEF L, i
  <2>6. Cardinality(L) < MaxTunnelsPerIP
    BY <2>1, <2>3, <2>4, <2>5
  <2>7. QED
    BY <2>6 DEF L, i
<1>8. Registry!Register(n, t)
  <2>1. Registry!LiveNames = LiveNames
    BY DEF Registry!LiveNames, LiveNames
  <2>2. Registry!LiveOfAccount(t.account) = {m \in LiveNames : tunnels[m].account = t.account}
    BY <2>1 DEF Registry!LiveOfAccount
  <2>3. Registry!LiveOfIP(t.ip) = {m \in LiveNames : tunnels[m].ip = t.ip}
    BY <2>1 DEF Registry!LiveOfIP
  <2>4. Cardinality(Registry!LiveNames) < MaxTunnels
    BY <1>5, <2>1
  <2>5. t.account \in Accounts /\ AccountMax[t.account] > 0
          => Cardinality(Registry!LiveOfAccount(t.account)) < AccountMax[t.account]
    BY <1>6, <2>2
  <2>6. t.ip \in UnmixedIPs => Cardinality(Registry!LiveOfIP(t.ip)) < MaxTunnelsPerIP
    BY <1>7, <2>3
  <2>7. \A S : Registry!Cardinality(S) = Cardinality(S)
    BY DEF Registry!Cardinality, Cardinality
  <2>8. QED
    BY <1>4, <2>4, <2>5, <2>6, <2>7 DEF Registry!Register
<1>9. QED
  BY <1>3, <1>4, <1>8

LEMMA RemoveRefines ==
  ASSUME NEW p \in Procs, NEW n \in Names, RemoveTunnel(p, n)
  PROVE Registry!Unregister(n) \/ UNCHANGED tunnels
BY DEF RemoveTunnel, Registry!Unregister

(* Every behaviour of the manager is, for who only sees the map of live    *)
(* tunnels, one of the atomic registry: no two tunnels under one name, and *)
(* no limit exceeded at any time.                                          *)
THEOREM ImplementsRegistry == Spec => RegistrySpec
<1>1. Init => Registry!Init
  BY DEF Init, Registry!Init
<1>2. IInv /\ [Next]_vars => [Registry!Next]_tunnels
  <2> SUFFICES ASSUME IInv, [Next]_vars PROVE [Registry!Next]_tunnels
    OBVIOUS
  <2>1. ASSUME NEW r \in Regs, ClaimName(r) PROVE Registry!Next
    BY <2>1, ClaimRefines DEF Registry!Next
  <2>2. ASSUME NEW r \in Regs, CloseConnection(r) PROVE [Registry!Next]_tunnels
    BY <2>2, RemoveRefines DEF CloseConnection, IInv, StageInv, Procs, Registry!Next
  <2>3. CASE SweepStale
    BY <2>3, RemoveRefines DEF SweepStale, IInv, WeakType, Procs, Registry!Next
  <2>4. ASSUME NEW r \in Regs, RegisterOwned(r) PROVE [Registry!Next]_tunnels
    BY <2>1, <2>4
    DEF RegisterOwned, ReserveGlobal, ReserveAccount, CheckAndIncrement, ReserveIP,
        NameRefused, rollbackRateLimit, rollbackPerIP, rollbackPerAccount, rollbackGlobal
  <2>5. ASSUME NEW p \in Procs, Drop(p) PROVE UNCHANGED tunnels
    BY <2>5 DEF Drop, DropCount, DropAccount, DropIP
  <2>6. QED
    BY <2>2, <2>3, <2>4, <2>5
    DEF Next, CleanupStale, CollectStale, CleanupRateLimits, WindowEnds, vars
<1>3. QED
  BY <1>1, <1>2, Inductive, PTL DEF Spec, RegistrySpec, Registry!Spec

----------------------------------------------------------------------------
(* The rate limiter. Registrations that were counted and have neither      *)
(* succeeded nor been refunded.                                            *)
Charged(ip) ==
  {r \in Regs : pc[r] \in {"ip", "name", "refund", "undoRate"} /\ ~Identified(req[r])
                /\ req[r].ip = ip}

RateIInv == WeakType /\ StageInv /\ RateType /\ NotOvercharged

LEMMA ChargedFinite ==
  \A ip : IsFiniteSet(Charged(ip)) /\ Cardinality(Charged(ip)) \in Nat
BY ManagerAssumption, FS_Subset, FS_CardinalityType DEF Charged

(* What a step may do at one address without charging it too much: leave   *)
(* the window closed, or keep what covers the count in balance with it.    *)
LEMMA ChargeStep ==
  WeakType /\ StageInv /\ RateType /\ NotOvercharged /\ [Next]_vars => NotOvercharged'
<1> SUFFICES ASSUME WeakType, StageInv, RateType, NotOvercharged, [Next]_vars, NEW ip \in IPs,
                    (rateLimits[ip].open)'
             PROVE rateLimits'[ip].count <= granted'[ip] + Cardinality(Charged(ip)')
  BY DEF NotOvercharged, Charged
<1> DEFINE count == rateLimits[ip].count
           open == rateLimits[ip].open
           C == Charged(ip)
           Covered == count <= granted[ip] + Cardinality(C)
<1>t. /\ pc \in [Procs -> Stages] /\ Regs \subseteq Procs
      /\ req \in [Regs -> Requests \cup {None}]
      /\ rateLimits \in [IPs -> [count: Nat, open: BOOLEAN]] /\ granted \in [IPs -> Nat]
      /\ count \in Nat /\ granted[ip] \in Nat
  BY DEF WeakType, RateType, Procs
<1>f. IsFiniteSet(C) /\ Cardinality(C) \in Nat
  BY ChargedFinite
<1>o. open => Covered
  BY DEF NotOvercharged, Charged
<1>s. ASSUME UNCHANGED <<rateLimits, granted>>, C' = C PROVE Covered'
  BY <1>s, <1>o
<1> USE DEF Goto, Charged
<1>1. ASSUME NEW r \in Regs, ReserveGlobal(r) PROVE Covered'
  <2>1. PICK q \in Requests : req' = [req EXCEPT ![r] = q] /\ pc' = [pc EXCEPT ![r] = AfterGlobal(q)]
    BY <1>1 DEF ReserveGlobal
  <2>2. r \notin C
    BY <1>1 DEF ReserveGlobal
  <2>3. r \notin C'
    <3>1. AfterGlobal(q) \in {"account", "rate"} \/ q.ip = NoIP
      BY DEF AfterGlobal
    <3>2. pc'[r] = AfterGlobal(q) /\ req'[r] = q
      BY <2>1, <1>t
    <3>3. QED
      BY <3>1, <3>2, ManagerAssumption
  <2>4. C' = C
    BY <2>1, <2>2, <2>3, <1>t
  <2>5. QED
    BY <1>1, <2>4, <1>s DEF ReserveGlobal
<1>2. ASSUME NEW r \in Regs, ReserveAccount(r) PROVE Covered'
  <2>1. C' = C
    BY <1>2, <1>t DEF ReserveAccount, StageInv
  <2>2. QED
    BY <1>2, <2>1, <1>s DEF ReserveAccount
<1>3. ASSUME NEW r \in Regs, CheckAndIncrement(r) PROVE Covered'
  <2>1. CASE req[r].ip = ip /\ pc'[r] = "ip"
    <3>1. C' = C \cup {r} /\ r \notin C
      BY <1>3, <2>1, <1>t DEF CheckAndIncrement, StageInv
    <3>2. Cardinality(C') = Cardinality(C) + 1
      BY <3>1, <1>f, Grow
    <3>3. CASE ~open
      <4>1. rateLimits' = [rateLimits EXCEPT ![ip] = [count |-> 1, open |-> TRUE]]
            /\ granted' = [granted EXCEPT ![ip] = 0]
        BY <1>3, <2>1, <3>3 DEF CheckAndIncrement
      <4>2. count' = 1 /\ granted'[ip] = 0
        BY <4>1, <1>t
      <4>3. QED
        BY <4>2, <3>2, <1>f
    <3>4. CASE open
      <4>1. rateLimits' = [rateLimits EXCEPT ![ip].count = @ + 1] /\ granted' = granted
        BY <1>3, <2>1, <3>4, <1>t DEF CheckAndIncrement
      <4>2. count' = count + 1
        BY <4>1, <1>t
      <4>3. QED
        BY <4>1, <4>2, <3>2, <3>4, <1>o, <1>f, <1>t
    <3>5. QED
      BY <3>3, <3>4
  <2>2. CASE req[r].ip # ip \/ pc'[r] # "ip"
    <3>1. C' = C
      BY <1>3, <2>2, <1>t DEF CheckAndIncrement
    <3>2. req[r].ip \in IPs
      BY <1>3, RequestType DEF CheckAndIncrement, StageInv, Reserving
    <3>3. count' = count /\ open' = open /\ granted'[ip] = granted[ip]
      BY <1>3, <2>2, <3>2, <1>t DEF CheckAndIncrement
    <3>4. QED
      BY <3>1, <3>3, <1>o
  <2>3. QED
    BY <2>1, <2>2
<1>4. ASSUME NEW r \in Regs, ReserveIP(r) PROVE Covered'
  <2>1. C' = C
    BY <1>4, <1>t DEF ReserveIP
  <2>2. QED
    BY <1>4, <2>1, <1>s DEF ReserveIP
<1>5. ASSUME NEW r \in Regs, ClaimName(r) PROVE Covered'
  <2>0. rateLimits' = rateLimits /\ req' = req /\ pc[r] = "name" /\ pc' = [pc EXCEPT ![r] = "live"]
    BY <1>5 DEF ClaimName
  <2>1. CASE r \in C
    <3>1. C' = C \ {r}
      BY <2>0, <1>t
    <3>2. Cardinality(C') = Cardinality(C) - 1
      BY <2>1, <3>1, <1>f, Shrink
    <3>3. granted' = [granted EXCEPT ![ip] = @ + 1]
      BY <1>5, <2>1, ManagerAssumption DEF ClaimName
    <3>4. granted'[ip] = granted[ip] + 1
      BY <3>3, <1>t
    <3>5. QED
      BY <2>0, <3>2, <3>4, <1>o, <1>f, <1>t
  <2>2. CASE r \notin C
    <3>1. C' = C
      BY <2>0, <2>2, <1>t
    <3>2. Identified(req[r]) \/ req[r].ip # ip
      BY <2>0, <2>2
    <3>3. granted'[ip] = granted[ip]
      BY <1>5, <3>2, <1>t DEF ClaimName
    <3>4. QED
      BY <2>0, <3>1, <3>3, <1>o
  <2>3. QED
    BY <2>1, <2>2
<1>6. ASSUME NEW r \in Regs, NameRefused(r) PROVE Covered'
  <2>1. C' = C
    BY <1>6, <1>t, ManagerAssumption DEF NameRefused, FirstUndo
  <2>2. QED
    BY <1>6, <2>1, <1>s DEF NameRefused
<1>7. ASSUME NEW r \in Regs, rollbackRateLimit(r) PROVE Covered'
  <2>0. granted' = granted /\ req' = req /\ pc[r] \in {"refund", "undoRate"}
        /\ pc' = [pc EXCEPT ![r] = IF pc[r] = "refund" THEN "undoGlobal" ELSE "undoIP"]
    BY <1>7 DEF rollbackRateLimit
  <2>1. CASE req[r].ip = ip
    <3>1. C' = C \ {r} /\ r \in C
      BY <2>0, <2>1, <1>t DEF StageInv
    <3>2. Cardinality(C') = Cardinality(C) - 1
      BY <3>1, <1>f, Shrink
    <3>3. count > 1
      <4>1. SUFFICES ASSUME count <= 1 PROVE FALSE
        BY <1>t
      <4>2. rateLimits'[ip] = Absent
        BY <4>1, <1>7, <2>1, <1>t DEF rollbackRateLimit, Decrement
      <4>3. QED
        BY <4>2 DEF Absent
    <3>4. rateLimits' = [rateLimits EXCEPT ![ip].count = @ - 1]
      BY <3>3, <1>7, <2>1, <1>t DEF rollbackRateLimit, Decrement
    <3>5. count' = count - 1 /\ open' = open
      BY <3>4, <1>t
    <3>6. QED
      BY <2>0, <3>2, <3>5, <1>o, <1>f, <1>t
  <2>2. CASE req[r].ip # ip
    <3>1. C' = C
      BY <2>0, <2>2, <1>t
    <3>2. rateLimits'[ip] = rateLimits[ip]
      BY <1>7, <2>2, <1>t DEF rollbackRateLimit, Decrement
    <3>3. QED
      BY <2>0, <3>1, <3>2, <1>o
  <2>3. QED
    BY <2>1, <2>2
<1>8. ASSUME NEW r \in Regs, rollbackPerIP(r) \/ rollbackPerAccount(r) \/ rollbackGlobal(r)
      PROVE Covered'
  <2>1. C' = C
    BY <1>8, <1>t DEF rollbackPerIP, rollbackPerAccount, rollbackGlobal, Refuse
  <2>2. QED
    BY <1>8, <2>1, <1>s DEF rollbackPerIP, rollbackPerAccount, rollbackGlobal
<1>9. ASSUME NEW p \in Procs, NEW n, RemoveTunnel(p, n), pc[p] \in {"live", "sweep"},
             UNCHANGED <<rateLimits, granted>>
      PROVE Covered'
  <2>1. C' = C
    BY <1>9, <1>t DEF RemoveTunnel, Finish, Returned
  <2>2. QED
    BY <1>9, <2>1, <1>s
<1>10. ASSUME NEW r \in Regs, CloseConnection(r) PROVE Covered'
  BY <1>9, <1>10, <1>t DEF CloseConnection
<1>11. ASSUME NEW p \in Procs, Drop(p) PROVE Covered'
  <2>1. C' = C
    BY <1>11, <1>t DEF Drop, DropCount, DropAccount, DropIP, Finish, Returned
  <2>2. QED
    BY <1>11, <2>1, <1>s DEF Drop, DropCount, DropAccount, DropIP
<1>12. ASSUME CollectStale PROVE Covered'
  <2>1. C' = C
    BY <1>12, <1>t, ManagerAssumption DEF CollectStale
  <2>2. QED
    BY <1>12, <2>1, <1>s DEF CollectStale
<1>13. ASSUME SweepStale PROVE Covered'
  BY <1>9, <1>13 DEF SweepStale, Procs
<1>14. ASSUME CleanupRateLimits PROVE Covered'
  <2>1. C' = C
    BY <1>14, <1>t, ManagerAssumption DEF CleanupRateLimits
  <2>2. rateLimits'[ip] = rateLimits[ip] /\ granted' = granted
    BY <1>14, <1>t DEF CleanupRateLimits, Absent
  <2>3. QED
    BY <2>1, <2>2, <1>o
<1>15. ASSUME NEW i \in IPs, WindowEnds(i) PROVE Covered'
  <2>1. i # ip
    BY <1>15, <1>t DEF WindowEnds
  <2>2. C' = C /\ rateLimits'[ip] = rateLimits[ip] /\ granted'[ip] = granted[ip]
    BY <1>15, <2>1, <1>t DEF WindowEnds
  <2>3. QED
    BY <2>2, <1>o
<1>16. ASSUME UNCHANGED vars PROVE Covered'
  BY <1>16, <1>s DEF vars
<1>17. Covered'
  BY <1>1, <1>2, <1>3, <1>4, <1>5, <1>6, <1>7, <1>8, <1>10, <1>11, <1>12, <1>13, <1>14,
     <1>15, <1>16
  DEF Next, RegisterOwned, CleanupStale
<1>18. QED
  BY <1>17

(* RateLimiter.Decrement gives every failed registration back: while an    *)
(* address's window is open, what CheckAndIncrement counted there is       *)
(* covered by registrations that succeeded or are still under way.         *)
THEOREM NotOverchargedCorrect == Spec => []NotOvercharged
<1>1. Init => RateIInv
  <2>1. Init => RateType /\ NotOvercharged
    BY DEF Init, RateType, NotOvercharged, Absent
  <2>2. QED
    BY <2>1, TypeInit DEF RateIInv
<1>2. RateIInv /\ [Next]_vars => RateIInv'
  BY TypeStep, RateStep, ChargeStep DEF RateIInv
<1>3. RateIInv => NotOvercharged
  BY DEF RateIInv
<1>4. QED
  BY <1>1, <1>2, <1>3, PTL DEF Spec

----------------------------------------------------------------------------
(* Names. Unregister trusts its argument; that the name is still the       *)
(* caller's takes that nobody else removes it, so that no sweep has begun, *)
(* and that no two live connections were given one name: the record under  *)
(* a name has one owner.                                                   *)
NoSweep == ~cleanup => pc[Janitor] = "idle"

Own(r) == [reg |-> r, ip |-> req[r].ip, account |-> req[r].account]

NameIInv == WeakType /\ StageInv /\ NoSweep /\ HoldsItsName

LEMMA NameStep == NameIInv /\ [Next]_vars => NoSweep' /\ HoldsItsName'
<1> SUFFICES ASSUME NameIInv, [Next]_vars, ~cleanup' PROVE NoSweep' /\ HoldsItsName'
  BY DEF NoSweep, HoldsItsName
<1> DEFINE Holds == \A r \in Regs : pc[r] = "live" => tunnels[name[r]] = Own(r)
<1>c. cleanup' = cleanup
  BY DEF Next, RegisterOwned, ReserveGlobal, ReserveAccount, CheckAndIncrement, ReserveIP,
         ClaimName, NameRefused, rollbackRateLimit, rollbackPerIP, rollbackPerAccount,
         rollbackGlobal, CloseConnection, Drop, DropCount, DropAccount, DropIP, CleanupStale,
         CollectStale, SweepStale, CleanupRateLimits, WindowEnds, vars
<1>j. pc[Janitor] = "idle" /\ Janitor \notin Regs
  BY <1>c, ManagerAssumption DEF NameIInv, NoSweep
<1>h. Holds
  BY <1>c DEF NameIInv, HoldsItsName, Own
<1>t. /\ pc \in [Procs -> Stages] /\ Procs = Regs \cup {Janitor}
      /\ req \in [Regs -> Requests \cup {None}] /\ name \in [Regs -> Names \cup {None}]
      /\ tunnels \in [Names -> Tunnels \cup {None}]
      /\ \A r \in Regs : pc[r] = "live" => name[r] \in Names /\ req[r] \in Requests
  BY DEF NameIInv, WeakType, StageInv, Procs
<1>o. ASSUME NEW r \in Regs, req[r] \in Requests PROVE Own(r) \in Tunnels /\ Own(r) # None
  <2>1. Own(r) \in Tunnels
    BY <1>o, RequestType DEF Own, Tunnels
  <2>2. QED
    BY <2>1, TunnelType
<1>d. Janitor \notin Regs /\ pc'[Janitor] = "idle" /\ Holds' => NoSweep' /\ HoldsItsName'
  BY DEF NoSweep, HoldsItsName, Own
<1> USE DEF Goto
<1>1. ASSUME NEW r \in Regs, pc[r] # "live", \E s \in Stages \ {"live"} : Goto(r, s),
             UNCHANGED <<tunnels, name>>, \E q : req' = req \/ req' = [req EXCEPT ![r] = q]
      PROVE pc'[Janitor] = "idle" /\ Holds'
  BY <1>1, <1>j, <1>h, <1>t DEF Own
<1>2. ASSUME NEW r \in Regs, ClaimName(r) PROVE pc'[Janitor] = "idle" /\ Holds'
  <2>1. PICK n \in Names : registerSubdomain(r, n)
    BY <1>2, RequestType DEF ClaimName, Usable, NameIInv, StageInv, Reserving
  <2>2. tunnels[n] = None /\ tunnels' = [tunnels EXCEPT ![n] = Own(r)]
        /\ name' = [name EXCEPT ![r] = n] /\ req' = req /\ pc' = [pc EXCEPT ![r] = "live"]
    BY <1>2, <2>1 DEF ClaimName, registerSubdomain, Own
  <2>3. ASSUME NEW s \in Regs, pc'[s] = "live" PROVE tunnels'[name'[s]] = Own(s)
    <3>1. CASE s = r
      BY <2>2, <3>1, <1>t
    <3>2. CASE s # r
      <4>1. pc[s] = "live" /\ name'[s] = name[s] /\ name[s] \in Names
        BY <2>2, <2>3, <3>2, <1>t
      <4>2. tunnels[name[s]] = Own(s) /\ Own(s) # None
        BY <4>1, <1>h, <1>o, <1>t
      <4>3. QED
        BY <2>2, <4>1, <4>2, <1>t
    <3>3. QED
      BY <3>1, <3>2
  <2>4. Holds'
    BY <2>2, <2>3 DEF Own
  <2>5. QED
    BY <2>2, <2>4, <1>j, <1>t
<1>3. ASSUME NEW r \in Regs, CloseConnection(r) PROVE pc'[Janitor] = "idle" /\ Holds'
  <2>1. tunnels[name[r]] = Own(r) /\ Own(r) # None /\ pc[r] = "live" /\ name[r] \in Names
    BY <1>3, <1>h, <1>o, <1>t DEF CloseConnection
  <2>2. tunnels' = [tunnels EXCEPT ![name[r]] = None] /\ pc' = [pc EXCEPT ![r] = "dropCount"]
        /\ UNCHANGED <<req, name>>
    BY <1>3, <2>1 DEF CloseConnection, RemoveTunnel
  <2>3. ASSUME NEW s \in Regs, pc'[s] = "live" PROVE tunnels'[name'[s]] = Own(s)
    <3>1. s # r /\ pc[s] = "live" /\ name[s] \in Names
      BY <2>2, <2>3, <1>t
    <3>2. tunnels[name[s]] = Own(s)
      BY <3>1, <1>h
    <3>3. name[s] # name[r]
      BY <2>1, <3>1, <3>2 DEF Own
    <3>4. QED
      BY <2>2, <3>1, <3>2, <3>3, <1>t
  <2>4. Holds'
    BY <2>2, <2>3 DEF Own
  <2>5. QED
    BY <2>2, <2>4, <1>j, <1>t
<1>4. ASSUME NEW p \in Procs, Drop(p) PROVE pc'[Janitor] = "idle" /\ Holds'
  <2>1. p \in Regs /\ pc[p] \in Dropping
    BY <1>4, <1>j, <1>t DEF Drop, DropCount, DropAccount, DropIP, Dropping
  <2>2. tunnels' = tunnels /\ \E s \in {"idle", "dropAccount", "dropIP"} : Goto(p, s)
    BY <1>4, <2>1, <1>j DEF Drop, DropCount, DropAccount, DropIP, Finish, Returned
  <2>3. \/ UNCHANGED <<req, name>>
        \/ req' = [req EXCEPT ![p] = None] /\ name' = [name EXCEPT ![p] = None]
    BY <1>4 DEF Drop, DropCount, DropAccount, DropIP, Finish
  <2>4. QED
    BY <2>1, <2>2, <2>3, <1>j, <1>h, <1>t DEF Dropping, Own
<1>5. ASSUME UNCHANGED <<tunnels, pc, req, name>> PROVE pc'[Janitor] = "idle" /\ Holds'
  BY <1>5, <1>j, <1>h DEF Own
<1>6. ASSUME NEW r \in Regs, RegisterOwned(r) PROVE pc'[Janitor] = "idle" /\ Holds'
  <2>1. CASE ReserveGlobal(r)
    BY <1>1, <2>1 DEF ReserveGlobal, AfterGlobal, Stages, Reserving
  <2>2. CASE ReserveAccount(r)
    BY <1>1, <2>2 DEF ReserveAccount, Stages, Reserving, Undoing
  <2>3. CASE CheckAndIncrement(r)
    BY <1>1, <2>3 DEF CheckAndIncrement, tables, Stages, Reserving, Undoing
  <2>4. CASE ReserveIP(r)
    BY <1>1, <2>4 DEF ReserveIP, Stages, Reserving, Undoing
  <2>5. CASE NameRefused(r)
    BY <1>1, <2>5 DEF NameRefused, FirstUndo, Stages, Undoing
  <2>6. CASE rollbackRateLimit(r)
    BY <1>1, <2>6 DEF rollbackRateLimit, Stages, Undoing
  <2>7. CASE rollbackPerIP(r) \/ rollbackPerAccount(r)
    BY <1>1, <2>7 DEF rollbackPerIP, rollbackPerAccount, Stages, Undoing
  <2>8. CASE rollbackGlobal(r)
    BY <1>1, <2>8 DEF rollbackGlobal, Refuse, Stages
  <2>9. QED
    BY <1>6, <1>2, <2>1, <2>2, <2>3, <2>4, <2>5, <2>6, <2>7, <2>8 DEF RegisterOwned
<1>7. QED
  BY <1>c, <1>d, <1>j, <1>3, <1>4, <1>5, <1>6
  DEF Next, CleanupStale, CollectStale, SweepStale, CleanupRateLimits, WindowEnds, vars

(* While no cleanup task runs, the name a connection was given is in the   *)
(* map under its own record until the connection closes.                   *)
THEOREM HoldsItsNameCorrect == Spec => []HoldsItsName
<1>1. Init => NameIInv
  <2>1. Init => NoSweep /\ HoldsItsName
    BY DEF Init, NoSweep, HoldsItsName, Procs
  <2>2. QED
    BY <2>1, TypeInit DEF NameIInv
<1>2. NameIInv /\ [Next]_vars => NameIInv'
  BY TypeStep, NameStep DEF NameIInv
<1>3. NameIInv => HoldsItsName
  BY DEF NameIInv
<1>4. QED
  BY <1>1, <1>2, <1>3, PTL DEF Spec
=============================================================================
