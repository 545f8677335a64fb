--------------------------- MODULE TunnelManager ----------------------------
(***************************************************************************)
(* internal/server/tunnel: the Manager that admits tunnels and its         *)
(* RateLimiter.                                                            *)
(*                                                                         *)
(* RegisterOwned takes its reservations one lock at a time: the global     *)
(* counter (compare-and-swap), the account table, the rate limiter, the    *)
(* per-IP table and last the shard that holds the name. A failure at any   *)
(* point gives back what was taken, again one lock at a time, and          *)
(* Unregister does the same after it removed the name. Every such critical *)
(* section is one action here; between two of them any other goroutine may *)
(* run.                                                                    *)
(*                                                                         *)
(* A goroutine of Regs serves one connection after another: it registers,  *)
(* lives, and unregisters its own name when its connection closes. The     *)
(* Janitor is the goroutine of StartCleanupTask.                           *)
(***************************************************************************)
EXTENDS Integers, FiniteSets

CONSTANTS
  Regs,            \* goroutines that call RegisterOwned and, later, Unregister
  Janitor,         \* the goroutine of StartCleanupTask
  Names,           \* subdomains
  Unusable,        \* names ValidateSubdomain or IsReserved refuses
  IPs, NoIP,       \* remoteIP, and the empty remoteIP
  Accounts, NoAccount,
  AccountMax,      \* [Accounts -> Nat]: Owner.MaxTunnels, 0 means unlimited
  AnyName,            \* the empty customSubdomain: the name is generated
  Requests,        \* the (ip, account, name) triples clients may present
  None,            \* nil: no tunnel, no call
  MaxTunnels, MaxTunnelsPerIP, RateLimit

(* Owner.IsIdentified: a stored client always has an account (clients.     *)
(* account_id is NOT NULL), so the account alone tells the two kinds of    *)
(* registration apart.                                                     *)
Identified(q) == q.account # NoAccount

ASSUME ManagerAssumption ==
  /\ IsFiniteSet(Regs) /\ Janitor \notin Regs
  /\ IsFiniteSet(Names) /\ Unusable \subseteq Names /\ AnyName \notin Names
  /\ NoIP \notin IPs /\ NoAccount \notin Accounts
  /\ AccountMax \in [Accounts -> Nat]
  /\ Requests \subseteq [ip: IPs \cup {NoIP}, account: Accounts \cup {NoAccount},
                         name: Names \cup {AnyName}]
  /\ MaxTunnels \in Nat \ {0}
  /\ MaxTunnelsPerIP \in Nat \ {0}
  /\ RateLimit \in Nat \ {0}

Procs == Regs \cup {Janitor}

(* A tunnel.Connection, reduced to whose it is and what it was charged to. *)
Tunnels == [reg: Regs, ip: IPs \cup {NoIP}, account: Accounts \cup {NoAccount}]

ASSUME NoneAssumption == None \notin Tunnels \cup Requests \cup Names

(* Program points. The undo stages are the rollback closures of            *)
(* RegisterOwned, the drop stages are Unregister after the shard unlock.   *)
Reserving == {"account", "rate", "ip", "name"}
Undoing == {"refund", "undoRate", "undoIP", "undoAccount", "undoGlobal"}
Dropping == {"dropCount", "dropAccount", "dropIP"}
Stages == {"idle", "live", "sweep"} \cup Reserving \cup Undoing \cup Dropping

VARIABLES
  tunnelCount,      \* Manager.tunnelCount
  tunnelsByIP,      \* [IPs -> Nat], an absent key is 0
  tunnelsByAccount, \* [Accounts -> Nat], an absent key is 0
  rateLimits,       \* [IPs -> [count, open]]: count 0 is an absent entry, open
                    \* says that windowEnd is still ahead
  tunnels,          \* [Names -> Tunnels]: tunnels and used, of all shards
  pc,               \* [Procs -> Stages]
  req,              \* [Regs -> Requests]: the call each goroutine is in
  name,             \* [Regs -> Names]: the subdomain RegisterOwned returned
  owed,             \* [Procs -> Tunnels]: what Unregister read under the lock
  stale,            \* the names CleanupStale collected and has not unregistered
  cleanup,          \* whether the server called StartCleanupTask
  granted           \* [IPs -> Nat]: registrations that succeeded in the window
                    \* (history only)

tables == <<tunnelCount, tunnelsByIP, tunnelsByAccount>>
vars == <<tables, rateLimits, tunnels, pc, req, name, owed, stale, cleanup, granted>>

----------------------------------------------------------------------------
Goto(p, stage) == pc' = [pc EXCEPT ![p] = stage]

(* Where a goroutine goes when its Unregister returns.                     *)
Returned(p) == IF p = Janitor THEN "sweep" ELSE "idle"

(* The first reservation after the global slot.                            *)
AfterGlobal(q) ==
  IF Identified(q) THEN "account" ELSE IF q.ip = NoIP THEN "name" ELSE "rate"

(* The first rollback of a registration that holds all its reservations.   *)
FirstUndo(q) ==
  IF Identified(q) THEN "undoAccount" ELSE IF q.ip = NoIP THEN "undoGlobal" ELSE "undoRate"

Absent == [count |-> 0, open |-> FALSE]

(* The guarded decrement of every table: a missing key stays missing.      *)
Less(n) == IF n > 0 THEN n - 1 ELSE 0

(* Fault: a failed registration is not refunded.                           *)
DecrementForgotten(ip) == ip \in IPs /\ UNCHANGED rateLimits

(* RateLimiter.Decrement.                                                  *)
Decrement(ip) ==
  rateLimits' = IF rateLimits[ip].count <= 1
                THEN [rateLimits EXCEPT ![ip] = Absent]
                ELSE [rateLimits EXCEPT ![ip].count = @ - 1]

Finish(p) ==
  /\ Goto(p, Returned(p))
  /\ owed' = [owed EXCEPT ![p] = None]
  /\ IF p \in Regs
     THEN req' = [req EXCEPT ![p] = None] /\ name' = [name EXCEPT ![p] = None]
     ELSE UNCHANGED <<req, name>>

(* RegisterOwned returns an error: nothing of the call is left.            *)
Refuse(r) ==
  /\ Goto(r, "idle")
  /\ req' = [req EXCEPT ![r] = None]

Init ==
  /\ tunnelCount = 0
  /\ tunnelsByIP = [ip \in IPs |-> 0]
  /\ tunnelsByAccount = [a \in Accounts |-> 0]
  /\ rateLimits = [ip \in IPs |-> Absent]
  /\ tunnels = [n \in Names |-> None]
  /\ pc = [p \in Procs |-> "idle"]
  /\ req = [r \in Regs |-> None]
  /\ name = [r \in Regs |-> None]
  /\ owed = [p \in Procs |-> None]
  /\ stale = {}
  /\ cleanup \in BOOLEAN
  /\ granted = [ip \in IPs |-> 0]

----------------------------------------------------------------------------
(* RegisterOwned. The load, the check and the compare-and-swap are one     *)
(* step: a swap that succeeds saw the value the check saw. A call refused  *)
(* here changes nothing.                                                   *)
ReserveGlobal(r) ==
  /\ pc[r] = "idle"
  /\ tunnelCount < MaxTunnels
  /\ tunnelCount' = tunnelCount + 1
  /\ \E q \in Requests :
       /\ req' = [req EXCEPT ![r] = q]
       /\ Goto(r, AfterGlobal(q))
  /\ UNCHANGED <<tunnelsByIP, tunnelsByAccount, rateLimits, tunnels, name, owed, stale,
                 cleanup, granted>>

(* Fault: the account's limit itself still admits a tunnel.                *)
AccountFullOffByOne(a) == AccountMax[a] > 0 /\ tunnelsByAccount[a] > AccountMax[a]

AccountFull(a) == AccountMax[a] > 0 /\ tunnelsByAccount[a] >= AccountMax[a]

ReserveAccount(r) ==
  LET a == req[r].account IN
  /\ pc[r] = "account"
  /\ \/ /\ AccountFull(a)
        /\ Goto(r, "undoGlobal")
        /\ UNCHANGED tunnelsByAccount
     \/ /\ ~AccountFull(a)
        /\ tunnelsByAccount' = [tunnelsByAccount EXCEPT ![a] = @ + 1]
        /\ Goto(r, "name")
  /\ UNCHANGED <<tunnelCount, tunnelsByIP, rateLimits, tunnels, req, name, owed, stale,
                 cleanup, granted>>

(* RateLimiter.CheckAndIncrement, called for unidentified owners only.     *)
CheckAndIncrement(r) ==
  LET ip == req[r].ip
      entry == rateLimits[ip]
  IN
  /\ pc[r] = "rate"
  /\ \/ /\ ~entry.open
        /\ rateLimits' = [rateLimits EXCEPT ![ip] = [count |-> 1, open |-> TRUE]]
        /\ granted' = [granted EXCEPT ![ip] = 0]
        /\ Goto(r, "ip")
     \/ /\ entry.open /\ entry.count < RateLimit
        /\ rateLimits' = [rateLimits EXCEPT ![ip].count = @ + 1]
        /\ Goto(r, "ip")
        /\ UNCHANGED granted
     \/ /\ entry.open /\ entry.count >= RateLimit
        /\ Goto(r, "undoGlobal")
        /\ UNCHANGED <<rateLimits, granted>>
  /\ UNCHANGED <<tables, tunnels, req, name, owed, stale, cleanup>>

ReserveIP(r) ==
  LET ip == req[r].ip IN
  /\ pc[r] = "ip"
  /\ \/ /\ tunnelsByIP[ip] >= MaxTunnelsPerIP
        /\ Goto(r, "refund")
        /\ UNCHANGED tunnelsByIP
     \/ /\ tunnelsByIP[ip] < MaxTunnelsPerIP
        /\ tunnelsByIP' = [tunnelsByIP EXCEPT ![ip] = @ + 1]
        /\ Goto(r, "name")
  /\ UNCHANGED <<tunnelCount, tunnelsByAccount, rateLimits, tunnels, req, name, owed,
                 stale, cleanup, granted>>

(* Fault: used is not consulted.                                           *)
registerSubdomainUnchecked(r, n) ==
  /\ tunnels' = [tunnels EXCEPT ![n] =
       [reg |-> r, ip |-> req[r].ip, account |-> req[r].account]]
  /\ name' = [name EXCEPT ![r] = n]

(* registerSubdomain: check and insert under the lock of the name's shard. *)
registerSubdomain(r, n) ==
  /\ tunnels[n] = None
  /\ tunnels' = [tunnels EXCEPT ![n] =
       [reg |-> r, ip |-> req[r].ip, account |-> req[r].account]]
  /\ name' = [name EXCEPT ![r] = n]

Usable == Names \ Unusable

(* The last step that can succeed: the asked name, or a generated one.     *)
ClaimName(r) ==
  LET q == req[r] IN
  /\ pc[r] = "name"
  /\ \E n \in (IF q.name = AnyName THEN Usable ELSE {q.name} \cap Usable) :
       registerSubdomain(r, n)
  /\ Goto(r, "live")
  /\ granted' = IF ~Identified(q) /\ q.ip # NoIP
                THEN [granted EXCEPT ![q.ip] = @ + 1] ELSE granted
  /\ UNCHANGED <<tables, rateLimits, req, owed, stale, cleanup>>

(* ErrInvalidSubdomain, ErrReservedSubdomain, ErrSubdomainTaken, or 64     *)
(* generated candidates that were all reserved or used.                    *)
NameRefused(r) ==
  LET q == req[r] IN
  /\ pc[r] = "name"
  /\ IF q.name = AnyName
     THEN \E n \in Names : n \in Unusable \/ tunnels[n] # None
     ELSE q.name \in Unusable \/ tunnels[q.name] # None
  /\ Goto(r, FirstUndo(q))
  /\ UNCHANGED <<tables, rateLimits, tunnels, req, name, owed, stale, cleanup, granted>>

(* Fault: the per-IP refusal runs all the rollbacks.                       *)
rollbackRateLimitThenIP(r) ==
  /\ pc[r] \in {"refund", "undoRate"}
  /\ Decrement(req[r].ip)
  /\ Goto(r, "undoIP")
  /\ UNCHANGED <<tables, tunnels, req, name, owed, stale, cleanup, granted>>

rollbackRateLimit(r) ==
  /\ pc[r] \in {"refund", "undoRate"}
  /\ Decrement(req[r].ip)
  /\ Goto(r, IF pc[r] = "refund" THEN "undoGlobal" ELSE "undoIP")
  /\ UNCHANGED <<tables, tunnels, req, name, owed, stale, cleanup, granted>>

rollbackPerIP(r) ==
  /\ pc[r] = "undoIP"
  /\ tunnelsByIP' = [tunnelsByIP EXCEPT ![req[r].ip] = Less(@)]
  /\ Goto(r, "undoGlobal")
  /\ UNCHANGED <<tunnelCount, tunnelsByAccount, rateLimits, tunnels, req, name, owed,
                 stale, cleanup, granted>>

rollbackPerAccount(r) ==
  /\ pc[r] = "undoAccount"
  /\ tunnelsByAccount' = [tunnelsByAccount EXCEPT ![req[r].account] = Less(@)]
  /\ Goto(r, "undoGlobal")
  /\ UNCHANGED <<tunnelCount, tunnelsByIP, rateLimits, tunnels, req, name, owed, stale,
                 cleanup, granted>>

rollbackGlobal(r) ==
  /\ pc[r] = "undoGlobal"
  /\ tunnelCount' = tunnelCount - 1
  /\ Refuse(r)
  /\ UNCHANGED <<tunnelsByIP, tunnelsByAccount, rateLimits, tunnels, name, owed, stale,
                 cleanup, granted>>

----------------------------------------------------------------------------
(* Unregister, whose argument is a name: what the map holds there is       *)
(* removed, whoever registered it.                                         *)
RemoveTunnel(p, n) ==
  \/ /\ tunnels[n] = None
     /\ Finish(p)
     /\ UNCHANGED tunnels
  \/ /\ tunnels[n] # None
     /\ tunnels' = [tunnels EXCEPT ![n] = None]
     /\ owed' = [owed EXCEPT ![p] = tunnels[n]]
     /\ Goto(p, "dropCount")
     /\ UNCHANGED <<req, name>>

(* Connection.Close of the tunnel's own connection.                        *)
CloseConnection(r) ==
  /\ pc[r] = "live"
  /\ RemoveTunnel(r, name[r])
  /\ UNCHANGED <<tables, rateLimits, stale, cleanup, granted>>

DropCount(p) ==
  /\ pc[p] = "dropCount"
  /\ tunnelCount' = tunnelCount - 1
  /\ IF owed[p].account # NoAccount
     THEN Goto(p, "dropAccount") /\ UNCHANGED <<owed, req, name>>
     ELSE IF owed[p].ip # NoIP
          THEN Goto(p, "dropIP") /\ UNCHANGED <<owed, req, name>>
          ELSE Finish(p)
  /\ UNCHANGED <<tunnelsByIP, tunnelsByAccount, rateLimits, tunnels, stale, cleanup,
                 granted>>

DropAccount(p) ==
  /\ pc[p] = "dropAccount"
  /\ tunnelsByAccount' = [tunnelsByAccount EXCEPT ![owed[p].account] = Less(@)]
  /\ IF owed[p].ip # NoIP
     THEN Goto(p, "dropIP") /\ UNCHANGED <<owed, req, name>>
     ELSE Finish(p)
  /\ UNCHANGED <<tunnelCount, tunnelsByIP, rateLimits, tunnels, stale, cleanup, granted>>

(* No IsIdentified here: every tunnel with an address is taken off it.     *)
DropIP(p) ==
  /\ pc[p] = "dropIP"
  /\ tunnelsByIP' = [tunnelsByIP EXCEPT ![owed[p].ip] = Less(@)]
  /\ Finish(p)
  /\ UNCHANGED <<tunnelCount, tunnelsByAccount, rateLimits, tunnels, stale, cleanup,
                 granted>>

----------------------------------------------------------------------------
(* CleanupStale. The stale names are collected under the read lock and     *)
(* unregistered after it; which tunnels count as stale is the clock's      *)
(* choice.                                                                 *)
CollectStale ==
  /\ cleanup /\ pc[Janitor] = "idle"
  /\ \E S \in SUBSET {n \in Names : tunnels[n] # None} :
       S # {} /\ stale' = S
  /\ Goto(Janitor, "sweep")
  /\ UNCHANGED <<tables, rateLimits, tunnels, req, name, owed, cleanup, granted>>

SweepStale ==
  /\ pc[Janitor] = "sweep"
  /\ \E n \in stale :
       /\ RemoveTunnel(Janitor, n)
       /\ stale' = stale \ {n}
  /\ UNCHANGED <<tables, rateLimits, cleanup, granted>>

(* RateLimiter.Cleanup ends the round: expired entries go.                 *)
CleanupRateLimits ==
  /\ pc[Janitor] = "sweep" /\ stale = {}
  /\ rateLimits' = [ip \in IPs |-> IF rateLimits[ip].open THEN rateLimits[ip] ELSE Absent]
  /\ Goto(Janitor, "idle")
  /\ UNCHANGED <<tables, tunnels, req, name, owed, stale, cleanup, granted>>

(* The clock passes windowEnd.                                             *)
WindowEnds(ip) ==
  /\ rateLimits[ip].open
  /\ rateLimits' = [rateLimits EXCEPT ![ip].open = FALSE]
  /\ granted' = [granted EXCEPT ![ip] = 0]
  /\ UNCHANGED <<tables, tunnels, pc, req, name, owed, stale, cleanup>>

RegisterOwned(r) ==
  \/ ReserveGlobal(r) \/ ReserveAccount(r) \/ CheckAndIncrement(r) \/ ReserveIP(r)
  \/ ClaimName(r) \/ NameRefused(r)
  \/ rollbackRateLimit(r) \/ rollbackPerIP(r) \/ rollbackPerAccount(r) \/ rollbackGlobal(r)

Drop(p) == DropCount(p) \/ DropAccount(p) \/ DropIP(p)

CleanupStale == CollectStale \/ SweepStale \/ CleanupRateLimits

Next ==
  \/ \E r \in Regs : RegisterOwned(r) \/ CloseConnection(r)
  \/ \E p \in Procs : Drop(p)
  \/ CleanupStale
  \/ \E ip \in IPs : WindowEnds(ip)

Spec == Init /\ [][Next]_vars

----------------------------------------------------------------------------
(* What the counters stand for.                                            *)

LiveNames == {n \in Names : tunnels[n] # None}

(* Calls of RegisterOwned that hold a global slot, an account slot of a, a *)
(* slot of address ip.                                                     *)
HoldGlobal == {r \in Regs : pc[r] \in Reserving \cup Undoing}
HoldAccount(a) ==
  {r \in Regs : pc[r] \in {"name", "undoAccount"} /\ req[r].account = a}
HoldIP(ip) ==
  {r \in Regs : /\ pc[r] \in {"name", "undoRate", "undoIP"}
                /\ ~Identified(req[r]) /\ req[r].ip = ip}

(* Calls of Unregister that have removed a tunnel from the map and not yet *)
(* from the table in question.                                             *)
OweGlobal == {p \in Procs : pc[p] = "dropCount"}
OweAccount(a) ==
  {p \in Procs : pc[p] \in {"dropCount", "dropAccount"} /\ owed[p].account = a}
OweIP(ip) == {p \in Procs : pc[p] \in Dropping /\ owed[p].ip = ip}

(* Addresses from which only one kind of client comes: every registration  *)
(* there is anonymous or uses the shared token.                            *)
UnmixedIPs == {ip \in IPs : \A q \in Requests : q.ip = ip => ~Identified(q)}

(* The type of every variable; counters stay within their limits.          *)
TypeOK ==
  /\ tunnelCount \in 0..MaxTunnels
  /\ tunnelsByIP \in [IPs -> 0..MaxTunnelsPerIP]
  /\ tunnelsByAccount \in [Accounts -> Nat]
  /\ rateLimits \in [IPs -> [count: Nat, open: BOOLEAN]]
  /\ tunnels \in [Names -> Tunnels \cup {None}]
  /\ pc \in [Procs -> Stages]
  /\ req \in [Regs -> Requests \cup {None}]
  /\ name \in [Regs -> Names \cup {None}]
  /\ owed \in [Procs -> Tunnels \cup {None}]
  /\ stale \subseteq Names
  /\ cleanup \in BOOLEAN
  /\ granted \in [IPs -> Nat]

(* The global counter is exactly the live tunnels, plus the registrations  *)
(* under way, plus the removals that have not reached it: no rollback and  *)
(* no double Unregister ever leaks a slot or frees one twice.              *)
GlobalCountExact ==
  tunnelCount =
    Cardinality(LiveNames) + Cardinality(HoldGlobal) + Cardinality(OweGlobal)

(* The same of an account's counter, so MaxTunnels of the account is never *)
(* exceeded and never wasted, whichever calls fail in between.             *)
AccountCountExact ==
  \A a \in Accounts :
    tunnelsByAccount[a] =
      Cardinality({n \in LiveNames : tunnels[n].account = a})
        + Cardinality(HoldAccount(a)) + Cardinality(OweAccount(a))

(* The same of an address that identified clients never come from.         *)
IPCountExact ==
  \A ip \in UnmixedIPs :
    tunnelsByIP[ip] =
      Cardinality({n \in LiveNames : tunnels[n].ip = ip})
        + Cardinality(HoldIP(ip)) + Cardinality(OweIP(ip))

(* All three: what every limit of the manager rests on.                    *)
CountsExact == GlobalCountExact /\ AccountCountExact /\ IPCountExact

(* An address is never charged for a registration that failed: while its   *)
(* window is open the count is covered by registrations that succeeded in  *)
(* the window or are still under way.                                      *)
NotOvercharged ==
  \A ip \in IPs :
    rateLimits[ip].open =>
      rateLimits[ip].count <=
        granted[ip] + Cardinality({r \in Regs :
          pc[r] \in {"ip", "name", "refund", "undoRate"} /\ ~Identified(req[r])
            /\ req[r].ip = ip})

(* As long as no cleanup task runs, which is how the server runs, a        *)
(* connection that was given a name holds it until it closes: Unregister   *)
(* takes a name, and the name is always still the caller's.                *)
HoldsItsName ==
  ~cleanup =>
    \A r \in Regs : pc[r] = "live" =>
      tunnels[name[r]] = [reg |-> r, ip |-> req[r].ip, account |-> req[r].account]

(* "Maximum tunnels per IP" for the addresses of Requests, where           *)
(* authenticated registrations are exempt and so are not counted.          *)
PerIPCap ==
  \A ip \in IPs :
    Cardinality({n \in LiveNames : tunnels[n].ip = ip /\ tunnels[n].account = NoAccount})
      <= MaxTunnelsPerIP

(* Seen from outside, the manager is the map of TunnelRegistry: names and  *)
(* limits hold although no lock covers a registration as a whole.          *)
Registry == INSTANCE TunnelRegistry WITH
  live <- tunnels, NoTunnel <- None, CappedIPs <- UnmixedIPs

RegistrySpec == Registry!Spec
=============================================================================
