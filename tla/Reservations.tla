---------------------------- MODULE Reservations ----------------------------
(***************************************************************************)
(* Who may hold a name or a port: the reservations of the control plane,   *)
(* the resolver that reads them while a tunnel registers, the supervisor   *)
(* that reconnects on the client, and the admin handlers that create,      *)
(* change, delete and pin reservations meanwhile.                          *)
(*                                                                         *)
(* Registration is three steps apart (authenticate, resolve, claim), an    *)
(* unnamed one also probes the names it could bind one by one; an admin    *)
(* handler reads, checks and writes in steps of its own. The limits of the *)
(* manager and the teardown of a session are TunnelManager's and           *)
(* TunnelLifecycle's: here a claim and a teardown are one step each.       *)
(***************************************************************************)
EXTENDS Integers, FiniteSets

CONSTANTS
  Tunnels,          \* supervised tunnels, one client process each
  Deployments,      \* how they may be configured: [Tunnels -> [client, type, name]],
                    \* client NoOne for the shared token, name Anything for none
  Accounts, Clients, AccountOf,    \* the credentials at the start and their accounts
  HTTPNames,        \* subdomains a client or an administrator may name
  Generated,        \* subdomains the manager may draw
  PortNames,        \* tcp-<port>, standing for the port too
  Anything, NoOne,  \* the empty subdomain; no credential, row or session
  Admins,           \* handlers of several steps that run at once
  Requests,         \* reservations they may ask for: [name, account, client]
  Removable,        \* accounts they may delete, or delete clients of
  MaxWrites         \* bound on successful writes of administrators

Subdomains == HTTPNames \cup Generated
Names == Subdomains \cup PortNames

ASSUME ReservationsAssumption ==
  /\ IsFiniteSet(Tunnels) /\ IsFiniteSet(Clients) /\ IsFiniteSet(Names)
  /\ IsFiniteSet(Admins)
  /\ AccountOf \in [Clients -> Accounts]
  /\ Deployments \subseteq [Tunnels -> [client: Clients \cup {NoOne}, type: {"http", "tcp"},
                                       name: Names \cup {Anything}]]
  /\ \A d \in Deployments, t \in Tunnels : d[t].type = "http" => d[t].name \notin PortNames
  /\ Subdomains \cap PortNames = {}
  /\ Anything \notin Names /\ NoOne \notin Names \cup Clients \cup Accounts \cup Nat
  /\ Requests \subseteq [name: HTTPNames \cup PortNames, account: Accounts,
                         client: Clients \cup {NoOne}]
  /\ Removable \subseteq Accounts /\ MaxWrites \in Nat

VARIABLES
  accounts, clients, \* the rows of these tables
  reserved,          \* [Names -> row or NoOne]: tunnel_reservations, by the subdomain
                     \* or the port they pin, each unique
  writes,            \* how many times an administrator wrote: a clock for rows
  closed,            \* requireReservation
  conf,              \* the deployment
  phase,             \* [Tunnels -> Phases]
  ask,               \* [Tunnels -> Names \cup {Anything}]: connConfig.Subdomain
  once,              \* the tunnels with connectedOnce
  res,               \* [Tunnels -> Resolution or NoOne], between resolve and claim
  todo,              \* [Tunnels -> SUBSET rows]: owned reservations still to probe
  live,              \* [Names -> session or NoOne]: tunnel.Manager
  rows,              \* [Names -> row or NoOne]: active_sessions
  admin              \* [Admins -> the call in progress or Idle]

Phases == {"down", "known", "probing", "claiming", "up", "gaveUp"}
client == <<phase, ask, once, res, todo>>
store == <<accounts, clients, reserved, writes>>
server == <<live, rows>>
fixed == <<closed, conf>>
vars == <<client, store, server, fixed, admin>>

Idle == [op |-> "idle"]

Init ==
  /\ accounts = Accounts /\ clients = Clients
  /\ reserved = [n \in Names |-> NoOne]
  /\ writes = 0
  /\ closed \in BOOLEAN
  /\ phase = [t \in Tunnels |-> "down"]
  /\ conf \in Deployments
  /\ ask = [t \in Tunnels |-> conf[t].name]
  /\ once = {}
  /\ res = [t \in Tunnels |-> NoOne]
  /\ todo = [t \in Tunnels |-> {}]
  /\ live = [n \in Names |-> NoOne]
  /\ rows = [n \in Names |-> NoOne]
  /\ admin = [a \in Admins |-> Idle]

----------------------------------------------------------------------------
(* owner: the identity a registration carries; none owns nothing.          *)
Account(c) == IF c = NoOne THEN NoOne ELSE AccountOf[c]

(* A TCP tunnel asks for a port by its name; any other name it sends is    *)
(* only a label, while an HTTP tunnel is looked up by the name itself and  *)
(* finds no reservation of a port.                                         *)
IsTCP(t) == conf[t].type = "tcp"
LooksUp(t) == IF IsTCP(t) THEN ask[t] \in PortNames ELSE ask[t] # Anything
Family(t) == IF IsTCP(t) THEN PortNames ELSE Subdomains
Found(t) == IF ask[t] \in Family(t) THEN reserved[ask[t]] ELSE NoOne

(* checkOwnership: whether credential c may bind the row r.                *)
Foreign(r, c) == c = NoOne \/ r.account # Account(c)

(* Fault: any credential of the account will do.                           *)
EntitledByAccount(r, c) == ~Foreign(r, c) /\ r.enabled

Entitled(r, c) == ~Foreign(r, c) /\ r.enabled /\ r.client \in {NoOne, c}

(* ListReservationsForClient, oldest first: a row's id is when it was made.*)
Owned(t) ==
  {n \in Family(t) : /\ conf[t].client # NoOne /\ reserved[n] # NoOne
                     /\ reserved[n].client = conf[t].client /\ reserved[n].enabled}
First(r, S) == r \in S /\ \A q \in S : r.row.id <= q.row.id

(* Errors isFatalTunnelError ends the tunnel for; others are retried.      *)
Down(t, p) ==
  /\ phase' = [phase EXCEPT ![t] = p]
  /\ res' = [res EXCEPT ![t] = NoOne]
  /\ todo' = [todo EXCEPT ![t] = {}]
Retry(t) == Down(t, "down")
GiveUp(t) == Down(t, "gaveUp")

Resolved(t, r) ==
  /\ phase' = [phase EXCEPT ![t] = "claiming"]
  /\ res' = [res EXCEPT ![t] = r]
  /\ todo' = [todo EXCEPT ![t] = {}]

(* row: what the resolver read of name n, NoOne when nothing is reserved.  *)
Resolution(n, row) == [name |-> n, row |-> row]
Via(r) == IF r.row = NoOne THEN NoOne ELSE r.row.id

(* Fault: an unnamed tunnel that owns nothing slips into a closed fleet.   *)
UnreservedAsked(t) ==
  IF closed /\ LooksUp(t) THEN Retry(t) ELSE Resolved(t, Resolution(ask[t], NoOne))

(* What is left when no reservation applies.                               *)
Unreserved(t) == IF closed THEN Retry(t) ELSE Resolved(t, Resolution(ask[t], NoOne))

----------------------------------------------------------------------------
(* The client connects and is authenticated; an unknown token is fatal.    *)
Connect(t) ==
  /\ phase[t] = "down"
  /\ IF conf[t].client \in clients \cup {NoOne}
     THEN phase' = [phase EXCEPT ![t] = "known"] /\ UNCHANGED <<res, todo>>
     ELSE GiveUp(t)
  /\ UNCHANGED <<ask, once, store, server, fixed, admin>>

(* resolveHTTP and resolveTCP with a name or a port: one read decides.     *)
ResolveNamed(t) ==
  /\ phase[t] = "known" /\ LooksUp(t)
  /\ LET row == Found(t)  c == conf[t].client IN
       \/ row = NoOne /\ Unreserved(t)
       \/ row # NoOne /\ Entitled(row, c) /\ Resolved(t, Resolution(ask[t], row))
       \/ row # NoOne /\ ~Entitled(row, c) /\ Foreign(row, c) /\ ~IsTCP(t) /\ GiveUp(t)
       \/ row # NoOne /\ ~Entitled(row, c) /\ (~Foreign(row, c) \/ IsTCP(t)) /\ Retry(t)
  /\ UNCHANGED <<ask, once, store, server, fixed, admin>>

(* autoBind, first half: what the credential owns, read once.              *)
ListOwned(t) ==
  /\ phase[t] = "known" /\ ~LooksUp(t)
  /\ IF Owned(t) = {} THEN Unreserved(t)
     ELSE /\ phase' = [phase EXCEPT ![t] = "probing"]
          /\ todo' = [todo EXCEPT ![t] = {Resolution(n, reserved[n]) : n \in Owned(t)}]
          /\ UNCHANGED res
  /\ UNCHANGED <<ask, once, store, server, fixed, admin>>

(* autoBind, the loop: the first whose name no live tunnel holds.          *)
Probe(t) ==
  /\ phase[t] = "probing"
  /\ \/ todo[t] = {} /\ Retry(t)
     \/ \E r \in todo[t] :
          /\ First(r, todo[t]) /\ live[r.name] = NoOne
          /\ Resolved(t, r)
     \/ \E r \in todo[t] :
          /\ First(r, todo[t]) /\ live[r.name] # NoOne
          /\ todo' = [todo EXCEPT ![t] = @ \ {r}]
          /\ UNCHANGED <<phase, res>>
  /\ UNCHANGED <<ask, once, store, server, fixed, admin>>

(* A query fails: an error like any other to the client.                   *)
QueryFails(t) ==
  /\ phase[t] = "known" /\ Retry(t)
  /\ UNCHANGED <<ask, once, store, server, fixed, admin>>

----------------------------------------------------------------------------
(* A session id is that of the row; one that no pin in progress refers to  *)
(* stands for any fresh one.                                               *)
SessionIds == 1 .. Cardinality(Admins) + 1
Pinning(n) == {admin[a].session : a \in {b \in Admins : /\ admin[b].op \in {"pin", "link"}
                                                       /\ admin[b].from = n}}
NewSession(n) == CHOOSE i \in SessionIds : i \notin Pinning(n)

PortTaken(p) == \E n \in Names : live[n] # NoOne /\ live[n].port = p

(* The names Register may end with, and the port with each.                *)
Offers(t) ==
  IF ~IsTCP(t)
  THEN {[name |-> n, port |-> NoOne] :
          n \in IF res[t].name = Anything THEN {g \in Generated : live[g] = NoOne}
                ELSE {res[t].name}}
  ELSE {[name |-> IF res[t].name = Anything THEN p ELSE res[t].name, port |-> p] :
          p \in {q \in PortNames : /\ ~PortTaken(q)
                                   /\ res[t].name \in PortNames => q = res[t].name}}

(* RegisterOwned and recordSession, once the name is free; heard: the      *)
(* client of the session is in it.                                         *)
Install(t, offer, heard) ==
  LET n == offer.name IN
  /\ live' = [live EXCEPT ![n] =
                [tunnel |-> t, heard |-> heard, via |-> Via(res[t]), port |-> offer.port,
                 control |-> FALSE, told |-> NoOne]]
  /\ rows' = [rows EXCEPT ![n] =
                [id |-> NewSession(n), client |-> conf[t].client, link |-> Via(res[t]),
                 port |-> offer.port]]

(* The client has the answer: it is up, and will ask for this name again.  *)
Claim(t) ==
  /\ phase[t] = "claiming"
  /\ \E offer \in Offers(t) :
       /\ live[offer.name] = NoOne
       /\ Install(t, offer, TRUE)
       /\ ask' = [ask EXCEPT ![t] = offer.name]
  /\ once' = once \cup {t}
  /\ Down(t, "up")
  /\ UNCHANGED <<store, fixed, admin>>

(* The answer is lost: the server holds a session its client knows nothing *)
(* of until the server notices.                                            *)
ClaimUnheard(t) ==
  /\ phase[t] = "claiming"
  /\ \E offer \in Offers(t) : live[offer.name] = NoOne /\ Install(t, offer, FALSE)
  /\ Retry(t)
  /\ UNCHANGED <<ask, once, store, fixed, admin>>

(* Fault: "already taken" ends every tunnel.                               *)
ClaimRefusedForGood(t) ==
  /\ phase[t] = "claiming"
  /\ (\E offer \in Offers(t) : live[offer.name] # NoOne) /\ GiveUp(t)
  /\ UNCHANGED <<ask, once, store, server, fixed, admin>>

(* No port, or the name is held: "already taken" ends a tunnel that never  *)
(* was connected. AllocateSpecific and Allocate come before the name.      *)
ClaimRefused(t) ==
  /\ phase[t] = "claiming"
  /\ \/ Offers(t) = {} /\ Retry(t)
     \/ /\ \E offer \in Offers(t) : live[offer.name] # NoOne
        /\ IF t \in once THEN Retry(t) ELSE GiveUp(t)
  /\ UNCHANGED <<ask, once, store, server, fixed, admin>>

----------------------------------------------------------------------------
InSession(t, n) == live[n] # NoOne /\ live[n].tunnel = t /\ live[n].heard

OpenControl(t) ==
  \E n \in Names :
    /\ InSession(t, n) /\ ~live[n].control
    /\ live' = [live EXCEPT ![n].control = TRUE]
    /\ UNCHANGED <<client, store, rows, fixed, admin>>

(* The client leaves its session, whether or not the server knows.         *)
Leave(t) ==
  /\ Down(t, "down")
  /\ live' = [n \in Names |-> IF InSession(t, n) THEN [live[n] EXCEPT !.heard = FALSE]
                              ELSE live[n]]

(* The session breaks, or the client notices that it did.                  *)
Drop(t) ==
  /\ phase[t] = "up" /\ Leave(t)
  /\ UNCHANGED <<ask, once, store, rows, fixed, admin>>

(* handleControlFrame closes the client; the supervisor reads              *)
(* PendingRebind and asks for the target from now on.                      *)
Receive(t) ==
  \E n \in Names :
    /\ InSession(t, n) /\ live[n].told # NoOne
    /\ ask' = [ask EXCEPT ![t] = live[n].told]
    /\ Leave(t)
    /\ UNCHANGED <<once, store, rows, fixed, admin>>

(* Close of a session on the server: row and name go.                      *)
Teardown(n) ==
  /\ live[n] # NoOne
  /\ live' = [live EXCEPT ![n] = NoOne]
  /\ rows' = [rows EXCEPT ![n] = NoOne]
  /\ UNCHANGED <<client, store, fixed, admin>>

----------------------------------------------------------------------------
(* The foreign key of a reservation's client.                              *)
Exists(c) == c \in clients \cup {NoOne}
(* Fault: the client's account is not compared.                            *)
BelongsAnywhere(c, account) == Exists(c)

(* checkReservationClient                                                  *)
Belongs(c, account) == c = NoOne \/ (c \in clients /\ AccountOf[c] = account)

(* Bounded: no call begins that could no longer write.                     *)
Free(a) == admin[a] = Idle /\ writes < MaxWrites
Goto(a, call) == admin' = [admin EXCEPT ![a] = call]
Finish(a) == Goto(a, Idle)
Written == writes < MaxWrites /\ writes' = writes + 1
Unwritten == UNCHANGED <<reserved, writes>>

(* handleCreateReservation: check, then insert.                            *)
CheckCreate(a) ==
  \E new \in Requests :
    /\ Free(a) /\ Belongs(new.client, new.account)
    /\ Goto(a, [op |-> "create", name |-> new.name, account |-> new.account,
                client |-> new.client])
    /\ UNCHANGED <<client, store, server, fixed>>

(* CreateReservation: the unique index and the foreign keys, or any other  *)
(* error.                                                                  *)
Inserts(n, account, c) ==
  /\ reserved[n] = NoOne /\ account \in accounts /\ Exists(c)
  /\ Written
  /\ reserved' = [reserved EXCEPT ![n] =
       [id |-> writes', account |-> account, client |-> c, enabled |-> TRUE]]

Create(a) ==
  /\ admin[a].op = "create"
  /\ Inserts(admin[a].name, admin[a].account, admin[a].client) \/ Unwritten
  /\ Finish(a)
  /\ UNCHANGED <<client, accounts, clients, server, fixed>>

(* handleUpdateReservation reads the row and checks the client; it writes  *)
(* both fields back, so what another handler wrote in between is lost. A   *)
(* request changes one of them.                                            *)
ReadUpdate(a) ==
  \E n \in Names, c \in Clients \cup {NoOne}, enabled \in BOOLEAN :
    /\ Free(a) /\ reserved[n] # NoOne
    /\ (c = reserved[n].client) # (enabled = reserved[n].enabled)
    /\ Belongs(c, reserved[n].account)
    /\ Goto(a, [op |-> "update", name |-> n, id |-> reserved[n].id, client |-> c,
                enabled |-> enabled])
    /\ UNCHANGED <<client, store, server, fixed>>

Update(a) ==
  /\ admin[a].op = "update"
  /\ LET new == admin[a] IN
       \/ /\ reserved[new.name] # NoOne /\ reserved[new.name].id = new.id
          /\ Exists(new.client) /\ Written
          /\ reserved' = [reserved EXCEPT ![new.name].client = new.client,
                                          ![new.name].enabled = new.enabled]
       \/ Unwritten
  /\ Finish(a)
  /\ UNCHANGED <<client, accounts, clients, server, fixed>>

(* One statement each, at any moment of the handlers above.                *)
Delete(n) ==
  /\ reserved[n] # NoOne /\ Written
  /\ reserved' = [reserved EXCEPT ![n] = NoOne]
  /\ UNCHANGED <<client, accounts, clients, server, fixed, admin>>

(* ON DELETE CASCADE from the account, ON DELETE SET NULL from the client: *)
(* the name stays with the account.                                        *)
Cascade ==
  reserved' = [n \in Names |->
    IF reserved[n] = NoOne \/ reserved[n].account \notin accounts' THEN NoOne
    ELSE IF reserved[n].client \in clients' \cup {NoOne} THEN reserved[n]
    ELSE [reserved[n] EXCEPT !.client = NoOne]]

DeleteClient(c) ==
  /\ c \in clients /\ Written
  /\ clients' = clients \ {c} /\ UNCHANGED accounts
  /\ Cascade
  /\ UNCHANGED <<client, server, fixed, admin>>

DeleteAccount(account) ==
  /\ account \in accounts /\ Written
  /\ accounts' = accounts \ {account}
  /\ clients' = {c \in clients : AccountOf[c] # account}
  /\ Cascade
  /\ UNCHANGED <<client, server, fixed, admin>>

----------------------------------------------------------------------------
(* handlePinSession: read the session and check its client ...             *)
(* An HTTP tunnel that a stray rebind sent to tcp-<port> is left out: a     *)
(* subdomain of that form is not among the names modelled.                 *)
PinTargets(n) == IF rows[n].port = NoOne THEN (HTTPNames \cup {n}) \ PortNames
                 ELSE {rows[n].port}

StartPin(a, n) ==
  /\ Free(a) /\ rows[n] # NoOne
  /\ rows[n].client \in clients /\ rows[n].link = NoOne
  /\ \E m \in PinTargets(n) :
       Goto(a, [op |-> "pin", from |-> n, session |-> rows[n].id, name |-> m,
                client |-> rows[n].client])
  /\ UNCHANGED <<client, store, server, fixed>>

(* ... create the reservation ...                                          *)
Pin(a) ==
  /\ admin[a].op = "pin"
  /\ LET pin == admin[a] IN
       \/ /\ Inserts(pin.name, AccountOf[pin.client], pin.client)
          /\ Goto(a, [op |-> "link", from |-> pin.from, session |-> pin.session,
                      name |-> pin.name, id |-> writes'])
       \/ Unwritten /\ Finish(a)
  /\ UNCHANGED <<client, accounts, clients, server, fixed>>

(* Fault: every pin is taken for the tunnel that is live.                  *)
NeverRenamed(pin) == FALSE

(* ... link the session to it unless this is a rename; a failure is only   *)
(* logged ...                                                              *)
Renamed(pin) == pin.name \in Subdomains /\ pin.name # pin.from
Link(a) ==
  /\ admin[a].op = "link"
  /\ LET pin == admin[a] IN
       /\ \/ /\ ~Renamed(pin)
             /\ rows[pin.from] # NoOne /\ rows[pin.from].id = pin.session
             /\ rows' = [rows EXCEPT ![pin.from].link = pin.id]
          \/ UNCHANGED rows
       /\ Goto(a, [op |-> "rebind", from |-> pin.from, name |-> pin.name])
  /\ UNCHANGED <<client, store, live, fixed>>

(* ... and tell the connection that holds the name now.                    *)
Rebind(a) ==
  /\ admin[a].op = "rebind"
  /\ LET pin == admin[a] IN
       IF live[pin.from] # NoOne /\ live[pin.from].control
       THEN live' = [live EXCEPT ![pin.from].told = pin.name] ELSE UNCHANGED live
  /\ Finish(a)
  /\ UNCHANGED <<client, store, rows, fixed>>

----------------------------------------------------------------------------
ClientStep(t) ==
  \/ Connect(t) \/ ResolveNamed(t) \/ ListOwned(t) \/ Probe(t) \/ QueryFails(t)
  \/ Claim(t) \/ ClaimUnheard(t) \/ ClaimRefused(t)
  \/ OpenControl(t) \/ Drop(t) \/ Receive(t)

AdminStep(a) ==
  \/ CheckCreate(a) \/ Create(a) \/ ReadUpdate(a) \/ Update(a)
  \/ (\E n \in Names : StartPin(a, n))
  \/ Pin(a) \/ Link(a) \/ Rebind(a)

Next ==
  \/ \E t \in Tunnels : ClientStep(t)
  \/ \E a \in Admins : AdminStep(a)
  \/ \E n \in Names : Teardown(n) \/ Delete(n)
  \/ \E c \in Clients : AccountOf[c] \in Removable /\ DeleteClient(c)
  \/ \E account \in Removable : DeleteAccount(account)

Spec == Init /\ [][Next]_vars

----------------------------------------------------------------------------
Rows == [id: 1 .. MaxWrites, account: Accounts,
         client: Clients \cup {NoOne}, enabled: BOOLEAN]
Links == 1 .. MaxWrites \cup {NoOne}

(* Types, and what each phase of a registration carries with it.           *)
TypeOK ==
  /\ accounts \subseteq Accounts /\ clients \subseteq Clients
  /\ reserved \in [Names -> Rows \cup {NoOne}] /\ writes \in 0 .. MaxWrites
  /\ closed \in BOOLEAN /\ conf \in Deployments
  /\ phase \in [Tunnels -> Phases] /\ once \subseteq Tunnels
  /\ ask \in [Tunnels -> Names \cup {Anything}]
  /\ \A t \in Tunnels :
       /\ res[t] # NoOne <=> phase[t] = "claiming"
       /\ todo[t] # {} => phase[t] = "probing"
  /\ \A n \in Names :
       /\ live[n] # NoOne => /\ live[n].via \in Links /\ rows[n].id \in SessionIds
                             /\ live[n].heard => phase[live[n].tunnel] = "up"
       /\ live[n] # NoOne <=> rows[n] # NoOne

(* A tunnel comes to hold a subdomain or a port it asked for or bound only *)
(* if that was free of reservations or reserved to its account and         *)
(* credential: resolver.Resolve. A reservation written between resolving   *)
(* and claiming does not count, and a name or a port that the server draws,*)
(* or the label of a TCP tunnel, is not looked up.                         *)
ReservedToOwner ==
  [][\A t \in Tunnels, n \in Names :
       (/\ live'[n] # live[n] /\ live[n] = NoOne /\ live'[n].tunnel = t
        /\ res[t].name = n /\ n \in Family(t)
        /\ res[t].row = reserved[n] /\ reserved[n] # NoOne)
         => LET row == reserved[n]  c == conf[t].client IN
            /\ c # NoOne /\ row.account = AccountOf[c]
            /\ row.enabled /\ row.client \in {NoOne, c}]_vars

(* A reservation never outlives its account and is only ever bound to a    *)
(* credential of that account that exists, whatever handlers checked       *)
(* before they wrote: checkReservationClient and the foreign keys.         *)
BoundWithinAccount ==
  \A n \in Names : reserved[n] # NoOne =>
    /\ reserved[n].account \in accounts
    /\ reserved[n].client # NoOne =>
         reserved[n].client \in clients /\ AccountOf[reserved[n].client] = reserved[n].account

(* The panel never shows a session as bound to the reservation of another  *)
(* name or port: a pin that renames leaves the session alone.              *)
LinksOwnName ==
  \A n, m \in Names :
    (rows[n] # NoOne /\ reserved[m] # NoOne /\ rows[n].link = reserved[m].id)
      => m \in {n, rows[n].port}

(* With requireReservation every session is bound to a reservation, and no *)
(* two to the same one.                                                    *)
ClosedFleet ==
  closed => \A n, m \in Names :
    (live[n] # NoOne /\ live[m] # NoOne) =>
      /\ live[n].via # NoOne
      /\ live[n].via = live[m].via => n = m

(* A tunnel that was connected is not given up while its credential exists *)
(* and what it asks for is reserved for it, whoever holds that meanwhile,  *)
(* its own dead session for one: isFatalTunnelError.                       *)
Owns(t) == conf[t].client \in clients /\ Found(t) # NoOne /\ Entitled(Found(t), conf[t].client)
OwnerKeepsTrying ==
  [][\A t \in once : (Owns(t) /\ phase[t] # "gaveUp") => phase'[t] # "gaveUp"]_vars

(* README.md: a tunnel configured without a subdomain picks up what is     *)
(* reserved for its client on the next reconnect. The supervisor asks for  *)
(* the name it was last assigned instead, so this does not hold.           *)
PickedUpOnReconnect ==
  [][\A t \in Tunnels :
       (/\ conf[t].name = Anything /\ res[t] = NoOne
        /\ res'[t] # NoOne /\ res'[t].row = NoOne) => Owned(t) = {}]_vars
=============================================================================
