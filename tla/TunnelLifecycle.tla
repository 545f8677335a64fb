--------------------------- MODULE TunnelLifecycle --------------------------
(***************************************************************************)
(* internal/server/tcp: one tunnel's life on the server, from the accepted *)
(* connection to the last resource given back.                             *)
(*                                                                         *)
(* A handler goroutine (Listener.handleConnection, Connection.Handle,      *)
(* RegistrationHandler.Register, handleTCPTunnel, handleHTTPProxyTunnel)   *)
(* collects a port, a name, a session row, a connection group, a yamux     *)
(* session and a proxy, and tells ConnectionLifecycleManager of each one   *)
(* after it has it. Close runs once, from the handler's defer, from the    *)
(* stale-group task or from Listener.Stop, and gives back what the         *)
(* lifecycle manager knew when Close began.                                *)
(*                                                                         *)
(* tunnel.Manager is the atomic map TunnelRegistry that TunnelManager is   *)
(* proved to implement. Rows are the active_sessions table: they survive a *)
(* crash, everything else does not.                                        *)
(***************************************************************************)
EXTENDS Integers, FiniteSets

CONSTANTS
  Conns,           \* connections; one that ended may be accepted anew
  HTTPNames,       \* subdomains that are not of the form tcp-<port>
  Ports, NoPort,   \* the allocator's range as far as other processes leave it free,
                   \* and no port asked for
  PortName,        \* [Ports -> names]: tcp-<port>
  AnyName,         \* the empty custom subdomain
  Requests,        \* what clients register: [type, name, port, pool]
  None

Names == HTTPNames \cup {PortName[p] : p \in Ports}

ASSUME LifecycleAssumption ==
  /\ IsFiniteSet(Conns) /\ None \notin Conns \cup Names \cup Ports \cup {"held", "left"}
  /\ "held" \notin Conns /\ "left" \notin Conns
  /\ NoPort \notin Ports /\ AnyName \notin Names
  /\ \A p, q \in Ports : PortName[p] = PortName[q] => p = q
  /\ \A p \in Ports : PortName[p] \notin HTTPNames
  /\ Requests \subseteq [type: {"tcp", "http"}, name: Names \cup {AnyName},
                         port: Ports \cup {NoPort}, pool: BOOLEAN]

(* What Close gives back: the fields of ConnectionLifecycleManager.        *)
Resources == {"port", "name", "row", "group", "session", "proxy"}

(* Accepted and not yet in l.connections: in acceptLoop's hands, in the    *)
(* worker pool's queue, in its TLS handshake.                              *)
Arriving == {"accepted", "queued", "handshake"}
Handling ==
  {"reading", "alloc", "claim", "unclaim", "record", "keepPort", "keepName", "keepRow",
   "group", "keepGroup", "ack", "yamux", "proxy", "take", "listen", "serve", "closing"}
Stages == {"free"} \cup Arriving \cup Handling
CloseSteps ==
  {"open", "stopProxy", "shut", "freePort", "dropRow", "dropName", "dropGroup", "closed"}

VARIABLES
  stage,     \* [Conns -> Stages]: where the handler goroutine is
  req,       \* [Conns -> Requests]
  port,      \* [Conns -> Ports], once allocated
  name,      \* [Conns -> Names], once registered
  used,      \* [Ports -> Conns]: PortAllocator.used, and for whom
  socket,    \* [Ports -> Conns]: who listens; "held" is PortAllocator.listeners
  live,      \* [Names -> Conns]: tunnel.Manager
  rows,      \* [Names -> Conns]: active_sessions, unique by subdomain; "left" is
             \* the row of a tunnel that is gone, which a delete or a purge missed
  groups,    \* connections with an entry in ConnectionGroupManager
  known,     \* [Conns -> SUBSET Resources]: the lifecycle manager's fields
  snap,      \* [Conns -> SUBSET Resources]: the copy Close works from
  cstep,     \* [Conns -> CloseSteps]: how far Close is
  session,   \* [Conns -> {"none", "open", "closed"}]: the yamux session
  proxy,     \* [Conns -> {"none", "made", "running", "stopped"}]
  server,    \* Listener: "up", "ranging" and "waiting" in Stop, "down"
  pending,   \* connections Stop has still to close
  missed     \* connections not yet in l.connections when Range began (history only)

handler == <<stage, req, port, name>>
tables == <<used, socket, live, rows, groups>>
closing == <<known, snap, cstep>>
link == <<session, proxy>>
listener == <<server, pending, missed>>
vars == <<handler, tables, closing, link, listener>>

----------------------------------------------------------------------------
Goto(c, s) == stage' = [stage EXCEPT ![c] = s]
Keep(c, resource) == known' = [known EXCEPT ![c] = @ \cup {resource}]

(* stopCh is closed and ctx cancelled by the first step of Close, the      *)
(* network connection by its third.                                        *)
StopChClosed(c) == cstep[c] # "open"
ConnClosed(c) == cstep[c] \notin {"open", "stopProxy", "shut"}

Init ==
  /\ stage = [c \in Conns |-> "free"]
  /\ req = [c \in Conns |-> None]
  /\ port = [c \in Conns |-> None]
  /\ name = [c \in Conns |-> None]
  /\ used = [p \in Ports |-> None]
  /\ socket = [p \in Ports |-> None]
  /\ live = [n \in Names |-> None]
  /\ rows = [n \in Names |-> None]
  /\ groups = {}
  /\ known = [c \in Conns |-> {}]
  /\ snap = [c \in Conns |-> {}]
  /\ cstep = [c \in Conns |-> "open"]
  /\ session = [c \in Conns |-> "none"]
  /\ proxy = [c \in Conns |-> "none"]
  /\ server = "up"
  /\ pending = {}
  /\ missed = {}

----------------------------------------------------------------------------
(* acceptLoop has one connection at a time; a closed listener gives it no  *)
(* more. The steps of Stop before Range are those of Intake.               *)
Accept(c) ==
  /\ server = "up" /\ stage[c] = "free"
  /\ \A d \in Conns : stage[d] # "accepted"
  /\ Goto(c, "accepted")
  /\ UNCHANGED <<req, port, name, tables, closing, link, listener>>

(* The limit or a full worker pool turns it away. Stop waits for acceptLoop *)
(* too, which may come here after the listener is closed.                  *)
Submit(c) ==
  /\ stage[c] = "accepted"
  /\ \E to \in {"queued", "free"} : Goto(c, to)
  /\ UNCHANGED <<req, port, name, tables, closing, link, listener>>

(* A worker takes it; the TLS handshake has 10 seconds.                    *)
HandleConnection(c) ==
  /\ stage[c] = "queued"
  /\ Goto(c, "handshake")
  /\ UNCHANGED <<req, port, name, tables, closing, link, listener>>

HandshakeFails(c) ==
  /\ stage[c] = "handshake"
  /\ Goto(c, "free")
  /\ UNCHANGED <<req, port, name, tables, closing, link, listener>>

(* connections.Store. A Range that is under way may or may not see it.     *)
StoreConnection(c) ==
  /\ stage[c] = "handshake"
  /\ Goto(c, "reading")
  /\ IF server = "ranging" THEN pending' \in {pending, pending \cup {c}}
     ELSE UNCHANGED pending
  /\ UNCHANGED <<req, port, name, tables, closing, link, server, missed>>

(* No valid register frame within 30 seconds, authentication failed, or    *)
(* the resolver refused.                                                   *)
Reject(c) ==
  /\ stage[c] = "reading"
  /\ Goto(c, "closing")
  /\ UNCHANGED <<req, port, name, tables, closing, link, listener>>

Register(c) ==
  /\ stage[c] = "reading" /\ ~ConnClosed(c)
  /\ \E q \in Requests :
       /\ req' = [req EXCEPT ![c] = q]
       /\ Goto(c, IF q.type = "tcp" THEN "alloc" ELSE "claim")
  /\ UNCHANGED <<port, name, tables, closing, link, listener>>

(* AllocateSpecific and Allocate: a port is taken when it is not used and  *)
(* the probing listen succeeds. Allocate draws at random and may give up   *)
(* although some port is free.                                             *)
Free(p) == used[p] = None /\ socket[p] = None

Allocate(c) ==
  /\ stage[c] = "alloc"
  /\ \E p \in (IF req[c].port = NoPort THEN Ports ELSE {req[c].port}) :
       /\ Free(p)
       /\ used' = [used EXCEPT ![p] = c]
       /\ socket' = [socket EXCEPT ![p] = "held"]
       /\ port' = [port EXCEPT ![c] = p]
  /\ Goto(c, "claim")
  /\ UNCHANGED <<req, name, live, rows, groups, closing, link, listener>>

NoPortLeft(c) ==
  /\ stage[c] = "alloc"
  /\ \E p \in (IF req[c].port = NoPort THEN Ports ELSE {req[c].port}) : ~Free(p)
  /\ Goto(c, "closing")
  /\ UNCHANGED <<req, port, name, tables, closing, link, listener>>

(* The names RegisterOwned may give: the asked one, tcp-<port> for a TCP   *)
(* tunnel without one, a generated one for HTTP.                           *)
Asked(c) ==
  IF req[c].name # AnyName THEN {req[c].name}
  ELSE IF req[c].type = "tcp" THEN {PortName[port[c]]} ELSE HTTPNames

(* RegisterOwned, and Get, which finds the tunnel just registered.         *)
Claim(c) ==
  /\ stage[c] = "claim"
  /\ \E n \in Asked(c) :
       /\ live[n] = None
       /\ live' = [live EXCEPT ![n] = c]
       /\ name' = [name EXCEPT ![c] = n]
  /\ Goto(c, "record")
  /\ UNCHANGED <<req, port, used, socket, rows, groups, closing, link,
                 listener>>

(* The name is taken or refused, or a limit of the manager is reached.     *)
ClaimRefused(c) ==
  /\ stage[c] = "claim"
  /\ Goto(c, IF req[c].type = "tcp" THEN "unclaim" ELSE "closing")
  /\ UNCHANGED <<req, port, name, tables, closing, link, listener>>

(* PortAllocator.Release: the held listener is closed; one that TakeListener *)
(* gave away is not the allocator's to close.                              *)
Release(p) ==
  /\ used' = [used EXCEPT ![p] = None]
  /\ socket' = [socket EXCEPT ![p] = IF @ = "held" THEN None ELSE @]

(* Fault: the refused registration keeps its port.                         *)
UnclaimForgotten(c) ==
  /\ stage[c] = "unclaim"
  /\ port' = [port EXCEPT ![c] = None]
  /\ Goto(c, "closing")
  /\ UNCHANGED <<req, name, tables, closing, link, listener>>

Unclaim(c) ==
  /\ stage[c] = "unclaim"
  /\ Release(port[c])
  /\ port' = [port EXCEPT ![c] = None]
  /\ Goto(c, "closing")
  /\ UNCHANGED <<req, name, live, rows, groups, closing, link, listener>>

(* recordSession. The insert fails on a row of the same subdomain, on a    *)
(* cancelled context, or on the database; the failure is swallowed.        *)
RecordSession(c) ==
  /\ stage[c] = "record"
  /\ \/ /\ rows[name[c]] = None /\ ~StopChClosed(c)
        /\ rows' = [rows EXCEPT ![name[c]] = c]
     \/ UNCHANGED rows
  /\ Goto(c, "keepPort")
  /\ UNCHANGED <<req, port, name, used, socket, live, groups, closing, link,
                 listener>>

(* SetPortAllocation, SetTunnelRegistration and SetSessionRecord take the  *)
(* lifecycle manager's lock one after the other. A port of 0 and an empty  *)
(* session ID are stored too, and Close skips them.                        *)
SetPortAllocation(c) ==
  /\ stage[c] = "keepPort"
  /\ IF port[c] # None THEN Keep(c, "port") ELSE UNCHANGED known
  /\ Goto(c, "keepName")
  /\ UNCHANGED <<req, port, name, tables, snap, cstep, link, listener>>

SetTunnelRegistration(c) ==
  /\ stage[c] = "keepName"
  /\ Keep(c, "name")
  /\ Goto(c, "keepRow")
  /\ UNCHANGED <<req, port, name, tables, snap, cstep, link, listener>>

SetSessionRecord(c) ==
  /\ stage[c] = "keepRow"
  /\ IF rows[name[c]] = c THEN Keep(c, "row") ELSE UNCHANGED known
  /\ Goto(c, IF req[c].pool THEN "group" ELSE "ack")
  /\ UNCHANGED <<req, port, name, tables, snap, cstep, link, listener>>

CreateGroup(c) ==
  /\ stage[c] = "group"
  /\ groups' = groups \cup {c}
  /\ Goto(c, "keepGroup")
  /\ UNCHANGED <<req, port, name, used, socket, live, rows, closing, link,
                 listener>>

SetTunnelID(c) ==
  /\ stage[c] = "keepGroup"
  /\ Keep(c, "group")
  /\ Goto(c, "ack")
  /\ UNCHANGED <<req, port, name, tables, snap, cstep, link, listener>>

(* The registration ack: the client may be gone before it is written.      *)
SendAck(c) ==
  /\ stage[c] = "ack"
  /\ Goto(c, IF ConnClosed(c) THEN "closing" ELSE "yamux")
  /\ UNCHANGED <<req, port, name, tables, closing, link, listener>>

AckFails(c) ==
  /\ stage[c] = "ack" /\ ~ConnClosed(c)
  /\ Goto(c, "closing")
  /\ UNCHANGED <<req, port, name, tables, closing, link, listener>>

(* yamux.Client and SetSession. A session over a connection that Close has *)
(* closed, or will, ends by itself.                                        *)
OpenSession(c) ==
  /\ stage[c] = "yamux"
  /\ session' = [session EXCEPT ![c] = "open"]
  /\ Keep(c, "session")
  /\ Goto(c, IF req[c].type = "tcp" THEN "proxy" ELSE "serve")
  /\ UNCHANGED <<req, port, name, tables, snap, cstep, proxy, listener>>

(* NewProxy and SetProxy.                                                  *)
SetProxy(c) ==
  /\ stage[c] = "proxy"
  /\ proxy' = [proxy EXCEPT ![c] = "made"]
  /\ Keep(c, "proxy")
  /\ Goto(c, "take")
  /\ UNCHANGED <<req, port, name, tables, snap, cstep, session, listener>>

(* TakeListener: the listener the allocator holds is now the handler's.    *)
TakeListener(c) ==
  /\ stage[c] = "take"
  /\ socket' = [socket EXCEPT ![port[c]] = IF @ = "held" THEN c ELSE @]
  /\ Goto(c, "listen")
  /\ UNCHANGED <<req, port, name, used, live, rows, groups, closing, link,
                 listener>>

(* Proxy.StartWithListener: without a listener it listens itself, a        *)
(* stopped proxy closes it again.                                          *)
StartWithListener(c) ==
  LET p == port[c] IN
  /\ stage[c] = "listen"
  /\ \/ /\ socket[p] \in {c, None} /\ proxy[c] = "made"
        /\ socket' = [socket EXCEPT ![p] = c]
        /\ proxy' = [proxy EXCEPT ![c] = "running"]
        /\ Goto(c, "serve")
     \/ /\ socket[p] \notin {c, None} \/ proxy[c] = "stopped"
        /\ socket' = [socket EXCEPT ![p] = IF @ = c THEN None ELSE @]
        /\ Goto(c, "closing")
        /\ UNCHANGED proxy
  /\ UNCHANGED <<req, port, name, used, live, rows, groups, closing,
                 session, listener>>

(* The client goes away, the network fails, or the connection below the    *)
(* session was closed.                                                     *)
SessionEnds(c) ==
  /\ session[c] = "open"
  /\ session' = [session EXCEPT ![c] = "closed"]
  /\ UNCHANGED <<handler, tables, closing, proxy, listener>>

(* Fault: the end of the session goes unnoticed.                           *)
ReturnOnStop(c) ==
  /\ stage[c] = "serve"
  /\ StopChClosed(c)
  /\ Goto(c, "closing")
  /\ UNCHANGED <<req, port, name, tables, closing, link, listener>>

(* The select at the end of handleTCPTunnel and handleHTTPProxyTunnel.     *)
Return(c) ==
  /\ stage[c] = "serve"
  /\ StopChClosed(c) \/ session[c] = "closed"
  /\ Goto(c, "closing")
  /\ UNCHANGED <<req, port, name, tables, closing, link, listener>>

----------------------------------------------------------------------------
(* Fault: the name is freed while the session row is still there.          *)
CloseOrderNameFirst ==
  [open |-> "stopProxy", stopProxy |-> "shut", shut |-> "freePort", freePort |-> "dropName",
   dropName |-> "dropRow", dropRow |-> "dropGroup", dropGroup |-> "closed"]

(* The order of Close: each step's successor.                              *)
CloseOrder ==
  [open |-> "stopProxy", stopProxy |-> "shut", shut |-> "freePort", freePort |-> "dropRow",
   dropRow |-> "dropName", dropName |-> "dropGroup", dropGroup |-> "closed"]

Advance(c) == cstep' = [cstep EXCEPT ![c] = CloseOrder[@]]

(* ConnectionLifecycleManager.Close, inside once: close stopCh, cancel,    *)
(* and copy the fields.                                                    *)
BeginClose(c) ==
  /\ cstep[c] = "open"
  /\ Advance(c)
  /\ snap' = [snap EXCEPT ![c] = known[c]]
  /\ UNCHANGED <<handler, tables, known, link>>

(* The deferred Close of Handle.                                           *)
DeferredClose(c) == stage[c] = "closing" /\ BeginClose(c) /\ UNCHANGED listener

(* cleanupStaleGroups closes the primary connection of a group without     *)
(* activity. That takes minutes, so its handler is long past registration. *)
CloseStaleGroup(c) ==
  /\ c \in groups /\ stage[c] = "serve"
  /\ BeginClose(c) /\ UNCHANGED listener

(* Proxy.Stop closes the listener it was given, if it has started.         *)
StopProxy(c) ==
  /\ cstep[c] = "stopProxy"
  /\ IF "proxy" \in snap[c]
     THEN /\ proxy' = [proxy EXCEPT ![c] = "stopped"]
          /\ socket' = IF proxy[c] = "running"
                       THEN [socket EXCEPT ![port[c]] = None] ELSE socket
     ELSE UNCHANGED <<proxy, socket>>
  /\ Advance(c)
  /\ UNCHANGED <<handler, used, live, rows, groups, known, snap, session,
                 listener>>

(* session.Close and conn.Close.                                           *)
Shut(c) ==
  /\ cstep[c] = "shut"
  /\ IF "session" \in snap[c] THEN session' = [session EXCEPT ![c] = "closed"]
     ELSE UNCHANGED session
  /\ Advance(c)
  /\ UNCHANGED <<handler, tables, known, snap, proxy, listener>>

FreePort(c) ==
  /\ cstep[c] = "freePort"
  /\ IF "port" \in snap[c] THEN Release(port[c]) ELSE UNCHANGED <<used, socket>>
  /\ Advance(c)
  /\ UNCHANGED <<handler, live, rows, groups, known, snap, link, listener>>

(* DeleteSession gives up after 5 seconds; the row is then left behind.    *)
DropRow(c) ==
  /\ cstep[c] = "dropRow"
  /\ IF "row" \in snap[c]
     THEN \E left \in {None, "left"} : rows' = [rows EXCEPT ![name[c]] = left]
     ELSE UNCHANGED rows
  /\ Advance(c)
  /\ UNCHANGED <<handler, used, socket, live, groups, known, snap, link, listener>>

DropName(c) ==
  /\ cstep[c] = "dropName"
  /\ IF "name" \in snap[c] THEN live' = [live EXCEPT ![name[c]] = None]
     ELSE UNCHANGED live
  /\ Advance(c)
  /\ UNCHANGED <<handler, used, socket, rows, groups, known, snap, link,
                 listener>>

(* RemoveGroup; a closed group closes its sessions.                        *)
DropGroup(c) ==
  /\ cstep[c] = "dropGroup"
  /\ IF "group" \in snap[c] THEN groups' = groups \ {c} ELSE UNCHANGED groups
  /\ Advance(c)
  /\ UNCHANGED <<handler, used, socket, live, rows, known, snap, link,
                 listener>>

(* handleConnection ends: the connection leaves l.connections and the wait *)
(* group. Handle's deferred Close has waited for a Close under way.        *)
Leave(c) ==
  /\ stage[c] = "closing" /\ cstep[c] = "closed"
  /\ Goto(c, "free")
  /\ req' = [req EXCEPT ![c] = None]
  /\ port' = [port EXCEPT ![c] = None]
  /\ name' = [name EXCEPT ![c] = None]
  /\ known' = [known EXCEPT ![c] = {}]
  /\ snap' = [snap EXCEPT ![c] = {}]
  /\ cstep' = [cstep EXCEPT ![c] = "open"]
  /\ session' = [session EXCEPT ![c] = "none"]
  /\ proxy' = [proxy EXCEPT ![c] = "none"]
  /\ UNCHANGED <<used, socket, live, rows, groups, listener>>

----------------------------------------------------------------------------
(* Fault: Stop closes only the tunnels that already serve.                 *)
StopServing ==
  /\ server = "up"
  /\ server' = "ranging"
  /\ pending' = {c \in Conns : stage[c] = "serve"}
  /\ missed' = {c \in Conns : stage[c] \in Arriving}
  /\ UNCHANGED <<handler, tables, closing, link>>

(* Listener.Stop, once the listener is closed: Range closes each connection *)
(* in l.connections in turn; then Stop waits for acceptLoop and for every  *)
(* handleConnection, stored or not, and closes the groups.                 *)
Stop ==
  /\ server = "up"
  /\ server' = "ranging"
  /\ pending' = {c \in Conns : stage[c] \in Handling}
  /\ missed' = {c \in Conns : stage[c] \in Arriving}
  /\ UNCHANGED <<handler, tables, closing, link>>

StopCloses(c) ==
  /\ server = "ranging" /\ c \in pending /\ stage[c] \in Handling
  /\ BeginClose(c) /\ UNCHANGED listener

(* Close returns to Range when the Close of c has run, whoever began it.   *)
StopClosed(c) ==
  /\ server = "ranging" /\ c \in pending
  /\ cstep[c] = "closed" \/ stage[c] = "free"
  /\ pending' = pending \ {c}
  /\ UNCHANGED <<handler, tables, closing, link, server, missed>>

StopWaits ==
  /\ server = "ranging" /\ pending = {}
  /\ server' = "waiting"
  /\ UNCHANGED <<handler, tables, closing, link, pending, missed>>

StopReturns ==
  /\ server = "waiting" /\ \A c \in Conns : stage[c] = "free"
  /\ server' = "down"
  /\ groups' = {}
  /\ UNCHANGED <<handler, used, socket, live, rows, closing, link, pending,
                 missed>>

(* The process ends, after Stop or in a crash, and starts again: the rows  *)
(* are what is left, and PurgeSessions empties them before the listener    *)
(* starts. A purge that fails is a warning.                                *)
Restart ==
  /\ \E left \in {None, "left"} :
       rows' = [n \in Names |-> IF rows[n] = None THEN None ELSE left]
  /\ stage' = [c \in Conns |-> "free"]
  /\ req' = [c \in Conns |-> None]
  /\ port' = [c \in Conns |-> None]
  /\ name' = [c \in Conns |-> None]
  /\ used' = [p \in Ports |-> None]
  /\ socket' = [p \in Ports |-> None]
  /\ live' = [n \in Names |-> None]
  /\ groups' = {}
  /\ known' = [c \in Conns |-> {}]
  /\ snap' = [c \in Conns |-> {}]
  /\ cstep' = [c \in Conns |-> "open"]
  /\ session' = [c \in Conns |-> "none"]
  /\ proxy' = [c \in Conns |-> "none"]
  /\ server' = "up"
  /\ pending' = {}
  /\ missed' = {}

----------------------------------------------------------------------------
(* What the handler goroutine does by itself: the handshake and the reads  *)
(* before the registration have deadlines, of 10 and of 30 seconds.        *)
Handle(c) ==
  \/ HandshakeFails(c) \/ StoreConnection(c) \/ Reject(c) \/ Register(c)
  \/ Allocate(c) \/ NoPortLeft(c) \/ Claim(c) \/ ClaimRefused(c) \/ Unclaim(c)
  \/ RecordSession(c) \/ SetPortAllocation(c) \/ SetTunnelRegistration(c)
  \/ SetSessionRecord(c) \/ CreateGroup(c) \/ SetTunnelID(c) \/ SendAck(c) \/ AckFails(c)
  \/ OpenSession(c) \/ SetProxy(c) \/ TakeListener(c) \/ StartWithListener(c)
  \/ Return(c) \/ DeferredClose(c) \/ Leave(c)

Close(c) ==
  StopProxy(c) \/ Shut(c) \/ FreePort(c) \/ DropRow(c) \/ DropName(c) \/ DropGroup(c)

Stopping == StopWaits \/ StopReturns \/ \E c \in Conns : StopCloses(c) \/ StopClosed(c)

(* The behaviours in which the server is never told to stop. When a worker *)
(* is free to take a connection, nobody promises.                          *)
Serve ==
  \/ \E c \in Conns :
       \/ Accept(c) \/ Submit(c) \/ HandleConnection(c)
       \/ Handle(c) \/ SessionEnds(c) \/ CloseStaleGroup(c) \/ Close(c)
  \/ Restart

Next == Serve \/ Stop \/ Stopping

Fairness ==
  /\ \A c \in Conns : WF_vars(Handle(c)) /\ WF_vars(Close(c))
  /\ WF_vars(Stopping)

Spec == Init /\ [][Next]_vars /\ Fairness
ServingSpec == Init /\ [][Serve]_vars /\ Fairness

----------------------------------------------------------------------------
(* The type of every variable, and what a handler has at each stage.       *)
TypeOK ==
  /\ stage \in [Conns -> Stages]
  /\ req \in [Conns -> Requests \cup {None}]
  /\ port \in [Conns -> Ports \cup {None}]
  /\ name \in [Conns -> Names \cup {None}]
  /\ used \in [Ports -> Conns \cup {None}]
  /\ socket \in [Ports -> Conns \cup {"held", None}]
  /\ live \in [Names -> Conns \cup {None}]
  /\ rows \in [Names -> Conns \cup {"left", None}]
  /\ groups \subseteq Conns
  /\ known \in [Conns -> SUBSET Resources]
  /\ snap \in [Conns -> SUBSET Resources]
  /\ cstep \in [Conns -> CloseSteps]
  /\ session \in [Conns -> {"none", "open", "closed"}]
  /\ proxy \in [Conns -> {"none", "made", "running", "stopped"}]
  /\ server \in {"up", "ranging", "waiting", "down"}
  /\ pending \subseteq Conns
  /\ missed \subseteq Conns
  /\ \A c \in Conns :
       /\ stage[c] \in {"unclaim", "proxy", "take", "listen"} => port[c] \in Ports
       /\ stage[c] \in {"record", "group", "yamux", "serve"} => name[c] \in Names

(* What c has and has not given back.                                      *)
HoldsPort(c) == \E p \in Ports : used[p] = c \/ socket[p] = c
HoldsName(c) == \E n \in Names : live[n] = c
HoldsRow(c) == \E n \in Names : rows[n] = c

(* A connection that is gone has given back its port, its socket, its      *)
(* name, its row and its group, whatever step its registration failed at   *)
(* and whoever closed it. While the listener is up: Stop may close a       *)
(* connection that is still registering, see CleansUpAll.                  *)
NothingLeaks ==
  server = "up" =>
    \A c \in Conns : stage[c] \in {"free"} \cup Arriving =>
      ~HoldsPort(c) /\ ~HoldsName(c) /\ ~HoldsRow(c) /\ c \notin groups

(* Close "cleans up all resources", says its comment; with it under way or *)
(* done, nothing is left once the handler is gone.                         *)
CleansUpAll ==
  \A c \in Conns : stage[c] = "free" => ~HoldsPort(c) /\ ~HoldsName(c) /\ ~HoldsRow(c)

(* "The session row goes first": a client that gets a name never finds the *)
(* row of the name's previous tunnel, so its session is recorded and can   *)
(* be pinned. Only a failed delete or purge leaves a row in the way.       *)
RowGoesFirst ==
  server = "up" =>
    \A c \in Conns : stage[c] = "record" =>
      rows[name[c]] \in {None, "left"}

(* A port that is not used is not listened on: AllocateSpecific never      *)
(* fails because the tunnel that had the port before is still on it.       *)
FreedPortIsSilent ==
  server = "up" => \A p \in Ports : used[p] = None => socket[p] = None

(* A proxy that Close has stopped listens no more, although Stop may come  *)
(* before, while or after it starts: once its handler is out of            *)
(* StartWithListener, the accept loop is not running.                      *)
StoppedProxyIsSilent ==
  \A c \in Conns :
    "proxy" \in snap[c] /\ cstep[c] \notin {"open", "stopProxy"} /\ stage[c] # "listen"
      => \A p \in Ports : socket[p] # c

(* Close releases by number and unregisters by name; both are still the    *)
(* connection's own when it does.                                          *)
ReleasesOwn ==
  \A c \in Conns :
    /\ cstep[c] = "freePort" /\ "port" \in snap[c] => used[port[c]] = c
    /\ cstep[c] = "dropName" /\ "name" \in snap[c] => live[name[c]] = c

(* Close gives everything back, its own and in an order that nobody who    *)
(* takes it next can notice: row, proxy, port, name.                       *)
ClosesCleanly == RowGoesFirst /\ FreedPortIsSilent /\ ReleasesOwn

(* A tunnel whose session has ended is dismantled, all of it.              *)
Dismantled ==
  \A c \in Conns : (stage[c] = "serve" /\ session[c] = "closed") ~> stage[c] = "free"

(* Of the tunnels that were in l.connections when Range began, Stop waits  *)
(* for none in vain: one that still serves when Range is over has been     *)
(* told to stop. A connection that was accepted, queued or in its TLS      *)
(* handshake at that moment may escape Range: nobody tells it to stop, and *)
(* Stop waits until its client leaves.                                     *)
StopClosesAll ==
  server = "waiting" =>
    \A c \in Conns \ missed : stage[c] = "serve" => StopChClosed(c)

(* Stop tells everybody in l.connections, and stopping a proxy is final.   *)
StopsAll == StoppedProxyIsSilent /\ StopClosesAll
=============================================================================
