# A TLA+ development of drip

drip is a tunnel server and its client: a client behind a NAT registers a tunnel
under a subdomain (HTTP) or a port (TCP), keeps one or several yamux sessions to
the server open, and the server forwards public traffic over them. A control
plane (SQLite, an admin API, credentials) decides who may register what.

These modules model the concurrent core of server and client, statement by
statement where order matters, and leave out wording, encoding and I/O. Every definition that
models code names its lines in `PROJECT.json` under `map`.

## 1. Inventory

| Part | State | Operations | Talks to | What makes it correct |
|---|---|---|---|---|
| Tunnel manager (`server/tunnel/manager.go`, `rate_limiter.go`) | sharded map name → tunnel, global counter, per-account and per-IP tables, rate-limit windows, each under its own lock | RegisterOwned with rollbacks, Unregister, CleanupStale | called by the registration handler, by Close, by the proxy (Get) | counters are the tunnels they count, names are unique, limits hold |
| Connection lifecycle (`server/tcp/connection.go`, `registration_handler.go`, `lifecycle_manager.go`, `tunnel.go`) | one goroutine per connection, a record of what it has acquired, a once-only Close | Handle, Register, setters, Close | manager, allocator, store, groups, yamux, proxy | whatever fails, everything acquired is given back, in the right order |
| Listener (`listener.go`) | map of connections, worker queue, wait group | Start, accept, Stop | connections | Stop closes everything and returns |
| Port allocator, TCP proxy | used ports, held listeners; accept loop | Allocate, TakeListener, Release; Start, Stop | lifecycle | no port is used twice or left listening |
| Connection groups (`connection_group*.go`, `data_connection_handler.go`) | sessions of a tunnel, heartbeats | AddSession, RemoveSession, OpenStream, cleanup | data connections, proxy | streams go to live sessions only; a closed group stays closed |
| HTTP hand-off (`http_conn_listener.go`, `http_request_handler.go`) | a queue of connections | Enqueue, Accept, Close | listener, net/http | every connection is served or closed, once |
| Authenticator (`server/auth`) | cache of client and account rows with a TTL | Authenticate, Invalidate, PurgeExpired | store, admin API | a revoked credential stops working |
| Store (`server/store`) | SQLite tables: accounts, clients, reservations, active_sessions, admin users and sessions | CRUD, purge, migrate | all of the control plane | cascades, unique names, rows that match what is live |
| Admin API (`server/admin`) | login limiter, admin sessions, the gate's latch | bootstrap, login, CRUD, pin, provision | store, authenticator, manager | setup open until it is done and no longer, revocations that bite, pins that land, copies that restore nothing |
| Reservation resolver (`server/reservations`) | none | Resolve, autoBind | store, manager | a reserved name goes only to its owner |
| HTTP proxy (`server/proxy`) | auth sessions, failure counts, active connections of a tunnel | ServeHTTP, login, WebSocket | manager, groups | lock-outs that last, no stream left open or counted |
| TLS and DNS (`server/tls`) | zone records held by a provider | Append, Delete | certmagic | a challenge record survives until it is removed, and nothing removed comes back |
| Client pool (`client/tcp`) | sessions, slots, scaler | Connect, warm-up, scale, Close | server | between one and MaxSessions sessions, none after Close |
| Client supervisor (`client/cli`) | sticky name, back-off | superviseTunnel, runTunnelWithUI | pool | a tunnel comes back, under its name |
| Background tunnels (`client/cli/daemon*.go`, `stop.go`) | a file per type and port with a process number | start, list, attach, stop | operating system | what runs is listed and what is stopped has ended |
| Server process (`client/cli/server.go`) | the order of start and shutdown | runServer | every part of the server | nothing uses the store after it is closed |
| Frame writer (`shared/protocol/writer.go`) | batch, data and control queues | WriteFrame, WriteControl, Flush, Close | both ends | no frame lost, doubled or written after Close |
| Helpers (`shared/pool`, `netutil`, `qos`) | queues, buffers | Submit, Pipe, IsAllowed | everywhere | a job accepted is a job run |

Hard behaviours: no lock spans a registration; Close is called from four places
and may overlap the registration it ends; a crash leaves rows behind; lookups
read the database without a lock and store what they read later; Stop meets
connections at every stage. `PROJECT.json` lists the hazards line by line with
the properties that cover them, or why none does yet.

## 2. Plan

Order, most important first. Items 1 to 11 are done.

1. `TunnelRegistry` (abstract), `TunnelManager` (detailed).
2. `TunnelLifecycle`, using `TunnelRegistry`'s atomic map in place of the manager,
   which the refinement of 1 justifies.
3. `CredentialCache`: authenticator against admin handlers.
4. `Reservations`: resolver, auto-bind, pin and rebind, with the client's sticky
   name.
5. `ConnectionGroup`: sessions, heartbeats, data connections; `StreamForwarding`:
   selection of a session, the TCP proxy's visitors.
6. `ClientPool` and, composed with it, `TunnelSupervisor`.
7. `FrameWriter`.
8. `Intake`: accept loop, worker pool, HTTP hand-off, WebSocket connections.
9. `AdminSetup`, `LoginLimiter`, `Provisioning`: the panel and the command line on
   one database.
10. `ChallengeZone`, `VisitorAccess`, `Daemons`, `ServerProcess`.
11. Theorems: the safety properties of all of these, see section 5.

Left:

12. Pure operators: access lists, bandwidth, subdomain parsing.
13. The legacy frame path, `drip start` with several tunnels, the installation of the
    Windows service step by step.
14. A queue that delivers once as the abstract specification of `FrameWriter`.

## 3. Modules

### TunnelRegistry, TunnelManager

`TunnelRegistry` is what callers of the manager may rely on: a map from name to
tunnel, changed one entry at a time, only at a free name and only while the
global, account and (for addresses that only anonymous clients use) address
limits have room.

`TunnelManager` has one action per critical section of `RegisterOwned`, of its
four rollback closures, of `Unregister` and of `CleanupStale`. `pc` is where a
goroutine is, `req` what it was called with, `owed` what `Unregister` read before
it released the shard lock. `tunnels` merges the map and the `used` set of a
shard, which are always changed together under its lock. The compare-and-swap
loop of the global counter is one step. Names come from a small set of which some
are `Unusable` (reserved or malformed); generated names are any usable one. The
clock of the rate limiter is `WindowEnds`. `cleanup` says whether the process
called `StartCleanupTask`; the server does not, tests do, so both are explored.
`granted` is a history variable.

### TunnelLifecycle

One record of `stage` per connection, from `accepted` to `closing`. Before
`l.connections` has it, a connection is in `acceptLoop`'s hands, in the worker pool's
queue, or in its TLS handshake (`Arriving`): `StoreConnection` ends that, and `Range`
of `Stop` sees nothing earlier, while its `wg.Wait` waits for all of it. Each
setter of the lifecycle manager is an action of its own, because Close snapshots
the fields under the same lock and may do so between any two of them. Close is a
sequence, `CloseOrder`, started by the handler's defer, by the stale-group task or
by `Stop`. `rows` is the `active_sessions` table: it survives `Restart`, which is
both a crash and a regular restart, and whose purge may fail.

Abstractions: the manager is atomic; limits of the manager are the free choice of
`ClaimRefused`; the stale-group task closes only tunnels that serve, since a group
must be silent for five minutes; `Ports` are the ports other processes leave free.
`AllocateSpecific` and `Allocate` probe by listening, so `socket` is tracked apart
from `used`. The hand-off of plain HTTP, data connections and the legacy frame
loop are not in this module.

### CredentialCache

`login[p]` is a call of `Authenticate`, in steps as far apart as the code's
unlocked sections: look in the cache, read the client, read the account, store
both, decide. `admin[a]` is a call of an admin handler with the steps it still has
to do, in its own order: updates write and then invalidate, deletes invalidate and
then write. `raced` marks a fill that overlapped a handler on its client, `barred`
a call that began when its secret was already revoked by handlers that have
answered; both are history. Any query may fail. An update writes either value of
`enabled`, which covers both what the request asks and a value read before another
handler changed it.

### Reservations

A tunnel goes `down`, `known` (authenticated), `claiming` (resolved), `up`; an
unnamed one whose credential owns reservations is `probing` in between, one name
per step. `ask` is the name it will ask for, which the supervisor overwrites with
the name it was given; `once` holds those that connected at least once; `res` is
what the resolver answered, `todo` the reservations still to probe. On the server
`live` is the manager's map, with who holds the name, whether the client heard of
it and the rebind it was told, and `rows` the `active_sessions`. `reserved` is
`tunnel_reservations` with its unique indexes; `writes` counts administrators'
writes and so dates the rows. `admin` is a handler in progress: creation and update
check and later write; a pin reads the session, inserts, links and rebinds, a step
each. Deletions are one statement, at any moment, with their cascades.

Abstractions. A claim and a teardown are one step each (the modules above have
them in detail), so the answer of a claim is heard or lost as a whole. An HTTP
subdomain of the form `tcp-<port>` is left out. A session id comes back once no pin
refers to it, which a fresh id could not be told from. Rows are ordered by
creation, no two in one second. A restarted client process is another tunnel.
Credentials are looked up in the tables, their cache being `CredentialCache`'s
subject. An update request changes one field. Bandwidth is left out.

### ConnectionGroup, StreamForwarding

`ConnectionGroup` is one group: the handlers of its primary and its data
connections, each from its lookup of the group to its end; the heartbeat loop,
which snapshots the sessions (`toPing`), visits them one by one and waits for one
ping at a time; the goroutines of the pings (`ping`), which may outlive that wait;
Close of the primary connection as far as the group sees it (`owner`; the rest is
`TunnelLifecycle`'s); the stale-group task (`cleaner`). `RemoveSession` takes a
session off and closes it in one step; `Close` of the group empties it in one step
and closes the sessions one by one (`closing`). `missed` is history.

Abstractions. A group becomes stale (`GrowQuiet`) only when nobody who answers is
in it and no connection is on its way in, since five minutes are longer than both;
a stale group may become active again before the task acts, which does not look
twice. The primary's failures are not counted, as they only cause a warning. Ids
of data connections are unique. When the loop ends its local maps are reset.
`ConnectionGroupManager.Close` comes after every connection is closed and is left
out. A data connection that found the group before it was removed may join it
after its Close; the model does that, and no property forbids it.

`StreamForwarding` puts the TCP proxy's visitors over such a group: `visitor` is
`handleConn`, `opener` its goroutine in `OpenStream`. A visit is short beside a
heartbeat interval, and removing a session does to a stream what `Break` and
`Leave` do, so the heartbeat stands still here. `heap` keeps the loads of the
moment it was built; the order of equal loads is free. Opening on yamux may fail
for any reason. `roomy` is history: the data sessions that had room ever since the
call began and have not refused it.

### ClientPool, TunnelSupervisor

`ClientPool` is one `PoolClient`. `connect` is where `Connect` is, `adding[s]` where
a call of `addDataSession` is that would add the session `s`, and `adder[s]` whether
the warm-up or the scaler made it; `loops[s]` stands for a session's accept and ping
loop, which end together, `control` for the loop of the control stream, `handler[v]`
for the goroutine that serves the stream `v`. `closing` is Close, which anyone may
call once. `link[s]` is the connection as the network and both ends left it. A
handler on an upgraded request waits for the local service and is not reached by
anything; the others end when their stream does. `done` is `doneCh`, closed when
the wait group is empty.

`TunnelSupervisor` extends it with the two loops that use a client: `superviseTunnel`
of the service and `runTunnelWithUI` of the terminal. `owner` is where the loop is,
`wanted` the name it asks for next. `NewClient` starts another `PoolClient` when the
one before is done; nothing is assumed of the server but that it may refuse.

### FrameWriter

Each frame has a `place`: on its way into a queue, in it, held by `writeLoop`
between taking it and locking `mu`, in the batch, written, failed, discarded.
`accepted` is the order in which data frames were enqueued, `wire` that in which frames
were written, those that failed in their places. `enqueueMu` makes an enqueue atomic against Close, `mu` the loop against
Flush; taking a frame from a channel and locking `mu` are two steps. After a write
error every later frame fails (`writeErr`), as in the code. Flush has no caller in
the repository; it is modelled since it is exported.

### ChallengeZone

`zone` is the TXT set of `_acme-challenge` as the Hostinger API holds it, with the
number of quotes around each value, `fetched[o]` what `DeleteRecords` of the order
`o` has read and not yet written back. `cached` is what the certificate authority's
resolver answers until its TTL is over, `now` the clock up to `MaxClock`.
`crossed` is history: orders whose token was appended while another's deletion was
between its read and its write. `together` says whether orders may run side by
side; both are initial states. `matchesAny`, by which `DeleteRecords`
selects, also compares TTLs (`provider.go:223`); every order asks for the same one, so
that comparison is left out.

### AdminSetup, LoginLimiter

`AdminSetup`: `setup[b]` is a call of `handleBootstrap` between its three statements,
`cookie` the session rows, `bootstrapped` the latch of the gate in front of a panel
that is mounted on the public address, `beside` history. `RestartPanel` is a crash.

`LoginLimiter`: an `attempt` is admitted on what `allow` read, and counted in `record`
when its password has been compared. Time is kept as the age of a window, and `failures`,
history, says how many there were at each age within the last window.

### Intake

`at[c]` is where a connection's handler is, from `acceptLoop` to its end; `jobs` the
worker pool's channel, `slots` the semaphore; `http[c]` whether the HTTP server has the
connection in its queue or in hand, `handedOff[c]` the flag that keeps Close of the
connection from closing it. `Sockets` are the WebSocket connections the HTTP server hands back,
which are handled as tunnels without a worker. `stop` is the step of `Stop`. A tunnel
ends for reasons of its own or because Stop closes it; what the HTTP server does with
a connection is external.

### Provisioning

`client` and `reservation` are the tables, `work[w]` an operation that has read a row
and will write it back: an edit or a rotation of a credential, binding or switching
an allocation, or one `planProvision`, which makes or finds the credential, looks the
allocation up, and then inserts or adopts it. `inForce`, `told` and `overlap` are
history. Secrets are numbers, a rotation draws the next one. `MaxRows` bounds the
allocations made.

### VisitorAccess

`entry[i]` is the limiter's record of an address, with the age of its window and what
is left of its lockout; `request[v]` a visitor's request from the check of the limiter
to the end of its stream; `sessions` the store of cookies. `openStream` gives up after
its timeout while its goroutine goes on (`late`). `Tunnels` are registrations of one
name, of which one is current; `active` is `activeConnections` of each.

### Daemons, ServerProcess

`Daemons`: `process[p]` is what runs under the process number `p`, `file[t]` the file
of the target `t`, `command[k]` a `drip list` or `drip stop` between its steps. The
operating system may give a number that is free to another program. `tangled` is
history: targets that were started twice, or while a command was at work on them.

`ServerProcess`: `stage` is the statement of `runServer`, on the way up and on the
way down, `use[u]` what a goroutine uses the store for. `overran` records the kinds of
request that were still running when the grace of their server ended.

## 4. Runs

| Run | Instance | Shows |
|---|---|---|
| `manager` | 3 goroutines (symmetric), 3 names (one unusable), 2 addresses, 1 account; limits: 2 tunnels, 1 per address, 1 per account, 2 registrations per window | counters exact (`CountsExact`: global, per account, per address), refunds exact, refinement |
| `lifecycle` | 2 connections, 1 port, HTTP and TCP requests, no Stop | nothing leaks; `ClosesCleanly`: rows go first, freed ports are silent, only one's own port and name are given back; dead tunnels dismantled |
| `lifecycle_stop` | 2 connections, Stop at any moment, symmetry of connections | `StopsAll`: a stopped proxy is silent, and every connection in `l.connections` when `Range` begins is told to stop; one still accepted, queued or in its handshake may escape (`missed`) |
| `credential_cache` | 1 client, 1 registration at a time, 2 handlers, 2 secrets, TTL 2 | coherent unless raced, stale entries expire |
| `credential_cache_stale` | 1 client, 1 registration, 1 handler | violation: an old secret is accepted after its rotation |
| `reservations` | 2 tunnels in 4 deployments (strangers over one name, two unnamed TCP tunnels of one machine, an HTTP and a TCP tunnel with one name, TCP tunnels of two machines of an account), 3 credentials, 2 accounts, 1 subdomain to name, 1 to draw, 1 port, 1 handler of several steps, 2 writes | ownership, schema against late writes, session links, closed fleets, owners that keep trying |
| `reservations_sticky` | one unnamed tunnel and a stranger | violation: a reservation is not picked up by a reconnect |
| `connection_group` | a primary and 1 data connection, 2 failures tolerated (3 in the code) | one ping at a time, sessions dropped for cause, wedged ones always, groups end |
| `streams` | 2 visitors, 2 data sessions and the primary, symmetric; 1 stream per session, 2 attempts, 2 visitors at once | no stream is nobody's, room is found |
| `client` | one client after the other, 1 data session, 1 stream, 2 connection attempts, both loops | a rebind is what the next connection asks for; a lost tunnel is dialled again |
| `client_upgrade` | no data session, 1 upgraded request | violation: a dead tunnel is not dialled again |
| `services` | ten modules side by side, see below | see below |

`services` checks ten modules in one instance. They share no state, so a behaviour
chooses its `subject` at the beginning and the other nine stand still: the states are
the sum of theirs, not the product, and every property is checked where its own
module moves. The bounds per module:

| Module | Instance | Shows |
|---|---|---|
| `ClientPool` | 2 data sessions, at most 3, burst 1, no streams | `SlotsExact`: no slot is lost or taken twice; `NothingLeftOpen` after Close |
| `FrameWriter` | 3 data frames, 1 control frame, queue 2, batch 2 | `BacklogExact`, `NoOvertaking`, `FramesEnd` |
| `ChallengeZone` | 2 orders, 1 foreign value, clock to 7 | `ZoneKept`: deletions stay and nothing else goes; `FreshAnswer` |
| `LoginLimiter` | 2 attempts at once, 1 address, 2 users, limit 2 | `GuessesBounded` over any two windows |
| `AdminSetup` | 2 setups, 2 names, 1 cookie | `OneSetup` |
| `Intake` | 3 connections, 1 WebSocket, 2 slots, 1 worker, queues of 1 | `IntakeExact`: slots and limits; `OneOwner` of every connection |
| `Provisioning` | 2 operators, 2 credentials, 2 accounts, 1 name, 1 row | `StaleWritesHarmless`, `ToldApart` |
| `VisitorAccess` | 2 visitors, 1 address, 2 registrations, limit 1, lockout at 2 | `VisitorStreams`, `LimitLifts` |
| `Daemons` | 2 processes, 1 target, 2 commands | `Tracked` |
| `ServerProcess` | 3 goroutines | `StoreOutlives` |

Bounds. Every counter in `TunnelManager` is bounded by its limit; limits of one
and two with three goroutines reach every refusal while another goroutine holds
the slot, and a rollback that overlaps a registration and a removal. Two
connections are enough for every conflict in `TunnelLifecycle`, since each one is
over a name, a port or a row that two want; one that ended may be accepted again,
so a third comer is covered. While one is in its handshake when `Range` begins, the
other may be at any step of its registration. In `CredentialCache` two handlers can interleave on a
client and its account at once; TTL is two ticks so that an entry can be used
after it aged and before it expired.

In `Reservations` the conflicts are over one name or one port, so one of each to
name and one to draw are enough, and a name that is lost and drawn again is the
same one. Two writes (`MaxWrites`) are the shortest history in which a row is made
and then changed, deleted, or cascaded away, or in which a row replaces another
while a call still refers to the first; deletions happen at any step of the one
handler, which stands for a second one. `Removable` is the account that has two
credentials; `Requests` is one row for a credential and one for an account.

The heartbeat of `ConnectionGroup` treats sessions one after the other, so one that
may be dropped beside the primary, which may not, shows all it can do; two
failures tolerated have a first and a last. In `streams` a session holds one
stream, so that each visitor can fill the session the other is about to use; two
attempts have a retry and a last. Two visitors never exceed the proxy's slots, so
its refusal is a guard that run does not exercise. The proofs of section 5 drop
all these bounds for safety.

In `client` one data session is enough for warm-up, scaler and loss beside the
primary, and one stream for what may hold the wait group; two attempts have a first
that failed and a last. In `services` each limit is the smallest at which it is met
and passed by: a queue of two orders frames and is filled by three, three
connections contend for two slots and one worker, one name is found free by two
provisions, a lockout of two ticks outlives its window of one. The warm-up of `ClientPool`
makes two calls of `addDataSession` at once. The visitors of `VisitorAccess` share one
address, so that the success of another address leaves a lockout alone is
`LimitLiftsCorrect`'s to say. The clock of
`ChallengeZone` is longer than twice the wait between two orders. Three operators
of `Provisioning`, which its run does not have, and any number else are the subject
of the proofs.

TLC's deadlock check is on except in the runs of `Reservations` (two tunnels that
have given up stay so, and the bound on writes ends what administrators do), of
the group, which ends, of the client, whose process may end, and of `services`, most
of whose subjects end. There, that nobody waits for ever is what `FramesEnd` says of
the writer; the pool's wait is `ComesBack`'s subject.

Fairness. `lifecycle`: weak fairness of each handler goroutine and of each Close
step (the runtime schedules goroutines, every blocking call of theirs has a
deadline or ends with the connection), and none of clients, crashes or the
network. `Dismantled` holds under just that. `credential_cache`: weak fairness of
the clock only. `connection_group`: weak fairness of the handlers from the moment
they have begun (handshakes have deadlines), of the loop, of pings (yamux bounds
them), of Close and of the stale-group task; none of peers and of the network. A
handler that has ended closes its connection. `StreamForwarding` assumes none.
`client`: weak fairness of the loops, of every goroutine of the pool and of Close,
none of the network, of the server, of rebinds, or of an upgraded request, whose
wait has no deadline. `FrameWriter`: weak fairness of `writeLoop` and of Close; strong
fairness of taking a data frame and of the batch's ticker, since Go's `select` chooses
at random among the channels that are ready and control frames do not for ever win.
`Reservations` assumes none and states safety only: that an owner
comes back is stated as the step that would forbid it (`OwnerKeepsTrying`).

## 5. Proofs

Every safety invariant and every action property that a run checks is also a theorem of
its module's specification, for any values of the constants that satisfy the module's
assumption. Each rests on an inductive invariant, which TLC checked on the run's instance
before it was proved. Eight modules hold the proofs:

| Module | Is about |
|---|---|
| `TunnelManager_proofs` | `TunnelManager` |
| `TunnelLifecycle_proofs` | `TunnelLifecycle` |
| `CredentialCache_proofs` | `CredentialCache` |
| `Reservations_proofs` | `Reservations` |
| `StreamForwarding_proofs` | `ConnectionGroup`, `StreamForwarding` |
| `ControlPlane_proofs` | `AdminSetup`, `Provisioning`, `LoginLimiter` |
| `Server_proofs` | `VisitorAccess`, `ServerProcess`, `Intake`, `ChallengeZone` |
| `Client_proofs` | `FrameWriter`, `ClientPool`, `TunnelSupervisor`, `Daemons` |

### Tunnel manager

From `ManagerAssumption` and `NoneAssumption`, for any finite set of goroutines and names
and any limits:

* `TypeCorrect`, `GlobalCountCorrect`, `AccountCountCorrect`, `IPCountCorrect`, and
  `CountsCorrect`, which is all three: `CountsExact` of run `manager`;
* `ImplementsRegistry`: the manager implements `TunnelRegistry`;
* `NotOverchargedCorrect` and `HoldsItsNameCorrect`.

The counter invariants are not inductive alone. A decrement is harmless only if
the goroutine that does it still holds a slot, so `IInv` adds what is known at
each stage: which request a goroutine is in, that `owed` is a tunnel with an
account or an address where the stage needs one, and that each counter is the
cardinality of the live names plus of the goroutines that hold or owe a slot. A
step then moves one element between those sets, and the lemmas on cardinality
of a set with an element added or removed close the case. The limits of the
registry follow: a goroutine at `name` is itself counted, so the live tunnels are
strictly fewer than the counter, which never passes its limit.

The rate limiter keeps a count of its own (`RateIInv`): a step charges an address, lets a
registration succeed, or refunds it, and the set of those that were charged moves along.
`HoldsItsName` needs that no sweep is under way where nobody starts one (`NoSweep`): then
only the owner of a name removes it, and a name has one owner.

### Lifecycle

`TunnelLifecycle_proofs`, from `LifecycleAssumption`, for any connections, ports, names and
requests: `LifecycleTypeCorrect`, `NothingLeaksCorrect`, `ClosesCleanlyCorrect` and
`StopsAllCorrect`. `ServingIsCovered` says that they hold of the instance without `Stop` too.

What a connection holds is decided by two sequences that run side by side, its handler's
and Close's, so the invariant relates both. `Local` says that what a handler has reported is
where it is; `Owns`, that a port and a name stay with a connection from their acquisition
until Close comes to them. The converse, that nothing else is in the tables, is true only
while nobody stops the server (`Accounted`): Close then begins after the last report, so its
copy is complete. Where `Stop` begins Close in the middle of a registration it is false, and
section 6 has the trace. `Reached` is about `Stop` alone: whoever was in `l.connections` when
`Range` began is still to be closed, is gone, or is being closed; who was accepted but
not stored is in `missed`, and nobody arrives later, since the listener is closed.

### Credential cache

`CredentialCache_proofs`, from `CacheAssumption`, for any credentials, accounts, lookups and
handlers: `CacheTypeCorrect` and `QuietFillsAreCoherentCorrect`. Nothing locks the store and
the cache together. The invariant says who still has to act: the rows of a lookup that was
not raced are the store's (`CallOK`), and an entry whose fill was not raced is dropped later
by every handler at work on it, and is right unless one of them has written already
(`EntryOK`). A handler that begins races the fills under way, so what is stored later does
not count. `HandlerOK` is the order of the steps, which differs between updates and
deletions; swapping it breaks `EntryOK`.

### Reservations

`Reservations_proofs`, from `ReservationsAssumption`, for any tunnels, names, accounts,
number of handlers at once and number of writes:

* `BoundCorrect`: `BoundWithinAccount`. A handler writes what it checked some steps
  before, so the invariant adds what a call in progress still knows. A checked
  creation or pin names a credential of its account, which never changes; a checked
  update names a credential of the account of the row with its id, if that row is
  still there. The second survives deletions and new rows because an id is never
  used again and no statement moves a row to another account. That the credential
  still exists is not known, and left to the foreign key.
* `OwnerCorrect`: `ReservedToOwner`. What a registration carries from resolving to
  claiming entitles its credential; for a row found by name the resolver checked it,
  for a row listed for the credential the account is not compared at all, and the
  proof takes it from `BoundWithinAccount`.
* `LinksOwnNameCorrect`, `ClosedFleetCorrect`: there is a book `f` from ids to names to
  which the table, registrations, sessions, rows and pins in progress all keep (`Filings`).
  An id is entered when its reservation is made and never again, so that copies stay right
  whatever is deleted meanwhile. A pin refers to a session by id, and no session is given
  an id that a pin refers to: there are more ids than handlers (`FreshSession`).
* `OwnerKeepsTryingCorrect`: of the answers that end a tunnel, none is given to a
  credential that is entitled to what it asks for.

### Groups and streams

`StreamForwarding_proofs`, from `GroupAssumption`, for any data connections and any number of
tolerated failures:

* `GroupTypeCorrect`, which is also what the loop's maps mean: in flight are the
  session waited for and those whose ping outlived the wait, and no other ping runs;
* `OnePingCorrect`: `OnePing` follows, as the loop starts a ping only for a session
  that is not in flight;
* `RemovedForCauseCorrect`: the invariant adds `Streak`: the failures counted, with
  the ping waited for, are never more than the pings missed in a row;

and from `ForwardingAssumption` besides, for any visitors, capacity and number of attempts:

* `StreamTypeCorrect` and `NoOrphanCorrect`, for which the steps of a visitor and of
  its opener are enough (`VisitOK`);
* `FindsRoomCorrect`: the invariant adds that the group holds every data session that
  serves, unless it is closed (`ServingIsHeld`, which uses the invariant of the
  group), that a session counted as roomy has room (`RoomOK`), and that while the
  heap is worked off such a session is in it or is the one being opened (`HeapOK`).
  When the heap is empty none is left.

### Control plane

`ControlPlane_proofs`:

* `OneSetupCorrect`, from `SetupAssumption`, for any setups: one that is hashing began
  before any other had created its administrator (`CountedTogether`), else its count would
  have refused it, a restart notwithstanding.
* `StaleWritesCorrect`, from `ProvisioningAssumption`, for any number of operators,
  credentials, accounts, names and rows: `StaleWritesHarmless`. What an operator carries
  belongs to the row it was read from (`Fits`): a credential keeps its account until it is
  deleted and its id is never used again, a row keeps its number and account, and a row
  made later has a larger number. `Moves` says what any step may do to the tables so that
  this stays true of everybody else's copy. That the row is still there is not known, and
  left to the statement and its foreign key.
* `ToldApartCorrect`: `ToldApart`. Whoever is about to adopt an allocation read it
  unbound, at which moment nobody had been told to have it; so everybody told since
  worked beside him (`ToldOK`). Three operators show why the property names one of
  those told and not all: the third is told what the second wrote, after the first
  was done.
* `GuessesBoundedCorrect`, from `LimiterAssumption`, for any keys, limit, window and attempts
  at once. The failures of the time of one window fall into those that the record counts
  and the older ones (`WindowHolds`). The first, with the attempts already let in, are
  within a limit; so are the second, which were the first when the record was opened. A
  record that has lapsed leaves only second ones (`LapsedHolds`).

### Server

`Server_proofs`:

* `VisitorStreamsCorrect`, from `VisitorAssumption`: a request moves in or out of the set
  that is counted, the registration it was opened for being its own all the while
  (`TunnelKnown`); `LimitLiftsCorrect` needs the types only: a lockout is never longer than
  `Lockout`, so counting another failure cannot shorten it.
* `StoreOutlivesCorrect`, for any goroutines: what each wait of the shutdown has seen off
  does not begin again (`Waited`).
* `IntakeExactCorrect` and `OneOwnerCorrect`, from `IntakeAssumption`, for any connections,
  workers and limits. What is queued waits for a worker, once (`JobsOnce`); whose a
  connection is follows from where its handler is (`Handing`, `Held`); and when the wait
  group is empty nobody can come in any more (`ComesToRest`), which is why Submit meets no
  closed channel.
* `ZoneKeptCorrect`, from `ZoneAssumption`, for any orders and values: between its fetch and
  its write a deletion is alone, the record it has read is still there, and what came in
  since is `crossed` (`FetchHolds`).
* `FreshAnswerCorrect` has one hypothesis, that the record's time to live is not longer than
  the propagation delay, which the repository tests (`tls_test.go:263`) and the run's
  instance satisfies: a cached answer is over when the next order validates.

### Client

`Client_proofs`:

* `WriterTypeCorrect` and `BacklogExactCorrect`, from `WriterAssumption`, for any frames and
  sizes: a frame is kept where its place says, once (`Kept`), so what a step releases is
  exactly what it took out of the backlog.
* `OnceCorrect`: no frame is given to the connection twice, or after it was refused or
  discarded, whichever of the loop, the batch and a Flush gives it.
* `NoOvertakingCorrect` adds the order (`InTurn`): of two frames accepted one after the
  other, the first is never behind in queue or batch, and the second does not leave the
  queue before the first. The frame that the loop holds while somebody flushes is the
  exception that the property names.
* `PoolTypeCorrect`, `SlotsExactCorrect` and `NothingLeftOpenCorrect`, from `PoolAssumption`,
  for any configuration: every open connection is somebody's to close (`AllOwned`: who adds
  it, the table, Close, the scaler, or a loop that ends), and every call has a caller that
  waits for it (`CallersWait`), so the wait group is not empty before they are done.
* `SupervisedPoolCorrect` and `RebindHonouredCorrect`, from `SupervisorAssumption`: the same
  of every client that the loop makes, one after the other. A pool begins again in its
  initial state only when the one before is done; then its control loop is over, and what it
  has left in `rebind` is what the next one asks for (`BetweenClients`).
* `TrackedCorrect`, from `DaemonsAssumption`: a target that is not `tangled` has one daemon,
  which is the one a command has found (`OneDaemon`).

### What is model-checked only

The liveness properties, `Dismantled`, `StaleEntriesExpire`, `WedgedGoes`, `GroupGoes`,
`ComesBack` and `FramesEnd`: the prover does not treat fairness and ENABLED. And the three
statements of section 6 that the code does not keep, which TLC refutes. Type invariants are
proved with the rest; where a run is not about them it does not list them.

## 6. Where code and comments disagree

Shown by a run:

* An invalidation does not stop a lookup that is under way from storing what it
  read; the entry lives for up to the TTL of 30 seconds (`credential_cache_stale`).
* A tunnel configured without a subdomain asks for the name it was last given when
  it reconnects, so it does not pick up a reservation made meanwhile, as the
  repository's README says it does (`reservations_sticky`).
* A tunnel of the service stays down when its session is lost while the local
  service owes it an answer to an upgrade (`client_upgrade`).

Two more have a configuration beside the runs; TLC stops with a counterexample:

* A closing authenticated tunnel is taken off its address although it was never
  put on it, so the per-address cap can be passed
  (`tlc -config MCTunnelManagerSharedIP.cfg MCTunnelManager`).
* Close does not give back what the registration reports after Close took its
  copy; only `Listener.Stop`, that is a shutdown, can hit that window, and the row
  it leaves is purged at the next start
  (`tlc -config MCTunnelLifecycleLeak.cfg MCTunnelLifecycle`).

The models contain these steps, and the properties make room for them by name:

* A WebSocket's pipe is cut as soon as its handler has returned, since the request's
  context ends then (`websocket_handler.go`; `PipeEnds`).
* A wrong password that is counted in a later window takes the lockout of five minutes
  away (`recordFailure`; the last case of `LimitLifts`), and a visitor who is locked out
  is told to come back after 60 seconds.
* `Listener.Stop` does not close a connection that was accepted, queued or in its TLS
  handshake when `Range` began, and waits for its client (`missed`, `StopsAll`).
* "Usable exactly once" (`handleBootstrap`) is two administrators when two setups
  overlap (`OneSetup`).
* `DeleteRecords` leaves alone what does not "exactly match the input", but a record
  appended between its read and its write is lost (`crossed`).
* `loginLimiter` calls its window sliding; it is a fixed one, which is why
  `GuessesBounded` is twice the limit.
* `adoptReservation` says an allocation that is another's is "refused rather than
  stolen"; two provisions that overlap both take it and both say so (`ToldApart`).
* After a write error `FrameWriter.Close` returns early, and `writeLoop` is not ended
  (`wcloser = "late"`).
* `drip start` on a target that runs overwrites its file, and a stop may signal a
  program that was given the number of a daemon that has ended (`tangled`, `Tracked`).
* A credential rotated on the command line is not dropped from a running server's
  cache, which serves it until the entry expires.
* The sweeper of the panel, and a WebSocket that becomes a connection while Stop is
  counting, are not waited for before the store is closed (`StoreOutlives`).
* `store/sessions.go` describes a call that nobody makes.

## 7. Not modelled

Listed with reasons in `PROJECT.json`. In short: formats and hashing, flags and
printing, shell installers, the web console, metrics, certificate files; codecs,
buffers, statistics and traffic shaping, which have no protocol of their own. The
installation of the Windows service is a sequence of calls of the operating system
with its own error paths (item 12 of the plan). `Manager.Shutdown` has no caller but
tests. The legacy frame path serves clients older than this repository's.

Some races are in the code and outside the models' abstractions: a port drawn at
random may be reserved for somebody else by the time it is used, a rebind goes to
whoever holds the session's name when it is sent, and a data connection may join a
group that was closed meanwhile. The hazards of `PROJECT.json` without a property say
so one by one.
