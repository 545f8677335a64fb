---------------------------- MODULE VisitorAccess --------------------------
(***************************************************************************)
(* internal/server/proxy: a visitor's request for a tunnel that asks for a *)
(* password. Wrong passwords are counted per address, sessions are kept in *)
(* a bounded store, and the request goes on over a stream that is opened   *)
(* in a goroutine and may come too late. The tunnel is looked up once: it  *)
(* may be closed, and the name registered anew, while the request runs.    *)
(***************************************************************************)
EXTENDS Integers, Sequences, FiniteSets

CONSTANTS
  Visitors,           \* requests that may run at once
  VisitorAddresses,
  Tunnels,            \* registrations of one name, one after the other
  NoTunnel,
  AuthMax, LockoutThreshold, AuthWindow, Lockout,   \* authRateLimit...
  MaxAuthSessions

ASSUME VisitorAssumption ==
  /\ IsFiniteSet(Visitors) /\ NoTunnel \notin Tunnels
  /\ AuthMax \in Nat \ {0} /\ LockoutThreshold \in Nat \ {0}
  /\ AuthWindow \in Nat \ {0} /\ Lockout \in Nat /\ MaxAuthSessions \in Nat \ {0}

VARIABLES
  entry,      \* [VisitorAddresses -> [failures, age, lock]]; lock: what is left of it
  request,    \* [Visitors -> [step, from, tunnel, stream]]
  sessions,   \* authSessionStore: whose cookies, the oldest first
  active,     \* [Tunnels -> Nat]: activeConnections
  current,    \* the registration the manager has
  shut        \* registrations that were closed

(* "asked": past the limiter, the password not compared yet. "late": the   *)
(* visitor was told "unavailable" and OpenStream has not returned.         *)
VisitorSteps == {"idle", "asked", "opening", "late", "forwarding", "hijacking", "piping"}

visitorVars == <<entry, request, sessions, active, current, shut>>

Clean == [failures |-> 0, age |-> AuthWindow, lock |-> 0]
Away == [step |-> "idle", from |-> "nowhere", tunnel |-> NoTunnel, stream |-> FALSE]

VisitorInit ==
  /\ entry = [i \in VisitorAddresses |-> Clean]
  /\ request = [v \in Visitors |-> Away]
  /\ sessions = <<>> /\ active = [t \in Tunnels |-> 0] /\ current = NoTunnel /\ shut = {}

At(v, step) == request[v].step = step
Proceeds(v, step) == request' = [request EXCEPT ![v].step = step]
Leaves(v) == request' = [request EXCEPT ![v] = Away]

----------------------------------------------------------------------------
(* authRateLimiter. A window is over when its age has reached its length;  *)
(* an address without an entry is one whose window is over.                *)
WindowOver(i) == entry[i].age >= AuthWindow

isRateLimited(i) ==
  entry[i].lock > 0 \/ (~WindowOver(i) /\ entry[i].failures >= AuthMax)

recordFailure(i) ==
  LET n == entry[i].failures + 1 IN
  entry' = [entry EXCEPT ![i] =
    IF WindowOver(i) THEN [failures |-> 1, age |-> 0, lock |-> 0]
    ELSE [failures |-> n, age |-> @.age, lock |-> IF n >= LockoutThreshold THEN Lockout ELSE @.lock]]

resetFailures(i) == entry' = [entry EXCEPT ![i] = Clean]

(* Fault: either of the two being over is enough to forget an address.     *)
cleanupEager ==
  /\ entry' = [i \in VisitorAddresses |->
       IF WindowOver(i) \/ entry[i].lock = 0 THEN Clean ELSE entry[i]]
  /\ UNCHANGED <<request, sessions, active, current, shut>>

cleanup ==
  /\ entry' = [i \in VisitorAddresses |->
       IF WindowOver(i) /\ entry[i].lock = 0 THEN Clean ELSE entry[i]]
  /\ UNCHANGED <<request, sessions, active, current, shut>>

(* create drops the oldest session when the store is full.                 *)
create(v) ==
  sessions' = Append(IF Len(sessions) >= MaxAuthSessions THEN Tail(sessions) ELSE sessions, v)

SessionExpires ==
  /\ sessions # <<>> /\ sessions' = Tail(sessions)
  /\ UNCHANGED <<entry, request, active, current, shut>>

----------------------------------------------------------------------------
(* ServeHTTP up to the password, or past it with a cookie; all others are  *)
(* sent away. (A session is good for whatever is registered by the name.)  *)
Asks(v) ==
  /\ At(v, "idle") /\ current # NoTunnel
  /\ \E i \in VisitorAddresses, cookie \in BOOLEAN :
       /\ ~isRateLimited(i) /\ (cookie => v \in {sessions[n] : n \in DOMAIN sessions})
       /\ request' = [request EXCEPT
            ![v] = [step |-> IF cookie THEN "opening" ELSE "asked", from |-> i,
                    tunnel |-> current, stream |-> FALSE]]
  /\ UNCHANGED <<entry, sessions, active, current, shut>>

WrongPassword(v) ==
  /\ At(v, "asked") /\ recordFailure(request[v].from) /\ Leaves(v)
  /\ UNCHANGED <<sessions, active, current, shut>>

(* A bearer token is good for the request, a password for a session.       *)
RightPassword(v) ==
  /\ At(v, "asked") /\ resetFailures(request[v].from)
  /\ \/ Proceeds(v, "opening") /\ UNCHANGED sessions
     \/ create(v) /\ Leaves(v)
  /\ UNCHANGED <<active, current, shut>>

----------------------------------------------------------------------------
(* openStream, in time or not, and what it is opened for.                  *)
Opened(v, step) == request' = [request EXCEPT ![v].step = step, ![v].stream = TRUE]
IncActive(t) == active' = [active EXCEPT ![t] = @ + 1]
DecActive(t) == active' = [active EXCEPT ![t] = @ - 1]

StreamInTime(v) ==
  /\ At(v, "opening") /\ request[v].tunnel \notin shut
  /\ \E step \in {"forwarding", "hijacking"} : Opened(v, step)
  /\ IncActive(request[v].tunnel)
  /\ UNCHANGED <<entry, sessions, current, shut>>

OpenFails(v) ==
  /\ At(v, "opening") /\ Leaves(v)
  /\ UNCHANGED <<entry, sessions, active, current, shut>>

OpenTimesOut(v) ==
  /\ At(v, "opening") /\ Proceeds(v, "late")
  /\ UNCHANGED <<entry, sessions, active, current, shut>>

StreamComesLate(v) ==
  /\ At(v, "late") /\ ~request[v].stream
  /\ IF request[v].tunnel \in shut THEN Leaves(v) ELSE Opened(v, "late")
  /\ UNCHANGED <<entry, sessions, active, current, shut>>

CloseLate(v) ==
  /\ At(v, "late") /\ request[v].stream /\ Leaves(v)
  /\ UNCHANGED <<entry, sessions, active, current, shut>>

(* The deferred Close and DecActiveConnections, whatever ended it.         *)
ForwardEnds(v) ==
  /\ At(v, "forwarding") /\ DecActive(request[v].tunnel) /\ Leaves(v)
  /\ UNCHANGED <<entry, sessions, current, shut>>

(* Fault: a connection that cannot be taken over stays counted.            *)
HijackFailsStillCounted(v) ==
  /\ At(v, "hijacking") /\ Leaves(v)
  /\ UNCHANGED <<entry, sessions, active, current, shut>>

(* handleWebSocket: no Hijacker, Hijack fails, or the request cannot be    *)
(* written; or a goroutine pipes. The request's context ends as soon as    *)
(* the handler has returned, and the pipe with it.                         *)
HijackFails(v) ==
  /\ At(v, "hijacking") /\ DecActive(request[v].tunnel) /\ Leaves(v)
  /\ UNCHANGED <<entry, sessions, current, shut>>

Hijack(v) ==
  /\ At(v, "hijacking") /\ Proceeds(v, "piping")
  /\ UNCHANGED <<entry, sessions, active, current, shut>>

PipeEnds(v) ==
  /\ At(v, "piping") /\ DecActive(request[v].tunnel) /\ Leaves(v)
  /\ UNCHANGED <<entry, sessions, current, shut>>

----------------------------------------------------------------------------
TunnelRegisters(t) ==
  /\ current = NoTunnel /\ t \notin shut /\ current' = t
  /\ UNCHANGED <<entry, request, sessions, active, shut>>

TunnelCloses ==
  /\ current # NoTunnel /\ shut' = shut \cup {current} /\ current' = NoTunnel
  /\ UNCHANGED <<entry, request, sessions, active>>

TimeGoesBy ==
  /\ entry' = [i \in VisitorAddresses |->
       [entry[i] EXCEPT !.age = IF @ < AuthWindow THEN @ + 1 ELSE @,
                        !.lock = IF @ > 0 THEN @ - 1 ELSE @]]
  /\ UNCHANGED <<request, sessions, active, current, shut>>

VisitorNext ==
  \/ cleanup \/ SessionExpires \/ TunnelCloses \/ TimeGoesBy
  \/ \E t \in Tunnels : TunnelRegisters(t)
  \/ \E v \in Visitors :
       \/ Asks(v) \/ WrongPassword(v) \/ RightPassword(v)
       \/ StreamInTime(v) \/ OpenFails(v) \/ OpenTimesOut(v) \/ StreamComesLate(v) \/ CloseLate(v)
       \/ ForwardEnds(v) \/ HijackFails(v) \/ Hijack(v) \/ PipeEnds(v)

VisitorSpec == VisitorInit /\ [][VisitorNext]_visitorVars

----------------------------------------------------------------------------
(* The types.                                                              *)
VisitorTypeOK ==
  /\ entry \in [VisitorAddresses -> [failures : Nat, age : 0..AuthWindow, lock : 0..Lockout]]
  /\ request \in [Visitors -> [step : VisitorSteps, from : VisitorAddresses \cup {"nowhere"},
                               tunnel : Tunnels \cup {NoTunnel}, stream : BOOLEAN]]
  /\ sessions \in Seq(Visitors) /\ Len(sessions) <= MaxAuthSessions
  /\ active \in [Tunnels -> Nat] /\ shut \subseteq Tunnels

(* An address that is shut out is let in again by time, by a request of    *)
(* its own that was under way and knew the password, or by one that failed *)
(* after the window was over, but never by the sweep or by somebody else.  *)
LimitLifts ==
  [][\A i \in VisitorAddresses :
       isRateLimited(i) /\ ~isRateLimited(i)' =>
         \/ TimeGoesBy
         \/ \E v \in Visitors : request[v].from = i /\
              (RightPassword(v) \/ (WrongPassword(v) /\ WindowOver(i)))]_visitorVars

(* A tunnel's connections are counted exactly, those of a registration     *)
(* that is gone too, and no stream outlives the request it was opened for. *)
VisitorStreams ==
  /\ \A t \in Tunnels :
       active[t] = Cardinality({v \in Visitors :
         request[v].tunnel = t /\ request[v].step \in {"forwarding", "hijacking", "piping"}})
  /\ \A v \in Visitors : request[v].stream =>
       request[v].step \in {"forwarding", "hijacking", "piping", "late"}
=============================================================================
