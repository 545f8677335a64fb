------------------------------- MODULE Intake ------------------------------
(***************************************************************************)
(* internal/server/tcp and internal/shared/pool: how the listener takes    *)
(* connections in. acceptLoop takes a slot and submits a job; a worker     *)
(* shakes hands and looks at the first bytes. A tunnel keeps its worker    *)
(* for life. An HTTP connection goes to the HTTP server through a queue    *)
(* and may come back from it as a WebSocket, which takes a slot again but  *)
(* no worker. Stop closes one part after the other.                        *)
(***************************************************************************)
EXTENDS Integers, FiniteSets, Sequences

CONSTANTS
  Peers,        \* connections that clients open, once each
  Sockets,      \* WebSocket connections made of them
  MaxConns,     \* connSem
  Workers, QueueLength,   \* of the worker pool
  HTTPQueue     \* of the connQueueListener

ASSUME IntakeAssumption ==
  /\ IsFiniteSet(Peers) /\ IsFiniteSet(Sockets) /\ Peers \cap Sockets = {}
  /\ MaxConns \in Nat /\ Workers \in Nat \ {0} /\ QueueLength \in Nat /\ HTTPQueue \in Nat

Conns == Peers \cup Sockets

VARIABLES
  at,          \* [Conns -> Steps]: where its handler is
  http,        \* [Peers -> HTTPSteps]: what the HTTP server has of it
  open,        \* [Conns -> BOOLEAN]: nobody on this side has closed it
  handedOff,   \* [Peers -> BOOLEAN]: the flag of its Connection
  slots,       \* len(connSem)
  jobs,        \* jobQueue
  poolClosed, queueClosed,   \* the worker pool, the connQueueListener
  accepting,   \* acceptLoop runs
  stop         \* Stop: what it does next

(* "submitting": between the check of Submit and its send. "entering": a   *)
(* WebSocket has its slot and is not in the wait group yet. "handing": in  *)
(* the HTTP queue, the flag not set yet. "leaving": Handle has returned.   *)
Steps == {"new", "accepted", "submitting", "queued", "handshake", "entering", "reading",
          "handing", "tunnel", "leaving", "over"}
HTTPSteps == {"no", "queue", "serving", "done"}
StopSteps == {"no", "drain", "listener", "range", "wait", "pool", "stopped"}

intakeVars == <<at, http, open, handedOff, slots, jobs, poolClosed, queueClosed, accepting, stop>>

IntakeInit ==
  /\ at = [c \in Conns |-> "new"] /\ http = [c \in Peers |-> "no"]
  /\ open = [c \in Conns |-> FALSE] /\ handedOff = [c \in Peers |-> FALSE]
  /\ slots = 0 /\ jobs = <<>> /\ poolClosed = FALSE /\ queueClosed = FALSE
  /\ accepting = TRUE /\ stop = "no"

To(c, step) == at' = [at EXCEPT ![c] = step]
HTTP(c, step) == http' = [http EXCEPT ![c] = step]
CloseConn(c) == open' = [open EXCEPT ![c] = FALSE]

(* l.connections                                                           *)
Stored == {c \in Conns : at[c] \in {"reading", "handing", "tunnel", "leaving"}}
Busy == {c \in Peers : at[c] = "handshake" \/ c \in Stored}
InSlot == {c \in Conns : at[c] \in {"accepted", "submitting", "queued", "handshake", "entering"}}
            \cup Stored

----------------------------------------------------------------------------
(* acceptLoop                                                              *)
Accept(c) ==
  /\ accepting /\ at[c] = "new" /\ stop \in {"no", "drain", "listener"}
  /\ \A d \in Peers : at[d] \notin {"accepted", "submitting"}
  /\ IF slots < MaxConns
     THEN To(c, "accepted") /\ slots' = slots + 1 /\ open' = [open EXCEPT ![c] = TRUE]
     ELSE To(c, "over") /\ UNCHANGED <<slots, open>>
  /\ UNCHANGED <<http, handedOff, jobs, poolClosed, queueClosed, accepting, stop>>

(* Fault: a connection that is turned away keeps its slot.                 *)
RejectedKeepsSlot(c) == To(c, "over") /\ CloseConn(c) /\ UNCHANGED slots

Rejected(c) == To(c, "over") /\ CloseConn(c) /\ slots' = slots - 1

(* Submit looks at closed, unlocks, ...                                    *)
SubmitChecks(c) ==
  /\ at[c] = "accepted"
  /\ IF poolClosed THEN Rejected(c) ELSE To(c, "submitting") /\ UNCHANGED <<open, slots>>
  /\ UNCHANGED <<http, handedOff, jobs, poolClosed, queueClosed, accepting, stop>>

(* ... and sends, on a channel that Close closes.                          *)
SubmitSends(c) ==
  /\ at[c] = "submitting"
  /\ IF Len(jobs) < QueueLength
     THEN To(c, "queued") /\ jobs' = Append(jobs, c) /\ UNCHANGED <<open, slots>>
     ELSE Rejected(c) /\ UNCHANGED jobs
  /\ UNCHANGED <<http, handedOff, poolClosed, queueClosed, accepting, stop>>

(* It looks at stopCh before it accepts, and when it cannot.               *)
AcceptLoopEnds ==
  /\ accepting /\ stop # "no" /\ \A c \in Peers : at[c] \notin {"accepted", "submitting"}
  /\ accepting' = FALSE
  /\ UNCHANGED <<at, http, open, handedOff, slots, jobs, poolClosed, queueClosed, stop>>

----------------------------------------------------------------------------
(* handleConnection, on a worker                                           *)
WorkerTakes ==
  /\ jobs # <<>> /\ Cardinality(Busy) < Workers
  /\ To(Head(jobs), "handshake") /\ jobs' = Tail(jobs)
  /\ UNCHANGED <<http, open, handedOff, slots, poolClosed, queueClosed, accepting, stop>>

HandshakeFails(c) ==
  /\ at[c] = "handshake" /\ Rejected(c)
  /\ UNCHANGED <<http, handedOff, jobs, poolClosed, queueClosed, accepting, stop>>

Moves(c, from, to) ==
  /\ at[c] = from /\ To(c, to)
  /\ UNCHANGED <<http, open, handedOff, slots, jobs, poolClosed, queueClosed, accepting, stop>>

StoreConnection(c) == Moves(c, "handshake", "reading") \/ Moves(c, "entering", "reading")

(* Handle, on bytes that are no tunnel it accepts, or on no bytes; and on  *)
(* a tunnel, until the client is gone or the connection closed.            *)
HandleFails(c) == Moves(c, "reading", "leaving")
TunnelBegins(c) == open[c] /\ Moves(c, "reading", "tunnel")
TunnelEnds(c) == Moves(c, "tunnel", "leaving")

(* Handle, on an HTTP request: Enqueue, under the mutex of the queue. (A   *)
(* WebSocket that carries one is left out.)                                *)
EnqueueHTTP(c) ==
  /\ at[c] = "reading"
  /\ IF queueClosed \/ Cardinality({d \in Peers : http[d] = "queue"}) = HTTPQueue
     THEN To(c, "leaving") /\ UNCHANGED http
     ELSE To(c, "handing") /\ HTTP(c, "queue")
  /\ UNCHANGED <<open, handedOff, slots, jobs, poolClosed, queueClosed, accepting, stop>>

SetHandedOff(c) ==
  /\ at[c] = "handing" /\ To(c, "leaving") /\ handedOff' = [handedOff EXCEPT ![c] = TRUE]
  /\ UNCHANGED <<http, open, slots, jobs, poolClosed, queueClosed, accepting, stop>>

(* Fault: the handler closes what it has handed over.                      *)
HandlerReturnsAndCloses(c) ==
  /\ at[c] = "leaving" /\ To(c, "over") /\ slots' = slots - 1 /\ CloseConn(c)
  /\ UNCHANGED <<http, handedOff, jobs, poolClosed, queueClosed, accepting, stop>>

(* The deferred functions, and Close before them: a connection that was    *)
(* handed off is no longer this handler's.                                 *)
HandlerReturns(c) ==
  /\ at[c] = "leaving" /\ To(c, "over") /\ slots' = slots - 1
  /\ IF c \in Peers /\ handedOff[c] THEN UNCHANGED open ELSE CloseConn(c)
  /\ UNCHANGED <<http, handedOff, jobs, poolClosed, queueClosed, accepting, stop>>

ConnSteps(c) ==
  \/ StoreConnection(c) \/ HandleFails(c) \/ TunnelBegins(c) \/ TunnelEnds(c) \/ HandlerReturns(c)

----------------------------------------------------------------------------
(* The HTTP server: Accept of the queue looks at either channel first.     *)
HTTPAccepts(c) ==
  /\ http[c] = "queue" /\ HTTP(c, "serving")
  /\ UNCHANGED <<at, open, handedOff, slots, jobs, poolClosed, queueClosed, accepting, stop>>

HTTPEnds(c) ==
  /\ http[c] = "serving" /\ HTTP(c, "done") /\ CloseConn(c)
  /\ UNCHANGED <<at, handedOff, slots, jobs, poolClosed, queueClosed, accepting, stop>>

(* HandleWSConnection, for a request to upgrade. From here the connection  *)
(* is the WebSocket's.                                                     *)
HandleWSConnection(c, s) ==
  /\ http[c] = "serving" /\ at[s] = "new" /\ HTTP(c, "done")
  /\ IF slots < MaxConns
     THEN /\ To(s, "entering") /\ slots' = slots + 1
          /\ open' = [open EXCEPT ![c] = FALSE, ![s] = TRUE]
     ELSE To(s, "over") /\ CloseConn(c) /\ UNCHANGED slots
  /\ UNCHANGED <<handedOff, jobs, poolClosed, queueClosed, accepting, stop>>

----------------------------------------------------------------------------
(* Stop. Shutdown closes the queue and drains it, ...                      *)
StopBegins ==
  /\ stop = "no" /\ stop' = "drain" /\ queueClosed' = TRUE
  /\ UNCHANGED <<at, http, open, handedOff, slots, jobs, poolClosed, accepting>>

Drain ==
  LET left == {c \in Peers : http[c] = "queue"} IN
  /\ stop = "drain" /\ stop' = "listener"
  /\ http' = [c \in Peers |-> IF c \in left THEN "done" ELSE http[c]]
  /\ open' = [c \in Conns |-> c \notin left /\ open[c]]
  /\ UNCHANGED <<at, handedOff, slots, jobs, poolClosed, queueClosed, accepting>>

(* ... waits for the HTTP server, half a minute at most, and the listener  *)
(* is closed.                                                              *)
CloseListener ==
  /\ stop = "listener" /\ stop' = "range"
  /\ UNCHANGED <<at, http, open, handedOff, slots, jobs, poolClosed, queueClosed, accepting>>

(* Close of every connection there is: not of one that was handed off.     *)
CloseConnections ==
  /\ stop = "range" /\ stop' = "wait"
  /\ open' = [c \in Conns |->
       open[c] /\ (c \in Stored => c \in Peers /\ handedOff[c])]
  /\ UNCHANGED <<at, http, handedOff, slots, jobs, poolClosed, queueClosed, accepting>>

WaitGroupDone == ~accepting /\ \A c \in InSlot : at[c] = "entering"

WaitForHandlers ==
  /\ stop = "wait" /\ WaitGroupDone /\ stop' = "pool"
  /\ UNCHANGED <<at, http, open, handedOff, slots, jobs, poolClosed, queueClosed, accepting>>

ClosePool ==
  /\ stop = "pool" /\ stop' = "stopped" /\ poolClosed' = TRUE
  /\ UNCHANGED <<at, http, open, handedOff, slots, jobs, queueClosed, accepting>>

StopStep ==
  StopBegins \/ Drain \/ CloseListener \/ CloseConnections \/ WaitForHandlers \/ ClosePool

IntakeNext ==
  \/ AcceptLoopEnds \/ WorkerTakes \/ StopStep
  \/ \E c \in Conns : ConnSteps(c)
  \/ \E c \in Peers :
       \/ Accept(c) \/ SubmitChecks(c) \/ SubmitSends(c) \/ HandshakeFails(c)
       \/ EnqueueHTTP(c) \/ SetHandedOff(c) \/ HTTPAccepts(c) \/ HTTPEnds(c)
       \/ \E s \in Sockets : HandleWSConnection(c, s)

IntakeSpec == IntakeInit /\ [][IntakeNext]_intakeVars

----------------------------------------------------------------------------
(* The types.                                                              *)
IntakeTypeOK ==
  /\ at \in [Conns -> Steps] /\ http \in [Peers -> HTTPSteps]
  /\ open \in [Conns -> BOOLEAN] /\ handedOff \in [Peers -> BOOLEAN]
  /\ slots \in Nat /\ jobs \in Seq(Peers) /\ stop \in StopSteps
  /\ {poolClosed, queueClosed, accepting} \subseteq BOOLEAN

(* A slot is taken for every connection that is being handled and for no   *)
(* other, the limits hold, and nobody sends on the channel of a closed     *)
(* pool, which a Submit that has looked before would.                      *)
IntakeExact ==
  /\ slots = Cardinality(InSlot) /\ slots <= MaxConns
  /\ Cardinality(Busy) <= Workers /\ Len(jobs) <= QueueLength
  /\ poolClosed => jobs = <<>> /\ \A c \in Peers : c \notin InSlot

(* A connection has one owner. While it is open its handler or the HTTP    *)
(* server has it, so it will be closed; and what the HTTP server has is    *)
(* closed by nobody else, but for a Stop that finds the handler between    *)
(* handing it over and saying so.                                          *)
OneOwner ==
  /\ \A c \in Conns : open[c] => c \in InSlot \/ (c \in Peers /\ http[c] \in {"queue", "serving"})
  /\ \A c \in Peers :
       http[c] \in {"queue", "serving"} /\ stop \in {"no", "drain", "listener", "range"} => open[c]
=============================================================================
