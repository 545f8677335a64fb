----------------------------- MODULE ClientPool ----------------------------
(***************************************************************************)
(* internal/client/tcp: one PoolClient, from Connect to doneCh. A primary  *)
(* session, data sessions that the warm-up and the scaler add and remove,  *)
(* three goroutines per session, a handler per stream, and Close, which    *)
(* anyone may call. Every goroutine is in the wait group, and who owns the *)
(* client waits for doneCh before it makes the next one: what keeps a      *)
(* goroutine alive keeps the tunnel down.                                  *)
(***************************************************************************)
EXTENDS Integers, FiniteSets

CONSTANTS
  Data,             \* ids of data sessions; one that is gone may come again
  Primary,
  Streams,          \* streams the server opens
  Kinds,            \* what they carry: "tcp", "http", "upgrade"
  MaxSessions, MinSessions, InitialSessions,
  MaxBurst,         \* maxBurstAdd
  Targets,          \* names a rebind may ask for
  NoRebind

(* NewPoolClient clamps what the configuration says to these.              *)
ASSUME PoolAssumption ==
  /\ IsFiniteSet(Data) /\ Primary \notin Data
  /\ MinSessions \in Nat \ {0} /\ InitialSessions \in Nat /\ MaxSessions \in Nat
  /\ MinSessions <= InitialSessions /\ InitialSessions <= MaxSessions
  /\ MaxBurst \in Nat \ {0}
  /\ Kinds \subseteq {"tcp", "http", "upgrade"}
  /\ NoRebind \notin Targets

Sessions == Data \cup {Primary}

VARIABLES
  connect,    \* Connect: "idle", "dialing", "warming", "warmed" while it waits for the
              \* warm-up, "up" when it has returned
  closed,     \* the flag, stopCh and ctx, which Close sets one right after the other
  closing,    \* Close: "no", "stopped", "grabbed", "done"
  grabbed,    \* the sessions Close took over
  primary,    \* c.primary is set
  table,      \* dataSessions
  pending,    \* pendingSessions
  desired,    \* desiredTotal
  tunnelID,   \* the server takes data connections
  link,       \* [Sessions -> LinkStates]: the connection and its yamux session
  adding,     \* [Data -> AddSteps]: addDataSession
  adder,      \* [Data -> {"none", "warmup", "scaler"}]: its caller
  loops,      \* [Sessions -> LoopSteps]: the accept, watch and ping loops; "drop" while
              \* one of them is inside removeDataSession or Close
  control,    \* controlLoop, a LoopSteps
  handler,    \* [Streams -> [at : HandlerSteps, on : Sessions]]: handleStream
  scaler,     \* scalerLoop
  rebind,     \* rebindTo, or NoRebind while rebindSet is false
  done        \* doneCh is closed

LinkStates == {"up", "dead", "closed"}
AddSteps == {"none", "start", "dialing", "handshake", "joining", "joined"}
LoopSteps == {"off", "run", "drop"}
HandlerSteps == {"none", "begin", "upgrade", "pipe"}
ScalerSteps == {"off", "idle", "adding", "picking", "removing", "closing"}

closeVars == <<closed, closing, grabbed>>
countVars == <<primary, table, pending, desired>>
addVars == <<adding, adder>>
loopVars == <<loops, control>>
poolVars == <<connect, closeVars, countVars, tunnelID, link, addVars, loopVars,
              handler, scaler, rebind, done>>

Off == [at |-> "off", left |-> 0, want |-> 0, idle |-> {}, victim |-> Primary]
Free == [at |-> "none", on |-> Primary]

PoolInit ==
  /\ connect = "idle"
  /\ closed = FALSE /\ closing = "no" /\ grabbed = {}
  /\ primary = FALSE /\ table = {} /\ pending = 0 /\ desired = 0 /\ tunnelID = FALSE
  /\ link = [s \in Sessions |-> "closed"]
  /\ adding = [s \in Data |-> "none"] /\ adder = [s \in Data |-> "none"]
  /\ loops = [s \in Sessions |-> "off"] /\ control = "off" /\ handler = [v \in Streams |-> Free]
  /\ scaler = Off /\ rebind = NoRebind /\ done = FALSE

Fresh(step) ==
  /\ connect' = step
  /\ closed' = FALSE /\ closing' = "no" /\ grabbed' = {}
  /\ primary' = FALSE /\ table' = {} /\ pending' = 0 /\ desired' = 0 /\ tunnelID' = FALSE
  /\ link' = [s \in Sessions |-> "closed"]
  /\ adding' = [s \in Data |-> "none"] /\ adder' = [s \in Data |-> "none"]
  /\ loops' = [s \in Sessions |-> "off"] /\ control' = "off"
  /\ handler' = [v \in Streams |-> Free]
  /\ scaler' = Off /\ rebind' = NoRebind /\ done' = FALSE

(* NewPoolClient, for a Connect that follows at once; what an earlier      *)
(* client left running is none of the new one's. And the end of the process. *)
NewPoolClient == Fresh("dialing")
ProcessEnds == Fresh("idle")

(* sessionCountLocked                                                      *)
SessionCount == Cardinality(table) + pending + (IF primary THEN 1 ELSE 0)

Handlers(s) == {v \in Streams : handler[v].at # "none" /\ handler[v].on = s}
Active == {v \in Streams : handler[v].at # "none"}
Gone(s) == link[s] \in {"dead", "closed"}

(* Ids are drawn from a counter: none is used while anything refers to it. *)
Unused(s) ==
  /\ adding[s] = "none" /\ link[s] = "closed" /\ s \notin table \cup grabbed \cup scaler.idle
  /\ loops[s] = "off" /\ Handlers(s) = {}

----------------------------------------------------------------------------
(* Connect. Before the acknowledgement nothing runs and the connection is  *)
(* closed on every error; after it Connect cannot fail any more.           *)
ConnectFails ==
  /\ connect = "dialing"
  /\ connect' = "idle"
  /\ UNCHANGED <<closeVars, countVars, tunnelID, link, addVars, loopVars, handler, scaler,
                 rebind, done>>

Connected ==
  /\ connect = "dialing"
  /\ primary' = TRUE /\ link' = [link EXCEPT ![Primary] = "up"]
  /\ loops' = [loops EXCEPT ![Primary] = "run"] /\ control' \in {"off", "run"}
  /\ \E takesData \in BOOLEAN :
       /\ tunnelID' = takesData
       /\ desired' = IF takesData THEN InitialSessions ELSE 0
       /\ connect' = IF takesData THEN "warming" ELSE "up"
  /\ UNCHANGED <<closeVars, table, pending, addVars, handler, scaler, rebind, done>>

(* warmupSessions: as many at once as are missing.                         *)
WarmUp ==
  /\ connect = "warming" /\ ~closed /\ desired > SessionCount
  /\ \E new \in SUBSET {s \in Data : Unused(s)} :
       /\ Cardinality(new) = desired - SessionCount
       /\ adding' = [s \in Data |-> IF s \in new THEN "start" ELSE adding[s]]
       /\ adder' = [s \in Data |-> IF s \in new THEN "warmup" ELSE adder[s]]
  /\ connect' = "warmed"
  /\ UNCHANGED <<closeVars, countVars, tunnelID, link, loopVars, handler, scaler, rebind, done>>

WarmUpSkipped ==
  /\ connect = "warming" /\ (closed \/ desired <= SessionCount)
  /\ connect' = "warmed"
  /\ UNCHANGED <<closeVars, countVars, tunnelID, link, addVars, loopVars, handler, scaler,
                 rebind, done>>

(* wg.Wait of the warm-up, then the scaler starts and Connect returns.     *)
ConnectReturns ==
  /\ connect = "warmed" /\ \A s \in Data : adder[s] # "warmup"
  /\ connect' = "up" /\ scaler' = [Off EXCEPT !.at = "idle"]
  /\ UNCHANGED <<closeVars, countVars, tunnelID, link, addVars, loopVars, handler, rebind, done>>

----------------------------------------------------------------------------
(* addDataSession, step by step; closedDuringHandshake is looked at after  *)
(* the dial and after the acknowledgement.                                 *)
Adds(s, step) == adding' = [adding EXCEPT ![s] = step]
Returns(s) == Adds(s, "none") /\ adder' = [adder EXCEPT ![s] = "none"]

ReserveSlot(s) ==
  /\ adding[s] = "start"
  /\ IF closed \/ SessionCount >= MaxSessions
     THEN Returns(s) /\ UNCHANGED pending
     ELSE Adds(s, "dialing") /\ pending' = pending + 1 /\ UNCHANGED adder
  /\ UNCHANGED <<connect, closeVars, primary, table, desired, tunnelID, link, loopVars, handler,
                 scaler, rebind, done>>

(* Fault: a dial that fails keeps its slot.                                *)
AddFailsKeepsSlot(s) ==
  /\ adding[s] \in {"dialing", "handshake"} \/ (adding[s] = "joining" /\ closed)
  /\ link' = [link EXCEPT ![s] = "closed"]
  /\ pending' = IF adding[s] = "dialing" \/ pending = 0 THEN pending ELSE pending - 1
  /\ Returns(s)
  /\ UNCHANGED <<connect, closeVars, primary, table, desired, tunnelID, loopVars, handler, scaler,
                 rebind, done>>

(* Every error path: the connection is closed, the slot given back.        *)
AddFails(s) ==
  /\ adding[s] \in {"dialing", "handshake"} \/ (adding[s] = "joining" /\ closed)
  /\ link' = [link EXCEPT ![s] = "closed"]
  /\ pending' = IF pending > 0 THEN pending - 1 ELSE 0
  /\ Returns(s)
  /\ UNCHANGED <<connect, closeVars, primary, table, desired, tunnelID, loopVars, handler, scaler,
                 rebind, done>>

Dialed(s) ==
  /\ adding[s] = "dialing" /\ ~closed
  /\ link' = [link EXCEPT ![s] = "up"] /\ Adds(s, "handshake")
  /\ UNCHANGED <<connect, closeVars, countVars, tunnelID, adder, loopVars, handler, scaler,
                 rebind, done>>

Accepted(s) ==
  /\ adding[s] = "handshake" /\ ~closed
  /\ Adds(s, "joining")
  /\ UNCHANGED <<connect, closeVars, countVars, tunnelID, link, adder, loopVars, handler, scaler,
                 rebind, done>>

(* Fault: the table is not protected by a last look at closed.             *)
JoinTableUnchecked(s) ==
  /\ adding[s] = "joining"
  /\ pending' = pending - 1 /\ table' = table \cup {s}
  /\ Adds(s, "joined")
  /\ UNCHANGED <<connect, closeVars, primary, desired, tunnelID, link, adder, loopVars, handler,
                 scaler, rebind, done>>

(* Under c.mu, as is what Close does to the table.                         *)
JoinTable(s) ==
  /\ adding[s] = "joining" /\ ~closed
  /\ pending' = pending - 1 /\ table' = table \cup {s}
  /\ Adds(s, "joined")
  /\ UNCHANGED <<connect, closeVars, primary, desired, tunnelID, link, adder, loopVars, handler,
                 scaler, rebind, done>>

StartLoops(s) ==
  /\ adding[s] = "joined"
  /\ loops' = [loops EXCEPT ![s] = "run"]
  /\ Returns(s)
  /\ UNCHANGED <<connect, closeVars, countVars, tunnelID, link, control, handler, scaler,
                 rebind, done>>

AddDataSession(s) ==
  \/ ReserveSlot(s) \/ AddFails(s) \/ Dialed(s) \/ Accepted(s)
  \/ JoinTable(s) \/ StartLoops(s)

----------------------------------------------------------------------------
(* The server or the path goes away. It shows as an error of the yamux     *)
(* session or as pings without an answer, which is all the same to a model *)
(* without a clock.                                                        *)
LinkFails(s) ==
  /\ link[s] = "up"
  /\ link' = [link EXCEPT ![s] = "dead"]
  /\ UNCHANGED <<connect, closeVars, countVars, tunnelID, addVars, loopVars, handler, scaler,
                 rebind, done>>

(* What makes a loop drop its session: acceptLoop an error it did not      *)
(* expect, sessionWatcher the end of the session, pingLoop three pings in  *)
(* a row without an answer. Each looks whether the client is closed.       *)
NoticesLoss(s) == Gone(s) /\ ~closed

(* once.Do: the first caller closes, the others wait for it.               *)
CallClose ==
  /\ IF closing = "no" THEN closed' = TRUE /\ closing' = "stopped"
     ELSE UNCHANGED <<closed, closing>>
  /\ UNCHANGED grabbed

(* Fault: the loss of the primary session is handled like any other.       *)
DropPrimaryToo(s) ==
  /\ loops[s] = "run" /\ NoticesLoss(s)
  /\ \/ s = Primary /\ primary /\ primary' = FALSE /\ UNCHANGED table
     \/ s \in table /\ table' = table \ {s} /\ UNCHANGED primary
  /\ loops' = [loops EXCEPT ![s] = "drop"]
  /\ UNCHANGED <<connect, closeVars, pending, desired, tunnelID, link, addVars, control, handler,
                 scaler, rebind, done>>

(* The loss of the primary session closes the client, that of a data       *)
(* session takes it out of the table: the first half of removeDataSession. *)
Drop(s) ==
  /\ loops[s] = "run" /\ NoticesLoss(s)
  /\ \/ s = Primary /\ CallClose /\ UNCHANGED table
     \/ s \in table /\ table' = table \ {s} /\ UNCHANGED closeVars
  /\ loops' = [loops EXCEPT ![s] = "drop"]
  /\ UNCHANGED <<connect, primary, pending, desired, tunnelID, link, addVars, control, handler,
                 scaler, rebind, done>>

(* Its second half closes the session; Close returns to who called it.     *)
DropReturns(s) ==
  /\ loops[s] = "drop" /\ (s = Primary => closing = "done")
  /\ link' = [link EXCEPT ![s] = "closed"]
  /\ loops' = [loops EXCEPT ![s] = "run"]
  /\ UNCHANGED <<connect, closeVars, countVars, tunnelID, addVars, control, handler, scaler,
                 rebind, done>>

(* The loops of a session that is gone, or of a closed client, end.        *)
LoopsEnd(s) ==
  /\ loops[s] = "run"
  /\ closed \/ (Gone(s) /\ s \notin table \cup {Primary})
  /\ loops' = [loops EXCEPT ![s] = "off"]
  /\ UNCHANGED <<connect, closeVars, countVars, tunnelID, link, addVars, control, handler,
                 scaler, rebind, done>>

Loop(s) == Drop(s) \/ DropReturns(s) \/ LoopsEnd(s)

(* controlLoop with handleControlFrame: note the request, then Close.      *)
HandleRebind ==
  /\ control = "run"
  /\ rebind' \in Targets /\ control' = "drop" /\ CallClose
  /\ UNCHANGED <<connect, countVars, tunnelID, link, addVars, loops, handler, scaler, done>>

ControlEnds ==
  /\ \/ control = "drop" /\ closing = "done"
     \/ control = "run" /\ (Gone(Primary) \/ closed)
  /\ control' = "off"
  /\ UNCHANGED <<connect, closeVars, countVars, tunnelID, link, addVars, loops, handler, scaler,
                 rebind, done>>

Control == HandleRebind \/ ControlEnds

----------------------------------------------------------------------------
(* Close, inside once.Do; the first caller sets closed.                    *)
CloseGrabs ==
  /\ closing = "stopped"
  /\ grabbed' = table \cup (IF primary THEN {Primary} ELSE {})
  /\ table' = {} /\ primary' = FALSE /\ closing' = "grabbed"
  /\ UNCHANGED <<connect, closed, pending, desired, tunnelID, link, addVars, loopVars,
                 handler, scaler, rebind, done>>

CloseSessions ==
  /\ closing = "grabbed"
  /\ link' = [s \in Sessions |-> IF s \in grabbed THEN "closed" ELSE link[s]]
  /\ grabbed' = {} /\ closing' = "done"
  /\ UNCHANGED <<connect, closed, countVars, tunnelID, addVars, loopVars, handler, scaler,
                 rebind, done>>

(* Close by the owner of the client, for instance closeTunnelClient.       *)
OwnerCloses ==
  /\ connect = "up" /\ CallClose
  /\ UNCHANGED <<connect, countVars, tunnelID, link, addVars, loopVars, handler, scaler, rebind,
                 done>>

Close == CloseGrabs \/ CloseSessions

----------------------------------------------------------------------------
(* A stream that acceptLoop hands to handleStream, on a healthy session.   *)
StreamOpens(v, s) ==
  /\ loops[s] # "off" /\ link[s] = "up" /\ handler[v].at = "none"
  /\ handler' = [handler EXCEPT ![v] = [at |-> "begin", on |-> s]]
  /\ UNCHANGED <<connect, closeVars, countVars, tunnelID, link, addVars, loopVars, scaler, rebind,
                 done>>

HandlerStep(v, to) ==
  /\ handler' = [handler EXCEPT ![v] = IF to = "none" THEN Free ELSE [@ EXCEPT !.at = to]]
  /\ UNCHANGED <<connect, closeVars, countVars, tunnelID, link, addVars, loopVars, scaler, rebind,
                 done>>

(* The request is read for at most 30 seconds, the local service dialled   *)
(* for at most ten; an upgrade is then sent to it.                         *)
HandlerBegins(v) ==
  /\ handler[v].at = "begin"
  /\ \E k \in Kinds, ok \in BOOLEAN :
       HandlerStep(v, IF ~ok THEN "none" ELSE IF k = "upgrade" THEN "upgrade" ELSE "pipe")

(* handleWebSocketUpgrade waits for the local service's answer without a   *)
(* deadline, and nothing but that answer ends the wait.                    *)
UpgradeAnswered(v) ==
  /\ handler[v].at = "upgrade"
  /\ HandlerStep(v, "none") \/ HandlerStep(v, "pipe")

(* A pipe, or the exchange with the local service, ends by itself, ...     *)
HandlerEnds(v) == handler[v].at = "pipe" /\ HandlerStep(v, "none")

(* ... and when its session or the client is closed.                       *)
HandlerCut(v) == (closed \/ Gone(handler[v].on)) /\ HandlerEnds(v)

----------------------------------------------------------------------------
(* scalerLoop. A session is meant for hundreds of streams, of which this   *)
(* model follows a few: the load is any, the cool-downs may have passed.   *)
Scaler(rec) == scaler' = rec
Least(a, b) == IF a < b THEN a ELSE b
Most(a, b) == IF a < b THEN b ELSE a

Burst ==
  LET left == Least(MaxBurst, MaxSessions - SessionCount) IN
  /\ SessionCount < MaxSessions
  /\ Scaler([Off EXCEPT !.at = "adding", !.left = left, !.want = SessionCount + left])

ScaleUp ==
  LET want == Least(desired + 1, MaxSessions) IN
  /\ SessionCount < MaxSessions /\ want > desired
  /\ Scaler([Off EXCEPT !.at = "adding", !.left = 1, !.want = want])

ScaleDown ==
  LET want == Most(desired - 1, MinSessions) IN
  /\ SessionCount > MinSessions /\ want < desired /\ SessionCount > want
  /\ Scaler([Off EXCEPT !.at = "picking", !.want = want])

Tick ==
  /\ scaler.at = "idle" /\ ~closed /\ SessionCount > 0
  /\ Burst \/ ScaleUp \/ ScaleDown
  /\ UNCHANGED <<connect, closeVars, countVars, tunnelID, link, addVars, loopVars, handler, rebind,
                 done>>

(* The scaler adds one after the other.                                    *)
ScalerAdds(s) ==
  /\ scaler.at = "adding" /\ scaler.left > 0 /\ \A d \in Data : adder[d] # "scaler"
  /\ Unused(s)
  /\ Adds(s, "start") /\ adder' = [adder EXCEPT ![s] = "scaler"]
  /\ Scaler([scaler EXCEPT !.left = @ - 1])
  /\ UNCHANGED <<connect, closeVars, countVars, tunnelID, link, loopVars, handler, rebind, done>>

Scaled ==
  /\ scaler.at = "adding" /\ scaler.left = 0 /\ \A d \in Data : adder[d] # "scaler"
  /\ desired' = scaler.want /\ Scaler([Off EXCEPT !.at = "idle"])
  /\ UNCHANGED <<connect, closeVars, primary, table, pending, tunnelID, link, addVars, loopVars,
                 handler, rebind, done>>

(* removeIdleSessions(1): the candidates as they are now, ...              *)
ScalerPicks ==
  /\ scaler.at = "picking"
  /\ Scaler([scaler EXCEPT !.at = "removing", !.idle = {s \in table : Handlers(s) = {}}])
  /\ UNCHANGED <<connect, closeVars, countVars, tunnelID, link, addVars, loopVars, handler, rebind,
                 done>>

(* ... and one after the other until one of them could be removed.         *)
ScalerRemoves ==
  /\ scaler.at = "removing"
  /\ IF scaler.idle = {}
     THEN /\ desired' = scaler.want /\ Scaler([Off EXCEPT !.at = "idle"])
          /\ UNCHANGED table
     ELSE \E s \in scaler.idle :
            /\ table' = table \ {s}
            /\ Scaler(IF s \in table THEN [scaler EXCEPT !.at = "closing", !.victim = s]
                                      ELSE [scaler EXCEPT !.idle = @ \ {s}])
            /\ UNCHANGED desired
  /\ UNCHANGED <<connect, closeVars, primary, pending, tunnelID, link, addVars, loopVars, handler,
                 rebind, done>>

ScalerCloses ==
  /\ scaler.at = "closing"
  /\ link' = [link EXCEPT ![scaler.victim] = "closed"]
  /\ desired' = scaler.want /\ Scaler([Off EXCEPT !.at = "idle"])
  /\ UNCHANGED <<connect, closeVars, primary, table, pending, tunnelID, addVars, loopVars, handler,
                 rebind, done>>

ScalerEnds ==
  /\ scaler.at = "idle" /\ closed
  /\ Scaler(Off)
  /\ UNCHANGED <<connect, closeVars, countVars, tunnelID, link, addVars, loopVars, handler, rebind,
                 done>>

Scale ==
  \/ (\E s \in Data : ScalerAdds(s)) \/ Scaled
  \/ ScalerPicks \/ ScalerRemoves \/ ScalerCloses \/ ScalerEnds

----------------------------------------------------------------------------
(* wg.Wait: Connect has returned, stopCh is closed, nobody runs any more.  *)
WaitGroupEmpty ==
  /\ closed /\ scaler.at = "off" /\ Active = {}
  /\ control = "off" /\ \A s \in Sessions : loops[s] = "off"

Finish ==
  /\ connect = "up" /\ ~done /\ WaitGroupEmpty
  /\ done' = TRUE
  /\ UNCHANGED <<connect, closeVars, countVars, tunnelID, link, addVars, loopVars, handler, scaler,
                 rebind>>

(* What the program does by itself.                                        *)
PoolRuns ==
  \/ Connected \/ WarmUp \/ WarmUpSkipped \/ ConnectReturns \/ Close \/ Control \/ Scale
  \/ Finish
  \/ \E s \in Data : AddDataSession(s)
  \/ \E s \in Sessions : Loop(s)
  \/ \E v \in Streams : HandlerBegins(v) \/ HandlerCut(v)

(* What happens to it: traffic, the tick of the scaler, the network.       *)
PoolEnvironment ==
  \/ Tick
  \/ \E s \in Sessions : LinkFails(s)
  \/ \E v \in Streams :
       UpgradeAnswered(v) \/ HandlerEnds(v) \/ \E s \in Sessions : StreamOpens(v, s)

(* The pool by itself, whoever owns it.                                    *)
PoolNext ==
  \/ connect = "idle" /\ NewPoolClient
  \/ ConnectFails \/ OwnerCloses \/ PoolRuns \/ PoolEnvironment

(* Goroutines run and calls with a deadline return: addDataSession and the *)
(* handlers, but for the answer to an upgrade, which nothing obliges the   *)
(* local service to give. Connect and the network promise nothing.         *)
PoolFairness ==
  /\ WF_poolVars(WarmUp \/ WarmUpSkipped \/ ConnectReturns)
  /\ WF_poolVars(Close) /\ WF_poolVars(ControlEnds) /\ WF_poolVars(Scale) /\ WF_poolVars(Finish)
  /\ \A s \in Data : WF_poolVars(AddDataSession(s))
  /\ \A s \in Sessions : WF_poolVars(Loop(s))
  /\ \A v \in Streams : WF_poolVars(HandlerBegins(v) \/ HandlerCut(v))

PoolSpec == PoolInit /\ [][PoolNext]_poolVars /\ PoolFairness

----------------------------------------------------------------------------
(* The types of the pool's variables.                                      *)
PoolTypeOK ==
  /\ connect \in {"idle", "dialing", "warming", "warmed", "up"}
  /\ closed \in BOOLEAN /\ primary \in BOOLEAN
  /\ closing \in {"no", "stopped", "grabbed", "done"}
  /\ grabbed \subseteq Sessions /\ table \subseteq Data
  /\ pending \in Nat /\ desired \in Nat /\ tunnelID \in BOOLEAN /\ done \in BOOLEAN
  /\ link \in [Sessions -> LinkStates] /\ loops \in [Sessions -> LoopSteps]
  /\ control \in LoopSteps
  /\ adding \in [Data -> AddSteps] /\ adder \in [Data -> {"none", "warmup", "scaler"}]
  /\ handler \in [Streams -> [at : HandlerSteps, on : Sessions]]
  /\ scaler \in [at : ScalerSteps, left : 0..MaxBurst, want : 0..MaxSessions,
                 idle : SUBSET Data, victim : Sessions]
  /\ rebind \in Targets \cup {NoRebind}

(* pendingSessions counts the calls of addDataSession under way, however   *)
(* they end, and the sessions are never more than MaxSessions.             *)
SlotsExact ==
  /\ pending = Cardinality({s \in Data : adding[s] \in {"dialing", "handshake", "joining"}})
  /\ SessionCount <= MaxSessions

(* Close leaves no connection behind: one that is being dialled or taken   *)
(* down meanwhile is closed by whoever holds it, and when the client is    *)
(* done none is open.                                                      *)
NothingLeftOpen ==
  closing = "done" =>
    /\ table = {} /\ ~primary
    /\ \A s \in Sessions : link[s] # "closed" =>
         \/ s \in Data /\ adding[s] \in {"handshake", "joining"}
         \/ scaler.at = "closing" /\ scaler.victim = s
         \/ loops[s] = "drop"
    /\ done => pending = 0 /\ \A s \in Sessions : link[s] = "closed"
=============================================================================
