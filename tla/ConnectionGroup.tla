-------------------------- MODULE ConnectionGroup --------------------------
(***************************************************************************)
(* internal/server/tcp: the yamux sessions of one tunnel. The primary      *)
(* connection creates the group while it registers; data connections find  *)
(* it by tunnel id and add their sessions; a heartbeat goroutine pings     *)
(* them in turn and drops those that do not answer; the group ends when    *)
(* the primary connection is closed or the manager's task finds the group  *)
(* quiet for too long.                                                     *)
(*                                                                         *)
(* Ids of data connections are unique (a counter of the client process),   *)
(* so an id stands for its session. What Close of the primary connection   *)
(* does besides is TunnelLifecycle's.                                      *)
(***************************************************************************)
EXTENDS Integers, FiniteSets

CONSTANTS
  Data,          \* data connections that may join
  Primary,
  MaxFailures,   \* maxConsecutiveFailures
  None

Ids == Data \cup {Primary}

ASSUME GroupAssumption ==
  /\ IsFiniteSet(Data) /\ Primary \notin Data /\ None \notin Ids
  /\ MaxFailures \in Nat \ {0}

VARIABLES
  handler,   \* [Ids -> HandlerPhases]: the goroutine of the connection
  session,   \* [Ids -> {"none", "open", "closed"}]
  silent,    \* those whose peer has stopped answering
  held,      \* ConnectionGroup.Sessions
  stopped,   \* ConnectionGroup.stopCh is closed
  listed,    \* the manager has the group
  quiet,     \* LastActivity is older than staleTimeout
  owner,     \* Close of the primary connection
  knows,     \* it found the group's registration when it began
  cleaner,   \* cleanupStaleGroups
  closing,   \* sessions a Close of the group has still to close
  beat,      \* heartbeatLoop
  toPing,    \* its snapshot, as far as not visited
  current,   \* the session whose ping it waits for
  failures,  \* failureCount
  ping,      \* [Ids -> PingStates]: the last Ping goroutine and its channel
  inFlight, pending,   \* pingInFlight, pendingDone
  missed     \* history: pings since the last that was seen to succeed, at most MaxFailures

HandlerPhases == {"new", "created", "kept", "found", "made", "serving", "done"}
OwnerSteps == {"open", "stopping", "unlisting", "closingGroup", "closed"}
CleanerSteps == {"idle", "closingPrimary", "closingGroup", "unlisting"}
BeatSteps == {"off", "waiting", "scanning", "pinging", "done"}
PingStates == {"none", "running", "ok", "err"}

peers == <<handler, session, silent>>
group == <<held, stopped, listed, quiet>>
closers == <<owner, knows, cleaner, closing>>
pings == <<failures, ping, inFlight, pending, missed>>
beats == <<beat, toPing, current>>
groupVars == <<peers, group, closers, pings, beats>>

GroupInit ==
  /\ handler = [d \in Ids |-> IF d = Primary THEN "created" ELSE "new"]
  /\ session = [d \in Ids |-> "none"]
  /\ silent = {} /\ held = {} /\ closing = {}
  /\ stopped = FALSE /\ listed = TRUE /\ quiet = FALSE
  /\ owner = "open" /\ knows = FALSE /\ cleaner = "idle"
  /\ beat = "off" /\ toPing = {} /\ current = None
  /\ failures = [d \in Ids |-> 0] /\ missed = [d \in Ids |-> 0]
  /\ ping = [d \in Ids |-> "none"]
  /\ inFlight = {} /\ pending = {}

Open(d) == session[d] = "open"
CloseSession(d) == session' = [session EXCEPT ![d] = IF @ = "open" THEN "closed" ELSE @]
Moves(d, phase) == handler' = [handler EXCEPT ![d] = phase]

----------------------------------------------------------------------------
(* RemoveSession, for an id that is held or not.                           *)
RemoveSession(d) == held' = held \ {d} /\ CloseSession(d)

(* AddSession: nobody looks whether the group is closed. The first one     *)
(* starts the heartbeat.                                                   *)
AddSession(d) ==
  /\ held' = held \cup {d} /\ quiet' = FALSE
  /\ beat' = IF beat = "off" THEN "waiting" ELSE beat
  /\ UNCHANGED <<stopped, listed, toPing, current>>

(* The lifecycle manager is told of the group, and the client of its id.   *)
Keep ==
  /\ handler[Primary] = "created" /\ Moves(Primary, "kept")
  /\ UNCHANGED <<session, silent, group, closers, pings, beats>>

(* GetGroup: a data connection asks first, the primary once it has a       *)
(* session; without the group it serves alone.                             *)
Find(d) ==
  /\ IF d = Primary THEN handler[d] = "made"
     ELSE handler[d] = "new" /\ handler[Primary] # "created"
  /\ Moves(d, IF listed THEN "found" ELSE IF d = Primary THEN "serving" ELSE "done")
  /\ UNCHANGED <<session, silent, group, closers, pings, beats>>

(* yamux.Client, on a connection that may be closed already.               *)
MakeSession(d) ==
  /\ handler[d] = IF d = Primary THEN "kept" ELSE "found"
  /\ Moves(d, "made")
  /\ session' = [session EXCEPT ![d] =
       IF d = Primary /\ owner \notin {"open", "stopping"} THEN "closed" ELSE "open"]
  /\ UNCHANGED <<silent, group, closers, pings, beats>>

Join(d) ==
  /\ handler[d] = IF d = Primary THEN "found" ELSE "made"
  /\ Moves(d, "serving")
  /\ AddSession(d)
  /\ UNCHANGED <<session, silent, closers, pings>>

(* The answer cannot be written, or yamux does not start.                  *)
Fail(d) ==
  /\ handler[d] = IF d = Primary THEN "kept" ELSE "found"
  /\ Moves(d, "done")
  /\ UNCHANGED <<session, silent, group, closers, pings, beats>>

(* The session has ended or the connection is told to stop.                *)
Leave(d) ==
  /\ handler[d] = "serving" /\ Moves(d, "done")
  /\ IF d = Primary THEN UNCHANGED <<session, held>> ELSE RemoveSession(d)
  /\ UNCHANGED <<silent, stopped, listed, quiet, closers, pings, beats>>

(* The session ends by itself: the peer, the network, yamux's keepalive.   *)
Break(d) ==
  /\ Open(d) /\ CloseSession(d)
  /\ UNCHANGED <<handler, silent, group, closers, pings, beats>>

FallSilent(d) ==
  /\ Open(d) /\ d \in held \ silent /\ silent' = silent \cup {d}
  /\ UNCHANGED <<handler, session, group, closers, pings, beats>>

----------------------------------------------------------------------------
(* ConnectionGroup.Close: whoever comes first empties the group, and then  *)
(* closes the sessions one after the other.                                *)
CloseGroup ==
  /\ stopped' = TRUE /\ held' = IF stopped THEN held ELSE {}
  /\ closing' = IF stopped THEN closing ELSE held

CloseLeftover(d) ==
  /\ d \in closing
  /\ CloseSession(d) /\ closing' = closing \ {d}
  /\ UNCHANGED <<handler, silent, group, owner, knows, cleaner, pings, beats>>

(* Close of the primary connection, once: by its handler, by Listener.Stop *)
(* at any moment, by the cleaner.                                          *)
BeginClose ==
  /\ owner = "open" /\ owner' = "stopping"
  /\ knows' = (handler[Primary] # "created")
  /\ UNCHANGED <<peers, group, cleaner, closing, pings, beats>>

(* The proxy has stopped, or its 30 seconds are over.                      *)
ShutPrimary ==
  /\ owner = "stopping"
  /\ owner' = IF knows THEN "unlisting" ELSE "closed"
  /\ CloseSession(Primary)
  /\ UNCHANGED <<handler, silent, group, knows, cleaner, closing, pings, beats>>

(* RemoveGroup: only who takes the entry closes the group.                 *)
Unlist ==
  /\ owner = "unlisting"
  /\ owner' = IF listed THEN "closingGroup" ELSE "closed"
  /\ listed' = FALSE
  /\ UNCHANGED <<peers, held, stopped, quiet, knows, cleaner, closing, pings, beats>>

OwnerClosesGroup ==
  /\ owner = "closingGroup" /\ owner' = "closed" /\ CloseGroup
  /\ UNCHANGED <<peers, listed, quiet, knows, cleaner, pings, beats>>

----------------------------------------------------------------------------
(* Five minutes without a session added or a ping answered, which is       *)
(* longer than a connection takes to join, and a Close to end.             *)
GrowQuiet ==
  /\ ~quiet /\ quiet' = TRUE
  /\ owner \in {"open", "closed"} /\ closing = {}
  /\ \A d \in Ids : handler[d] \in {"new", "serving", "done"}
  /\ \A d \in held : Open(d) => d \in silent
  /\ UNCHANGED <<peers, held, stopped, listed, closers, pings, beats>>

(* cleanupStaleGroups collects the group, and acts on it later.            *)
CollectStale ==
  /\ cleaner = "idle" /\ listed /\ quiet /\ cleaner' = "closingPrimary"
  /\ UNCHANGED <<peers, group, owner, knows, closing, pings, beats>>

(* Fault: the group is left to the Close of its primary connection.        *)
CleanerLeavesGroup ==
  /\ cleaner = "closingPrimary" /\ owner = "closed" /\ cleaner' = "unlisting"
  /\ UNCHANGED <<peers, group, owner, knows, closing, pings, beats>>

(* PrimaryConn.Close returns when that Close is done, whoever began it;    *)
(* then the group is closed "even if the map entry was already removed".   *)
CleanerClosesGroup ==
  /\ cleaner = "closingPrimary" /\ owner = "closed" /\ cleaner' = "unlisting" /\ CloseGroup
  /\ UNCHANGED <<peers, listed, quiet, owner, knows, pings, beats>>

CleanerUnlists ==
  /\ cleaner = "unlisting" /\ cleaner' = "idle" /\ listed' = FALSE
  /\ UNCHANGED <<peers, held, stopped, quiet, owner, knows, closing, pings, beats>>

----------------------------------------------------------------------------
(* heartbeatLoop                                                           *)
Tick ==
  /\ beat = "waiting" /\ beat' = "scanning" /\ toPing' = held
  /\ UNCHANGED <<peers, group, closers, pings, current>>

Visited(d) ==
  /\ toPing' = toPing \ {d} /\ current' = None
  /\ beat' = IF toPing' = {} THEN "waiting" ELSE "scanning"

(* A snapshot without sessions.                                            *)
NothingToPing ==
  /\ beat = "scanning" /\ toPing = {} /\ beat' = "waiting"
  /\ UNCHANGED <<peers, group, closers, pings, toPing, current>>

(* The session is gone, and with it the channel of a last ping.            *)
Forget(d) ==
  /\ failures' = [failures EXCEPT ![d] = 0] /\ missed' = [missed EXCEPT ![d] = 0]
  /\ ping' = [ping EXCEPT ![d] = "none"]
  /\ inFlight' = inFlight \ {d} /\ pending' = pending \ {d}

(* handlePingResult after a success.                                       *)
Succeeds(d) ==
  /\ failures' = [failures EXCEPT ![d] = 0] /\ missed' = [missed EXCEPT ![d] = 0]
  /\ quiet' = FALSE
  /\ UNCHANGED <<session, held, stopped, listed>>

(* The channel of the last ping has been read.                             *)
Received(d) ==
  /\ ping' = [ping EXCEPT ![d] = "none"]
  /\ inFlight' = inFlight \ {d} /\ pending' = pending \ {d}

(* Fault: a ping that timed out is forgotten.                              *)
OutlivedForgotten(d) == inFlight' = inFlight \ {d} /\ UNCHANGED <<ping, pending>>

(* The wait is over and the channel is kept.                               *)
Outlived(d) == pending' = pending \cup {d} /\ UNCHANGED <<ping, inFlight>>

(* handlePingResult after a failure. The primary is kept whatever happens, *)
(* so that its failures need no count.                                     *)
Fails(d, late) ==
  /\ IF d # Primary /\ failures[d] + 1 = MaxFailures
     THEN Forget(d) /\ RemoveSession(d)
     ELSE /\ failures' = [failures EXCEPT ![d] = IF d = Primary THEN @ ELSE @ + 1]
          /\ IF late THEN Outlived(d) ELSE Received(d)
          /\ UNCHANGED <<missed, session, held>>
  /\ UNCHANGED <<stopped, listed, quiet>>

VisitClosed(d) ==
  /\ beat = "scanning" /\ d \in toPing /\ ~Open(d)
  /\ RemoveSession(d) /\ Forget(d) /\ Visited(d)
  /\ UNCHANGED <<handler, silent, stopped, listed, quiet, closers>>

Overdue(d) == beat = "scanning" /\ d \in toPing /\ Open(d) /\ d \in pending
StillRuns(d) == ping[d] = "running" /\ UNCHANGED <<session, group, pings>>
Late(d) == ping[d] # "running" /\ Received(d)

(* Fault: a late failure is counted a second time.                         *)
VisitPendingCounts(d) ==
  /\ Overdue(d)
  /\ \/ StillRuns(d)
     \/ Late(d) /\ ping[d] = "ok" /\ Succeeds(d)
     \/ ping[d] = "err" /\ Fails(d, FALSE)
  /\ Visited(d)
  /\ UNCHANGED <<handler, silent, closers>>

(* Fault: any late result ends the streak.                                 *)
VisitPendingForgives(d) ==
  /\ Overdue(d)
  /\ \/ StillRuns(d)
     \/ Late(d) /\ Succeeds(d)
  /\ Visited(d)
  /\ UNCHANGED <<handler, silent, closers>>

(* A ping that outlived its timeout: a late success counts, a late failure *)
(* was counted when it timed out.                                          *)
VisitPending(d) ==
  /\ Overdue(d)
  /\ \/ StillRuns(d)
     \/ Late(d) /\ ping[d] = "ok" /\ Succeeds(d)
     \/ Late(d) /\ ping[d] = "err" /\ UNCHANGED <<session, group, failures, missed>>
  /\ Visited(d)
  /\ UNCHANGED <<handler, silent, closers>>

StartPing(d) ==
  /\ beat = "scanning" /\ d \in toPing /\ Open(d) /\ d \notin pending \cup inFlight
  /\ inFlight' = inFlight \cup {d}
  /\ ping' = [ping EXCEPT ![d] = "running"]
  /\ missed' = [missed EXCEPT ![d] = IF d = Primary \/ @ = MaxFailures THEN @ ELSE @ + 1]
  /\ beat' = "pinging" /\ current' = d
  /\ UNCHANGED <<peers, group, closers, toPing, failures, pending>>

(* The Ping goroutine: a silent peer, a closed session or a slow write end *)
(* in an error, yamux's own timeout if nothing else.                       *)
PingEnds(d) ==
  /\ ping[d] = "running"
  /\ \/ Open(d) /\ d \notin silent /\ ping' = [ping EXCEPT ![d] = "ok"]
     \/ ping' = [ping EXCEPT ![d] = "err"]
  /\ UNCHANGED <<peers, group, closers, beats, failures, inFlight, pending, missed>>

Pinged(d) ==
  /\ beat = "pinging" /\ current = d /\ ping[d] \in {"ok", "err"}
  /\ IF ping[d] = "ok" THEN Succeeds(d) /\ Received(d) ELSE Fails(d, FALSE)
  /\ Visited(d)
  /\ UNCHANGED <<handler, silent, closers>>

PingTimesOut(d) ==
  /\ beat = "pinging" /\ current = d
  /\ Fails(d, TRUE)
  /\ Visited(d)
  /\ UNCHANGED <<handler, silent, closers>>

(* Between scans or while it waits for a ping; its variables are gone.     *)
BeatStops ==
  /\ beat \in {"waiting", "pinging"} /\ stopped /\ beat' = "done"
  /\ toPing' = {} /\ current' = None
  /\ failures' = [d \in Ids |-> 0] /\ missed' = failures'
  /\ ping' = [d \in Ids |-> "none"] /\ inFlight' = {} /\ pending' = {}
  /\ UNCHANGED <<peers, group, closers>>

----------------------------------------------------------------------------
Heartbeat(d) ==
  VisitClosed(d) \/ VisitPending(d) \/ StartPing(d) \/ Pinged(d) \/ PingTimesOut(d)
Beat == Tick \/ NothingToPing \/ BeatStops \/ \E d \in Ids : Heartbeat(d)

(* What happens to the sessions, and what streams see of it.               *)
Joining(d) == Find(d) \/ MakeSession(d) \/ Join(d) \/ Fail(d)
SessionStep == Keep \/ \E d \in Ids : Joining(d) \/ Leave(d) \/ Break(d)
CloseStep ==
  BeginClose \/ ShutPrimary \/ Unlist \/ OwnerClosesGroup \/ \E d \in Ids : CloseLeftover(d)

GroupNext ==
  \/ SessionStep \/ CloseStep \/ Beat
  \/ \E d \in Ids : FallSilent(d) \/ PingEnds(d)
  \/ GrowQuiet \/ CollectStale \/ CleanerClosesGroup \/ CleanerUnlists

(* The runtime schedules goroutines, a handshake ends by its deadlines, a  *)
(* handler whose session has ended returns, yamux ends a ping, Close is called by the handler's defer and  *)
(* by the cleaner. Nothing is assumed of peers and of the network.         *)
GroupFairness ==
  /\ WF_groupVars(Keep)
  /\ \A d \in Ids : /\ WF_groupVars(handler[d] # "new" /\ Joining(d))
                    /\ WF_groupVars(~Open(d) /\ Leave(d))
                    /\ WF_groupVars(PingEnds(d)) /\ WF_groupVars(CloseLeftover(d))
  /\ WF_groupVars(BeginClose /\ (handler[Primary] = "done" \/ cleaner = "closingPrimary"))
  /\ WF_groupVars(ShutPrimary \/ Unlist \/ OwnerClosesGroup)
  /\ WF_groupVars(GrowQuiet)
  /\ WF_groupVars(CollectStale \/ CleanerClosesGroup \/ CleanerUnlists)
  /\ WF_groupVars(Beat)
GroupSpec == GroupInit /\ [][GroupNext]_groupVars /\ GroupFairness

----------------------------------------------------------------------------
(* Types, and what the heartbeat's maps mean together: the sessions in     *)
(* flight are the one it waits for and those whose ping outlived the wait, *)
(* and only what outlived it may still run.                                *)
GroupTypeOK ==
  /\ handler \in [Ids -> HandlerPhases] /\ session \in [Ids -> {"none", "open", "closed"}]
  /\ silent \cup held \cup closing \cup toPing \cup inFlight \subseteq Ids
  /\ owner \in OwnerSteps /\ cleaner \in CleanerSteps /\ beat \in BeatSteps
  /\ failures \in [Ids -> 0 .. MaxFailures - 1] /\ missed \in [Ids -> 0 .. MaxFailures]
  /\ ping \in [Ids -> PingStates]
  /\ inFlight = pending \cup (IF beat = "pinging" THEN {current} ELSE {})
  /\ beat = "pinging" => current \notin pending
  /\ {d \in Ids : ping[d] # "none"} \subseteq inFlight

(* "We never start overlapping pings (and leak goroutines) on a wedged     *)
(* session": heartbeatLoop.                                                *)
OnePing ==
  [][\A d \in Ids : (current' = d /\ current # d) => ping[d] # "running"]_groupVars

(* The heartbeat closes an open session only after as many pings in a row  *)
(* as it tolerates went without an answer it could see, each counted once, *)
(* however late its result comes; and never that of the primary.           *)
RemovedForCause ==
  [][\A d \in Ids : (Open(d) /\ ~Open(d)' /\ toPing' # toPing)
                      => (d # Primary /\ missed[d] = MaxFailures)]_groupVars

(* A data session that stops answering leaves an open group, although a    *)
(* ping may outlive its timeout and is not repeated before it ends.        *)
WedgedGoes ==
  \A d \in Data : (d \in silent /\ d \in held /\ ~stopped) ~> (~Open(d) \/ stopped)

(* Close of the primary connection may begin before it knows of the group; *)
(* the stale-group task ends that group too, unless data connections keep  *)
(* it busy.                                                                *)
GroupGoes == owner = "closed" ~> (stopped \/ \E d \in Data : Open(d))
=============================================================================
