---------------------- MODULE StreamForwarding_proofs -----------------------
(***************************************************************************)
(* The data connections of a tunnel and the streams its visitors get, for  *)
(* any number of connections, visitors and failures tolerated. First the   *)
(* heartbeat of ConnectionGroup; then who owns a stream, and that          *)
(* OpenStream finds room. The last needs three facts together: the group   *)
(* holds every data session that serves, until it is closed; a session     *)
(* that had room all along has room now; and while OpenStream works on its *)
(* heap, such a session is still in it, or is being tried.                 *)
(***************************************************************************)
EXTENDS StreamForwarding, TLAPS

(* A streak of failures is never longer than the pings that went without   *)
(* an answer, the one it waits for included.                               *)
Streak ==
  \A d \in Data :
    failures[d] + (IF beat = "pinging" /\ current = d THEN 1 ELSE 0) <= missed[d]

Snapshot ==
  /\ current \in Ids \cup {None}
  /\ beat = "pinging" => current \in Ids

GroupIInv == GroupTypeOK /\ Snapshot /\ Streak

(* What the connections and the closers do leaves the heartbeat's          *)
(* variables alone, but for the start of the loop by the first session.    *)
PeerTypes ==
  /\ handler \in [Ids -> HandlerPhases] /\ session \in [Ids -> {"none", "open", "closed"}]
  /\ silent \subseteq Ids /\ held \subseteq Ids /\ closing \subseteq Ids
  /\ owner \in OwnerSteps /\ cleaner \in CleanerSteps

BeatTypes ==
  /\ toPing \subseteq Ids /\ inFlight \subseteq Ids /\ beat \in BeatSteps
  /\ failures \in [Ids -> 0 .. MaxFailures - 1] /\ missed \in [Ids -> 0 .. MaxFailures]
  /\ ping \in [Ids -> PingStates]
  /\ inFlight = pending \cup (IF beat = "pinging" THEN {current} ELSE {})
  /\ beat = "pinging" => current \notin pending
  /\ {d \in Ids : ping[d] # "none"} \subseteq inFlight

(* GroupTypeOK by parts, now and after a step.                             *)
LEMMA GroupParts == GroupTypeOK <=> PeerTypes /\ BeatTypes
BY DEF GroupTypeOK, PeerTypes, BeatTypes

LEMMA GroupPartsNext == GroupTypeOK' <=> PeerTypes' /\ BeatTypes'
BY DEF GroupTypeOK, PeerTypes, BeatTypes

(* Initial states.                                                         *)
LEMMA GroupInitHolds == GroupInit => GroupIInv
BY GroupAssumption
   DEF GroupInit, GroupIInv, GroupTypeOK, Snapshot, Streak, Ids, HandlerPhases, OwnerSteps,
       CleanerSteps, BeatSteps, PingStates

(* Steps that leave the heartbeat alone, or start it.                      *)
LEMMA BeatIdle ==
  ASSUME GroupIInv, UNCHANGED <<pings, toPing, current>>,
         beat' = beat \/ (beat = "off" /\ beat' = "waiting")
  PROVE  BeatTypes' /\ Snapshot' /\ Streak'
<1>1. BeatTypes /\ Snapshot /\ Streak
  BY GroupParts DEF GroupIInv
<1>2. BeatTypes'
  BY <1>1 DEF BeatTypes, BeatSteps, pings
<1>3. Snapshot' /\ Streak'
  BY <1>1 DEF Snapshot, Streak, pings
<1> QED
  BY <1>2, <1>3

----------------------------------------------------------------------------
(* A connection on its way into the group.                                 *)
LEMMA JoiningKeeps ==
  ASSUME GroupIInv, NEW d \in Ids, Joining(d)
  PROVE  GroupIInv'
<1>1. PeerTypes
  BY GroupParts DEF GroupIInv
<1>2. PeerTypes'
  BY <1>1 DEF PeerTypes, Joining, Find, MakeSession, Join, Fail, AddSession, Moves, HandlerPhases,
              OwnerSteps, CleanerSteps, group, closers
<1>3. BeatTypes' /\ Snapshot' /\ Streak'
  BY BeatIdle DEF Joining, Find, MakeSession, Join, Fail, AddSession, beats
<1> QED
  BY <1>2, <1>3, GroupPartsNext DEF GroupIInv

(* The other steps of connections and their peers.                         *)
LEMMA SessionKeeps ==
  ASSUME GroupIInv, SessionStep \/ \E d \in Ids : FallSilent(d)
  PROVE  GroupIInv'
<1>1. PeerTypes
  BY GroupParts DEF GroupIInv
<1>2. CASE Keep
  <2>1. PeerTypes'
    BY <1>1, <1>2 DEF PeerTypes, Keep, Moves, HandlerPhases, group, closers
  <2>2. BeatTypes' /\ Snapshot' /\ Streak'
    BY <1>2, BeatIdle DEF Keep, beats
  <2> QED
    BY <2>1, <2>2, GroupPartsNext DEF GroupIInv
<1>3. ASSUME NEW d \in Ids, Leave(d) PROVE GroupIInv'
  <2>1. PeerTypes'
    BY <1>1, <1>3 DEF PeerTypes, Leave, Moves, RemoveSession, CloseSession, HandlerPhases, closers
  <2>2. BeatTypes' /\ Snapshot' /\ Streak'
    BY <1>3, BeatIdle DEF Leave, beats
  <2> QED
    BY <2>1, <2>2, GroupPartsNext DEF GroupIInv
<1>4. ASSUME NEW d \in Ids, Break(d) \/ FallSilent(d) PROVE GroupIInv'
  <2>1. PeerTypes'
    BY <1>1, <1>4 DEF PeerTypes, Break, FallSilent, CloseSession, group, closers
  <2>2. BeatTypes' /\ Snapshot' /\ Streak'
    BY <1>4, BeatIdle DEF Break, FallSilent, beats
  <2> QED
    BY <2>1, <2>2, GroupPartsNext DEF GroupIInv
<1> QED
  BY <1>2, <1>3, <1>4, JoiningKeeps DEF SessionStep

(* Close of the primary connection, and the stale-group task.              *)
LEMMA CloseKeeps ==
  ASSUME GroupIInv, CloseStep \/ GrowQuiet \/ CollectStale \/ CleanerClosesGroup \/ CleanerUnlists
  PROVE  GroupIInv'
<1>1. PeerTypes
  BY GroupParts DEF GroupIInv
<1>2. ASSUME NEW d \in Ids, CloseLeftover(d) PROVE PeerTypes'
  BY <1>1, <1>2 DEF PeerTypes, CloseLeftover, CloseSession, group
<1>3. ASSUME BeginClose \/ ShutPrimary \/ Unlist \/ OwnerClosesGroup PROVE PeerTypes'
  BY <1>1, <1>3 DEF PeerTypes, BeginClose, ShutPrimary, Unlist, OwnerClosesGroup, CloseGroup, CloseSession,
                    OwnerSteps, peers, group
<1>4. ASSUME GrowQuiet \/ CollectStale \/ CleanerClosesGroup \/ CleanerUnlists PROVE PeerTypes'
  BY <1>1, <1>4 DEF PeerTypes, GrowQuiet, CollectStale, CleanerClosesGroup, CleanerUnlists, CloseGroup,
                    CleanerSteps, peers, group, closers
<1>5. PeerTypes'
  BY <1>2, <1>3, <1>4 DEF CloseStep
<1>6. UNCHANGED <<pings, beats>>
  BY DEF CloseStep, CloseLeftover, BeginClose, ShutPrimary, Unlist, OwnerClosesGroup, GrowQuiet,
         CollectStale, CleanerClosesGroup, CleanerUnlists
<1>7. BeatTypes' /\ Snapshot' /\ Streak'
  BY <1>6, BeatIdle DEF beats
<1> QED
  BY <1>5, <1>7, GroupPartsNext DEF GroupIInv

----------------------------------------------------------------------------
(* Steps of the heartbeat: the sessions they may remove, and what they do  *)
(* to the count of d, the session they are about.                          *)
LEMMA HeartbeatPeers ==
  ASSUME GroupIInv, NEW d \in Ids, Heartbeat(d)
  PROVE  PeerTypes'
<1>1. PeerTypes
  BY GroupParts DEF GroupIInv
<1>2. UNCHANGED <<handler, silent, closers>> /\ held' \subseteq held /\ (session' = session \/ CloseSession(d))
  BY DEF Heartbeat, VisitClosed, VisitPending, StillRuns, Late, StartPing, Pinged, PingTimesOut,
         Succeeds, Fails, RemoveSession, peers, group
<1> QED
  BY <1>1, <1>2 DEF PeerTypes, CloseSession, closers

(* What every visit of the loop leaves behind.                             *)
LEMMA VisitedTyped ==
  ASSUME GroupIInv, NEW d \in Ids, Visited(d)
  PROVE  toPing' \subseteq Ids /\ beat' \in {"waiting", "scanning"} /\ current' = None
BY DEF Visited, GroupIInv, GroupTypeOK

(* Visits that start no ping.                                              *)
LEMMA VisitKeeps ==
  ASSUME GroupIInv, NEW d \in Ids, VisitClosed(d) \/ VisitPending(d)
  PROVE  BeatTypes' /\ Snapshot' /\ Streak'
<1>1. BeatTypes /\ Streak /\ beat = "scanning"
  BY GroupParts DEF GroupIInv, VisitClosed, VisitPending, Overdue
<1>2. toPing' \subseteq Ids /\ beat' \in {"waiting", "scanning"} /\ current' = None
  BY VisitedTyped DEF VisitClosed, VisitPending
<1>3. \/ Forget(d)
      \/ UNCHANGED pings
      \/ Received(d) /\ failures' = [failures EXCEPT ![d] = 0] /\ missed' = [missed EXCEPT ![d] = 0]
      \/ Received(d) /\ UNCHANGED <<failures, missed>>
  BY DEF VisitClosed, VisitPending, StillRuns, Late, Succeeds
<1>4. BeatTypes'
  <2>1. failures' \in [Ids -> 0 .. MaxFailures - 1] /\ missed' \in [Ids -> 0 .. MaxFailures]
    BY <1>1, <1>3, GroupAssumption DEF BeatTypes, Forget, pings
  <2>2. CASE UNCHANGED pings
    BY <1>1, <1>2, <2>1, <2>2 DEF BeatTypes, BeatSteps, pings
  <2>3. CASE Forget(d) \/ Received(d)
    <3>1. inFlight' = inFlight \ {d} /\ pending' = pending \ {d} /\ ping' = [ping EXCEPT ![d] = "none"]
      BY <2>3 DEF Forget, Received
    <3>2. inFlight' = pending' /\ inFlight' \subseteq Ids
      BY <1>1, <3>1 DEF BeatTypes
    <3>3. ping' \in [Ids -> PingStates] /\ {e \in Ids : ping'[e] # "none"} \subseteq inFlight'
      BY <1>1, <3>1 DEF BeatTypes, PingStates
    <3> QED
      BY <1>2, <2>1, <3>2, <3>3 DEF BeatTypes, BeatSteps
  <2> QED
    BY <1>3, <2>2, <2>3 DEF pings
<1>5. Streak'
  BY <1>1, <1>2, <1>3 DEF BeatTypes, Streak, Forget, Received, pings, Ids
<1> QED
  BY <1>2, <1>4, <1>5 DEF Snapshot

(* The ping counts as missed from its start, as a failure when it has      *)
(* failed: the wait in between is the one in Streak.                       *)
LEMMA StartPingKeeps ==
  ASSUME GroupIInv, NEW d \in Ids, StartPing(d)
  PROVE  BeatTypes' /\ Snapshot' /\ Streak'
<1>1. BeatTypes /\ Streak
  BY GroupParts DEF GroupIInv
<1>2. BeatTypes'
  BY <1>1, GroupAssumption DEF BeatTypes, StartPing, BeatSteps, PingStates
<1>3. Snapshot'
  BY DEF Snapshot, StartPing
<1>4. ASSUME NEW e \in Data
      PROVE  (failures[e] + (IF beat = "pinging" /\ current = e THEN 1 ELSE 0) <= missed[e])'
  <2>1. CASE e = d
    BY <1>1, <2>1, GroupAssumption DEF BeatTypes, Streak, StartPing, Ids
  <2>2. CASE e # d
    BY <1>1, <2>2 DEF BeatTypes, Streak, StartPing, Ids
  <2> QED
    BY <2>1, <2>2
<1> QED
  BY <1>2, <1>3, <1>4 DEF Streak

(* The end of a wait.                                                      *)
LEMMA WaitKeeps ==
  ASSUME GroupIInv, NEW d \in Ids, Pinged(d) \/ PingTimesOut(d)
  PROVE  BeatTypes' /\ Snapshot' /\ Streak'
<1>1. BeatTypes /\ Streak /\ beat = "pinging" /\ current = d
  BY GroupParts DEF GroupIInv, Pinged, PingTimesOut
<1>2. toPing' \subseteq Ids /\ beat' \in {"waiting", "scanning"} /\ current' = None
  BY VisitedTyped DEF Pinged, PingTimesOut
<1>3. \/ Forget(d)
      \/ Received(d) /\ failures' = [failures EXCEPT ![d] = 0] /\ missed' = [missed EXCEPT ![d] = 0]
      \/ /\ d = Primary \/ failures[d] + 1 # MaxFailures
         /\ failures' = [failures EXCEPT ![d] = IF d = Primary THEN @ ELSE @ + 1]
         /\ UNCHANGED missed
         /\ Received(d) \/ Outlived(d)
  BY DEF Pinged, PingTimesOut, Succeeds, Fails
<1>4. BeatTypes'
  BY <1>1, <1>2, <1>3, GroupAssumption DEF BeatTypes, Forget, Received, Outlived, BeatSteps, PingStates
<1>5. Streak'
  BY <1>1, <1>2, <1>3, GroupAssumption DEF BeatTypes, Streak, Forget, Ids
<1> QED
  BY <1>2, <1>4, <1>5 DEF Snapshot

(* The loop, and the goroutines of its pings.                              *)
LEMMA BeatKeeps ==
  ASSUME GroupIInv, Beat \/ \E d \in Ids : PingEnds(d)
  PROVE  GroupIInv'
<1>1. PeerTypes /\ BeatTypes /\ Streak /\ Snapshot
  BY GroupParts DEF GroupIInv
<1>2. ASSUME NEW d \in Ids, Heartbeat(d) PROVE GroupIInv'
  <2>1. BeatTypes' /\ Snapshot' /\ Streak'
    BY <1>2, VisitKeeps, StartPingKeeps, WaitKeeps DEF Heartbeat
  <2> QED
    BY <1>2, <2>1, HeartbeatPeers, GroupPartsNext DEF GroupIInv
<1>3. CASE Tick \/ NothingToPing
  <2>1. PeerTypes'
    BY <1>1, <1>3 DEF PeerTypes, Tick, NothingToPing, peers, group, closers
  <2>2. BeatTypes' /\ Snapshot' /\ Streak'
    BY <1>1, <1>3 DEF PeerTypes, BeatTypes, Snapshot, Streak, Tick, NothingToPing, BeatSteps, pings
  <2> QED
    BY <2>1, <2>2, GroupPartsNext DEF GroupIInv
<1>4. CASE BeatStops
  <2>1. PeerTypes'
    BY <1>1, <1>4 DEF PeerTypes, BeatStops, peers, group, closers
  <2>2. BeatTypes' /\ Snapshot' /\ Streak'
    BY <1>1, <1>4, GroupAssumption DEF BeatTypes, Snapshot, Streak, BeatStops, BeatSteps, PingStates, Ids
  <2> QED
    BY <2>1, <2>2, GroupPartsNext DEF GroupIInv
<1>5. ASSUME NEW d \in Ids, PingEnds(d) PROVE GroupIInv'
  <2>1. PeerTypes'
    BY <1>1, <1>5 DEF PeerTypes, PingEnds, peers, group, closers
  <2>2. BeatTypes' /\ Snapshot' /\ Streak'
    BY <1>1, <1>5 DEF BeatTypes, Snapshot, Streak, PingEnds, PingStates, beats
  <2> QED
    BY <2>1, <2>2, GroupPartsNext DEF GroupIInv
<1> QED
  BY <1>2, <1>3, <1>4, <1>5 DEF Beat

(* Every step.                                                             *)
LEMMA GroupStepKeeps == GroupIInv /\ [GroupNext]_groupVars => GroupIInv'
<1>1. ASSUME GroupIInv, UNCHANGED groupVars PROVE GroupIInv'
  BY <1>1 DEF GroupIInv, GroupTypeOK, Snapshot, Streak, groupVars, peers, group, closers, pings, beats
<1>2. ASSUME GroupIInv, GroupNext PROVE GroupIInv'
  BY <1>2, SessionKeeps, CloseKeeps, BeatKeeps DEF GroupNext
<1> QED
  BY <1>1, <1>2

(* The invariant holds of every behaviour.                                 *)
THEOREM HeartbeatInvariant == GroupSpec => []GroupIInv
BY GroupInitHolds, GroupStepKeeps, PTL DEF GroupSpec

(* Types, and what the heartbeat's maps mean together.                     *)
THEOREM GroupTypeCorrect == GroupSpec => []GroupTypeOK
<1>1. GroupIInv => GroupTypeOK
  BY DEF GroupIInv
<1> QED
  BY <1>1, HeartbeatInvariant, PTL

----------------------------------------------------------------------------
(* No two pings of a session at once: the loop starts one only for a       *)
(* session that is not in flight, and all that may still run are.          *)
THEOREM OnePingCorrect == GroupSpec => OnePing
<1> DEFINE Starts == \A d \in Ids : (current' = d /\ current # d) => ping[d] # "running"
<1>1. ASSUME GroupIInv, GroupNext, NEW d \in Ids, current' = d, current # d PROVE ping[d] # "running"
  <2>1. None # d
    BY GroupAssumption
  <2>2. StartPing(d)
    BY <1>1, <2>1
       DEF GroupNext, SessionStep, Keep, Joining, Find, MakeSession, Join, AddSession, Fail, Leave, Break,
           CloseStep, CloseLeftover, BeginClose, ShutPrimary, Unlist, OwnerClosesGroup, FallSilent,
           PingEnds, GrowQuiet, CollectStale, CleanerClosesGroup, CleanerUnlists, beats,
           Beat, Tick, NothingToPing, BeatStops, Heartbeat, VisitClosed, VisitPending, Visited,
           Pinged, PingTimesOut, StartPing
  <2> QED
    BY <1>1, <2>2 DEF StartPing, GroupIInv, GroupTypeOK
<1>2. GroupIInv /\ [GroupNext]_groupVars => [Starts]_groupVars
  BY <1>1
<1> QED
  BY <1>2, HeartbeatInvariant, PTL DEF OnePing, GroupSpec

(* The heartbeat closes an open session only after MaxFailures pings in a  *)
(* row without an answer: its count never runs ahead of them.              *)
THEOREM RemovedForCauseCorrect == GroupSpec => RemovedForCause
<1> DEFINE Cause == \A d \in Ids : (Open(d) /\ ~Open(d)' /\ toPing' # toPing)
                                   => (d # Primary /\ missed[d] = MaxFailures)
<1>1. ASSUME GroupIInv, GroupNext, NEW d \in Ids, Open(d), ~Open(d)', toPing' # toPing
      PROVE  d # Primary /\ missed[d] = MaxFailures
  <2>1. PICK e \in Ids : Pinged(e) \/ PingTimesOut(e)
    <3>1. Beat
      BY <1>1 DEF GroupNext, SessionStep, Keep, Joining, Find, MakeSession, Join, AddSession, Fail, Leave,
           Break, CloseStep, CloseLeftover, BeginClose, ShutPrimary, Unlist, OwnerClosesGroup, FallSilent,
           PingEnds, GrowQuiet, CollectStale, CleanerClosesGroup, CleanerUnlists, beats
    <3>2. ~(Tick \/ NothingToPing \/ BeatStops)
      BY <1>1 DEF Tick, NothingToPing, BeatStops, peers, Open
    <3>3. ASSUME NEW e \in Ids, VisitClosed(e) PROVE FALSE
      BY <1>1, <3>3 DEF VisitClosed, RemoveSession, CloseSession, Open, GroupIInv, GroupTypeOK
    <3>4. ASSUME NEW e \in Ids, VisitPending(e) \/ StartPing(e) PROVE FALSE
      BY <1>1, <3>4 DEF VisitPending, StillRuns, Late, Succeeds, StartPing, peers, Open
    <3> QED
      BY <3>1, <3>2, <3>3, <3>4 DEF Beat, Heartbeat
  <2>2. e = d /\ d # Primary /\ failures[d] + 1 = MaxFailures
    BY <1>1, <2>1 DEF Pinged, PingTimesOut, Succeeds, Fails, RemoveSession, CloseSession, Open,
                      GroupIInv, GroupTypeOK
  <2>3. failures[d] + 1 <= missed[d] /\ missed[d] \in 0 .. MaxFailures
    BY <1>1, <2>1, <2>2 DEF Pinged, PingTimesOut, GroupIInv, GroupTypeOK, Streak, Ids
  <2> QED
    BY <2>2, <2>3, GroupAssumption
<1>2. GroupIInv /\ [GroupNext]_groupVars => [Cause]_groupVars
  BY <1>1
<1> QED
  BY <1>2, HeartbeatInvariant, PTL DEF RemovedForCause, GroupSpec

----------------------------------------------------------------------------
(* Streams and visitors.                                                   *)
VisitTypes ==
  /\ visitor \in [Visitors -> VisitorSteps] /\ opener \in [Visitors -> OpenerSteps]
  /\ attempt \in [Visitors -> 0 .. MaxAttempts]
  /\ heap = [v \in Visitors |-> heap[v]]
  /\ target \in [Visitors -> Ids \cup {None}] /\ stream \in [Visitors -> Ids \cup {None}]

(* OpenStream runs, or has answered, exactly while somebody waits for it,  *)
(* and it is over once it has a stream.                                    *)
VisitOK(v) ==
  /\ opener[v] = "none" <=> visitor[v] \in {"away", "piping"}
  /\ stream[v] # None => visitor[v] = "piping" \/ opener[v] = "answered"
  /\ visitor[v] = "piping" => stream[v] # None
  /\ target[v] # None <=> opener[v] = "opening"

(* The heap holds sessions of the group, those with room among them.       *)
Queued(d, v) == \E entry \in heap[v] : entry.id = d
HeapOK(v) ==
  /\ \A entry \in heap[v] : entry.id \in Ids
  /\ opener[v] = "trying" => \A d \in roomy[v] : Queued(d, v)
  /\ opener[v] = "opening" => \A d \in roomy[v] : Queued(d, v) \/ d = target[v]

RoomOK(v) == \A d \in roomy[v] : d \in Data /\ HasRoom(d)

ServingIsHeld == \A d \in Data : handler[d] = "serving" /\ Open(d) /\ ~stopped => d \in held

SInv ==
  /\ GroupIInv /\ VisitTypes /\ ServingIsHeld
  /\ \A v \in Visitors : VisitOK(v) /\ HeapOK(v) /\ RoomOK(v)

(* Initial states.                                                         *)
LEMMA StreamInitHolds == Init => SInv
<1> SUFFICES ASSUME Init PROVE SInv
  OBVIOUS
<1>1. GroupIInv
  BY GroupInitHolds DEF Init
<1>2. VisitTypes
  BY ForwardingAssumption DEF Init, VisitTypes, VisitorSteps, OpenerSteps
<1>3. \A v \in Visitors : VisitOK(v) /\ HeapOK(v) /\ RoomOK(v)
  BY DEF Init, VisitOK, HeapOK, RoomOK
<1>4. ServingIsHeld
  BY GroupAssumption DEF Init, GroupInit, ServingIsHeld, Ids, Open
<1> QED
  BY <1>1, <1>2, <1>3, <1>4 DEF SInv

----------------------------------------------------------------------------
(* The group under a visit, which only forgets sessions that are closed,   *)
(* and under its own steps.                                                *)
LEMMA GroupKeeps ==
  ASSUME GroupIInv, ServingIsHeld,
         SessionStep \/ CloseStep \/ \E v \in Visitors : OpenStream(v) \/ Visit(v)
  PROVE  GroupIInv' /\ ServingIsHeld'
<1>1. CASE \E v \in Visitors : OpenFails(v)
  <2>1. PICK v \in Visitors : OpenFails(v)
    BY <1>1
  <2>2. PeerTypes'
    BY <2>1, GroupParts DEF GroupIInv, PeerTypes, OpenFails, peers, closers
  <2>3. BeatTypes' /\ Snapshot' /\ Streak'
    BY <2>1, BeatIdle DEF OpenFails, beats
  <2>4. ServingIsHeld'
    BY <2>1 DEF OpenFails, ServingIsHeld, Open, peers
  <2> QED
    BY <2>2, <2>3, <2>4, GroupPartsNext DEF GroupIInv
<1>2. CASE UNCHANGED groupVars
  <2>1. ServingIsHeld'
    BY <1>2 DEF ServingIsHeld, Open, groupVars, peers, group
  <2> QED
    BY <1>2, <2>1, GroupStepKeeps
<1>3. CASE SessionStep \/ CloseStep
  <2>1. GroupIInv'
    BY <1>3, GroupStepKeeps DEF GroupNext
  <2>2. handler \in [Ids -> HandlerPhases] /\ session \in [Ids -> {"none", "open", "closed"}]
    BY DEF GroupIInv, GroupTypeOK
  <2>3. ASSUME NEW d \in Ids, Joining(d) PROVE ServingIsHeld'
    BY <2>2, <2>3, GroupAssumption
       DEF ServingIsHeld, Joining, Find, MakeSession, Join, AddSession, Fail, Moves, Open, Ids, group
  <2>4. ASSUME Keep \/ \E d \in Ids : Leave(d) \/ Break(d) PROVE ServingIsHeld'
    BY <2>2, <2>4, GroupAssumption
       DEF ServingIsHeld, Keep, Leave, Break, RemoveSession, CloseSession, Moves, Open, Ids, group
  <2>5. ASSUME CloseStep PROVE ServingIsHeld'
    BY <2>2, <2>5
       DEF ServingIsHeld, CloseStep, BeginClose, ShutPrimary, Unlist, OwnerClosesGroup, CloseGroup, CloseLeftover,
           CloseSession, Open, Ids, peers, group
  <2> QED
    BY <1>3, <2>1, <2>3, <2>4, <2>5 DEF SessionStep
<1> QED
  BY <1>1, <1>2, <1>3 DEF OpenStream, Visit, Choose, Try, Exhausted, Resume, OpenSucceeds, Accept, Take, GiveUp,
                          DrainLate, PipeEnds

(* A visit keeps its own part of the invariant and leaves the others'.     *)
LEMMA VisitsKeep ==
  ASSUME VisitTypes, NEW v \in Visitors, OpenStream(v) \/ Visit(v), VisitOK(v), HeapOK(v)
  PROVE  VisitTypes' /\ VisitOK(v)'
<1>1. CASE Visit(v)
  BY <1>1, ForwardingAssumption
     DEF VisitTypes, VisitOK, Visit, Accept, Goes, Answered, Take, GiveUp, DrainLate, PipeEnds, opening,
         VisitorSteps, OpenerSteps
<1>2. CASE Choose(v) \/ Exhausted(v) \/ Resume(v) \/ OpenFails(v)
  BY <1>2, ForwardingAssumption, GroupAssumption
     DEF VisitTypes, VisitOK, Choose, Exhausted, Resume, OpenFails, Goes, VisitorSteps, OpenerSteps
<1>3. CASE Try(v)
  <2>1. PICK entry \in heap[v] :
          /\ heap' = [heap EXCEPT ![v] = @ \ {entry}]
          /\ IF Open(entry.id) /\ Load(entry.id) < Cap
             THEN target' = [target EXCEPT ![v] = entry.id] /\ Goes(v, "opening")
             ELSE UNCHANGED <<target, opener>>
    BY <1>3 DEF Try
  <2>2. entry.id \in Ids /\ opener[v] = "trying" /\ UNCHANGED <<visitor, attempt, stream>>
    BY <1>3 DEF Try, HeapOK
  <2> QED
    BY <2>1, <2>2, GroupAssumption DEF VisitTypes, VisitOK, Goes, OpenerSteps
<1>4. CASE OpenSucceeds(v)
  BY <1>4, GroupAssumption DEF VisitTypes, VisitOK, OpenSucceeds, Goes, OpenerSteps
<1> QED
  BY <1>1, <1>2, <1>3, <1>4 DEF OpenStream

(* No step of a visit shows to another.                                    *)
LEMMA OthersKeep ==
  ASSUME VisitTypes, NEW v \in Visitors, OpenStream(v) \/ Visit(v), NEW u \in Visitors, u # v
  PROVE  /\ visitor'[u] = visitor[u] /\ opener'[u] = opener[u] /\ heap'[u] = heap[u]
         /\ target'[u] = target[u] /\ stream'[u] = stream[u]
<1>1. CASE Visit(v)
  BY <1>1 DEF VisitTypes, Visit, Accept, Goes, Answered, Take, GiveUp, DrainLate, PipeEnds, opening
<1>2. CASE OpenStream(v)
  BY <1>2 DEF VisitTypes, OpenStream, Choose, Try, Exhausted, Resume, OpenSucceeds, OpenFails, Goes
<1> QED
  BY <1>1, <1>2

(* KeepRoom, spelled out: room is only ever lost during a call.            *)
LEMMA RoomNext ==
  ASSUME KeepRoom, NEW v \in Visitors, RoomOK(v)
  PROVE  /\ RoomOK(v)'
         /\ opener'[v] \in {"none", "answered"} => roomy'[v] = {}
         /\ opener[v] # "none" => roomy'[v] \subseteq roomy[v]
         /\ opener[v] = "opening" /\ opener'[v] = "trying" => target[v] \notin roomy'[v]
<1>1. roomy'[v] = IF opener'[v] \in {"none", "answered"} THEN {}
                 ELSE {d \in IF opener[v] = "none" THEN Data ELSE roomy[v] :
                         HasRoom(d)' /\ ~(opener[v] = "opening" /\ opener'[v] = "trying" /\ target[v] = d)}
  BY DEF KeepRoom
<1> QED
  BY <1>1 DEF RoomOK

(* A session with room is a candidate, whatever else the group holds.      *)
LEMMA RoomyIsCandidate ==
  ASSUME ServingIsHeld, ~stopped, NEW v \in Visitors, RoomOK(v), NEW d \in roomy[v]
  PROVE  d \in Candidates
BY GroupAssumption DEF ServingIsHeld, RoomOK, HasRoom, Candidates

(* The heap of a call through its own steps: what leaves it is tried, or   *)
(* had no room.                                                            *)
LEMMA OwnHeapKeeps ==
  ASSUME GroupIInv, ServingIsHeld, VisitTypes, NEW v \in Visitors, VisitOK(v), HeapOK(v), RoomOK(v),
         OpenStream(v) \/ Visit(v), KeepRoom
  PROVE  HeapOK(v)'
<1>1. opener[v] # "none" => roomy'[v] \subseteq roomy[v]
  BY RoomNext
<1>2. CASE Visit(v)
  BY <1>1, <1>2 DEF Visit, Accept, Goes, Answered, Take, GiveUp, DrainLate, PipeEnds, opening, VisitTypes, VisitOK,
                    HeapOK, Queued
<1>3. CASE Choose(v)
  <2>1. CASE opener'[v] = "answered"
    BY <1>3, <2>1 DEF Choose, Goes, VisitTypes, HeapOK
  <2>2. CASE /\ ~stopped /\ opener'[v] = "trying"
             /\ heap' = [heap EXCEPT ![v] = {[id |-> d, load |-> Load(d)] : d \in Candidates}]
    <3>1. Candidates \subseteq Ids
      BY DEF Candidates, GroupIInv, GroupTypeOK
    <3>2. ASSUME NEW d \in roomy'[v] PROVE Queued(d, v)'
      <4>1. d \in Candidates
        BY <1>1, <1>3, <2>2, RoomyIsCandidate DEF Choose
      <4>2. [id |-> d, load |-> Load(d)] \in heap'[v]
        BY <2>2, <4>1 DEF VisitTypes
      <4> QED
        BY <4>2 DEF Queued
    <3> QED
      BY <2>2, <3>1, <3>2 DEF HeapOK, VisitTypes
  <2> QED
    BY <1>3, <2>1, <2>2 DEF Choose, Goes, VisitTypes
<1>4. CASE Try(v)
  <2>1. PICK entry \in heap[v] :
          /\ heap' = [heap EXCEPT ![v] = @ \ {entry}]
          /\ IF Open(entry.id) /\ Load(entry.id) < Cap
             THEN target' = [target EXCEPT ![v] = entry.id] /\ Goes(v, "opening")
             ELSE UNCHANGED <<target, opener>>
    BY <1>4 DEF Try
  <2>2. opener[v] = "trying" /\ roomy'[v] \subseteq roomy[v] /\ heap'[v] = heap[v] \ {entry}
    BY <1>1, <1>4, <2>1 DEF Try, VisitTypes
  <2>3. CASE Open(entry.id) /\ Load(entry.id) < Cap
    <3>1. target'[v] = entry.id /\ opener'[v] = "opening"
      BY <2>1, <2>3 DEF VisitTypes, Goes
    <3>2. ASSUME NEW d \in roomy'[v], d # entry.id PROVE Queued(d, v)'
      BY <2>2, <3>2 DEF HeapOK, Queued
    <3> QED
      BY <2>2, <3>1, <3>2 DEF HeapOK
  <2>4. CASE ~(Open(entry.id) /\ Load(entry.id) < Cap)
    <3>1. entry.id \notin roomy[v]
      BY <2>4 DEF RoomOK, HasRoom
    <3>2. ASSUME NEW d \in roomy'[v] PROVE Queued(d, v)'
      BY <2>2, <3>1, <3>2 DEF HeapOK, Queued
    <3> QED
      BY <2>1, <2>2, <2>4, <3>2 DEF HeapOK
  <2> QED
    BY <2>3, <2>4
<1>5. CASE OpenFails(v)
  <2>1. opener[v] = "opening" /\ opener'[v] = "trying" /\ UNCHANGED heap
    BY <1>5 DEF OpenFails, Goes, VisitTypes
  <2>2. roomy'[v] \subseteq roomy[v] \ {target[v]}
    BY <1>1, <2>1, RoomNext
  <2> QED
    BY <2>1, <2>2 DEF HeapOK, Queued
<1>6. CASE Exhausted(v) \/ Resume(v) \/ OpenSucceeds(v)
  BY <1>6 DEF Exhausted, Resume, OpenSucceeds, Goes, VisitTypes, HeapOK
<1> QED
  BY <1>2, <1>3, <1>4, <1>5, <1>6 DEF OpenStream

(* What other goroutines do leaves a visit its heap, and can only take     *)
(* room away.                                                              *)
LEMMA VisitAtRest ==
  ASSUME KeepRoom, NEW v \in Visitors, VisitOK(v), HeapOK(v), RoomOK(v),
         visitor'[v] = visitor[v], opener'[v] = opener[v], heap'[v] = heap[v], target'[v] = target[v],
         stream'[v] = stream[v]
  PROVE  VisitOK(v)' /\ HeapOK(v)'
<1>1. VisitOK(v)'
  BY DEF VisitOK
<1>2. opener[v] # "none" => roomy'[v] \subseteq roomy[v]
  BY RoomNext
<1>3. HeapOK(v)'
  BY <1>2 DEF HeapOK, Queued
<1> QED
  BY <1>1, <1>3

(* Every step.                                                             *)
LEMMA StreamStepKeeps == SInv /\ [Next]_vars => SInv'
<1> SUFFICES ASSUME SInv, [Next]_vars PROVE SInv'
  OBVIOUS
<1>1. /\ GroupIInv /\ VisitTypes /\ ServingIsHeld
      /\ \A v \in Visitors : VisitOK(v) /\ HeapOK(v) /\ RoomOK(v)
  BY DEF SInv
<1>2. CASE UNCHANGED vars
  <2>1. GroupIInv'
    BY <1>1, <1>2, GroupStepKeeps DEF vars
  <2>2. VisitTypes' /\ ServingIsHeld'
    BY <1>1, <1>2 DEF vars, opening, VisitTypes, ServingIsHeld, groupVars, peers, group, Open
  <2>3. ASSUME NEW v \in Visitors PROVE VisitOK(v)' /\ HeapOK(v)' /\ RoomOK(v)'
    BY <1>1, <1>2 DEF vars, opening, VisitOK, HeapOK, Queued, RoomOK, HasRoom, Load, groupVars, peers, Open
  <2> QED
    BY <2>1, <2>2, <2>3 DEF SInv
<1>3. CASE (SessionStep \/ CloseStep) /\ UNCHANGED <<visitor, opening, stream>> /\ KeepRoom
  <2>1. GroupIInv' /\ ServingIsHeld'
    BY <1>1, <1>3, GroupKeeps
  <2>2. VisitTypes'
    BY <1>1, <1>3 DEF VisitTypes, opening
  <2>3. ASSUME NEW v \in Visitors PROVE VisitOK(v)' /\ HeapOK(v)' /\ RoomOK(v)'
    BY <1>1, <1>3, VisitAtRest, RoomNext DEF opening
  <2> QED
    BY <2>1, <2>2, <2>3 DEF SInv
<1>4. ASSUME NEW v \in Visitors, OpenStream(v) \/ Visit(v), KeepRoom PROVE SInv'
  <2>1. GroupIInv' /\ ServingIsHeld'
    BY <1>1, <1>4, GroupKeeps
  <2>2. VisitTypes' /\ VisitOK(v)'
    BY <1>1, <1>4, VisitsKeep
  <2>3. HeapOK(v)'
    BY <1>1, <1>4, OwnHeapKeeps
  <2>4. ASSUME NEW u \in Visitors, u # v PROVE VisitOK(u)' /\ HeapOK(u)'
    BY <1>1, <1>4, <2>4, OthersKeep, VisitAtRest
  <2>5. \A u \in Visitors : RoomOK(u)'
    BY <1>1, <1>4, RoomNext
  <2> QED
    BY <2>1, <2>2, <2>3, <2>4, <2>5 DEF SInv
<1> QED
  BY <1>2, <1>3, <1>4 DEF Next

(* The invariant holds of every behaviour.                                 *)
THEOREM StreamInvariant == Spec => []SInv
BY StreamInitHolds, StreamStepKeeps, PTL DEF Spec

(* Types, and which step of a visit holds what.                            *)
THEOREM StreamTypeCorrect == Spec => []TypeOK
<1>1. SInv => TypeOK
  BY DEF SInv, VisitTypes, VisitOK, HeapOK, TypeOK
<1> QED
  BY <1>1, StreamInvariant, PTL

(* A stream is never nobody's.                                             *)
THEOREM NoOrphanCorrect == Spec => []NoOrphanStream
<1>1. SInv => NoOrphanStream
  BY DEF SInv, VisitTypes, VisitOK, NoOrphanStream, VisitorSteps
<1> QED
  BY <1>1, StreamInvariant, PTL

(* OpenStream does not give up while there has been room all the time.     *)
THEOREM FindsRoomCorrect == Spec => FindsRoom
<1> DEFINE Found == \A v \in Visitors :
       (opener[v] # "answered" /\ opener'[v] = "answered" /\ stream'[v] = None /\ ~stopped) => roomy[v] = {}
<1>1. ASSUME SInv, Next, NEW v \in Visitors,
             opener[v] # "answered", opener'[v] = "answered", stream'[v] = None, ~stopped
      PROVE  roomy[v] = {}
  <2>1. VisitTypes /\ ServingIsHeld /\ HeapOK(v) /\ RoomOK(v)
    BY <1>1 DEF SInv
  <2>2. PICK u \in Visitors : OpenStream(u) \/ Visit(u)
    BY <1>1 DEF Next, opening
  <2>3. u = v
    BY <1>1, <2>1, <2>2, OthersKeep
  <2>4. CASE Choose(v)
    <3>1. Candidates = {}
      BY <1>1, <2>1, <2>4 DEF Choose, Goes, VisitTypes
    <3> QED
      BY <1>1, <2>1, <3>1, RoomyIsCandidate
  <2>5. CASE Exhausted(v)
    BY <2>1, <2>5 DEF Exhausted, HeapOK, Queued
  <2>6. Choose(v) \/ Exhausted(v)
    BY <1>1, <2>1, <2>2, <2>3, GroupAssumption
       DEF OpenStream, Visit, Try, Resume, OpenSucceeds, OpenFails, Accept, Take, GiveUp, DrainLate, PipeEnds,
           Goes, Answered, VisitTypes, opening, SInv, VisitOK
  <2> QED
    BY <2>4, <2>5, <2>6
<1>2. SInv /\ [Next]_vars => [Found]_vars
  BY <1>1
<1> QED
  BY <1>2, StreamInvariant, PTL DEF FindsRoom, Spec
=============================================================================
