--------------------------- MODULE Server_proofs ----------------------------
(***************************************************************************)
(* Parts of the server process, for any numbers and limits: what a visitor *)
(* of a tunnel is let to (VisitorAccess), in which order the process       *)
(* starts and stops what it is made of (ServerProcess), how the listener   *)
(* takes connections in (Intake), and what the orders of certificates do   *)
(* to the challenge zone they share (ChallengeZone).                       *)
(***************************************************************************)
EXTENDS VisitorAccess, ServerProcess, Intake, ChallengeZone, FiniteSetTheorems, TLAPS

InUse == {"forwarding", "hijacking", "piping"}
Counted(t) == {v \in Visitors : request[v].tunnel = t /\ request[v].step \in InUse}

ActiveExact == \A t \in Tunnels : active[t] = Cardinality(Counted(t))
StreamsInUse == \A v \in Visitors : request[v].stream => request[v].step \in InUse \cup {"late"}
TunnelKnown == \A v \in Visitors : request[v].step # "idle" => request[v].tunnel \in Tunnels

RequestsOK == ActiveExact /\ StreamsInUse /\ TunnelKnown
VisitorIInv == VisitorTypeOK /\ current \in Tunnels \cup {NoTunnel} /\ RequestsOK

(* What a set of connections counts for when one of them comes or goes.    *)
LEMMA CountedFinite ==
  ASSUME NEW t \in Tunnels PROVE IsFiniteSet(Counted(t)) /\ Cardinality(Counted(t)) \in Nat
BY VisitorAssumption, FS_Subset, FS_CardinalityType DEF Counted

LEMMA CountsOneMore ==
  ASSUME NEW S, IsFiniteSet(S), NEW v, v \notin S PROVE Cardinality(S \cup {v}) = Cardinality(S) + 1
BY FS_AddElement

LEMMA CountsOneLess ==
  ASSUME NEW S, IsFiniteSet(S), NEW v, v \in S
  PROVE  Cardinality(S \ {v}) = Cardinality(S) - 1 /\ Cardinality(S) >= 1
<1>1. IsFiniteSet(S \ {v}) /\ Cardinality(S \ {v}) = Cardinality(S) - 1
  BY FS_RemoveElement
<1> QED
  BY <1>1, FS_CardinalityType

(* A visitor whose request is not counted, and is not afterwards.          *)
LEMMA NotCounted ==
  ASSUME VisitorIInv, NEW v \in Visitors, NEW r, request' = [request EXCEPT ![v] = r],
         request[v].step \notin InUse, r.step \notin InUse,
         r.step # "idle" => r.tunnel \in Tunnels, r.stream => r.step = "late", active' = active
  PROVE  RequestsOK'
<1>1. \A u \in Visitors : request'[u] = IF u = v THEN r ELSE request[u]
  BY DEF VisitorIInv, VisitorTypeOK
<1>2. \A t \in Tunnels : Counted(t)' = Counted(t)
  BY <1>1 DEF Counted
<1> QED
  BY <1>1, <1>2 DEF VisitorIInv, RequestsOK, ActiveExact, StreamsInUse, TunnelKnown

(* One whose stream has come in time is counted, ...                       *)
LEMMA ComesIn ==
  ASSUME VisitorIInv, NEW v \in Visitors, At(v, "opening"), NEW step \in {"forwarding", "hijacking"},
         Opened(v, step), IncActive(request[v].tunnel)
  PROVE  RequestsOK' /\ active' \in [Tunnels -> Nat]
<1> USE DEF VisitorIInv, VisitorTypeOK, RequestsOK
<1>0. PICK own \in Tunnels : own = request[v].tunnel
  BY DEF TunnelKnown, At, InUse
<1>1. \A u \in Visitors : /\ request'[u].step = IF u = v THEN step ELSE request[u].step
                          /\ request'[u].tunnel = request[u].tunnel
                          /\ u # v => request'[u] = request[u]
  BY DEF Opened
<1>2. request[v].step = "opening"
  BY DEF At
<1>3. Counted(own)' = Counted(own) \cup {v} /\ v \notin Counted(own)
  BY <1>0, <1>1, <1>2 DEF Counted, InUse
<1>4. \A t \in Tunnels \ {own} : Counted(t)' = Counted(t)
  BY <1>0, <1>1, <1>2 DEF Counted, InUse
<1>5. Cardinality(Counted(own)') = Cardinality(Counted(own)) + 1
  BY <1>3, CountedFinite, CountsOneMore
<1>6. active' = [active EXCEPT ![own] = @ + 1]
  BY <1>0 DEF IncActive
<1>7. active' \in [Tunnels -> Nat]
  BY <1>0, <1>6
<1>8. ASSUME NEW t \in Tunnels PROVE active'[t] = Cardinality(Counted(t)')
  <2>1. CASE t = own
    BY <1>5, <1>6, <2>1 DEF ActiveExact
  <2>2. CASE t # own
    BY <1>4, <1>6, <2>2 DEF ActiveExact
  <2> QED
    BY <2>1, <2>2
<1> QED
  BY <1>0, <1>1, <1>2, <1>7, <1>8 DEF ActiveExact, StreamsInUse, TunnelKnown, InUse

(* ... and is no longer when it has come to its end.                       *)
LEMMA GoesOut ==
  ASSUME VisitorIInv, NEW v \in Visitors, request[v].step \in InUse, Leaves(v), DecActive(request[v].tunnel)
  PROVE  RequestsOK' /\ active' \in [Tunnels -> Nat]
<1> USE DEF VisitorIInv, VisitorTypeOK, RequestsOK
<1>0. PICK own \in Tunnels : own = request[v].tunnel
  BY DEF TunnelKnown, At, InUse
<1>1. /\ request'[v].step = "idle" /\ request'[v].stream = FALSE
      /\ \A u \in Visitors \ {v} : request'[u] = request[u]
  BY DEF Leaves, Away
<1>2. Counted(own)' = Counted(own) \ {v} /\ v \in Counted(own)
  BY <1>0, <1>1 DEF Counted, InUse
<1>3. \A t \in Tunnels \ {own} : Counted(t)' = Counted(t)
  BY <1>0, <1>1 DEF Counted, InUse
<1>4. Cardinality(Counted(own)') = Cardinality(Counted(own)) - 1 /\ Cardinality(Counted(own)) >= 1
  BY <1>2, CountedFinite, CountsOneLess
<1>5. active' = [active EXCEPT ![own] = @ - 1]
  BY <1>0 DEF DecActive
<1>6. active[own] = Cardinality(Counted(own)) /\ active[own] \in Nat
  BY DEF ActiveExact
<1>7. active' \in [Tunnels -> Nat]
  BY <1>4, <1>5, <1>6
<1>8. ASSUME NEW t \in Tunnels PROVE active'[t] = Cardinality(Counted(t)')
  <2>1. CASE t = own
    BY <1>4, <1>5, <1>6, <2>1
  <2>2. CASE t # own
    BY <1>3, <1>5, <2>2 DEF ActiveExact
  <2> QED
    BY <2>1, <2>2
<1> QED
  BY <1>0, <1>1, <1>7, <1>8 DEF ActiveExact, StreamsInUse, TunnelKnown

(* A connection that is taken over goes on being counted.                  *)
LEMMA TakenOver ==
  ASSUME VisitorIInv, NEW v \in Visitors, Hijack(v) PROVE RequestsOK'
<1> USE DEF VisitorIInv, VisitorTypeOK, RequestsOK, Hijack, At, Proceeds
<1>1. \A u \in Visitors : /\ request'[u].step = IF u = v THEN "piping" ELSE request[u].step
                          /\ request'[u].tunnel = request[u].tunnel
                          /\ u # v => request'[u] = request[u]
  OBVIOUS
<1>2. \A t \in Tunnels : Counted(t)' = Counted(t)
  BY <1>1 DEF Counted, InUse
<1> QED
  BY <1>1, <1>2 DEF ActiveExact, StreamsInUse, TunnelKnown, InUse

(* The types: the limiter's entries and the store of sessions.             *)
LEMMA SessionsBounded ==
  ASSUME VisitorTypeOK, NEW v \in Visitors, create(v) \/ (sessions # <<>> /\ sessions' = Tail(sessions))
  PROVE  sessions' \in Seq(Visitors) /\ Len(sessions') <= MaxAuthSessions
<1>1. Len(sessions) \in Nat /\ Len(sessions) <= MaxAuthSessions
  BY DEF VisitorTypeOK
<1>2. sessions # <<>> => /\ Tail(sessions) \in Seq(Visitors)
                         /\ Len(Tail(sessions)) = Len(sessions) - 1
  BY DEF VisitorTypeOK
<1>3. CASE sessions # <<>> /\ sessions' = Tail(sessions)
  BY <1>1, <1>2, <1>3, VisitorAssumption
<1>4. CASE create(v) /\ Len(sessions) >= MaxAuthSessions
  <2>1. sessions # <<>>
    BY <1>4, VisitorAssumption
  <2> QED
    BY <1>1, <1>2, <1>4, <2>1, VisitorAssumption DEF create
<1>5. CASE create(v) /\ Len(sessions) < MaxAuthSessions
  BY <1>1, <1>5, VisitorAssumption DEF create, VisitorTypeOK
<1> QED
  BY <1>1, <1>3, <1>4, <1>5, VisitorAssumption

Entry == [failures : Nat, age : 0..AuthWindow, lock : 0..Lockout]
Request == [step : VisitorSteps, from : VisitorAddresses \cup {"nowhere"},
            tunnel : Tunnels \cup {NoTunnel}, stream : BOOLEAN]

LEMMA TimeChanges ==
  ASSUME NEW e \in Entry, NEW a \in 0..AuthWindow, NEW l \in 0..Lockout
  PROVE  [e EXCEPT !.age = a, !.lock = l] \in Entry
BY DEF Entry

LEMMA RequestChanges ==
  ASSUME VisitorTypeOK, NEW v \in Visitors, NEW step \in VisitorSteps,
         Leaves(v) \/ Proceeds(v, step) \/ Opened(v, step)
  PROVE  request' \in [Visitors -> Request]
<1>1. request \in [Visitors -> Request] /\ Away \in Request
  BY DEF VisitorTypeOK, Request, Away, VisitorSteps
<1>2. \A r \in Request : [r EXCEPT !.step = step] \in Request
                         /\ [r EXCEPT !.step = step, !.stream = TRUE] \in Request
  BY DEF Request
<1>3. CASE Leaves(v)
  BY <1>1, <1>3 DEF Leaves
<1>4. CASE Proceeds(v, step)
  <2>1. request' = [request EXCEPT ![v] = [request[v] EXCEPT !.step = step]]
    BY <1>4 DEF Proceeds
  <2> QED
    BY <1>1, <1>2, <2>1
<1>5. CASE Opened(v, step)
  <2>1. request' = [request EXCEPT ![v] = [request[v] EXCEPT !.step = step, !.stream = TRUE]]
    BY <1>5 DEF Opened
  <2> QED
    BY <1>1, <1>2, <2>1
<1> QED
  BY <1>3, <1>4, <1>5

LEMMA TypesKept == VisitorIInv /\ [VisitorNext]_visitorVars => VisitorTypeOK'
<1> SUFFICES ASSUME VisitorIInv, [VisitorNext]_visitorVars PROVE VisitorTypeOK'
  OBVIOUS
<1> USE VisitorAssumption DEF VisitorIInv
<1>1. ASSUME entry' \in [VisitorAddresses -> Entry], UNCHANGED <<request, sessions, active, shut>>
      PROVE  VisitorTypeOK'
  BY <1>1 DEF VisitorTypeOK, Entry
<1>2. ASSUME request' \in [Visitors -> Request], active' \in [Tunnels -> Nat],
             UNCHANGED <<entry, sessions, shut>>
      PROVE  VisitorTypeOK'
  BY <1>2 DEF VisitorTypeOK, Request
<1>3. Clean \in Entry /\ [failures |-> 1, age |-> 0, lock |-> 0] \in Entry
  BY DEF Clean, Entry
<1>4. entry \in [VisitorAddresses -> Entry] /\ active \in [Tunnels -> Nat]
  BY DEF VisitorTypeOK, Entry
<1>5. CASE cleanup
  BY <1>1, <1>3, <1>4, <1>5 DEF cleanup
<1>6. CASE TimeGoesBy
  <2>1. ASSUME NEW i \in VisitorAddresses
        PROVE  [entry[i] EXCEPT !.age = IF @ < AuthWindow THEN @ + 1 ELSE @,
                                !.lock = IF @ > 0 THEN @ - 1 ELSE @] \in Entry
    <3>1. entry[i] \in Entry /\ entry[i].age \in 0..AuthWindow /\ entry[i].lock \in 0..Lockout
      BY <1>4 DEF Entry
    <3>2. /\ (IF entry[i].age < AuthWindow THEN entry[i].age + 1 ELSE entry[i].age) \in 0..AuthWindow
          /\ (IF entry[i].lock > 0 THEN entry[i].lock - 1 ELSE entry[i].lock) \in 0..Lockout
      BY <3>1
    <3> QED
      BY <3>1, <3>2, TimeChanges
  <2> QED
    BY <1>1, <1>6, <2>1 DEF TimeGoesBy
<1>7. CASE SessionExpires
  <2>1. sessions' \in Seq(Visitors) /\ Len(sessions') <= MaxAuthSessions
    <3>1. Len(sessions) \in Nat /\ Tail(sessions) \in Seq(Visitors)
          /\ Len(Tail(sessions)) = Len(sessions) - 1
      BY <1>7 DEF SessionExpires, VisitorTypeOK
    <3> QED
      BY <1>7, <3>1 DEF SessionExpires, VisitorTypeOK
  <2> QED
    BY <1>7, <2>1 DEF SessionExpires, VisitorTypeOK
<1>8. ASSUME (\E t \in Tunnels : TunnelRegisters(t)) \/ TunnelCloses PROVE VisitorTypeOK'
  BY <1>8 DEF TunnelRegisters, TunnelCloses, VisitorTypeOK
<1>9. ASSUME NEW v \in Visitors, Asks(v) PROVE VisitorTypeOK'
  BY <1>2, <1>9 DEF Asks, VisitorTypeOK, VisitorSteps
<1>10. ASSUME NEW v \in Visitors, WrongPassword(v) PROVE VisitorTypeOK'
  <2>1. entry' \in [VisitorAddresses -> Entry]
    <3>1. CASE request[v].from \in VisitorAddresses
      <4>1. PICK i \in VisitorAddresses : i = request[v].from
        BY <3>1
      <4> DEFINE n == entry[i].failures + 1
                 counted == [failures |-> n, age |-> entry[i].age,
                             lock |-> IF n >= LockoutThreshold THEN Lockout ELSE entry[i].lock]
      <4>2. counted \in Entry
        BY <1>4 DEF Entry
      <4>3. entry' = [entry EXCEPT ![i] = IF WindowOver(i) THEN [failures |-> 1, age |-> 0, lock |-> 0]
                                          ELSE counted]
        BY <1>10, <4>1 DEF WrongPassword, recordFailure
      <4> QED
        BY <1>3, <1>4, <4>2, <4>3
    <3>2. CASE request[v].from \notin VisitorAddresses
      BY <1>4, <1>10, <3>2 DEF WrongPassword, recordFailure
    <3> QED
      BY <3>1, <3>2
  <2>2. request' \in [Visitors -> Request]
    BY <1>10, RequestChanges DEF WrongPassword, VisitorSteps
  <2> QED
    BY <1>10, <2>1, <2>2 DEF WrongPassword, VisitorTypeOK, Entry, Request
<1>11. ASSUME NEW v \in Visitors, RightPassword(v) PROVE VisitorTypeOK'
  <2>1. entry' \in [VisitorAddresses -> Entry]
    BY <1>3, <1>4, <1>11 DEF RightPassword, resetFailures
  <2>2. request' \in [Visitors -> Request]
    BY <1>11, RequestChanges DEF RightPassword, VisitorSteps
  <2> QED
    BY <1>11, <2>1, <2>2, SessionsBounded DEF RightPassword, VisitorTypeOK, Entry, Request
<1>12. ASSUME NEW v \in Visitors, StreamInTime(v) PROVE VisitorTypeOK'
  <2>1. PICK step \in {"forwarding", "hijacking"} : Opened(v, step)
    BY <1>12 DEF StreamInTime
  <2>2. request' \in [Visitors -> Request]
    BY <2>1, RequestChanges DEF VisitorSteps
  <2>3. active' \in [Tunnels -> Nat]
    BY <1>12, <2>1, ComesIn DEF StreamInTime
  <2> QED
    BY <1>2, <1>12, <2>2, <2>3 DEF StreamInTime
<1>13. ASSUME NEW v \in Visitors, OpenFails(v) \/ OpenTimesOut(v) \/ StreamComesLate(v) \/ CloseLate(v)
                                  \/ Hijack(v)
       PROVE  VisitorTypeOK'
  <2>1. Leaves(v) \/ Proceeds(v, "late") \/ Opened(v, "late") \/ Proceeds(v, "piping")
    BY <1>13 DEF OpenFails, OpenTimesOut, StreamComesLate, CloseLate, Hijack
  <2>2. request' \in [Visitors -> Request]
    BY <2>1, RequestChanges DEF VisitorSteps
  <2> QED
    BY <1>2, <1>4, <1>13, <2>2 DEF OpenFails, OpenTimesOut, StreamComesLate, CloseLate, Hijack
<1>14. ASSUME NEW v \in Visitors, ForwardEnds(v) \/ HijackFails(v) \/ PipeEnds(v) PROVE VisitorTypeOK'
  <2>1. Leaves(v) /\ DecActive(request[v].tunnel) /\ request[v].step \in InUse
    BY <1>14 DEF ForwardEnds, HijackFails, PipeEnds, At, InUse
  <2>2. request' \in [Visitors -> Request] /\ active' \in [Tunnels -> Nat]
    BY <2>1, RequestChanges, GoesOut DEF VisitorSteps
  <2> QED
    BY <1>2, <1>14, <2>2 DEF ForwardEnds, HijackFails, PipeEnds
<1>15. CASE UNCHANGED visitorVars
  BY <1>15 DEF visitorVars, VisitorTypeOK
<1> QED
  BY <1>5, <1>6, <1>7, <1>8, <1>9, <1>10, <1>11, <1>12, <1>13, <1>14, <1>15 DEF VisitorNext

(* Every step keeps VisitorIInv.                                                  *)
LEMMA VisitorStepKeeps == VisitorIInv /\ [VisitorNext]_visitorVars => VisitorIInv'
<1> SUFFICES ASSUME VisitorIInv, [VisitorNext]_visitorVars PROVE VisitorIInv'
  OBVIOUS
<1> DEFINE Known == current \in Tunnels \cup {NoTunnel}
<1>1. VisitorTypeOK'
  BY TypesKept
<1>2. Known'
  BY DEF VisitorIInv, VisitorNext, visitorVars, cleanup, SessionExpires, TunnelCloses, TimeGoesBy,
     TunnelRegisters, Asks, WrongPassword, RightPassword, StreamInTime, OpenFails, OpenTimesOut,
     StreamComesLate, CloseLate, ForwardEnds, HijackFails, Hijack, PipeEnds
<1>3. ASSUME UNCHANGED <<request, active>> PROVE RequestsOK'
  BY <1>3 DEF VisitorIInv, RequestsOK, ActiveExact, StreamsInUse, TunnelKnown, Counted
<1>4. ASSUME NEW v \in Visitors, Asks(v) PROVE RequestsOK'
  <2>1. PICK i \in VisitorAddresses, cookie \in BOOLEAN :
          request' = [request EXCEPT ![v] =
            [step |-> IF cookie THEN "opening" ELSE "asked", from |-> i,
             tunnel |-> current, stream |-> FALSE]]
    BY <1>4 DEF Asks
  <2> DEFINE r == [step |-> IF cookie THEN "opening" ELSE "asked", from |-> i,
                   tunnel |-> current, stream |-> FALSE]
  <2>2. r.step \notin InUse /\ r.stream = FALSE /\ r.tunnel \in Tunnels
    BY <1>4 DEF Asks, InUse, VisitorIInv
  <2>3. request[v].step \notin InUse /\ active' = active
    BY <1>4 DEF Asks, At, InUse
  <2> HIDE DEF r
  <2> QED
    BY <2>1, <2>2, <2>3, NotCounted DEF r
<1>5. ASSUME NEW v \in Visitors, request[v].step \in {"asked", "opening", "late"}, active' = active,
             Leaves(v)
      PROVE  RequestsOK'
  BY <1>5, NotCounted DEF Leaves, Away, InUse
<1>6. ASSUME NEW v \in Visitors, NEW r, request' = [request EXCEPT ![v] = r], active' = active,
             request[v].step \in {"asked", "opening", "late"}, r.step \in {"opening", "late"},
             r.tunnel = request[v].tunnel, r.stream => r.step = "late"
      PROVE  RequestsOK'
  <2>1. r.tunnel \in Tunnels
    BY <1>6 DEF VisitorIInv, RequestsOK, TunnelKnown
  <2> QED
    BY <1>6, <2>1, NotCounted DEF InUse
<1>7. ASSUME NEW v \in Visitors, request[v].step \in {"asked", "opening", "late"}, active' = active,
             NEW step \in {"opening", "late"}, request[v].stream => step = "late",
             Proceeds(v, step) \/ (step = "late" /\ Opened(v, step))
      PROVE  RequestsOK'
  <2> DEFINE put == [request[v] EXCEPT !.step = step]
             opened == [request[v] EXCEPT !.step = step, !.stream = TRUE]
  <2>1. /\ put.step = step /\ put.tunnel = request[v].tunnel /\ put.stream = request[v].stream
        /\ opened.step = step /\ opened.tunnel = request[v].tunnel
    BY DEF VisitorIInv, VisitorTypeOK
  <2>2. CASE Proceeds(v, step)
    <3>1. request' = [request EXCEPT ![v] = put]
      BY <2>2 DEF Proceeds
    <3> HIDE DEF put
    <3> QED
      BY <1>6, <1>7, <2>1, <3>1
  <2>3. CASE step = "late" /\ Opened(v, step)
    <3>1. request' = [request EXCEPT ![v] = opened]
      BY <2>3 DEF Opened
    <3> HIDE DEF opened
    <3> QED
      BY <1>6, <1>7, <2>1, <2>3, <3>1
  <2> QED
    BY <1>7, <2>2, <2>3
<1>8. ASSUME NEW v \in Visitors, WrongPassword(v) \/ OpenFails(v) \/ CloseLate(v) PROVE RequestsOK'
  BY <1>5, <1>8 DEF WrongPassword, OpenFails, CloseLate, At
<1>9. ASSUME NEW v \in Visitors, RightPassword(v) PROVE RequestsOK'
  <2>1. ~request[v].stream /\ request[v].step = "asked" /\ active' = active
    BY <1>9 DEF RightPassword, At, VisitorIInv, RequestsOK, StreamsInUse, InUse
  <2> QED
    BY <1>5, <1>7, <1>9, <2>1 DEF RightPassword
<1>10. ASSUME NEW v \in Visitors, StreamInTime(v) PROVE RequestsOK'
  BY <1>10, ComesIn DEF StreamInTime
<1>11. ASSUME NEW v \in Visitors, OpenTimesOut(v) PROVE RequestsOK'
  BY <1>7, <1>11 DEF OpenTimesOut, At
<1>12. ASSUME NEW v \in Visitors, StreamComesLate(v) PROVE RequestsOK'
  BY <1>5, <1>7, <1>12 DEF StreamComesLate, At
<1>13. ASSUME NEW v \in Visitors, ForwardEnds(v) \/ HijackFails(v) \/ PipeEnds(v) PROVE RequestsOK'
  BY <1>13, GoesOut DEF ForwardEnds, HijackFails, PipeEnds, At, InUse
<1>14. ASSUME NEW v \in Visitors, Hijack(v) PROVE RequestsOK'
  BY <1>14, TakenOver
<1>15. ASSUME cleanup \/ SessionExpires \/ TunnelCloses \/ TimeGoesBy \/ UNCHANGED visitorVars
              \/ \E t \in Tunnels : TunnelRegisters(t)
       PROVE  RequestsOK'
  BY <1>3, <1>15 DEF cleanup, SessionExpires, TunnelCloses, TimeGoesBy, visitorVars, TunnelRegisters
<1>16. RequestsOK'
  BY <1>4, <1>8, <1>9, <1>10, <1>11, <1>12, <1>13, <1>14, <1>15 DEF VisitorNext
<1> QED
  BY <1>1, <1>2, <1>16 DEF VisitorIInv

(* VisitorIInv is an invariant of everything visitors do.                         *)
THEOREM VisitorInductive == VisitorSpec => []VisitorIInv
<1>1. VisitorInit => VisitorIInv
  <2> SUFFICES ASSUME VisitorInit PROVE VisitorIInv
    OBVIOUS
  <2> USE DEF VisitorInit
  <2>1. entry \in [VisitorAddresses -> Entry]
    BY VisitorAssumption DEF Clean, Entry
  <2>2. request \in [Visitors -> Request]
    BY DEF Away, Request, VisitorSteps
  <2>3. VisitorTypeOK
    BY VisitorAssumption, <2>1, <2>2 DEF VisitorTypeOK, Entry, Request
  <2>4. \A v \in Visitors : request[v].step = "idle" /\ request[v].stream = FALSE
    BY DEF Away
  <2>5. \A t \in Tunnels : Counted(t) = {}
    BY <2>4 DEF Counted, InUse
  <2>6. ActiveExact
    BY <2>5, FS_EmptySet DEF ActiveExact
  <2> QED
    BY <2>3, <2>4, <2>6 DEF VisitorIInv, RequestsOK, StreamsInUse, TunnelKnown
<1> QED
  BY <1>1, VisitorStepKeeps, PTL DEF VisitorSpec

(* A tunnel counts the connections that use it, and a stream is held by a  *)
(* request that uses it or is about to close it.                           *)
THEOREM VisitorStreamsCorrect == VisitorSpec => []VisitorStreams
<1>1. VisitorIInv => VisitorStreams
  BY DEF VisitorIInv, RequestsOK, ActiveExact, StreamsInUse, Counted, InUse, VisitorStreams
<1> QED
  BY <1>1, VisitorInductive, PTL

(* Only time, or a request of the address's own that was let through       *)
(* before, lifts the limit on an address.                                  *)
THEOREM LimitLiftsCorrect == VisitorSpec => LimitLifts
<1> DEFINE Lifts(i) ==
      isRateLimited(i) /\ ~isRateLimited(i)' =>
        \/ TimeGoesBy
        \/ \E v \in Visitors : request[v].from = i /\
             (RightPassword(v) \/ (WrongPassword(v) /\ WindowOver(i)))
<1>1. ASSUME VisitorIInv, [VisitorNext]_visitorVars, NEW i \in VisitorAddresses PROVE Lifts(i)
  <2> USE DEF isRateLimited, WindowOver
  <2>1. ASSUME entry'[i] = entry[i] PROVE Lifts(i)
    BY <2>1
  <2>2. entry[i].lock \in 0..Lockout /\ entry[i].failures \in Nat /\ entry[i].age \in Nat
    BY <1>1, VisitorAssumption DEF VisitorIInv, VisitorTypeOK
  <2>3. CASE cleanup
    BY <1>1, <2>2, <2>3 DEF cleanup, Lifts
  <2>4. ASSUME NEW v \in Visitors, WrongPassword(v), request[v].from = i, ~WindowOver(i)
        PROVE  Lifts(i)
    <3> DEFINE n == entry[i].failures + 1
    <3>1. entry'[i] = [failures |-> n, age |-> entry[i].age,
                       lock |-> IF n >= LockoutThreshold THEN Lockout ELSE entry[i].lock]
      BY <1>1, <2>4 DEF WrongPassword, recordFailure, VisitorIInv, VisitorTypeOK
    <3> QED
      BY <2>2, <2>4, <3>1, VisitorAssumption
  <2>5. ASSUME NEW v \in Visitors, WrongPassword(v) PROVE Lifts(i)
    BY <1>1, <2>1, <2>4, <2>5 DEF WrongPassword, recordFailure, VisitorIInv, VisitorTypeOK
  <2>6. ASSUME NEW v \in Visitors, RightPassword(v) PROVE Lifts(i)
    BY <1>1, <2>1, <2>6 DEF RightPassword, resetFailures, VisitorIInv, VisitorTypeOK
  <2>7. CASE entry' = entry
    BY <2>1, <2>7
  <2>8. entry' = entry \/ cleanup \/ TimeGoesBy \/ \E v \in Visitors : WrongPassword(v) \/ RightPassword(v)
    BY <1>1 DEF VisitorNext, visitorVars, SessionExpires, TunnelCloses, TunnelRegisters, Asks,
       StreamInTime, OpenFails, OpenTimesOut, StreamComesLate, CloseLate, ForwardEnds, HijackFails,
       Hijack, PipeEnds
  <2> QED
    BY <2>3, <2>5, <2>6, <2>7, <2>8
<1>2. VisitorIInv /\ [VisitorNext]_visitorVars =>
        [\A i \in VisitorAddresses :
           isRateLimited(i) /\ ~isRateLimited(i)' =>
             \/ TimeGoesBy
             \/ \E v \in Visitors : request[v].from = i /\
                  (RightPassword(v) \/ (WrongPassword(v) /\ WindowOver(i)))]_visitorVars
  BY <1>1
<1> QED
  BY <1>2, VisitorInductive, PTL DEF VisitorSpec, LimitLifts

----------------------------------------------------------------------------
(* Start and stop of the process.                                          *)
None(kind) == \A u \in Goroutines : use[u] # kind
Covered(kind) == None(kind) \/ kind \in overran

(* What each wait of the shutdown leaves behind it stays true to the end,  *)
(* since nothing of the kind begins after it; and nothing runs before the  *)
(* listener does.                                                          *)
Waited ==
  /\ store = "closed" => stage \in {"down", "open", "stopped"}
  /\ stage \in {"down", "open"} => \A u \in Goroutines : use[u] = "none"
  /\ ConnectionsDone => None("connection")
  /\ stage \in {"storeStops", "stopped"} => None("touch")
  /\ stage = "connectionsStop" \/ ConnectionsDone => Covered("proxied")
  /\ stage \in {"authenticatorStops", "storeStops", "stopped"} => Covered("panel")

ProcessIInv == ProcessTypeOK /\ Waited

(* Every step of the process keeps ProcessIInv.                                   *)
LEMMA ProcessStepKeeps == ProcessIInv /\ [ProcessNext]_processVars => ProcessIInv'
<1> SUFFICES ASSUME ProcessIInv, [ProcessNext]_processVars PROVE ProcessIInv'
  OBVIOUS
<1> USE DEF ProcessIInv, ProcessTypeOK, Waited, None, Covered, ConnectionsDone, Uses, Starting, Stopping
<1>1. CASE ProcessBegins \/ ProcessDies
  BY <1>1 DEF ProcessBegins, ProcessDies
<1>2. CASE StartStep \/ Quit
  BY <1>2 DEF StartStep, Quit
<1>3. CASE ProxyStops
  BY <1>3 DEF ProxyStops, ShutdownEnds, Using
<1>4. CASE ConnectionsStop
  BY <1>4 DEF ConnectionsStop, Using
<1>5. CASE PanelStops
  BY <1>5 DEF PanelStops, ShutdownEnds, Using
<1>6. CASE AuthenticatorStops
  BY <1>6 DEF AuthenticatorStops, Using
<1>7. CASE StoreStops
  BY <1>7 DEF StoreStops
<1>8. ASSUME NEW u \in Goroutines, Connects(u) PROVE ProcessIInv'
  BY <1>8 DEF Connects, Turns, Listening
<1>9. ASSUME NEW u \in Goroutines, Requests(u) PROVE ProcessIInv'
  BY <1>9 DEF Requests, Turns, Listening, PanelUp
<1>10. ASSUME NEW u \in Goroutines, UseEnds(u) PROVE ProcessIInv'
  BY <1>10 DEF UseEnds, Turns
<1>11. ASSUME NEW u \in Goroutines, NEW v \in Goroutines, Touches(u, v) PROVE ProcessIInv'
  BY <1>11 DEF Touches, Turns
<1>12. CASE UNCHANGED processVars
  BY <1>12 DEF processVars
<1> QED
  BY <1>1, <1>2, <1>3, <1>4, <1>5, <1>6, <1>7, <1>8, <1>9, <1>10, <1>11, <1>12 DEF ProcessNext

(* The types of the process are kept, and what every wait has settled.     *)
THEOREM ProcessInductive == ProcessSpec => []ProcessIInv
<1>1. ProcessInit => ProcessIInv
  BY DEF ProcessInit, ProcessIInv, ProcessTypeOK, Waited, None, Covered, ConnectionsDone, Uses, Starting,
         Stopping
<1> QED
  BY <1>1, ProcessStepKeeps, PTL DEF ProcessSpec

(* The database is closed when every connection has deleted its row and    *)
(* every last-seen update is written, whatever goroutines there are.       *)
THEOREM StoreOutlivesCorrect == ProcessSpec => []StoreOutlives
<1>1. ProcessIInv => StoreOutlives
  BY DEF ProcessIInv, ProcessTypeOK, Waited, None, Covered, ConnectionsDone, StoreOutlives, Using
<1> QED
  BY <1>1, ProcessInductive, PTL

----------------------------------------------------------------------------
(* Taking connections in.                                                  *)
SlotSteps == {"accepted", "submitting", "queued", "handshake", "entering", "reading", "handing",
              "tunnel", "leaving"}
BusySteps == {"handshake", "reading", "handing", "tunnel", "leaving"}

(* What waits for a worker is queued, once.                                *)
JobsOnce ==
  /\ \A i \in 1..Len(jobs) : at[jobs[i]] = "queued"
  /\ \A i, j \in 1..Len(jobs) : i # j => jobs[i] # jobs[j]

(* Nothing comes in any more when the wait group is empty; a connection    *)
(* that is waited for by nobody is a WebSocket.                            *)
ComesToRest ==
  /\ \A c \in Peers : at[c] # "entering"
  /\ stop \in {"pool", "stopped"} => ~accepting /\ \A c \in Peers : at[c] \notin SlotSteps
  /\ poolClosed => stop = "stopped"
  /\ queueClosed <=> stop # "no"

(* Whose a connection is follows from where its handler is.                *)
InTime == stop \in {"no", "drain", "listener", "range"}
Handing ==
  \A c \in Peers :
    /\ http[c] # "no" => at[c] = "handing" \/ (at[c] \in {"leaving", "over"} /\ handedOff[c])
    /\ at[c] = "handing" \/ handedOff[c] => http[c] # "no"
    /\ http[c] = "done" => ~open[c]
Held ==
  \A c \in Conns :
    at[c] \in SlotSteps /\ InTime /\ (c \in Peers => http[c] = "no") => open[c]

IntakeIInv == IntakeTypeOK /\ IntakeExact /\ JobsOnce /\ ComesToRest /\ Handing /\ Held /\ OneOwner

LEMMA SlotSet ==
  /\ InSlot = {c \in Conns : at[c] \in SlotSteps}
  /\ Busy = {c \in Peers : at[c] \in BusySteps}
  /\ Peers \subseteq Conns
BY DEF InSlot, Stored, SlotSteps, Busy, BusySteps, Conns

LEMMA SlotSetNext ==
  /\ InSlot' = {c \in Conns : at'[c] \in SlotSteps}
  /\ Busy' = {c \in Peers : at'[c] \in BusySteps}
BY DEF InSlot, Stored, SlotSteps, Busy, BusySteps, Conns

LEMMA SlotsFinite ==
  /\ IsFiniteSet(InSlot) /\ Cardinality(InSlot) \in Nat
  /\ IsFiniteSet(Busy) /\ Cardinality(Busy) \in Nat
<1>1. IsFiniteSet(Conns)  BY IntakeAssumption, FS_Union DEF Conns
<1> QED  BY <1>1, SlotSet, IntakeAssumption, FS_Subset, FS_CardinalityType

LEMMA SlotTaken ==
  ASSUME IntakeTypeOK, slots = Cardinality(InSlot), NEW c \in Conns, at[c] \notin SlotSteps,
         NEW step \in SlotSteps, To(c, step), slots' = slots + 1
  PROVE  slots' = Cardinality(InSlot')
<1>1. InSlot' = InSlot \cup {c}  BY SlotSet, SlotSetNext DEF To, IntakeTypeOK
<1>2. c \notin InSlot  BY SlotSet
<1> QED  BY <1>1, <1>2, SlotsFinite, CountsOneMore

LEMMA SlotGivenBack ==
  ASSUME IntakeTypeOK, slots = Cardinality(InSlot), NEW c \in Conns, at[c] \in SlotSteps,
         To(c, "over"), slots' = slots - 1
  PROVE  slots' = Cardinality(InSlot') /\ slots' \in Nat
<1>1. InSlot' = InSlot \ {c}  BY SlotSet, SlotSetNext DEF To, IntakeTypeOK, SlotSteps
<1>2. c \in InSlot  BY SlotSet
<1>3. Cardinality(InSlot \ {c}) = Cardinality(InSlot) - 1 /\ Cardinality(InSlot) >= 1
  BY <1>2, SlotsFinite, CountsOneLess
<1> QED  BY <1>1, <1>3, SlotsFinite

LEMMA SlotKept ==
  ASSUME IntakeTypeOK, slots = Cardinality(InSlot), NEW c \in Conns, NEW step, To(c, step),
         at[c] \in SlotSteps <=> step \in SlotSteps, slots' = slots
  PROVE  slots' = Cardinality(InSlot')
<1>1. InSlot' = InSlot  BY SlotSet, SlotSetNext DEF To, IntakeTypeOK
<1> QED  BY <1>1

(* A step that gives no connection of a peer to a worker.                  *)
LEMMA WorkersKept ==
  ASSUME IntakeTypeOK, Cardinality(Busy) <= Workers, NEW c \in Conns, NEW step, To(c, step),
         c \in Peers /\ step \in BusySteps => at[c] \in BusySteps
  PROVE  Cardinality(Busy') <= Workers
<1>1. Busy' \subseteq Busy  BY SlotSet, SlotSetNext DEF To, IntakeTypeOK
<1>2. Cardinality(Busy') <= Cardinality(Busy) /\ Cardinality(Busy') \in Nat
  BY <1>1, SlotsFinite, FS_Subset, FS_CardinalityType
<1> QED  BY <1>2, SlotsFinite, IntakeAssumption

(* The owner of a connection that a step does not touch.                   *)
OwnerOK(c) ==
  /\ c \in Peers =>
       /\ http[c] # "no" => at[c] = "handing" \/ (at[c] \in {"leaving", "over"} /\ handedOff[c])
       /\ at[c] = "handing" \/ handedOff[c] => http[c] # "no"
       /\ http[c] = "done" => ~open[c]
       /\ http[c] \in {"queue", "serving"} /\ InTime => open[c]
  /\ at[c] \in SlotSteps /\ InTime /\ (c \in Peers => http[c] = "no") => open[c]
  /\ open[c] => at[c] \in SlotSteps \/ (c \in Peers /\ http[c] \in {"queue", "serving"})

LEMMA Owners == Handing /\ Held /\ OneOwner <=> \A c \in Conns : OwnerOK(c)
BY SlotSet DEF Handing, Held, OneOwner, OwnerOK, InTime

LEMMA OwnersNext == (Handing /\ Held /\ OneOwner)' <=> \A c \in Conns : OwnerOK(c)'
BY SlotSet, SlotSetNext DEF Handing, Held, OneOwner, OwnerOK, InTime

(* A step of one connection.                                               *)
LEMMA OneMoves ==
  ASSUME IntakeIInv, NEW c \in Conns, NEW step, To(c, step),
         UNCHANGED <<jobs, stop>>, {poolClosed', queueClosed', accepting'} \subseteq BOOLEAN,
         UNCHANGED <<poolClosed, queueClosed, accepting>>,
         step \in Steps \ {"queued", "entering"},
         stop \in {"pool", "stopped"} /\ c \in Peers => step \notin SlotSteps,
         at[c] # "queued",
         http' \in [Peers -> HTTPSteps], open' \in [Conns -> BOOLEAN],
         handedOff' \in [Peers -> BOOLEAN], slots' \in Nat,
         slots' = Cardinality(InSlot'), slots' <= MaxConns,
         Cardinality(Busy') <= Workers,
         \A d \in Conns \ {c} : /\ open'[d] = open[d]
                                /\ d \in Peers => http'[d] = http[d] /\ handedOff'[d] = handedOff[d],
         OwnerOK(c)'
  PROVE  IntakeIInv'
<1>1. at' \in [Conns -> Steps] /\ at'[c] = step /\ \A d \in Conns \ {c} : at'[d] = at[d]
  BY DEF To, IntakeIInv, IntakeTypeOK
<1>2. IntakeTypeOK'  BY <1>1 DEF IntakeIInv, IntakeTypeOK
<1>3. ComesToRest'  BY <1>1, SlotSet DEF IntakeIInv, ComesToRest
<1>4. IntakeExact'  BY <1>1, <1>3, SlotSet, SlotSetNext DEF IntakeIInv, IntakeExact, ComesToRest
<1>5. JobsOnce'
  <2>1. \A i \in 1..Len(jobs) : jobs[i] \in Conns
    BY SlotSet DEF IntakeIInv, IntakeTypeOK
  <2> QED  BY <1>1, <2>1 DEF IntakeIInv, JobsOnce
<1>6. \A d \in Conns \ {c} : OwnerOK(d)'
  BY <1>1, Owners DEF IntakeIInv, OwnerOK, InTime
<1> QED  BY <1>2, <1>3, <1>4, <1>5, <1>6, OwnersNext DEF IntakeIInv


(* Where a step takes it, and the rest of its columns as they were.        *)
LEMMA Mover ==
  ASSUME IntakeIInv, NEW c \in Conns, NEW step, To(c, step)
  PROVE  at'[c] = step /\ \A d \in Conns \ {c} : at'[d] = at[d]
BY DEF To, IntakeIInv, IntakeTypeOK

LEMMA AcceptKeeps == ASSUME IntakeIInv, NEW c \in Peers, Accept(c)  PROVE IntakeIInv'
<1>1. /\ accepting /\ at[c] = "new" /\ InTime /\ c \in Conns
      /\ UNCHANGED <<http, handedOff, jobs, poolClosed, queueClosed, accepting, stop>>
  BY SlotSet DEF Accept, InTime
<1>2. OwnerOK(c) /\ slots = Cardinality(InSlot) /\ slots <= MaxConns /\ slots \in Nat
      /\ Cardinality(Busy) <= Workers
  BY <1>1, Owners DEF IntakeIInv, IntakeExact, IntakeTypeOK
<1>3. CASE slots < MaxConns
  <2>1. To(c, "accepted") /\ slots' = slots + 1 /\ open' = [open EXCEPT ![c] = TRUE]
    BY <1>3 DEF Accept
  <2>2. slots' = Cardinality(InSlot')
    BY <1>1, <1>2, <2>1, SlotTaken DEF IntakeIInv, SlotSteps
  <2>3. Cardinality(Busy') <= Workers
    BY <1>1, <1>2, <2>1, WorkersKept DEF IntakeIInv, BusySteps
  <2>4. /\ open' \in [Conns -> BOOLEAN] /\ open'[c] = TRUE
        /\ \A d \in Conns \ {c} : open'[d] = open[d]
    BY <1>1, <2>1 DEF IntakeIInv, IntakeTypeOK
  <2>5. at'[c] = "accepted"  BY <1>1, <2>1, Mover
  <2>6. OwnerOK(c)'  BY <1>1, <1>2, <2>4, <2>5 DEF OwnerOK, SlotSteps
  <2>7. stop \notin {"pool", "stopped"}  BY <1>1 DEF InTime
  <2>8. slots' \in Nat /\ slots' <= MaxConns  BY <1>2, <1>3, <2>1, IntakeAssumption
  <2> QED
    BY <1>1, <2>1, <2>2, <2>3, <2>4, <2>6, <2>7, <2>8, OneMoves
    DEF IntakeIInv, IntakeTypeOK, Steps
<1>4. CASE ~(slots < MaxConns)
  <2>1. To(c, "over") /\ UNCHANGED <<slots, open>>  BY <1>4 DEF Accept
  <2>2. slots' = Cardinality(InSlot')
    BY <1>1, <1>2, <2>1, SlotKept DEF IntakeIInv, SlotSteps
  <2>3. Cardinality(Busy') <= Workers
    BY <1>1, <1>2, <2>1, WorkersKept DEF IntakeIInv, BusySteps
  <2>4. at'[c] = "over"  BY <1>1, <2>1, Mover
  <2>5. OwnerOK(c)'  BY <1>1, <1>2, <2>1, <2>4 DEF OwnerOK, SlotSteps, InTime
  <2> QED
    BY <1>1, <1>2, <2>1, <2>2, <2>3, <2>5, OneMoves DEF IntakeIInv, IntakeTypeOK, Steps, SlotSteps
<1> QED  BY <1>3, <1>4

(* A connection is turned away, or its handler returns: its slot is given  *)
(* back.                                                                   *)
LEMMA GivesBack ==
  ASSUME IntakeIInv, NEW c \in Conns, at[c] \in SlotSteps \ {"queued"}, To(c, "over"),
         slots' = slots - 1,
         UNCHANGED <<http, handedOff, jobs, poolClosed, queueClosed, accepting, stop>>,
         \/ CloseConn(c) /\ (c \in Peers => http[c] = "no" \/ (at[c] = "leaving" /\ ~handedOff[c]))
         \/ c \in Peers /\ handedOff[c] /\ UNCHANGED open
  PROVE  IntakeIInv'
<1>1. /\ OwnerOK(c) /\ slots = Cardinality(InSlot) /\ slots <= MaxConns /\ slots \in Nat
      /\ Cardinality(Busy) <= Workers
  BY Owners DEF IntakeIInv, IntakeExact, IntakeTypeOK
<1>2. slots' = Cardinality(InSlot') /\ slots' \in Nat
  BY <1>1, SlotGivenBack DEF IntakeIInv
<1>3. Cardinality(Busy') <= Workers  BY <1>1, WorkersKept DEF IntakeIInv, BusySteps
<1>4. at'[c] = "over"  BY Mover
<1>5. /\ open' \in [Conns -> BOOLEAN] /\ \A d \in Conns \ {c} : open'[d] = open[d]
      /\ open'[c] => c \in Peers /\ handedOff[c] /\ open[c]
      /\ c \in Peers /\ handedOff[c] => open'[c] = open[c]
  BY <1>1 DEF CloseConn, IntakeIInv, IntakeTypeOK, OwnerOK
<1>6. OwnerOK(c)'
  BY <1>1, <1>4, <1>5 DEF OwnerOK, SlotSteps, InTime, IntakeIInv, IntakeTypeOK, HTTPSteps
<1> QED
  BY <1>1, <1>2, <1>3, <1>5, <1>6, OneMoves, IntakeAssumption
  DEF IntakeIInv, IntakeTypeOK, Steps, SlotSteps

(* A step of a handler that keeps its slot and its worker.                 *)
LEMMA GoesOn ==
  ASSUME IntakeIInv, NEW c \in Conns, NEW step \in SlotSteps \ {"queued", "entering"},
         at[c] \in SlotSteps \ {"queued"}, To(c, step),
         c \in Peers /\ step \in BusySteps => at[c] \in BusySteps,
         UNCHANGED <<open, slots, jobs, poolClosed, queueClosed, accepting, stop>>,
         http' \in [Peers -> HTTPSteps], handedOff' \in [Peers -> BOOLEAN],
         \A d \in Peers \ {c} : http'[d] = http[d] /\ handedOff'[d] = handedOff[d],
         OwnerOK(c)'
  PROVE  IntakeIInv'
<1>1. /\ slots = Cardinality(InSlot) /\ slots <= MaxConns /\ slots \in Nat
      /\ Cardinality(Busy) <= Workers
  BY DEF IntakeIInv, IntakeExact, IntakeTypeOK
<1>2. slots' = Cardinality(InSlot')  BY <1>1, SlotKept DEF IntakeIInv
<1>3. Cardinality(Busy') <= Workers  BY <1>1, WorkersKept DEF IntakeIInv
<1>4. ~(stop \in {"pool", "stopped"} /\ c \in Peers)  BY DEF IntakeIInv, ComesToRest
<1> QED
  BY <1>1, <1>2, <1>3, <1>4, OneMoves DEF IntakeIInv, IntakeTypeOK, Steps, SlotSteps

LEMMA SubmitChecksKeeps == ASSUME IntakeIInv, NEW c \in Peers, SubmitChecks(c)  PROVE IntakeIInv'
<1>1. at[c] = "accepted" /\ c \in Conns /\ OwnerOK(c) /\ at[c] \in SlotSteps
      /\ UNCHANGED <<http, handedOff, jobs, poolClosed, queueClosed, accepting, stop>>
  BY SlotSet, Owners DEF SubmitChecks, IntakeIInv, SlotSteps
<1>2. http[c] = "no"  BY <1>1 DEF OwnerOK
<1>3. CASE poolClosed
  BY <1>1, <1>2, <1>3, GivesBack DEF SubmitChecks, Rejected
<1>4. CASE ~poolClosed
  <2>1. To(c, "submitting") /\ UNCHANGED <<open, slots>>  BY <1>4 DEF SubmitChecks
  <2>2. at'[c] = "submitting"  BY <1>1, <2>1, Mover
  <2>3. OwnerOK(c)'  BY <1>1, <1>2, <2>1, <2>2 DEF OwnerOK, SlotSteps, InTime
  <2> QED
    BY <1>1, <2>1, <2>3, GoesOn DEF IntakeIInv, IntakeTypeOK, SlotSteps, BusySteps
<1> QED  BY <1>3, <1>4


LEMMA SubmitSendsKeeps == ASSUME IntakeIInv, NEW c \in Peers, SubmitSends(c)  PROVE IntakeIInv'
<1>1. at[c] = "submitting" /\ c \in Conns /\ OwnerOK(c) /\ at[c] \in SlotSteps
      /\ UNCHANGED <<http, handedOff, poolClosed, queueClosed, accepting, stop>>
  BY SlotSet, Owners DEF SubmitSends, IntakeIInv, SlotSteps
<1>2. http[c] = "no" /\ jobs \in Seq(Peers)  BY <1>1 DEF OwnerOK, IntakeIInv, IntakeTypeOK
<1>3. CASE ~(Len(jobs) < QueueLength)
  BY <1>1, <1>2, <1>3, GivesBack DEF SubmitSends, Rejected
<1>4. CASE Len(jobs) < QueueLength
  <2>1. To(c, "queued") /\ jobs' = Append(jobs, c) /\ UNCHANGED <<open, slots>>
    BY <1>4 DEF SubmitSends
  <2>2. at'[c] = "queued" /\ \A d \in Conns \ {c} : at'[d] = at[d]  BY <1>1, <2>1, Mover
  <2>3. /\ jobs' \in Seq(Peers) /\ Len(jobs') = Len(jobs) + 1 /\ jobs'[Len(jobs) + 1] = c
        /\ \A i \in 1..Len(jobs) : jobs'[i] = jobs[i] /\ jobs[i] \in Peers
    BY <1>2, <2>1
  <2>4. IntakeTypeOK'
    BY <1>1, <2>1, <2>3 DEF IntakeIInv, IntakeTypeOK, To, Steps
  <2>5. slots' = Cardinality(InSlot')
    BY <1>1, <2>1, SlotKept DEF IntakeIInv, IntakeExact, SlotSteps
  <2>6. Cardinality(Busy') <= Workers
    BY <1>1, <2>1, WorkersKept DEF IntakeIInv, IntakeExact, BusySteps
  <2>7. ~poolClosed /\ Len(jobs') <= QueueLength
    BY <1>1, <1>2, <1>4, <2>3, SlotSet, IntakeAssumption DEF IntakeIInv, IntakeExact
  <2>8. IntakeExact'  BY <1>1, <2>1, <2>5, <2>6, <2>7 DEF IntakeIInv, IntakeExact
  <2>9. JobsOnce'
    <3>1. \A i \in 1..Len(jobs) : jobs[i] # c /\ jobs[i] \in Conns /\ at[jobs[i]] = "queued"
      BY <1>1, <2>3, SlotSet DEF IntakeIInv, JobsOnce
    <3>2. \A i \in 1..Len(jobs') : i \in 1..Len(jobs) \/ i = Len(jobs) + 1
      BY <1>2, <2>3
    <3>3. \A i \in 1..Len(jobs') : at'[jobs'[i]] = "queued"
      BY <2>2, <2>3, <3>1, <3>2
    <3>4. \A i, j \in 1..Len(jobs') : i # j => jobs'[i] # jobs'[j]
      BY <2>3, <3>1, <3>2 DEF IntakeIInv, JobsOnce
    <3> QED  BY <3>3, <3>4 DEF JobsOnce
  <2>10. ComesToRest'
    BY <1>1, <2>2, SlotSet DEF IntakeIInv, ComesToRest
  <2>11. \A d \in Conns : OwnerOK(d)'
    BY <1>1, <2>1, <2>2, Owners DEF IntakeIInv, OwnerOK, InTime, SlotSteps
  <2> QED  BY <2>4, <2>8, <2>9, <2>10, <2>11, OwnersNext DEF IntakeIInv
<1> QED  BY <1>3, <1>4

LEMMA WorkerTakesKeeps == ASSUME IntakeIInv, WorkerTakes  PROVE IntakeIInv'
<1>1. PICK c \in Peers : c = jobs[1] /\ jobs # <<>>
  BY DEF WorkerTakes, IntakeIInv, IntakeTypeOK
<1>2. /\ To(c, "handshake") /\ jobs' = Tail(jobs) /\ Cardinality(Busy) < Workers
      /\ UNCHANGED <<http, open, handedOff, slots, poolClosed, queueClosed, accepting, stop>>
  BY <1>1 DEF WorkerTakes, IntakeIInv, IntakeTypeOK
<1>3. c \in Conns /\ at[c] = "queued"
  BY <1>1, SlotSet DEF IntakeIInv, JobsOnce, IntakeTypeOK
<1>4. at'[c] = "handshake" /\ \A d \in Conns \ {c} : at'[d] = at[d]  BY <1>2, <1>3, Mover
<1>5. /\ jobs' \in Seq(Peers) /\ Len(jobs') = Len(jobs) - 1
      /\ \A i \in 1..Len(jobs') : jobs'[i] = jobs[i + 1] /\ i + 1 \in 1..Len(jobs)
      /\ \A i \in 1..Len(jobs) : jobs[i] \in Peers
  BY <1>1, <1>2 DEF IntakeIInv, IntakeTypeOK
<1>6. IntakeTypeOK'  BY <1>2, <1>3, <1>5 DEF IntakeIInv, IntakeTypeOK, To, Steps
<1>7. slots' = Cardinality(InSlot')
  BY <1>2, <1>3, SlotKept DEF IntakeIInv, IntakeExact, SlotSteps
<1>8. Cardinality(Busy') <= Workers
  <2>1. Busy' = Busy \cup {c} /\ c \notin Busy
    BY <1>3, <1>4, SlotSet, SlotSetNext DEF BusySteps
  <2>2. Cardinality(Busy') = Cardinality(Busy) + 1  BY <2>1, SlotsFinite, CountsOneMore
  <2> QED  BY <1>2, <2>2, SlotsFinite, IntakeAssumption
<1>9. ~poolClosed /\ Len(jobs') <= QueueLength
  BY <1>1, <1>5, IntakeAssumption DEF IntakeIInv, IntakeExact, IntakeTypeOK
<1>10. IntakeExact'  BY <1>2, <1>7, <1>8, <1>9 DEF IntakeIInv, IntakeExact
<1>11. JobsOnce'
  <2>1. \A i \in 1..Len(jobs') : jobs'[i] # c /\ jobs'[i] \in Conns /\ at[jobs'[i]] = "queued"
    <3>1. ASSUME NEW i \in 1..Len(jobs')  PROVE i + 1 # 1 /\ 1 \in 1..Len(jobs)
      BY <1>5
    <3> QED  BY <1>1, <1>5, <3>1, SlotSet DEF IntakeIInv, JobsOnce
  <2>2. \A i, j \in 1..Len(jobs') : i # j => jobs'[i] # jobs'[j]
    BY <1>5 DEF IntakeIInv, JobsOnce
  <2> QED  BY <1>4, <2>1, <2>2 DEF JobsOnce
<1>12. ComesToRest'
  <2>1. stop \notin {"pool", "stopped"}
    BY <1>3 DEF IntakeIInv, ComesToRest, SlotSteps
  <2> QED  BY <1>2, <1>4, <2>1, SlotSet DEF IntakeIInv, ComesToRest
<1>13. \A d \in Conns : OwnerOK(d)'
  BY <1>2, <1>3, <1>4, Owners DEF IntakeIInv, OwnerOK, InTime, SlotSteps
<1> QED  BY <1>6, <1>10, <1>11, <1>12, <1>13, OwnersNext DEF IntakeIInv

LEMMA ConnStepsKeep == ASSUME IntakeIInv, NEW c \in Conns, ConnSteps(c)  PROVE IntakeIInv'
<1>1. OwnerOK(c)  BY Owners DEF IntakeIInv
<1>2. ASSUME NEW from \in SlotSteps \ {"queued"}, NEW step \in SlotSteps \ {"queued", "entering"},
             Moves(c, from, step), from # "handing", from = "leaving" => step = "leaving",
             c \in Peers /\ step \in BusySteps => from \in BusySteps, step # "handing"
      PROVE  IntakeIInv'
  <2>1. /\ at[c] = from /\ To(c, step)
        /\ UNCHANGED <<http, open, handedOff, slots, jobs, poolClosed, queueClosed, accepting, stop>>
    BY <1>2 DEF Moves
  <2>2. at'[c] = step  BY <2>1, Mover
  <2>3. OwnerOK(c)'  BY <1>1, <1>2, <2>1, <2>2 DEF OwnerOK, InTime, SlotSteps
  <2> QED  BY <1>2, <2>1, <2>3, GoesOn DEF IntakeIInv, IntakeTypeOK
<1>3. CASE Moves(c, "handshake", "reading")  BY <1>2, <1>3 DEF SlotSteps, BusySteps
<1>4. CASE Moves(c, "entering", "reading")
  BY <1>2, <1>4 DEF SlotSteps, BusySteps, IntakeIInv, ComesToRest, Moves
<1>5. CASE HandleFails(c) \/ TunnelBegins(c) \/ TunnelEnds(c)
  BY <1>2, <1>5 DEF HandleFails, TunnelBegins, TunnelEnds, SlotSteps, BusySteps
<1>6. CASE HandlerReturns(c)
  <2>1. /\ at[c] = "leaving" /\ To(c, "over") /\ slots' = slots - 1
        /\ UNCHANGED <<http, handedOff, jobs, poolClosed, queueClosed, accepting, stop>>
        /\ IF c \in Peers /\ handedOff[c] THEN UNCHANGED open ELSE CloseConn(c)
    BY <1>6 DEF HandlerReturns
  <2> QED  BY <2>1, GivesBack DEF SlotSteps
<1> QED  BY <1>3, <1>4, <1>5, <1>6 DEF ConnSteps, StoreConnection


LEMMA PeerStepsKeep ==
  ASSUME IntakeIInv, NEW c \in Peers, HandshakeFails(c) \/ EnqueueHTTP(c) \/ SetHandedOff(c)
  PROVE  IntakeIInv'
<1>1. c \in Conns /\ OwnerOK(c)  BY SlotSet, Owners DEF IntakeIInv
<1>2. CASE HandshakeFails(c)
  <2>1. /\ at[c] = "handshake" /\ Rejected(c)
        /\ UNCHANGED <<http, handedOff, jobs, poolClosed, queueClosed, accepting, stop>>
    BY <1>2 DEF HandshakeFails
  <2>2. http[c] = "no"  BY <1>1, <2>1 DEF OwnerOK
  <2> QED  BY <1>1, <2>1, <2>2, GivesBack DEF Rejected, SlotSteps
<1>3. CASE EnqueueHTTP(c)
  <2>1. at[c] = "reading" /\ http[c] = "no" /\ ~handedOff[c]
        /\ UNCHANGED <<open, handedOff, slots, jobs, poolClosed, queueClosed, accepting, stop>>
    BY <1>1, <1>3 DEF EnqueueHTTP, OwnerOK
  <2>2. CASE To(c, "leaving") /\ UNCHANGED http
    <3>1. at'[c] = "leaving"  BY <1>1, <2>2, Mover
    <3>2. OwnerOK(c)'  BY <1>1, <2>1, <2>2, <3>1 DEF OwnerOK, SlotSteps, InTime
    <3> QED
      BY <1>1, <2>1, <2>2, <3>2, GoesOn DEF IntakeIInv, IntakeTypeOK, SlotSteps, BusySteps
  <2>3. CASE ~queueClosed /\ To(c, "handing") /\ HTTP(c, "queue")
    <3>1. at'[c] = "handing"  BY <1>1, <2>3, Mover
    <3>2. /\ http' \in [Peers -> HTTPSteps] /\ http'[c] = "queue"
          /\ \A d \in Peers \ {c} : http'[d] = http[d]
      BY <2>3 DEF HTTP, IntakeIInv, IntakeTypeOK, HTTPSteps
    <3>3. stop = "no"  BY <2>3 DEF IntakeIInv, ComesToRest
    <3>4. open[c]  BY <1>1, <2>1, <3>3 DEF OwnerOK, SlotSteps, InTime
    <3>5. OwnerOK(c)'  BY <1>1, <2>1, <3>1, <3>2, <3>4 DEF OwnerOK, SlotSteps, InTime
    <3> QED
      BY <1>1, <2>1, <2>3, <3>2, <3>5, GoesOn DEF IntakeIInv, IntakeTypeOK, SlotSteps, BusySteps
  <2> QED  BY <1>3, <2>2, <2>3 DEF EnqueueHTTP
<1>4. CASE SetHandedOff(c)
  <2>1. /\ at[c] = "handing" /\ To(c, "leaving") /\ handedOff' = [handedOff EXCEPT ![c] = TRUE]
        /\ UNCHANGED <<http, open, slots, jobs, poolClosed, queueClosed, accepting, stop>>
    BY <1>4 DEF SetHandedOff
  <2>2. at'[c] = "leaving"  BY <1>1, <2>1, Mover
  <2>3. /\ handedOff' \in [Peers -> BOOLEAN] /\ handedOff'[c]
        /\ \A d \in Peers \ {c} : handedOff'[d] = handedOff[d]
    BY <2>1 DEF IntakeIInv, IntakeTypeOK
  <2>4. http[c] # "no"  BY <1>1, <2>1 DEF OwnerOK
  <2>5. OwnerOK(c)'  BY <1>1, <2>1, <2>2, <2>3, <2>4 DEF OwnerOK, SlotSteps, InTime
  <2> QED
    BY <1>1, <2>1, <2>3, <2>5, GoesOn DEF IntakeIInv, IntakeTypeOK, SlotSteps, BusySteps
<1> QED  BY <1>2, <1>3, <1>4


(* A step of the HTTP server or of Stop, which leaves the handlers where   *)
(* they are.                                                               *)
LEMMA HandlersStay ==
  ASSUME IntakeIInv, UNCHANGED <<at, handedOff, slots, jobs>>,
         http' \in [Peers -> HTTPSteps], open' \in [Conns -> BOOLEAN],
         {poolClosed', queueClosed', accepting'} \subseteq BOOLEAN, stop' \in StopSteps,
         ComesToRest', poolClosed' => jobs = <<>> /\ \A c \in Peers : at[c] \notin SlotSteps,
         \A c \in Conns : OwnerOK(c)'
  PROVE  IntakeIInv'
<1>1. InSlot' = InSlot /\ Busy' = Busy  BY SlotSet, SlotSetNext
<1>2. IntakeTypeOK'  BY DEF IntakeIInv, IntakeTypeOK
<1>3. IntakeExact'
  BY <1>1, SlotSet DEF IntakeIInv, IntakeExact
<1>4. JobsOnce'  BY DEF IntakeIInv, JobsOnce
<1> QED  BY <1>2, <1>3, <1>4, OwnersNext DEF IntakeIInv

LEMMA HTTPServerKeeps ==
  ASSUME IntakeIInv, NEW c \in Peers, HTTPAccepts(c) \/ HTTPEnds(c)
  PROVE  IntakeIInv'
<1>1. c \in Conns  BY SlotSet
<1>2. UNCHANGED <<at, handedOff, slots, jobs, poolClosed, queueClosed, accepting, stop>>
  BY DEF HTTPAccepts, HTTPEnds
<1>3. http' \in [Peers -> HTTPSteps] /\ open' \in [Conns -> BOOLEAN]
  BY DEF HTTPAccepts, HTTPEnds, HTTP, CloseConn, IntakeIInv, IntakeTypeOK, HTTPSteps
<1>4. \A d \in Conns : OwnerOK(d)'
  <2>1. \A d \in Conns \ {c} : open'[d] = open[d] /\ (d \in Peers => http'[d] = http[d])
    BY DEF HTTPAccepts, HTTPEnds, HTTP, CloseConn, IntakeIInv, IntakeTypeOK
  <2>2. ASSUME NEW d \in Conns, d # c  PROVE OwnerOK(d)'
    BY <1>2, <2>1, <2>2, Owners DEF IntakeIInv, OwnerOK, InTime
  <2>3. OwnerOK(c) /\ http[c] # "no"
    BY <1>1, Owners DEF HTTPAccepts, HTTPEnds, IntakeIInv
  <2>4. \/ http[c] = "queue" /\ http'[c] = "serving" /\ open'[c] = open[c]
        \/ http[c] = "serving" /\ http'[c] = "done" /\ ~open'[c]
    BY <1>1 DEF HTTPAccepts, HTTPEnds, HTTP, CloseConn, IntakeIInv, IntakeTypeOK
  <2>5. OwnerOK(c)'  BY <1>2, <2>3, <2>4 DEF OwnerOK, InTime
  <2> QED  BY <2>2, <2>5
<1>5. ComesToRest'  BY <1>2 DEF IntakeIInv, ComesToRest
<1> QED
  BY <1>2, <1>3, <1>4, <1>5, HandlersStay, SlotSet DEF IntakeIInv, IntakeTypeOK, IntakeExact

LEMMA HandleWSKeeps ==
  ASSUME IntakeIInv, NEW c \in Peers, NEW s \in Sockets, HandleWSConnection(c, s)
  PROVE  IntakeIInv'
<1>1. /\ http[c] = "serving" /\ at[s] = "new" /\ HTTP(c, "done") /\ c # s
      /\ c \in Conns /\ s \in Conns /\ s \notin Peers
      /\ UNCHANGED <<handedOff, jobs, poolClosed, queueClosed, accepting, stop>>
  BY IntakeAssumption DEF HandleWSConnection, Conns
<1>2. /\ OwnerOK(c) /\ OwnerOK(s) /\ slots = Cardinality(InSlot) /\ slots <= MaxConns
      /\ slots \in Nat /\ Cardinality(Busy) <= Workers /\ ~open[s]
  BY <1>1, Owners DEF IntakeIInv, IntakeExact, IntakeTypeOK, OwnerOK, SlotSteps
<1>3. PICK step \in {"entering", "over"} :
        /\ To(s, step) /\ slots' \in Nat /\ slots' <= MaxConns
        /\ slots' = Cardinality(InSlot')
        /\ open' \in [Conns -> BOOLEAN] /\ ~open'[c] /\ open'[s] = (step = "entering")
        /\ \A d \in Conns \ {c, s} : open'[d] = open[d]
  <2>1. CASE slots < MaxConns
    <3>1. /\ To(s, "entering") /\ slots' = slots + 1
          /\ open' = [open EXCEPT ![c] = FALSE, ![s] = TRUE]
      BY <2>1 DEF HandleWSConnection
    <3>2. slots' = Cardinality(InSlot')
      BY <1>1, <1>2, <3>1, SlotTaken DEF IntakeIInv, SlotSteps
    <3>3. slots' \in Nat /\ slots' <= MaxConns  BY <1>2, <2>1, <3>1, IntakeAssumption
    <3> QED  BY <1>1, <3>1, <3>2, <3>3 DEF IntakeIInv, IntakeTypeOK
  <2>2. CASE ~(slots < MaxConns)
    <3>1. To(s, "over") /\ CloseConn(c) /\ UNCHANGED slots
      BY <2>2 DEF HandleWSConnection
    <3>2. slots' = Cardinality(InSlot')
      BY <1>1, <1>2, <3>1, SlotKept DEF IntakeIInv, SlotSteps
    <3> QED  BY <1>1, <1>2, <3>1, <3>2 DEF CloseConn, IntakeIInv, IntakeTypeOK
  <2> QED  BY <2>1, <2>2
<1>4. at' \in [Conns -> Steps] /\ at'[s] = step /\ \A d \in Conns \ {s} : at'[d] = at[d]
  BY <1>1, <1>3 DEF To, IntakeIInv, IntakeTypeOK, Steps
<1>5. /\ http' \in [Peers -> HTTPSteps] /\ http'[c] = "done"
      /\ \A d \in Peers \ {c} : http'[d] = http[d]
  BY <1>1 DEF HTTP, IntakeIInv, IntakeTypeOK, HTTPSteps
<1>6. IntakeTypeOK'  BY <1>1, <1>3, <1>4, <1>5 DEF IntakeIInv, IntakeTypeOK
<1>7. Cardinality(Busy') <= Workers
  BY <1>1, <1>2, <1>3, WorkersKept DEF IntakeIInv
<1>8. IntakeExact'
  BY <1>1, <1>3, <1>4, <1>7, SlotSet, SlotSetNext DEF IntakeIInv, IntakeExact
<1>9. JobsOnce'
  BY <1>1, <1>4, SlotSet DEF IntakeIInv, IntakeTypeOK, JobsOnce
<1>10. ComesToRest'  BY <1>1, <1>4, SlotSet DEF IntakeIInv, ComesToRest
<1>11. \A d \in Conns : OwnerOK(d)'
  <2>1. ASSUME NEW d \in Conns, d # c, d # s  PROVE OwnerOK(d)'
    BY <1>1, <1>3, <1>4, <1>5, <2>1, Owners DEF IntakeIInv, OwnerOK, InTime
  <2>2. OwnerOK(c)'
    BY <1>1, <1>2, <1>3, <1>4, <1>5 DEF OwnerOK
  <2>3. OwnerOK(s)'  BY <1>1, <1>3, <1>4 DEF OwnerOK, SlotSteps
  <2> QED  BY <2>1, <2>2, <2>3
<1> QED  BY <1>6, <1>8, <1>9, <1>10, <1>11, OwnersNext DEF IntakeIInv

LEMMA StopKeeps == ASSUME IntakeIInv, AcceptLoopEnds \/ StopStep  PROVE IntakeIInv'
<1>1. UNCHANGED <<at, handedOff, slots, jobs>>
  BY DEF AcceptLoopEnds, StopStep, StopBegins, Drain, CloseListener, CloseConnections,
         WaitForHandlers, ClosePool
<1>2. http' \in [Peers -> HTTPSteps] /\ open' \in [Conns -> BOOLEAN]
  BY DEF AcceptLoopEnds, StopStep, StopBegins, Drain, CloseListener, CloseConnections,
         WaitForHandlers, ClosePool, IntakeIInv, IntakeTypeOK, HTTPSteps
<1>3. {poolClosed', queueClosed', accepting'} \subseteq BOOLEAN /\ stop' \in StopSteps
  BY DEF AcceptLoopEnds, StopStep, StopBegins, Drain, CloseListener, CloseConnections,
         WaitForHandlers, ClosePool, IntakeIInv, IntakeTypeOK, StopSteps
<1>4. ComesToRest'
  <2>1. CASE WaitForHandlers
    <3>1. ~accepting /\ \A c \in Peers : at[c] \notin SlotSteps
      BY <2>1, SlotSet DEF WaitForHandlers, WaitGroupDone, IntakeIInv, ComesToRest
    <3> QED  BY <2>1, <3>1 DEF WaitForHandlers, IntakeIInv, ComesToRest
  <2>2. CASE ~WaitForHandlers
    BY <1>1, <2>2 DEF AcceptLoopEnds, StopStep, StopBegins, Drain, CloseListener,
                      CloseConnections, ClosePool, IntakeIInv, ComesToRest
  <2> QED  BY <2>1, <2>2
(* When the pool is closed nobody is left to send a job.                   *)
<1>5. poolClosed' => jobs = <<>> /\ \A c \in Peers : at[c] \notin SlotSteps
  <2>1. SUFFICES ASSUME poolClosed'
                 PROVE  jobs = <<>> /\ \A c \in Peers : at[c] \notin SlotSteps
    OBVIOUS
  <2>2. stop \in {"pool", "stopped"}
    BY <2>1 DEF AcceptLoopEnds, StopStep, StopBegins, Drain, CloseListener, CloseConnections,
                WaitForHandlers, ClosePool, IntakeIInv, ComesToRest
  <2>3. \A c \in Peers : at[c] \notin SlotSteps  BY <2>2 DEF IntakeIInv, ComesToRest
  <2>4. jobs = <<>>
    BY <2>3 DEF IntakeIInv, IntakeTypeOK, JobsOnce, SlotSteps
  <2> QED  BY <2>3, <2>4
<1>6. ASSUME NEW c \in Conns  PROVE OwnerOK(c)'
  <2>1. OwnerOK(c)  BY Owners DEF IntakeIInv
  <2>2. CASE Drain
    <3>1. /\ InTime /\ InTime'
          /\ c \in Peers /\ http[c] = "queue" => http'[c] = "done" /\ ~open'[c]
          /\ c \in Peers /\ http[c] # "queue" => http'[c] = http[c] /\ open'[c] = open[c]
          /\ c \notin Peers => open'[c] = open[c]
      BY <2>2 DEF Drain, InTime, IntakeIInv, IntakeTypeOK
    <3> QED  BY <1>1, <2>1, <3>1 DEF OwnerOK
  <2>3. CASE CloseConnections
    <3>1. ~InTime' /\ UNCHANGED http /\ (open'[c] => open[c])
      BY <2>3 DEF CloseConnections, InTime
    <3> QED  BY <1>1, <2>1, <3>1 DEF OwnerOK
  <2>4. CASE ~Drain /\ ~CloseConnections
    <3>1. UNCHANGED <<http, open>> /\ (InTime' => InTime)
      BY <2>4 DEF AcceptLoopEnds, StopStep, StopBegins, CloseListener, WaitForHandlers,
                  ClosePool, InTime
    <3> QED  BY <1>1, <2>1, <3>1 DEF OwnerOK
  <2> QED  BY <2>2, <2>3, <2>4
<1> QED  BY <1>1, <1>2, <1>3, <1>4, <1>5, <1>6, HandlersStay

LEMMA IntakeStepKeeps == IntakeIInv /\ [IntakeNext]_intakeVars => IntakeIInv'
<1> SUFFICES ASSUME IntakeIInv, [IntakeNext]_intakeVars  PROVE IntakeIInv'  OBVIOUS
<1>1. CASE UNCHANGED intakeVars
  <2>1. ComesToRest'  BY <1>1 DEF intakeVars, IntakeIInv, ComesToRest
  <2>2. \A c \in Conns : OwnerOK(c)'
    BY <1>1, Owners DEF intakeVars, IntakeIInv, OwnerOK, InTime
  <2> QED
    BY <1>1, <2>1, <2>2, HandlersStay, SlotSet
    DEF intakeVars, IntakeIInv, IntakeTypeOK, IntakeExact
<1>2. CASE IntakeNext
  BY <1>2, AcceptKeeps, SubmitChecksKeeps, SubmitSendsKeeps, WorkerTakesKeeps, ConnStepsKeep,
     PeerStepsKeep, HTTPServerKeeps, HandleWSKeeps, StopKeeps DEF IntakeNext
<1> QED  BY <1>1, <1>2

(* The argument: what is in a slot follows from where the handlers are,    *)
(* whose a connection is from where it has been handed, and the pool is    *)
(* closed only after everybody who could send to it has been waited for.   *)
THEOREM IntakeInductive == IntakeSpec => []IntakeIInv
<1>1. ASSUME IntakeInit  PROVE IntakeIInv
  <2>1. IntakeTypeOK
    <3>1. <<>> \in Seq(Peers)  OBVIOUS
    <3>2. at \in [Conns -> Steps] /\ http \in [Peers -> HTTPSteps]
      BY <1>1 DEF IntakeInit, Steps, HTTPSteps
    <3> QED  BY <1>1, <3>1, <3>2 DEF IntakeInit, IntakeTypeOK, StopSteps
  <2>2. InSlot = {} /\ Busy = {}
    BY <1>1, SlotSet DEF IntakeInit, SlotSteps, BusySteps
  <2>3. IntakeExact
    BY <1>1, <2>2, FS_EmptySet, IntakeAssumption DEF IntakeInit, IntakeExact
  <2>4. JobsOnce /\ ComesToRest
    BY <1>1, SlotSet DEF IntakeInit, JobsOnce, ComesToRest
  <2>5. \A c \in Conns : OwnerOK(c)
    BY <1>1 DEF IntakeInit, OwnerOK, SlotSteps
  <2> QED  BY <2>1, <2>3, <2>4, <2>5, Owners DEF IntakeIInv
<1> QED  BY <1>1, IntakeStepKeeps, PTL DEF IntakeSpec

(* Slots are counted exactly, no limit is passed, and nobody sends on the  *)
(* channel of a closed pool.                                               *)
THEOREM IntakeExactCorrect == IntakeSpec => []IntakeExact
BY IntakeInductive, PTL DEF IntakeIInv

(* A connection that is open has exactly one who will close it.            *)
THEOREM OneOwnerCorrect == IntakeSpec => []OneOwner
BY IntakeInductive, PTL DEF IntakeIInv

----------------------------------------------------------------------------
(* The challenge zone.                                                     *)
ZoneContents == [token : Values, quotes : Nat, disabled : BOOLEAN]

(* Between its fetch and its write a deletion is alone, the zone it has    *)
(* read is still there, and what came in meanwhile is known to have.       *)
FetchHolds ==
  \A o \in Orders : order[o] = "deleting" =>
    /\ \A p \in Orders : order[p] = "deleting" => p = o
    /\ fetched[o] \subseteq zone
    /\ \A f \in Foreign : \E c \in fetched[o] : c.token = f
    /\ \A c \in zone \ fetched[o] : c.token \in crossed \ {o}

ZoneIInv == ZoneTypeOK /\ FetchHolds /\ ZoneKept

(* One at a time, an answer is no longer used when the delay is over.      *)
AnswerExpires ==
  /\ cached.until \in Nat /\ cached.until <= now + clampTTL(RequestTTL)
  /\ ~together =>
       \A o \in Orders :
         /\ \A p \in Orders : ~Over(o) /\ ~Over(p) => o = p
         /\ order[o] = "waiting" => cached.until <= since[o] + clampTTL(RequestTTL)

----------------------------------------------------------------------------
Row(token, quotes, disabled) == [token |-> token, quotes |-> quotes, disabled |-> disabled]

(* A content that was read and written back is the same, but enabled.      *)
LEMMA ThereAndBack ==
  ASSUME NEW c \in ZoneContents, c.quotes = 1
  PROVE  /\ Quoted(decodeContent(c)) \in ZoneContents
         /\ Quoted(decodeContent(c)).token = c.token /\ Quoted(decodeContent(c)).quotes = 1
         /\ \A o : matchesAny(o, decodeContent(c)) <=> c.token = o
<1>1. decodeContent(c).token = c.token /\ decodeContent(c).quotes = 0 /\ c.token \in Values
  BY DEF decodeContent, ZoneContents
<1>2. Quoted(decodeContent(c)) = Row(c.token, 0 + 1, FALSE)  BY <1>1 DEF Quoted, Row
<1> QED  BY <1>1, <1>2 DEF Row, ZoneContents, matchesAny

LEMMA AppendedIs ==
  ASSUME NEW o \in Orders
  PROVE  Quoted(Plain(o)) \in ZoneContents /\ Quoted(Plain(o)).token = o /\ Quoted(Plain(o)).quotes = 1
<1>1. Plain(o).token = o /\ Plain(o).quotes = 0  BY DEF Plain, Content
<1>2. Quoted(Plain(o)) = Row(o, 0 + 1, FALSE)  BY <1>1 DEF Quoted, Row
<1> QED  BY <1>2 DEF Row, ZoneContents, Values

LEMMA AppendKeeps == ASSUME ZoneIInv, NEW o \in Orders, AppendRecords(o)  PROVE ZoneIInv'
<1> DEFINE new == Quoted(Plain(o))
<1>1. new \in ZoneContents /\ new.token = o /\ new.quotes = 1  BY AppendedIs
<1> HIDE DEF new
<1>2. PICK applied \in BOOLEAN, ok \in BOOLEAN :
        /\ ok => applied
        /\ zone' = IF applied THEN zone \cup {new} ELSE zone
        /\ crossed' = IF applied /\ ~MutexFree THEN crossed \cup {o} ELSE crossed
        /\ order' = [order EXCEPT ![o] = IF ok THEN "waiting" ELSE "left"]
  BY DEF AppendRecords, Step, new
<1>3. order[o] = "idle" /\ since' = [since EXCEPT ![o] = now] /\ UNCHANGED <<fetched, cached, now, together>>
  BY DEF AppendRecords
<1>4. ZoneTypeOK'
  BY <1>1, <1>2, <1>3 DEF ZoneIInv, ZoneTypeOK, ZoneContents, OrderSteps
<1>5. /\ order'[o] \in {"waiting", "left"} /\ \A p \in Orders \ {o} : order'[p] = order[p]
      /\ zone \subseteq zone' /\ crossed \subseteq crossed'
      /\ \A c \in zone' : c \in zone \/ (c = new /\ (~MutexFree => o \in crossed'))
      /\ order'[o] = "waiting" => new \in zone'
  BY <1>2 DEF ZoneIInv, ZoneTypeOK
<1>6. FetchHolds'
  <2> SUFFICES ASSUME NEW p \in Orders, order'[p] = "deleting"
               PROVE  /\ \A q \in Orders : order'[q] = "deleting" => q = p
                      /\ fetched'[p] \subseteq zone'
                      /\ \A f \in Foreign : \E c \in fetched'[p] : c.token = f
                      /\ \A c \in zone' \ fetched'[p] : c.token \in crossed' \ {p}
    BY DEF FetchHolds
  <2>1. p # o /\ order[p] = "deleting" /\ ~MutexFree  BY <1>5 DEF MutexFree
  <2> QED  BY <1>1, <1>3, <1>5, <2>1 DEF ZoneIInv, FetchHolds
<1>7. DeletedStaysDeleted'
  BY <1>1, <1>5 DEF ZoneIInv, ZoneKept, DeletedStaysDeleted
<1>8. OthersKept'
  BY <1>1, <1>3, <1>5 DEF ZoneIInv, ZoneKept, OthersKept
<1> QED  BY <1>4, <1>6, <1>7, <1>8 DEF ZoneIInv, ZoneKept

LEMMA FetchKeeps == ASSUME ZoneIInv, NEW o \in Orders, FetchZone(o)  PROVE ZoneIInv'
<1>1. /\ order[o] \in {"valid", "unseen", "timeout"} /\ UNCHANGED <<zone, since, crossed, now, together>>
      /\ \A p \in Orders : order[p] # "deleting"
      /\ \A p \in Orders \ {o} : order'[p] = order[p]
  BY DEF FetchZone, Step, MutexFree, ZoneIInv, ZoneTypeOK
<1>2. order'[o] = "left" \/ (order'[o] = "deleting" /\ fetched'[o] = zone)
  BY DEF FetchZone, Step, ZoneIInv, ZoneTypeOK
<1>3. ZoneTypeOK'  BY DEF FetchZone, Step, ZoneIInv, ZoneTypeOK, OrderSteps
<1>4. FetchHolds'  BY <1>1, <1>2 DEF ZoneIInv, FetchHolds, ZoneKept, OthersKept
<1>5. ZoneKept'
  BY <1>1, <1>2 DEF ZoneIInv, ZoneKept, DeletedStaysDeleted, OthersKept
<1> QED  BY <1>3, <1>4, <1>5 DEF ZoneIInv

LEMMA RewriteKeeps == ASSUME ZoneIInv, NEW o \in Orders, RewriteZone(o)  PROVE ZoneIInv'
<1> DEFINE Back(c) == Quoted(decodeContent(c))
<1>1. /\ order[o] = "deleting" /\ fetched' = [fetched EXCEPT ![o] = {}]
      /\ UNCHANGED <<since, crossed, cached, now, together>>
  BY DEF RewriteZone
<1>2. /\ fetched[o] \subseteq zone /\ zone \subseteq ZoneContents /\ \A c \in zone : c.quotes = 1
      /\ \A p \in Orders \ {o} : order[p] # "deleting"
  BY <1>1 DEF ZoneIInv, FetchHolds, ZoneTypeOK, ZoneContents, ZoneKept, OthersKept
<1>3. \A c \in fetched[o] :
        /\ Back(c) \in ZoneContents /\ Back(c).token = c.token /\ Back(c).quotes = 1
        /\ matchesAny(o, decodeContent(c)) <=> c.token = o
  BY <1>2, ThereAndBack
<1>4. \/ zone' = zone /\ order'[o] = "left"
      \/ zone' = zone /\ order'[o] = "clean" /\ \A c \in fetched[o] : c.token # o
      \/ zone' = {Back(c) : c \in {d \in fetched[o] : d.token # o}} /\ order'[o] \in {"clean", "left"}
  <2>1. PICK applied \in BOOLEAN, ok \in BOOLEAN :
          /\ ok => applied
          /\ zone' = IF applied /\ \E c \in fetched[o] : matchesAny(o, decodeContent(c))
                     THEN {Quoted(c) : c \in {decodeContent(d) :
                             d \in {e \in fetched[o] : ~matchesAny(o, decodeContent(e))}}}
                     ELSE zone
          /\ order' = [order EXCEPT ![o] =
                         IF ok \/ ~\E c \in fetched[o] : matchesAny(o, decodeContent(c))
                         THEN "clean" ELSE "left"]
    BY DEF RewriteZone, Step
  <2>2. {Quoted(c) : c \in {decodeContent(d) :
           d \in {e \in fetched[o] : ~matchesAny(o, decodeContent(e))}}}
        = {Back(c) : c \in {d \in fetched[o] : d.token # o}}
    BY <1>3
  <2>3. (\E c \in fetched[o] : matchesAny(o, decodeContent(c))) <=> \E c \in fetched[o] : c.token = o
    BY <1>3
  <2>4. order'[o] = IF ok \/ ~\E c \in fetched[o] : matchesAny(o, decodeContent(c))
                    THEN "clean" ELSE "left"
    BY <2>1 DEF ZoneIInv, ZoneTypeOK
  <2> QED  BY <2>1, <2>2, <2>3, <2>4
<1>5. order' \in [Orders -> OrderSteps] /\ \A p \in Orders \ {o} : order'[p] = order[p]
  BY DEF RewriteZone, Step, ZoneIInv, ZoneTypeOK, OrderSteps
<1> HIDE DEF Back
<1>6. /\ zone' \subseteq ZoneContents /\ \A c \in zone' : c.quotes = 1
      /\ \A c \in zone' : \E d \in zone : d.token = c.token
      /\ order'[o] = "clean" => \A c \in zone' : c.token # o
  <2>1. CASE zone' = zone /\ order'[o] = "left"  BY <1>2, <2>1
  <2>2. CASE zone' = zone /\ order'[o] = "clean" /\ \A c \in fetched[o] : c.token # o
    <3>1. \A c \in zone \ fetched[o] : c.token # o
      BY <1>1 DEF ZoneIInv, FetchHolds
    <3> QED  BY <1>2, <2>2, <3>1
  <2>3. CASE zone' = {Back(c) : c \in {d \in fetched[o] : d.token # o}}  BY <1>2, <1>3, <2>3
  <2> QED  BY <1>4, <2>1, <2>2, <2>3
<1>7. \A c \in fetched[o] : c.token # o => \E d \in zone' : d.token = c.token
  BY <1>2, <1>3, <1>4
<1>8. ZoneTypeOK'  BY <1>1, <1>5, <1>6 DEF ZoneIInv, ZoneTypeOK, ZoneContents
<1>9. FetchHolds'  BY <1>2, <1>4, <1>5 DEF FetchHolds
<1>10. DeletedStaysDeleted'
  BY <1>5, <1>6 DEF ZoneIInv, ZoneKept, DeletedStaysDeleted
<1>11. OthersKept'
  <2>1. \A f \in Foreign : \E c \in zone' : c.token = f
    BY <1>1, <1>7, ZoneAssumption DEF ZoneIInv, FetchHolds
  <2>2. ASSUME NEW p \in Orders \ crossed, order'[p] \in {"waiting", "valid", "unseen"}
        PROVE  \E c \in zone' : c.token = p
    <3>1. p # o /\ \E c \in zone : c.token = p
      BY <1>4, <1>5, <2>2 DEF ZoneIInv, ZoneKept, OthersKept
    <3>2. \E c \in fetched[o] : c.token = p  BY <1>1, <3>1 DEF ZoneIInv, FetchHolds
    <3> QED  BY <1>7, <3>1, <3>2
  <2> QED  BY <1>1, <1>6, <2>1, <2>2 DEF OthersKept
<1> QED  BY <1>8, <1>9, <1>10, <1>11 DEF ZoneIInv, ZoneKept

(* The argument: a deletion writes back what it has read, which is what    *)
(* was there but for the tokens that came in meanwhile.                    *)
THEOREM ZoneInductive == ZoneSpec => []ZoneIInv
<1>1. ASSUME ZoneInit  PROVE ZoneIInv
  <2>1. PICK off \in BOOLEAN : zone = {[Content(f) EXCEPT !.disabled = off] : f \in Foreign}
    BY <1>1 DEF ZoneInit
  <2>2. \A f \in Foreign : [Content(f) EXCEPT !.disabled = off] = Row(f, 1, off)
    BY DEF Content, Row
  <2>3. /\ \A c \in zone : \E f \in Foreign : c = Row(f, 1, off)
        /\ \A f \in Foreign : Row(f, 1, off) \in zone
    BY <2>1, <2>2
  <2>7. /\ \A c \in zone : c \in ZoneContents /\ c.quotes = 1 /\ c.token \in Foreign
        /\ \A f \in Foreign : \E c \in zone : c.token = f
    <3>1. \A f \in Foreign :
            Row(f, 1, off) \in ZoneContents /\ Row(f, 1, off).quotes = 1 /\ Row(f, 1, off).token = f
      BY DEF Row, ZoneContents, Values
    <3> QED  BY <2>3, <3>1
  <2>4. ZoneTypeOK
    BY <1>1, <2>7, ZoneAssumption DEF ZoneInit, ZoneTypeOK, ZoneContents, OrderSteps
  <2>5. FetchHolds  BY <1>1 DEF ZoneInit, FetchHolds
  <2>6. ZoneKept
    BY <1>1, <2>7, ZoneAssumption DEF ZoneInit, ZoneKept, DeletedStaysDeleted, OthersKept
  <2> QED  BY <2>4, <2>5, <2>6 DEF ZoneIInv
<1>2. ASSUME ZoneIInv, [ZoneNext]_zoneVars  PROVE ZoneIInv'
  <2>1. CASE \E o \in Orders : Validate(o) \/ TimesOut(o)
    <3> SUFFICES ASSUME NEW o \in Orders, Validate(o) \/ TimesOut(o)  PROVE ZoneIInv'  BY <2>1
    <3>1. /\ UNCHANGED <<zone, since, fetched, crossed, now, together>>
          /\ order[o] = "waiting" /\ order'[o] \in {"valid", "unseen", "timeout"}
          /\ order' \in [Orders -> OrderSteps] /\ \A p \in Orders \ {o} : order'[p] = order[p]
      BY <1>2 DEF Validate, TimesOut, Step, ZoneIInv, ZoneTypeOK, OrderSteps
    <3> QED
      BY <1>2, <3>1 DEF ZoneIInv, ZoneTypeOK, FetchHolds, ZoneKept, DeletedStaysDeleted, OthersKept
  <2>2. CASE ClockTicks
    BY <1>2, <2>2, ZoneAssumption
    DEF ClockTicks, ZoneIInv, ZoneTypeOK, FetchHolds, ZoneKept, DeletedStaysDeleted, OthersKept
  <2>3. CASE UNCHANGED zoneVars
    BY <1>2, <2>3
    DEF zoneVars, ZoneIInv, ZoneTypeOK, FetchHolds, ZoneKept, DeletedStaysDeleted, OthersKept
  <2> QED  BY <1>2, <2>1, <2>2, <2>3, AppendKeeps, FetchKeeps, RewriteKeeps DEF ZoneNext
<1> QED  BY <1>1, <1>2, PTL DEF ZoneSpec

(* What deletions may do to the zone, and what they may not.               *)
THEOREM ZoneKeptCorrect == ZoneSpec => []ZoneKept
BY ZoneInductive, PTL DEF ZoneIInv

(* With a delay that is at least the time to live of the records, one name *)
(* after the other, no answer is one of before.                            *)
THEOREM FreshAnswerCorrect ==
  ASSUME clampTTL(RequestTTL) <= PropagationDelay
  PROVE  ZoneSpec => []FreshAnswer
<1>1. clampTTL(RequestTTL) \in Nat  BY ZoneAssumption DEF clampTTL
<1>2. ASSUME ZoneInit  PROVE AnswerExpires /\ FreshAnswer
  BY <1>1, <1>2, ZoneAssumption DEF ZoneInit, AnswerExpires, FreshAnswer, Over
<1>3. ASSUME ZoneTypeOK, AnswerExpires, FreshAnswer, [ZoneNext]_zoneVars
      PROVE  AnswerExpires' /\ FreshAnswer'
  <2> USE <1>1, <1>3, ZoneAssumption DEF ZoneTypeOK, AnswerExpires, FreshAnswer, Over
  <2>1. CASE \E o \in Orders : AppendRecords(o)  BY <2>1 DEF AppendRecords, Step
  <2>2. CASE \E o \in Orders : Validate(o)
    <3> SUFFICES ASSUME NEW o \in Orders, Validate(o)  PROVE AnswerExpires' /\ FreshAnswer'  BY <2>2
    <3>1. /\ order[o] = "waiting" /\ now >= since[o] + PropagationDelay /\ o \in Served
          /\ UNCHANGED <<since, now, together>>
      BY DEF Validate
    <3>2. ~together => cached.until <= now  BY <3>1
    <3>3. /\ \A p \in Orders \ {o} : order'[p] = order[p]
          /\ order'[o] \in {"valid", "unseen"} /\ (~together => order'[o] = "valid")
      BY <3>1, <3>2 DEF Validate, Step
    <3>4. \/ cached' = cached
          \/ cached'.until = now + clampTTL(RequestTTL)
      BY DEF Validate
    <3>5. AnswerExpires'
      BY <3>1, <3>3, <3>4
    <3> QED  BY <3>1, <3>3, <3>5
  <2>3. CASE \E o \in Orders : TimesOut(o)  BY <2>3 DEF TimesOut, Step
  <2>4. CASE \E o \in Orders : FetchZone(o)  BY <2>4 DEF FetchZone, Step
  <2>5. CASE \E o \in Orders : RewriteZone(o)  BY <2>5 DEF RewriteZone, Step
  <2>6. CASE ClockTicks  BY <2>6 DEF ClockTicks
  <2>7. CASE UNCHANGED zoneVars  BY <2>7 DEF zoneVars
  <2> QED  BY <2>1, <2>2, <2>3, <2>4, <2>5, <2>6, <2>7 DEF ZoneNext
<1> QED  BY <1>2, <1>3, ZoneInductive, PTL DEF ZoneSpec, ZoneIInv
=============================================================================
