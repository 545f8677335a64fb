-------------------------- MODULE StreamForwarding -------------------------
(***************************************************************************)
(* internal/server/tcp/proxy.go with connection_group.go: public           *)
(* connections of a TCP tunnel, each over a stream of one of the tunnel's  *)
(* sessions. The handler of a connection waits for OpenStream in a         *)
(* goroutine of its own, and only so long; OpenStream picks the least      *)
(* loaded data session, the primary if there is none, and tries three      *)
(* times. Sessions break, join and are closed meanwhile, see               *)
(* ConnectionGroup. The HTTP proxy's openStream waits in the same way.     *)
(***************************************************************************)
EXTENDS ConnectionGroup

CONSTANTS
  Visitors,     \* public connections; one that is gone may come again
  MaxVisitors,  \* maxConcurrentConnections
  Cap,          \* maxStreamsPerSession
  MaxAttempts   \* maxRetries

ASSUME ForwardingAssumption ==
  /\ IsFiniteSet(Visitors) /\ None \notin Visitors
  /\ MaxVisitors \in Nat /\ Cap \in Nat /\ MaxAttempts \in Nat \ {0}

VARIABLES
  visitor,   \* [Visitors -> VisitorSteps]: Proxy.handleConn; "late" is its goroutine
             \* that waits for a stream nobody needs any more
  opener,    \* [Visitors -> OpenerSteps]: OpenStream
  attempt,   \* [Visitors -> 0 .. MaxAttempts]
  heap,      \* [Visitors -> candidates with their load when the heap was built]
  target,    \* [Visitors -> Ids or None]: the session OpenStream opens on
  stream,    \* [Visitors -> Ids or None]: the session of the visitor's stream
  roomy      \* history: data sessions with room since OpenStream was called

VisitorSteps == {"away", "waiting", "piping", "late"}
OpenerSteps == {"none", "choosing", "trying", "opening", "backoff", "answered"}

opening == <<opener, attempt, heap, target>>
vars == <<groupVars, visitor, opening, stream, roomy>>

Init ==
  /\ GroupInit
  /\ visitor = [v \in Visitors |-> "away"] /\ opener = [v \in Visitors |-> "none"]
  /\ attempt = [v \in Visitors |-> 0] /\ heap = [v \in Visitors |-> {}]
  /\ target = [v \in Visitors |-> None] /\ stream = [v \in Visitors |-> None]
  /\ roomy = [v \in Visitors |-> {}]

(* NumStreams                                                              *)
Load(d) == Cardinality({v \in Visitors : stream[v] = d})
HasRoom(d) == handler[d] = "serving" /\ Open(d) /\ Load(d) < Cap

----------------------------------------------------------------------------
(* acceptLoop and the start of handleConn; who finds no slot is dropped.   *)
Accept(v) ==
  /\ visitor[v] = "away" /\ opener[v] = "none"
  /\ handler[Primary] = "serving" /\ owner = "open"
  /\ Cardinality({u \in Visitors : visitor[u] \in {"waiting", "piping"}}) < MaxVisitors
  /\ visitor' = [visitor EXCEPT ![v] = "waiting"]
  /\ opener' = [opener EXCEPT ![v] = "choosing"]
  /\ attempt' = [attempt EXCEPT ![v] = 1]
  /\ UNCHANGED <<groupVars, heap, target, stream>>

Goes(v, step) == opener' = [opener EXCEPT ![v] = step]

(* buildSessionHeap                                                        *)
Candidates ==
  LET live == {d \in held : Open(d)} IN
  IF live \ {Primary} # {} THEN live \ {Primary} ELSE live

Choose(v) ==
  /\ opener[v] = "choosing"
  /\ IF stopped \/ Candidates = {} THEN Goes(v, "answered") /\ UNCHANGED heap
     ELSE /\ heap' = [heap EXCEPT ![v] = {[id |-> d, load |-> Load(d)] : d \in Candidates}]
          /\ Goes(v, "trying")
  /\ UNCHANGED <<groupVars, visitor, attempt, target, stream>>

(* Fault: one session that refuses ends the attempt.                       *)
TryFirst(v) ==
  /\ opener[v] = "trying"
  /\ \E entry \in heap[v] :
       /\ \A other \in heap[v] : entry.load <= other.load
       /\ IF Open(entry.id) /\ Load(entry.id) < Cap
          THEN /\ heap' = [heap EXCEPT ![v] = @ \ {entry}]
               /\ target' = [target EXCEPT ![v] = entry.id] /\ Goes(v, "opening")
          ELSE heap' = [heap EXCEPT ![v] = {}] /\ UNCHANGED <<target, opener>>
  /\ UNCHANGED <<groupVars, visitor, attempt, stream>>

(* The heap's minimum, if it is still open and has room by now.            *)
Try(v) ==
  /\ opener[v] = "trying"
  /\ \E entry \in heap[v] :
       /\ \A other \in heap[v] : entry.load <= other.load
       /\ heap' = [heap EXCEPT ![v] = @ \ {entry}]
       /\ IF Open(entry.id) /\ Load(entry.id) < Cap
          THEN target' = [target EXCEPT ![v] = entry.id] /\ Goes(v, "opening")
          ELSE UNCHANGED <<target, opener>>
  /\ UNCHANGED <<groupVars, visitor, attempt, stream>>

(* The heap is used up: wait a little, or give up.                         *)
Exhausted(v) ==
  /\ opener[v] = "trying" /\ heap[v] = {}
  /\ IF attempt[v] < MaxAttempts
     THEN attempt' = [attempt EXCEPT ![v] = @ + 1] /\ Goes(v, "backoff")
     ELSE Goes(v, "answered") /\ UNCHANGED attempt
  /\ UNCHANGED <<groupVars, visitor, heap, target, stream>>

Resume(v) ==
  /\ opener[v] = "backoff"
  /\ \/ Goes(v, "choosing")
     \/ stopped /\ Goes(v, "answered")
  /\ UNCHANGED <<groupVars, visitor, attempt, heap, target, stream>>

OpenSucceeds(v) ==
  /\ opener[v] = "opening" /\ Open(target[v])
  /\ stream' = [stream EXCEPT ![v] = target[v]]
  /\ Goes(v, "answered")
  /\ target' = [target EXCEPT ![v] = None] /\ heap' = [heap EXCEPT ![v] = {}]
  /\ UNCHANGED <<groupVars, visitor, attempt>>

(* Open fails, with the session closed or not; deleteClosedSessions.       *)
OpenFails(v) ==
  /\ opener[v] = "opening"
  /\ held' = IF Open(target[v]) THEN held ELSE {d \in held : Open(d)}
  /\ Goes(v, "trying") /\ target' = [target EXCEPT ![v] = None]
  /\ UNCHANGED <<peers, stopped, listed, quiet, closers, pings, beats, visitor, attempt, heap,
                 stream>>

----------------------------------------------------------------------------
Answered(v) == Goes(v, "none") /\ attempt' = [attempt EXCEPT ![v] = 0] /\ UNCHANGED <<heap, target>>

(* handleConn takes the result ...                                         *)
Take(v) ==
  /\ visitor[v] = "waiting" /\ opener[v] = "answered" /\ Answered(v)
  /\ visitor' = [visitor EXCEPT ![v] = IF stream[v] = None THEN "away" ELSE "piping"]
  /\ UNCHANGED <<groupVars, stream>>

(* Fault: nobody waits for the stream of a visitor that has left.          *)
GiveUpUndrained(v) ==
  /\ visitor[v] = "waiting" /\ visitor' = [visitor EXCEPT ![v] = "away"]
  /\ UNCHANGED <<groupVars, opening, stream>>

(* ... or leaves, after three seconds or because the proxy stops, and      *)
(* somebody else waits for the stream ...                                  *)
GiveUp(v) ==
  /\ visitor[v] = "waiting" /\ visitor' = [visitor EXCEPT ![v] = "late"]
  /\ UNCHANGED <<groupVars, opening, stream>>

(* ... to close it.                                                        *)
DrainLate(v) ==
  /\ visitor[v] = "late" /\ opener[v] = "answered" /\ Answered(v)
  /\ visitor' = [visitor EXCEPT ![v] = "away"]
  /\ stream' = [stream EXCEPT ![v] = None]
  /\ UNCHANGED groupVars

(* Either side ends, the session does, or the proxy's context is cancelled.*)
PipeEnds(v) ==
  /\ visitor[v] = "piping"
  /\ visitor' = [visitor EXCEPT ![v] = "away"]
  /\ stream' = [stream EXCEPT ![v] = None]
  /\ UNCHANGED <<groupVars, opening>>

----------------------------------------------------------------------------
OpenStream(v) ==
  Choose(v) \/ Try(v) \/ Exhausted(v) \/ Resume(v) \/ OpenSucceeds(v) \/ OpenFails(v)
Visit(v) == Accept(v) \/ Take(v) \/ GiveUp(v) \/ DrainLate(v) \/ PipeEnds(v)

(* Room that was there all the time of a call, on a session that never     *)
(* refused it a stream.                                                    *)
KeepRoom ==
  roomy' = [v \in Visitors |->
    IF opener'[v] \in {"none", "answered"} THEN {}
    ELSE {d \in IF opener[v] = "none" THEN Data ELSE roomy[v] :
            HasRoom(d)' /\ ~(opener[v] = "opening" /\ opener'[v] = "trying" /\ target[v] = d)}]

(* A visit is short beside an interval of heartbeats, and whatever else    *)
(* removes a session does no more to it than Break and Leave.              *)
Next ==
  /\ \/ (SessionStep \/ CloseStep) /\ UNCHANGED <<visitor, opening, stream>>
     \/ \E v \in Visitors : OpenStream(v) \/ Visit(v)
  /\ KeepRoom

Spec == Init /\ [][Next]_vars

----------------------------------------------------------------------------
(* Types, and which step of a visit holds what: who pipes has a stream and *)
(* who is away nothing, OpenStream being over for both.                    *)
TypeOK ==
  \A v \in Visitors :
    /\ visitor[v] \in VisitorSteps /\ opener[v] \in OpenerSteps
    /\ attempt[v] \in 0 .. MaxAttempts /\ {entry.id : entry \in heap[v]} \subseteq Ids
    /\ (visitor[v] = "piping") => (stream[v] \in Ids /\ opener[v] = "none")
    /\ visitor[v] = "away" => opener[v] = "none"
    /\ target[v] # None <=> opener[v] = "opening"

(* OpenStream does not give up while a data session has had room all the   *)
(* time and never refused: full, broken and closing sessions beside it do  *)
(* not matter.                                                             *)
FindsRoom ==
  [][\A v \in Visitors :
       (opener[v] # "answered" /\ opener'[v] = "answered" /\ stream'[v] = None /\ ~stopped)
         => roomy[v] = {}]_vars

(* A stream is never nobody's, whenever OpenStream returns with it: its    *)
(* visitor pipes or will take it, or somebody waits for it to close it.    *)
NoOrphanStream ==
  \A v \in Visitors :
    stream[v] # None => \/ visitor[v] = "piping"
                        \/ visitor[v] \in {"waiting", "late"} /\ opener[v] = "answered"
=============================================================================
