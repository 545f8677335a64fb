---------------------------- MODULE ChallengeZone --------------------------
(***************************************************************************)
(* internal/server/tls: certificates by DNS-01. Every name is an order of  *)
(* its own; all orders keep their token in the same _acme-challenge TXT    *)
(* RRset, which the Hostinger API only replaces or drops as a whole. The   *)
(* provider adds with one call and deletes with two, the latter under a    *)
(* mutex that the former does not take. Time is counted so that the answer *)
(* the certificate authority has cached goes stale where the code expects. *)
(***************************************************************************)
EXTENDS Integers, FiniteSets

CONSTANTS
  Orders,            \* certificate names, each with a token of the same name
  Foreign,           \* values that were in the RRset before
  MinTTL, MaxTTL,
  RequestTTL,        \* what certmagic asks for: zero
  PropagationDelay,  \* of the provider, in the same unit
  MaxClock           \* bound of the model

ASSUME ZoneAssumption ==
  /\ IsFiniteSet(Orders) /\ IsFiniteSet(Foreign) /\ Orders \cap Foreign = {}
  /\ MinTTL \in Nat /\ MaxTTL \in Nat /\ MinTTL <= MaxTTL /\ RequestTTL \in Nat
  /\ PropagationDelay \in Nat /\ MaxClock \in Nat

VARIABLES
  zone,      \* the contents of the RRset: [token, quotes, disabled]
  order,     \* [Orders -> OrderSteps]
  since,     \* when a token was appended
  fetched,   \* [Orders -> what fetchZone returned to DeleteRecords]
  crossed,   \* orders whose token was appended between such a fetch and the write
  cached,    \* the certificate authority's answer and until when it is used
  now,
  together   \* renewals run side by side; ManageSync takes one name at a time

(* "unseen": the authority did not find a token that was in the zone.      *)
OrderSteps == {"idle", "waiting", "valid", "unseen", "timeout", "deleting", "clean", "left"}

zoneVars == <<zone, order, since, fetched, crossed, cached, now, together>>

Values == Orders \cup Foreign

(* The API keeps a value in quotes and takes it without; an update carries *)
(* a content and nothing else, so what it writes is enabled.               *)
Content(token) == [token |-> token, quotes |-> 1, disabled |-> FALSE]
Quoted(c) == [token |-> c.token, quotes |-> c.quotes + 1, disabled |-> FALSE]
decodeContent(c) == [c EXCEPT !.quotes = IF @ > 0 THEN @ - 1 ELSE 0]
Plain(token) == [Content(token) EXCEPT !.quotes = 0]

(* Fault: a time to live that was not asked for is the maximum.            *)
clampTTLToMax(seconds) == IF seconds < MinTTL \/ seconds > MaxTTL THEN MaxTTL ELSE seconds

clampTTL(seconds) ==
  IF seconds < MinTTL THEN MinTTL ELSE IF seconds > MaxTTL THEN MaxTTL ELSE seconds

Served == {c.token : c \in {d \in zone : ~d.disabled}}

ZoneInit ==
  /\ zone \in {{[Content(f) EXCEPT !.disabled = off] : f \in Foreign} : off \in BOOLEAN}
  /\ order = [o \in Orders |-> "idle"] /\ since = [o \in Orders |-> 0]
  /\ fetched = [o \in Orders |-> {}] /\ crossed = {}
  /\ cached = [answer |-> {}, until |-> 0] /\ now = 0 /\ together \in BOOLEAN

Step(o, step) == order' = [order EXCEPT ![o] = step]
Over(o) == order[o] \in {"idle", "clean", "left"}

(* Fault: there is no mutex.                                               *)
MutexAlwaysFree == TRUE

(* p.mu, which DeleteRecords holds from its fetch to its last call.        *)
MutexFree == \A o \in Orders : order[o] # "deleting"

----------------------------------------------------------------------------
(* AppendRecords, as certmagic presents a challenge. A call may fail       *)
(* before or after the API has done what it asks for.                      *)
AppendRecords(o) ==
  /\ order[o] = "idle" /\ (together \/ \A p \in Orders : Over(p))
  /\ \E applied, ok \in BOOLEAN :
       /\ ok => applied
       /\ zone' = IF applied THEN zone \cup {Quoted(Plain(o))} ELSE zone
       /\ crossed' = IF applied /\ ~MutexFree THEN crossed \cup {o} ELSE crossed
       /\ Step(o, IF ok THEN "waiting" ELSE "left")
  /\ since' = [since EXCEPT ![o] = now]
  /\ UNCHANGED <<fetched, cached, now, together>>

(* certmagic waits for the provider's delay, sees the record, and the      *)
(* authority looks it up unless it has an answer that has not expired.     *)
Validate(o) ==
  LET fresh == cached.until <= now
      answer == IF fresh THEN Served ELSE cached.answer IN
  /\ order[o] = "waiting" /\ now >= since[o] + PropagationDelay /\ o \in Served
  /\ Step(o, IF o \in answer THEN "valid" ELSE "unseen")
  /\ cached' = IF fresh THEN [answer |-> Served, until |-> now + clampTTL(RequestTTL)] ELSE cached
  /\ UNCHANGED <<zone, since, fetched, crossed, now, together>>

TimesOut(o) ==
  /\ order[o] = "waiting" /\ now >= since[o] + PropagationDelay /\ o \notin Served
  /\ Step(o, "timeout")
  /\ UNCHANGED <<zone, since, fetched, crossed, cached, now, together>>

(* DeleteRecords takes the mutex and reads the zone, ...                   *)
FetchZone(o) ==
  /\ order[o] \in {"valid", "unseen", "timeout"} /\ MutexFree
  /\ \/ Step(o, "left") /\ UNCHANGED fetched
     \/ Step(o, "deleting") /\ fetched' = [fetched EXCEPT ![o] = zone]
  /\ UNCHANGED <<zone, since, crossed, cached, now, together>>

matchesAny(o, value) == value.token = o /\ value.quotes = 0

(* ... and replaces the RRset by the contents to keep, or drops it.        *)
RewriteZone(o) ==
  LET kept == {decodeContent(c) : c \in {d \in fetched[o] : ~matchesAny(o, decodeContent(d))}}
      matched == \E c \in fetched[o] : matchesAny(o, decodeContent(c)) IN
  /\ order[o] = "deleting"
  /\ \E applied, ok \in BOOLEAN :
       /\ ok => applied
       /\ zone' = IF applied /\ matched THEN {Quoted(c) : c \in kept} ELSE zone
       /\ Step(o, IF ok \/ ~matched THEN "clean" ELSE "left")
  /\ fetched' = [fetched EXCEPT ![o] = {}]
  /\ UNCHANGED <<since, crossed, cached, now, together>>

ClockTicks ==
  /\ now < MaxClock /\ now' = now + 1
  /\ UNCHANGED <<zone, order, since, fetched, crossed, cached, together>>

ZoneNext ==
  \/ ClockTicks
  \/ \E o \in Orders :
       AppendRecords(o) \/ Validate(o) \/ TimesOut(o) \/ FetchZone(o) \/ RewriteZone(o)

ZoneSpec == ZoneInit /\ [][ZoneNext]_zoneVars

----------------------------------------------------------------------------
(* The types.                                                              *)
ZoneTypeOK ==
  /\ zone \subseteq [token : Values, quotes : Nat, disabled : BOOLEAN]
  /\ order \in [Orders -> OrderSteps] /\ since \in [Orders -> 0..MaxClock]
  /\ crossed \subseteq Orders
  /\ fetched \in [Orders -> SUBSET [token : Values, quotes : Nat, disabled : BOOLEAN]]
  /\ now \in 0..MaxClock /\ together \in BOOLEAN

(* A token whose deletion came through is gone and no deletion of another  *)
(* order brings it back.                                                   *)
DeletedStaysDeleted ==
  \A o \in Orders, c \in zone : c.token = o => order[o] # "clean"

(* Everything else stays: a value that was there before, however many      *)
(* times it was read and written back, and the token of an order under     *)
(* way, unless it was appended while somebody else was between reading the *)
(* zone and writing it back. All of it is quoted exactly once.             *)
OthersKept ==
  /\ \A c \in zone : c.quotes = 1
  /\ \A f \in Foreign : \E c \in zone : c.token = f
  /\ \A o \in Orders \ crossed :
       order[o] \in {"waiting", "valid", "unseen"} => \E c \in zone : c.token = o

(* What deletions may do to the zone, and what they may not.               *)
ZoneKept == DeletedStaysDeleted /\ OthersKept

(* One name after the other, the authority never answers for a name from   *)
(* what it has cached for the one before.                                  *)
FreshAnswer == ~together => \A o \in Orders : order[o] # "unseen"
=============================================================================
