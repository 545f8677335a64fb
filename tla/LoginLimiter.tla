---------------------------- MODULE LoginLimiter ---------------------------
(***************************************************************************)
(* internal/server/admin: signing in to the panel. The limiter counts      *)
(* failures per address and per user name. Passwords are hashed slowly and *)
(* without a lock: an attempt is let in on a count that may be out of date *)
(* when it fails, in a window that may be over. Time is kept as ages.      *)
(***************************************************************************)
EXTENDS Integers, FiniteSets

CONSTANTS
  Attempts,           \* requests of handleLogin that may run at once
  Addresses, Users,
  MaxFails, Window    \* newLoginLimiter's arguments

ASSUME LimiterAssumption ==
  /\ IsFiniteSet(Attempts) /\ Addresses \cap Users = {}
  /\ MaxFails \in Nat \ {0} /\ Window \in Nat

Keys == Addresses \cup Users
Ages == 0..(Window + 1)    \* Window + 1 stands for everything older

VARIABLES
  record,    \* [Keys -> [count, age]]: attempts; an entry that is not there has lapsed
  attempt,   \* [Attempts -> SUBSET Keys]: the address and name being tried, or {}
  failures   \* failures[k][n]: those n ticks ago, since the last success

limiterVars == <<record, attempt, failures>>

NoEntry == [count |-> 0, age |-> Window + 1]
NoFailures == [n \in 0..Window |-> 0]

LimiterInit ==
  /\ record = [k \in Keys |-> NoEntry]
  /\ attempt = [a \in Attempts |-> {}]
  /\ failures = [k \in Keys |-> NoFailures]

Lapsed(k) == record[k].age > Window

----------------------------------------------------------------------------
(* loginLimiter                                                            *)
allow(k) == Lapsed(k) \/ record[k].count < MaxFails

fail(ks) ==
  /\ record' = [k \in Keys |->
       IF k \notin ks THEN record[k]
       ELSE IF Lapsed(k) THEN [count |-> 1, age |-> 0]
       ELSE [record[k] EXCEPT !.count = @ + 1]]
  /\ failures' = [k \in Keys |->
       IF k \in ks THEN [failures[k] EXCEPT ![0] = @ + 1] ELSE failures[k]]

succeed(ks) ==
  /\ record' = [k \in Keys |-> IF k \in ks THEN NoEntry ELSE record[k]]
  /\ failures' = [k \in Keys |-> IF k \in ks THEN NoFailures ELSE failures[k]]

(* handleLogin up to the password hash; a request that is refused ends.    *)
LoginBegins(a) ==
  /\ attempt[a] = {}
  /\ \E i \in Addresses, u \in Users :
       allow(i) /\ allow(u) /\ attempt' = [attempt EXCEPT ![a] = {i, u}]
  /\ UNCHANGED <<record, failures>>

LoginEnds(a) == attempt[a] # {} /\ attempt' = [attempt EXCEPT ![a] = {}]

(* No such user, wrong password or disabled: all of them are failures.     *)
failLogin(a) == LoginEnds(a) /\ fail(attempt[a])

LoginSucceeds(a) == LoginEnds(a) /\ succeed(attempt[a])

(* Fault: everything is dropped.                                           *)
purgeAll ==
  /\ record' = [k \in Keys |-> NoEntry]
  /\ UNCHANGED <<attempt, failures>>

(* purgeLoop drops what has lapsed.                                        *)
purge ==
  /\ record' = [k \in Keys |-> IF Lapsed(k) THEN NoEntry ELSE record[k]]
  /\ UNCHANGED <<attempt, failures>>

TimePasses ==
  /\ record' = [k \in Keys |-> [record[k] EXCEPT !.age = IF @ > Window THEN @ ELSE @ + 1]]
  /\ failures' = [k \in Keys |-> [n \in 0..Window |-> IF n = 0 THEN 0 ELSE failures[k][n - 1]]]
  /\ UNCHANGED attempt

LimiterNext ==
  \/ \E a \in Attempts : LoginBegins(a) \/ failLogin(a) \/ LoginSucceeds(a)
  \/ purge \/ TimePasses

LimiterSpec == LimiterInit /\ [][LimiterNext]_limiterVars

----------------------------------------------------------------------------
(* The types.                                                              *)
LimiterTypeOK ==
  /\ record \in [Keys -> [count : Nat, age : Ages]]
  /\ attempt \in [Attempts -> SUBSET Keys]
  /\ failures \in [Keys -> [0..Window -> Nat]]

(* The failures of the time of one window, each with its age and a number. *)
Failed(k) == UNION {{n} \X (1..failures[k][n]) : n \in 0..Window}

(* Whatever the purge drops and wherever windows begin, the time of one    *)
(* window never sees more failures than two windows allow.                 *)
GuessesBounded ==
  \A k \in Keys : Cardinality(Failed(k)) <= 2 * (MaxFails - 1 + Cardinality(Attempts))
=============================================================================
