----------------------------- MODULE AdminSetup ----------------------------
(***************************************************************************)
(* internal/server/admin: the first administrator and the sessions of the  *)
(* panel. First-run setup counts the administrators, hashes the password   *)
(* and inserts a row, three steps that another setup may fall between. The *)
(* panel has its own address and, when it is mounted on the public one, a  *)
(* gate in front of it, which remembers that the setup is over.            *)
(***************************************************************************)
EXTENDS FiniteSets

CONSTANTS
  Setups,      \* requests to handleBootstrap
  Usernames,
  Tokens,      \* session cookies; each is drawn once
  Nobody

ASSUME SetupAssumption == IsFiniteSet(Setups) /\ Nobody \notin Usernames

VARIABLES
  users,         \* admin_users: the names, which are unique
  setup,         \* [Setups -> [step : SetupSteps, name : the administrator it created]]
  beside,        \* beside[b]: the setups that were under way while b was
  bootstrapped,  \* the gate's latch
  cookie,        \* [Tokens -> [owner, state]]: admin_sessions and the browsers
  passed         \* something has passed the public gate

SetupSteps == {"idle", "hashing", "created", "done", "refused"}
CookieStates == {"unused", "valid", "expired", "gone"}

setupVars == <<users, setup, beside, bootstrapped, cookie, passed>>

SetupInit ==
  /\ users = {} /\ setup = [b \in Setups |-> [step |-> "idle", name |-> Nobody]] /\ beside = [b \in Setups |-> {}]
  /\ bootstrapped = FALSE /\ passed = FALSE
  /\ cookie = [t \in Tokens |-> [owner |-> Nobody, state |-> "unused"]]

UnderWay(b) == setup[b].step \in {"hashing", "created"}
Goes(b, step) == setup' = [setup EXCEPT ![b].step = step]

----------------------------------------------------------------------------
(* Fault: the gate's latch stands for the count.                           *)
CountAdminUsersLatched(b) ==
  /\ setup[b].step = "idle"
  /\ \E fails \in BOOLEAN : Goes(b, IF fails \/ bootstrapped THEN "refused" ELSE "hashing")
  /\ beside' = [c \in Setups |->
       IF c = b THEN {d \in Setups : UnderWay(d)}
       ELSE IF UnderWay(c) THEN beside[c] \cup {b} ELSE beside[c]]
  /\ UNCHANGED <<users, bootstrapped, cookie, passed>>

(* handleBootstrap counts the administrators, and hashes the password.     *)
CountAdminUsers(b) ==
  /\ setup[b].step = "idle"
  /\ \E fails \in BOOLEAN : Goes(b, IF fails \/ users # {} THEN "refused" ELSE "hashing")
  /\ beside' = [c \in Setups |->
       IF c = b THEN {d \in Setups : UnderWay(d)}
       ELSE IF UnderWay(c) THEN beside[c] \cup {b} ELSE beside[c]]
  /\ UNCHANGED <<users, bootstrapped, cookie, passed>>

(* The insert fails on a name that is taken, and for its own reasons.      *)
CreateAdminUser(b) ==
  /\ setup[b].step = "hashing"
  /\ \/ \E n \in Usernames \ users :
          /\ users' = users \cup {n}
          /\ setup' = [setup EXCEPT ![b] = [step |-> "created", name |-> n]]
     \/ Goes(b, "refused") /\ UNCHANGED users
  /\ UNCHANGED <<beside, bootstrapped, cookie, passed>>

(* For the operator that signed in or was just created; the row is written *)
(* before the browser hears of it.                                         *)
issueSession(u) ==
  \E t \in Tokens :
    cookie[t].state = "unused" /\ cookie' = [cookie EXCEPT ![t] = [owner |-> u, state |-> "valid"]]

SetupSignsIn(b) ==
  /\ setup[b].step = "created" /\ Goes(b, "done")
  /\ issueSession(setup[b].name) \/ UNCHANGED cookie
  /\ UNCHANGED <<users, beside, bootstrapped, passed>>

(* The end of a handleLogin with the right password.                       *)
SignIn ==
  /\ \E u \in users : issueSession(u)
  /\ UNCHANGED <<users, setup, beside, bootstrapped, passed>>

CookieEnds(t, state) == cookie' = [cookie EXCEPT ![t].state = state]

handleLogout(t) ==
  /\ cookie[t].state = "valid" /\ CookieEnds(t, "gone")
  /\ UNCHANGED <<users, setup, beside, bootstrapped, passed>>

Expire(t) ==
  /\ cookie[t].state = "valid" /\ CookieEnds(t, "expired")
  /\ UNCHANGED <<users, setup, beside, bootstrapped, passed>>

PurgeExpiredAdminSessions ==
  /\ cookie' = [t \in Tokens |->
       IF cookie[t].state = "expired" THEN [cookie[t] EXCEPT !.state = "gone"] ELSE cookie[t]]
  /\ UNCHANGED <<users, setup, beside, bootstrapped, passed>>

(* currentUser: the row is there, not past its expiry, and so is its owner. *)
currentUser(t) == cookie[t].state = "valid" /\ cookie[t].owner \in users

----------------------------------------------------------------------------
(* hasAdministrator; a count that fails reads as "not set up yet". The     *)
(* public mount lets everything through after it, but for setup itself.    *)
PublicRequest ==
  /\ \E fails \in BOOLEAN :
       LET open == bootstrapped \/ (~fails /\ users # {}) IN
       bootstrapped' = open /\ passed' = (passed \/ open)
  /\ UNCHANGED <<users, setup, beside, cookie>>

(* The process ends and starts again: the rows stay.                       *)
RestartPanel ==
  /\ bootstrapped' = FALSE
  /\ setup' = [b \in Setups |-> IF UnderWay(b) THEN [setup[b] EXCEPT !.step = "refused"] ELSE setup[b]]
  /\ UNCHANGED <<users, beside, cookie, passed>>

SetupNext ==
  \/ \E b \in Setups : CountAdminUsers(b) \/ CreateAdminUser(b) \/ SetupSignsIn(b)
  \/ SignIn \/ \E t \in Tokens : handleLogout(t) \/ Expire(t)
  \/ PurgeExpiredAdminSessions \/ PublicRequest \/ RestartPanel

SetupSpec == SetupInit /\ [][SetupNext]_setupVars

----------------------------------------------------------------------------
(* First-run setup is open until there is an administrator and no longer:  *)
(* two that both create one were under way together, whatever restarted in *)
(* between, and nothing passes the public gate or is signed in before      *)
(* there is one.                                                           *)
OneSetup ==
  /\ \A b, c \in Setups :
       b # c /\ setup[b].name # Nobody /\ setup[c].name # Nobody =>
         b \in beside[c] \/ c \in beside[b]
  /\ users = {} => ~bootstrapped /\ ~passed /\ \A t \in Tokens : ~currentUser(t)
=============================================================================
