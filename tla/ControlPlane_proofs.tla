------------------------ MODULE ControlPlane_proofs -------------------------
(***************************************************************************)
(* Who may administer the server, and what becomes of the credentials and  *)
(* names it gives out: AdminSetup for any number of setups, Provisioning   *)
(* for any number of operators, credentials and names, LoginLimiter for    *)
(* any number of keys, of attempts at once and of failures allowed.        *)
(***************************************************************************)
EXTENDS AdminSetup, Provisioning, LoginLimiter, FiniteSetTheorems, TLAPS

SetupTypeOK ==
  /\ users \subseteq Usernames
  /\ setup \in [Setups -> [step : SetupSteps, name : Usernames \cup {Nobody}]]
  /\ beside \in [Setups -> SUBSET Setups]
  /\ bootstrapped \in BOOLEAN /\ passed \in BOOLEAN
  /\ cookie \in [Tokens -> [owner : Usernames \cup {Nobody}, state : CookieStates]]

Beside(b, c) == b \in beside[c] \/ c \in beside[b]

(* Two setups that are both between their count and their insert, or one   *)
(* that is and one that has inserted, were under way together: the later   *)
(* count would have seen the row.                                          *)
CountedTogether ==
  \A b, c \in Setups :
    b # c /\ setup[b].step = "hashing" /\ (UnderWay(c) \/ setup[c].name # Nobody) => Beside(b, c)

CreatedTogether ==
  \A b, c \in Setups : b # c /\ setup[b].name # Nobody /\ setup[c].name # Nobody => Beside(b, c)

(* A setup has created the administrator it names, and has no name before. *)
NamesItsOwn ==
  \A b \in Setups :
    /\ setup[b].name # Nobody => setup[b].name \in users
    /\ setup[b].step \in {"idle", "hashing"} => setup[b].name = Nobody

ClosedUntilThen == users = {} => ~bootstrapped /\ ~passed

SetupIInv == SetupTypeOK /\ CountedTogether /\ CreatedTogether /\ NamesItsOwn /\ ClosedUntilThen

(* A setup's count relates it to every setup under way; one that created   *)
(* an administrator before is why the count refuses.                       *)
LEMMA CountKeeps ==
  ASSUME SetupIInv, NEW b \in Setups, CountAdminUsers(b) PROVE SetupIInv'
<1> USE DEF SetupIInv, Goes, SetupSteps
<1>1. PICK fails \in BOOLEAN :
        setup' = [setup EXCEPT ![b].step = IF fails \/ users # {} THEN "refused" ELSE "hashing"]
  BY DEF CountAdminUsers
<1>2. /\ setup[b].step = "idle" /\ UNCHANGED <<users, bootstrapped, cookie, passed>>
      /\ beside' = [c \in Setups |->
           IF c = b THEN {d \in Setups : UnderWay(d)}
           ELSE IF UnderWay(c) THEN beside[c] \cup {b} ELSE beside[c]]
  BY DEF CountAdminUsers
<1>3. SetupTypeOK'
  BY <1>1, <1>2 DEF SetupTypeOK
<1>4. ASSUME NEW c \in Setups, NEW d \in Setups, c # b, d # b, Beside(c, d) PROVE Beside(c, d)'
  BY <1>2, <1>4 DEF Beside
<1>5. \A c \in Setups : setup'[c].name = setup[c].name /\ (c # b => setup'[c] = setup[c])
  BY <1>1 DEF SetupTypeOK
<1>6. \A c \in Setups \ {b} : UnderWay(c)' <=> UnderWay(c)
  BY <1>5 DEF UnderWay
<1>7. \A c \in Setups \ {b} : UnderWay(c) => Beside(b, c)' /\ Beside(c, b)'
  BY <1>2 DEF Beside
<1>8. setup'[b].step = "hashing" => users = {}
  BY <1>1 DEF SetupTypeOK
<1>9. CountedTogether'
  BY <1>4, <1>5, <1>6, <1>7, <1>8 DEF CountedTogether, NamesItsOwn, UnderWay
<1>10. CreatedTogether'
  BY <1>2, <1>4, <1>5 DEF CreatedTogether, NamesItsOwn
<1>11. NamesItsOwn' /\ ClosedUntilThen'
  BY <1>2, <1>5 DEF NamesItsOwn, ClosedUntilThen
<1> QED
  BY <1>3, <1>9, <1>10, <1>11

(* Whoever creates an administrator was between count and insert, and so   *)
(* beside all who had created one.                                         *)
LEMMA CreateKeeps ==
  ASSUME SetupIInv, NEW b \in Setups, CreateAdminUser(b) PROVE SetupIInv'
<1> USE DEF SetupIInv, SetupSteps
<1>1. setup[b].step = "hashing" /\ UNCHANGED <<beside, bootstrapped, cookie, passed>>
  BY DEF CreateAdminUser
<1>2. CASE Goes(b, "refused") /\ UNCHANGED users
  <2>1. \A c \in Setups : setup'[c].name = setup[c].name /\ (UnderWay(c)' => UnderWay(c))
    BY <1>2 DEF Goes, UnderWay, SetupTypeOK
  <2> QED
    BY <1>1, <1>2, <2>1 DEF Goes, UnderWay, SetupTypeOK, CountedTogether, CreatedTogether,
       NamesItsOwn, ClosedUntilThen, Beside
<1>3. CASE \E n \in Usernames \ users :
             users' = users \cup {n} /\ setup' = [setup EXCEPT ![b] = [step |-> "created", name |-> n]]
  <2>1. PICK n \in Usernames \ users :
          users' = users \cup {n} /\ setup' = [setup EXCEPT ![b] = [step |-> "created", name |-> n]]
    BY <1>3
  <2>2. \A c \in Setups \ {b} : setup'[c] = setup[c] /\ (UnderWay(c)' <=> UnderWay(c))
    BY <2>1 DEF SetupTypeOK, UnderWay
  <2>3. setup'[b].step = "created" /\ setup'[b].name = n /\ UnderWay(b)
    BY <1>1, <2>1 DEF SetupTypeOK, UnderWay
  <2>4. SetupTypeOK'
    BY <1>1, <2>1 DEF SetupTypeOK
  <2>5. CountedTogether' /\ CreatedTogether'
    BY <1>1, <2>2, <2>3 DEF CountedTogether, CreatedTogether, Beside
  <2>6. NamesItsOwn' /\ ClosedUntilThen'
    BY <1>1, <2>1, <2>2, <2>3 DEF NamesItsOwn, ClosedUntilThen
  <2> QED
    BY <2>4, <2>5, <2>6
<1> QED
  BY <1>2, <1>3 DEF CreateAdminUser

(* A session changes no setup but the one that it ends.                    *)
LEMMA SessionsKeep ==
  ASSUME SetupIInv, NEW u \in Usernames \cup {Nobody}, issueSession(u) \/ UNCHANGED cookie
  PROVE  cookie' \in [Tokens -> [owner : Usernames \cup {Nobody}, state : CookieStates]]
BY DEF SetupIInv, SetupTypeOK, issueSession, CookieStates

(* Every step keeps SetupIInv.                                                  *)
LEMMA SetupStepKeeps == SetupIInv /\ [SetupNext]_setupVars => SetupIInv'
<1> SUFFICES ASSUME SetupIInv, [SetupNext]_setupVars PROVE SetupIInv'
  OBVIOUS
<1> USE DEF SetupIInv
<1> DEFINE Rest == UNCHANGED <<users, setup, beside, bootstrapped, passed>>
<1>1. ASSUME Rest, cookie' \in [Tokens -> [owner : Usernames \cup {Nobody}, state : CookieStates]]
      PROVE  SetupIInv'
  BY <1>1 DEF SetupTypeOK, CountedTogether, CreatedTogether, NamesItsOwn, ClosedUntilThen, Beside,
     UnderWay
<1>2. ASSUME NEW b \in Setups, CountAdminUsers(b) PROVE SetupIInv'
  BY <1>2, CountKeeps
<1>3. ASSUME NEW b \in Setups, CreateAdminUser(b) PROVE SetupIInv'
  BY <1>3, CreateKeeps
<1>4. ASSUME NEW b \in Setups, SetupSignsIn(b) PROVE SetupIInv'
  <2>1. setup[b].name \in Usernames \cup {Nobody}
    BY DEF SetupTypeOK
  <2>2. cookie' \in [Tokens -> [owner : Usernames \cup {Nobody}, state : CookieStates]]
    BY <1>4, <2>1, SessionsKeep DEF SetupSignsIn
  <2>3. \A c \in Setups : setup'[c].name = setup[c].name /\ (UnderWay(c)' => UnderWay(c))
                          /\ (setup'[c].step \in {"idle", "hashing"} => setup'[c] = setup[c])
    BY <1>4 DEF SetupSignsIn, Goes, SetupTypeOK, UnderWay
  <2> QED
    BY <1>4, <2>2, <2>3 DEF SetupSignsIn, Goes, SetupTypeOK, SetupSteps, CountedTogether,
       CreatedTogether, NamesItsOwn, ClosedUntilThen, Beside
<1>5. CASE SignIn
  BY <1>1, <1>5, SessionsKeep DEF SignIn, SetupTypeOK
<1>6. ASSUME NEW t \in Tokens, handleLogout(t) \/ Expire(t) PROVE SetupIInv'
  BY <1>1, <1>6 DEF handleLogout, Expire, CookieEnds, SetupTypeOK, CookieStates
<1>7. CASE PurgeExpiredAdminSessions
  BY <1>1, <1>7 DEF PurgeExpiredAdminSessions, SetupTypeOK, CookieStates
<1>8. CASE PublicRequest
  BY <1>8 DEF PublicRequest, SetupTypeOK, CountedTogether, CreatedTogether, NamesItsOwn,
     ClosedUntilThen, Beside, UnderWay
<1>9. CASE RestartPanel
  <2>1. \A c \in Setups : setup'[c].name = setup[c].name /\ ~UnderWay(c)'
                          /\ (setup'[c].step \in {"idle", "hashing"} => setup'[c] = setup[c])
    BY <1>9 DEF RestartPanel, SetupTypeOK, UnderWay
  <2>2. SetupTypeOK'
    BY <1>9 DEF RestartPanel, SetupTypeOK, SetupSteps
  <2> QED
    BY <1>9, <2>1, <2>2 DEF RestartPanel, CountedTogether, CreatedTogether, NamesItsOwn,
       ClosedUntilThen, Beside, UnderWay
<1>10. CASE UNCHANGED setupVars
  BY <1>1, <1>10 DEF setupVars, SetupTypeOK
<1> QED
  BY <1>2, <1>3, <1>4, <1>5, <1>6, <1>7, <1>8, <1>9, <1>10 DEF SetupNext

(* SetupIInv is an invariant of the first-run setup and the panel's sessions.   *)
THEOREM SetupInductive == SetupSpec => []SetupIInv
<1>1. SetupInit => SetupIInv
  <2>1. SetupInit => SetupTypeOK
    <3> SUFFICES ASSUME SetupInit PROVE SetupTypeOK
      OBVIOUS
    <3>1. setup \in [Setups -> [step : SetupSteps, name : Usernames \cup {Nobody}]]
      BY DEF SetupInit, SetupSteps
    <3>2. beside \in [Setups -> SUBSET Setups]
      BY Zenon DEF SetupInit
    <3>3. cookie \in [Tokens -> [owner : Usernames \cup {Nobody}, state : CookieStates]]
      BY DEF SetupInit, CookieStates
    <3> QED
      BY <3>1, <3>2, <3>3 DEF SetupInit, SetupTypeOK
  <2>2. SetupInit => \A b \in Setups : setup[b].step = "idle" /\ setup[b].name = Nobody
    BY DEF SetupInit
  <2>3. SetupInit => CountedTogether /\ CreatedTogether /\ NamesItsOwn
    BY <2>2 DEF CountedTogether, CreatedTogether, NamesItsOwn
  <2> QED
    BY <2>1, <2>3 DEF SetupInit, ClosedUntilThen, SetupIInv
<1> QED
  BY <1>1, SetupStepKeeps, PTL DEF SetupSpec

(* Two setups that both create an administrator were under way together,   *)
(* and before there is one nothing passes the gate or is signed in.        *)
THEOREM OneSetupCorrect == SetupSpec => []OneSetup
<1>1. SetupIInv => OneSetup
  BY DEF SetupIInv, CreatedTogether, Beside, ClosedUntilThen, OneSetup, currentUser
<1> QED
  BY <1>1, SetupInductive, PTL

----------------------------------------------------------------------------
(* Provisioning.                                                           *)
Stages == [at : Jobs, client : Clients \cup {NoClient}, name : Names \cup {NoRow},
           copy : ClientRows \cup ReservationRows \cup [account : Accounts] \cup {NoRow}]

TypeOK ==
  /\ client \in [Clients -> ClientRows \cup {NoRow}]
  /\ reservation \in [Names -> ReservationRows \cup {NoRow}] /\ rows \in Nat
  /\ work \in [Operators -> Stages] /\ overlap \in [Operators -> SUBSET Operators]
  /\ inForce \in [Clients -> Nat \cup {NoRow}] /\ used \subseteq Clients
  /\ told \in [Names -> SUBSET Operators]

(* What the tables say: of a credential, that it was made once; of an      *)
(* allocation, that its number is one that was given out.                  *)
Tables ==
  /\ \A c \in Clients : Exists(c) => c \in used
  /\ \A n \in Names : reservation[n] # NoRow => reservation[n].id < rows

(* A copy belongs to the row it was read from, whatever became of both.    *)
Of(row, copy) == row # NoRow /\ row.id = copy.id => row.account = copy.account
OwnedBy(c, a) == c \in used /\ (Exists(c) => client[c].account = a)

Fits(w) ==
  LET j == work[w] IN
  /\ j.at \in {"edit", "rotate"} => j.client \in Clients
  /\ j.at = "edit" => j.copy \in ClientRows
  /\ j.at \in {"bind", "toggle", "adopt"} =>
       /\ j.name \in Names /\ j.copy \in ReservationRows /\ j.copy.id < rows
       /\ Of(reservation[j.name], j.copy)
       /\ j.copy.bound # NoClient => OwnedBy(j.copy.bound, j.copy.account)
  /\ j.at \in {"lookup", "insert"} =>
       /\ j.name \in Names /\ j.copy \in [account : Accounts] /\ OwnedBy(j.client, j.copy.account)
  /\ j.at = "adopt" => j.client \in Clients /\ j.copy.bound = j.client

(* StaleWritesHarmless, in two parts.                                      *)
Secrets == \A c \in Clients : inForce[c] = IF Exists(c) THEN client[c].secret ELSE NoRow
Owners ==
  \A n \in Names :
    reservation[n] # NoRow /\ reservation[n].bound # NoClient =>
      Exists(reservation[n].bound) /\ client[reservation[n].bound].account = reservation[n].account

Together ==
  \A v, w \in Operators : v # w /\ Working(v) /\ Working(w) => Overlapped(v, w)

(* Whoever was told, and whoever is about to write over it.                *)
ToldOK ==
  \A n \in Names :
    /\ \A v \in told[n] : work[v].at = "done" /\ work[v].client \in Clients
    /\ told[n] # {} =>
         reservation[n] # NoRow /\ \E u \in told[n] : work[u].client = reservation[n].bound
    /\ \A v \in told[n], w \in Operators :
         v # w /\ work[w].at = "adopt" /\ work[w].name = n => Overlapped(v, w)

IInv ==
  /\ TypeOK /\ Tables /\ Secrets /\ Owners /\ (\A w \in Operators : Fits(w))
  /\ Together /\ ToldOK /\ ToldApart

----------------------------------------------------------------------------
(* What a step may do to the tables so that every copy still belongs:      *)
(* credentials and allocations change hands by being made anew.            *)
Moves ==
  /\ rows' \in Nat /\ rows <= rows' /\ used \subseteq used'
  /\ \A c \in used : client'[c] # NoRow => Exists(c) /\ client'[c].account = client[c].account
  /\ \A n \in Names : reservation'[n] # NoRow =>
       \/ reservation[n] # NoRow /\ reservation'[n].id = reservation[n].id
            /\ reservation'[n].account = reservation[n].account
       \/ reservation'[n].id >= rows

LEMMA FitsStays ==
  ASSUME TypeOK, Moves, NEW w \in Operators, Fits(w), work'[w] = work[w] PROVE Fits(w)'
<1> DEFINE j == work[w]
<1>1. ASSUME NEW c, NEW a, OwnedBy(c, a) PROVE OwnedBy(c, a)'
  BY <1>1 DEF OwnedBy, Moves, Exists
<1>2. ASSUME NEW n \in Names, NEW copy \in ReservationRows, copy.id < rows, Of(reservation[n], copy)
      PROVE  Of(reservation'[n], copy) /\ copy.id < rows'
  BY <1>2 DEF Of, Moves, TypeOK, ReservationRows
<1> QED
  BY <1>1, <1>2 DEF Fits

(* What a step of one operator does to who was beside whom.                *)
LEMMA StartsTogether ==
  ASSUME IInv, NEW w \in Operators, NEW job \in Stages, Starts(w, job)
  PROVE  /\ work' \in [Operators -> Stages] /\ overlap' \in [Operators -> SUBSET Operators]
         /\ work[w].at = "idle" /\ work'[w] = job
         /\ \A u \in Operators \ {w} : work'[u] = work[u]
         /\ \A u, v \in Operators \ {w} : Overlapped(u, v) => Overlapped(u, v)'
         /\ Together'
<1> USE DEF IInv, TypeOK
<1>1. work[w].at = "idle" /\ work' = [work EXCEPT ![w] = job]
      /\ overlap' = [v \in Operators |->
           IF v = w THEN {u \in Operators : Working(u)}
           ELSE IF Working(v) THEN overlap[v] \cup {w} ELSE overlap[v]]
  BY DEF Starts
<1>2. work' \in [Operators -> Stages] /\ work'[w] = job /\ \A u \in Operators \ {w} : work'[u] = work[u]
  BY <1>1
<1>3. overlap' \in [Operators -> SUBSET Operators]
  BY <1>1
<1>4. \A u, v \in Operators \ {w} : Overlapped(u, v) => Overlapped(u, v)'
  BY <1>1 DEF Overlapped
<1>5. \A u \in Operators \ {w} : Working(u) => Overlapped(u, w)' /\ Overlapped(w, u)'
  BY <1>1 DEF Overlapped
<1>6. \A u \in Operators \ {w} : Working(u)' <=> Working(u)
  BY <1>2 DEF Working
<1>7. Together'
  BY <1>4, <1>5, <1>6 DEF Together
<1> QED
  BY <1>1, <1>2, <1>3, <1>4, <1>7

LEMMA GoesOnTogether ==
  ASSUME IInv, NEW w \in Operators, Working(w), NEW job \in Stages, work' = [work EXCEPT ![w] = job],
         UNCHANGED overlap
  PROVE  /\ work' \in [Operators -> Stages] /\ work'[w] = job
         /\ \A u \in Operators \ {w} : work'[u] = work[u]
         /\ \A u, v \in Operators : Overlapped(u, v) => Overlapped(u, v)'
         /\ Together'
<1>1. /\ work' \in [Operators -> Stages] /\ work'[w] = job
      /\ \A u \in Operators \ {w} : work'[u] = work[u]
  BY DEF IInv, TypeOK
<1>2. \A u \in Operators : Working(u)' => Working(u)
  BY <1>1 DEF Working
<1>3. \A u, v \in Operators : Overlapped(u, v)' <=> Overlapped(u, v)
  BY DEF Overlapped
<1> QED
  BY <1>1, <1>2, <1>3 DEF IInv, Together

(* An answer that nobody is given keeps what others were told true, ...    *)
LEMMA ToldStays ==
  ASSUME IInv, told' \in [Names -> SUBSET Operators], NEW w \in Operators, work[w].at # "done",
         \A u \in Operators \ {w} : work'[u] = work[u],
         \A u, v \in Operators \ {w} : Overlapped(u, v) => Overlapped(u, v)',
         \A n \in Names : told'[n] = {} \/ (told'[n] = told[n] /\ reservation'[n] = reservation[n]),
         work'[w].at = "adopt" => \A n \in Names : work'[w].name = n => told'[n] = {}
  PROVE  ToldOK' /\ ToldApart'
<1>1. \A n \in Names : w \notin told[n]
  BY DEF IInv, ToldOK
<1>2. \A n \in Names : \A v \in told[n] : v \in Operators \ {w} /\ work'[v] = work[v]
  BY <1>1 DEF IInv, TypeOK
<1>3. ToldOK'
  BY <1>2 DEF IInv, ToldOK
<1>4. ToldApart'
  BY <1>2 DEF IInv, ToldApart, Holder
<1> QED
  BY <1>3, <1>4

(* ... and one that is given, to who has the name then, does: it was free, *)
(* or the operator's already, or all who were told work beside this one.   *)
LEMMA ToldMore ==
  ASSUME IInv, NEW w \in Operators, Working(w), NEW n \in Names, work[w].client \in Clients,
         work'[w].at = "done", work'[w].client = work[w].client,
         \A u \in Operators \ {w} : work'[u] = work[u], UNCHANGED overlap,
         told' = [told EXCEPT ![n] = @ \cup {w}],
         \A m \in Names \ {n} : reservation'[m] = reservation[m],
         reservation'[n] # NoRow, reservation'[n].bound = work[w].client,
         reservation'[n] = reservation[n] \/ told[n] = {} \/ (work[w].at = "adopt" /\ work[w].name = n)
  PROVE  ToldOK' /\ ToldApart'
<1>1. \A m \in Names : w \notin told[m] /\ told[m] \subseteq Operators
  BY DEF IInv, ToldOK, Working, TypeOK
<1>2. told'[n] = told[n] \cup {w} /\ \A m \in Names \ {n} : told'[m] = told[m]
  BY DEF IInv, TypeOK
<1>3. \A m \in Names : \A v \in told[m] : work'[v] = work[v]
  BY <1>1
<1>4. \A u, v \in Operators : Overlapped(u, v)' <=> Overlapped(u, v)
  BY DEF Overlapped
<1>5. ToldOK'
  <2>1. \A m \in Names : \A v \in told'[m] : work'[v].at = "done" /\ work'[v].client \in Clients
    BY <1>2, <1>3 DEF IInv, ToldOK
  <2>2. \A m \in Names : told'[m] # {} =>
          reservation'[m] # NoRow /\ \E u \in told'[m] : work'[u].client = reservation'[m].bound
    BY <1>2, <1>3 DEF IInv, ToldOK
  <2>3. ASSUME NEW m \in Names, NEW v \in told'[m], NEW u \in Operators, v # u,
               work'[u].at = "adopt", work'[u].name = m
        PROVE  Overlapped(v, u)'
    <3>1. u # w /\ work'[u] = work[u]
      BY <2>3
    <3>2. CASE v = w
      BY <1>4, <2>3, <3>1, <3>2 DEF IInv, Together, Working
    <3>3. CASE v # w
      BY <1>1, <1>2, <1>4, <2>3, <3>1, <3>3 DEF IInv, ToldOK
    <3> QED
      BY <3>2, <3>3
  <2> QED
    BY <2>1, <2>2, <2>3 DEF ToldOK
<1>6. ToldApart'
  <2> SUFFICES ASSUME NEW m \in Names, NEW v \in told'[m], reservation'[m].bound # work'[v].client,
                      reservation'[m] # NoRow
               PROVE  \E u \in told'[m] : work'[u].client # work'[v].client /\ Overlapped(v, u)'
    BY <1>2, <1>5 DEF ToldApart, Holder, ToldOK
  <2>1. CASE m # n
    BY <1>2, <1>3, <1>4, <1>1, <2>1 DEF IInv, ToldApart, Holder
  <2>2. CASE m = n
    <3>1. v # w /\ v \in told[n] /\ work'[v] = work[v]
      BY <1>2, <1>3, <2>2
    <3>2. CASE reservation'[n] = reservation[n]
      BY <1>1, <1>2, <1>3, <1>4, <2>2, <3>1, <3>2 DEF IInv, ToldApart, Holder
    <3>3. CASE work[w].at = "adopt" /\ work[w].name = n
      BY <1>1, <1>2, <1>4, <2>2, <3>1, <3>3 DEF IInv, ToldOK
    <3> QED
      BY <3>1, <3>2, <3>3
  <2> QED
    BY <2>1, <2>2
<1> QED
  BY <1>5, <1>6

----------------------------------------------------------------------------
(* Credentials.                                                            *)
LEMMA Rows ==
  /\ NoRow \notin ClientRows /\ NoRow \notin ReservationRows
  /\ \A row \in ClientRows, s \in Nat, on \in BOOLEAN :
       /\ [row EXCEPT !.secret = s] \in ClientRows /\ [row EXCEPT !.enabled = on] \in ClientRows
       /\ [row EXCEPT !.secret = s].account = row.account /\ [row EXCEPT !.secret = s].secret = s
       /\ [row EXCEPT !.enabled = on].account = row.account
       /\ [row EXCEPT !.enabled = on].secret = row.secret
  /\ \A a \in Accounts : [account |-> a, enabled |-> TRUE, secret |-> 0] \in ClientRows
<1>1. NoRow \notin ClientRows /\ NoRow \notin ReservationRows
  BY ProvisioningAssumption
<1> QED
  BY <1>1 DEF ClientRows, ReservationRows

LEMMA BoundRows ==
  ASSUME NEW row \in ReservationRows, NEW c \in Clients \cup {NoClient},
         NEW bound, bound = [row EXCEPT !.bound = c]
  PROVE  /\ bound \in ReservationRows /\ bound # NoRow
         /\ bound.id = row.id /\ bound.account = row.account /\ bound.bound = c
<1>1. bound \in ReservationRows
  BY DEF ReservationRows
<1> QED
  BY <1>1, ProvisioningAssumption DEF ReservationRows

(* A credential that is made anew is nobody's yet.                         *)
LEMMA NewClientKeeps ==
  ASSUME IInv, NEW c \in Clients, NEW a \in Accounts, NewClient(c, a), UNCHANGED <<reservation, rows>>
  PROVE  /\ client' \in [Clients -> ClientRows \cup {NoRow}] /\ used' \subseteq Clients
         /\ client'[c] # NoRow /\ client'[c].account = a
         /\ Moves /\ Tables' /\ Secrets' /\ Owners'
<1> USE DEF IInv, TypeOK
<1>1. /\ c \notin used /\ used' = used \cup {c}
      /\ client' = [client EXCEPT ![c] = [account |-> a, enabled |-> TRUE, secret |-> 0]]
      /\ inForce' = [inForce EXCEPT ![c] = 0]
  BY DEF NewClient
<1>2. /\ client' \in [Clients -> ClientRows \cup {NoRow}]
      /\ client'[c] = [account |-> a, enabled |-> TRUE, secret |-> 0] /\ client'[c] # NoRow
      /\ \A d \in Clients \ {c} : client'[d] = client[d]
  BY <1>1, Rows
<1>3. Moves
  BY <1>1, <1>2 DEF Moves, Exists
<1>4. Tables'
  BY <1>1, <1>2 DEF Tables, Exists
<1>5. ASSUME NEW d \in Clients PROVE inForce'[d] = IF client'[d] # NoRow THEN client'[d].secret ELSE NoRow
  BY <1>1, <1>2 DEF Secrets, Exists
<1>6. Owners'
  BY <1>1, <1>2 DEF Owners, Tables, Exists
<1> QED
  BY <1>1, <1>2, <1>3, <1>4, <1>5, <1>6 DEF Secrets, Exists

----------------------------------------------------------------------------
(* Each step, by the part of it that is an operator's: IInv holds after it *)
(* when the tables moved as they may and what the operator read belongs.   *)
Settled == TypeOK' /\ Tables' /\ Secrets' /\ Owners' /\ Moves

LEMMA OperatorSettles ==
  ASSUME IInv, Settled, NEW w \in Operators, Fits(w)', Together', ToldOK', ToldApart',
         \A u \in Operators \ {w} : work'[u] = work[u]
  PROVE  IInv'
<1>1. \A u \in Operators \ {w} : Fits(u)'
  BY FitsStays DEF IInv, Settled
<1> QED
  BY <1>1 DEF IInv, Settled

(* A statement that stands alone: no operator reads or is told a thing.    *)
LEMMA AloneSettles ==
  ASSUME IInv, Settled, UNCHANGED <<work, overlap>>,
         \A n \in Names : told'[n] = {} \/ (told'[n] = told[n] /\ reservation'[n] = reservation[n])
  PROVE  IInv'
<1>1. \A w \in Operators : Fits(w)'
  BY FitsStays DEF IInv, Settled
<1>2. \A u, v \in Operators : Overlapped(u, v)' <=> Overlapped(u, v)
  BY DEF Overlapped
<1>3. Together'
  BY <1>2 DEF IInv, Together, Working
<1> DEFINE Fine(n) ==
      /\ \A v \in told[n] : work[v].at = "done" /\ work[v].client \in Clients
      /\ told[n] # {} =>
           reservation[n] # NoRow /\ \E u \in told[n] : work[u].client = reservation[n].bound
      /\ \A v \in told[n], w \in Operators :
           v # w /\ work[w].at = "adopt" /\ work[w].name = n => Overlapped(v, w)
      /\ \A v \in told[n] : Holder(n) # work[v].client =>
           \E w \in told[n] : work[w].client # work[v].client /\ Overlapped(v, w)
<1>4. ASSUME NEW n \in Names, told'[n] = {} PROVE Fine(n)'
  BY <1>4
<1>5. ASSUME NEW n \in Names, told'[n] = told[n], reservation'[n] = reservation[n] PROVE Fine(n)'
  <2>1. Fine(n)
    BY DEF IInv, ToldOK, ToldApart
  <2>2. Holder(n)' = Holder(n)
    BY <1>5 DEF Holder
  <2>3. work' = work
    OBVIOUS
  <2>4. \A v \in told'[n] : work'[v].at = "done" /\ work'[v].client \in Clients
    BY <1>5, <2>1, <2>3
  <2>5. told'[n] # {} => reservation'[n] # NoRow /\ \E u \in told'[n] : work'[u].client = reservation'[n].bound
    BY <1>5, <2>1, <2>3
  <2>6. \A v \in told'[n], w \in Operators :
           v # w /\ work'[w].at = "adopt" /\ work'[w].name = n => Overlapped(v, w)'
    BY <1>5, <2>1, <2>3 DEF Overlapped
  <2>7. \A v \in told'[n] : Holder(n)' # work'[v].client =>
           \E w \in told'[n] : work'[w].client # work'[v].client /\ Overlapped(v, w)'
    BY <1>5, <2>1, <2>2, <2>3 DEF Overlapped
  <2> QED
    BY <2>4, <2>5, <2>6, <2>7
<1>6. \A n \in Names : Fine(n)'
  BY <1>4, <1>5
<1>7. ToldOK' /\ ToldApart'
  BY <1>6 DEF ToldOK, ToldApart
<1> QED
  BY <1>1, <1>3, <1>7 DEF IInv, Settled

LEMMA CreateClientKeeps == ASSUME IInv, NEW c \in Clients, CreateClient(c) PROVE IInv'
<1>1. PICK a \in Accounts : NewClient(c, a)
  BY DEF CreateClient
<1>2. UNCHANGED <<reservation, rows, work, overlap, told>>
  BY DEF CreateClient
<1>3. inForce' \in [Clients -> Nat \cup {NoRow}]
  BY <1>1 DEF NewClient, IInv, TypeOK
<1>4. Settled
  BY <1>1, <1>2, <1>3, NewClientKeeps DEF Settled, IInv, TypeOK
<1> QED
  BY <1>2, <1>4, AloneSettles

LEMMA DeleteClientKeeps == ASSUME IInv, NEW c \in Clients, DeleteClient(c) PROVE IInv'
<1> USE DEF IInv, TypeOK
<1>1. /\ client' = [client EXCEPT ![c] = NoRow] /\ inForce' = [inForce EXCEPT ![c] = NoRow]
      /\ reservation' = [n \in Names |->
           IF reservation[n] # NoRow /\ reservation[n].bound = c
           THEN [reservation[n] EXCEPT !.bound = NoClient] ELSE reservation[n]]
      /\ told' = [n \in Names |-> IF reservation'[n] # reservation[n] THEN {} ELSE told[n]]
      /\ UNCHANGED <<rows, work, overlap, used>>
  BY DEF DeleteClient
<1>2. ASSUME NEW n \in Names
      PROVE  \/ reservation'[n] = reservation[n] /\ (reservation[n] # NoRow => reservation[n].bound # c)
             \/ /\ reservation[n] # NoRow /\ reservation'[n] # NoRow
                /\ reservation'[n] \in ReservationRows
                /\ reservation'[n].id = reservation[n].id
                /\ reservation'[n].account = reservation[n].account
                /\ reservation'[n].bound = NoClient
  <2>1. CASE reservation[n] # NoRow /\ reservation[n].bound = c
    <3>1. reservation'[n] = [reservation[n] EXCEPT !.bound = NoClient] /\ reservation[n] \in ReservationRows
      BY <1>1, <2>1
    <3> QED
      BY SMTT(30), <2>1, <3>1, BoundRows
  <2>2. CASE ~(reservation[n] # NoRow /\ reservation[n].bound = c)
    BY <1>1, <2>2
  <2> QED
    BY <2>1, <2>2
<1>3. reservation' \in [Names -> ReservationRows \cup {NoRow}]
  BY <1>1, <1>2
<1>4. client' \in [Clients -> ClientRows \cup {NoRow}] /\ inForce' \in [Clients -> Nat \cup {NoRow}]
      /\ told' \in [Names -> SUBSET Operators]
  BY <1>1
<1>5. \A d \in Clients : client'[d] = IF d = c THEN NoRow ELSE client[d]
  BY <1>1
<1>6. Moves
  BY <1>1, <1>2, <1>5 DEF Moves, Exists
<1>7. Tables'
  BY <1>1, <1>2, <1>5 DEF Tables, Exists
<1>8. Secrets'
  BY <1>1, <1>5 DEF Secrets, Exists
<1>9. Owners'
  BY <1>1, <1>2, <1>5 DEF Owners, Exists
<1>10. Settled
  BY <1>1, <1>3, <1>4, <1>6, <1>7, <1>8, <1>9 DEF Settled
<1>11. \A n \in Names : told'[n] = {} \/ (told'[n] = told[n] /\ reservation'[n] = reservation[n])
  BY <1>1
<1> QED
  BY <1>1, <1>10, <1>11, AloneSettles

LEMMA CreateReservationKeeps ==
  ASSUME IInv, NEW n \in Names, CreateReservation(n) PROVE IInv'
<1> USE DEF IInv, TypeOK
<1>1. PICK a \in Accounts, c \in Clients \cup {NoClient} :
        /\ c # NoClient => Exists(c) /\ client[c].account = a
        /\ reservation' = [reservation EXCEPT ![n] = [id |-> rows, account |-> a, bound |-> c]]
  BY DEF CreateReservation
<1>2. reservation[n] = NoRow /\ rows' = rows + 1 /\ told' = [told EXCEPT ![n] = {}]
      /\ UNCHANGED <<client, work, overlap, inForce, used>>
  BY DEF CreateReservation, Forget
<1>3. [id |-> rows, account |-> a, bound |-> c] \in ReservationRows
  BY DEF ReservationRows
<1>4. /\ reservation' \in [Names -> ReservationRows \cup {NoRow}] /\ told' \in [Names -> SUBSET Operators]
      /\ \A m \in Names \ {n} : reservation'[m] = reservation[m] /\ told'[m] = told[m]
      /\ reservation'[n] = [id |-> rows, account |-> a, bound |-> c] /\ told'[n] = {}
  BY <1>1, <1>2, <1>3
<1>5. Moves
  BY <1>2, <1>4 DEF Moves, Exists
<1>6. Tables'
  BY <1>2, <1>4 DEF Tables, Exists, ReservationRows
<1>7. Secrets' /\ Owners'
  BY <1>1, <1>2, <1>4 DEF Secrets, Owners, Exists
<1>8. Settled
  BY <1>2, <1>4, <1>5, <1>6, <1>7 DEF Settled
<1> QED
  BY <1>2, <1>4, <1>8, AloneSettles

LEMMA DeleteReservationKeeps ==
  ASSUME IInv, NEW n \in Names, DeleteReservation(n) PROVE IInv'
<1> USE DEF IInv, TypeOK
<1>1. reservation' = [reservation EXCEPT ![n] = NoRow] /\ told' = [told EXCEPT ![n] = {}]
      /\ UNCHANGED <<client, rows, work, overlap, inForce, used>>
  BY DEF DeleteReservation, Forget
<1>2. /\ reservation' \in [Names -> ReservationRows \cup {NoRow}] /\ told' \in [Names -> SUBSET Operators]
      /\ \A m \in Names \ {n} : reservation'[m] = reservation[m] /\ told'[m] = told[m]
      /\ reservation'[n] = NoRow /\ told'[n] = {}
  BY <1>1
<1>3. Settled
  BY <1>1, <1>2 DEF Settled, Moves, Tables, Secrets, Owners, Exists
<1> QED
  BY <1>1, <1>2, <1>3, AloneSettles

----------------------------------------------------------------------------
(* What is enough for the beginning and for the end of an operation.       *)
LEMMA Unmoved ==
  ASSUME IInv, UNCHANGED <<client, reservation, rows, inForce, used>>,
         work' \in [Operators -> Stages], overlap' \in [Operators -> SUBSET Operators],
         told' \in [Names -> SUBSET Operators]
  PROVE  Settled
BY DEF IInv, Settled, TypeOK, Tables, Secrets, Owners, Moves, Exists

LEMMA StartKeeps ==
  ASSUME IInv, NEW w \in Operators, NEW job \in Stages, Starts(w, job), job.at # "adopt",
         Settled, Fits(w)', UNCHANGED <<reservation, told>>
  PROVE  IInv'
<1>1. ToldOK' /\ ToldApart'
  <2>1. told' \in [Names -> SUBSET Operators]
    BY DEF Settled, TypeOK
  <2> QED
    BY <2>1, StartsTogether, ToldStays
<1> QED
  BY <1>1, StartsTogether, OperatorSettles

LEMMA EndKeeps ==
  ASSUME IInv, NEW w \in Operators, Working(w), NEW job \in Stages, work' = [work EXCEPT ![w] = job],
         UNCHANGED overlap, Settled, Fits(w)', ToldOK', ToldApart'
  PROVE  IInv'
BY GoesOnTogether, OperatorSettles

LEMMA EndsQuietly ==
  ASSUME IInv, NEW w \in Operators, Working(w), NEW job \in Stages, work' = [work EXCEPT ![w] = job],
         UNCHANGED overlap, Settled, Fits(w)', job.at # "adopt" \/ told[job.name] = {},
         \A n \in Names : told'[n] = {} \/ (told'[n] = told[n] /\ reservation'[n] = reservation[n])
  PROVE  IInv'
<1>1. told' \in [Names -> SUBSET Operators]
  BY DEF Settled, TypeOK
<1>2. work[w].at # "done" /\ work'[w] = job
  BY DEF Working, IInv, TypeOK
<1>3. work'[w].at = "adopt" => \A n \in Names : work'[w].name = n => told'[n] = {}
  BY <1>2
<1>4. ToldOK' /\ ToldApart'
  BY <1>1, <1>2, <1>3, GoesOnTogether, ToldStays
<1> QED
  BY <1>4, EndKeeps

LEMMA Ending ==
  ASSUME IInv, NEW w \in Operators, NEW at \in Jobs, Ends(w, at)
  PROVE  \E job \in Stages : /\ work' = [work EXCEPT ![w] = job] /\ UNCHANGED overlap
                             /\ job.at = at /\ job.client = work[w].client
                             /\ job.name = work[w].name /\ job.copy = work[w].copy
<1>1. work[w] \in Stages
  BY DEF IInv, TypeOK
<1>2. [work[w] EXCEPT !.at = at] \in Stages
  BY <1>1 DEF Stages
<1>3. work' = [work EXCEPT ![w] = [work[w] EXCEPT !.at = at]] /\ UNCHANGED overlap
  BY DEF Ends
<1> QED
  BY <1>1, <1>2, <1>3 DEF Stages

LEMMA EndFits ==
  ASSUME NEW w \in Operators, work'[w].at \in {"done", "failed"} PROVE Fits(w)'
BY DEF Fits

(* An operation that fails changes nothing.                                *)
LEMMA FailKeeps ==
  ASSUME IInv, NEW w \in Operators, Working(w), Ends(w, "failed"),
         UNCHANGED <<client, reservation, rows, inForce, used, told>>
  PROVE  IInv'
<1>1. PICK job \in Stages : work' = [work EXCEPT ![w] = job] /\ UNCHANGED overlap /\ job.at = "failed"
  BY Ending DEF Jobs
<1>2. work' \in [Operators -> Stages] /\ work'[w] = job
  BY <1>1 DEF IInv, TypeOK
<1>3. Settled
  BY <1>1, <1>2, Unmoved DEF IInv, TypeOK
<1>4. Fits(w)'
  BY <1>1, <1>2, EndFits
<1> QED
  BY <1>1, <1>3, <1>4, EndsQuietly

----------------------------------------------------------------------------
(* Operations on credentials.                                              *)
LEMMA GetClientKeeps ==
  ASSUME IInv, NEW w \in Operators, NEW c \in Clients, GetClient(w, c) \/ GetClientToRotate(w, c)
  PROVE  IInv'
<1>1. UNCHANGED <<client, reservation, rows, inForce, used, told>> /\ client[c] \in ClientRows
  BY DEF GetClient, GetClientToRotate, Exists, IInv, TypeOK
<1>2. PICK job \in Stages : /\ Starts(w, job) /\ job.client = c
                            /\ job.at = "rotate" \/ (job.at = "edit" /\ job.copy = client[c])
  <2>1. CASE GetClient(w, c)
    <3> DEFINE job == Job("edit", c, NoRow, client[c])
    <3>1. job \in Stages
      BY <1>1 DEF Stages, Jobs, Job
    <3>2. Starts(w, job)
      BY <2>1 DEF GetClient
    <3> QED
      BY <3>1, <3>2 DEF Job
  <2>2. CASE GetClientToRotate(w, c)
    <3> DEFINE job == Job("rotate", c, NoRow, NoRow)
    <3>1. job \in Stages
      BY DEF Stages, Jobs, Job
    <3>2. Starts(w, job)
      BY <2>2 DEF GetClientToRotate
    <3> QED
      BY <3>1, <3>2 DEF Job
  <2> QED
    BY <2>1, <2>2
<1>3. Settled
  BY <1>1, <1>2, StartsTogether, Unmoved DEF IInv, TypeOK
<1>4. Fits(w)'
  BY <1>1, <1>2, StartsTogether DEF Fits
<1> QED
  BY <1>1, <1>2, <1>3, <1>4, StartKeeps

(* The row, if there is one, with everything kept that a copy must not     *)
(* bring back.                                                             *)
LEMMA RowChanges ==
  ASSUME IInv, NEW c \in Clients, NEW row \in ClientRows,
         client' = [client EXCEPT ![c] = row], Exists(c), row.account = client[c].account,
         inForce' = [inForce EXCEPT ![c] = row.secret], UNCHANGED <<reservation, rows, used>>
  PROVE  /\ client' \in [Clients -> ClientRows \cup {NoRow}]
         /\ inForce' \in [Clients -> Nat \cup {NoRow}]
         /\ Moves /\ Tables' /\ Secrets' /\ Owners'
<1> USE DEF IInv, TypeOK
<1>1. \A d \in Clients : client'[d] = IF d = c THEN row ELSE client[d]
  OBVIOUS
<1>2. row # NoRow /\ row.secret \in Nat
  BY Rows DEF ClientRows
<1>3. Moves /\ Tables'
  BY <1>1, <1>2 DEF Moves, Tables, Exists
<1>4. Secrets'
  BY <1>1, <1>2 DEF Secrets, Exists
<1>5. Owners'
  BY <1>1, <1>2 DEF Owners, Exists
<1> QED
  BY <1>2, <1>3, <1>4, <1>5

LEMMA RowChangeKeeps ==
  ASSUME IInv, NEW w \in Operators, Working(w), NEW c \in Clients, NEW row \in ClientRows,
         client' = [client EXCEPT ![c] = row], Exists(c), row.account = client[c].account,
         inForce' = [inForce EXCEPT ![c] = row.secret], UNCHANGED <<reservation, rows, used, told>>,
         Ends(w, "done")
  PROVE  IInv'
<1>1. PICK job \in Stages : work' = [work EXCEPT ![w] = job] /\ UNCHANGED overlap /\ job.at = "done"
  BY Ending DEF Jobs
<1>2. work' \in [Operators -> Stages] /\ work'[w] = job
  BY <1>1 DEF IInv, TypeOK
<1>3. Settled
  BY <1>1, <1>2, RowChanges DEF Settled, IInv, TypeOK
<1>4. Fits(w)'
  BY <1>1, <1>2, EndFits
<1> QED
  BY <1>1, <1>3, <1>4, EndsQuietly

LEMMA UpdateClientKeeps == ASSUME IInv, NEW w \in Operators, UpdateClient(w) PROVE IInv'
<1>1. work[w].at = "edit" /\ Working(w) /\ UNCHANGED <<reservation, rows, inForce, used, told>>
  BY DEF UpdateClient, Working
<1>2. PICK c \in Clients : c = work[w].client
  BY <1>1 DEF IInv, Fits
<1>3. CASE Ends(w, "failed") /\ UNCHANGED client
  BY <1>1, <1>3, FailKeeps
<1>4. ASSUME NEW on \in BOOLEAN, WriteClient(c, [work[w].copy EXCEPT !.enabled = on]), ~Exists(c),
             Ends(w, "failed")
      PROVE  IInv'
  <2>1. UNCHANGED client
    BY <1>4 DEF WriteClient, Exists, IInv, TypeOK
  <2> QED
    BY <1>1, <1>4, <2>1, FailKeeps
<1>5. ASSUME NEW on \in BOOLEAN, WriteClient(c, [work[w].copy EXCEPT !.enabled = on]), Exists(c),
             Ends(w, "done")
      PROVE  IInv'
  <2>1. work[w].copy \in ClientRows /\ client[c] \in ClientRows
    BY <1>1, <1>5 DEF IInv, Fits, TypeOK, Exists
  <2>2. [work[w].copy EXCEPT !.enabled = on].enabled = on
    BY <2>1 DEF ClientRows
  <2>3. client' = [client EXCEPT ![c] = [client[c] EXCEPT !.enabled = on]]
    BY <1>5, <2>2 DEF WriteClient, Exists
  <2>4. inForce' = [inForce EXCEPT ![c] = client[c].secret]
    BY <1>1, <1>5 DEF IInv, Secrets, TypeOK
  <2> QED
    BY <1>1, <1>5, <2>1, <2>3, <2>4, Rows, RowChangeKeeps
<1> QED
  BY <1>1, <1>2, <1>3, <1>4, <1>5 DEF UpdateClient

LEMMA RotateKeeps == ASSUME IInv, NEW w \in Operators, RotateClientSecret(w) PROVE IInv'
<1>1. work[w].at = "rotate" /\ Working(w) /\ UNCHANGED <<reservation, rows, used, told>>
  BY DEF RotateClientSecret, Working
<1>2. PICK c \in Clients : c = work[w].client
  BY <1>1 DEF IInv, Fits
<1>3. CASE Ends(w, "failed") /\ UNCHANGED <<client, inForce>>
  BY <1>1, <1>3, FailKeeps
<1>4. ASSUME Exists(c), client' = [client EXCEPT ![c].secret = inForce[c] + 1],
             inForce' = [inForce EXCEPT ![c] = @ + 1], Ends(w, "done")
      PROVE  IInv'
  <2>1. client[c] \in ClientRows /\ inForce[c] = client[c].secret /\ inForce[c] + 1 \in Nat
    BY <1>4 DEF IInv, Secrets, TypeOK, Exists, ClientRows
  <2>2. client' = [client EXCEPT ![c] = [client[c] EXCEPT !.secret = inForce[c] + 1]]
    BY <1>4
  <2> QED
    BY <1>1, <1>4, <2>1, <2>2, Rows, RowChangeKeeps
<1> QED
  BY <1>2, <1>3, <1>4 DEF RotateClientSecret

----------------------------------------------------------------------------
(* Operations on allocations. What is read belongs to its row.             *)
LEMMA ReadKeeps ==
  ASSUME IInv, NEW w \in Operators, NEW n \in Names, ReadToBind(w, n) \/ ReadToToggle(w, n)
  PROVE  IInv'
<1>1. UNCHANGED <<client, reservation, rows, inForce, used, told>> /\ reservation[n] \in ReservationRows
      /\ reservation[n].id < rows
  BY DEF ReadToBind, ReadToToggle, IInv, TypeOK, Tables
<1>2. PICK at \in {"bind", "toggle"}, copy \in ReservationRows :
        /\ Starts(w, Job(at, NoClient, n, copy))
        /\ copy.id = reservation[n].id /\ copy.account = reservation[n].account
        /\ copy.bound # NoClient => Exists(copy.bound) /\ client[copy.bound].account = copy.account
  <2>1. CASE ReadToToggle(w, n)
    BY <1>1, <2>1 DEF ReadToToggle, IInv, Owners
  <2>2. CASE ReadToBind(w, n)
    <3>1. PICK c \in Clients \cup {NoClient} :
            /\ c # NoClient => Exists(c) /\ client[c].account = reservation[n].account
            /\ Starts(w, Job("bind", NoClient, n, [reservation[n] EXCEPT !.bound = c]))
      BY <2>2 DEF ReadToBind
    <3>2. PICK copy : copy = [reservation[n] EXCEPT !.bound = c]
      OBVIOUS
    <3>3. copy \in ReservationRows /\ copy.bound = c
          /\ copy.id = reservation[n].id /\ copy.account = reservation[n].account
      BY <1>1, <3>2, BoundRows
    <3> QED
      BY <3>1, <3>2, <3>3
  <2> QED
    BY <2>1, <2>2
<1> DEFINE job == Job(at, NoClient, n, copy)
<1>3. job \in Stages /\ job.at = at /\ job.name = n /\ job.copy = copy
  BY DEF Job, Stages, Jobs
<1> HIDE DEF job
<1>4. work'[w] = job /\ Settled
  BY <1>1, <1>2, <1>3, StartsTogether, Unmoved DEF IInv, TypeOK, job
<1>5. copy.bound # NoClient => OwnedBy(copy.bound, copy.account)'
  BY <1>1, <1>2 DEF OwnedBy, Exists, IInv, Tables, ReservationRows
<1>6. Fits(w)'
  BY <1>1, <1>2, <1>3, <1>4, <1>5 DEF Fits, Of
<1> QED
  BY <1>1, <1>2, <1>3, <1>4, <1>6, StartKeeps DEF job

(* A copy may be written: what it binds is there, and its own account's.   *)
LEMMA WriteSettles ==
  ASSUME IInv, NEW w \in Operators, work[w].at \in {"bind", "toggle", "adopt"},
         NEW n \in Names, n = work[w].name, NEW copy, copy = work[w].copy,
         Writable(copy, n), WriteReservation(n, copy), UNCHANGED <<client, rows, inForce, used>>
  PROVE  /\ reservation' \in [Names -> ReservationRows \cup {NoRow}]
         /\ Moves /\ Tables' /\ Secrets' /\ Owners'
         /\ reservation'[n] # NoRow /\ reservation'[n].bound = copy.bound
         /\ \A m \in Names \ {n} : reservation'[m] = reservation[m]
<1>1. /\ copy \in ReservationRows /\ Of(reservation[n], copy)
      /\ copy.bound # NoClient => OwnedBy(copy.bound, copy.account)
  BY DEF IInv, Fits
<1>2. /\ reservation[n] \in ReservationRows /\ reservation[n].account = copy.account
      /\ reservation[n].id < rows
      /\ copy.bound # NoClient => Exists(copy.bound) /\ client[copy.bound].account = copy.account
  BY <1>1 DEF Writable, Matches, Of, OwnedBy, IInv, TypeOK, Tables
<1>3. PICK row : row = [reservation[n] EXCEPT !.bound = copy.bound]
  OBVIOUS
<1>4. /\ row \in ReservationRows /\ row # NoRow
      /\ row.id = reservation[n].id /\ row.account = reservation[n].account /\ row.bound = copy.bound
  <2>1. copy.bound \in Clients \cup {NoClient}
    BY <1>1 DEF ReservationRows
  <2> QED
    BY <1>2, <1>3, <2>1, BoundRows
<1>5. reservation' = [reservation EXCEPT ![n] = row]
  BY <1>3 DEF WriteReservation
<1>6. reservation' \in [Names -> ReservationRows \cup {NoRow}]
      /\ reservation'[n] = row /\ \A m \in Names \ {n} : reservation'[m] = reservation[m]
  BY <1>4, <1>5 DEF IInv, TypeOK
<1>7. Moves
  <2>1. \A m \in Names : reservation'[m] # NoRow =>
          reservation[m] # NoRow /\ reservation'[m].id = reservation[m].id
            /\ reservation'[m].account = reservation[m].account
    BY <1>2, <1>4, <1>6, ProvisioningAssumption
  <2>2. rows' \in Nat /\ rows <= rows'
    BY DEF IInv, TypeOK
  <2> QED
    BY <2>1, <2>2 DEF Moves, Exists
<1>8. Tables' /\ Secrets'
  BY <1>2, <1>4, <1>6 DEF Tables, Secrets, IInv, Exists
<1>9. Owners'
  BY <1>2, <1>4, <1>6 DEF Owners, IInv, Exists
<1> QED
  BY <1>4, <1>6, <1>7, <1>8, <1>9

LEMMA UpdateReservationKeeps ==
  ASSUME IInv, NEW w \in Operators, UpdateReservation(w) PROVE IInv'
<1>1. work[w].at \in {"bind", "toggle"} /\ Working(w) /\ UNCHANGED <<client, rows, inForce, used>>
  BY DEF UpdateReservation, Working
<1>2. PICK n \in Names, copy \in ReservationRows : n = work[w].name /\ copy = work[w].copy
  BY <1>1 DEF IInv, Fits
<1>3. CASE Ends(w, "failed") /\ UNCHANGED <<reservation, told>>
  BY <1>1, <1>3, FailKeeps
<1>4. CASE Writable(copy, n) /\ WriteReservation(n, copy) /\ Forget(n) /\ Ends(w, "done")
  <2>1. PICK job \in Stages : work' = [work EXCEPT ![w] = job] /\ UNCHANGED overlap /\ job.at = "done"
    BY <1>4, Ending DEF Jobs
  <2>2. work' \in [Operators -> Stages] /\ work'[w] = job
    BY <2>1 DEF IInv, TypeOK
  <2>3. told' \in [Names -> SUBSET Operators] /\ told'[n] = {} /\ \A m \in Names \ {n} : told'[m] = told[m]
    BY <1>4 DEF Forget, IInv, TypeOK
  <2>4. Settled /\ \A m \in Names \ {n} : reservation'[m] = reservation[m]
    BY <1>1, <1>2, <1>4, <2>1, <2>2, <2>3, WriteSettles DEF Settled, IInv, TypeOK
  <2>5. Fits(w)'
    BY <2>1, <2>2, EndFits
  <2> QED
    BY <1>1, <2>1, <2>3, <2>4, <2>5, EndsQuietly
<1> QED
  BY <1>2, <1>3, <1>4 DEF UpdateReservation

----------------------------------------------------------------------------
(* Provisioning: the credential first, ...                                 *)
LEMMA ProvisionClientKeeps ==
  ASSUME IInv, NEW w \in Operators, NEW c \in Clients, NEW n \in Names, provisionClient(w, c, n)
  PROVE  IInv'
<1> DEFINE job == Job("lookup", c, n, [account |-> client'[c].account])
<1>1. UNCHANGED <<reservation, rows, told>> /\ Starts(w, job)
  BY DEF provisionClient
<1>2. /\ client' \in [Clients -> ClientRows \cup {NoRow}] /\ client'[c] \in ClientRows
      /\ inForce' \in [Clients -> Nat \cup {NoRow}] /\ used' \subseteq Clients /\ c \in used'
      /\ Moves /\ Tables' /\ Secrets' /\ Owners'
  <2>1. CASE Exists(c) /\ UNCHANGED <<client, used, inForce>>
    BY <1>1, <2>1 DEF IInv, TypeOK, Tables, Secrets, Owners, Moves, Exists
  <2>2. ASSUME NEW a \in Accounts, NewClient(c, a) PROVE <1>2!:
    <3>1. inForce' \in [Clients -> Nat \cup {NoRow}] /\ c \in used'
      BY <2>2 DEF NewClient, IInv, TypeOK
    <3> QED
      BY <1>1, <2>2, <3>1, NewClientKeeps
  <2> QED
    BY <2>1, <2>2 DEF provisionClient
<1>3. client'[c].account \in Accounts
  BY <1>2 DEF ClientRows
<1>4. /\ job \in Stages /\ job.at = "lookup" /\ job.client = c /\ job.name = n
      /\ job.copy = [account |-> client'[c].account]
  BY <1>3 DEF Job, Stages, Jobs
<1> HIDE DEF job
<1>5. work'[w] = job /\ Settled
  BY <1>1, <1>2, <1>4, StartsTogether DEF Settled, IInv, TypeOK
<1>6. Fits(w)'
  BY <1>2, <1>3, <1>4, <1>5 DEF Fits, OwnedBy, Exists
<1> QED
  BY <1>1, <1>4, <1>5, <1>6, StartKeeps

(* ... then the row that is there, ...                                     *)
LEMMA ResolveKeeps ==
  ASSUME IInv, NEW w \in Operators, resolveReservation(w) PROVE IInv'
<1>1. work[w].at = "lookup" /\ Working(w) /\ UNCHANGED <<client, reservation, rows, inForce, used, overlap>>
  BY DEF resolveReservation, Working
<1>2. PICK n \in Names, c \in Clients, a \in Accounts :
        n = work[w].name /\ c = work[w].client /\ work[w].copy.account = a /\ OwnedBy(c, a)
  BY <1>1 DEF IInv, Fits, OwnedBy, TypeOK
<1>3. work[w] \in Stages
  BY DEF IInv, TypeOK
<1>4. CASE Ends(w, "failed") /\ UNCHANGED told
  BY <1>1, <1>4, FailKeeps
<1>5. CASE Ends(w, "insert") /\ UNCHANGED told
  <2>1. PICK job \in Stages : /\ work' = [work EXCEPT ![w] = job] /\ job.at = "insert"
                              /\ job.client = work[w].client /\ job.name = work[w].name
                              /\ job.copy = work[w].copy
    BY <1>5, Ending DEF Jobs
  <2>2. work' \in [Operators -> Stages] /\ work'[w] = job
    BY <2>1 DEF IInv, TypeOK
  <2>3. Settled
    BY <1>1, <1>5, <2>2, Unmoved DEF IInv, TypeOK
  <2>4. Fits(w)'
    BY <1>1, <2>1, <2>2 DEF IInv, Fits, OwnedBy, Exists
  <2> QED
    BY <1>1, <1>5, <2>1, <2>3, <2>4, EndsQuietly
<1>6. CASE /\ reservation[n] # NoRow /\ reservation[n].bound = c
           /\ Ends(w, "done") /\ told' = [told EXCEPT ![n] = @ \cup {w}]
  <2>1. PICK job \in Stages : /\ work' = [work EXCEPT ![w] = job] /\ job.at = "done"
                              /\ job.client = work[w].client
    BY <1>6, Ending DEF Jobs
  <2>2. work' \in [Operators -> Stages] /\ work'[w] = job /\ \A u \in Operators \ {w} : work'[u] = work[u]
    BY <2>1 DEF IInv, TypeOK
  <2>3. told' \in [Names -> SUBSET Operators]
    BY <1>6 DEF IInv, TypeOK
  <2>4. Settled
    BY <1>1, <2>2, <2>3, Unmoved DEF IInv, TypeOK
  <2>5. ToldOK' /\ ToldApart'
    BY <1>1, <1>2, <1>6, <2>1, <2>2, ToldMore
  <2>6. Fits(w)'
    BY <2>1, <2>2, EndFits
  <2> QED
    BY <1>1, <2>1, <2>4, <2>5, <2>6, EndKeeps
<1>7. CASE /\ reservation[n] # NoRow /\ Adoptable(reservation[n], c, a) /\ reservation[n].bound # c
           /\ UNCHANGED told
           /\ work' = [work EXCEPT ![w].at = "adopt", ![w].copy = [reservation[n] EXCEPT !.bound = c]]
  <2>1. PICK copy : copy = [reservation[n] EXCEPT !.bound = c]
    OBVIOUS
  <2>2. /\ reservation[n] \in ReservationRows /\ reservation[n].bound = NoClient
        /\ reservation[n].account = a /\ reservation[n].id < rows
    BY <1>7 DEF Adoptable, IInv, TypeOK, Tables
  <2>3. /\ copy \in ReservationRows /\ copy.bound = c /\ copy.account = a /\ copy.id = reservation[n].id
    BY <2>1, <2>2, BoundRows
  <2>4. PICK job \in Stages : /\ work' = [work EXCEPT ![w] = job] /\ job.at = "adopt"
                              /\ job.client = c /\ job.name = n /\ job.copy = copy
    <3> DEFINE job == [work[w] EXCEPT !.at = "adopt", !.copy = copy]
    <3>1. job \in Stages /\ job.at = "adopt" /\ job.client = c /\ job.name = n /\ job.copy = copy
      BY <1>2, <1>3, <2>3 DEF Stages, Jobs
    <3>2. work' = [work EXCEPT ![w] = job]
      BY <1>3, <1>7, <2>1 DEF Stages, IInv, TypeOK
    <3> QED
      BY <3>1, <3>2
  <2>5. work' \in [Operators -> Stages] /\ work'[w] = job
    BY <2>4 DEF IInv, TypeOK
  <2>6. Settled
    BY <1>1, <1>7, <2>5, Unmoved DEF IInv, TypeOK
  <2>7. Fits(w)'
    BY <1>1, <1>2, <2>2, <2>3, <2>4, <2>5 DEF Fits, Of, OwnedBy, Exists
  <2>8. told[n] = {}
    BY <2>2, ProvisioningAssumption DEF IInv, ToldOK
  <2> QED
    BY <1>1, <1>7, <2>4, <2>6, <2>7, <2>8, EndsQuietly
<1> QED
  BY <1>1, <1>2, <1>4, <1>5, <1>6, <1>7 DEF resolveReservation

(* ... or one that is made, and the write.                                 *)
LEMMA InsertKeeps ==
  ASSUME IInv, NEW w \in Operators, InsertReservation(w) PROVE IInv'
<1>1. work[w].at = "insert" /\ Working(w) /\ UNCHANGED <<client, inForce, used>>
  BY DEF InsertReservation, Working
<1>2. PICK n \in Names, c \in Clients, a \in Accounts :
        n = work[w].name /\ c = work[w].client /\ work[w].copy.account = a /\ OwnedBy(c, a)
  BY <1>1 DEF IInv, Fits, OwnedBy, TypeOK
<1>3. CASE Ends(w, "failed") /\ UNCHANGED <<reservation, rows, told>>
  BY <1>1, <1>3, FailKeeps
<1>4. CASE /\ reservation[n] = NoRow /\ Exists(c) /\ rows < MaxRows
           /\ reservation' = [reservation EXCEPT ![n] = [id |-> rows, account |-> a, bound |-> c]]
           /\ rows' = rows + 1 /\ told' = [told EXCEPT ![n] = @ \cup {w}] /\ Ends(w, "done")
  <2>1. PICK job \in Stages : /\ work' = [work EXCEPT ![w] = job] /\ UNCHANGED overlap /\ job.at = "done"
                              /\ job.client = work[w].client
    BY <1>4, Ending DEF Jobs
  <2>2. work' \in [Operators -> Stages] /\ work'[w] = job /\ \A u \in Operators \ {w} : work'[u] = work[u]
    BY <2>1 DEF IInv, TypeOK
  <2>3. PICK row : row = [id |-> rows, account |-> a, bound |-> c]
    OBVIOUS
  <2>4. row \in ReservationRows /\ row # NoRow /\ row.id = rows /\ row.account = a /\ row.bound = c
    BY <2>3, ProvisioningAssumption DEF ReservationRows, IInv, TypeOK
  <2>5. /\ reservation' \in [Names -> ReservationRows \cup {NoRow}] /\ told' \in [Names -> SUBSET Operators]
        /\ reservation'[n] = row /\ \A m \in Names \ {n} : reservation'[m] = reservation[m]
    BY <1>4, <2>3, <2>4 DEF IInv, TypeOK
  <2>6. Moves
    BY <1>1, <1>4, <2>4, <2>5 DEF Moves, IInv, TypeOK, Exists
  <2>7. Tables' /\ Secrets'
    BY <1>1, <1>4, <2>4, <2>5 DEF Tables, Secrets, IInv, TypeOK, Exists, ReservationRows
  <2>8. Owners'
    BY <1>1, <1>2, <1>4, <2>4, <2>5 DEF Owners, OwnedBy, IInv, Exists
  <2>9. Settled
    BY <1>1, <1>4, <2>1, <2>2, <2>5, <2>6, <2>7, <2>8 DEF Settled, IInv, TypeOK
  <2>10. told[n] = {}
    BY <1>4 DEF IInv, ToldOK
  <2>11. ToldOK' /\ ToldApart'
    <3>1. work'[w].at = "done" /\ work'[w].client = work[w].client /\ UNCHANGED overlap
      BY <2>1, <2>2
    <3>2. reservation'[n] # NoRow /\ reservation'[n].bound = work[w].client /\ work[w].client \in Clients
      BY <1>2, <2>4, <2>5
    <3>3. told' = [told EXCEPT ![n] = @ \cup {w}]
      BY <1>4
    <3> QED
      BY <1>1, <2>2, <2>5, <2>10, <3>1, <3>2, <3>3, ToldMore
  <2>12. Fits(w)'
    BY <2>1, <2>2, EndFits
  <2> QED
    BY <1>1, <2>1, <2>9, <2>11, <2>12, EndKeeps
<1> QED
  BY <1>2, <1>3, <1>4 DEF InsertReservation

LEMMA AdoptKeeps ==
  ASSUME IInv, NEW w \in Operators, adoptReservation(w) PROVE IInv'
<1>1. work[w].at = "adopt" /\ Working(w) /\ UNCHANGED <<client, rows, inForce, used>>
  BY DEF adoptReservation, Working
<1>2. PICK n \in Names, copy \in ReservationRows :
         /\ n = work[w].name /\ copy = work[w].copy
         /\ work[w].client \in Clients /\ copy.bound = work[w].client
  BY <1>1 DEF IInv, Fits
<1>3. CASE Ends(w, "failed") /\ UNCHANGED <<reservation, told>>
  BY <1>1, <1>3, FailKeeps
<1>4. CASE /\ Writable(copy, n) /\ WriteReservation(n, copy)
           /\ told' = [told EXCEPT ![n] = @ \cup {w}] /\ Ends(w, "done")
  <2>1. PICK job \in Stages : /\ work' = [work EXCEPT ![w] = job] /\ UNCHANGED overlap /\ job.at = "done"
                              /\ job.client = work[w].client
    BY <1>4, Ending DEF Jobs
  <2>2. work' \in [Operators -> Stages] /\ work'[w] = job /\ \A u \in Operators \ {w} : work'[u] = work[u]
    BY <2>1 DEF IInv, TypeOK
  <2>3. told' \in [Names -> SUBSET Operators]
    BY <1>4 DEF IInv, TypeOK
  <2>4. /\ Settled /\ reservation'[n] # NoRow /\ reservation'[n].bound = copy.bound
        /\ \A m \in Names \ {n} : reservation'[m] = reservation[m]
    BY <1>1, <1>2, <1>4, <2>1, <2>2, <2>3, WriteSettles DEF Settled, IInv, TypeOK
  <2>5. ToldOK' /\ ToldApart'
    <3>1. work'[w].at = "done" /\ work'[w].client = work[w].client /\ UNCHANGED overlap
      BY <2>1, <2>2
    <3>2. reservation'[n].bound = work[w].client
      BY <1>2, <2>4
    <3>3. told' = [told EXCEPT ![n] = @ \cup {w}]
      BY <1>4
    <3> QED
      BY <1>1, <1>2, <2>2, <2>4, <3>1, <3>2, <3>3, ToldMore
  <2>6. Fits(w)'
    BY <2>1, <2>2, EndFits
  <2> QED
    BY <1>1, <2>1, <2>4, <2>5, <2>6, EndKeeps
<1> QED
  BY <1>2, <1>3, <1>4 DEF adoptReservation

----------------------------------------------------------------------------
(* IInv is an invariant of everything that goes on on the database.        *)
THEOREM ProvisioningInductive == ProvisioningSpec => []IInv
<1>1. ProvisioningInit => IInv
  <2> SUFFICES ASSUME ProvisioningInit PROVE IInv
    OBVIOUS
  <2> USE DEF ProvisioningInit
  <2>1. Job("idle", NoClient, NoRow, NoRow) \in Stages /\ Job("idle", NoClient, NoRow, NoRow).at = "idle"
    BY DEF Job, Stages, Jobs
  <2>2. work \in [Operators -> Stages] /\ \A w \in Operators : work[w].at = "idle"
    BY <2>1
  <2>3. TypeOK
    BY <2>2 DEF TypeOK
  <2>4. Tables /\ Secrets /\ Owners
    BY DEF Tables, Secrets, Owners, Exists
  <2>5. (\A w \in Operators : Fits(w)) /\ Together
    BY <2>2 DEF Fits, Together, Working
  <2>6. ToldOK /\ ToldApart
    BY DEF ToldOK, ToldApart
  <2> QED
    BY <2>3, <2>4, <2>5, <2>6 DEF IInv
<1>2. IInv /\ [ProvisioningNext]_provisioningVars => IInv'
  <2> SUFFICES ASSUME IInv, [ProvisioningNext]_provisioningVars PROVE IInv'
    OBVIOUS
  <2>1. CASE UNCHANGED provisioningVars
    <3>1. Settled
      BY <2>1, Unmoved DEF provisioningVars, IInv, TypeOK
    <3> QED
      BY <2>1, <3>1, AloneSettles DEF provisioningVars
  <2> QED
    BY <2>1, CreateClientKeeps, DeleteClientKeeps, CreateReservationKeeps, DeleteReservationKeeps,
       UpdateClientKeeps, RotateKeeps, UpdateReservationKeeps, ResolveKeeps, InsertKeeps, AdoptKeeps,
       GetClientKeeps, ReadKeeps, ProvisionClientKeeps DEF ProvisioningNext
<1> QED
  BY <1>1, <1>2, PTL DEF ProvisioningSpec

(* No copy that was read earlier undoes what happened since.               *)
THEOREM StaleWritesCorrect == ProvisioningSpec => []StaleWritesHarmless
<1>1. IInv => StaleWritesHarmless
  BY DEF IInv, Secrets, Owners, StaleWritesHarmless
<1> QED
  BY <1>1, ProvisioningInductive, PTL

(* What an operator was told is undone only by one that worked beside it.  *)
THEOREM ToldApartCorrect == ProvisioningSpec => []ToldApart
<1>1. IInv => ToldApart
  BY DEF IInv
<1> QED
  BY <1>1, ProvisioningInductive, PTL

-----------------------------------------------------------------------------
(* LoginLimiter. The failures of the time of one window fall into those    *)
(* that the key's current record counts and the older ones. Neither part   *)
(* can pass one limit and the attempts that were let in before it was      *)
(* reached, and a record only lapses once everything older is out of       *)
(* sight: two limits are never passed.                                     *)
Failing(k) == {a \in Attempts : k \in attempt[a]}
Recent(k) == {f \in Failed(k) : f[1] <= record[k].age}
Limit == MaxFails - 1 + Cardinality(Attempts)

(* A key whose record has lapsed has not failed in this tick yet: the      *)
(* first failure to come opens the window that counts it.                  *)
LapsedHolds(k) == failures[k][0] = 0 /\ Cardinality(Failed(k)) <= Limit

WindowHolds(k) ==
  /\ Cardinality(Recent(k)) <= record[k].count
  /\ record[k].count + Cardinality(Failing(k)) <= Limit
  /\ Cardinality(Failed(k) \ Recent(k)) <= Limit

KeyHolds(k) ==
  /\ IsFiniteSet(Failed(k))
  /\ Lapsed(k) => LapsedHolds(k)
  /\ ~Lapsed(k) => WindowHolds(k)

LimiterIInv == LimiterTypeOK /\ \A k \in Keys : KeyHolds(k)

LEMMA FailedIs ==
  ASSUME NEW k, NEW f
  PROVE  f \in Failed(k) <=> \E n \in 0..Window : \E i \in 1..failures[k][n] : f = <<n, i>>
BY DEF Failed

LEMMA FailedNextIs ==
  ASSUME NEW k, NEW f
  PROVE  f \in Failed(k)' <=> \E n \in 0..Window : \E i \in 1..failures'[k][n] : f = <<n, i>>
BY DEF Failed

LEMMA FailingIs ==
  ASSUME NEW k
  PROVE  /\ IsFiniteSet(Failing(k)) /\ Cardinality(Failing(k)) \in 0..Cardinality(Attempts)
         /\ Cardinality(Attempts) \in Nat /\ Limit \in Nat
<1>1. IsFiniteSet(Attempts) /\ Cardinality(Attempts) \in Nat /\ MaxFails \in Nat \ {0}
  BY LimiterAssumption, FS_CardinalityType
<1>2. Failing(k) \in SUBSET Attempts
  BY DEF Failing
<1>3. IsFiniteSet(Failing(k)) /\ Cardinality(Failing(k)) <= Cardinality(Attempts)
  BY <1>1, <1>2, FS_Subset
<1>4. Cardinality(Failing(k)) \in Nat
  BY <1>3, FS_CardinalityType
<1>. QED  BY <1>1, <1>3, <1>4 DEF Limit

(* What a window counts and what it does not, when the failures are finite. *)
LEMMA PartsAre ==
  ASSUME NEW k, IsFiniteSet(Failed(k))
  PROVE  /\ IsFiniteSet(Recent(k)) /\ IsFiniteSet(Failed(k) \ Recent(k))
         /\ Cardinality(Recent(k)) \in Nat /\ Cardinality(Failed(k) \ Recent(k)) \in Nat
         /\ Cardinality(Failed(k)) \in Nat
         /\ Cardinality(Failed(k)) = Cardinality(Recent(k)) + Cardinality(Failed(k) \ Recent(k))
<1>1. Recent(k) \in SUBSET Failed(k) /\ (Failed(k) \ Recent(k)) \in SUBSET Failed(k)
  BY DEF Recent
<1>2. IsFiniteSet(Recent(k)) /\ IsFiniteSet(Failed(k) \ Recent(k))
  BY <1>1, FS_Subset
<1>3. /\ Cardinality(Recent(k)) \in Nat /\ Cardinality(Failed(k) \ Recent(k)) \in Nat
      /\ Cardinality(Failed(k)) \in Nat
  BY <1>2, FS_CardinalityType
<1>4. /\ Recent(k) \cup (Failed(k) \ Recent(k)) = Failed(k)
      /\ Recent(k) \cap (Failed(k) \ Recent(k)) = {}
  BY <1>1
<1>5. Cardinality(Failed(k))
        = Cardinality(Recent(k)) + Cardinality(Failed(k) \ Recent(k)) - Cardinality({})
  BY <1>2, <1>4, FS_Union
<1>. QED  BY <1>2, <1>3, <1>5, FS_EmptySet

(* A key that a step leaves alone; attempts may have ended.                *)
LEMMA KeyKept ==
  ASSUME LimiterIInv, NEW k \in Keys, record'[k] = record[k], failures'[k] = failures[k],
         Failing(k)' \subseteq Failing(k)
  PROVE  KeyHolds(k)'
<1>1. Failed(k)' = Failed(k) /\ (Lapsed(k)' <=> Lapsed(k)) /\ Recent(k)' = Recent(k)
  BY DEF Failed, Lapsed, Recent
<1>2. Cardinality(Failing(k)') <= Cardinality(Failing(k)) /\ Cardinality(Failing(k)') \in Nat
  BY FailingIs, FS_Subset, FS_CardinalityType
<1>3. record[k].count \in Nat
  BY DEF LimiterIInv, LimiterTypeOK
<1>4. Limit' = Limit
  BY DEF Limit
<1>5. KeyHolds(k)
  BY DEF LimiterIInv
<1>6. CASE Lapsed(k)
  BY <1>1, <1>4, <1>5, <1>6 DEF KeyHolds, LapsedHolds
<1>7. CASE ~Lapsed(k)
  <2>1. WindowHolds(k)
    BY <1>5, <1>7 DEF KeyHolds
  <2>2. record'[k].count + Cardinality(Failing(k)') <= Limit
    BY <1>2, <1>3, <2>1, FailingIs DEF WindowHolds
  <2>3. WindowHolds(k)'
    BY <1>1, <1>4, <2>1, <2>2 DEF WindowHolds
  <2>. QED  BY <1>1, <1>5, <1>7, <2>3 DEF KeyHolds
<1>. QED  BY <1>6, <1>7

(* A key with no record and no failures: a success, or the beginning.      *)
LEMMA KeyForgotten ==
  ASSUME LimiterIInv, NEW k \in Keys, record'[k] = NoEntry, failures'[k] = NoFailures
  PROVE  KeyHolds(k)'
<1>1. Window \in Nat
  BY LimiterAssumption
<1>2. \A n \in 0..Window : failures'[k][n] = 0
  BY DEF NoFailures
<1>3. Failed(k)' = {}
  BY <1>2, FailedNextIs
<1>4. IsFiniteSet(Failed(k)') /\ Cardinality(Failed(k)') = 0
  BY <1>3, FS_EmptySet
<1>5. Lapsed(k)' /\ failures'[k][0] = 0
  BY <1>1, <1>2 DEF Lapsed, NoEntry
<1>6. Limit' = Limit /\ 0 <= Limit
  BY FailingIs DEF Limit
<1>. QED  BY <1>4, <1>5, <1>6 DEF KeyHolds, LapsedHolds

LEMMA BeginKeeps ==
  ASSUME LimiterIInv, NEW a \in Attempts, LoginBegins(a) PROVE LimiterIInv'
<1>1. PICK i \in Addresses, u \in Users :
        allow(i) /\ allow(u) /\ attempt' = [attempt EXCEPT ![a] = {i, u}]
  BY DEF LoginBegins
<1>2. attempt[a] = {} /\ UNCHANGED <<record, failures>>
  BY DEF LoginBegins
<1>3. LimiterTypeOK'
  BY <1>1, <1>2 DEF LimiterIInv, LimiterTypeOK, Keys
<1>4. ASSUME NEW k \in Keys PROVE KeyHolds(k)'
  <2>1. CASE k \notin {i, u}
    <3>1. Failing(k)' \subseteq Failing(k)
      BY <1>1, <2>1 DEF Failing, LimiterIInv, LimiterTypeOK
    <3>. QED  BY <1>2, <3>1, KeyKept
  <2>2. CASE k \in {i, u}
    <3>1. /\ Failed(k)' = Failed(k) /\ (Lapsed(k)' <=> Lapsed(k)) /\ Recent(k)' = Recent(k)
          /\ Limit' = Limit /\ KeyHolds(k) /\ record[k].count \in Nat
      BY <1>2 DEF Failed, Lapsed, Recent, Limit, LimiterIInv, LimiterTypeOK
    <3>2. CASE Lapsed(k)
      BY <1>2, <3>1, <3>2 DEF KeyHolds, LapsedHolds
    <3>3. CASE ~Lapsed(k)
      <4>1. record[k].count < MaxFails
        BY <1>1, <2>2, <3>3 DEF allow
      <4>2. Failing(k)' \in SUBSET Attempts /\ IsFiniteSet(Attempts)
        BY LimiterAssumption DEF Failing
      <4>3. Cardinality(Failing(k)') <= Cardinality(Attempts) /\ Cardinality(Failing(k)') \in Nat
        BY <4>2, FS_Subset, FS_CardinalityType
      <4>4. record'[k].count + Cardinality(Failing(k)') <= Limit'
        <5>1. Limit' = MaxFails - 1 + Cardinality(Attempts) /\ record'[k].count = record[k].count
          BY <1>2, <3>1 DEF Limit
        <5>2. Cardinality(Attempts) \in Nat /\ MaxFails \in Nat
          BY FailingIs, LimiterAssumption
        <5>. QED  BY <3>1, <4>1, <4>3, <5>1, <5>2
      <4>5. WindowHolds(k)
        BY <3>1, <3>3 DEF KeyHolds
      <4>6. WindowHolds(k)'
        BY <1>2, <3>1, <4>4, <4>5 DEF WindowHolds
      <4>. QED  BY <3>1, <3>3, <4>6 DEF KeyHolds
    <3>. QED  BY <3>2, <3>3
  <2>. QED  BY <2>1, <2>2
<1>. QED  BY <1>3, <1>4 DEF LimiterIInv

(* A failure is counted by the window that is open, or opens one: the      *)
(* attempt that ends makes room for it.                                    *)
LEMMA FailLoginKeeps ==
  ASSUME LimiterIInv, NEW a \in Attempts, failLogin(a) PROVE LimiterIInv'
<1>1. /\ attempt[a] # {} /\ attempt[a] \subseteq Keys
      /\ attempt' = [attempt EXCEPT ![a] = {}] /\ fail(attempt[a])
  BY DEF failLogin, LoginEnds, LimiterIInv, LimiterTypeOK
<1>2. Window \in Nat /\ 0 \in 0..Window /\ 0 \in Ages
  BY LimiterAssumption DEF Ages
<1>3. LimiterTypeOK'
  <2>1. record' \in [Keys -> [count : Nat, age : Ages]]
    <3> DEFINE next(k) ==
          IF k \notin attempt[a] THEN record[k]
          ELSE IF Lapsed(k) THEN [count |-> 1, age |-> 0]
          ELSE [record[k] EXCEPT !.count = @ + 1]
    <3>1. record' = [k \in Keys |-> next(k)]
      BY <1>1 DEF fail
    <3>2. ASSUME NEW k \in Keys PROVE next(k) \in [count : Nat, age : Ages]
      <4>1. record[k] \in [count : Nat, age : Ages]
        BY DEF LimiterIInv, LimiterTypeOK
      <4>2. [count |-> 1, age |-> 0] \in [count : Nat, age : Ages]
        BY <1>2
      <4>3. [record[k] EXCEPT !.count = @ + 1] \in [count : Nat, age : Ages]
        BY <4>1
      <4>. QED  BY <4>1, <4>2, <4>3
    <3>. QED  BY <3>1, <3>2
  <2>2. failures' \in [Keys -> [0..Window -> Nat]]
    <3>1. ASSUME NEW k \in Keys PROVE failures'[k] \in [0..Window -> Nat]
      <4>1. failures[k] \in [0..Window -> Nat]
        BY DEF LimiterIInv, LimiterTypeOK
      <4>2. [failures[k] EXCEPT ![0] = @ + 1] \in [0..Window -> Nat]
        BY <1>2, <4>1
      <4>3. failures'[k]
              = IF k \in attempt[a] THEN [failures[k] EXCEPT ![0] = @ + 1] ELSE failures[k]
        BY <1>1 DEF fail
      <4>. QED  BY <4>1, <4>2, <4>3
    <3>2. failures' = [k \in Keys |-> failures'[k]]
      BY <1>1 DEF fail
    <3>. QED  BY <3>1, <3>2
  <2>3. attempt' \in [Attempts -> SUBSET Keys]
    BY <1>1 DEF LimiterIInv, LimiterTypeOK
  <2>. QED  BY <2>1, <2>2, <2>3 DEF LimiterTypeOK
<1>4. ASSUME NEW k \in Keys PROVE KeyHolds(k)'
  <2>1. Failing(k)' = Failing(k) \ {a}
    BY <1>1 DEF Failing, LimiterIInv, LimiterTypeOK
  <2>2. CASE k \notin attempt[a]
    <3>1. record'[k] = record[k] /\ failures'[k] = failures[k]
      BY <1>1, <2>2 DEF fail
    <3>. QED  BY <2>1, <3>1, KeyKept
  <2>3. CASE k \in attempt[a]
    <3> DEFINE new == <<0, failures[k][0] + 1>>
    <3>1. /\ failures[k] \in [0..Window -> Nat] /\ failures'[k] = [failures[k] EXCEPT ![0] = @ + 1]
          /\ record[k] \in [count : Nat, age : Ages]
      BY <1>1, <2>3 DEF fail, LimiterIInv, LimiterTypeOK
    <3>2. Failed(k)' = Failed(k) \cup {new} /\ new \notin Failed(k)
      <4>1. failures[k][0] \in Nat /\ failures'[k][0] = failures[k][0] + 1
        BY <1>2, <3>1
      <4>2. \A n \in 0..Window : n # 0 => failures'[k][n] = failures[k][n]
        BY <3>1
      <4>3. new \notin Failed(k)
        BY <4>1, FailedIs
      <4>4. Failed(k)' \subseteq Failed(k) \cup {new}
        <5> SUFFICES ASSUME NEW f \in Failed(k)' PROVE f \in Failed(k) \cup {new}
          OBVIOUS
        <5>0. PICK n \in 0..Window : \E i \in 1..failures'[k][n] : f = <<n, i>>
          BY FailedNextIs
        <5>1. PICK i \in 1..failures'[k][n] : f = <<n, i>>
          BY <5>0
        <5>2. CASE n = 0 /\ i = failures[k][0] + 1
          BY <5>1, <5>2
        <5>3. CASE ~(n = 0 /\ i = failures[k][0] + 1)
          <6>1. i \in 1..failures[k][n]
            BY <4>1, <4>2, <5>1, <5>3
          <6>. QED  BY <5>1, <6>1, FailedIs
        <5>. QED  BY <5>2, <5>3
      <4>5. Failed(k) \subseteq Failed(k)'
        <5> SUFFICES ASSUME NEW f \in Failed(k) PROVE f \in Failed(k)'
          OBVIOUS
        <5>0. PICK n \in 0..Window : \E i \in 1..failures[k][n] : f = <<n, i>>
          BY FailedIs
        <5>1. PICK i \in 1..failures[k][n] : f = <<n, i>>
          BY <5>0
        <5>2. i \in 1..failures'[k][n]
          BY <3>1, <4>1, <4>2, <5>1
        <5>. QED  BY <5>1, <5>2, FailedNextIs
      <4>6. new \in Failed(k)'
        <5>1. failures[k][0] + 1 \in 1..failures'[k][0]
          BY <4>1
        <5>. QED  BY <1>2, <5>1, FailedNextIs
      <4>. QED  BY <4>3, <4>4, <4>5, <4>6
    <3>3. KeyHolds(k) /\ IsFiniteSet(Failed(k))
      BY DEF LimiterIInv, KeyHolds
    <3>4. IsFiniteSet(Failed(k)')
      BY <3>2, <3>3, FS_AddElement
    <3>5. /\ a \in Failing(k) /\ Cardinality(Failing(k)') = Cardinality(Failing(k)) - 1
          /\ Cardinality(Failing(k)) \in 1..Cardinality(Attempts) /\ Cardinality(Attempts) \in Nat
      <4>1. a \in Failing(k)
        BY <2>3 DEF Failing
      <4>2. Cardinality(Failing(k)') = Cardinality(Failing(k)) - 1
        BY <2>1, <4>1, FailingIs, FS_RemoveElement
      <4>3. Cardinality(Failing(k)) # 0
        BY <4>1, FailingIs, FS_EmptySet
      <4>. QED  BY <4>1, <4>2, <4>3, FailingIs
    <3>6. Limit' = Limit /\ Limit = MaxFails - 1 + Cardinality(Attempts) /\ MaxFails \in Nat \ {0}
      BY LimiterAssumption DEF Limit
    <3>7. CASE Lapsed(k)
      <4>1. /\ record'[k] = [count |-> 1, age |-> 0]
            /\ failures[k][0] = 0 /\ Cardinality(Failed(k)) <= Limit
        BY <1>1, <2>3, <3>3, <3>7 DEF fail, KeyHolds, LapsedHolds
      <4>2. ~Lapsed(k)'
        BY <1>2, <4>1 DEF Lapsed
      <4>3. \A f \in Failed(k) : f[1] \in 0..Window /\ f[1] # 0
        <5> TAKE f \in Failed(k)
        <5>1. PICK n \in 0..Window : \E i \in 1..failures[k][n] : f = <<n, i>>
          BY FailedIs
        <5>. QED  BY <4>1, <5>1
      <4>4. Recent(k)' = {new} /\ Failed(k)' \ Recent(k)' = Failed(k)
        <5>1. \A f \in Failed(k) : ~(f[1] <= 0)
          BY <4>3
        <5>2. new[1] = 0
          OBVIOUS
        <5>3. Recent(k)' = {f \in Failed(k)' : f[1] <= 0}
          BY <4>1 DEF Recent
        <5>. QED  BY <3>2, <5>1, <5>2, <5>3
      <4>5. Cardinality(Recent(k)') = 1
        BY <4>4, FS_Singleton
      <4>6. record'[k].count + Cardinality(Failing(k)') <= Limit'
        BY <3>5, <3>6, <4>1
      <4>7. WindowHolds(k)'
        BY <3>6, <4>1, <4>4, <4>5, <4>6 DEF WindowHolds
      <4>. QED  BY <3>4, <4>2, <4>7 DEF KeyHolds
    <3>8. CASE ~Lapsed(k)
      <4>1. record'[k] = [record[k] EXCEPT !.count = @ + 1]
        BY <1>1, <2>3, <3>8 DEF fail
      <4>2. /\ record'[k].age = record[k].age
            /\ record'[k].count = record[k].count + 1 /\ record[k].count \in Nat
        BY <3>1, <4>1
      <4>3. ~Lapsed(k)' /\ WindowHolds(k)
        BY <3>3, <3>8, <4>2 DEF Lapsed, KeyHolds
      <4>4. Recent(k)' = Recent(k) \cup {new} /\ Failed(k)' \ Recent(k)' = Failed(k) \ Recent(k)
        <5>1. new[1] <= record[k].age
          BY <1>2, <3>1 DEF Ages
        <5>2. Recent(k)' = {f \in Failed(k)' : f[1] <= record[k].age}
          BY <4>2 DEF Recent
        <5>. QED  BY <3>2, <5>1, <5>2 DEF Recent
      <4>5. Cardinality(Recent(k)') <= Cardinality(Recent(k)) + 1 /\ Cardinality(Recent(k)') \in Nat
        <5>1. IsFiniteSet(Recent(k)) /\ Cardinality(Recent(k)) \in Nat
          BY <3>3, PartsAre
        <5>2. Cardinality(Recent(k) \cup {new})
                = IF new \in Recent(k) THEN Cardinality(Recent(k)) ELSE Cardinality(Recent(k)) + 1
          BY <5>1, FS_AddElement
        <5>. QED  BY <4>4, <5>1, <5>2
      <4>6. Cardinality(Recent(k)') <= record'[k].count
        BY <3>3, <4>2, <4>3, <4>5, PartsAre DEF WindowHolds
      <4>7. record'[k].count + Cardinality(Failing(k)') <= Limit'
        BY <3>5, <3>6, <4>2, <4>3 DEF WindowHolds
      <4>8. WindowHolds(k)'
        BY <3>6, <4>3, <4>4, <4>6, <4>7 DEF WindowHolds
      <4>. QED  BY <3>4, <4>3, <4>8 DEF KeyHolds
    <3>. QED  BY <3>7, <3>8
  <2>. QED  BY <2>2, <2>3
<1>. QED  BY <1>3, <1>4 DEF LimiterIInv

LEMMA SucceedKeeps ==
  ASSUME LimiterIInv, NEW a \in Attempts, LoginSucceeds(a) PROVE LimiterIInv'
<1>1. attempt' = [attempt EXCEPT ![a] = {}] /\ succeed(attempt[a]) /\ Window \in Nat
  BY LimiterAssumption DEF LoginSucceeds, LoginEnds
<1>2. LimiterTypeOK'
  BY <1>1 DEF succeed, LimiterIInv, LimiterTypeOK, NoEntry, NoFailures, Ages
<1>3. ASSUME NEW k \in Keys PROVE KeyHolds(k)'
  <2>1. CASE k \in attempt[a]
    <3>1. record'[k] = NoEntry /\ failures'[k] = NoFailures
      BY <1>1, <2>1 DEF succeed
    <3>. QED  BY <3>1, KeyForgotten
  <2>2. CASE k \notin attempt[a]
    <3>1. record'[k] = record[k] /\ failures'[k] = failures[k]
      BY <1>1, <2>2 DEF succeed
    <3>2. Failing(k)' \subseteq Failing(k)
      BY <1>1 DEF Failing, LimiterIInv, LimiterTypeOK
    <3>. QED  BY <3>1, <3>2, KeyKept
  <2>. QED  BY <2>1, <2>2
<1>. QED  BY <1>2, <1>3 DEF LimiterIInv

(* The purge drops records that have lapsed: they count for nothing.       *)
LEMMA PurgeKeeps == ASSUME LimiterIInv, purge PROVE LimiterIInv'
<1>1. /\ record' = [k \in Keys |-> IF Lapsed(k) THEN NoEntry ELSE record[k]]
      /\ UNCHANGED <<attempt, failures>> /\ Window \in Nat
  BY LimiterAssumption DEF purge
<1>2. LimiterTypeOK'
  BY <1>1 DEF LimiterIInv, LimiterTypeOK, NoEntry, Ages
<1>3. ASSUME NEW k \in Keys PROVE KeyHolds(k)'
  <2>1. CASE Lapsed(k)
    <3>1. Lapsed(k)' /\ Failed(k)' = Failed(k) /\ Limit' = Limit
      BY <1>1, <2>1 DEF Lapsed, NoEntry, Failed, Limit
    <3>. QED  BY <1>1, <2>1, <3>1 DEF LimiterIInv, KeyHolds, LapsedHolds
  <2>2. CASE ~Lapsed(k)
    <3>1. record'[k] = record[k] /\ Failing(k)' = Failing(k)
      BY <1>1, <2>2 DEF Failing
    <3>. QED  BY <1>1, <3>1, KeyKept
  <2>. QED  BY <2>1, <2>2
<1>. QED  BY <1>2, <1>3 DEF LimiterIInv

(* A tick makes every failure one older: what a set of them becomes has as *)
(* many members at most.                                                   *)
LEMMA Ageing ==
  ASSUME NEW S, NEW T, IsFiniteSet(T), S \subseteq Nat \X Nat,
         \A f \in S : <<f[1] - 1, f[2]>> \in T
  PROVE  IsFiniteSet(S) /\ Cardinality(S) <= Cardinality(T)
<1> DEFINE younger == [f \in S |-> <<f[1] - 1, f[2]>>]
<1>1. \A f, g \in S : younger[f] = younger[g] => f = g
  <2> SUFFICES ASSUME NEW f \in S, NEW g \in S, younger[f] = younger[g] PROVE f = g
    OBVIOUS
  <2>1. /\ f[1] \in Nat /\ f[2] \in Nat /\ g[1] \in Nat /\ g[2] \in Nat
        /\ f = <<f[1], f[2]>> /\ g = <<g[1], g[2]>>
    OBVIOUS
  <2>2. f[1] - 1 = g[1] - 1 /\ f[2] = g[2]
    OBVIOUS
  <2>. QED  BY <2>1, <2>2
<1>2. younger \in [S -> T]
  OBVIOUS
<1>3. younger \in Injection(S, T)
  BY <1>1, <1>2 DEF Injection, IsInjective
<1>. HIDE DEF younger
<1>. QED  BY <1>3, FS_Injection

LEMMA TickKeeps == ASSUME LimiterIInv, TimePasses PROVE LimiterIInv'
<1>1. /\ record' = [k \in Keys |-> [record[k] EXCEPT !.age = IF @ > Window THEN @ ELSE @ + 1]]
      /\ failures' = [k \in Keys |-> [n \in 0..Window |-> IF n = 0 THEN 0 ELSE failures[k][n - 1]]]
      /\ UNCHANGED attempt /\ Window \in Nat /\ Limit' = Limit
  BY LimiterAssumption DEF TimePasses, Limit
<1>2. LimiterTypeOK'
  <2>1. record' \in [Keys -> [count : Nat, age : Ages]]
    <3> SUFFICES ASSUME NEW k \in Keys PROVE record'[k] \in [count : Nat, age : Ages]
      BY <1>1
    <3>1. record[k] \in [count : Nat, age : Ages]
      BY DEF LimiterIInv, LimiterTypeOK
    <3>2. (IF record[k].age > Window THEN record[k].age ELSE record[k].age + 1) \in Ages
      BY <1>1, <3>1 DEF Ages
    <3>3. record'[k]
            = [record[k] EXCEPT !.age =
                 IF record[k].age > Window THEN record[k].age ELSE record[k].age + 1]
      BY <1>1
    <3>. QED  BY <3>1, <3>2, <3>3
  <2>2. failures' \in [Keys -> [0..Window -> Nat]]
    <3>1. ASSUME NEW k \in Keys, NEW n \in 0..Window
          PROVE  (IF n = 0 THEN 0 ELSE failures[k][n - 1]) \in Nat
      <4>1. failures[k] \in [0..Window -> Nat]
        BY DEF LimiterIInv, LimiterTypeOK
      <4>2. n # 0 => n - 1 \in 0..Window
        BY <1>1
      <4>. QED  BY <4>1, <4>2
    <3>. QED  BY <1>1, <3>1
  <2>. QED  BY <1>1, <2>1, <2>2 DEF LimiterIInv, LimiterTypeOK
<1>3. ASSUME NEW k \in Keys PROVE KeyHolds(k)'
  <2>1. /\ KeyHolds(k) /\ IsFiniteSet(Failed(k))
        /\ record[k].age \in Ages /\ record[k].count \in Nat
        /\ failures[k] \in [0..Window -> Nat]
    BY DEF LimiterIInv, LimiterTypeOK, KeyHolds
  <2>2. \A n \in 0..Window : failures'[k][n] = IF n = 0 THEN 0 ELSE failures[k][n - 1]
    BY <1>1
  <2>3. \A f \in Failed(k)' : f \in Nat \X Nat /\ f[1] >= 1 /\ <<f[1] - 1, f[2]>> \in Failed(k)
    <3> SUFFICES ASSUME NEW f \in Failed(k)'
                 PROVE  f \in Nat \X Nat /\ f[1] >= 1 /\ <<f[1] - 1, f[2]>> \in Failed(k)
      OBVIOUS
    <3>0. PICK n \in 0..Window : \E i \in 1..failures'[k][n] : f = <<n, i>>
      BY FailedNextIs
    <3>1. PICK i \in 1..failures'[k][n] : f = <<n, i>>
      BY <3>0
    <3>2. n # 0
      BY <2>2, <3>1
    <3>3. n - 1 \in 0..Window /\ i \in 1..failures[k][n - 1]
      BY <1>1, <2>2, <3>1, <3>2
    <3>4. <<n - 1, i>> \in Failed(k)
      BY <3>3, FailedIs
    <3>5. n \in Nat /\ i \in Nat /\ n >= 1
      BY <1>1, <2>1, <3>1, <3>2, <3>3
    <3>. QED  BY <3>1, <3>4, <3>5
  <2>4. IsFiniteSet(Failed(k)') /\ Cardinality(Failed(k)') <= Cardinality(Failed(k))
    BY <2>1, <2>3, Ageing
  <2>5. failures'[k][0] = 0
    BY <1>1, <2>2
  <2>6. /\ Cardinality(Failed(k)) \in Nat /\ Cardinality(Failed(k)') \in Nat
        /\ Limit \in Nat /\ Cardinality(Failing(k)) \in Nat
    BY <2>1, <2>4, FS_CardinalityType, FailingIs
  <2>7. CASE Lapsed(k)
    <3>0. record'[k] = [record[k] EXCEPT !.age = IF record[k].age > Window THEN @ ELSE @ + 1]
          /\ record[k] \in [count : Nat, age : Ages]
      BY <1>1 DEF LimiterIInv, LimiterTypeOK
    <3>1. Lapsed(k)'
      BY <1>1, <2>1, <2>7, <3>0 DEF Lapsed, Ages
    <3>2. LapsedHolds(k)'
      BY <1>1, <2>1, <2>4, <2>5, <2>6, <2>7 DEF KeyHolds, LapsedHolds
    <3>. QED  BY <2>4, <3>1, <3>2 DEF KeyHolds
  <2>8. CASE ~Lapsed(k)
    <3>1. /\ record'[k].age = record[k].age + 1 /\ record'[k].count = record[k].count
          /\ record[k].age \in 0..Window
      BY <1>1, <2>1, <2>8 DEF Lapsed, Ages, LimiterIInv, LimiterTypeOK
    <3>2. WindowHolds(k)
      BY <2>1, <2>8 DEF KeyHolds
    <3>3. CASE Lapsed(k)'
      <4>1. record[k].age = Window
        BY <1>1, <3>1, <3>3 DEF Lapsed
      <4>2. \A f \in Failed(k) : f[1] <= Window
        <5> TAKE f \in Failed(k)
        <5>1. PICK n \in 0..Window : \E i \in 1..failures[k][n] : f = <<n, i>>
          BY FailedIs
        <5>. QED  BY <5>1
      <4>3. Recent(k) = Failed(k)
        BY <4>1, <4>2 DEF Recent
      <4>4. Cardinality(Failed(k)) <= Limit
        BY <2>1, <2>6, <3>2, <4>3 DEF WindowHolds
      <4>5. LapsedHolds(k)'
        BY <1>1, <2>4, <2>5, <2>6, <4>4 DEF LapsedHolds
      <4>. QED  BY <2>4, <3>3, <4>5 DEF KeyHolds
    <3>4. CASE ~Lapsed(k)'
      <4>1. IsFiniteSet(Recent(k)) /\ IsFiniteSet(Failed(k) \ Recent(k))
        BY <2>1, PartsAre
      <4>2. /\ \A f \in Recent(k)' : <<f[1] - 1, f[2]>> \in Recent(k)
            /\ Recent(k)' \subseteq Nat \X Nat
        <5>1. ASSUME NEW f \in Recent(k)' PROVE <<f[1] - 1, f[2]>> \in Recent(k) /\ f \in Nat \X Nat
          <6>1. f \in Failed(k)' /\ f[1] <= record[k].age + 1
            BY <3>1 DEF Recent
          <6>2. f \in Nat \X Nat /\ <<f[1] - 1, f[2]>> \in Failed(k)
            BY <2>3, <6>1
          <6>3. f[1] - 1 <= record[k].age
            BY <2>1, <3>1, <6>1, <6>2
          <6>. QED  BY <6>2, <6>3 DEF Recent
        <5>. QED  BY <5>1
      <4>3. Cardinality(Recent(k)') <= Cardinality(Recent(k))
        BY <4>1, <4>2, Ageing
      <4>4. /\ \A f \in Failed(k)' \ Recent(k)' : <<f[1] - 1, f[2]>> \in Failed(k) \ Recent(k)
            /\ Failed(k)' \ Recent(k)' \subseteq Nat \X Nat
        <5>1. ASSUME NEW f \in Failed(k)' \ Recent(k)'
              PROVE  <<f[1] - 1, f[2]>> \in Failed(k) \ Recent(k) /\ f \in Nat \X Nat
          <6>1. f \in Failed(k)' /\ ~(f[1] <= record[k].age + 1)
            BY <3>1 DEF Recent
          <6>2. f \in Nat \X Nat /\ <<f[1] - 1, f[2]>> \in Failed(k)
            BY <2>3, <6>1
          <6>3. ~(f[1] - 1 <= record[k].age)
            BY <2>1, <3>1, <6>1, <6>2
          <6>. QED  BY <6>2, <6>3 DEF Recent
        <5>. QED  BY <5>1
      <4>5. Cardinality(Failed(k)' \ Recent(k)') <= Cardinality(Failed(k) \ Recent(k))
        BY <4>1, <4>4, Ageing
      <4>6. /\ Cardinality(Recent(k)) \in Nat /\ Cardinality(Failed(k) \ Recent(k)) \in Nat
            /\ Cardinality(Recent(k)') \in Nat /\ Cardinality(Failed(k)' \ Recent(k)') \in Nat
        <5>1. IsFiniteSet(Recent(k)')
          BY <4>1, <4>2, Ageing
        <5>2. IsFiniteSet(Failed(k)' \ Recent(k)')
          BY <4>1, <4>4, Ageing
        <5>. QED  BY <4>1, <5>1, <5>2, FS_CardinalityType
      <4>7. Failing(k)' = Failing(k)
        BY <1>1 DEF Failing
      <4>8. WindowHolds(k)'
        <5>1. Cardinality(Recent(k)') <= record'[k].count
          BY <2>1, <3>1, <3>2, <4>3, <4>6 DEF WindowHolds
        <5>2. record'[k].count + Cardinality(Failing(k)') <= Limit'
          BY <1>1, <3>1, <3>2, <4>7 DEF WindowHolds
        <5>3. Cardinality(Failed(k)' \ Recent(k)') <= Limit'
          BY <1>1, <2>6, <3>2, <4>5, <4>6 DEF WindowHolds
        <5>. QED  BY <5>1, <5>2, <5>3 DEF WindowHolds
      <4>. QED  BY <2>4, <3>4, <4>8 DEF KeyHolds
    <3>. QED  BY <3>3, <3>4
  <2>. QED  BY <2>7, <2>8
<1>. QED  BY <1>2, <1>3 DEF LimiterIInv

LEMMA LimiterBegins == LimiterInit => LimiterIInv
<1> SUFFICES ASSUME LimiterInit PROVE LimiterIInv
  OBVIOUS
<1>1. Window \in Nat /\ Limit \in Nat
  BY LimiterAssumption, FailingIs
<1>2. LimiterTypeOK
  BY <1>1 DEF LimiterInit, LimiterTypeOK, NoEntry, NoFailures, Ages
<1>3. ASSUME NEW k \in Keys PROVE KeyHolds(k)
  <2>1. record[k] = NoEntry /\ failures[k] = NoFailures
    BY DEF LimiterInit
  <2>2. Failed(k) = {}
    BY <1>1, <2>1, FailedIs DEF NoFailures
  <2>3. IsFiniteSet(Failed(k)) /\ Cardinality(Failed(k)) = 0
    BY <2>2, FS_EmptySet
  <2>4. Lapsed(k) /\ failures[k][0] = 0
    BY <1>1, <2>1 DEF Lapsed, NoEntry, NoFailures
  <2>. QED  BY <1>1, <2>3, <2>4 DEF KeyHolds, LapsedHolds
<1>. QED  BY <1>2, <1>3 DEF LimiterIInv

(* The two windows of a key bound all its failures.                        *)
LEMMA TwoWindows == LimiterIInv => GuessesBounded
<1> SUFFICES ASSUME LimiterIInv, NEW k \in Keys PROVE Cardinality(Failed(k)) <= 2 * Limit
  BY DEF GuessesBounded, Limit
<1>1. KeyHolds(k) /\ IsFiniteSet(Failed(k)) /\ Limit \in Nat /\ record[k].count \in Nat
  BY FailingIs DEF LimiterIInv, LimiterTypeOK, KeyHolds
<1>2. CASE Lapsed(k)
  <2>1. Cardinality(Failed(k)) <= Limit /\ Cardinality(Failed(k)) \in Nat
    BY <1>1, <1>2, FS_CardinalityType DEF KeyHolds, LapsedHolds
  <2>. QED  BY <1>1, <2>1
<1>3. CASE ~Lapsed(k)
  <2>1. WindowHolds(k) /\ Cardinality(Failing(k)) \in Nat
    BY <1>1, <1>3, FailingIs DEF KeyHolds
  <2>2. Cardinality(Recent(k)) <= Limit /\ Cardinality(Failed(k) \ Recent(k)) <= Limit
    BY <1>1, <2>1, PartsAre DEF WindowHolds
  <2>. QED  BY <1>1, <2>2, PartsAre
<1>. QED  BY <1>2, <1>3

(* The inductive invariant of the sign-in limiter.                         *)
THEOREM LimiterInductive == LimiterSpec => []LimiterIInv
<1>1. LimiterIInv /\ [LimiterNext]_limiterVars => LimiterIInv'
  <2> SUFFICES ASSUME LimiterIInv, [LimiterNext]_limiterVars PROVE LimiterIInv'
    OBVIOUS
  <2>1. CASE UNCHANGED limiterVars
    <3>1. UNCHANGED <<record, attempt, failures>>
      BY <2>1 DEF limiterVars
    <3>2. LimiterTypeOK' /\ \A k \in Keys : Failing(k)' = Failing(k)
      BY <3>1 DEF LimiterIInv, LimiterTypeOK, Failing
    <3>. QED  BY <3>1, <3>2, KeyKept DEF LimiterIInv
  <2>2. ASSUME NEW a \in Attempts, LoginBegins(a) PROVE LimiterIInv'
    BY <2>2, BeginKeeps
  <2>3. ASSUME NEW a \in Attempts, failLogin(a) PROVE LimiterIInv'
    BY <2>3, FailLoginKeeps
  <2>4. ASSUME NEW a \in Attempts, LoginSucceeds(a) PROVE LimiterIInv'
    BY <2>4, SucceedKeeps
  <2>5. CASE purge
    BY <2>5, PurgeKeeps
  <2>6. CASE TimePasses
    BY <2>6, TickKeeps
  <2>. QED  BY <2>1, <2>2, <2>3, <2>4, <2>5, <2>6 DEF LimiterNext
<1>. QED  BY <1>1, LimiterBegins, PTL DEF LimiterSpec

(* GuessesBounded: for any number of addresses, names, attempts at once,   *)
(* any limit and any window, however slowly passwords are checked, the     *)
(* time of one window never sees more failures of an address or of a name  *)
(* than two windows allow.                                                 *)
THEOREM GuessesBoundedCorrect == LimiterSpec => []GuessesBounded
BY LimiterInductive, TwoWindows, PTL
=============================================================================
