------------------------- MODULE Reservations_proofs ------------------------
(***************************************************************************)
(* The promises of Reservations for any tunnels, names, accounts, handlers *)
(* and number of writes.                                                   *)
(*                                                                         *)
(* BoundWithinAccount is not inductive alone: a handler writes what it     *)
(* checked some steps earlier, so the invariant says what a call in        *)
(* progress still knows when it writes. A checked create or pin names a    *)
(* credential of the account, which never changes; that it still exists is *)
(* the foreign key's business. A checked update names a credential of the  *)
(* account of the row with its id, if that row is still there: ids are     *)
(* never used again.                                                       *)
(*                                                                         *)
(* What sessions are linked to rests on the ids alone. Filings: there is a *)
(* book that gives every id one name, and the table, the registrations,    *)
(* the sessions and the calls in progress all keep to it, whatever was     *)
(* deleted, renamed or made anew since they read it.                       *)
(***************************************************************************)
EXTENDS Reservations, FiniteSetTheorems, TLAPS

RowType == [id: Nat, account: Accounts, client: Clients \cup {NoOne}, enabled: BOOLEAN]

(* The tables, with what the schema and the code keep of them.             *)
TablesOK ==
  /\ accounts \subseteq Accounts /\ clients \subseteq Clients
  /\ \A c \in clients : AccountOf[c] \in accounts
  /\ writes \in Nat
  /\ reserved \in [Names -> RowType \cup {NoOne}]
  /\ \A n \in Names : reserved[n] # NoOne =>
       /\ reserved[n] \in RowType
       /\ reserved[n].id <= writes
       /\ reserved[n].account \in accounts
       /\ reserved[n].client # NoOne =>
            reserved[n].client \in clients /\ AccountOf[reserved[n].client] = reserved[n].account

(* What a handler that waits to write has checked.                         *)
Checked(call) ==
  /\ call.op = "create" =>
       /\ call.account \in Accounts /\ call.client \in Clients \cup {NoOne}
       /\ call.client # NoOne => AccountOf[call.client] = call.account
  /\ call.op = "update" =>
       /\ call.id \in Nat /\ call.id <= writes
       /\ call.client \in Clients \cup {NoOne} /\ call.enabled \in BOOLEAN
  /\ call.op = "pin" => call.client \in Clients

StillTrue(call) ==
  \A n \in Names :
    (/\ call.op = "update" /\ call.name = n /\ call.client # NoOne
     /\ reserved[n] # NoOne /\ reserved[n].id = call.id)
      => AccountOf[call.client] = reserved[n].account

CallsOK ==
  /\ admin = [a \in Admins |-> admin[a]]
  /\ \A a \in Admins : Checked(admin[a]) /\ StillTrue(admin[a])

IInv == TablesOK /\ CallsOK

----------------------------------------------------------------------------
(* Calls in progress keep what they know when rows only go, or keep their  *)
(* id and account, or are new under a fresh id.                            *)
LEMMA CallsSurvive ==
  ASSUME TablesOK, CallsOK, writes' \in Nat, writes <= writes',
         \A n \in Names : reserved'[n] # NoOne =>
           \/ /\ reserved[n] # NoOne
              /\ reserved'[n].id = reserved[n].id /\ reserved'[n].account = reserved[n].account
           \/ reserved'[n].id > writes,
         NEW a \in Admins, admin'[a] = admin[a]
  PROVE  Checked(admin[a])' /\ StillTrue(admin[a])'
<1>1. Checked(admin[a]) /\ StillTrue(admin[a])
  BY DEF CallsOK
<1>2. Checked(admin[a])'
  BY <1>1 DEF Checked, TablesOK
<1>3. ASSUME NEW n \in Names,
             admin[a].op = "update", admin[a].name = n, admin[a].client # NoOne,
             reserved'[n] # NoOne, reserved'[n].id = admin[a].id
      PROVE  AccountOf[admin[a].client] = reserved'[n].account
  <2>1. admin[a].id \in Nat /\ admin[a].id <= writes
    BY <1>1, <1>3 DEF Checked
  <2>2. /\ reserved[n] # NoOne
        /\ reserved'[n].id = reserved[n].id /\ reserved'[n].account = reserved[n].account
    BY <1>3, <2>1 DEF TablesOK
  <2> QED BY <1>1, <1>3, <2>2 DEF StillTrue
<1> QED BY <1>2, <1>3 DEF StillTrue

(* An insert that the schema accepts, of a credential of the account.      *)
LEMMA InsertKeepsTables ==
  ASSUME IInv, NEW n, NEW account \in Accounts, NEW c \in Clients \cup {NoOne},
         c # NoOne => AccountOf[c] = account,
         Inserts(n, account, c), UNCHANGED <<accounts, clients>>
  PROVE  /\ TablesOK'
         /\ \A m \in Names : reserved'[m] # NoOne =>
              \/ /\ reserved[m] # NoOne
                 /\ reserved'[m].id = reserved[m].id
                 /\ reserved'[m].account = reserved[m].account
              \/ reserved'[m].id > writes
<1> DEFINE row == [id |-> writes', account |-> account, client |-> c, enabled |-> TRUE]
<1>1. /\ writes \in Nat /\ writes' = writes + 1
      /\ reserved' = [reserved EXCEPT ![n] = row]
      /\ account \in accounts /\ c \in clients \cup {NoOne}
  BY DEF Inserts, Written, Exists, IInv, TablesOK
<1>2. row \in RowType
  BY <1>1 DEF RowType
<1>3. reserved' \in [Names -> RowType \cup {NoOne}]
  BY <1>1, <1>2 DEF IInv, TablesOK
<1>4. ASSUME NEW m \in Names
      PROVE  reserved'[m] = reserved[m] \/ reserved'[m] = row
  BY <1>1 DEF IInv, TablesOK
<1>5. ASSUME NEW m \in Names, reserved'[m] # NoOne
      PROVE  /\ reserved'[m] \in RowType
             /\ reserved'[m].id <= writes'
             /\ reserved'[m].account \in accounts'
             /\ reserved'[m].client # NoOne =>
                  /\ reserved'[m].client \in clients'
                  /\ AccountOf[reserved'[m].client] = reserved'[m].account
  <2>1. CASE reserved'[m] = row
    BY <2>1, <1>1, <1>2
  <2>2. CASE reserved'[m] = reserved[m]
    <3>1. reserved[m] \in RowType /\ reserved[m].id \in Nat /\ reserved[m].id <= writes
      BY <2>2, <1>5 DEF IInv, TablesOK, RowType
    <3> QED BY <2>2, <3>1, <1>1, <1>5 DEF IInv, TablesOK
  <2> QED BY <1>4, <2>1, <2>2
<1>6. TablesOK'
  <2>1. /\ accounts' \subseteq Accounts /\ clients' \subseteq Clients
        /\ \A b \in clients' : AccountOf[b] \in accounts'
        /\ writes' \in Nat
    BY <1>1 DEF IInv, TablesOK
  <2> QED BY <2>1, <1>3, <1>5 DEF TablesOK
<1>7. ASSUME NEW m \in Names, reserved'[m] # NoOne
      PROVE  \/ /\ reserved[m] # NoOne
                /\ reserved'[m].id = reserved[m].id
                /\ reserved'[m].account = reserved[m].account
             \/ reserved'[m].id > writes
  BY <1>1, <1>4, <1>7
<1> QED BY <1>6, <1>7

(* A deletion: the cascade and the SET NULL keep what the tables promise.  *)
LEMMA CascadeKeepsTables ==
  ASSUME IInv, Written, Cascade,
         accounts' \subseteq accounts, clients' \subseteq clients,
         \A c \in clients' : AccountOf[c] \in accounts'
  PROVE  /\ TablesOK'
         /\ \A m \in Names : reserved'[m] # NoOne =>
              /\ reserved[m] # NoOne
              /\ reserved'[m].id = reserved[m].id
              /\ reserved'[m].account = reserved[m].account
<1>1. writes \in Nat /\ writes' = writes + 1
  BY DEF Written, IInv, TablesOK
<1>2. ASSUME NEW m \in Names, reserved'[m] # NoOne
      PROVE  /\ reserved[m] # NoOne /\ reserved[m].account \in accounts'
             /\ reserved[m] \in RowType
             /\ \/ /\ reserved[m].client \in clients' \cup {NoOne}
                   /\ reserved'[m] = reserved[m]
                \/ reserved'[m] = [reserved[m] EXCEPT !.client = NoOne]
  BY <1>2 DEF Cascade, IInv, TablesOK
<1>3. ASSUME NEW m \in Names, reserved'[m] # NoOne
      PROVE  /\ reserved'[m] \in RowType
             /\ reserved'[m].id = reserved[m].id
             /\ reserved'[m].account = reserved[m].account
             /\ reserved'[m].client # NoOne =>
                  /\ reserved'[m].client = reserved[m].client
                  /\ reserved'[m].client \in clients'
  <2>1. CASE reserved'[m] = reserved[m] /\ reserved[m].client \in clients' \cup {NoOne}
    BY <1>2, <1>3, <2>1
  <2>2. CASE reserved'[m] = [reserved[m] EXCEPT !.client = NoOne]
    BY <1>2, <1>3, <2>2 DEF RowType
  <2> QED BY <1>2, <1>3, <2>1, <2>2
<1>4. reserved' \in [Names -> RowType \cup {NoOne}]
  <2>1. \A m \in Names : reserved'[m] \in RowType \cup {NoOne}
    BY <1>3
  <2> QED BY <2>1 DEF Cascade
<1>5. ASSUME NEW m \in Names, reserved'[m] # NoOne
      PROVE  /\ reserved'[m].id <= writes'
             /\ reserved'[m].account \in accounts'
             /\ reserved'[m].client # NoOne =>
                  AccountOf[reserved'[m].client] = reserved'[m].account
  <2>1. reserved[m].id \in Nat /\ reserved[m].id <= writes
    BY <1>2, <1>5 DEF IInv, TablesOK, RowType
  <2>2. reserved'[m].id <= writes'
    BY <1>1, <1>3, <1>5, <2>1
  <2>3. reserved'[m].account \in accounts'
    BY <1>2, <1>3, <1>5
  <2>4. reserved'[m].client # NoOne => AccountOf[reserved'[m].client] = reserved'[m].account
    BY <1>2, <1>3, <1>5 DEF IInv, TablesOK
  <2> QED BY <2>2, <2>3, <2>4
<1>6. TablesOK'
  <2>1. /\ accounts' \subseteq Accounts /\ clients' \subseteq Clients
        /\ \A c \in clients' : AccountOf[c] \in accounts'
        /\ writes' \in Nat
    BY <1>1 DEF IInv, TablesOK
  <2> QED BY <2>1, <1>3, <1>4, <1>5 DEF TablesOK
<1> QED BY <1>2, <1>3, <1>6

(* A handler goes on to a call that it has checked; the others are as they *)
(* were.                                                                   *)
LEMMA CallsAdvance ==
  ASSUME CallsOK, NEW a \in Admins, NEW call, Goto(a, call),
         Checked(call)', StillTrue(call)',
         \A b \in Admins : admin'[b] = admin[b] => Checked(admin[b])' /\ StillTrue(admin[b])'
  PROVE  CallsOK'
<1>1. admin' = [admin EXCEPT ![a] = call] /\ admin = [b \in Admins |-> admin[b]]
  BY DEF Goto, CallsOK
<1>2. admin' = [b \in Admins |-> admin'[b]]
  BY <1>1
<1>3. ASSUME NEW b \in Admins
      PROVE  Checked(admin[b])' /\ StillTrue(admin[b])'
  <2>1. CASE b = a
    <3>1. admin'[b] = call
      BY <1>1, <2>1
    <3> QED BY <3>1 DEF Checked, StillTrue
  <2>2. CASE b # a
    BY <1>1, <2>2
  <2> QED BY <2>1, <2>2
<1> QED BY <1>2, <1>3 DEF CallsOK

----------------------------------------------------------------------------
(* Steps of tunnels and of the server leave the tables and the calls alone.*)
LEMMA OtherSteps ==
  ASSUME IInv, UNCHANGED <<store, admin>>
  PROVE  IInv'
BY DEF IInv, TablesOK, CallsOK, Checked, StillTrue, store

LEMMA StepPreserves == IInv /\ [Next]_vars => IInv'
<1> SUFFICES ASSUME IInv, [Next]_vars PROVE IInv'
  OBVIOUS
<1> USE ReservationsAssumption
<1>1. CASE UNCHANGED vars
  BY <1>1, OtherSteps DEF vars
<1>2. ASSUME NEW t \in Tunnels, ClientStep(t) PROVE IInv'
  BY <1>2, OtherSteps DEF ClientStep, Connect, ResolveNamed, ListOwned, Probe, QueryFails,
    Claim, ClaimUnheard, ClaimRefused, OpenControl, Drop, Receive, store
<1>3. ASSUME NEW n \in Names, Teardown(n) PROVE IInv'
  BY <1>3, OtherSteps DEF Teardown, store
(* Deletions, at any moment of the calls in progress.                      *)
<1>4. ASSUME TablesOK', UNCHANGED admin, writes' = writes + 1,
             \A m \in Names : reserved'[m] # NoOne =>
               /\ reserved[m] # NoOne
               /\ reserved'[m].id = reserved[m].id
               /\ reserved'[m].account = reserved[m].account
      PROVE  IInv'
  <2>1. TablesOK /\ CallsOK /\ writes' \in Nat /\ writes <= writes'
    BY <1>4 DEF IInv, TablesOK
  <2>2. \A a \in Admins : Checked(admin[a])' /\ StillTrue(admin[a])'
    BY <1>4, <2>1, CallsSurvive
  <2> QED BY <1>4, <2>1, <2>2 DEF IInv, CallsOK
<1>5. ASSUME NEW n \in Names, Delete(n) PROVE IInv'
  <2>1. /\ reserved' = [reserved EXCEPT ![n] = NoOne]
        /\ writes' = writes + 1 /\ UNCHANGED <<accounts, clients, admin>>
    BY <1>5 DEF Delete, Written
  <2>2. \A m \in Names : reserved'[m] # NoOne => reserved'[m] = reserved[m]
    BY <2>1 DEF IInv, TablesOK
  <2>3. writes \in Nat /\ \A m \in Names : reserved[m] # NoOne => reserved[m].id \in Nat
    BY DEF IInv, TablesOK, RowType
  <2>4. reserved' \in [Names -> RowType \cup {NoOne}]
    BY <2>1 DEF IInv, TablesOK
  <2>5. \A m \in Names : reserved'[m] # NoOne => reserved'[m].id <= writes'
    BY <2>1, <2>2, <2>3 DEF IInv, TablesOK
  <2>6. TablesOK'
    BY <2>1, <2>2, <2>3, <2>4, <2>5 DEF IInv, TablesOK
  <2> QED BY <1>4, <2>1, <2>2, <2>6
<1>6. ASSUME NEW c \in Clients, DeleteClient(c) PROVE IInv'
  <2>1. /\ accounts' \subseteq accounts /\ clients' \subseteq clients
        /\ \A b \in clients' : AccountOf[b] \in accounts'
        /\ Written /\ Cascade /\ writes' = writes + 1 /\ UNCHANGED admin
    BY <1>6 DEF DeleteClient, Written, IInv, TablesOK
  <2> QED BY <1>4, <2>1, CascadeKeepsTables
<1>7. ASSUME NEW x \in Accounts, DeleteAccount(x) PROVE IInv'
  <2>1. /\ accounts' \subseteq accounts /\ clients' \subseteq clients
        /\ \A b \in clients' : AccountOf[b] \in accounts'
        /\ Written /\ Cascade /\ writes' = writes + 1 /\ UNCHANGED admin
    BY <1>7 DEF DeleteAccount, Written, IInv, TablesOK
  <2> QED BY <1>4, <2>1, CascadeKeepsTables
<1>8. ASSUME NEW a \in Admins, AdminStep(a) PROVE IInv'
  <2> DEFINE Survives == \A b \in Admins :
               admin'[b] = admin[b] => Checked(admin[b])' /\ StillTrue(admin[b])'
  (* A call that is only begun, or ends without a write.                   *)
  <2>1. ASSUME UNCHANGED store, NEW call, Goto(a, call), Checked(call), StillTrue(call)
        PROVE  IInv'
    <3>1. UNCHANGED <<accounts, clients, reserved, writes>>
      BY <2>1 DEF store
    <3>2. TablesOK'
      BY <3>1 DEF IInv, TablesOK
    <3>3. Checked(call)' /\ StillTrue(call)'
      BY <2>1, <3>1 DEF Checked, StillTrue
    <3>4. writes \in Nat /\ TablesOK /\ CallsOK
      BY DEF IInv, TablesOK
    <3>5. Survives
      BY <3>1, <3>4 DEF CallsOK, Checked, StillTrue
    <3> HIDE DEF Survives
    <3> QED BY <2>1, <3>2, <3>3, <3>4, <3>5, CallsAdvance DEF IInv, Survives
  (* A call that writes rows as an insert or an update does.               *)
  <2>2. ASSUME TablesOK', writes' = writes + 1, NEW call, Goto(a, call),
               call.op \notin {"create", "update", "pin"},
               \A m \in Names : reserved'[m] # NoOne =>
                 \/ /\ reserved[m] # NoOne
                    /\ reserved'[m].id = reserved[m].id
                    /\ reserved'[m].account = reserved[m].account
                 \/ reserved'[m].id > writes
        PROVE  IInv'
    <3>1. TablesOK /\ CallsOK /\ writes' \in Nat /\ writes <= writes'
      BY <2>2 DEF IInv, TablesOK
    <3>2. Survives
      BY <2>2, <3>1, CallsSurvive
    <3>3. Checked(call)' /\ StillTrue(call)'
      BY <2>2 DEF Checked, StillTrue
    <3> HIDE DEF Survives
    <3> QED BY <2>2, <3>1, <3>2, <3>3, CallsAdvance DEF IInv, Survives
  <2> HIDE DEF Survives
  <2>3. Checked(Idle) /\ StillTrue(Idle)
    BY DEF Checked, StillTrue, Idle
  <2>4. CASE CheckCreate(a)
    <3>1. PICK new \in Requests :
            /\ Belongs(new.client, new.account)
            /\ Goto(a, [op |-> "create", name |-> new.name, account |-> new.account,
                        client |-> new.client])
            /\ UNCHANGED store
      BY <2>4 DEF CheckCreate
    <3> DEFINE call == [op |-> "create", name |-> new.name, account |-> new.account,
                        client |-> new.client]
    <3>2. Checked(call) /\ StillTrue(call)
      BY <3>1 DEF Belongs, Checked, StillTrue, ReservationsAssumption
    <3> HIDE DEF call
    <3> QED BY <2>1, <3>1, <3>2 DEF call
  <2>5. CASE Create(a)
    <3>1. CASE Unwritten
      BY <2>1, <2>3, <2>5, <3>1 DEF Create, Finish, Unwritten, store
    <3>2. CASE Inserts(admin[a].name, admin[a].account, admin[a].client)
      <4>1. /\ admin[a].account \in Accounts /\ admin[a].client \in Clients \cup {NoOne}
            /\ admin[a].client # NoOne => AccountOf[admin[a].client] = admin[a].account
        BY <2>5 DEF Create, IInv, CallsOK, Checked
      <4>2. UNCHANGED <<accounts, clients>> /\ Goto(a, Idle) /\ writes' = writes + 1
        BY <2>5, <3>2 DEF Create, Finish, Inserts, Written
      <4>3. PICK n, account, c :
              n = admin[a].name /\ account = admin[a].account /\ c = admin[a].client
        OBVIOUS
      <4> QED BY <2>2, <3>2, <4>1, <4>2, <4>3, InsertKeepsTables DEF Idle
    <3> QED BY <2>5, <3>1, <3>2 DEF Create
  <2>6. CASE ReadUpdate(a)
    <3>1. PICK n \in Names, c \in Clients \cup {NoOne}, enabled \in BOOLEAN :
            /\ reserved[n] # NoOne
            /\ Belongs(c, reserved[n].account)
            /\ Goto(a, [op |-> "update", name |-> n, id |-> reserved[n].id, client |-> c,
                        enabled |-> enabled])
            /\ UNCHANGED store
      BY <2>6 DEF ReadUpdate
    <3>2. PICK id : id = reserved[n].id
      OBVIOUS
    <3> DEFINE call == [op |-> "update", name |-> n, id |-> id, client |-> c,
                        enabled |-> enabled]
    <3>3. id \in Nat /\ id <= writes
      BY <3>1, <3>2 DEF IInv, TablesOK, RowType
    <3>4. Checked(call)
      BY <3>3 DEF Checked
    <3>5. StillTrue(call)
      BY <3>1 DEF StillTrue, Belongs
    <3>6. Goto(a, call)
      BY <3>1, <3>2
    <3> HIDE DEF call
    <3> QED BY <2>1, <3>1, <3>4, <3>5, <3>6
  <2>7. CASE Update(a)
    <3>1. CASE Unwritten
      BY <2>1, <2>3, <2>7, <3>1 DEF Update, Finish, Unwritten, store
    <3>2. CASE ~Unwritten
      <4>1. PICK new : new = admin[a]
        OBVIOUS
      <4>2. /\ new.op = "update" /\ Checked(new) /\ StillTrue(new)
            /\ reserved[new.name] # NoOne /\ reserved[new.name].id = new.id
            /\ Exists(new.client) /\ writes' = writes + 1
            /\ reserved' = [reserved EXCEPT ![new.name].client = new.client,
                                            ![new.name].enabled = new.enabled]
            /\ UNCHANGED <<accounts, clients>> /\ Goto(a, Idle)
        BY <2>7, <3>2, <4>1 DEF Update, Written, Finish, IInv, CallsOK
      <4>3. ASSUME NEW m \in Names, m = new.name, reserved[m] \in RowType
            PROVE  /\ reserved'[m] \in RowType
                   /\ reserved'[m].id = reserved[m].id
                   /\ reserved'[m].account = reserved[m].account
                   /\ reserved'[m].client = new.client
        <5>1. /\ new.client \in Clients \cup {NoOne} /\ new.enabled \in BOOLEAN
              /\ reserved \in [Names -> RowType \cup {NoOne}]
          BY <4>2 DEF Checked, IInv, TablesOK
        <5>2. reserved'[m] = [reserved[m] EXCEPT !.client = new.client,
                                                 !.enabled = new.enabled]
          BY <4>2, <4>3, <5>1
        <5> QED BY <4>3, <5>1, <5>2 DEF RowType
      <4>4. ASSUME NEW m \in Names, m # new.name
            PROVE  reserved'[m] = reserved[m]
        BY <4>2, <4>4 DEF IInv, TablesOK
      <4>5. ASSUME NEW m \in Names, reserved'[m] # NoOne
            PROVE  /\ reserved[m] # NoOne /\ reserved[m] \in RowType
                   /\ reserved'[m] \in RowType
                   /\ reserved'[m].id = reserved[m].id
                   /\ reserved'[m].account = reserved[m].account
                   /\ reserved'[m].client # NoOne =>
                        /\ reserved'[m].client \in clients
                        /\ AccountOf[reserved'[m].client] = reserved[m].account
        <5>1. CASE m = new.name
          <6>1. reserved[m] # NoOne /\ reserved[m] \in RowType
            BY <4>2, <5>1 DEF IInv, TablesOK
          <6>2. new.client # NoOne => /\ new.client \in clients
                                      /\ AccountOf[new.client] = reserved[m].account
            BY <4>2, <5>1, <6>1 DEF StillTrue, Exists
          <6> QED BY <4>3, <5>1, <6>1, <6>2
        <5>2. CASE m # new.name
          BY <4>4, <4>5, <5>2 DEF IInv, TablesOK
        <5> QED BY <5>1, <5>2
      <4>6. reserved' \in [Names -> RowType \cup {NoOne}]
        <5>1. DOMAIN reserved' = Names /\ reserved' = [m \in Names |-> reserved'[m]]
          BY <4>2 DEF IInv, TablesOK
        <5>2. \A m \in Names : reserved'[m] \in RowType \cup {NoOne}
          BY <4>5
        <5> QED BY <5>1, <5>2
      <4>7. ASSUME NEW m \in Names, reserved'[m] # NoOne
            PROVE  reserved'[m].id <= writes' /\ reserved'[m].account \in accounts
        <5>1. /\ reserved[m].id \in Nat /\ reserved[m].id <= writes /\ writes \in Nat
              /\ reserved[m].account \in accounts
          BY <4>5, <4>7 DEF IInv, TablesOK, RowType
        <5>2. /\ reserved'[m].id = reserved[m].id /\ reserved'[m].account = reserved[m].account
              /\ writes' = writes + 1
          BY <4>2, <4>5, <4>7
        <5>3. reserved[m].id <= writes + 1
          BY <5>1
        <5> QED BY <5>1, <5>2, <5>3
      <4>8. TablesOK'
        <5>1. /\ accounts' \subseteq Accounts /\ clients' \subseteq Clients
              /\ \A c \in clients' : AccountOf[c] \in accounts'
              /\ writes' \in Nat
          BY <4>2 DEF IInv, TablesOK
        <5> QED BY SMTT(30), <5>1, <4>2, <4>5, <4>6, <4>7 DEF TablesOK
      <4> QED BY <2>2, <4>2, <4>5, <4>8 DEF Idle
    <3> QED BY <3>1, <3>2
  <2>8. ASSUME NEW n \in Names, StartPin(a, n) PROVE IInv'
    <3>1. PICK m, session, c :
            /\ c \in clients /\ UNCHANGED store
            /\ Goto(a, [op |-> "pin", from |-> n, session |-> session, name |-> m, client |-> c])
      BY <2>8 DEF StartPin
    <3> DEFINE call == [op |-> "pin", from |-> n, session |-> session, name |-> m, client |-> c]
    <3>2. Checked(call) /\ StillTrue(call)
      BY <3>1 DEF Checked, StillTrue, IInv, TablesOK
    <3> HIDE DEF call
    <3> QED BY <2>1, <3>1, <3>2 DEF call
  <2>9. CASE Pin(a)
    <3>1. PICK pin : pin = admin[a]
      OBVIOUS
    <3>2. CASE Unwritten /\ Finish(a)
      BY <2>1, <2>3, <2>9, <3>2 DEF Pin, Finish, Unwritten, store
    <3>3. CASE /\ Inserts(pin.name, AccountOf[pin.client], pin.client)
               /\ Goto(a, [op |-> "link", from |-> pin.from, session |-> pin.session,
                           name |-> pin.name, id |-> writes'])
      <4>1. PICK call : /\ call.op = "link" /\ Goto(a, call)
        BY <3>3
      <4>2. pin.client \in Clients /\ AccountOf[pin.client] \in Accounts
        BY <2>9, <3>1 DEF Pin, IInv, CallsOK, Checked, ReservationsAssumption
      <4>3. UNCHANGED <<accounts, clients>> /\ writes' = writes + 1
        BY <2>9, <3>3 DEF Pin, Inserts, Written
      <4> QED BY <2>2, <3>3, <4>1, <4>2, <4>3, InsertKeepsTables
    <3> QED BY <2>9, <3>1, <3>2, <3>3 DEF Pin
  <2>10. CASE Link(a)
    <3>1. PICK call : call.op = "rebind" /\ Goto(a, call) /\ UNCHANGED store
      BY <2>10 DEF Link
    <3> QED BY <2>1, <3>1 DEF Checked, StillTrue
  <2>11. CASE Rebind(a)
    BY <2>1, <2>3, <2>11 DEF Rebind, Finish
  <2> QED BY <1>8, <2>4, <2>5, <2>6, <2>7, <2>8, <2>9, <2>10, <2>11 DEF AdminStep
<1>9. \A x \in Removable : x \in Accounts
  BY DEF ReservationsAssumption
<1> QED BY <1>1, <1>2, <1>3, <1>5, <1>6, <1>7, <1>8, <1>9 DEF Next

(* The tables start full and nothing is reserved or in progress.           *)
LEMMA InitOK == Init => IInv
BY ReservationsAssumption
   DEF Init, IInv, TablesOK, CallsOK, Checked, StillTrue, Idle, ReservationsAssumption

(* A reservation never outlives its account and is only ever bound to a    *)
(* credential of that account that exists, however many handlers check and *)
(* write at once and whatever is deleted in between.                       *)
THEOREM BoundCorrect == Spec => []BoundWithinAccount
<1>1. IInv => BoundWithinAccount
  BY DEF IInv, TablesOK, BoundWithinAccount
<1> QED BY <1>1, InitOK, StepPreserves, PTL DEF Spec

----------------------------------------------------------------------------
(* ReservedToOwner, from what a registration in progress carries: it binds *)
(* a row only if the row lets the credential have it. A row found by name  *)
(* was checked then; a row listed for the credential is enabled and bound  *)
(* to it, and so in its account only because BoundWithinAccount holds.     *)
Entitles(r, t) == r.row = NoOne \/ Entitled(r.row, conf[t].client)

Carried ==
  /\ phase = [t \in Tunnels |-> phase[t]] /\ res = [t \in Tunnels |-> res[t]]
  /\ todo = [t \in Tunnels |-> todo[t]] /\ live = [n \in Names |-> live[n]]
  /\ \A t \in Tunnels :
       /\ phase[t] = "claiming" => Entitles(res[t], t)
       /\ \A r \in todo[t] : r.row \in RowType /\ Entitles(r, t)

Moves(t, p, r, d) ==
  /\ phase' = [phase EXCEPT ![t] = p] /\ res' = [res EXCEPT ![t] = r]
  /\ todo' = [todo EXCEPT ![t] = d]

(* A step of one tunnel that ends in a registration it may carry.          *)
LEMMA TunnelCarries ==
  ASSUME Carried, NEW t \in Tunnels, NEW p, NEW r, NEW d,
         Moves(t, p, r, d), p = "claiming" => Entitles(r, t),
         \A q \in d : q.row \in RowType /\ Entitles(q, t),
         live' = [n \in Names |-> live'[n]], UNCHANGED conf
  PROVE  Carried'
<1>1. /\ phase' = [u \in Tunnels |-> phase'[u]] /\ res' = [u \in Tunnels |-> res'[u]]
      /\ todo' = [u \in Tunnels |-> todo'[u]]
  BY DEF Carried, Moves
<1>2. ASSUME NEW u \in Tunnels
      PROVE  /\ phase'[u] = "claiming" => Entitles(res[u], u)'
             /\ \A q \in todo'[u] : q.row \in RowType /\ Entitles(q, u)'
  <2>1. CASE u = t
    <3>1. phase'[u] = p /\ res'[u] = r /\ todo'[u] = d
      BY <2>1 DEF Carried, Moves
    <3> QED BY <2>1, <3>1 DEF Entitles
  <2>2. CASE u # t
    <3>1. phase'[u] = phase[u] /\ res'[u] = res[u] /\ todo'[u] = todo[u]
      BY <2>2 DEF Carried, Moves
    <3> QED BY <3>1 DEF Carried, Entitles
  <2> QED BY <2>1, <2>2
<1> QED BY <1>1, <1>2 DEF Carried

(* What Down does, to end a registration or to begin one again.            *)
LEMMA DownCarries ==
  ASSUME Carried, NEW t \in Tunnels, NEW p, p # "claiming", Down(t, p),
         live' = [n \in Names |-> live'[n]], UNCHANGED conf
  PROVE  Carried'
<1>1. Moves(t, p, NoOne, {})
  BY DEF Down, Moves
<1> QED BY <1>1, TunnelCarries

LEMMA ResolvedCarries ==
  ASSUME Carried, NEW t \in Tunnels, NEW r, Entitles(r, t), Resolved(t, r),
         UNCHANGED <<live, conf>>
  PROVE  Carried'
<1>1. Moves(t, "claiming", r, {})
  BY DEF Resolved, Moves
<1>2. live' = [n \in Names |-> live'[n]] /\ UNCHANGED conf
  BY DEF Carried
<1> QED BY <1>1, <1>2, TunnelCarries

(* Steps that are not of the registration, and leave the live table a      *)
(* table.                                                                  *)
LEMMA ElsewhereCarries ==
  ASSUME Carried, UNCHANGED <<phase, res, todo, conf>>, live' = [n \in Names |-> live'[n]]
  PROVE  Carried'
BY DEF Carried, Entitles

LEMMA CarriedPreserved == IInv /\ Carried /\ [Next]_vars => Carried'
<1> SUFFICES ASSUME IInv, Carried, [Next]_vars PROVE Carried'
  OBVIOUS
<1>1. UNCHANGED live => live' = [n \in Names |-> live'[n]]
  BY DEF Carried
<1>2. CASE UNCHANGED vars
  BY <1>1, <1>2, ElsewhereCarries DEF vars, client, server, fixed
<1>3. ASSUME NEW t \in Tunnels, ClientStep(t) PROVE Carried'
  <2>1. CASE Connect(t)
    <3>1. CASE conf[t].client \in clients \cup {NoOne}
      <4>1. PICK r, d : r = res[t] /\ d = todo[t]
        OBVIOUS
      <4>2. Moves(t, "known", r, d)
        BY <2>1, <3>1, <4>1 DEF Connect, Moves, Carried
      <4>3. \A q \in d : q.row \in RowType /\ Entitles(q, t)
        BY <4>1 DEF Carried
      <4> QED BY <2>1, <1>1, <4>2, <4>3, TunnelCarries DEF Connect, server, fixed
    <3>2. CASE GiveUp(t)
      BY <2>1, <3>2, <1>1, DownCarries DEF GiveUp, Connect, server, fixed
    <3> QED BY <2>1, <3>1, <3>2 DEF Connect
  <2>2. CASE ResolveNamed(t)
    <3>1. UNCHANGED <<live, conf>>
      BY <2>2 DEF ResolveNamed, server, fixed
    <3>2. CASE GiveUp(t) \/ Retry(t)
      BY <3>1, <3>2, <1>1, DownCarries DEF GiveUp, Retry
    <3>3. CASE \E r : Entitles(r, t) /\ Resolved(t, r)
      BY <3>1, <3>3, ResolvedCarries
    <3>4. CASE Unreserved(t)
      <4>1. PICK n : n = ask[t]
        OBVIOUS
      <4>2. Entitles(Resolution(n, NoOne), t)
        BY DEF Entitles, Resolution
      <4> QED BY <3>2, <3>3, <3>4, <4>1, <4>2 DEF Unreserved
    <3>5. CASE Entitled(Found(t), conf[t].client) /\ Resolved(t, Resolution(ask[t], Found(t)))
      <4>1. PICK r : r = Resolution(ask[t], Found(t))
        OBVIOUS
      <4>2. Entitles(r, t)
        BY <3>5, <4>1 DEF Entitles, Resolution
      <4> QED BY <3>3, <3>5, <4>1, <4>2
    <3> QED BY <2>2, <3>2, <3>4, <3>5 DEF ResolveNamed
  <2>3. CASE ListOwned(t)
    <3>1. UNCHANGED <<live, conf>>
      BY <2>3 DEF ListOwned, server, fixed
    <3>2. CASE Unreserved(t)
      <4>1. PICK n : n = ask[t]
        OBVIOUS
      <4>2. Entitles(Resolution(n, NoOne), t)
        BY DEF Entitles, Resolution
      <4>3. CASE Retry(t)
        BY <3>1, <4>3, <1>1, DownCarries DEF Retry
      <4>4. CASE Resolved(t, Resolution(n, NoOne))
        BY <3>1, <4>2, <4>4, ResolvedCarries
      <4> QED BY <3>2, <4>1, <4>3, <4>4 DEF Unreserved
    <3>3. CASE ~Unreserved(t)
      <4>1. PICK d : d = {Resolution(n, reserved[n]) : n \in Owned(t)}
        OBVIOUS
      <4>2. PICK r : r = res[t]
        OBVIOUS
      <4>3. Moves(t, "probing", r, d)
        BY <2>3, <3>3, <4>1, <4>2 DEF ListOwned, Moves, Carried
      <4>4. ASSUME NEW n \in Owned(t)
            PROVE  reserved[n] \in RowType /\ Entitled(reserved[n], conf[t].client)
        <5>1. /\ n \in Names /\ conf[t].client # NoOne /\ reserved[n] # NoOne
              /\ reserved[n].client = conf[t].client /\ reserved[n].enabled
          BY <4>4 DEF Owned, Family, Names
        <5>2. reserved[n] \in RowType /\ reserved[n].account = AccountOf[conf[t].client]
          BY <5>1 DEF IInv, TablesOK
        <5> QED BY <5>1, <5>2 DEF Entitled, Foreign, Account
      <4>5. \A q \in d : q.row \in RowType /\ Entitles(q, t)
        BY <4>1, <4>4 DEF Resolution, Entitles
      <4> QED BY <3>1, <1>1, <4>3, <4>5, TunnelCarries
    <3> QED BY <3>2, <3>3
  <2>4. CASE Probe(t)
    <3>1. UNCHANGED <<live, conf>>
      BY <2>4 DEF Probe, server, fixed
    <3>2. CASE Retry(t)
      BY <3>1, <3>2, <1>1, DownCarries DEF Retry
    <3>3. CASE \E r \in todo[t] : Resolved(t, r)
      BY <3>1, <3>3, ResolvedCarries DEF Carried
    <3>4. ASSUME NEW r \in todo[t], todo' = [todo EXCEPT ![t] = @ \ {r}],
                 UNCHANGED <<phase, res>>, phase[t] = "probing"
          PROVE  Carried'
      <4>1. PICK q, d : q = res[t] /\ d = todo[t] \ {r}
        OBVIOUS
      <4>2. Moves(t, "probing", q, d)
        BY <3>4, <4>1 DEF Moves, Carried
      <4>3. \A s \in d : s.row \in RowType /\ Entitles(s, t)
        BY <4>1 DEF Carried
      <4> QED BY <3>1, <1>1, <4>2, <4>3, TunnelCarries
    <3> QED BY <2>4, <3>2, <3>3, <3>4 DEF Probe
  <2>5. CASE QueryFails(t)
    BY <2>5, <1>1, DownCarries DEF QueryFails, Retry, server, fixed
  <2>6. ASSUME NEW offer, NEW heard, Install(t, offer, heard), NEW p, p # "claiming",
               Down(t, p), UNCHANGED conf
        PROVE  Carried'
    <3>1. live' = [n \in Names |-> live'[n]]
      BY <2>6 DEF Install, Carried
    <3> QED BY <2>6, <3>1, DownCarries
  <2>7. CASE Claim(t)
    BY <2>6, <2>7 DEF Claim, fixed
  <2>8. CASE ClaimUnheard(t)
    BY <2>6, <2>8 DEF ClaimUnheard, Retry, fixed
  <2>9. CASE ClaimRefused(t)
    BY <2>9, <1>1, DownCarries DEF ClaimRefused, Retry, GiveUp, server, fixed
  <2>10. CASE OpenControl(t)
    <3>1. live' = [n \in Names |-> live'[n]]
      BY <2>10 DEF OpenControl, Carried
    <3> QED BY <2>10, <3>1, ElsewhereCarries DEF OpenControl, client, fixed
  <2>11. ASSUME Leave(t), UNCHANGED conf PROVE Carried'
    <3>1. live' = [n \in Names |-> live'[n]]
      BY <2>11 DEF Leave
    <3> QED BY <2>11, <3>1, DownCarries DEF Leave
  <2>12. CASE Drop(t)
    BY <2>11, <2>12 DEF Drop, fixed
  <2>13. CASE Receive(t)
    BY <2>11, <2>13 DEF Receive, fixed
  <2> QED BY <1>3, <2>1, <2>2, <2>3, <2>4, <2>5, <2>7, <2>8, <2>9, <2>10, <2>12, <2>13
          DEF ClientStep
<1>4. ASSUME NEW a \in Admins, AdminStep(a) PROVE Carried'
  <2>1. UNCHANGED <<phase, res, todo, conf>>
    BY <1>4 DEF AdminStep, CheckCreate, Create, ReadUpdate, Update, StartPin, Pin, Link, Rebind,
      client, fixed
  <2>2. live' = [n \in Names |-> live'[n]]
    <3>1. CASE Rebind(a)
      BY <3>1 DEF Rebind, Carried
    <3>2. CASE ~Rebind(a)
      BY <1>1, <1>4, <3>2 DEF AdminStep, CheckCreate, Create, ReadUpdate, Update, StartPin,
        Pin, Link, server
    <3> QED BY <3>1, <3>2
  <2> QED BY <2>1, <2>2, ElsewhereCarries
<1>5. ASSUME NEW n \in Names, Teardown(n) PROVE Carried'
  <2>1. live' = [m \in Names |-> live'[m]]
    BY <1>5 DEF Teardown, Carried
  <2> QED BY <1>5, <2>1, ElsewhereCarries DEF Teardown, client, fixed
<1>6. CASE \E n \in Names : Delete(n)
  BY <1>1, <1>6, ElsewhereCarries DEF Delete, client, server, fixed
<1>7. CASE \E c \in Clients : DeleteClient(c)
  BY <1>1, <1>7, ElsewhereCarries DEF DeleteClient, client, server, fixed
<1>8. CASE \E x \in Removable : DeleteAccount(x)
  BY <1>1, <1>8, ElsewhereCarries DEF DeleteAccount, client, server, fixed
<1> QED BY <1>2, <1>3, <1>4, <1>5, <1>6, <1>7, <1>8 DEF Next

(* Only a claim fills a name that was free, with a session of the tunnel   *)
(* whose registration it ends.                                             *)
LEMMA OnlyClaimsFill ==
  ASSUME Carried, Next,
         NEW n \in Names, live[n] = NoOne, live'[n] # live[n],
         NEW t \in Tunnels, live'[n].tunnel = t
  PROVE  phase[t] = "claiming"
<1>1. ASSUME NEW u \in Tunnels, NEW heard,
             \E offer \in Offers(u) : live[offer.name] = NoOne /\ Install(u, offer, heard)
      PROVE  u = t
  <2>1. PICK offer : live' = [live EXCEPT ![offer.name] =
                [tunnel |-> u, heard |-> heard, via |-> Via(res[u]), port |-> offer.port,
                 control |-> FALSE, told |-> NoOne]]
    BY <1>1 DEF Install
  <2>2. live'[n] = [tunnel |-> u, heard |-> heard, via |-> Via(res[u]), port |-> offer.port,
                    control |-> FALSE, told |-> NoOne]
    BY <2>1 DEF Carried
  <2> QED BY <2>2
<1>2. ASSUME NEW u \in Tunnels, ClientStep(u) PROVE phase[t] = "claiming"
  <2>1. CASE Claim(u)
    BY <1>1, <2>1 DEF Claim
  <2>2. CASE ClaimUnheard(u)
    BY <1>1, <2>2 DEF ClaimUnheard
  <2>3. ~OpenControl(u)
    BY DEF OpenControl, InSession, Carried
  <2>4. ~Leave(u)
    BY DEF Leave, InSession
  <2> QED BY <1>2, <2>1, <2>2, <2>3, <2>4 DEF ClientStep, Connect, ResolveNamed, ListOwned, Probe,
          QueryFails, ClaimRefused, Drop, Receive, server
<1>3. ASSUME NEW a \in Admins, AdminStep(a) PROVE FALSE
  <2>1. ~Rebind(a)
    BY DEF Rebind, Carried
  <2> QED BY <1>3, <2>1 DEF AdminStep, CheckCreate, Create, ReadUpdate, Update, StartPin,
          Pin, Link, server
<1>4. ASSUME NEW m \in Names, Teardown(m) PROVE FALSE
  BY <1>4 DEF Teardown, Carried
<1>5. ASSUME UNCHANGED live PROVE FALSE
  BY <1>5
<1> QED BY <1>2, <1>3, <1>4, <1>5 DEF Next, Delete, DeleteClient, DeleteAccount, server

(* Nothing is in progress at the start.                                    *)
LEMMA InitCarried == Init => Carried
BY DEF Init, Carried

(* A tunnel that comes to hold a name or a port by the reservation it      *)
(* resolved is of its account, and of its credential where it is bound to  *)
(* one, in whatever order tunnels register and handlers write.             *)
THEOREM OwnerCorrect == Spec => ReservedToOwner
<1> DEFINE Taken(t, n) ==
      /\ live'[n] # live[n] /\ live[n] = NoOne /\ live'[n].tunnel = t
      /\ res[t].name = n /\ n \in Family(t)
      /\ res[t].row = reserved[n] /\ reserved[n] # NoOne
<1> DEFINE Rightful(t, n) ==
      LET row == reserved[n]  c == conf[t].client IN
            /\ c # NoOne /\ row.account = AccountOf[c]
            /\ row.enabled /\ row.client \in {NoOne, c}
<1>1. ASSUME Carried, [Next]_vars, NEW t \in Tunnels, NEW n \in Names, Taken(t, n)
      PROVE  Rightful(t, n)
  <2>1. Next
    BY <1>1 DEF vars, server
  <2>2. phase[t] = "claiming"
    BY <1>1, <2>1, OnlyClaimsFill
  <2>3. Entitled(reserved[n], conf[t].client)
    BY <1>1, <2>2 DEF Carried, Entitles
  <2> QED BY <2>3 DEF Entitled, Foreign, Account
<1>2. Carried /\ [Next]_vars =>
        [\A t \in Tunnels, n \in Names : Taken(t, n) => Rightful(t, n)]_vars
  BY <1>1
<1> QED BY <1>2, InitOK, StepPreserves, InitCarried, CarriedPreserved, PTL
        DEF Spec, ReservedToOwner
----------------------------------------------------------------------------
(* LinksOwnName and ClosedFleet, from one observation: an id is only ever  *)
(* given to one reservation, so that every id that a registration, a       *)
(* session, a row or a call in progress carries can be read as a name. f   *)
(* is that reading; it exists in every state, and an insert extends it.    *)
Books == [1 .. MaxWrites -> Names \cup {NoOne}]
Known(f, id, n) == id \in 1 .. writes /\ f[id] = n

(* A resolution that found a row found the row of its name.                *)
Filed(f, r, t) ==
  /\ r.row # NoOne /\ r.name \in Family(t)
  /\ Known(f, r.row.id, r.name)

(* The records in the two tables of sessions.                              *)
IsSession(s) ==
  s = [tunnel |-> s.tunnel, heard |-> s.heard, via |-> s.via, port |-> s.port,
       control |-> s.control, told |-> s.told]
IsRow(r) ==
  /\ r = [id |-> r.id, client |-> r.client, link |-> r.link, port |-> r.port]
  /\ r.port \in PortNames \cup {NoOne}

(* What registrations carry, and what sessions were installed with: with a *)
(* closed fleet nothing comes without a reservation.                       *)
RegistrationsFiled(f) ==
  \A t \in Tunnels :
    /\ phase[t] = "claiming" =>
         IF res[t].row = NoOne THEN ~closed ELSE Filed(f, res[t], t)
    /\ \A r \in todo[t] : Filed(f, r, t)

SessionsFiled(f) ==
  \A n \in Names : live[n] # NoOne =>
    /\ IsSession(live[n])
    /\ IF live[n].via = NoOne THEN ~closed ELSE Known(f, live[n].via, n)

(* A row is linked to a reservation of its own name or port; a pin in      *)
(* progress names a target of the session it read, while that session is   *)
(* still there.                                                            *)
RowsFiled(f) ==
  \A n \in Names : rows[n] # NoOne =>
    /\ IsRow(rows[n])
    /\ rows[n].link # NoOne =>
         Known(f, rows[n].link, n) \/ Known(f, rows[n].link, rows[n].port)

PinFiled(f, call) ==
  call.op \in {"pin", "link"} =>
    /\ call.op = "link" => Known(f, call.id, call.name)
    /\ \A n \in Names :
         (call.from = n /\ rows[n] # NoOne /\ rows[n].id = call.session)
           => call.name \in PinTargets(n)

Named(call) == call.op \in {"create", "pin"} => call.name \in Names

Filing(f) ==
  /\ \A n \in Names : reserved[n] # NoOne => Known(f, reserved[n].id, n)
  /\ RegistrationsFiled(f) /\ SessionsFiled(f) /\ RowsFiled(f)
  /\ \A a \in Admins : Named(admin[a]) /\ PinFiled(f, admin[a])

Filings ==
  /\ writes \in 0 .. MaxWrites /\ rows = [n \in Names |-> rows[n]]
  /\ \E f \in Books : Filing(f)

(* A session is never given the id that a pin in progress refers to: there *)
(* are more ids than handlers.                                             *)
LEMMA FreshSession ==
  ASSUME NEW n
  PROVE  NewSession(n) \notin Pinning(n)
<1> DEFINE S == {b \in Admins : admin[b].op \in {"pin", "link"} /\ admin[b].from = n}
<1> DEFINE f == [b \in S |-> admin[b].session]
<1>1. IsFiniteSet(Admins) /\ IsFiniteSet(S) /\ Cardinality(S) <= Cardinality(Admins)
  BY ReservationsAssumption, FS_Subset
<1>2. f \in Surjection(S, Pinning(n))
  BY DEF Surjection, Pinning
<1> HIDE DEF f, S
<1>3. IsFiniteSet(Pinning(n)) /\ Cardinality(Pinning(n)) <= Cardinality(S)
  BY <1>1, <1>2, FS_Surjection
<1>4. /\ Cardinality(Admins) \in Nat /\ Cardinality(S) \in Nat
      /\ Cardinality(Pinning(n)) \in Nat
  BY <1>1, <1>3, FS_CardinalityType
<1>5. Cardinality(SessionIds) = Cardinality(Admins) + 1
  BY <1>4, FS_Interval DEF SessionIds
<1>6. ~(SessionIds \subseteq Pinning(n))
  BY <1>1, <1>3, <1>4, <1>5, FS_Subset
<1>7. \E i \in SessionIds : i \notin Pinning(n)
  BY <1>6
<1> QED BY <1>7 DEF NewSession

(* What was known stays known while ids are only added.                    *)
Extends(f, g) == \A id, n : Known(f, id, n) => Known(g, id, n)'

LEMMA SameBook ==
  ASSUME NEW f, UNCHANGED writes
  PROVE  Extends(f, f)
BY DEF Extends, Known

LEMMA ResolutionsKept ==
  ASSUME NEW f, NEW g, Extends(f, g), RegistrationsFiled(f),
         UNCHANGED <<phase, res, todo, conf, closed>>
  PROVE  RegistrationsFiled(g)'
BY DEF RegistrationsFiled, Filed, Extends, Family, IsTCP

LEMMA SessionsKept ==
  ASSUME NEW f, NEW g, Extends(f, g), SessionsFiled(f), UNCHANGED closed,
         \A n \in Names : live'[n] # NoOne =>
           /\ live[n] # NoOne /\ IsSession(live'[n]) /\ live'[n].via = live[n].via
  PROVE  SessionsFiled(g)'
<1> SUFFICES ASSUME NEW n \in Names, live'[n] # NoOne
             PROVE  /\ IsSession(live'[n])
                    /\ IF live'[n].via = NoOne THEN ~closed' ELSE Known(g, live[n].via, n)'
  BY DEF SessionsFiled, IsSession
<1>1. live[n] # NoOne /\ IsSession(live'[n]) /\ live'[n].via = live[n].via
  OBVIOUS
<1> QED BY <1>1 DEF SessionsFiled, Extends

LEMMA RowsKept ==
  ASSUME NEW f, NEW g, Extends(f, g), RowsFiled(f),
         \A n \in Names : rows'[n] = rows[n] \/ rows'[n] = NoOne
  PROVE  RowsFiled(g)'
BY DEF RowsFiled, Extends, IsRow

LEMMA PinKept ==
  ASSUME NEW f, NEW g, Extends(f, g), NEW call, PinFiled(f, call),
         \A n \in Names : rows'[n] # NoOne /\ rows'[n].id = call.session /\ call.from = n =>
           rows[n] # NoOne /\ rows[n].id = call.session /\ rows'[n].port = rows[n].port
  PROVE  PinFiled(g, call)'
<1> SUFFICES ASSUME call.op \in {"pin", "link"}
             PROVE  /\ call.op = "link" => Known(g, call.id, call.name)'
                    /\ \A n \in Names :
                         (call.from = n /\ rows'[n] # NoOne /\ rows'[n].id = call.session)
                           => call.name \in PinTargets(n)'
  BY DEF PinFiled
<1>1. call.op = "link" => Known(g, call.id, call.name)'
  BY DEF PinFiled, Extends
<1>2. ASSUME NEW n \in Names, call.from = n, rows'[n] # NoOne, rows'[n].id = call.session
      PROVE  call.name \in PinTargets(n)'
  <2>1. rows[n] # NoOne /\ rows[n].id = call.session /\ rows'[n].port = rows[n].port
    BY <1>2
  <2> QED BY <1>2, <2>1 DEF PinFiled, PinTargets
<1> QED BY <1>1, <1>2

----------------------------------------------------------------------------
(* Registrations.                                                          *)
Files(f, r, t) == IF r.row = NoOne THEN ~closed ELSE Filed(f, r, t)

LEMMA RegistrationMoves ==
  ASSUME Carried, NEW f, RegistrationsFiled(f), NEW t \in Tunnels, NEW p, NEW r, NEW d,
         Moves(t, p, r, d), p = "claiming" => Files(f, r, t), \A q \in d : Filed(f, q, t),
         UNCHANGED <<conf, closed, writes>>
  PROVE  RegistrationsFiled(f)'
<1>1. ASSUME NEW u \in Tunnels
      PROVE  /\ phase'[u] = "claiming" => Files(f, res[u], u)'
             /\ \A q \in todo'[u] : Filed(f, q, u)'
  <2>1. CASE u = t
    <3>1. phase'[u] = p /\ res'[u] = r /\ todo'[u] = d
      BY <2>1 DEF Carried, Moves
    <3> QED BY <2>1, <3>1 DEF Files, Filed, Known, Family, IsTCP
  <2>2. CASE u # t
    <3>1. phase'[u] = phase[u] /\ res'[u] = res[u] /\ todo'[u] = todo[u]
      BY <2>2 DEF Carried, Moves
    <3> QED BY <3>1 DEF RegistrationsFiled, Files, Filed, Known, Family, IsTCP
  <2> QED BY <2>1, <2>2
<1> QED BY <1>1 DEF RegistrationsFiled, Files, Filed, Known

LEMMA DownFiles ==
  ASSUME Carried, NEW f, RegistrationsFiled(f), NEW t \in Tunnels, NEW p, p # "claiming",
         Down(t, p), UNCHANGED <<conf, closed, writes>>
  PROVE  RegistrationsFiled(f)'
<1>1. Moves(t, p, NoOne, {})
  BY DEF Down, Moves
<1> QED BY <1>1, RegistrationMoves

LEMMA ResolvedFiles ==
  ASSUME Carried, NEW f, RegistrationsFiled(f), NEW t \in Tunnels, NEW r, Files(f, r, t),
         Resolved(t, r), UNCHANGED <<conf, closed, writes>>
  PROVE  RegistrationsFiled(f)'
<1>1. Moves(t, "claiming", r, {})
  BY DEF Resolved, Moves
<1> QED BY <1>1, RegistrationMoves

(* With a closed fleet no registration goes on without a reservation.      *)
LEMMA UnreservedFiles ==
  ASSUME Carried, NEW f, RegistrationsFiled(f), NEW t \in Tunnels, Unreserved(t),
         UNCHANGED <<conf, closed, writes>>
  PROVE  RegistrationsFiled(f)'
<1>1. CASE Retry(t)
  BY <1>1, DownFiles DEF Retry
<1>2. CASE ~closed /\ Resolved(t, Resolution(ask[t], NoOne))
  <2>1. Files(f, Resolution(ask[t], NoOne), t)
    BY <1>2 DEF Files, Resolution
  <2> QED BY <1>2, <2>1, ResolvedFiles
<1> QED BY <1>1, <1>2 DEF Unreserved

(* A row found where its name is looked up is on file under that name.     *)
LEMMA FoundFiled ==
  ASSUME NEW f, \A m \in Names : reserved[m] # NoOne => Known(f, reserved[m].id, m),
         NEW t, NEW n, n \in Family(t), reserved[n] # NoOne
  PROVE  Filed(f, Resolution(n, reserved[n]), t)
<1>1. n \in Names
  BY DEF Family, Names
<1> QED BY <1>1 DEF Filed, Resolution

(* The steps of a registration up to its claim.                            *)
LEMMA ResolvingFiles ==
  ASSUME Carried, NEW f, Filing(f), NEW t \in Tunnels,
         \/ Connect(t) \/ ResolveNamed(t) \/ ListOwned(t) \/ Probe(t)
         \/ QueryFails(t) \/ ClaimRefused(t)
  PROVE  RegistrationsFiled(f)'
<1> RegistrationsFiled(f) /\ \A m \in Names : reserved[m] # NoOne => Known(f, reserved[m].id, m)
  BY DEF Filing
<1>0. UNCHANGED <<conf, closed, writes>>
  BY DEF Connect, ResolveNamed, ListOwned, Probe, QueryFails, ClaimRefused, store, fixed
<1>1. CASE GiveUp(t) \/ Retry(t)
  BY <1>0, <1>1, DownFiles DEF GiveUp, Retry
<1>2. CASE Unreserved(t)
  BY <1>0, <1>2, UnreservedFiles
<1>3. CASE Connect(t) /\ ~GiveUp(t)
  <2>1. PICK r, d : r = res[t] /\ d = todo[t]
    OBVIOUS
  <2>2. Moves(t, "known", r, d)
    BY <1>3, <2>1 DEF Connect, Moves, Carried
  <2>3. \A q \in d : Filed(f, q, t)
    BY <2>1 DEF RegistrationsFiled
  <2> QED BY <1>0, <2>2, <2>3, RegistrationMoves
<1>4. CASE ResolveNamed(t) /\ Found(t) # NoOne /\ Resolved(t, Resolution(ask[t], Found(t)))
  <2>1. PICK n, r : n = ask[t] /\ r = Resolution(n, Found(t))
    OBVIOUS
  <2>2. n \in Family(t) /\ Found(t) = reserved[n]
    BY <1>4, <2>1 DEF Found
  <2>3. Filed(f, r, t)
    BY <1>4, <2>1, <2>2, FoundFiled
  <2>4. Files(f, r, t)
    BY <2>3 DEF Files, Filed
  <2> QED BY <1>0, <1>4, <2>1, <2>4, ResolvedFiles
<1>5. CASE ListOwned(t) /\ ~Unreserved(t)
  <2>1. PICK r, d : r = res[t] /\ d = {Resolution(n, reserved[n]) : n \in Owned(t)}
    OBVIOUS
  <2>2. Moves(t, "probing", r, d)
    BY <1>5, <2>1 DEF ListOwned, Moves, Carried
  <2>3. \A n \in Owned(t) : n \in Family(t) /\ reserved[n] # NoOne
    BY DEF Owned
  <2>4. \A q \in d : Filed(f, q, t)
    BY <2>1, <2>3, FoundFiled
  <2> QED BY <1>0, <2>2, <2>4, RegistrationMoves
<1>6. ASSUME NEW r \in todo[t], Resolved(t, r) PROVE RegistrationsFiled(f)'
  <2>1. Files(f, r, t)
    BY DEF Files, Filed, RegistrationsFiled
  <2> QED BY <1>0, <1>6, <2>1, ResolvedFiles
<1>7. ASSUME NEW r \in todo[t], todo' = [todo EXCEPT ![t] = @ \ {r}],
             UNCHANGED <<phase, res>>, phase[t] = "probing"
      PROVE  RegistrationsFiled(f)'
  <2>1. PICK q, d : q = res[t] /\ d = todo[t] \ {r}
    OBVIOUS
  <2>2. Moves(t, "probing", q, d)
    BY <1>7, <2>1 DEF Moves, Carried
  <2>3. \A s \in d : Filed(f, s, t)
    BY <2>1 DEF RegistrationsFiled
  <2> QED BY <1>0, <2>2, <2>3, RegistrationMoves
<1>8. CASE ResolveNamed(t)
  BY <1>1, <1>2, <1>4, <1>8 DEF ResolveNamed
<1>9. CASE Probe(t)
  BY <1>1, <1>6, <1>7, <1>9 DEF Probe
<1>10. CASE ClaimRefused(t)
  BY <1>1, <1>10 DEF ClaimRefused
<1> QED BY <1>1, <1>2, <1>3, <1>5, <1>8, <1>9, <1>10 DEF QueryFails

----------------------------------------------------------------------------
(* Sessions. A registration by a reservation can only end with the name of *)
(* the reservation.                                                        *)
LEMMA ClaimsFiledName ==
  ASSUME NEW f, NEW t \in Tunnels, Filed(f, res[t], t), NEW offer \in Offers(t)
  PROVE  offer.name = res[t].name
<1>1. res[t].name \in Family(t) /\ res[t].name # Anything
  BY ReservationsAssumption DEF Filed, Family, Names
<1>2. CASE IsTCP(t)
  BY <1>1, <1>2 DEF Offers, Family
<1>3. CASE ~IsTCP(t)
  BY <1>1, <1>3 DEF Offers
<1> QED BY <1>2, <1>3

LEMMA InstallFiles ==
  ASSUME Carried, rows = [n \in Names |-> rows[n]], NEW f, Filing(f), NEW t \in Tunnels,
         phase[t] = "claiming", NEW offer \in Offers(t), NEW heard, Install(t, offer, heard),
         UNCHANGED <<writes, closed, admin>>
  PROVE  /\ SessionsFiled(f)' /\ RowsFiled(f)'
         /\ \A a \in Admins : PinFiled(f, admin[a])'
         /\ rows' = [n \in Names |-> rows'[n]]
<1> DEFINE via == Via(res[t])
<1> DEFINE s == [tunnel |-> t, heard |-> heard, via |-> via, port |-> offer.port,
                 control |-> FALSE, told |-> NoOne]
<1> DEFINE r == [id |-> NewSession(offer.name), client |-> conf[t].client, link |-> via,
                 port |-> offer.port]
<1>1. live' = [live EXCEPT ![offer.name] = s] /\ rows' = [rows EXCEPT ![offer.name] = r]
  BY DEF Install
<1>2. s.via = via /\ r.link = via /\ r.id = NewSession(offer.name) /\ IsSession(s) /\ IsRow(r)
  BY DEF IsSession, IsRow, Offers
<1>3. IF via = NoOne THEN ~closed ELSE Known(f, via, offer.name)
  <2>1. Files(f, res[t], t)
    BY DEF Filing, RegistrationsFiled, Files
  <2>2. CASE res[t].row = NoOne
    BY <2>1, <2>2 DEF Files, Via
  <2>3. CASE res[t].row # NoOne
    <3>1. Filed(f, res[t], t) /\ via = res[t].row.id
      BY <2>1, <2>3 DEF Files, Via
    <3>2. Known(f, via, offer.name)
      BY <3>1, ClaimsFiledName DEF Filed
    <3>3. via # NoOne
      BY <3>2, ReservationsAssumption DEF Known
    <3> QED BY <3>2, <3>3
  <2> QED BY <2>2, <2>3
<1> HIDE DEF s, r, via
<1>4. ASSUME NEW n \in Names
      PROVE  /\ live'[n] = IF n = offer.name THEN s ELSE live[n]
             /\ rows'[n] = IF n = offer.name THEN r ELSE rows[n]
  BY <1>1 DEF Carried
<1>5. SessionsFiled(f)'
  <2> SUFFICES ASSUME NEW n \in Names, live'[n] # NoOne
               PROVE  /\ IsSession(live'[n])
                      /\ IF live'[n].via = NoOne THEN ~closed' ELSE Known(f, live[n].via, n)'
    BY DEF SessionsFiled, IsSession
  <2>1. CASE n = offer.name
    BY <1>2, <1>3, <1>4, <2>1 DEF Known
  <2>2. CASE n # offer.name
    BY <1>4, <2>2 DEF Filing, SessionsFiled, Known
  <2> QED BY <2>1, <2>2
<1>6. RowsFiled(f)'
  <2> SUFFICES ASSUME NEW n \in Names, rows'[n] # NoOne
               PROVE  /\ IsRow(rows'[n])
                      /\ rows'[n].link # NoOne => \/ Known(f, rows[n].link, n)'
                                                  \/ Known(f, rows[n].link, rows[n].port)'
    BY DEF RowsFiled, IsRow
  <2>1. CASE n = offer.name
    BY <1>2, <1>3, <1>4, <2>1 DEF Known
  <2>2. CASE n # offer.name
    BY <1>4, <2>2 DEF Filing, RowsFiled, Known
  <2> QED BY <2>1, <2>2
<1>7. ASSUME NEW a \in Admins PROVE PinFiled(f, admin[a])'
  <2>1. PICK call : call = admin[a] /\ call = admin'[a]
    OBVIOUS
  <2>2. CASE call.op \in {"pin", "link"}
    <3>1. ASSUME NEW n \in Names, rows'[n].id = call.session, call.from = n
          PROVE  n # offer.name
      <4>1. call.session \in Pinning(n)
        BY <2>1, <2>2, <3>1 DEF Pinning
      <4> QED BY <1>2, <1>4, <3>1, <4>1, FreshSession
    <3>2. PinFiled(f, call)
      BY <2>1 DEF Filing
    <3>3. PinFiled(f, call)'
      BY <1>4, <3>1, <3>2, PinKept, SameBook
    <3> QED BY <2>1, <3>3 DEF PinFiled
  <2>3. CASE call.op \notin {"pin", "link"}
    BY <2>1, <2>3 DEF PinFiled
  <2> QED BY <2>2, <2>3
<1>8. rows' = [n \in Names |-> rows'[n]]
  BY <1>1
<1> QED BY <1>5, <1>6, <1>7, <1>8

----------------------------------------------------------------------------
(* The reservations: ids are handed out in order.                          *)
LEMMA LaterKnown ==
  ASSUME NEW f, writes \in Nat, writes' \in Nat, writes <= writes'
  PROVE  Extends(f, f)
BY DEF Extends, Known

LEMMA InsertExtends ==
  ASSUME writes \in 0 .. MaxWrites, NEW f \in Books, NEW n \in Names, NEW account, NEW c,
         Inserts(n, account, c), reserved = [m \in Names |-> reserved[m]],
         \A m \in Names : reserved[m] # NoOne => Known(f, reserved[m].id, m)
  PROVE  /\ writes' \in 0 .. MaxWrites
         /\ \E g \in Books :
              /\ Extends(f, g) /\ g[writes'] = n
              /\ \A m \in Names : reserved'[m] # NoOne => Known(g, reserved[m].id, m)'
<1> DEFINE row == [id |-> writes', account |-> account, client |-> c, enabled |-> TRUE]
<1>1. MaxWrites \in Nat
  BY ReservationsAssumption
<1>2. /\ writes' = writes + 1 /\ writes' \in 1 .. MaxWrites
      /\ reserved' = [reserved EXCEPT ![n] = row] /\ row.id = writes'
  BY <1>1 DEF Inserts, Written
<1> HIDE DEF row
<1>3. PICK i \in 1 .. MaxWrites : i = writes'
  BY <1>2
<1>4. PICK g \in Books : g = [f EXCEPT ![i] = n]
  BY DEF Books
<1>5. /\ g[i] = n
      /\ \A id \in 1 .. writes : g[id] = f[id]
  BY <1>1, <1>2, <1>3, <1>4 DEF Books
<1>6. Extends(f, g)
  BY <1>1, <1>2, <1>5 DEF Extends, Known
<1>7. ASSUME NEW m \in Names, reserved'[m] # NoOne
      PROVE  Known(g, reserved[m].id, m)'
  <2>1. CASE m = n
    <3>1. reserved'[m].id = i
      BY <1>2, <1>3, <2>1
    <3> QED BY <1>2, <1>3, <1>5, <2>1, <3>1 DEF Known
  <2>2. CASE m # n
    <3>1. reserved'[m] = reserved[m]
      BY <1>2, <2>2
    <3>2. PICK id : id = reserved[m].id /\ id = reserved'[m].id
      BY <3>1
    <3>3. Known(g, id, m)'
      BY <1>6, <1>7, <3>1, <3>2 DEF Extends
    <3> QED BY <3>2, <3>3 DEF Known
  <2> QED BY <2>1, <2>2
<1> QED BY <1>2, <1>3, <1>5, <1>6, <1>7

(* Rows that keep their id keep their place in the book.                   *)
LEMMA ReservedKept ==
  ASSUME NEW f, Extends(f, f),
         \A m \in Names : reserved[m] # NoOne => Known(f, reserved[m].id, m),
         \A m \in Names : reserved'[m] # NoOne =>
           reserved[m] # NoOne /\ reserved'[m].id = reserved[m].id
  PROVE  \A m \in Names : reserved'[m] # NoOne => Known(f, reserved[m].id, m)'
<1> SUFFICES ASSUME NEW m \in Names, reserved'[m] # NoOne
             PROVE  Known(f, reserved[m].id, m)'
  OBVIOUS
<1>1. PICK id : id = reserved[m].id /\ id = reserved'[m].id
  OBVIOUS
<1>2. Known(f, id, m)'
  BY <1>1 DEF Extends
<1> QED BY <1>1, <1>2 DEF Known

(* Calls in progress, when the sessions keep their rows.                   *)
LEMMA PinsKept ==
  ASSUME NEW f, NEW g, Extends(f, g), UNCHANGED admin,
         \A a \in Admins : Named(admin[a]) /\ PinFiled(f, admin[a]),
         \A n \in Names : rows'[n] = rows[n] \/ rows'[n] = NoOne
  PROVE  \A a \in Admins : Named(admin[a])' /\ PinFiled(g, admin[a])'
<1> SUFFICES ASSUME NEW a \in Admins PROVE Named(admin[a])' /\ PinFiled(g, admin[a])'
  OBVIOUS
<1>1. PICK call : call = admin[a] /\ call = admin'[a] /\ PinFiled(f, call)
  OBVIOUS
<1>2. \A n \in Names : rows'[n] # NoOne => rows'[n] = rows[n]
  OBVIOUS
<1>3. PinFiled(g, call)'
  BY <1>1, <1>2, PinKept
<1> QED BY <1>1, <1>3 DEF PinFiled, Named

LEMMA PinsAdvance ==
  ASSUME CallsOK, NEW f, NEW g, Extends(f, g),
         \A b \in Admins : Named(admin[b]) /\ PinFiled(f, admin[b]),
         \A n \in Names : rows'[n] # NoOne =>
           rows[n] # NoOne /\ rows'[n].id = rows[n].id /\ rows'[n].port = rows[n].port,
         NEW a \in Admins, NEW call, Goto(a, call), Named(call), PinFiled(g, call)'
  PROVE  \A b \in Admins : Named(admin[b])' /\ PinFiled(g, admin[b])'
<1> SUFFICES ASSUME NEW b \in Admins PROVE Named(admin[b])' /\ PinFiled(g, admin[b])'
  OBVIOUS
<1>1. admin' = [admin EXCEPT ![a] = call] /\ admin = [x \in Admins |-> admin[x]]
  BY DEF Goto, CallsOK
<1>2. CASE b = a
  <2>1. admin'[b] = call
    BY <1>1, <1>2
  <2> QED BY <2>1 DEF PinFiled, Named
<1>3. CASE b # a
  <2>1. PICK other : other = admin[b] /\ other = admin'[b] /\ PinFiled(f, other)
    BY <1>1, <1>3
  <2>2. PinFiled(g, other)'
    BY <2>1, PinKept
  <2> QED BY <2>1, <2>2 DEF PinFiled, Named
<1> QED BY <1>2, <1>3

(* Of a call that is not a pin there is nothing to know.                   *)
LEMMA NoPin ==
  ASSUME NEW g, NEW call, call.op \notin {"pin", "link"}
  PROVE  PinFiled(g, call)'
BY DEF PinFiled

LEMMA AdminFiles ==
  ASSUME IInv, Carried, Filings, NEW a \in Admins, AdminStep(a)
  PROVE  Filings'
<1>1. PICK f \in Books : Filing(f)
  BY DEF Filings
<1>2. /\ CallsOK /\ TablesOK /\ writes \in 0 .. MaxWrites /\ MaxWrites \in Nat
      /\ rows = [n \in Names |-> rows[n]] /\ reserved = [n \in Names |-> reserved[n]]
  BY ReservationsAssumption DEF IInv, TablesOK, Filings
<1>3. UNCHANGED <<phase, res, todo, conf, closed>>
  BY DEF AdminStep, CheckCreate, Create, ReadUpdate, Update, StartPin, Pin, Link, Rebind,
         client, fixed
<1> DEFINE OnFile(g) == \A m \in Names : reserved'[m] # NoOne => Known(g, reserved[m].id, m)'
<1>4. ASSUME NEW g \in Books, Extends(f, g), writes' \in 0 .. MaxWrites, UNCHANGED <<live, rows>>,
             OnFile(g), NEW call, Goto(a, call), Named(call), PinFiled(g, call)'
      PROVE  Filings'
  <2>1. RegistrationsFiled(g)'
    BY <1>1, <1>3, <1>4, ResolutionsKept DEF Filing
  <2>2. SessionsFiled(g)'
    BY <1>1, <1>3, <1>4, SessionsKept DEF Filing, SessionsFiled
  <2>3. RowsFiled(g)'
    BY <1>1, <1>4, RowsKept DEF Filing
  <2>4. \A b \in Admins : Named(admin[b])' /\ PinFiled(g, admin[b])'
    BY <1>1, <1>2, <1>4, PinsAdvance DEF Filing
  <2>5. OnFile(g)
    BY <1>4
  <2> HIDE DEF OnFile
  <2>6. Filing(g)'
    BY <2>1, <2>2, <2>3, <2>4, <2>5 DEF Filing, OnFile
  <2> QED BY <1>2, <1>4, <2>6 DEF Filings
<1>5. UNCHANGED <<reserved, writes>> => Extends(f, f) /\ OnFile(f) /\ writes' \in 0 .. MaxWrites
  BY <1>1, <1>2, SameBook, ReservedKept DEF Filing
<1> HIDE DEF OnFile
<1>6. ASSUME UNCHANGED <<reserved, writes, live, rows>>, NEW call, Goto(a, call), Named(call),
             call.op \notin {"pin", "link"}
      PROVE  Filings'
  BY <1>4, <1>5, <1>6, NoPin
<1>7. Named(Idle) /\ Idle.op \notin {"pin", "link"}
  BY DEF Idle, Named
<1>8. CASE CheckCreate(a)
  <2>1. PICK new \in Requests :
          /\ Goto(a, [op |-> "create", name |-> new.name, account |-> new.account,
                      client |-> new.client])
          /\ UNCHANGED <<store, server>>
    BY <1>8 DEF CheckCreate
  <2> DEFINE call == [op |-> "create", name |-> new.name, account |-> new.account,
                      client |-> new.client]
  <2>2. Named(call) /\ call.op \notin {"pin", "link"}
    BY ReservationsAssumption DEF Named, Names, Subdomains
  <2> HIDE DEF call
  <2> QED BY <1>6, <2>1, <2>2 DEF call, store, server
<1>9. ASSUME NEW n \in Names, NEW account, NEW c, Inserts(n, account, c), UNCHANGED <<live, rows>>,
             NEW call, Goto(a, call), Named(call),
             call.op # "pin", call.op = "link" => call.id = writes' /\ call.name = n,
             call.op = "link" => \A m \in Names :
               (call.from = m /\ rows[m] # NoOne /\ rows[m].id = call.session)
                 => call.name \in PinTargets(m)
      PROVE  Filings'
  <2>1. PICK g \in Books : Extends(f, g) /\ g[writes'] = n /\ OnFile(g)
    BY <1>1, <1>2, <1>9, InsertExtends DEF Filing, OnFile
  <2>2. writes' \in 0 .. MaxWrites /\ writes' \in 1 .. writes'
    BY <1>2, <1>9 DEF Inserts, Written
  <2>3. PinFiled(g, call)'
    BY <1>9, <2>1, <2>2 DEF PinFiled, Known, PinTargets
  <2> QED BY <1>4, <1>9, <2>1, <2>2, <2>3
<1>10. CASE Create(a)
  <2>1. UNCHANGED <<live, rows>> /\ Goto(a, Idle)
    BY <1>10 DEF Create, server, Finish
  <2>2. CASE Unwritten
    BY <1>6, <1>7, <2>1, <2>2 DEF Unwritten
  <2>3. CASE Inserts(admin[a].name, admin[a].account, admin[a].client)
    <3>1. PICK n, account, c :
            n = admin[a].name /\ account = admin[a].account /\ c = admin[a].client
      OBVIOUS
    <3>2. n \in Names
      BY <1>1, <1>10, <3>1 DEF Create, Filing, Named
    <3> QED BY <1>7, <1>9, <2>1, <2>3, <3>1, <3>2
  <2> QED BY <1>10, <2>2, <2>3 DEF Create
<1>11. CASE ReadUpdate(a)
  <2>1. PICK call : call.op = "update" /\ Goto(a, call) /\ UNCHANGED <<store, server>>
    BY <1>11 DEF ReadUpdate
  <2> QED BY <1>6, <2>1 DEF Named, store, server
<1>12. CASE Update(a)
  <2>1. UNCHANGED <<live, rows>> /\ Goto(a, Idle)
    BY <1>12 DEF Update, server, Finish
  <2>2. CASE Unwritten
    BY <1>6, <1>7, <2>1, <2>2 DEF Unwritten
  <2>3. CASE ~Unwritten
    <3>1. PICK new : new = admin[a]
      OBVIOUS
    <3>2. /\ reserved[new.name] # NoOne /\ writes' = writes + 1 /\ writes < MaxWrites
          /\ reserved' = [reserved EXCEPT ![new.name].client = new.client,
                                          ![new.name].enabled = new.enabled]
      BY <1>12, <2>3, <3>1 DEF Update, Written
    <3>3. ASSUME NEW m \in Names, reserved'[m] # NoOne
          PROVE  reserved[m] # NoOne /\ reserved'[m].id = reserved[m].id
      <4>1. CASE m = new.name
        <5>1. reserved[m] # NoOne /\ reserved[m] \in RowType
          BY <1>2, <3>2, <4>1 DEF TablesOK
        <5>2. reserved'[m] = [reserved[m] EXCEPT !.client = new.client, !.enabled = new.enabled]
          BY <1>2, <3>2, <4>1
        <5> QED BY <5>1, <5>2 DEF RowType
      <4>2. CASE m # new.name
        BY <1>2, <3>2, <3>3, <4>2
      <4> QED BY <4>1, <4>2
    <3>4. writes' \in 0 .. MaxWrites /\ Extends(f, f)
      BY <1>2, <3>2, LaterKnown
    <3>5. OnFile(f)
      BY <1>1, <3>3, <3>4, ReservedKept DEF Filing, OnFile
    <3> QED BY <1>4, <1>7, <2>1, <3>4, <3>5, NoPin
  <2> QED BY <2>2, <2>3
<1>13. ASSUME NEW n \in Names, StartPin(a, n) PROVE Filings'
  <2>1. PICK m, id, c :
          /\ m \in PinTargets(n) /\ id = rows[n].id /\ rows[n] # NoOne
          /\ Goto(a, [op |-> "pin", from |-> n, session |-> id, name |-> m, client |-> c])
          /\ UNCHANGED <<store, server>>
    BY <1>13 DEF StartPin
  <2> DEFINE call == [op |-> "pin", from |-> n, session |-> id, name |-> m, client |-> c]
  <2>2. m \in Names
    BY <1>1, <2>1, ReservationsAssumption
    DEF PinTargets, Filing, RowsFiled, IsRow, Names, Subdomains
  <2>3. UNCHANGED <<reserved, writes, live, rows>>
    BY <2>1 DEF store, server
  <2>4. Named(call) /\ PinFiled(f, call)'
    BY <2>1, <2>2, <2>3 DEF Named, PinFiled, PinTargets
  <2> HIDE DEF call
  <2> QED BY <1>4, <1>5, <2>1, <2>3, <2>4 DEF call
<1>14. CASE Pin(a)
  <2>1. PICK pin : pin = admin[a] /\ pin.op = "pin" /\ Named(pin) /\ PinFiled(f, pin)
    BY <1>1, <1>14 DEF Pin, Filing
  <2>2. UNCHANGED <<live, rows>>
    BY <1>14 DEF Pin, server
  <2>3. CASE Unwritten /\ Finish(a)
    BY <1>6, <1>7, <2>2, <2>3 DEF Unwritten, Finish
  <2>4. CASE /\ Inserts(pin.name, AccountOf[pin.client], pin.client)
             /\ Goto(a, [op |-> "link", from |-> pin.from, session |-> pin.session,
                         name |-> pin.name, id |-> writes'])
    <3>1. PICK id : id = writes'
      OBVIOUS
    <3> DEFINE call == [op |-> "link", from |-> pin.from, session |-> pin.session,
                        name |-> pin.name, id |-> id]
    <3>2. Goto(a, call)
      BY <2>4, <3>1
    <3>3. /\ call.op = "link" /\ call.id = writes' /\ call.name = pin.name
          /\ call.from = pin.from /\ call.session = pin.session /\ Named(call)
      BY <3>1 DEF Named
    <3> HIDE DEF call
    <3>4. \A n \in Names : (call.from = n /\ rows[n] # NoOne /\ rows[n].id = call.session)
                             => call.name \in PinTargets(n)
      BY <2>1, <3>3 DEF PinFiled
    <3>5. pin.name \in Names
      BY <2>1 DEF Named
    <3> QED BY <1>9, <2>2, <2>4, <3>2, <3>3, <3>4, <3>5
  <2> QED BY <1>14, <2>1, <2>3, <2>4 DEF Pin
<1>15. CASE Link(a)
  <2>1. PICK pin : pin = admin[a] /\ pin.op = "link" /\ PinFiled(f, pin)
    BY <1>1, <1>15 DEF Link, Filing
  <2>2. UNCHANGED <<reserved, writes, live>>
    BY <1>15 DEF Link, store
  <2>3. PICK call : call.op = "rebind" /\ Goto(a, call)
    BY <1>15 DEF Link
  <2>4. CASE UNCHANGED rows
    BY <1>6, <2>2, <2>3, <2>4 DEF Named
  <2>5. CASE /\ ~Renamed(pin)
             /\ rows[pin.from] # NoOne /\ rows[pin.from].id = pin.session
             /\ rows' = [rows EXCEPT ![pin.from].link = pin.id]
    <3>1. ASSUME NEW n \in Names, rows'[n] # NoOne
          PROVE  /\ rows[n] # NoOne /\ IsRow(rows'[n])
                 /\ rows'[n].id = rows[n].id /\ rows'[n].port = rows[n].port
                 /\ rows'[n].link = IF n = pin.from THEN pin.id ELSE rows[n].link
      <4>1. CASE n = pin.from
        <5>1. rows'[n] = [rows[n] EXCEPT !.link = pin.id] /\ rows[n] # NoOne
          BY <1>2, <2>5, <4>1
        <5>2. IsRow(rows[n])
          BY <1>1, <5>1 DEF Filing, RowsFiled
        <5> QED BY <4>1, <5>1, <5>2 DEF IsRow
      <4>2. CASE n # pin.from
        BY <1>1, <1>2, <2>5, <3>1, <4>2 DEF Filing, RowsFiled
      <4> QED BY <4>1, <4>2
    <3>2. ASSUME NEW n \in Names, n = pin.from
          PROVE  Known(f, pin.id, n) \/ Known(f, pin.id, rows[n].port)
      <4>1. pin.name \in PinTargets(n) /\ Known(f, pin.id, pin.name)
        BY <2>1, <2>5, <3>2 DEF PinFiled
      <4>2. pin.name \in {n, rows[n].port}
        BY <2>5, <3>2, <4>1 DEF PinTargets, Renamed, Subdomains
      <4> QED BY <4>1, <4>2
    <3>3. RowsFiled(f)'
      <4> SUFFICES ASSUME NEW n \in Names, rows'[n] # NoOne, rows'[n].link # NoOne
                   PROVE  \/ Known(f, rows[n].link, n)'
                          \/ Known(f, rows[n].link, rows[n].port)'
        BY <3>1 DEF RowsFiled, IsRow
      <4>1. CASE n = pin.from
        BY <2>2, <3>1, <3>2, <4>1 DEF Known
      <4>2. CASE n # pin.from
        BY <1>1, <2>2, <3>1, <4>2 DEF Known, Filing, RowsFiled
      <4> QED BY <4>1, <4>2
    <3>4. Extends(f, f) /\ OnFile(f) /\ writes' \in 0 .. MaxWrites
      BY <1>5, <2>2
    <3>5. RegistrationsFiled(f)' /\ SessionsFiled(f)'
      BY <1>1, <1>3, <2>2, <3>4, ResolutionsKept, SessionsKept DEF Filing, SessionsFiled
    <3>6. \A b \in Admins : Named(admin[b])' /\ PinFiled(f, admin[b])'
      BY <1>1, <1>2, <2>3, <3>1, <3>4, NoPin, PinsAdvance DEF Filing, Named
    <3>7. Filing(f)'
      BY <3>3, <3>4, <3>5, <3>6 DEF Filing, OnFile
    <3>8. rows' = [n \in Names |-> rows'[n]]
      BY <1>2, <2>5
    <3> QED BY <3>4, <3>7, <3>8 DEF Filings
  <2> QED BY <1>15, <2>1, <2>4, <2>5 DEF Link
<1>16. CASE Rebind(a)
  <2>1. UNCHANGED <<reserved, writes, rows>> /\ Goto(a, Idle)
    BY <1>16 DEF Rebind, store, Finish
  <2>2. CASE UNCHANGED live
    BY <1>6, <1>7, <2>1, <2>2
  <2>3. CASE live' # live
    <3>1. PICK pin : pin = admin[a]
      OBVIOUS
    <3>2. live[pin.from] # NoOne /\ live' = [live EXCEPT ![pin.from].told = pin.name]
      BY <1>16, <2>3, <3>1 DEF Rebind
    <3>3. ASSUME NEW n \in Names, live'[n] # NoOne
          PROVE  live[n] # NoOne /\ IsSession(live'[n]) /\ live'[n].via = live[n].via
      <4>1. CASE n = pin.from
        <5>1. live'[n] = [live[n] EXCEPT !.told = pin.name] /\ IsSession(live[n])
          BY <1>1, <3>2, <4>1 DEF Carried, Filing, SessionsFiled
        <5> QED BY <3>2, <4>1, <5>1 DEF IsSession
      <4>2. CASE n # pin.from
        BY <1>1, <3>2, <3>3, <4>2 DEF Carried, Filing, SessionsFiled
      <4> QED BY <4>1, <4>2
    <3>4. Extends(f, f) /\ OnFile(f) /\ writes' \in 0 .. MaxWrites
      BY <1>5, <2>1
    <3>5. SessionsFiled(f)'
      BY <1>1, <1>3, <3>3, <3>4, SessionsKept DEF Filing
    <3>6. RegistrationsFiled(f)' /\ RowsFiled(f)'
      BY <1>1, <1>3, <2>1, <3>4, ResolutionsKept, RowsKept DEF Filing
    <3>7. \A b \in Admins : Named(admin[b])' /\ PinFiled(f, admin[b])'
      BY <1>1, <1>2, <1>7, <2>1, <3>4, NoPin, PinsAdvance DEF Filing
    <3>8. Filing(f)'
      BY <3>4, <3>5, <3>6, <3>7 DEF Filing, OnFile
    <3> QED BY <1>2, <2>1, <3>4, <3>8 DEF Filings
  <2> QED BY <2>2, <2>3
<1> QED BY <1>8, <1>10, <1>11, <1>12, <1>13, <1>14, <1>15, <1>16 DEF AdminStep

----------------------------------------------------------------------------
(* Steps of a tunnel with its session, and of the server.                  *)
LEMMA SessionSteps ==
  ASSUME Filings, NEW f \in Books, Filing(f), RegistrationsFiled(f)', UNCHANGED <<store, admin>>,
         closed' = closed,
         \A n \in Names : live'[n] # NoOne =>
           /\ live[n] # NoOne /\ IsSession(live'[n]) /\ live'[n].via = live[n].via,
         \A n \in Names : rows'[n] = rows[n] \/ rows'[n] = NoOne,
         rows' = [n \in Names |-> rows'[n]]
  PROVE  Filings'
<1>1. UNCHANGED <<reserved, writes>>
  BY DEF store
<1>2. Extends(f, f)
  BY <1>1, SameBook
<1>3. \A m \in Names : reserved'[m] # NoOne => Known(f, reserved[m].id, m)'
  BY <1>1, <1>2, ReservedKept DEF Filing
<1>4. SessionsFiled(f)' /\ RowsFiled(f)'
  BY <1>2, SessionsKept, RowsKept DEF Filing
<1>5. \A a \in Admins : Named(admin[a])' /\ PinFiled(f, admin[a])'
  BY <1>2, PinsKept DEF Filing
<1>6. Filing(f)'
  BY <1>3, <1>4, <1>5 DEF Filing
<1> QED BY <1>1, <1>6 DEF Filings

LEMMA TunnelFiles ==
  ASSUME Carried, Filings, NEW t \in Tunnels, ClientStep(t)
  PROVE  Filings'
<1>1. PICK f \in Books : Filing(f)
  BY DEF Filings
<1>2. /\ \A n \in Names : live[n] # NoOne => IsSession(live[n])
      /\ rows = [n \in Names |-> rows[n]]
  BY <1>1 DEF Filing, SessionsFiled, Filings
<1>3. ASSUME UNCHANGED <<server, store, fixed, admin>>, RegistrationsFiled(f)'
      PROVE  Filings'
  BY <1>1, <1>2, <1>3, SessionSteps DEF server, fixed
<1>4. CASE \/ Connect(t) \/ ResolveNamed(t) \/ ListOwned(t) \/ Probe(t)
           \/ QueryFails(t) \/ ClaimRefused(t)
  <2>1. RegistrationsFiled(f)'
    BY <1>1, <1>4, ResolvingFiles
  <2> QED BY <1>3, <1>4, <2>1 DEF Connect, ResolveNamed, ListOwned, Probe, QueryFails, ClaimRefused
<1>5. ASSUME NEW offer \in Offers(t), NEW heard, Install(t, offer, heard), phase[t] = "claiming",
             NEW p, p # "claiming", Down(t, p), UNCHANGED <<store, fixed, admin>>
      PROVE  Filings'
  <2>1. UNCHANGED <<reserved, writes, closed, conf>>
    BY <1>5 DEF store, fixed
  <2>2. RegistrationsFiled(f)'
    BY <1>1, <1>5, <2>1, DownFiles DEF Filing
  <2>3. /\ SessionsFiled(f)' /\ RowsFiled(f)'
        /\ \A a \in Admins : PinFiled(f, admin[a])'
        /\ rows' = [n \in Names |-> rows'[n]]
    BY <1>1, <1>2, <1>5, <2>1, InstallFiles
  <2>4. \A m \in Names : reserved'[m] # NoOne => Known(f, reserved[m].id, m)'
    BY <1>1, <2>1, SameBook, ReservedKept DEF Filing
  <2>5. Filing(f)'
    BY <1>1, <1>5, <2>2, <2>3, <2>4 DEF Filing, Named
  <2> QED BY <2>1, <2>3, <2>5 DEF Filings
<1>6. CASE Claim(t)
  BY <1>5, <1>6 DEF Claim
<1>7. CASE ClaimUnheard(t)
  BY <1>5, <1>7 DEF ClaimUnheard, Retry
<1>8. CASE OpenControl(t)
  <2>1. PICK n \in Names : InSession(t, n) /\ live' = [live EXCEPT ![n].control = TRUE]
    BY <1>8 DEF OpenControl
  <2>2. ASSUME NEW m \in Names, live'[m] # NoOne
        PROVE  live[m] # NoOne /\ IsSession(live'[m]) /\ live'[m].via = live[m].via
    <3>1. CASE m = n
      <4>1. live'[m] = [live[m] EXCEPT !.control = TRUE] /\ live[m] # NoOne /\ IsSession(live[m])
        BY <1>2, <2>1, <3>1 DEF Carried, InSession
      <4> QED BY <4>1 DEF IsSession
    <3>2. CASE m # n
      BY <1>2, <2>1, <2>2, <3>2 DEF Carried
    <3> QED BY <3>1, <3>2
  <2>3. UNCHANGED <<phase, res, todo, conf, closed, writes, rows>>
    BY <1>8 DEF OpenControl, client, fixed, store
  <2>4. RegistrationsFiled(f)'
    BY <1>1, <2>3, SameBook, ResolutionsKept DEF Filing
  <2> QED BY <1>1, <1>2, <1>8, <2>2, <2>3, <2>4, SessionSteps DEF OpenControl
<1>9. ASSUME Leave(t), UNCHANGED <<store, rows, fixed, admin>> PROVE Filings'
  <2>1. ASSUME NEW m \in Names, live'[m] # NoOne
        PROVE  live[m] # NoOne /\ IsSession(live'[m]) /\ live'[m].via = live[m].via
    <3>1. CASE InSession(t, m)
      <4>1. live'[m] = [live[m] EXCEPT !.heard = FALSE] /\ live[m] # NoOne /\ IsSession(live[m])
        BY <1>2, <1>9, <3>1 DEF Leave, InSession
      <4> QED BY <4>1 DEF IsSession
    <3>2. CASE ~InSession(t, m)
      BY <1>2, <1>9, <2>1, <3>2 DEF Leave
    <3> QED BY <3>1, <3>2
  <2>2. UNCHANGED <<conf, closed, writes, rows>> /\ Down(t, "down")
    BY <1>9 DEF Leave, fixed, store
  <2>3. RegistrationsFiled(f)'
    BY <1>1, <2>2, DownFiles DEF Filing
  <2> QED BY <1>1, <1>2, <1>9, <2>1, <2>2, <2>3, SessionSteps
<1>10. CASE Drop(t)
  BY <1>9, <1>10 DEF Drop
<1>11. CASE Receive(t)
  BY <1>9, <1>11 DEF Receive
<1> QED BY <1>4, <1>6, <1>7, <1>8, <1>10, <1>11 DEF ClientStep

LEMMA TeardownFiles ==
  ASSUME Carried, Filings, NEW n \in Names, Teardown(n)
  PROVE  Filings'
<1>1. PICK f \in Books : Filing(f)
  BY DEF Filings
<1>2. /\ UNCHANGED <<phase, res, todo, conf, closed, writes>>
      /\ live' = [live EXCEPT ![n] = NoOne] /\ rows' = [rows EXCEPT ![n] = NoOne]
  BY DEF Teardown, client, fixed, store
<1>3. ASSUME NEW m \in Names, live'[m] # NoOne
      PROVE  live[m] # NoOne /\ IsSession(live'[m]) /\ live'[m].via = live[m].via
  <2>1. live'[m] = live[m]
    BY <1>2, <1>3 DEF Carried
  <2> QED BY <1>1, <1>3, <2>1 DEF Filing, SessionsFiled
<1>4. /\ \A m \in Names : rows'[m] = rows[m] \/ rows'[m] = NoOne
      /\ rows' = [m \in Names |-> rows'[m]]
  BY <1>2 DEF Filings
<1>5. RegistrationsFiled(f)'
  BY <1>1, <1>2, SameBook, ResolutionsKept DEF Filing
<1> QED BY <1>1, <1>2, <1>3, <1>4, <1>5, SessionSteps DEF Teardown

(* Deletions: rows go or keep their id.                                    *)
LEMMA DeletionFiles ==
  ASSUME Filings, UNCHANGED <<client, server, fixed, admin>>, Written,
         \A m \in Names : reserved'[m] # NoOne =>
           reserved[m] # NoOne /\ reserved'[m].id = reserved[m].id
  PROVE  Filings'
<1>1. PICK f \in Books : Filing(f)
  BY DEF Filings
<1>2. UNCHANGED <<phase, res, todo, conf, closed, live, rows, admin>>
  BY DEF client, server, fixed
<1>3. writes' \in 0 .. MaxWrites /\ Extends(f, f)
  BY LaterKnown, ReservationsAssumption DEF Filings, Written
<1>4. \A m \in Names : reserved'[m] # NoOne => Known(f, reserved[m].id, m)'
  BY <1>1, <1>3, ReservedKept DEF Filing
<1>5. RegistrationsFiled(f)' /\ SessionsFiled(f)' /\ RowsFiled(f)'
  BY <1>1, <1>2, <1>3, ResolutionsKept, SessionsKept, RowsKept DEF Filing, SessionsFiled
<1>6. \A a \in Admins : Named(admin[a])' /\ PinFiled(f, admin[a])'
  BY <1>1, <1>2, <1>3, PinsKept DEF Filing
<1>7. Filing(f)'
  BY <1>4, <1>5, <1>6 DEF Filing
<1> QED BY <1>2, <1>3, <1>7 DEF Filings

LEMMA FilingsPreserved == IInv /\ Carried /\ Filings /\ [Next]_vars => Filings'
<1> SUFFICES ASSUME IInv, Carried, Filings, [Next]_vars PROVE Filings'
  OBVIOUS
<1>1. CASE UNCHANGED vars
  <2>1. PICK f \in Books : Filing(f)
    BY DEF Filings
  <2>2. UNCHANGED <<phase, res, todo, conf, closed, live, rows, writes, store, admin>>
    BY <1>1 DEF vars, client, server, fixed, store
  <2>3. RegistrationsFiled(f)'
    BY <2>1, <2>2, SameBook, ResolutionsKept DEF Filing
  <2> QED BY <2>1, <2>2, <2>3, SessionSteps DEF Filing, SessionsFiled, Filings
<1>2. ASSUME NEW t \in Tunnels, ClientStep(t) PROVE Filings'
  BY <1>2, TunnelFiles
<1>3. ASSUME NEW a \in Admins, AdminStep(a) PROVE Filings'
  BY <1>3, AdminFiles
<1>4. ASSUME NEW n \in Names, Teardown(n) PROVE Filings'
  BY <1>4, TeardownFiles
<1>5. ASSUME NEW n \in Names, Delete(n) PROVE Filings'
  <2>1. reserved' = [reserved EXCEPT ![n] = NoOne] /\ reserved = [m \in Names |-> reserved[m]]
    BY <1>5 DEF Delete, IInv, TablesOK
  <2>2. \A m \in Names : reserved'[m] # NoOne => reserved'[m] = reserved[m]
    BY <2>1
  <2> QED BY <1>5, <2>2, DeletionFiles DEF Delete
<1>6. ASSUME NEW c \in Clients, DeleteClient(c) PROVE Filings'
  <2>1. /\ accounts' \subseteq accounts /\ clients' \subseteq clients
        /\ \A b \in clients' : AccountOf[b] \in accounts'
    BY <1>6 DEF DeleteClient, IInv, TablesOK
  <2>2. Written /\ Cascade
    BY <1>6 DEF DeleteClient
  <2> QED BY <1>6, <2>1, <2>2, CascadeKeepsTables, DeletionFiles DEF DeleteClient
<1>7. ASSUME NEW x \in Removable, DeleteAccount(x) PROVE Filings'
  <2>1. /\ accounts' \subseteq accounts /\ clients' \subseteq clients
        /\ \A b \in clients' : AccountOf[b] \in accounts'
    BY <1>7 DEF DeleteAccount, IInv, TablesOK
  <2>2. Written /\ Cascade
    BY <1>7 DEF DeleteAccount
  <2> QED BY <1>7, <2>1, <2>2, CascadeKeepsTables, DeletionFiles DEF DeleteAccount
<1> QED BY <1>1, <1>2, <1>3, <1>4, <1>5, <1>6, <1>7 DEF Next

LEMMA InitFilings == Init => Filings
<1> SUFFICES ASSUME Init PROVE Filings
  OBVIOUS
<1>1. [i \in 1 .. MaxWrites |-> NoOne] \in Books
  BY DEF Books
<1>2. \A f \in Books : Filing(f)
  BY DEF Init, Filing, RegistrationsFiled, SessionsFiled, RowsFiled, PinFiled, Named, Idle
<1>3. writes \in 0 .. MaxWrites
  BY ReservationsAssumption DEF Init
<1>4. rows = [n \in Names |-> rows[n]]
  BY DEF Init
<1> QED BY <1>1, <1>2, <1>3, <1>4 DEF Filings

(* What every invariant and action property below follows from.            *)
THEOREM ReservationsInductive == Spec => [](IInv /\ Carried /\ Filings)
<1>1. Init => IInv /\ Carried /\ Filings
  BY InitOK, InitCarried, InitFilings
<1>2. (IInv /\ Carried /\ Filings) /\ [Next]_vars => (IInv /\ Carried /\ Filings)'
  BY StepPreserves, CarriedPreserved, FilingsPreserved
<1> QED BY <1>1, <1>2, PTL DEF Spec

(* The panel never shows a session as bound to the reservation of another  *)
(* name or port, whatever is pinned, renamed, deleted and made again while *)
(* handlers hold what they read.                                           *)
THEOREM LinksOwnNameCorrect == Spec => []LinksOwnName
<1>1. ASSUME Filings PROVE LinksOwnName
  <2>1. PICK f \in Books : Filing(f)
    BY <1>1 DEF Filings
  <2>2. ASSUME NEW n \in Names, NEW m \in Names,
               rows[n] # NoOne, reserved[m] # NoOne, rows[n].link = reserved[m].id
        PROVE  m \in {n, rows[n].port}
    <3>1. Known(f, reserved[m].id, m)
      BY <2>1, <2>2 DEF Filing
    <3>2. rows[n].link # NoOne
      BY <2>2, <3>1, ReservationsAssumption DEF Known
    <3>3. Known(f, rows[n].link, n) \/ Known(f, rows[n].link, rows[n].port)
      BY <2>1, <2>2, <3>2 DEF Filing, RowsFiled
    <3> QED BY <2>2, <3>1, <3>3 DEF Known
  <2> QED BY <2>2 DEF LinksOwnName
<1>2. Filings => LinksOwnName
  BY <1>1
<1> QED BY <1>2, ReservationsInductive, PTL

(* With requireReservation every session holds a reservation, and no two   *)
(* hold the same, although resolving and claiming are steps apart.         *)
THEOREM ClosedFleetCorrect == Spec => []ClosedFleet
<1>1. ASSUME Filings PROVE ClosedFleet
  <2>1. PICK f \in Books : Filing(f)
    BY <1>1 DEF Filings
  <2>2. ASSUME closed, NEW n \in Names, live[n] # NoOne
        PROVE  live[n].via # NoOne /\ Known(f, live[n].via, n)
    BY <2>1, <2>2 DEF Filing, SessionsFiled
  <2> QED BY <2>2 DEF ClosedFleet, Known
<1>2. Filings => ClosedFleet
  BY <1>1
<1> QED BY <1>2, ReservationsInductive, PTL

(* A tunnel that was connected is not given up while what it asks for is   *)
(* reserved for its credential: isFatalTunnelError.                        *)
THEOREM OwnerKeepsTryingCorrect == Spec => OwnerKeepsTrying
<1>1. ASSUME Carried, [Next]_vars, NEW t \in once, t \in Tunnels, Owns(t),
             phase[t] # "gaveUp", phase'[t] = "gaveUp"
      PROVE  FALSE
  <2>1. ASSUME NEW u \in Tunnels, GiveUp(u) PROVE u = t
    BY <1>1, <2>1 DEF GiveUp, Down, Carried
  <2>2. ASSUME NEW u \in Tunnels, Retry(u) PROVE FALSE
    BY <1>1, <2>2 DEF Retry, Down, Carried
  <2>3. ASSUME NEW u \in Tunnels, NEW p, p # "gaveUp", phase' = [phase EXCEPT ![u] = p]
        PROVE  FALSE
    BY <1>1, <2>3 DEF Carried
  <2>4. ASSUME UNCHANGED phase PROVE FALSE
    BY <1>1, <2>4
  <2>5. ASSUME NEW u \in Tunnels, Connect(u) PROVE FALSE
    BY <1>1, <2>1, <2>3, <2>5 DEF Connect, Owns
  <2>6. ASSUME NEW u \in Tunnels, Unreserved(u) PROVE FALSE
    BY <2>2, <2>3, <2>6 DEF Unreserved, Resolved
  <2>7. ASSUME NEW u \in Tunnels, ResolveNamed(u) PROVE FALSE
    BY <1>1, <2>1, <2>2, <2>3, <2>6, <2>7 DEF ResolveNamed, Resolved, Owns
  <2>8. ASSUME NEW u \in Tunnels, ListOwned(u) \/ Probe(u) \/ QueryFails(u) PROVE FALSE
    BY <2>2, <2>3, <2>4, <2>6, <2>8 DEF ListOwned, Probe, QueryFails, Resolved
  <2>9. ASSUME NEW u \in Tunnels, ClaimRefused(u) PROVE FALSE
    BY <1>1, <2>1, <2>2, <2>9 DEF ClaimRefused
  <2>10. ASSUME NEW u \in Tunnels, Claim(u) \/ ClaimUnheard(u) PROVE FALSE
    BY <2>2, <2>3, <2>10 DEF Claim, ClaimUnheard, Down
  <2>11. ASSUME NEW u \in Tunnels, OpenControl(u) \/ Drop(u) \/ Receive(u) PROVE FALSE
    BY <2>3, <2>4, <2>11 DEF OpenControl, Drop, Receive, Leave, Down, client
  <2>12. ASSUME NEW a \in Admins, AdminStep(a) PROVE FALSE
    BY <2>4, <2>12 DEF AdminStep, CheckCreate, Create, ReadUpdate, Update, StartPin, Pin, Link,
      Rebind, client
  <2> QED BY <1>1, <2>4, <2>5, <2>7, <2>8, <2>9, <2>10, <2>11, <2>12
          DEF Next, ClientStep, Teardown, Delete, DeleteClient, DeleteAccount, client, vars
<1>2. Init => once \subseteq Tunnels
  BY DEF Init
<1>3. once \subseteq Tunnels /\ [Next]_vars => (once \subseteq Tunnels)'
  BY DEF Next, ClientStep, Connect, ResolveNamed, ListOwned, Probe, QueryFails, Claim, ClaimUnheard,
         ClaimRefused, OpenControl, Drop, Receive, AdminStep, CheckCreate, Create, ReadUpdate,
         Update, StartPin, Pin, Link, Rebind, Teardown, Delete, DeleteClient, DeleteAccount,
         client, vars
<1>4. Carried /\ once \subseteq Tunnels /\ [Next]_vars =>
        [\A t \in once : (Owns(t) /\ phase[t] # "gaveUp") => phase'[t] # "gaveUp"]_vars
  BY <1>1
<1> QED BY <1>2, <1>3, <1>4, ReservationsInductive, PTL DEF Spec, OwnerKeepsTrying
=============================================================================
