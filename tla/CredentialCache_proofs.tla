----------------------- MODULE CredentialCache_proofs -----------------------
(***************************************************************************)
(* Theorems about the credential cache, for any clients, accounts,         *)
(* registrations and admin calls, proved with TLAPS.                       *)
(*                                                                         *)
(* Nothing locks the cache and the store together, so the argument is      *)
(* about who still has to act: a handler either has the drop of an entry   *)
(* before it, or it has left behind no entry that its own run did not      *)
(* race; and an entry that disagrees with the store without having raced   *)
(* anything was made wrong by a handler that has written and not dropped.  *)
(***************************************************************************)
EXTENDS CredentialCache, TLAPS

(* The steps a handler may still have before it.                           *)
Rest(kind) ==
  CASE kind \in {"rotate", "updateClient"} -> {<<"write", "drop">>, <<"drop">>}
    [] kind = "deleteClient" -> {<<"drop", "write">>, <<"write">>}
    [] kind = "updateAccount" -> {<<"write", "list", "drop">>, <<"list", "drop">>, <<"drop">>}
    [] kind = "deleteAccount" -> {<<"list", "drop", "write">>, <<"drop", "write">>, <<"write">>}

(* It will list the clients, and so drop every entry of its own.           *)
WillList == {<<"write", "list", "drop">>, <<"list", "drop">>, <<"list", "drop", "write">>}

WillDrop == {<<"write", "drop">>, <<"drop", "write">>, <<"drop">>}

DropsLater(a, c) ==
  Todo(a) \in WillList \/ (Todo(a) \in WillDrop /\ c \in admin[a].drop)

(* It has changed a row of the store and not answered yet.                 *)
HasWritten(a) ==
  /\ admin[a].kind \in {"rotate", "updateClient", "updateAccount"}
  /\ Todo(a) \in {<<"list", "drop">>, <<"drop">>}

Unraced(c) == cache[c] # None /\ ~cache[c].raced

HandlerOK(a) ==
  admin[a] # None =>
    /\ Todo(a) \in Rest(admin[a].kind)
    /\ admin[a].kind = "rotate" => admin[a].issued \in Secrets

(* The rows a call holds, and that they are the store's unless a handler   *)
(* began after they were read.                                             *)
CallOK(p) ==
  LET c == login[p].client
      row == login[p].row
  IN
  login[p] # None =>
    /\ login[p].step = "account" =>
         /\ row \in ClientRows
         /\ ~login[p].raced => ~Busy(c) /\ row = clients[c]
    /\ login[p].step = "fill" =>
         /\ row \in [client: ClientRows, account: AccountRows]
         /\ ~login[p].raced =>
              ~Busy(c) /\ row.client = clients[c] /\ row.account = accounts[AccountOf[c]]

EntryOK(c) ==
  Unraced(c) =>
    /\ clients[c] # None
    /\ \A a \in Admins : c \in Targets(a) => DropsLater(a, c)
    /\ Coherent(c) \/ \E a \in Admins : c \in Targets(a) /\ HasWritten(a)

IInv ==
  /\ TypeOK
  /\ \A a \in Admins : HandlerOK(a)
  /\ \A p \in Logins : CallOK(p)
  /\ \A c \in Clients : EntryOK(c)


----------------------------------------------------------------------------
(* What the lemmas below take from the type invariant.                     *)
LEMMA Apart ==
  /\ \A r \in ClientRows : r # None
  /\ \A r \in AccountRows : r # None
  /\ \A r \in Entries : r # None
  /\ \A r \in Calls : r # None
  /\ \A r \in Handlers : r # None
BY CacheAssumption

LEMMA CallTypes ==
  ASSUME TypeOK, NEW p \in Logins, login[p] # None
  PROVE  /\ login[p] \in Calls
         /\ login[p].client \in Clients /\ AccountOf[login[p].client] \in Accounts
BY CacheAssumption DEF TypeOK, Calls

LEMMA HandlerTypes ==
  ASSUME TypeOK, NEW a \in Admins, admin[a] # None
  PROVE  /\ admin[a] \in Handlers
         /\ admin[a].kind \in ClientKinds \/ admin[a].kind \in AccountKinds
         /\ admin[a].kind \in ClientKinds => admin[a].id \in Clients
         /\ admin[a].kind \in AccountKinds => admin[a].id \in Accounts
         /\ admin[a].drop \subseteq Clients /\ admin[a].issued \in 0..MaxSecret
         /\ admin[a].enabled \in BOOLEAN
BY DEF TypeOK, Handlers, ClientKinds, AccountKinds

(* A call that is not a fill under way holds no rows to be kept true.      *)
LEMMA OtherCalls ==
  ASSUME IInv, UNCHANGED <<clients, accounts, admin>>, NEW p \in Logins,
         \A q \in Logins \ {p} : login'[q] = login[q],
         NEW q \in Logins, q # p
  PROVE  CallOK(q)'
BY DEF IInv, CallOK, Busy, Targets

(* A registration ends, or is answered from rows of the store.             *)
LEMMA DecideTypes ==
  ASSUME IInv, NEW p \in Logins, login[p] # None, NEW client, NEW account,
         Decide(p, client, account)
  PROVE  /\ login' \in [Logins -> Calls \cup {None}]
         /\ \A q \in Logins \ {p} : login'[q] = login[q]
         /\ login'[p] # None => login'[p].step = "accepted"
BY CallTypes, Apart DEF IInv, TypeOK, Decide, Refuse, Calls

(* The steps of a registration that leave the cache alone.                 *)
LEMMA CallKeeps ==
  ASSUME IInv, UNCHANGED <<clients, accounts, cache, admin>>, NEW p \in Logins,
         login' \in [Logins -> Calls \cup {None}],
         \A q \in Logins \ {p} : login'[q] = login[q],
         CallOK(p)'
  PROVE  IInv'
<1>1. TypeOK'  BY DEF IInv, TypeOK, Todo
<1>2. \A a \in Admins : HandlerOK(a)'  BY DEF IInv, HandlerOK, Todo
<1>3. \A q \in Logins : CallOK(q)'  BY OtherCalls
<1>4. \A c \in Clients : EntryOK(c)'
  BY DEF IInv, EntryOK, Unraced, Targets, DropsLater, Todo, Coherent, HasWritten
<1> QED  BY <1>1, <1>2, <1>3, <1>4 DEF IInv

LEMMA AuthenticateKeeps == ASSUME IInv, NEW p \in Logins, Authenticate(p)  PROVE IInv'
<1>0. PICK c \in Clients :
        \E s \in 1..(IF clients[c] = None THEN MaxSecret ELSE clients[c].secret) :
          login' = [login EXCEPT ![p] =
           [step |-> "lookup", client |-> c, secret |-> s, row |-> None,
            barred |-> Revoked(c, s), raced |-> FALSE]]
  BY DEF Authenticate
<1>1. PICK s \in 1..(IF clients[c] = None THEN MaxSecret ELSE clients[c].secret) :
        login' = [login EXCEPT ![p] =
           [step |-> "lookup", client |-> c, secret |-> s, row |-> None,
            barred |-> Revoked(c, s), raced |-> FALSE]]
  BY <1>0
<1>2. s \in Secrets
  BY CacheAssumption DEF IInv, TypeOK, ClientRows, Secrets
<1>3. Revoked(c, s) \in BOOLEAN  BY DEF Revoked
<1> DEFINE call == [step |-> "lookup", client |-> c, secret |-> s, row |-> None,
                    barred |-> Revoked(c, s), raced |-> FALSE]
<1>4. call \in Calls  BY <1>2, <1>3 DEF Calls
<1>5. call.step = "lookup"  OBVIOUS
<1> HIDE DEF call
<1>6. login' = [login EXCEPT ![p] = call]  BY <1>1 DEF call
<1>7. login' \in [Logins -> Calls \cup {None}] /\ login'[p] = call
  BY <1>4, <1>6 DEF IInv, TypeOK
<1>8. CallOK(p)'  BY <1>5, <1>7 DEF CallOK
<1>9. \A q \in Logins \ {p} : login'[q] = login[q]  BY <1>6 DEF IInv, TypeOK
<1> QED  BY <1>7, <1>8, <1>9, CallKeeps DEF Authenticate

LEMMA CacheHitKeeps == ASSUME IInv, NEW p \in Logins, CacheHit(p)  PROVE IInv'
<1>1. login[p] # None /\ UNCHANGED <<clients, accounts, cache, admin>>  BY DEF CacheHit
<1>2. PICK client, account : Decide(p, client, account)  BY DEF CacheHit
<1>3. CallOK(p)'  BY <1>1, <1>2, DecideTypes DEF CallOK
<1> QED  BY <1>1, <1>2, <1>3, DecideTypes, CallKeeps

LEMMA CacheMissKeeps == ASSUME IInv, NEW p \in Logins, CacheMiss(p)  PROVE IInv'
<1>1. login[p] \in Calls /\ UNCHANGED <<clients, accounts, cache, admin>>
  BY CallTypes DEF CacheMiss, IInv
<1>2. /\ login' \in [Logins -> Calls \cup {None}]
      /\ \A q \in Logins \ {p} : login'[q] = login[q]
      /\ login'[p].step = "client"
  BY <1>1 DEF CacheMiss, IInv, TypeOK, Calls
<1>3. CallOK(p)'  BY <1>2 DEF CallOK
<1> QED  BY <1>1, <1>2, <1>3, CallKeeps

LEMMA RefuseKeeps ==
  ASSUME IInv, NEW p \in Logins, Refuse(p), UNCHANGED <<clients, accounts, cache, admin>>
  PROVE  IInv'
<1>1. /\ login' \in [Logins -> Calls \cup {None}]
      /\ \A q \in Logins \ {p} : login'[q] = login[q]
      /\ login'[p] = None
  BY DEF Refuse, IInv, TypeOK
<1>2. CallOK(p)'  BY <1>1 DEF CallOK
<1> QED  BY <1>1, <1>2, CallKeeps

LEMMA ReadClientKeeps == ASSUME IInv, NEW p \in Logins, ReadClient(p)  PROVE IInv'
<1>0. PICK c \in Clients : c = login[p].client  BY CallTypes DEF ReadClient, IInv
<1>1. login[p] \in Calls /\ UNCHANGED <<clients, accounts, cache, admin>>
  BY CallTypes DEF ReadClient, IInv
<1>2. CASE clients[c] = None  BY <1>0, <1>1, <1>2, RefuseKeeps DEF ReadClient
<1>3. CASE clients[c] # None
  <2>1. clients[c] \in ClientRows /\ Busy(c) \in BOOLEAN
    BY <1>1, <1>3 DEF IInv, TypeOK, Busy
  <2>2. login' = [login EXCEPT ![p].step = "account", ![p].row = clients[c], ![p].raced = Busy(c)]
    BY <1>0, <1>3 DEF ReadClient
  <2>3. /\ login' \in [Logins -> Calls \cup {None}]
        /\ \A q \in Logins \ {p} : login'[q] = login[q]
        /\ login'[p].step = "account" /\ login'[p].row = clients[c]
        /\ login'[p].raced = Busy(c) /\ login'[p].client = c
    BY <1>0, <1>1, <2>1, <2>2 DEF IInv, TypeOK, Calls
  <2>4. Busy(c)' = Busy(c)  BY <1>1 DEF Busy, Targets
  <2>5. CallOK(p)'  BY <1>1, <2>1, <2>3, <2>4 DEF CallOK
  <2> QED  BY <1>1, <2>3, <2>5, CallKeeps
<1> QED  BY <1>2, <1>3

LEMMA ReadAccountKeeps == ASSUME IInv, NEW p \in Logins, ReadAccount(p)  PROVE IInv'
<1>0. PICK c \in Clients : c = login[p].client  BY CallTypes DEF ReadAccount, IInv
<1> DEFINE account == accounts[AccountOf[c]]
<1>1. /\ login[p] \in Calls /\ AccountOf[c] \in Accounts
      /\ UNCHANGED <<clients, accounts, cache, admin>> /\ login[p].step = "account"
  BY <1>0, CallTypes DEF ReadAccount, IInv
<1>2. CASE account = None  BY <1>0, <1>1, <1>2, RefuseKeeps DEF ReadAccount
<1>3. CASE account # None
  <2>1. account \in AccountRows /\ login[p].row \in ClientRows
    BY <1>0, <1>1, <1>3, Apart DEF IInv, TypeOK, CallOK
  <2> DEFINE rows == [client |-> login[p].row, account |-> account]
  <2>2. login' = [login EXCEPT ![p].step = "fill", ![p].row = rows]
    BY <1>0, <1>1, <1>3 DEF ReadAccount, IInv, TypeOK, Calls
  <2>3. rows \in [client: ClientRows, account: AccountRows]  BY <2>1
  <2>4. /\ login' \in [Logins -> Calls \cup {None}]
        /\ \A q \in Logins \ {p} : login'[q] = login[q]
        /\ login'[p].step = "fill" /\ login'[p].row = rows
        /\ login'[p].raced = login[p].raced /\ login'[p].client = c
    BY <1>0, <1>1, <2>2, <2>3 DEF IInv, TypeOK, Calls
  <2>5. Busy(c)' = Busy(c)  BY <1>0, <1>1 DEF Busy, Targets
  <2>6. CallOK(p)
    BY DEF IInv
  <2>7. CallOK(p)'  BY <1>0, <1>1, <2>3, <2>4, <2>5, <2>6, Apart DEF CallOK
  <2> QED  BY <1>0, <1>1, <2>4, <2>7, CallKeeps
<1> QED  BY <1>2, <1>3

LEMMA FillKeeps == ASSUME IInv, NEW p \in Logins, Fill(p)  PROVE IInv'
<1>0. PICK c \in Clients : c = login[p].client  BY CallTypes DEF Fill, IInv
<1>r. PICK row : row = login[p].row  OBVIOUS
<1>1. /\ login[p] \in Calls /\ c \in Clients /\ AccountOf[c] \in Accounts
      /\ login[p] # None /\ login[p].step = "fill"
      /\ UNCHANGED <<clients, accounts, admin>>
  BY <1>0, <1>r, CallTypes DEF Fill, IInv
<1>2. row \in [client: ClientRows, account: AccountRows] /\ login[p].raced \in BOOLEAN
  BY <1>0, <1>r, <1>1 DEF IInv, CallOK, Calls
<1> DEFINE entry == [client |-> row.client, account |-> row.account, age |-> 0,
                     raced |-> login[p].raced]
<1>3. entry \in Entries  BY <1>2, CacheAssumption DEF Entries
<1>4. cache' = [cache EXCEPT ![c] = entry]  BY <1>0, <1>r DEF Fill
<1>5. Decide(p, row.client, row.account)  BY <1>0, <1>r DEF Fill
<1>6. /\ entry.client = row.client /\ entry.account = row.account
      /\ entry.raced = login[p].raced
  OBVIOUS
<1> HIDE DEF entry
<1>7. /\ cache' \in [Clients -> Entries \cup {None}] /\ cache'[c] = entry
      /\ \A d \in Clients \ {c} : cache'[d] = cache[d]
  BY <1>0, <1>r, <1>1, <1>3, <1>4 DEF IInv, TypeOK
<1>8. TypeOK'  BY <1>0, <1>r, <1>1, <1>5, <1>7, DecideTypes DEF IInv, TypeOK, Todo
<1>9. \A a \in Admins : HandlerOK(a)'  BY <1>0, <1>r, <1>1 DEF IInv, HandlerOK, Todo
<1>10. \A q \in Logins : CallOK(q)'
  <2>1. CallOK(p)'  BY <1>0, <1>r, <1>1, <1>5, DecideTypes DEF CallOK
  <2> QED  BY <1>0, <1>r, <1>1, <1>5, <2>1, DecideTypes, OtherCalls
<1>11. ASSUME NEW d \in Clients  PROVE EntryOK(d)'
  <2>1. CASE d # c
    BY <1>0, <1>r, <1>1, <1>7, <2>1
    DEF IInv, EntryOK, Unraced, Targets, DropsLater, Todo, Coherent, HasWritten
  <2>2. CASE d = c
    <3> SUFFICES ASSUME ~login[p].raced  PROVE EntryOK(c)'
      BY <1>6, <1>7, <2>2 DEF EntryOK, Unraced
    <3>1. ~Busy(c) /\ row.client = clients[c] /\ row.account = accounts[AccountOf[c]]
      BY <1>0, <1>r, <1>1 DEF IInv, CallOK
    <3>2. Coherent(c)'  BY <1>0, <1>r, <1>1, <1>6, <1>7, <3>1 DEF Coherent
    <3>3. clients'[c] # None  BY <1>0, <1>r, <1>1, <1>2, <3>1, Apart
    <3>4. \A a \in Admins : c \notin Targets(a)'  BY <1>0, <1>r, <1>1, <3>1 DEF Busy, Targets
    <3> QED  BY <3>2, <3>3, <3>4 DEF EntryOK
  <2> QED  BY <2>1, <2>2
<1> QED  BY <1>8, <1>9, <1>10, <1>11 DEF IInv

LEMMA LoginKeeps == ASSUME IInv, NEW p \in Logins, Login(p)  PROVE IInv'
<1>1. CASE ReadFails(p)  BY <1>1, RefuseKeeps DEF ReadFails
<1>2. CASE Answered(p)  BY <1>2, RefuseKeeps DEF Answered, Refuse
<1> QED
  BY <1>1, <1>2, AuthenticateKeeps, CacheHitKeeps, CacheMissKeeps, ReadClientKeeps,
     ReadAccountKeeps, FillKeeps DEF Login


----------------------------------------------------------------------------
LEMMA Tuples ==
  /\ <<"drop">> # <<>> /\ <<"write">> # <<>> /\ <<"write", "drop">> # <<>>
  /\ <<"drop", "write">> # <<>> /\ <<"list", "drop">> # <<>>
  /\ <<"write", "list", "drop">> # <<>> /\ <<"list", "drop", "write">> # <<>>
  /\ Len(<<"drop">>) = 1 /\ Len(<<"write">>) = 1 /\ Len(<<"write", "drop">>) = 2
  /\ Len(<<"drop", "write">>) = 2 /\ Len(<<"list", "drop">>) = 2
  /\ Len(<<"write", "list", "drop">>) = 3 /\ Len(<<"list", "drop", "write">>) = 3
  /\ Head(<<"drop">>) = "drop" /\ Head(<<"write">>) = "write"
  /\ Head(<<"write", "drop">>) = "write" /\ Head(<<"drop", "write">>) = "drop"
  /\ Head(<<"list", "drop">>) = "list" /\ Head(<<"write", "list", "drop">>) = "write"
  /\ Head(<<"list", "drop", "write">>) = "list"
  /\ Tail(<<"write", "drop">>) = <<"drop">> /\ Tail(<<"drop", "write">>) = <<"write">>
  /\ Tail(<<"list", "drop">>) = <<"drop">>
  /\ Tail(<<"write", "list", "drop">>) = <<"list", "drop">>
  /\ Tail(<<"list", "drop", "write">>) = <<"drop", "write">>
OBVIOUS

(* Where a handler is, by the step before it.                              *)
LEMMA Phase ==
  ASSUME IInv, NEW a \in Admins, admin[a] # None
  PROVE  /\ Head(Todo(a)) = "write" =>
              \/ admin[a].kind \in {"rotate", "updateClient"} /\ Todo(a) = <<"write", "drop">>
              \/ admin[a].kind = "updateAccount" /\ Todo(a) = <<"write", "list", "drop">>
              \/ admin[a].kind \in {"deleteClient", "deleteAccount"} /\ Todo(a) = <<"write">>
         /\ Head(Todo(a)) = "list" =>
              \/ admin[a].kind = "updateAccount" /\ Todo(a) = <<"list", "drop">>
              \/ admin[a].kind = "deleteAccount" /\ Todo(a) = <<"list", "drop", "write">>
         /\ Head(Todo(a)) = "drop" =>
              \/ /\ admin[a].kind \in {"rotate", "updateClient", "updateAccount"}
                 /\ Todo(a) = <<"drop">>
              \/ /\ admin[a].kind \in {"deleteClient", "deleteAccount"}
                 /\ Todo(a) = <<"drop", "write">>
<1>1. Todo(a) \in Rest(admin[a].kind)  BY DEF IInv, HandlerOK
<1>2. admin[a].kind \in ClientKinds \/ admin[a].kind \in AccountKinds
  BY HandlerTypes DEF IInv
<1> QED  BY <1>1, <1>2, Tuples DEF Rest, ClientKinds, AccountKinds

(* What a handler is about stays the same for as long as it runs.          *)
LEMMA TargetsKept ==
  ASSUME NEW b \in Admins,
         admin'[b] # None => /\ admin[b] # None
                             /\ admin'[b].kind = admin[b].kind /\ admin'[b].id = admin[b].id
  PROVE  Targets(b)' \subseteq Targets(b)
BY DEF Targets

(* Entries are dropped or grow older, and handlers move on, in such a way  *)
(* that what a handler owes an entry stays owed.                           *)
LEMMA DebtsKept ==
  ASSUME IInv, UNCHANGED <<clients, accounts, login>>,
         cache' \in [Clients -> Entries \cup {None}],
         \A c \in Clients : Unraced(c)' =>
           /\ Unraced(c) /\ cache'[c].client = cache[c].client
           /\ cache'[c].account = cache[c].account,
         admin' \in [Admins -> Handlers \cup {None}],
         \A b \in Admins :
           /\ Targets(b)' \subseteq Targets(b) /\ HandlerOK(b)'
           /\ admin'[b] # None => Todo(b)' # <<>>
           /\ \A c \in Targets(b)' : Unraced(c)' /\ DropsLater(b, c) => DropsLater(b, c)'
           /\ \A c \in Targets(b) :
                HasWritten(b) /\ Unraced(c)' => c \in Targets(b)' /\ HasWritten(b)'
  PROVE  IInv'
<1>1. TypeOK'  BY DEF IInv, TypeOK
<1>2. \A c : Busy(c)' => Busy(c)  BY DEF Busy
<1>3. \A q \in Logins : CallOK(q)'  BY <1>2 DEF IInv, CallOK
<1>4. ASSUME NEW c \in Clients, Unraced(c)'  PROVE EntryOK(c)'
  <2>1. Unraced(c) /\ EntryOK(c)  BY <1>4 DEF IInv
  <2>2. Coherent(c)' <=> Coherent(c)  BY <1>4 DEF Coherent
  <2>3. clients'[c] # None  BY <2>1 DEF EntryOK
  <2>4. \A b \in Admins : c \in Targets(b)' => DropsLater(b, c)'
    BY <1>4, <2>1 DEF EntryOK
  <2>5. Coherent(c)' \/ \E b \in Admins : c \in Targets(b)' /\ HasWritten(b)'
    BY <1>4, <2>1, <2>2 DEF EntryOK
  <2> QED  BY <2>3, <2>4, <2>5 DEF EntryOK
<1> QED  BY <1>1, <1>3, <1>4 DEF IInv, EntryOK

(* The same, of a step of one handler.                                     *)
LEMMA MovesOn ==
  ASSUME IInv, UNCHANGED <<clients, accounts, login>>, NEW a \in Admins,
         cache' \in [Clients -> Entries \cup {None}],
         \A c \in Clients : cache'[c] = None \/ cache'[c] = cache[c],
         admin' \in [Admins -> Handlers \cup {None}],
         \A b \in Admins \ {a} : admin'[b] = admin[b],
         Targets(a)' \subseteq Targets(a),
         admin'[a] # None => Todo(a)' # <<>>, HandlerOK(a)',
         \A c \in Targets(a)' : Unraced(c)' => DropsLater(a, c)',
         \A c \in Targets(a) :
           HasWritten(a) /\ Unraced(c)' => c \in Targets(a)' /\ HasWritten(a)'
  PROVE  IInv'
<1>1. ASSUME NEW b \in Admins, b # a
      PROVE  /\ Targets(b)' \subseteq Targets(b) /\ HandlerOK(b)'
             /\ admin'[b] # None => Todo(b)' # <<>>
             /\ \A c \in Targets(b)' : Unraced(c)' /\ DropsLater(b, c) => DropsLater(b, c)'
             /\ \A c \in Targets(b) :
                  HasWritten(b) /\ Unraced(c)' => c \in Targets(b)' /\ HasWritten(b)'
  <2>1. Targets(b)' = Targets(b)  BY <1>1 DEF Targets
  <2>2. HandlerOK(b)' /\ (admin'[b] # None => Todo(b)' # <<>>)
    BY <1>1 DEF IInv, TypeOK, HandlerOK, Todo
  <2>3. \A c : DropsLater(b, c)' <=> DropsLater(b, c)  BY <1>1 DEF DropsLater, Todo
  <2>4. HasWritten(b)' <=> HasWritten(b)  BY <1>1 DEF HasWritten, Todo
  <2> QED  BY <2>1, <2>2, <2>3, <2>4
<1>2. \A c \in Clients : Unraced(c)' =>
        /\ Unraced(c) /\ cache'[c].client = cache[c].client
        /\ cache'[c].account = cache[c].account
  BY DEF Unraced
<1> QED  BY <1>1, <1>2, DebtsKept

LEMMA Proceeds ==
  ASSUME IInv, NEW a \in Admins, admin[a] # None, Proceed(a)
  PROVE  /\ admin' \in [Admins -> Handlers \cup {None}]
         /\ \A b \in Admins \ {a} : admin'[b] = admin[b]
         /\ Targets(a)' \subseteq Targets(a)
         /\ Len(Todo(a)) = 1 => admin'[a] = None
         /\ Len(Todo(a)) # 1 =>
              /\ admin'[a] # None /\ Todo(a)' = Tail(Todo(a))
              /\ admin'[a].kind = admin[a].kind /\ admin'[a].id = admin[a].id
              /\ admin'[a].drop = admin[a].drop /\ admin'[a].issued = admin[a].issued
<1>1. admin[a] \in Handlers /\ Todo(a) \in Seq({"write", "list", "drop"}) /\ Todo(a) # <<>>
  BY HandlerTypes DEF IInv, TypeOK, Todo, Handlers
<1>2. CASE Len(Todo(a)) = 1
  BY <1>2 DEF Proceed, IInv, TypeOK, Targets
<1>3. CASE Len(Todo(a)) # 1
  <2> DEFINE h == [admin[a] EXCEPT !.todo = Tail(Todo(a))]
  <2>1. Tail(Todo(a)) \in Seq({"write", "list", "drop"})  BY <1>1
  <2>2. /\ h \in Handlers /\ h.todo = Tail(Todo(a)) /\ h.kind = admin[a].kind
        /\ h.id = admin[a].id /\ h.drop = admin[a].drop /\ h.issued = admin[a].issued
    BY <1>1, <2>1 DEF Handlers
  <2>3. admin' = [admin EXCEPT ![a] = h]
    BY <1>3 DEF Proceed, Todo, IInv, TypeOK
  <2> HIDE DEF h
  <2>4. /\ admin'[a] = h /\ \A b \in Admins \ {a} : admin'[b] = admin[b]
        /\ admin' \in [Admins -> Handlers \cup {None}] /\ h # None
    BY <2>2, <2>3, Apart DEF IInv, TypeOK
  <2>5. Targets(a)' \subseteq Targets(a)  BY <2>2, <2>4, TargetsKept
  <2> QED  BY <1>3, <2>2, <2>4, <2>5 DEF Todo
<1> QED  BY <1>2, <1>3

LEMMA WriteFailsKeeps == ASSUME IInv, NEW a \in Admins, WriteFails(a)  PROVE IInv'
<1>1. /\ admin[a] # None /\ Head(Todo(a)) = "write"
      /\ admin' = [admin EXCEPT ![a] = None] /\ UNCHANGED <<clients, accounts, cache, login>>
  BY DEF WriteFails
<1>2. /\ admin' \in [Admins -> Handlers \cup {None}] /\ admin'[a] = None
      /\ \A b \in Admins \ {a} : admin'[b] = admin[b]
  BY <1>1 DEF IInv, TypeOK
<1>3. Targets(a)' = {}  BY <1>2 DEF Targets
<1>4. ~HasWritten(a)  BY <1>1, Tuples DEF HasWritten
<1>5. HandlerOK(a)'  BY <1>2 DEF HandlerOK
<1>6. cache' \in [Clients -> Entries \cup {None}]  BY <1>1 DEF IInv, TypeOK
<1> QED  BY <1>1, <1>2, <1>3, <1>4, <1>5, <1>6, MovesOn

LEMMA InvalidatedKeeps == ASSUME IInv, NEW a \in Admins, Invalidated(a)  PROVE IInv'
<1>1. /\ admin[a] # None /\ Head(Todo(a)) = "drop" /\ admin[a].drop = {}
      /\ Proceed(a) /\ UNCHANGED <<clients, accounts, cache, login>>
  BY DEF Invalidated
(* No entry of its clients is left but those that its run has raced.       *)
<1>2. \A c : ~DropsLater(a, c)
  BY <1>1, Tuples DEF DropsLater, WillList
<1>3. \A c \in Targets(a) : ~Unraced(c)
  <2>1. Targets(a) \subseteq Clients  BY <1>1, HandlerTypes DEF Targets, IInv
  <2> QED  BY <1>2, <2>1 DEF IInv, EntryOK
<1>4. HandlerOK(a)' /\ (admin'[a] # None => Todo(a)' # <<>>)
  <2>1. CASE /\ admin[a].kind \in {"rotate", "updateClient", "updateAccount"}
             /\ Todo(a) = <<"drop">>
    BY <1>1, <2>1, Proceeds, Tuples DEF HandlerOK
  <2>2. CASE admin[a].kind \in {"deleteClient", "deleteAccount"} /\ Todo(a) = <<"drop", "write">>
    <3>1. /\ admin'[a] # None /\ Todo(a)' = <<"write">> /\ admin'[a].kind = admin[a].kind
      <4>1. Len(Todo(a)) # 1 /\ Tail(Todo(a)) = <<"write">>  BY <2>2, Tuples
      <4> QED  BY <1>1, <4>1, Proceeds
    <3> QED  BY <2>2, <3>1, Tuples DEF HandlerOK, Rest
  <2> QED  BY <1>1, <2>1, <2>2, Phase
<1>5. cache' \in [Clients -> Entries \cup {None}]  BY <1>1 DEF IInv, TypeOK
<1>6. \A c \in Targets(a) : ~Unraced(c)'  BY <1>1, <1>3 DEF Unraced
<1> QED  BY <1>1, <1>4, <1>5, <1>6, Proceeds, MovesOn


LEMMA ListClientsKeeps == ASSUME IInv, NEW a \in Admins, ListClients(a)  PROVE IInv'
<1>1. admin[a] # None /\ Head(Todo(a)) = "list" /\ UNCHANGED <<clients, accounts, login>>
  BY DEF ListClients
<1>2. admin[a] \in Handlers /\ admin[a].kind \in AccountKinds /\ Todo(a) \in WillList
  BY <1>1, HandlerTypes, Phase DEF IInv, AccountKinds, WillList
<1>3. PICK drop \in SUBSET Clients :
        /\ admin' = [admin EXCEPT ![a].drop = drop, ![a].todo = Tail(@)]
        /\ \/ /\ UNCHANGED cache
              /\ drop = {c \in Clients : AccountOf[c] = admin[a].id /\ clients[c] # None}
           \/ cache' = [c \in Clients |-> None]
  <2> DEFINE listed == {c \in Clients : AccountOf[c] = admin[a].id /\ clients[c] # None}
  <2>1. listed \in SUBSET Clients /\ {} \in SUBSET Clients  OBVIOUS
  <2>2. \/ UNCHANGED cache /\ admin' = [admin EXCEPT ![a].drop = listed, ![a].todo = Tail(@)]
        \/ /\ cache' = [c \in Clients |-> None]
           /\ admin' = [admin EXCEPT ![a].drop = {}, ![a].todo = Tail(@)]
    BY DEF ListClients
  <2> QED  BY <2>1, <2>2, Zenon
<1> DEFINE h == [admin[a] EXCEPT !.drop = drop, !.todo = Tail(admin[a].todo)]
<1>4. Tail(admin[a].todo) \in Seq({"write", "list", "drop"})
  BY <1>1, <1>2 DEF Handlers, Todo, IInv, TypeOK
<1>5. /\ h \in Handlers /\ h.todo = Tail(admin[a].todo) /\ h.kind = admin[a].kind
      /\ h.id = admin[a].id /\ h.drop = drop /\ h.issued = admin[a].issued
  BY <1>2, <1>4 DEF Handlers
<1>6. admin' = [admin EXCEPT ![a] = h]  BY <1>3 DEF IInv, TypeOK
<1> HIDE DEF h
<1>7. /\ admin'[a] = h /\ h # None /\ \A b \in Admins \ {a} : admin'[b] = admin[b]
      /\ admin' \in [Admins -> Handlers \cup {None}]
  BY <1>5, <1>6, Apart DEF IInv, TypeOK
<1>8. cache' \in [Clients -> Entries \cup {None}] /\ \A c \in Clients : cache'[c] \in {None, cache[c]}
  BY <1>3 DEF IInv, TypeOK
<1>9. Targets(a)' = Targets(a) /\ Targets(a) = {c \in Clients : AccountOf[c] = admin[a].id}
  BY <1>1, <1>2, <1>5, <1>7 DEF Targets, ClientKinds, AccountKinds
<1>10. /\ Todo(a)' \in WillDrop /\ Todo(a)' # <<>>
       /\ Todo(a)' \in Rest(admin[a].kind)
       /\ admin[a].kind = "updateAccount" => Todo(a)' = <<"drop">>
       /\ admin[a].kind # "rotate"
  <2>1. CASE admin[a].kind = "updateAccount" /\ Todo(a) = <<"list", "drop">>
    BY <1>5, <1>7, <2>1, Tuples DEF Todo, WillDrop, Rest
  <2>2. CASE admin[a].kind = "deleteAccount" /\ Todo(a) = <<"list", "drop", "write">>
    BY <1>5, <1>7, <2>2, Tuples DEF Todo, WillDrop, Rest
  <2> QED  BY <1>1, <2>1, <2>2, Phase
<1>11. HandlerOK(a)'  BY <1>5, <1>7, <1>10 DEF HandlerOK
<1>12. ASSUME NEW c \in Targets(a), Unraced(c)'  PROVE DropsLater(a, c)'
  <2>1. c \in Clients /\ AccountOf[c] = admin[a].id  BY <1>9
  <2>2. cache'[c] = cache[c] /\ Unraced(c)  BY <1>8, <1>12, <2>1 DEF Unraced
  <2>3. clients[c] # None  BY <2>1, <2>2 DEF IInv, EntryOK
  <2>4. c \in drop  BY <1>3, <1>12, <2>1, <2>3 DEF Unraced
  <2> QED  BY <1>5, <1>7, <1>10, <2>4 DEF DropsLater
<1>13. HasWritten(a) => HasWritten(a)'
  BY <1>2, <1>5, <1>7, <1>10 DEF HasWritten, AccountKinds
<1> QED  BY <1>1, <1>7, <1>8, <1>9, <1>10, <1>11, <1>12, <1>13, MovesOn

LEMMA InvalidateKeeps == ASSUME IInv, NEW a \in Admins, Invalidate(a)  PROVE IInv'
<1>1. admin[a] # None /\ Head(Todo(a)) = "drop" /\ UNCHANGED <<clients, accounts, login>>
  BY DEF Invalidate
<1>2. PICK c \in admin[a].drop :
        /\ cache' = [cache EXCEPT ![c] = None]
        /\ admin' = [admin EXCEPT ![a].drop = @ \ {c}]
  BY DEF Invalidate
<1>3. admin[a] \in Handlers /\ admin[a].drop \subseteq Clients  BY <1>1, HandlerTypes DEF IInv
<1> DEFINE h == [admin[a] EXCEPT !.drop = admin[a].drop \ {c}]
<1>4. /\ h \in Handlers /\ h.todo = admin[a].todo /\ h.kind = admin[a].kind
      /\ h.id = admin[a].id /\ h.drop = admin[a].drop \ {c} /\ h.issued = admin[a].issued
  BY <1>3 DEF Handlers
<1>5. admin' = [admin EXCEPT ![a] = h]  BY <1>2 DEF IInv, TypeOK
<1> HIDE DEF h
<1>6. /\ admin'[a] = h /\ h # None /\ \A b \in Admins \ {a} : admin'[b] = admin[b]
      /\ admin' \in [Admins -> Handlers \cup {None}]
  BY <1>4, <1>5, Apart DEF IInv, TypeOK
<1>7. /\ cache' \in [Clients -> Entries \cup {None}] /\ cache'[c] = None
      /\ \A d \in Clients : cache'[d] \in {None, cache[d]}
  BY <1>2, <1>3 DEF IInv, TypeOK
<1>8. Targets(a)' = Targets(a) /\ Todo(a)' = Todo(a)
  BY <1>1, <1>4, <1>6 DEF Targets, Todo
<1>9. HandlerOK(a)' /\ Todo(a)' # <<>>
  BY <1>1, <1>4, <1>6, <1>8 DEF HandlerOK, IInv, TypeOK, Todo
<1>10. ASSUME NEW d \in Targets(a), Unraced(d)'  PROVE DropsLater(a, d)'
  <2>1. d \in Clients  BY <1>1, HandlerTypes DEF Targets, IInv
  <2>2. d # c /\ Unraced(d)  BY <1>7, <1>10, <2>1 DEF Unraced
  <2>3. DropsLater(a, d)  BY <2>1, <2>2 DEF IInv, EntryOK
  <2> QED  BY <1>4, <1>6, <1>8, <2>2, <2>3 DEF DropsLater
<1>11. HasWritten(a) => HasWritten(a)'  BY <1>4, <1>6, <1>8 DEF HasWritten
<1> QED  BY <1>1, <1>6, <1>7, <1>8, <1>9, <1>10, <1>11, MovesOn

LEMMA ClockKeeps == ASSUME IInv, Tick \/ PurgeExpired  PROVE IInv'
<1>1. UNCHANGED <<clients, accounts, login, admin>>  BY DEF Tick, PurgeExpired
<1>2. /\ cache' \in [Clients -> Entries \cup {None}]
      /\ \A c \in Clients : Unraced(c)' =>
           /\ Unraced(c) /\ cache'[c].client = cache[c].client
           /\ cache'[c].account = cache[c].account
  <2>1. CASE PurgeExpired  BY <2>1 DEF PurgeExpired, IInv, TypeOK, Unraced
  <2>2. CASE Tick
    <3>1. cache' = [c \in Clients |-> IF Fresh(c) THEN [cache[c] EXCEPT !.age = @ + 1] ELSE cache[c]]
      BY <2>2 DEF Tick
    <3>2. ASSUME NEW c \in Clients, Fresh(c)
          PROVE  /\ cache'[c] \in Entries /\ cache'[c].client = cache[c].client
                 /\ cache'[c].account = cache[c].account /\ cache'[c].raced = cache[c].raced
      <4>1. cache[c] \in Entries /\ cache[c].age < TTL  BY <3>2 DEF Fresh, IInv, TypeOK
      <4>2. cache[c].age + 1 \in 0..TTL  BY <4>1, CacheAssumption DEF Entries
      <4> QED  BY <3>1, <3>2, <4>1, <4>2 DEF Entries
    <3> QED  BY <3>1, <3>2 DEF IInv, TypeOK, Unraced, Fresh
  <2> QED  BY <2>1, <2>2
<1>3. ASSUME NEW b \in Admins
      PROVE  /\ Targets(b)' = Targets(b) /\ HandlerOK(b)' /\ (admin'[b] # None => Todo(b)' # <<>>)
             /\ \A c : DropsLater(b, c)' <=> DropsLater(b, c)
             /\ HasWritten(b)' <=> HasWritten(b)
  BY <1>1 DEF Targets, HandlerOK, Todo, DropsLater, HasWritten, IInv, TypeOK
<1> QED  BY <1>1, <1>2, <1>3, DebtsKept DEF IInv, TypeOK


----------------------------------------------------------------------------
LEMMA WriteKeeps == ASSUME IInv, NEW a \in Admins, Write(a)  PROVE IInv'
<1> DEFINE kind == admin[a].kind
           id == admin[a].id
<1>1. /\ admin[a] # None /\ Head(Todo(a)) = "write" /\ ~Missing(a) /\ Proceed(a)
      /\ UNCHANGED <<cache, login>>
  BY DEF Write
<1>2. /\ kind \in ClientKinds \/ kind \in AccountKinds
      /\ kind \in ClientKinds => id \in Clients /\ clients[id] \in ClientRows
      /\ kind \in AccountKinds => id \in Accounts /\ accounts[id] \in AccountRows
      /\ admin[a].enabled \in BOOLEAN
  BY <1>1, HandlerTypes DEF Missing, IInv, TypeOK, ClientKinds, AccountKinds
<1>3. kind = "rotate" => admin[a].issued \in Secrets  BY <1>1 DEF IInv, HandlerOK
(* Rows that the handler is not about are as before.                       *)
<1>4. /\ clients' \in [Clients -> ClientRows \cup {None}]
      /\ accounts' \in [Accounts -> AccountRows \cup {None}]
      /\ \A c \in Clients \ Targets(a) :
           clients'[c] = clients[c] /\ accounts'[AccountOf[c]] = accounts[AccountOf[c]]
      /\ kind \in {"rotate", "updateClient", "updateAccount"} =>
           /\ \A c \in Clients : clients'[c] = None <=> clients[c] = None
           /\ \A x \in Accounts : accounts'[x] = None <=> accounts[x] = None
      /\ kind = "deleteClient" => accounts' = accounts /\ clients' = [clients EXCEPT ![id] = None]
      /\ kind = "deleteAccount" =>
           /\ accounts' = [accounts EXCEPT ![id] = None]
           /\ \A c \in Clients : clients'[c] = IF AccountOf[c] = id THEN None ELSE clients[c]
  <2>1. CASE kind = "rotate"
    <3>1. clients' = [clients EXCEPT ![id].secret = admin[a].issued] /\ accounts' = accounts
      BY <2>1 DEF Write
    <3> QED
      BY <1>1, <1>2, <1>3, <2>1, <3>1, Apart
      DEF IInv, TypeOK, ClientRows, Targets, ClientKinds
  <2>2. CASE kind = "updateClient"
    <3>1. clients' = [clients EXCEPT ![id].enabled = admin[a].enabled] /\ accounts' = accounts
      BY <2>2 DEF Write
    <3> QED
      BY <1>1, <1>2, <2>2, <3>1, Apart DEF IInv, TypeOK, ClientRows, Targets, ClientKinds
  <2>3. CASE kind = "deleteClient"
    <3>1. clients' = [clients EXCEPT ![id] = None] /\ accounts' = accounts
      BY <2>3 DEF Write
    <3> QED
      BY <1>1, <1>2, <2>3, <3>1, Apart DEF IInv, TypeOK, Targets, ClientKinds
  <2>4. CASE kind = "updateAccount"
    <3>1. accounts' = [accounts EXCEPT ![id].enabled = admin[a].enabled] /\ clients' = clients
      BY <2>4 DEF Write
    <3> QED
      BY <1>1, <1>2, <2>4, <3>1, Apart
      DEF IInv, TypeOK, AccountRows, Targets, ClientKinds, AccountKinds
  <2>5. CASE kind = "deleteAccount"
    <3>1. accounts' = [accounts EXCEPT ![id] = None] /\ clients' = Cascade(id)
      BY <2>5 DEF Write
    <3> QED
      BY <1>1, <1>2, <2>5, <3>1, Apart
      DEF IInv, TypeOK, Cascade, Targets, ClientKinds, AccountKinds
  <2> QED  BY <1>2, <2>1, <2>2, <2>3, <2>4, <2>5 DEF ClientKinds, AccountKinds
(* A delete has dropped what there was to drop; a change drops it next.    *)
<1>5. \/ /\ kind \in {"deleteClient", "deleteAccount"} /\ admin'[a] = None
         /\ \A c : ~DropsLater(a, c)
      \/ /\ kind \in {"rotate", "updateClient", "updateAccount"} /\ admin'[a] # None
         /\ admin'[a].kind = kind /\ admin'[a].id = id /\ admin'[a].issued = admin[a].issued
         /\ Todo(a)' # <<>> /\ Todo(a)' \in Rest(kind)
         /\ HasWritten(a)' /\ \A c : DropsLater(a, c) => DropsLater(a, c)'
  <2>1. CASE kind \in {"rotate", "updateClient"} /\ Todo(a) = <<"write", "drop">>
    <3>1. Len(Todo(a)) # 1 /\ Tail(Todo(a)) = <<"drop">>  BY <2>1, Tuples
    <3>2. /\ admin'[a] # None /\ Todo(a)' = <<"drop">> /\ admin'[a].drop = admin[a].drop
          /\ admin'[a].kind = kind /\ admin'[a].id = id /\ admin'[a].issued = admin[a].issued
      BY <1>1, <3>1, Proceeds
    <3> QED  BY <2>1, <3>2, Tuples DEF Rest, HasWritten, DropsLater, WillList, WillDrop
  <2>2. CASE kind = "updateAccount" /\ Todo(a) = <<"write", "list", "drop">>
    <3>1. Len(Todo(a)) # 1 /\ Tail(Todo(a)) = <<"list", "drop">>  BY <2>2, Tuples
    <3>2. /\ admin'[a] # None /\ Todo(a)' = <<"list", "drop">>
          /\ admin'[a].kind = kind /\ admin'[a].id = id /\ admin'[a].issued = admin[a].issued
      BY <1>1, <3>1, Proceeds
    <3> QED  BY <2>2, <3>2, Tuples DEF Rest, HasWritten, DropsLater, WillList
  <2>3. CASE kind \in {"deleteClient", "deleteAccount"} /\ Todo(a) = <<"write">>
    <3>1. admin'[a] = None  BY <1>1, <2>3, Proceeds, Tuples
    <3> QED  BY <2>3, <3>1, Tuples DEF DropsLater, WillList, WillDrop
  <2> QED  BY <1>1, <2>1, <2>2, <2>3, Phase
<1>6. /\ admin' \in [Admins -> Handlers \cup {None}]
      /\ \A b \in Admins \ {a} : admin'[b] = admin[b] /\ Targets(b)' = Targets(b)
      /\ Targets(a)' = IF admin'[a] = None THEN {} ELSE Targets(a)
  <2>1. /\ admin' \in [Admins -> Handlers \cup {None}]
        /\ \A b \in Admins \ {a} : admin'[b] = admin[b]
    BY <1>1, Proceeds
  <2>2. \A b \in Admins \ {a} : Targets(b)' = Targets(b)  BY <2>1 DEF Targets
  <2>3. Targets(a)' = IF admin'[a] = None THEN {} ELSE Targets(a)
    BY <1>1, <1>5 DEF Targets
  <2> QED  BY <2>1, <2>2, <2>3
<1>7. TypeOK'
  <2>1. \A c \in Clients : accounts'[AccountOf[c]] = None => clients'[c] = None
    BY <1>2, <1>4, CacheAssumption DEF IInv, TypeOK, ClientKinds, AccountKinds
  <2>2. \A b \in Admins : admin'[b] # None => Todo(b)' # <<>>
    BY <1>5, <1>6 DEF IInv, TypeOK, Todo
  <2> QED  BY <1>1, <1>4, <1>6, <2>1, <2>2 DEF IInv, TypeOK
<1>8. \A b \in Admins : HandlerOK(b)'
  <2>1. HandlerOK(a)'  BY <1>3, <1>5 DEF HandlerOK
  <2> QED  BY <1>6, <2>1 DEF IInv, HandlerOK, Todo
<1>9. ASSUME NEW q \in Logins  PROVE CallOK(q)'
  <2>1. \A c : Busy(c)' => Busy(c)  BY <1>6 DEF Busy
  <2>2. SUFFICES ASSUME login[q] # None, ~login[q].raced, login[q].step \in {"account", "fill"}
                 PROVE  CallOK(q)'
    BY <1>1 DEF IInv, CallOK
  <2>3. PICK c \in Clients : c = login[q].client  BY <2>2, CallTypes DEF IInv
  <2>4. ~Busy(c)  BY <2>2, <2>3 DEF IInv, CallOK
  <2>5. clients'[c] = clients[c] /\ accounts'[AccountOf[c]] = accounts[AccountOf[c]]
    BY <1>4, <2>4 DEF Busy
  <2> QED  BY <1>1, <2>1, <2>2, <2>3, <2>5 DEF IInv, CallOK
<1>10. ASSUME NEW c \in Clients, Unraced(c)'  PROVE EntryOK(c)'
  <2>1. Unraced(c) /\ EntryOK(c)  BY <1>1, <1>10 DEF Unraced, IInv
  <2>2. \A b \in Admins \ {a} : /\ DropsLater(b, c)' <=> DropsLater(b, c)
                                /\ HasWritten(b)' <=> HasWritten(b)
    BY <1>6 DEF DropsLater, HasWritten, Todo
  <2>3. CASE c \in Targets(a)
    <3>1. DropsLater(a, c)  BY <2>1, <2>3 DEF EntryOK
    <3>2. /\ kind \in {"rotate", "updateClient", "updateAccount"}
          /\ c \in Targets(a)' /\ HasWritten(a)' /\ DropsLater(a, c)'
      BY <1>5, <1>6, <2>3, <3>1
    <3>3. clients'[c] # None  BY <1>4, <2>1, <3>2 DEF EntryOK
    <3> QED  BY <1>6, <2>1, <2>2, <3>2, <3>3 DEF EntryOK
  <2>4. CASE c \notin Targets(a)
    <3>1. clients'[c] = clients[c] /\ (Coherent(c)' <=> Coherent(c))
      BY <1>1, <1>4, <2>4 DEF Coherent
    <3>2. c \notin Targets(a)'  BY <1>6, <2>4
    <3> QED  BY <1>6, <2>1, <2>2, <2>4, <3>1, <3>2 DEF EntryOK
  <2> QED  BY <2>3, <2>4
<1> QED  BY <1>7, <1>8, <1>9, <1>10 DEF IInv, EntryOK


----------------------------------------------------------------------------
(* A handler begins: it has its drops before it, and every call that holds *)
(* rows of its clients is raced from now on.                               *)
LEMMA BeginKeeps ==
  ASSUME IInv, UNCHANGED <<clients, accounts, cache>>, NEW a \in Admins, admin[a] = None,
         NEW h \in Handlers, admin' = [admin EXCEPT ![a] = h],
         h.todo # <<>>, HandlerOK(a)', MarkRaced(Targets(a)'),
         \A c \in Targets(a)' : DropsLater(a, c)'
  PROVE  IInv'
<1>1. /\ admin'[a] = h /\ h # None /\ \A b \in Admins \ {a} : admin'[b] = admin[b]
      /\ admin' \in [Admins -> Handlers \cup {None}]
  BY Apart DEF IInv, TypeOK
<1> DEFINE C == Targets(a)'
<1>2. login' = [p \in Logins |->
        IF login[p] # None /\ login[p].step \in {"account", "fill"} /\ login[p].client \in C
        THEN [login[p] EXCEPT !.raced = TRUE] ELSE login[p]]
  BY DEF MarkRaced
<1> HIDE DEF C
<1>3. ASSUME NEW p \in Logins, login[p] # None
      PROVE  /\ login'[p] \in Calls /\ login'[p] # None
             /\ login'[p].client = login[p].client /\ login'[p].step = login[p].step
             /\ login'[p].row = login[p].row
             /\ ~login'[p].raced /\ login[p].step \in {"account", "fill"} =>
                  ~login[p].raced /\ login[p].client \notin C
  <2>1. login[p] \in Calls  BY <1>3 DEF IInv, TypeOK
  <2>2. CASE login[p].step \in {"account", "fill"} /\ login[p].client \in C
    <3>1. login'[p] = [login[p] EXCEPT !.raced = TRUE]  BY <1>2, <1>3, <2>2
    <3>2. login'[p] \in Calls  BY <2>1, <3>1 DEF Calls
    <3> QED  BY <2>1, <3>1, <3>2, Apart DEF Calls
  <2>3. CASE ~(login[p].step \in {"account", "fill"} /\ login[p].client \in C)
    BY <1>2, <1>3, <2>1, <2>3
  <2> QED  BY <2>2, <2>3
<1>4. \A p \in Logins : login[p] = None => login'[p] = None  BY <1>2
<1>5. TypeOK'
  <2>1. login' \in [Logins -> Calls \cup {None}]  BY <1>2, <1>3, <1>4
  <2>2. \A b \in Admins : admin'[b] # None => Todo(b)' # <<>>
    BY <1>1 DEF IInv, TypeOK, Todo
  <2> QED  BY <1>1, <2>1, <2>2 DEF IInv, TypeOK
<1>6. \A b \in Admins : HandlerOK(b)'  BY <1>1 DEF IInv, HandlerOK, Todo
<1>7. \A b \in Admins \ {a} : Targets(b)' = Targets(b)  BY <1>1 DEF Targets
<1>8. \A c : Busy(c)' => Busy(c) \/ c \in C  BY <1>7 DEF Busy, C
<1>9. ASSUME NEW p \in Logins  PROVE CallOK(p)'
  BY <1>3, <1>4, <1>8 DEF IInv, CallOK
<1>10. ASSUME NEW c \in Clients, Unraced(c)'  PROVE EntryOK(c)'
  <2>1. Unraced(c) /\ EntryOK(c)  BY <1>10 DEF Unraced, IInv
  <2>2. \A b \in Admins \ {a} : /\ DropsLater(b, c)' <=> DropsLater(b, c)
                                /\ HasWritten(b)' <=> HasWritten(b)
    BY <1>1 DEF DropsLater, HasWritten, Todo
  <2>3. c \notin Targets(a)  BY DEF Targets
  <2>4. Coherent(c)' <=> Coherent(c)  BY DEF Coherent
  <2>5. clients'[c] # None  BY <2>1 DEF EntryOK
  <2> QED  BY <1>7, <2>1, <2>2, <2>3, <2>4, <2>5 DEF EntryOK
<1> QED  BY <1>5, <1>6, <1>9, <1>10 DEF IInv, EntryOK

LEMMA BeginClientKeeps == ASSUME IInv, NEW a \in Admins, BeginClient(a)  PROVE IInv'
<1>1. PICK c \in Clients, kind \in ClientKinds, enabled \in BOOLEAN, issued \in 0..MaxSecret :
       /\ kind # "deleteClient" => clients[c] # None
       /\ kind # "updateClient" => enabled
       /\ IF kind = "rotate" THEN Latest(c, issued - 1) ELSE issued = 0
       /\ admin' = [admin EXCEPT ![a] =
            [kind |-> kind, id |-> c, enabled |-> enabled, todo |-> Plan(kind),
             drop |-> {c}, issued |-> issued]]
       /\ MarkRaced({c})
  BY DEF BeginClient
<1>2. admin[a] = None /\ UNCHANGED <<clients, accounts, cache>>  BY DEF BeginClient
<1>3. /\ Plan(kind) \in Seq({"write", "list", "drop"}) /\ Plan(kind) # <<>>
      /\ Plan(kind) \in Rest(kind) /\ Plan(kind) \in WillDrop
  <2>1. CASE kind \in {"rotate", "updateClient"}
    <3>1. Plan(kind) = <<"write", "drop">>  BY <2>1 DEF Plan
    <3> QED  BY <2>1, <3>1, Tuples DEF Rest, WillDrop
  <2>2. CASE kind = "deleteClient"
    <3>1. Plan(kind) = <<"drop", "write">>  BY <2>2 DEF Plan
    <3> QED  BY <2>2, <3>1, Tuples DEF Rest, WillDrop
  <2> QED  BY <2>1, <2>2 DEF ClientKinds
<1> DEFINE h == [kind |-> kind, id |-> c, enabled |-> enabled, todo |-> Plan(kind),
                 drop |-> {c}, issued |-> issued]
<1>4. /\ h \in Handlers /\ h.kind = kind /\ h.id = c /\ h.todo = Plan(kind)
      /\ h.drop = {c} /\ h.issued = issued
  BY <1>3 DEF Handlers
<1> HIDE DEF h
<1>5. admin' = [admin EXCEPT ![a] = h] /\ h # None  BY <1>1, <1>4, Apart DEF h
<1>6. admin'[a] = h  BY <1>5 DEF IInv, TypeOK
<1>7. Targets(a)' = {c}  BY <1>4, <1>5, <1>6 DEF Targets
(* A secret is issued after one that there is.                             *)
<1>8. kind = "rotate" => issued \in Secrets
  <2> SUFFICES ASSUME kind = "rotate"  PROVE issued \in Secrets  OBVIOUS
  <2>1. Latest(c, issued - 1) /\ clients[c] \in ClientRows  BY <1>1 DEF IInv, TypeOK
  <2>2. clients[c].secret \in Nat \ {0}  BY <2>1, CacheAssumption DEF ClientRows, Secrets
  <2>3. issued - 1 >= clients[c].secret  BY <2>1 DEF Latest
  <2> QED  BY <2>2, <2>3, CacheAssumption DEF Secrets
<1>9. HandlerOK(a)'  BY <1>3, <1>4, <1>6, <1>8 DEF HandlerOK, Todo
<1>10. \A d \in Targets(a)' : DropsLater(a, d)'
  BY <1>3, <1>4, <1>6, <1>7 DEF DropsLater, Todo
<1> QED  BY ZenonT(30), <1>1, <1>2, <1>3, <1>4, <1>5, <1>7, <1>9, <1>10, BeginKeeps

LEMMA BeginAccountKeeps == ASSUME IInv, NEW a \in Admins, BeginAccount(a)  PROVE IInv'
<1>1. PICK x \in Accounts, kind \in AccountKinds, enabled \in BOOLEAN :
       /\ admin' = [admin EXCEPT ![a] =
            [kind |-> kind, id |-> x, enabled |-> enabled, todo |-> Plan(kind),
             drop |-> {}, issued |-> 0]]
       /\ MarkRaced({c \in Clients : AccountOf[c] = x})
  BY DEF BeginAccount
<1>2. admin[a] = None /\ UNCHANGED <<clients, accounts, cache>>  BY DEF BeginAccount
<1>3. /\ Plan(kind) \in Seq({"write", "list", "drop"}) /\ Plan(kind) # <<>>
      /\ Plan(kind) \in Rest(kind) /\ Plan(kind) \in WillList /\ kind # "rotate"
      /\ kind \notin ClientKinds
  <2>1. CASE kind = "updateAccount"
    <3>1. Plan(kind) = <<"write", "list", "drop">>  BY <2>1 DEF Plan
    <3>2. <<"write", "list", "drop">> \in Seq({"write", "list", "drop"})  OBVIOUS
    <3>3. Plan(kind) \in Rest(kind) /\ Plan(kind) \in WillList
      BY <2>1, <3>1 DEF Rest, WillList
    <3>4. kind # "rotate" /\ kind \notin ClientKinds  BY <2>1 DEF ClientKinds
    <3> QED  BY <3>1, <3>2, <3>3, <3>4, Tuples
  <2>2. CASE kind = "deleteAccount"
    <3>1. Plan(kind) = <<"list", "drop", "write">>  BY <2>2 DEF Plan
    <3>2. <<"list", "drop", "write">> \in Seq({"write", "list", "drop"})  OBVIOUS
    <3>3. Plan(kind) \in Rest(kind) /\ Plan(kind) \in WillList
      BY <2>2, <3>1 DEF Rest, WillList
    <3>4. kind # "rotate" /\ kind \notin ClientKinds  BY <2>2 DEF ClientKinds
    <3> QED  BY <3>1, <3>2, <3>3, <3>4, Tuples
  <2> QED  BY <2>1, <2>2 DEF AccountKinds
<1> DEFINE h == [kind |-> kind, id |-> x, enabled |-> enabled, todo |-> Plan(kind),
                 drop |-> {}, issued |-> 0]
<1>4. /\ h \in Handlers /\ h.kind = kind /\ h.id = x /\ h.todo = Plan(kind)
  BY <1>3, CacheAssumption DEF Handlers
<1> HIDE DEF h
<1>5. admin' = [admin EXCEPT ![a] = h] /\ h # None  BY <1>1, <1>4, Apart DEF h
<1>6. admin'[a] = h  BY <1>5 DEF IInv, TypeOK
<1>7. Targets(a)' = {c \in Clients : AccountOf[c] = x}
  BY <1>3, <1>4, <1>5, <1>6 DEF Targets
<1>8. HandlerOK(a)'  BY <1>3, <1>4, <1>6 DEF HandlerOK, Todo
<1>9. \A d \in Targets(a)' : DropsLater(a, d)'  BY <1>3, <1>4, <1>6 DEF DropsLater, Todo
<1> QED  BY <1>1, <1>2, <1>3, <1>4, <1>5, <1>7, <1>8, <1>9, BeginKeeps

----------------------------------------------------------------------------
LEMMA InitKeeps == Init => IInv
<1> SUFFICES ASSUME Init  PROVE IInv  OBVIOUS
<1>1. TypeOK
  <2>1. [secret |-> 1, enabled |-> TRUE] \in ClientRows
    BY CacheAssumption DEF ClientRows, Secrets
  <2>2. [enabled |-> TRUE] \in AccountRows  BY DEF AccountRows
  <2>3. \A c \in Clients : accounts[AccountOf[c]] # None
    BY <2>2, Apart, CacheAssumption DEF Init
  <2> QED  BY <2>1, <2>2, <2>3 DEF Init, TypeOK
<1>2. \A a \in Admins : HandlerOK(a)  BY DEF Init, HandlerOK
<1>3. \A p \in Logins : CallOK(p)  BY DEF Init, CallOK
<1>4. \A c \in Clients : EntryOK(c)  BY DEF Init, EntryOK, Unraced
<1> QED  BY <1>1, <1>2, <1>3, <1>4 DEF IInv

LEMMA StepKeeps == IInv /\ [Next]_vars => IInv'
<1> SUFFICES ASSUME IInv, [Next]_vars  PROVE IInv'  OBVIOUS
<1>1. ASSUME NEW p \in Logins, Login(p)  PROVE IInv'  BY <1>1, LoginKeeps
<1>2. ASSUME NEW a \in Admins, Administer(a)  PROVE IInv'
  BY <1>2, BeginClientKeeps, BeginAccountKeeps, WriteKeeps, WriteFailsKeeps,
     ListClientsKeeps, InvalidateKeeps, InvalidatedKeeps DEF Administer
<1>3. CASE UNCHANGED vars
  <2>1. TypeOK'  BY <1>3 DEF vars, IInv, TypeOK, Todo
  <2>2. \A a \in Admins : HandlerOK(a)'  BY <1>3 DEF vars, IInv, HandlerOK, Todo
  <2>3. \A p \in Logins : CallOK(p)'  BY <1>3 DEF vars, IInv, CallOK, Busy, Targets
  <2>4. \A c \in Clients : EntryOK(c)'
    BY <1>3 DEF vars, IInv, EntryOK, Unraced, Targets, DropsLater, Todo, Coherent, HasWritten
  <2> QED  BY <2>1, <2>2, <2>3, <2>4 DEF IInv
<1> QED  BY <1>1, <1>2, <1>3, ClockKeeps DEF Next

(* The argument as a whole: whoever made an entry wrong has still to drop  *)
(* it, and whoever has dropped its entries has left none behind.           *)
THEOREM CacheInductive == Spec => []IInv
<1>1. Init => IInv  BY InitKeeps
<1>2. IInv /\ [Next]_vars => IInv'  BY StepKeeps
<1> QED  BY <1>1, <1>2, PTL DEF Spec

(* The rows a registration holds and the plan a handler follows have their *)
(* types, and a client's row never outlives its account's.                 *)
THEOREM CacheTypeCorrect == Spec => []TypeOK
<1>1. IInv => TypeOK  BY DEF IInv
<1> QED  BY <1>1, CacheInductive, PTL

(* Once a handler has answered, what is cached agrees with the store, for  *)
(* every entry whose fill no handler raced.                                *)
THEOREM QuietFillsAreCoherentCorrect == Spec => []QuietFillsAreCoherent
<1>1. IInv => QuietFillsAreCoherent
  BY DEF IInv, EntryOK, Unraced, QuietFillsAreCoherent, Fresh, Busy
<1> QED  BY <1>1, CacheInductive, PTL
=============================================================================
