--------------------------- MODULE CredentialCache --------------------------
(***************************************************************************)
(* internal/server/auth: the Authenticator and its credential cache,       *)
(* against the admin API that revokes credentials.                         *)
(*                                                                         *)
(* A registration looks its client up in the cache under a read lock, and  *)
(* on a miss reads the client row, then the account row, then stores both  *)
(* under the write lock. An admin handler writes the store and drops cache *)
(* entries, in the order of the handler. No lock spans two of these steps. *)
(*                                                                         *)
(* Secrets are numbered in the order they are issued. Only tokens shaped   *)
(* like a stored credential come this way; the shared token and anonymous  *)
(* registrations never touch the cache.                                    *)
(***************************************************************************)
EXTENDS Integers, Sequences

CONSTANTS
  Clients, Accounts,
  AccountOf,       \* [Clients -> Accounts], clients.account_id
  Logins,          \* goroutines in Authenticate
  Admins,          \* goroutines in a handler of the admin API
  MaxSecret,       \* bound: secrets issued per client
  TTL,             \* cacheTTL in ticks of the clock
  None             \* no row, no entry, no call

Secrets == 1..MaxSecret
ClientRows == [secret: Secrets, enabled: BOOLEAN]
AccountRows == [enabled: BOOLEAN]
Entries ==
  [client: ClientRows, account: AccountRows, age: 0..TTL, raced: BOOLEAN]

(* The handlers, as the order of their steps: "write" the store, "list"    *)
(* the account's clients, "drop" their cache entries.                      *)
ClientKinds == {"rotate", "updateClient", "deleteClient"}
AccountKinds == {"updateAccount", "deleteAccount"}

Calls ==
  [step: {"lookup", "client", "account", "fill", "accepted"}, client: Clients, secret: Secrets,
   row: ClientRows \cup [client: ClientRows, account: AccountRows] \cup {None},
   barred: BOOLEAN, raced: BOOLEAN]
Handlers ==
  [kind: ClientKinds, id: Clients, enabled: BOOLEAN, todo: Seq({"write", "list", "drop"}),
   drop: SUBSET Clients, issued: 0..MaxSecret]
  \cup
  [kind: AccountKinds, id: Accounts, enabled: BOOLEAN, todo: Seq({"write", "list", "drop"}),
   drop: SUBSET Clients, issued: 0..MaxSecret]

ASSUME CacheAssumption ==
  /\ AccountOf \in [Clients -> Accounts]
  /\ MaxSecret \in Nat \ {0} /\ TTL \in Nat \ {0}
  /\ None \notin ClientRows \cup AccountRows \cup Entries \cup Calls \cup Handlers

VARIABLES
  clients,   \* [Clients -> ClientRows], None when deleted
  accounts,  \* [Accounts -> AccountRows], None when deleted
  cache,     \* [Clients -> [client, account, age, raced]]; age TTL has expired
  login,     \* [Logins -> the call, and how far it is]
  admin      \* [Admins -> the handler, and what it has still to do]

vars == <<clients, accounts, cache, login, admin>>

Fresh(c) == cache[c] # None /\ cache[c].age < TTL

(* Fault: the clients are listed when the delete has cascaded over them.   *)
PlanListsLate(kind) ==
  CASE kind \in {"rotate", "updateClient"} -> <<"write", "drop">>
    [] kind = "deleteClient" -> <<"drop", "write">>
    [] kind \in AccountKinds -> <<"write", "list", "drop">>

Plan(kind) ==
  CASE kind \in {"rotate", "updateClient"} -> <<"write", "drop">>
    [] kind = "deleteClient" -> <<"drop", "write">>
    [] kind = "updateAccount" -> <<"write", "list", "drop">>
    [] kind = "deleteAccount" -> <<"list", "drop", "write">>

(* The clients a handler is about.                                         *)
Targets(a) ==
  IF admin[a] = None THEN {}
  ELSE IF admin[a].kind \in ClientKinds THEN {admin[a].id}
  ELSE {c \in Clients : AccountOf[c] = admin[a].id}

Busy(c) == \E a \in Admins : c \in Targets(a)

Init ==
  /\ clients = [c \in Clients |-> [secret |-> 1, enabled |-> TRUE]]
  /\ accounts = [x \in Accounts |-> [enabled |-> TRUE]]
  /\ cache = [c \in Clients |-> None]
  /\ login = [p \in Logins |-> None]
  /\ admin = [a \in Admins |-> None]

----------------------------------------------------------------------------
(* The secret was replaced or deleted, by handlers that have answered.     *)
Revoked(c, s) ==
  ~Busy(c) /\ (clients[c] = None \/ clients[c].secret # s)

(* A registration presents a secret that was issued at some time.          *)
Authenticate(p) ==
  /\ login[p] = None
  /\ \E c \in Clients :
       \E s \in 1..(IF clients[c] = None THEN MaxSecret ELSE clients[c].secret) :
         login' = [login EXCEPT ![p] =
           [step |-> "lookup", client |-> c, secret |-> s, row |-> None,
            barred |-> Revoked(c, s), raced |-> FALSE]]
  /\ UNCHANGED <<clients, accounts, cache, admin>>

Refuse(p) == login' = [login EXCEPT ![p] = None]

(* VerifySecret and the two enabled flags.                                 *)
Decide(p, client, account) ==
  IF client.secret = login[p].secret /\ client.enabled /\ account.enabled
  THEN login' = [login EXCEPT ![p].step = "accepted", ![p].row = None, ![p].raced = FALSE]
  ELSE Refuse(p)

(* Fault: a hit keeps its entry for another TTL.                           *)
CacheHitExtends(p) ==
  LET c == login[p].client IN
  /\ login[p] # None /\ login[p].step = "lookup" /\ Fresh(c)
  /\ Decide(p, cache[c].client, cache[c].account)
  /\ cache' = [cache EXCEPT ![c].age = 0]
  /\ UNCHANGED <<clients, accounts, admin>>

CacheHit(p) ==
  LET c == login[p].client IN
  /\ login[p] # None /\ login[p].step = "lookup" /\ Fresh(c)
  /\ Decide(p, cache[c].client, cache[c].account)
  /\ UNCHANGED <<clients, accounts, cache, admin>>

CacheMiss(p) ==
  /\ login[p] # None /\ login[p].step = "lookup" /\ ~Fresh(login[p].client)
  /\ login' = [login EXCEPT ![p].step = "client"]
  /\ UNCHANGED <<clients, accounts, cache, admin>>

ReadClient(p) ==
  LET c == login[p].client IN
  /\ login[p] # None /\ login[p].step = "client"
  /\ IF clients[c] = None THEN Refuse(p)
     ELSE login' = [login EXCEPT ![p].step = "account", ![p].row = clients[c],
                                 ![p].raced = Busy(c)]
  /\ UNCHANGED <<clients, accounts, cache, admin>>

(* The account row, read on its own, is None when a delete has cascaded    *)
(* since the client row was read.                                          *)
ReadAccount(p) ==
  LET account == accounts[AccountOf[login[p].client]] IN
  /\ login[p] # None /\ login[p].step = "account"
  /\ IF account = None THEN Refuse(p)
     ELSE login' = [login EXCEPT ![p].step = "fill",
                                 ![p].row = [client |-> @, account |-> account]]
  /\ UNCHANGED <<clients, accounts, cache, admin>>

Fill(p) ==
  LET c == login[p].client
      row == login[p].row
  IN
  /\ login[p] # None /\ login[p].step = "fill"
  /\ cache' = [cache EXCEPT ![c] =
       [client |-> row.client, account |-> row.account, age |-> 0,
        raced |-> login[p].raced]]
  /\ Decide(p, row.client, row.account)
  /\ UNCHANGED <<clients, accounts, admin>>

(* A query of lookup fails for another reason than a missing row.          *)
ReadFails(p) ==
  /\ login[p] # None /\ login[p].step \in {"client", "account"}
  /\ Refuse(p)
  /\ UNCHANGED <<clients, accounts, cache, admin>>

Answered(p) ==
  /\ login[p] # None /\ login[p].step = "accepted"
  /\ login' = [login EXCEPT ![p] = None]
  /\ UNCHANGED <<clients, accounts, cache, admin>>

----------------------------------------------------------------------------
(* A fill under way is raced by every handler that begins on its client.   *)
MarkRaced(C) ==
  login' = [p \in Logins |->
    IF login[p] # None /\ login[p].step \in {"account", "fill"} /\ login[p].client \in C
    THEN [login[p] EXCEPT !.raced = TRUE] ELSE login[p]]

(* The last secret generated for c, whether or not it is stored already.   *)
Latest(c, s) ==
  /\ s = clients[c].secret \/ \E a \in Admins : c \in Targets(a) /\ admin[a].issued = s
  /\ s >= clients[c].secret /\ \A a \in Admins : c \in Targets(a) => admin[a].issued <= s

(* handleRotateClient, handleUpdateClient and handleDeleteClient. The      *)
(* first two read the row before anything else. enabled is what an update  *)
(* will write: what it read, unless the request says otherwise.            *)
BeginClient(a) ==
  /\ admin[a] = None
  /\ \E c \in Clients, kind \in ClientKinds, enabled \in BOOLEAN, issued \in 0..MaxSecret :
       /\ kind # "deleteClient" => clients[c] # None
       /\ kind # "updateClient" => enabled
       /\ IF kind = "rotate" THEN Latest(c, issued - 1) ELSE issued = 0
       /\ admin' = [admin EXCEPT ![a] =
            [kind |-> kind, id |-> c, enabled |-> enabled, todo |-> Plan(kind),
             drop |-> {c}, issued |-> issued]]
       /\ MarkRaced({c})
  /\ UNCHANGED <<clients, accounts, cache>>

(* handleUpdateAccount and handleDeleteAccount.                            *)
BeginAccount(a) ==
  /\ admin[a] = None
  /\ \E x \in Accounts, kind \in AccountKinds, enabled \in BOOLEAN :
       /\ kind = "updateAccount" => accounts[x] # None
       /\ kind = "deleteAccount" => enabled
       /\ admin' = [admin EXCEPT ![a] =
            [kind |-> kind, id |-> x, enabled |-> enabled, todo |-> Plan(kind),
             drop |-> {}, issued |-> 0]]
       /\ MarkRaced({c \in Clients : AccountOf[c] = x})
  /\ UNCHANGED <<clients, accounts, cache>>

Todo(a) == admin[a].todo

(* The head of the plan is done; after the last step the handler answers.  *)
Proceed(a) ==
  IF Len(Todo(a)) = 1
  THEN admin' = [admin EXCEPT ![a] = None]
  ELSE admin' = [admin EXCEPT ![a].todo = Tail(@)]

(* The statement affects no row.                                           *)
Missing(a) ==
  IF admin[a].kind \in ClientKinds THEN clients[admin[a].id] = None
  ELSE accounts[admin[a].id] = None

(* That, or an error of the database: the handler returns with it.         *)
WriteFails(a) ==
  /\ admin[a] # None /\ Head(Todo(a)) = "write"
  /\ admin' = [admin EXCEPT ![a] = None]
  /\ UNCHANGED <<clients, accounts, cache, login>>

(* ON DELETE CASCADE from an account to its clients.                       *)
Cascade(x) == [c \in Clients |-> IF AccountOf[c] = x THEN None ELSE clients[c]]

(* RotateClientSecret, UpdateClient, DeleteClient, UpdateAccount,          *)
(* DeleteAccount.                                                          *)
Write(a) ==
  LET kind == admin[a].kind
      id == admin[a].id
  IN
  /\ admin[a] # None /\ Head(Todo(a)) = "write" /\ ~Missing(a)
  /\ clients' =
       CASE kind = "rotate" -> [clients EXCEPT ![id].secret = admin[a].issued]
         [] kind = "updateClient" -> [clients EXCEPT ![id].enabled = admin[a].enabled]
         [] kind = "deleteClient" -> [clients EXCEPT ![id] = None]
         [] kind = "updateAccount" -> clients
         [] kind = "deleteAccount" -> Cascade(id)
  /\ accounts' =
       CASE kind = "updateAccount" -> [accounts EXCEPT ![id].enabled = admin[a].enabled]
         [] kind = "deleteAccount" -> [accounts EXCEPT ![id] = None]
         [] OTHER -> accounts
  /\ Proceed(a)
  /\ UNCHANGED <<cache, login>>

(* invalidateAccount: the clients to drop, or, when the query fails,       *)
(* InvalidateAll.                                                          *)
ListClients(a) ==
  /\ admin[a] # None /\ Head(Todo(a)) = "list"
  /\ \/ /\ admin' = [admin EXCEPT
             ![a].drop = {c \in Clients : AccountOf[c] = admin[a].id /\ clients[c] # None},
             ![a].todo = Tail(@)]
        /\ UNCHANGED cache
     \/ /\ cache' = [c \in Clients |-> None]
        /\ admin' = [admin EXCEPT ![a].drop = {}, ![a].todo = Tail(@)]
  /\ UNCHANGED <<clients, accounts, login>>

(* Invalidate, one entry under the lock.                                   *)
Invalidate(a) ==
  /\ admin[a] # None /\ Head(Todo(a)) = "drop" /\ admin[a].drop # {}
  /\ \E c \in admin[a].drop :
       /\ cache' = [cache EXCEPT ![c] = None]
       /\ admin' = [admin EXCEPT ![a].drop = @ \ {c}]
  /\ UNCHANGED <<clients, accounts, login>>

Invalidated(a) ==
  /\ admin[a] # None /\ Head(Todo(a)) = "drop" /\ admin[a].drop = {}
  /\ Proceed(a)
  /\ UNCHANGED <<clients, accounts, cache, login>>

----------------------------------------------------------------------------
(* The clock.                                                              *)
Tick ==
  /\ \E c \in Clients : Fresh(c)
  /\ cache' = [c \in Clients |-> IF Fresh(c) THEN [cache[c] EXCEPT !.age = @ + 1]
                                 ELSE cache[c]]
  /\ UNCHANGED <<clients, accounts, login, admin>>

PurgeExpired ==
  /\ \E c \in Clients : cache[c] # None /\ ~Fresh(c)
  /\ cache' = [c \in Clients |-> IF Fresh(c) THEN cache[c] ELSE None]
  /\ UNCHANGED <<clients, accounts, login, admin>>

Login(p) ==
  \/ Authenticate(p) \/ CacheHit(p) \/ CacheMiss(p)
  \/ ReadClient(p) \/ ReadAccount(p) \/ ReadFails(p) \/ Fill(p) \/ Answered(p)

Administer(a) ==
  \/ BeginClient(a) \/ BeginAccount(a) \/ Write(a) \/ WriteFails(a)
  \/ ListClients(a) \/ Invalidate(a) \/ Invalidated(a)

Next ==
  \/ \E p \in Logins : Login(p)
  \/ \E a \in Admins : Administer(a)
  \/ Tick \/ PurgeExpired

Spec == Init /\ [][Next]_vars /\ WF_vars(Tick)

----------------------------------------------------------------------------
Coherent(c) ==
  /\ clients[c] = cache[c].client
  /\ accounts[AccountOf[c]] = cache[c].account

(* The types; a row whose account is gone is gone too.                     *)
TypeOK ==
  /\ clients \in [Clients -> ClientRows \cup {None}]
  /\ accounts \in [Accounts -> AccountRows \cup {None}]
  /\ cache \in [Clients -> Entries \cup {None}]
  /\ login \in [Logins -> Calls \cup {None}]
  /\ admin \in [Admins -> Handlers \cup {None}]
  /\ \A c \in Clients : accounts[AccountOf[c]] = None => clients[c] = None
  /\ \A a \in Admins : admin[a] # None => Todo(a) # <<>>

(* Every handler drops what it changed: once it has answered, an entry     *)
(* still in the cache says what the store says, unless the entry was       *)
(* filled while the handler ran.                                           *)
QuietFillsAreCoherent ==
  \A c \in Clients : Fresh(c) /\ ~cache[c].raced /\ ~Busy(c) => Coherent(c)

(* "The previous token must stop working immediately, not in 30 seconds",  *)
(* and deleting a client or an account takes effect on the next            *)
(* registration: a call that begins after the answer is never accepted.    *)
EffectiveNow ==
  \A p \in Logins :
    login[p] # None /\ login[p].step = "accepted" => ~login[p].barred

(* What DefaultCacheTTL is for: an entry that a race left behind is not    *)
(* used for ever, however often its client registers with it.              *)
StaleEntriesExpire ==
  \A c \in Clients :
    (Fresh(c) /\ ~Coherent(c)) ~> (~Fresh(c) \/ Coherent(c))
=============================================================================
