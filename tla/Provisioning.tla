---------------------------- MODULE Provisioning ---------------------------
(***************************************************************************)
(* Credentials and allocations as the panel (internal/server/admin), its   *)
(* deployment builder and the command line (internal/client/cli/admin.go)  *)
(* change them, several at once on one database. One statement is atomic   *)
(* and may fail; most operations read a row, change the copy and write the *)
(* copy back.                                                              *)
(***************************************************************************)
EXTENDS Integers, FiniteSets

CONSTANTS
  Operators,    \* requests and commands, one operation each
  Clients,      \* credential ids, drawn once
  Accounts,
  Names,        \* what can be reserved: subdomains and ports
  NoClient, NoRow,
  MaxRows       \* bound of the model: reservations made

ClientRows == [account : Accounts, enabled : BOOLEAN, secret : Nat]
ReservationRows == [id : Nat, account : Accounts, bound : Clients \cup {NoClient}]

ASSUME ProvisioningAssumption ==
  /\ NoClient \notin Clients /\ NoRow \notin ClientRows \cup ReservationRows /\ MaxRows \in Nat

VARIABLES
  client,       \* [Clients -> [account, enabled, secret] or NoRow]
  reservation,  \* [Names -> [id, account, bound] or NoRow]
  rows,         \* reservations made so far: the next one's id
  work,         \* [Operators -> [at, client, name, copy]]
  overlap,      \* overlap[w]: the operators at work while w was
  inForce,      \* inForce[c]: the secret last given out for c, NoRow if c was deleted
  used,         \* clients that were created
  told          \* told[n]: who was told to have n, since anything else wrote or dropped its row

provisioningVars == <<client, reservation, rows, work, overlap, inForce, used, told>>

Jobs == {"idle", "edit", "rotate", "bind", "toggle", "lookup", "insert", "adopt", "done", "failed"}
Job(at, c, n, copy) == [at |-> at, client |-> c, name |-> n, copy |-> copy]
Working(w) == work[w].at \notin {"idle", "done", "failed"}

ProvisioningInit ==
  /\ client = [c \in Clients |-> NoRow] /\ reservation = [n \in Names |-> NoRow] /\ rows = 0
  /\ work = [w \in Operators |-> Job("idle", NoClient, NoRow, NoRow)] /\ overlap = [w \in Operators |-> {}]
  /\ inForce = [c \in Clients |-> NoRow] /\ used = {} /\ told = [n \in Names |-> {}]

Exists(c) == client[c] # NoRow

(* An operation begins with what its first step leaves it to do.           *)
Starts(w, job) ==
  /\ work[w].at = "idle" /\ work' = [work EXCEPT ![w] = job]
  /\ overlap' = [v \in Operators |->
       IF v = w THEN {u \in Operators : Working(u)}
       ELSE IF Working(v) THEN overlap[v] \cup {w} ELSE overlap[v]]

Overlapped(v, w) == v \in overlap[w] \/ w \in overlap[v]

Ends(w, at) == work' = [work EXCEPT ![w].at = at] /\ UNCHANGED overlap
Forget(n) == told' = [told EXCEPT ![n] = {}]

----------------------------------------------------------------------------
(* CreateClient, with an id and a secret nobody has.                       *)
NewClient(c, a) ==
  /\ c \notin used /\ used' = used \cup {c}
  /\ client' = [client EXCEPT ![c] = [account |-> a, enabled |-> TRUE, secret |-> 0]]
  /\ inForce' = [inForce EXCEPT ![c] = 0]

CreateClient(c) ==
  /\ \E a \in Accounts : NewClient(c, a)
  /\ UNCHANGED <<reservation, rows, work, overlap, told>>

(* handleUpdateClient and setClientEnabled: GetClient, then UpdateClient,  *)
(* which leaves the account and the secret alone and no row where it finds *)
(* none.                                                                   *)
GetClient(w, c) ==
  /\ Exists(c)
  /\ Starts(w, Job("edit", c, NoRow, client[c]))
  /\ UNCHANGED <<client, reservation, rows, inForce, used, told>>

(* Fault: the copy is written back as a whole.                             *)
WriteClientWhole(c, copy) ==
  client' = [client EXCEPT ![c] = IF @ = NoRow THEN @ ELSE copy]

WriteClient(c, copy) ==
  client' = [client EXCEPT ![c] = IF @ = NoRow THEN @ ELSE [@ EXCEPT !.enabled = copy.enabled]]

UpdateClient(w) ==
  LET c == work[w].client IN
  /\ work[w].at = "edit"
  /\ \/ \E on \in BOOLEAN : WriteClient(c, [work[w].copy EXCEPT !.enabled = on])
        /\ Ends(w, IF Exists(c) THEN "done" ELSE "failed")
     \/ UNCHANGED client /\ Ends(w, "failed")
  /\ UNCHANGED <<reservation, rows, inForce, used, told>>

(* handleRotateClient and adminClientRotateCmd                             *)
GetClientToRotate(w, c) ==
  /\ Exists(c) /\ Starts(w, Job("rotate", c, NoRow, NoRow))
  /\ UNCHANGED <<client, reservation, rows, inForce, used, told>>

RotateClientSecret(w) ==
  LET c == work[w].client IN
  /\ work[w].at = "rotate"
  /\ \/ /\ Exists(c) /\ client' = [client EXCEPT ![c].secret = inForce[c] + 1]
        /\ inForce' = [inForce EXCEPT ![c] = @ + 1]
        /\ Ends(w, "done")
     \/ Ends(w, "failed") /\ UNCHANGED <<client, inForce>>
  /\ UNCHANGED <<reservation, rows, used, told>>

(* DeleteClient; the foreign key takes it off its reservations.            *)
DeleteClient(c) ==
  /\ Exists(c) /\ client' = [client EXCEPT ![c] = NoRow] /\ inForce' = [inForce EXCEPT ![c] = NoRow]
  /\ reservation' = [n \in Names |->
       IF reservation[n] # NoRow /\ reservation[n].bound = c
       THEN [reservation[n] EXCEPT !.bound = NoClient] ELSE reservation[n]]
  /\ told' = [n \in Names |-> IF reservation'[n] # reservation[n] THEN {} ELSE told[n]]
  /\ UNCHANGED <<rows, work, overlap, used>>

----------------------------------------------------------------------------
(* UpdateReservation: the mutable columns of the row with the copy's id; a *)
(* client that is gone breaks the foreign key.                             *)
Holder(n) == IF reservation[n] = NoRow THEN NoClient ELSE reservation[n].bound
Matches(copy, n) == reservation[n] # NoRow /\ reservation[n].id = copy.id
Writable(copy, n) == Matches(copy, n) /\ (copy.bound # NoClient => Exists(copy.bound))

WriteReservation(n, copy) ==
  reservation' = [reservation EXCEPT ![n].bound = copy.bound]

(* An unbound or bound one by hand, with the client checked at that time.  *)
CreateReservation(n) ==
  /\ reservation[n] = NoRow /\ rows < MaxRows
  /\ \E a \in Accounts, c \in Clients \cup {NoClient} :
       /\ c # NoClient => Exists(c) /\ client[c].account = a
       /\ reservation' = [reservation EXCEPT
            ![n] = [id |-> rows, account |-> a, bound |-> c]]
  /\ rows' = rows + 1 /\ Forget(n)
  /\ UNCHANGED <<client, work, overlap, inForce, used>>

DeleteReservation(n) ==
  /\ reservation[n] # NoRow /\ reservation' = [reservation EXCEPT ![n] = NoRow] /\ Forget(n)
  /\ UNCHANGED <<client, rows, work, overlap, inForce, used>>

(* adminReservationBindCmd reads the row and checks the client.            *)
ReadToBind(w, n) ==
  /\ reservation[n] # NoRow
  /\ \E c \in Clients \cup {NoClient} :
       /\ c # NoClient => Exists(c) /\ client[c].account = reservation[n].account
       /\ Starts(w, Job("bind", NoClient, n, [reservation[n] EXCEPT !.bound = c]))
  /\ UNCHANGED <<client, reservation, rows, inForce, used, told>>

(* setReservationEnabled reads the row. (Whether it is enabled is left out: *)
(* here it matters that the binding is written back with it.)              *)
ReadToToggle(w, n) ==
  /\ reservation[n] # NoRow
  /\ Starts(w, Job("toggle", NoClient, n, reservation[n]))
  /\ UNCHANGED <<client, reservation, rows, inForce, used, told>>

UpdateReservation(w) ==
  LET n == work[w].name
      copy == work[w].copy IN
  /\ work[w].at \in {"bind", "toggle"}
  /\ \/ Writable(copy, n) /\ WriteReservation(n, copy) /\ Forget(n) /\ Ends(w, "done")
     \/ Ends(w, "failed") /\ UNCHANGED <<reservation, told>>
  /\ UNCHANGED <<client, rows, inForce, used>>

----------------------------------------------------------------------------
(* planProvision. provisionClient finds the credential or makes it, ...    *)
provisionClient(w, c, n) ==
  /\ \/ Exists(c) /\ UNCHANGED <<client, used, inForce>>
     \/ \E a \in Accounts : NewClient(c, a)
  /\ Starts(w, Job("lookup", c, n, [account |-> client'[c].account]))
  /\ UNCHANGED <<reservation, rows, told>>

(* Fault: whose the row is is looked at, not which client's.               *)
AdoptableByAccount(row, c, account) == row.account = account

(* ... resolveReservation looks for the row, adoptReservation refuses what *)
(* is another's and has nothing to write if it is the client's already, ...*)
Adoptable(row, c, account) == row.account = account /\ row.bound \in {NoClient, c}

resolveReservation(w) ==
  LET c == work[w].client
      n == work[w].name
      row == reservation[n] IN
  /\ work[w].at = "lookup" /\ UNCHANGED overlap
  /\ \/ row = NoRow /\ Ends(w, "insert") /\ UNCHANGED told
     \/ /\ row # NoRow /\ Adoptable(row, c, work[w].copy.account)
        /\ IF row.bound = c THEN Ends(w, "done") /\ told' = [told EXCEPT ![n] = @ \cup {w}]
           ELSE /\ work' = [work EXCEPT ![w].at = "adopt", ![w].copy = [row EXCEPT !.bound = c]]
                /\ UNCHANGED told
     \/ Ends(w, "failed") /\ UNCHANGED told
  /\ UNCHANGED <<client, reservation, rows, inForce, used>>

(* ... and the row is inserted or written. The answer is the token, if it  *)
(* is a new one, and the command to run; a failure shows neither.          *)
InsertReservation(w) ==
  LET c == work[w].client
      n == work[w].name IN
  /\ work[w].at = "insert"
  /\ \/ /\ reservation[n] = NoRow /\ Exists(c) /\ rows < MaxRows
        /\ reservation' = [reservation EXCEPT ![n] =
             [id |-> rows, account |-> work[w].copy.account, bound |-> c]]
        /\ rows' = rows + 1 /\ told' = [told EXCEPT ![n] = @ \cup {w}] /\ Ends(w, "done")
     \/ Ends(w, "failed") /\ UNCHANGED <<reservation, rows, told>>
  /\ UNCHANGED <<client, inForce, used>>

adoptReservation(w) ==
  LET n == work[w].name
      copy == work[w].copy IN
  /\ work[w].at = "adopt"
  /\ \/ Writable(copy, n) /\ WriteReservation(n, copy)
        /\ told' = [told EXCEPT ![n] = @ \cup {w}] /\ Ends(w, "done")
     \/ Ends(w, "failed") /\ UNCHANGED <<reservation, told>>
  /\ UNCHANGED <<client, rows, inForce, used>>

ProvisioningNext ==
  \/ \E c \in Clients : CreateClient(c) \/ DeleteClient(c)
  \/ \E n \in Names : CreateReservation(n) \/ DeleteReservation(n)
  \/ \E w \in Operators :
       \/ UpdateClient(w) \/ RotateClientSecret(w) \/ UpdateReservation(w)
       \/ resolveReservation(w) \/ InsertReservation(w) \/ adoptReservation(w)
       \/ \E c \in Clients : GetClient(w, c) \/ GetClientToRotate(w, c)
       \/ \E n \in Names : ReadToBind(w, n) \/ ReadToToggle(w, n)
       \/ \E c \in Clients, n \in Names : provisionClient(w, c, n)

ProvisioningSpec == ProvisioningInit /\ [][ProvisioningNext]_provisioningVars

----------------------------------------------------------------------------
(* No copy that was read earlier undoes what happened since: a secret that *)
(* was replaced stays replaced, a credential that was deleted stays gone,  *)
(* and a bound allocation stays with its own account.                      *)
StaleWritesHarmless ==
  /\ \A c \in Clients : inForce[c] = IF Exists(c) THEN client[c].secret ELSE NoRow
  /\ \A n \in Names :
       LET row == reservation[n] IN
       row # NoRow /\ row.bound # NoClient => Exists(row.bound) /\ client[row.bound].account = row.account

(* What an operator was told holds: a name that is bound to another machine *)
(* by now, though nothing else has changed it since, went to somebody who   *)
(* was told so too and was at work while the first still was.               *)
ToldApart ==
  \A n \in Names : \A v \in told[n] :
    Holder(n) # work[v].client =>
      \E w \in told[n] : work[w].client # work[v].client /\ Overlapped(v, w)
=============================================================================
