----------------------- MODULE TunnelLifecycle_proofs ----------------------
(***************************************************************************)
(* What TunnelLifecycle promises holds for any connections, ports, names   *)
(* and requests: nothing leaks, Close gives back in an order nobody        *)
(* notices, and Stop closes everything.                                    *)
(***************************************************************************)
EXTENDS TunnelLifecycle, TLAPS

(* The steps of Close at which it has not given back a resource yet.       *)
PortKept == {"open", "stopProxy", "shut", "freePort"}
RowKept == PortKept \cup {"dropRow"}
NameKept == RowKept \cup {"dropName"}
GroupKept == NameKept \cup {"dropGroup"}

(* A connection on its way in is one of three stages, in every proof here. *)
USE DEF Arriving

(* The stages at which the handler has a resource and has not reported it. *)
PortUnreported == {"claim", "unclaim", "record", "keepPort"}
NameUnreported == {"record", "keepPort", "keepName"}
RowUnreported == {"keepPort", "keepName", "keepRow"}

(* The stages after a report.                                              *)
Registered == {"group", "keepGroup", "ack", "yamux", "proxy", "take", "listen", "serve", "closing"}
Proxied == {"take", "listen", "serve", "closing"}
Named == NameUnreported \cup {"keepRow"} \cup (Registered \ {"closing"})

Types ==
  /\ stage \in [Conns -> Stages]
  /\ req \in [Conns -> Requests \cup {None}]
  /\ port \in [Conns -> Ports \cup {None}]
  /\ name \in [Conns -> Names \cup {None}]
  /\ used \in [Ports -> Conns \cup {None}]
  /\ socket \in [Ports -> Conns \cup {"held", None}]
  /\ live \in [Names -> Conns \cup {None}]
  /\ rows \in [Names -> Conns \cup {"left", None}]
  /\ groups \subseteq Conns
  /\ known \in [Conns -> SUBSET Resources]
  /\ snap \in [Conns -> SUBSET Resources]
  /\ cstep \in [Conns -> CloseSteps]
  /\ session \in [Conns -> {"none", "open", "closed"}]
  /\ proxy \in [Conns -> {"none", "made", "running", "stopped"}]
  /\ server \in {"up", "ranging", "waiting", "down"}
  /\ pending \subseteq Conns
  /\ missed \subseteq Conns

(* What a handler has done is where it is, and what it has reported.       *)
Local(c) ==
  /\ stage[c] \in {"free"} \cup Arriving =>
       cstep[c] = "open" /\ known[c] = {} /\ snap[c] = {}
  /\ stage[c] \in {"free", "reading", "alloc"} \cup Arriving => port[c] = None /\ proxy[c] = "none"
  /\ cstep[c] = "open" => snap[c] = {}
  /\ snap[c] \subseteq known[c]
  /\ stage[c] \in Stages \ ({"free", "reading", "closing"} \cup Arriving) => req[c] \in Requests
  /\ req[c] \in Requests => (req[c].type = "http" => port[c] = None)
  /\ stage[c] = "alloc" => req[c].type = "tcp"
  /\ stage[c] \in Named \cup {"claim"} /\ req[c].type = "tcp" => port[c] \in Ports
  /\ stage[c] \in {"unclaim", "proxy", "take", "listen"} => port[c] \in Ports
  /\ stage[c] \in Named => name[c] \in Names
  /\ "port" \in known[c] =>
       port[c] \in Ports /\ stage[c] \in {"keepName", "keepRow"} \cup Registered
  /\ stage[c] \in {"keepName", "keepRow"} \cup (Registered \ {"closing"}) /\ port[c] \in Ports =>
       "port" \in known[c]
  /\ "name" \in known[c] => name[c] \in Names /\ stage[c] \in {"keepRow"} \cup Registered
  /\ stage[c] \in {"keepRow"} \cup (Registered \ {"closing"}) => "name" \in known[c]
  /\ "row" \in known[c] => "name" \in known[c] /\ stage[c] \in Registered
  /\ "group" \in known[c] => stage[c] \in Registered \ {"group", "keepGroup"}
  /\ "proxy" \in known[c] => port[c] \in Ports /\ stage[c] \in Proxied
  /\ proxy[c] # "none" => "proxy" \in known[c]
  /\ stage[c] \in {"take", "listen"} => proxy[c] # "none"
  /\ proxy[c] = "running" => stage[c] \in {"serve", "closing"}
  /\ "proxy" \in snap[c] /\ cstep[c] \notin {"open", "stopProxy"} => proxy[c] = "stopped"

(* A port or a name stays with the connection until its Close has come to  *)
(* it, and who listens is in the middle of starting to, or runs a proxy.   *)
Owns(c) ==
  /\ stage[c] \in PortUnreported /\ port[c] \in Ports => used[port[c]] = c
  /\ "port" \in known[c] /\ cstep[c] \in PortKept => used[port[c]] = c
  /\ stage[c] \in NameUnreported => live[name[c]] = c
  /\ "name" \in known[c] /\ cstep[c] \in NameKept => live[name[c]] = c
  /\ \A p \in Ports : socket[p] = c =>
       \/ stage[c] = "free"
       \/ p = port[c] /\ (stage[c] = "listen" \/ proxy[c] = "running")

(* While nobody stops the server, a Close begins when everything has been  *)
(* reported, and what the tables have of a connection it still has.        *)
Accounted(c) ==
  /\ cstep[c] # "open" => stage[c] \in {"serve", "closing"} /\ snap[c] = known[c]
  /\ \A p \in Ports :
       /\ used[p] = c =>
            p = port[c] /\ (stage[c] \in PortUnreported
                            \/ ("port" \in known[c] /\ cstep[c] \in PortKept))
       /\ socket[p] = c => used[p] = c
  /\ \A n \in Names :
       /\ live[n] = c =>
            n = name[c] /\ (stage[c] \in NameUnreported
                            \/ ("name" \in known[c] /\ cstep[c] \in NameKept))
       /\ rows[n] = c =>
            n = name[c] /\ (stage[c] \in RowUnreported
                            \/ ("row" \in known[c] /\ cstep[c] \in RowKept))
  /\ c \in groups =>
       stage[c] = "keepGroup" \/ ("group" \in known[c] /\ cstep[c] \in GroupKept)

(* Stop knows of everybody in l.connections; who was not there yet when    *)
(* Range began is the only one it may miss.                                *)
Reached(c) ==
  /\ server # "up" /\ stage[c] \in Arriving => c \in missed
  /\ server = "ranging" => c \in missed \cup pending \/ stage[c] = "free" \/ cstep[c] # "open"
  /\ server = "waiting" => c \in missed \/ stage[c] = "free" \/ cstep[c] # "open"

UpOK ==
  server = "up" =>
    /\ \A c \in Conns : Accounted(c)
    /\ FreedPortIsSilent

IInv ==
  /\ Types
  /\ \A c \in Conns : Local(c) /\ Owns(c) /\ Reached(c)
  /\ UpOK

----------------------------------------------------------------------------
(* A step of one connection leaves another alone: neither its variables    *)
(* nor what the tables have of it change, but that somebody may drop it.   *)
Same(d) ==
  /\ stage'[d] = stage[d] /\ req'[d] = req[d] /\ port'[d] = port[d] /\ name'[d] = name[d]
  /\ known'[d] = known[d] /\ snap'[d] = snap[d] /\ cstep'[d] = cstep[d]
  /\ proxy'[d] = proxy[d]

SameTables(d) ==
  /\ \A p \in Ports : (used'[p] = d <=> used[p] = d) /\ (socket'[p] = d => socket[p] = d)
  /\ \A n \in Names : (live'[n] = d <=> live[n] = d) /\ (rows'[n] = d => rows[n] = d)
  /\ d \in groups' => d \in groups

LEMMA OthersLocal ==
  ASSUME NEW d \in Conns, Same(d), Local(d) PROVE Local(d)'
  BY DEF Same, Local

LEMMA OthersOwn ==
  ASSUME NEW d \in Conns, Types, Same(d), SameTables(d), Local(d), Owns(d) PROVE Owns(d)'
<1> USE DEF Same, SameTables
<1>1. stage[d] \in PortUnreported /\ port[d] \in Ports => used'[port[d]] = d
  BY DEF Owns
<1>2. "port" \in known[d] /\ cstep[d] \in PortKept => used'[port[d]] = d
  BY DEF Owns, Local
<1>3. stage[d] \in NameUnreported => live'[name[d]] = d
  BY DEF Owns, Local, Named
<1>4. "name" \in known[d] /\ cstep[d] \in NameKept => live'[name[d]] = d
  BY DEF Owns, Local
<1> QED
  BY <1>1, <1>2, <1>3, <1>4 DEF Owns

LEMMA OthersAccounted ==
  ASSUME NEW d \in Conns, Types, Same(d), SameTables(d), Accounted(d) PROVE Accounted(d)'
  BY DEF Same, SameTables, Accounted, Types

(* So a step of c keeps the invariant if it keeps what is said of c.       *)
LEMMA StepOfOne ==
  ASSUME IInv, NEW c \in Conns, UNCHANGED <<server, missed>>, pending \subseteq pending', Types',
         \A d \in Conns \ {c} : Same(d) /\ SameTables(d),
         Local(c)', Owns(c)', Reached(c)',
         server = "up" => Accounted(c)' /\ FreedPortIsSilent'
  PROVE  IInv'
<1>1. ASSUME NEW d \in Conns \ {c} PROVE Local(d)' /\ Owns(d)' /\ Reached(d)'
  BY <1>1, OthersLocal, OthersOwn DEF IInv, Reached, Same
<1>2. ASSUME server = "up", NEW d \in Conns \ {c} PROVE Accounted(d)'
  BY <1>2, OthersAccounted DEF IInv, UpOK
<1>3. UpOK'
  BY <1>2 DEF UpOK
<1> QED
  BY <1>1, <1>3 DEF IInv

----------------------------------------------------------------------------
(* Steps that leave the tables alone.                                      *)
LEMMA QuietStep ==
  ASSUME IInv, NEW c \in Conns, UNCHANGED <<tables, server, missed>>, pending \subseteq pending', Types',
         \A d \in Conns \ {c} : Same(d),
         Local(c)', Owns(c)', Reached(c)', server = "up" => Accounted(c)'
  PROVE  IInv'
<1>1. \A d \in Conns \ {c} : SameTables(d)
  BY DEF SameTables, tables
<1>2. server = "up" => FreedPortIsSilent'
  BY DEF FreedPortIsSilent, tables, IInv, UpOK
<1> QED
  BY <1>1, <1>2, StepOfOne

(* The handler goes on and changes nothing.                                *)
Moves(c, to) ==
  /\ stage' = [stage EXCEPT ![c] = to]
  /\ UNCHANGED <<req, port, name, tables, closing, link, server, missed, pending>>

LEMMA MoveKeeps ==
  ASSUME IInv, NEW c \in Conns, NEW to \in Stages, Moves(c, to),
         \/ stage[c] = "free" /\ to = "accepted" /\ server = "up"
         \/ stage[c] \in Arriving /\ to \in {"free"} \cup Arriving
         \/ stage[c] \in {"reading", "alloc", "ack", "serve"} /\ to = "closing"
         \/ stage[c] = "claim" /\ to = IF req[c].type = "tcp" THEN "unclaim" ELSE "closing"
         \/ stage[c] = "ack" /\ to = "yamux"
  PROVE  IInv'
<1> USE DEF Moves, closing, link
<1>1. Types /\ Local(c) /\ Owns(c) /\ Reached(c) /\ UpOK
  BY DEF IInv
<1>2. stage'[c] = to /\ \A d \in Conns \ {c} : Same(d)
  BY <1>1 DEF Types, Same
<1>3. Types'
  BY <1>1 DEF Types, tables
<1>4. Local(c)'
  <2> USE DEF Local, Stages, Handling, Registered, Named, Proxied, NameUnreported
  <2>1. CASE stage[c] \in {"free"} \cup Arriving /\ to \in {"free"} \cup Arriving
    BY <1>1, <1>2, <2>1
  <2>2. CASE stage[c] \in {"reading", "alloc", "ack", "serve"} /\ to = "closing"
    BY <1>1, <1>2, <2>2
  <2>3. CASE stage[c] = "claim" /\ to = IF req[c].type = "tcp" THEN "unclaim" ELSE "closing"
    BY <1>1, <1>2, <2>3
  <2>4. CASE stage[c] = "ack" /\ to = "yamux"
    BY <1>1, <1>2, <2>4
  <2> QED
    BY <2>1, <2>2, <2>3, <2>4
<1>5. Owns(c)'
  <2>1. stage[c] # "free" => \A p \in Ports : socket[p] = c => stage[c] = "listen" \/ proxy[c] = "running"
    BY <1>1 DEF Owns
  <2>2. stage[c] = "free" /\ to = "accepted" => \A p \in Ports : socket[p] # c
    BY <1>1, LifecycleAssumption DEF UpOK, Accounted, Local
  <2> QED
    BY <1>1, <1>2, <2>1, <2>2 DEF Owns, Local, tables, PortUnreported, NameUnreported
<1>6. Reached(c)'
  BY <1>1, <1>2 DEF Reached
<1>7. server = "up" => Accounted(c)'
  <2>1. stage[c] = "claim" /\ to = "closing" => port[c] = None
    BY <1>1, LifecycleAssumption DEF Local, Stages, Handling
  <2> QED
    BY <1>1, <1>2, <2>1, LifecycleAssumption
    DEF UpOK, Accounted, tables, PortUnreported, NameUnreported, RowUnreported
<1> QED
  BY <1>2, <1>3, <1>4, <1>5, <1>6, <1>7, QuietStep

(* A worker stores the connection, which Range may or may not see. *)
LEMMA StoreConnectionKeeps ==
  ASSUME IInv, NEW c \in Conns, StoreConnection(c) PROVE IInv'
<1> USE DEF StoreConnection, handler, closing, link, listener, Goto
<1>1. Types /\ Local(c) /\ Owns(c) /\ Reached(c) /\ UpOK
  BY DEF IInv
<1>2. stage[c] = "handshake" /\ stage'[c] = "reading"
  BY <1>1 DEF Types
<1>3. \A d \in Conns \ {c} : Same(d)
  BY <1>1 DEF Types, Same
<1>4. Types'
  BY <1>1 DEF Types, tables, Stages, Handling, Resources, CloseSteps
<1>5. Local(c)'
  BY <1>1, <1>2, LifecycleAssumption DEF Local, Stages, Handling, Registered, Named, Proxied, NameUnreported
<1>6. Owns(c)'
  BY <1>1, <1>2, LifecycleAssumption DEF Owns, Local, tables, PortUnreported, NameUnreported
<1>7. Reached(c)'
  BY <1>1, <1>2 DEF Reached
<1>8. server = "up" => Accounted(c)'
  BY <1>1, <1>2, LifecycleAssumption
  DEF UpOK, Accounted, tables, PortUnreported, NameUnreported, RowUnreported, PortKept, RowKept,
      NameKept, GroupKept
<1> QED
  BY <1>3, <1>4, <1>5, <1>6, <1>7, <1>8, QuietStep

(* The registration is read. *)
LEMMA RegisterKeeps ==
  ASSUME IInv, NEW c \in Conns, Register(c) PROVE IInv'
<1> USE DEF Register, handler, closing, link, listener, Goto
<1>1. Types /\ Local(c) /\ Owns(c) /\ Reached(c) /\ UpOK
  BY DEF IInv
<1>2. /\ stage[c] = "reading" /\ stage'[c] = (IF req'[c].type = "tcp" THEN "alloc" ELSE "claim")
     /\ req'[c] \in Requests
  BY <1>1 DEF Types
<1>3. \A d \in Conns \ {c} : Same(d)
  BY <1>1 DEF Types, Same
<1>4. Types'
  BY <1>1 DEF Types, tables, Stages, Handling, Resources, CloseSteps
<1>5. Local(c)'
  BY <1>1, <1>2, LifecycleAssumption DEF Local, Stages, Handling, Registered, Named, Proxied, NameUnreported
<1>6. Owns(c)'
  BY <1>1, <1>2, LifecycleAssumption DEF Owns, Local, tables, PortUnreported, NameUnreported
<1>7. Reached(c)'
  BY <1>1, <1>2 DEF Reached
<1>8. server = "up" => Accounted(c)'
  BY <1>1, <1>2, LifecycleAssumption
  DEF UpOK, Accounted, tables, PortUnreported, NameUnreported, RowUnreported, PortKept, RowKept,
      NameKept, GroupKept
<1> QED
  BY <1>3, <1>4, <1>5, <1>6, <1>7, <1>8, QuietStep

(* The handler reports its port, ... *)
LEMMA SetPortAllocationKeeps ==
  ASSUME IInv, NEW c \in Conns, SetPortAllocation(c) PROVE IInv'
<1> USE DEF SetPortAllocation, handler, closing, link, listener, Goto, Keep
<1>1. Types /\ Local(c) /\ Owns(c) /\ Reached(c) /\ UpOK
  BY DEF IInv
<1>2. /\ stage[c] = "keepPort" /\ stage'[c] = "keepName"
     /\ known'[c] = (IF port[c] = None THEN known[c] ELSE known[c] \cup {"port"})
     /\ port[c] \in Ports \cup {None}
  BY <1>1 DEF Types
<1>3. \A d \in Conns \ {c} : Same(d)
  BY <1>1 DEF Types, Same
<1>4. Types'
  BY <1>1 DEF Types, tables, Stages, Handling, Resources, CloseSteps
<1>5. Local(c)'
  BY <1>1, <1>2, LifecycleAssumption DEF Local, Stages, Handling, Registered, Named, Proxied, NameUnreported
<1>6. Owns(c)'
  BY <1>1, <1>2, LifecycleAssumption DEF Owns, Local, tables, PortUnreported, NameUnreported
<1>7. Reached(c)'
  BY <1>1, <1>2 DEF Reached
<1>8. server = "up" => Accounted(c)'
  BY <1>1, <1>2, LifecycleAssumption
  DEF UpOK, Accounted, tables, PortUnreported, NameUnreported, RowUnreported, PortKept, RowKept,
      NameKept, GroupKept
<1> QED
  BY <1>3, <1>4, <1>5, <1>6, <1>7, <1>8, QuietStep

(* ... its name, ... *)
LEMMA SetTunnelRegistrationKeeps ==
  ASSUME IInv, NEW c \in Conns, SetTunnelRegistration(c) PROVE IInv'
<1> USE DEF SetTunnelRegistration, handler, closing, link, listener, Goto, Keep
<1>1. Types /\ Local(c) /\ Owns(c) /\ Reached(c) /\ UpOK
  BY DEF IInv
<1>2. /\ stage[c] = "keepName" /\ stage'[c] = "keepRow"
     /\ known'[c] = known[c] \cup {"name"}
  BY <1>1 DEF Types
<1>3. \A d \in Conns \ {c} : Same(d)
  BY <1>1 DEF Types, Same
<1>4. Types'
  BY <1>1 DEF Types, tables, Stages, Handling, Resources, CloseSteps
<1>5. Local(c)'
  BY <1>1, <1>2, LifecycleAssumption DEF Local, Stages, Handling, Registered, Named, Proxied, NameUnreported
<1>6. Owns(c)'
  BY <1>1, <1>2, LifecycleAssumption DEF Owns, Local, tables, PortUnreported, NameUnreported
<1>7. Reached(c)'
  BY <1>1, <1>2 DEF Reached
<1>8. server = "up" => Accounted(c)'
  BY <1>1, <1>2, LifecycleAssumption
  DEF UpOK, Accounted, tables, PortUnreported, NameUnreported, RowUnreported, PortKept, RowKept,
      NameKept, GroupKept
<1> QED
  BY <1>3, <1>4, <1>5, <1>6, <1>7, <1>8, QuietStep

(* ... its row, ... *)
LEMMA SetSessionRecordKeeps ==
  ASSUME IInv, NEW c \in Conns, SetSessionRecord(c) PROVE IInv'
<1> USE DEF SetSessionRecord, handler, closing, link, listener, Goto, Keep
<1>1. Types /\ Local(c) /\ Owns(c) /\ Reached(c) /\ UpOK
  BY DEF IInv
<1>2. /\ stage[c] = "keepRow" /\ stage'[c] = IF req[c].pool THEN "group" ELSE "ack"
     /\ known'[c] = IF rows[name[c]] = c THEN known[c] \cup {"row"} ELSE known[c]
  BY <1>1 DEF Types
<1>3. \A d \in Conns \ {c} : Same(d)
  BY <1>1 DEF Types, Same
<1>4. Types'
  BY <1>1 DEF Types, tables, Stages, Handling, Resources, CloseSteps
<1>5. Local(c)'
  BY <1>1, <1>2, LifecycleAssumption DEF Local, Stages, Handling, Registered, Named, Proxied, NameUnreported
<1>6. Owns(c)'
  BY <1>1, <1>2, LifecycleAssumption DEF Owns, Local, tables, PortUnreported, NameUnreported
<1>7. Reached(c)'
  BY <1>1, <1>2 DEF Reached
<1>8. server = "up" => Accounted(c)'
  BY <1>1, <1>2, LifecycleAssumption
  DEF UpOK, Accounted, tables, PortUnreported, NameUnreported, RowUnreported, PortKept, RowKept,
      NameKept, GroupKept
<1> QED
  BY <1>3, <1>4, <1>5, <1>6, <1>7, <1>8, QuietStep

(* ... its group, ... *)
LEMMA SetTunnelIDKeeps ==
  ASSUME IInv, NEW c \in Conns, SetTunnelID(c) PROVE IInv'
<1> USE DEF SetTunnelID, handler, closing, link, listener, Goto, Keep
<1>1. Types /\ Local(c) /\ Owns(c) /\ Reached(c) /\ UpOK
  BY DEF IInv
<1>2. /\ stage[c] = "keepGroup" /\ stage'[c] = "ack"
     /\ known'[c] = known[c] \cup {"group"}
  BY <1>1 DEF Types
<1>3. \A d \in Conns \ {c} : Same(d)
  BY <1>1 DEF Types, Same
<1>4. Types'
  BY <1>1 DEF Types, tables, Stages, Handling, Resources, CloseSteps
<1>5. Local(c)'
  BY <1>1, <1>2, LifecycleAssumption DEF Local, Stages, Handling, Registered, Named, Proxied, NameUnreported
<1>6. Owns(c)'
  BY <1>1, <1>2, LifecycleAssumption DEF Owns, Local, tables, PortUnreported, NameUnreported
<1>7. Reached(c)'
  BY <1>1, <1>2 DEF Reached
<1>8. server = "up" => Accounted(c)'
  BY <1>1, <1>2, LifecycleAssumption
  DEF UpOK, Accounted, tables, PortUnreported, NameUnreported, RowUnreported, PortKept, RowKept,
      NameKept, GroupKept
<1> QED
  BY <1>3, <1>4, <1>5, <1>6, <1>7, <1>8, QuietStep

(* ... its session, ... *)
LEMMA OpenSessionKeeps ==
  ASSUME IInv, NEW c \in Conns, OpenSession(c) PROVE IInv'
<1> USE DEF OpenSession, handler, closing, link, listener, Goto, Keep
<1>1. Types /\ Local(c) /\ Owns(c) /\ Reached(c) /\ UpOK
  BY DEF IInv
<1>2. /\ stage[c] = "yamux" /\ stage'[c] = IF req[c].type = "tcp" THEN "proxy" ELSE "serve"
     /\ known'[c] = known[c] \cup {"session"}
  BY <1>1 DEF Types
<1>3. \A d \in Conns \ {c} : Same(d)
  BY <1>1 DEF Types, Same
<1>4. Types'
  BY <1>1 DEF Types, tables, Stages, Handling, Resources, CloseSteps
<1>5. Local(c)'
  BY <1>1, <1>2, LifecycleAssumption DEF Local, Stages, Handling, Registered, Named, Proxied, NameUnreported
<1>6. Owns(c)'
  BY <1>1, <1>2, LifecycleAssumption DEF Owns, Local, tables, PortUnreported, NameUnreported
<1>7. Reached(c)'
  BY <1>1, <1>2 DEF Reached
<1>8. server = "up" => Accounted(c)'
  BY <1>1, <1>2, LifecycleAssumption
  DEF UpOK, Accounted, tables, PortUnreported, NameUnreported, RowUnreported, PortKept, RowKept,
      NameKept, GroupKept
<1> QED
  BY <1>3, <1>4, <1>5, <1>6, <1>7, <1>8, QuietStep

(* ... and its proxy. *)
LEMMA SetProxyKeeps ==
  ASSUME IInv, NEW c \in Conns, SetProxy(c) PROVE IInv'
<1> USE DEF SetProxy, handler, closing, link, listener, Goto, Keep
<1>1. Types /\ Local(c) /\ Owns(c) /\ Reached(c) /\ UpOK
  BY DEF IInv
<1>2. /\ stage[c] = "proxy" /\ stage'[c] = "take" /\ proxy'[c] = "made"
     /\ known'[c] = known[c] \cup {"proxy"}
  BY <1>1 DEF Types
<1>3. \A d \in Conns \ {c} : Same(d)
  BY <1>1 DEF Types, Same
<1>4. Types'
  BY <1>1 DEF Types, tables, Stages, Handling, Resources, CloseSteps
<1>5. Local(c)'
  BY <1>1, <1>2, LifecycleAssumption DEF Local, Stages, Handling, Registered, Named, Proxied, NameUnreported
<1>6. Owns(c)'
  BY <1>1, <1>2, LifecycleAssumption DEF Owns, Local, tables, PortUnreported, NameUnreported
<1>7. Reached(c)'
  BY <1>1, <1>2 DEF Reached
<1>8. server = "up" => Accounted(c)'
  BY <1>1, <1>2, LifecycleAssumption
  DEF UpOK, Accounted, tables, PortUnreported, NameUnreported, RowUnreported, PortKept, RowKept,
      NameKept, GroupKept
<1> QED
  BY <1>3, <1>4, <1>5, <1>6, <1>7, <1>8, QuietStep

(* The session ends.                                                       *)
LEMMA SessionEndsKeeps ==
  ASSUME IInv, NEW c \in Conns, SessionEnds(c) PROVE IInv'
<1> USE DEF SessionEnds, handler, closing, listener
<1>1. Types' /\ \A d \in Conns : Same(d)
  BY DEF IInv, Types, tables, Same
<1>2. Local(c)' /\ Reached(c)'
  BY <1>1, OthersLocal DEF IInv, Reached
<1>3. SameTables(c)
  BY DEF SameTables, tables
<1>4. Owns(c)' /\ (server = "up" => Accounted(c)')
  BY <1>1, <1>3, OthersOwn, OthersAccounted DEF IInv, UpOK
<1> QED
  BY <1>1, <1>2, <1>4, QuietStep

(* A Close begins with a copy of what was reported. While nobody stops the *)
(* server that is at the end of the registration.                          *)
LEMMA BeginCloseKeeps ==
  ASSUME IInv, NEW c \in Conns, BeginClose(c), UNCHANGED listener, stage[c] \in Handling,
         server = "up" => stage[c] \in {"serve", "closing"}
  PROVE  IInv'
<1> USE DEF BeginClose, Advance, CloseOrder, handler, link, listener
<1>1. Types /\ Local(c) /\ Owns(c) /\ Reached(c) /\ UpOK
  BY DEF IInv
<1>2. /\ cstep[c] = "open" /\ cstep'[c] = "stopProxy" /\ snap'[c] = known[c]
      /\ UNCHANGED <<stage, known, req, port, name, proxy>>
  BY <1>1 DEF Types
<1>3. \A d \in Conns \ {c} : Same(d)
  BY <1>1 DEF Types, Same
<1>4. Types'
  BY <1>1, <1>2 DEF Types, tables, CloseSteps
<1>5. Local(c)'
  BY <1>1, <1>2 DEF Local, Handling
<1>6. Owns(c)'
  BY <1>1, <1>2 DEF Owns, tables, PortKept, RowKept, NameKept
<1>7. Reached(c)'
  BY <1>1, <1>2 DEF Reached, Handling
<1>8. server = "up" => Accounted(c)'
  BY <1>1, <1>2 DEF UpOK, Accounted, tables, PortKept, RowKept, NameKept, GroupKept
<1> QED
  BY <1>3, <1>4, <1>5, <1>6, <1>7, <1>8, QuietStep

(* The session and the network connection are closed.                      *)
LEMMA ShutKeeps ==
  ASSUME IInv, NEW c \in Conns, Shut(c) PROVE IInv'
<1> USE DEF Shut, Advance, CloseOrder, handler, listener
<1>1. Types /\ Local(c) /\ Owns(c) /\ Reached(c) /\ UpOK
  BY DEF IInv
<1>2. /\ cstep[c] = "shut" /\ cstep'[c] = "freePort"
      /\ UNCHANGED <<stage, known, snap, req, port, name, proxy>>
  BY <1>1 DEF Types
<1>3. \A d \in Conns \ {c} : Same(d)
  BY <1>1 DEF Types, Same
<1>4. Types'
  BY <1>1 DEF Types, tables, CloseSteps
<1>5. Local(c)'
  BY <1>1, <1>2 DEF Local
<1>6. Owns(c)'
  BY <1>1, <1>2 DEF Owns, tables, PortKept, RowKept, NameKept
<1>7. Reached(c)'
  BY <1>1, <1>2 DEF Reached
<1>8. server = "up" => Accounted(c)'
  BY <1>1, <1>2 DEF UpOK, Accounted, tables, PortKept, RowKept, NameKept, GroupKept
<1> QED
  BY <1>3, <1>4, <1>5, <1>6, <1>7, <1>8, QuietStep

(* Steps that leave the tables and the registration alone.                 *)
LEMMA QuietKeeps ==
  ASSUME IInv, NEW c \in Conns,
         \/ Accept(c) \/ Submit(c) \/ HandleConnection(c) \/ HandshakeFails(c)
         \/ StoreConnection(c) \/ Reject(c) \/ Register(c) \/ NoPortLeft(c)
         \/ ClaimRefused(c) \/ SetPortAllocation(c) \/ SetTunnelRegistration(c)
         \/ SetSessionRecord(c) \/ SetTunnelID(c) \/ SendAck(c) \/ AckFails(c)
         \/ OpenSession(c) \/ SetProxy(c) \/ Return(c) \/ SessionEnds(c) \/ Shut(c)
         \/ DeferredClose(c) \/ CloseStaleGroup(c)
  PROVE  IInv'
<1> USE DEF closing, link, listener
<1>1. CASE \/ Accept(c) \/ Submit(c) \/ HandleConnection(c) \/ HandshakeFails(c)
           \/ Reject(c) \/ NoPortLeft(c) \/ ClaimRefused(c)
           \/ SendAck(c) \/ AckFails(c) \/ Return(c)
  <2>1. PICK to \in Stages :
          /\ Moves(c, to)
          /\ \/ stage[c] = "free" /\ to = "accepted" /\ server = "up"
             \/ stage[c] \in Arriving /\ to \in {"free"} \cup Arriving
             \/ stage[c] \in {"reading", "alloc", "ack", "serve"} /\ to = "closing"
             \/ stage[c] = "claim" /\ to = IF req[c].type = "tcp" THEN "unclaim" ELSE "closing"
             \/ stage[c] = "ack" /\ to = "yamux"
    BY <1>1 DEF Accept, Submit, HandleConnection, HandshakeFails, Reject, NoPortLeft, ClaimRefused, SendAck, AckFails, Return, Goto, Moves,
                Stages, Handling
  <2> QED
    BY <2>1, MoveKeeps
<1>2. CASE DeferredClose(c) \/ CloseStaleGroup(c)
  BY <1>2, BeginCloseKeeps DEF DeferredClose, CloseStaleGroup, Handling
<1> QED
  BY <1>1, <1>2, StoreConnectionKeeps, RegisterKeeps, SetPortAllocationKeeps,
     SetTunnelRegistrationKeeps, SetSessionRecordKeeps, SetTunnelIDKeeps, OpenSessionKeeps,
     SetProxyKeeps, SessionEndsKeeps, ShutKeeps

----------------------------------------------------------------------------
(* Steps that change a table.                                              *)

(* A port is taken. *)
LEMMA AllocateKeeps ==
  ASSUME IInv, NEW c \in Conns, Allocate(c) PROVE IInv'
<1> USE DEF Allocate, handler, tables, closing, link, listener, Goto, Free
<1>1. Types /\ Local(c) /\ Owns(c) /\ Reached(c) /\ UpOK
  BY DEF IInv
<1>2. /\ stage[c] = "alloc" /\ stage'[c] = "claim" /\ port[c] = None /\ req[c] \in Requests
      /\ req[c].type = "tcp" /\ port'[c] \in Ports /\ used[port'[c]] = None
      /\ used' = [used EXCEPT ![port'[c]] = c] /\ socket' = [socket EXCEPT ![port'[c]] = "held"]
  BY <1>1, LifecycleAssumption DEF Types, Local, Stages, Handling
<1>3. \A d \in Conns \ {c} : Same(d) /\ SameTables(d)
  BY <1>1, <1>2, LifecycleAssumption DEF Types, Same, SameTables
<1>4. Types'
  BY <1>1, <1>2 DEF Types, Stages, Handling, CloseSteps
<1>5. Local(c)'
  BY <1>1, <1>2, LifecycleAssumption DEF Local, Stages, Handling, Registered, Named, Proxied, NameUnreported
<1>6. Owns(c)'
  BY <1>1, <1>2, LifecycleAssumption DEF Owns, Types, Local, PortUnreported, NameUnreported, PortKept, RowKept, NameKept
<1>7. Reached(c)'
  BY <1>1, <1>2 DEF Reached
<1>8. server = "up" => Accounted(c)'
  <2>1. server = "up" => Accounted(c) /\ \A p \in Ports : used[p] # c /\ socket[p] # c
    BY <1>1, <1>2, LifecycleAssumption DEF UpOK, Accounted
  <2> QED
    BY <1>1, <1>2, <2>1, LifecycleAssumption
    DEF Accounted, Types, PortUnreported, NameUnreported, RowUnreported, PortKept, RowKept,
        NameKept, GroupKept
<1>9. server = "up" => FreedPortIsSilent'
  BY <1>1, <1>2, LifecycleAssumption DEF UpOK, FreedPortIsSilent, Types
<1> QED
  BY <1>3, <1>4, <1>5, <1>6, <1>7, <1>8, <1>9, StepOfOne

(* A name is taken. *)
LEMMA ClaimKeeps ==
  ASSUME IInv, NEW c \in Conns, Claim(c) PROVE IInv'
<1> USE DEF Claim, handler, tables, closing, link, listener, Goto, Asked
<1>1. Types /\ Local(c) /\ Owns(c) /\ Reached(c) /\ UpOK
  BY DEF IInv
<1>2. /\ stage[c] = "claim" /\ stage'[c] = "record" /\ req[c] \in Requests
      /\ \E n \in Asked(c) : live[n] = None /\ live' = [live EXCEPT ![n] = c] /\ name'[c] = n
  BY ZenonT(30), <1>1, LifecycleAssumption DEF Types, Local, Stages, Handling
<1>2a. PICK n \in Names : live[n] = None /\ live' = [live EXCEPT ![n] = c] /\ name'[c] = n
  <2>1. Asked(c) \subseteq Names
    BY <1>1, <1>2, LifecycleAssumption DEF Asked, Names, Local
  <2> QED
    BY <1>2, <2>1
<1>3. \A d \in Conns \ {c} : Same(d) /\ SameTables(d)
  BY <1>1, <1>2, <1>2a, LifecycleAssumption DEF Types, Same, SameTables
<1>4. Types'
  BY <1>1, <1>2, <1>2a DEF Types, Stages, Handling, CloseSteps
<1>5. Local(c)'
  BY <1>1, <1>2, <1>2a, LifecycleAssumption DEF Local, Stages, Handling, Registered, Named, Proxied, NameUnreported
<1>6. Owns(c)'
  BY <1>1, <1>2, <1>2a, LifecycleAssumption DEF Owns, Types, Local, PortUnreported, NameUnreported, PortKept, RowKept, NameKept
<1>7. Reached(c)'
  BY <1>1, <1>2, <1>2a DEF Reached
<1>8. server = "up" => Accounted(c)'
  <2>1. server = "up" => Accounted(c) /\ \A m \in Names : live[m] # c /\ rows[m] # c
    BY <1>1, <1>2, <1>4, LifecycleAssumption
    DEF UpOK, Accounted, NameUnreported, RowUnreported, Local, Registered
  <2> QED
    BY <1>1, <1>2, <1>2a, <2>1, LifecycleAssumption
    DEF Accounted, Types, PortUnreported, NameUnreported, RowUnreported, PortKept, RowKept,
        NameKept, GroupKept
<1>9. server = "up" => FreedPortIsSilent'
  BY <1>1, <1>2, <1>2a, LifecycleAssumption DEF UpOK, FreedPortIsSilent, Types
<1> QED
  BY <1>3, <1>4, <1>5, <1>6, <1>7, <1>8, <1>9, StepOfOne

(* The port of a refused registration is given back. *)
LEMMA UnclaimKeeps ==
  ASSUME IInv, NEW c \in Conns, Unclaim(c) PROVE IInv'
<1> USE DEF Unclaim, handler, tables, closing, link, listener, Goto, Release
<1>1. Types /\ Local(c) /\ Owns(c) /\ Reached(c) /\ UpOK
  BY DEF IInv
<1>2. /\ stage[c] = "unclaim" /\ stage'[c] = "closing" /\ port'[c] = None
      /\ port[c] \in Ports /\ used[port[c]] = c
  BY <1>1, LifecycleAssumption DEF Types, Local, Owns, PortUnreported
<1>2a. \A p \in Ports : socket[p] # c
  BY <1>1, <1>2 DEF Owns, Local
<1>3. \A d \in Conns \ {c} : Same(d) /\ SameTables(d)
  BY <1>1, <1>2, LifecycleAssumption DEF Types, Same, SameTables
<1>4. Types'
  BY <1>1, <1>2 DEF Types, Stages, Handling, CloseSteps
<1>5. Local(c)'
  BY <1>1, <1>2, LifecycleAssumption DEF Local, Stages, Handling, Registered, Named, Proxied, NameUnreported
<1>6. Owns(c)'
  BY <1>1, <1>2, <1>2a, LifecycleAssumption
  DEF Owns, Types, Local, Registered, PortUnreported, NameUnreported
<1>7. Reached(c)'
  BY <1>1, <1>2 DEF Reached
<1>8. server = "up" => Accounted(c)'
  <2>1. server = "up" => /\ \A p \in Ports : used[p] = c => p = port[c]
                         /\ \A n \in Names : live[n] # c /\ rows[n] # c
                         /\ c \notin groups /\ cstep[c] = "open"
    BY <1>1, <1>2, LifecycleAssumption
    DEF UpOK, Accounted, NameUnreported, RowUnreported, Local, Registered
  <2> QED
    BY <1>1, <1>2, <1>2a, <2>1, LifecycleAssumption DEF Accounted, Types
<1>9. server = "up" => FreedPortIsSilent'
  <2>1. server = "up" => \A p \in Ports : socket[p] \in Conns => used[p] = socket[p]
    BY <1>1 DEF UpOK, Accounted
  <2> QED
    BY <1>1, <1>2, <1>2a, <2>1, LifecycleAssumption DEF UpOK, FreedPortIsSilent, Types
<1> QED
  BY <1>3, <1>4, <1>5, <1>6, <1>7, <1>8, <1>9, StepOfOne

(* The row is written, or not. *)
LEMMA RecordSessionKeeps ==
  ASSUME IInv, NEW c \in Conns, RecordSession(c) PROVE IInv'
<1> USE DEF RecordSession, handler, tables, closing, link, listener, Goto
<1>1. Types /\ Local(c) /\ Owns(c) /\ Reached(c) /\ UpOK
  BY DEF IInv
<1>2. /\ stage[c] = "record" /\ stage'[c] = "keepPort" /\ name[c] \in Names
      /\ rows' \in {rows, [rows EXCEPT ![name[c]] = c]}
  BY <1>1 DEF Types, Local, Named, NameUnreported
<1>3. \A d \in Conns \ {c} : Same(d) /\ SameTables(d)
  BY <1>1, <1>2, LifecycleAssumption DEF Types, Same, SameTables
<1>4. Types'
  BY <1>1, <1>2 DEF Types, Stages, Handling, CloseSteps
<1>5. Local(c)'
  BY <1>1, <1>2, LifecycleAssumption DEF Local, Stages, Handling, Registered, Named, Proxied, NameUnreported
<1>6. Owns(c)'
  BY <1>1, <1>2, LifecycleAssumption DEF Owns, Types, Local, PortUnreported, NameUnreported, PortKept, RowKept, NameKept
<1>7. Reached(c)'
  BY <1>1, <1>2 DEF Reached
<1>8. server = "up" => Accounted(c)'
  BY <1>1, <1>2, LifecycleAssumption
  DEF UpOK, Accounted, Types, PortUnreported, NameUnreported, RowUnreported, PortKept, RowKept,
      NameKept, GroupKept
<1>9. server = "up" => FreedPortIsSilent'
  BY <1>1, <1>2, LifecycleAssumption DEF UpOK, FreedPortIsSilent, Types
<1> QED
  BY <1>3, <1>4, <1>5, <1>6, <1>7, <1>8, <1>9, StepOfOne

(* The group is made. *)
LEMMA CreateGroupKeeps ==
  ASSUME IInv, NEW c \in Conns, CreateGroup(c) PROVE IInv'
<1> USE DEF CreateGroup, handler, tables, closing, link, listener, Goto
<1>1. Types /\ Local(c) /\ Owns(c) /\ Reached(c) /\ UpOK
  BY DEF IInv
<1>2. stage[c] = "group" /\ stage'[c] = "keepGroup"
  BY <1>1, LifecycleAssumption DEF Types, Local, Stages, Handling
<1>3. \A d \in Conns \ {c} : Same(d) /\ SameTables(d)
  BY <1>1, <1>2, LifecycleAssumption DEF Types, Same, SameTables
<1>4. Types'
  BY <1>1, <1>2 DEF Types, Stages, Handling, CloseSteps
<1>5. Local(c)'
  BY <1>1, <1>2, LifecycleAssumption DEF Local, Stages, Handling, Registered, Named, Proxied, NameUnreported
<1>6. Owns(c)'
  BY <1>1, <1>2, LifecycleAssumption DEF Owns, Types, Local, PortUnreported, NameUnreported, PortKept, RowKept, NameKept
<1>7. Reached(c)'
  BY <1>1, <1>2 DEF Reached
<1>8. server = "up" => Accounted(c)'
  <2>1. server = "up" => Accounted(c) /\ cstep[c] = "open"
    BY <1>1, <1>2 DEF UpOK, Accounted
  <2> QED
    BY <1>1, <1>2, <2>1
    DEF Accounted, Types, PortUnreported, NameUnreported, RowUnreported, PortKept, RowKept,
        NameKept, GroupKept
<1>9. server = "up" => FreedPortIsSilent'
  BY <1>1, <1>2, LifecycleAssumption DEF UpOK, FreedPortIsSilent, Types
<1> QED
  BY <1>3, <1>4, <1>5, <1>6, <1>7, <1>8, <1>9, StepOfOne

(* The listener changes hands. *)
LEMMA TakeListenerKeeps ==
  ASSUME IInv, NEW c \in Conns, TakeListener(c) PROVE IInv'
<1> USE DEF TakeListener, handler, tables, closing, link, listener, Goto
<1>1. Types /\ Local(c) /\ Owns(c) /\ Reached(c) /\ UpOK
  BY DEF IInv
<1>2. /\ stage[c] = "take" /\ stage'[c] = "listen" /\ port[c] \in Ports
  BY <1>1, LifecycleAssumption DEF Types, Local, Stages, Handling
<1>3. \A d \in Conns \ {c} : Same(d) /\ SameTables(d)
  BY <1>1, <1>2, LifecycleAssumption DEF Types, Same, SameTables
<1>4. Types'
  BY <1>1, <1>2 DEF Types, Stages, Handling, CloseSteps
<1>5. Local(c)'
  BY <1>1, <1>2, LifecycleAssumption DEF Local, Stages, Handling, Registered, Named, Proxied, NameUnreported
<1>6. Owns(c)'
  BY <1>1, <1>2, LifecycleAssumption DEF Owns, Types, Local, PortUnreported, NameUnreported, PortKept, RowKept, NameKept
<1>7. Reached(c)'
  BY <1>1, <1>2 DEF Reached
<1>8. server = "up" => Accounted(c)'
  <2>1. server = "up" => Accounted(c) /\ cstep[c] = "open" /\ used[port[c]] = c
    BY <1>1, <1>2 DEF UpOK, Accounted, Owns, Local, Registered, PortKept, RowKept, NameKept
  <2> QED
    BY <1>1, <1>2, <2>1
    DEF Accounted, Types, PortUnreported, NameUnreported, RowUnreported, PortKept, RowKept,
        NameKept, GroupKept
<1>9. server = "up" => FreedPortIsSilent'
  BY <1>1, <1>2, LifecycleAssumption DEF UpOK, FreedPortIsSilent, Types
<1> QED
  BY <1>3, <1>4, <1>5, <1>6, <1>7, <1>8, <1>9, StepOfOne

(* The proxy starts, or finds out that it may not. *)
LEMMA StartWithListenerKeeps ==
  ASSUME IInv, NEW c \in Conns, StartWithListener(c) PROVE IInv'
<1> USE DEF StartWithListener, handler, tables, closing, link, listener, Goto
<1>1. Types /\ Local(c) /\ Owns(c) /\ Reached(c) /\ UpOK
  BY DEF IInv
<1>2. /\ stage[c] = "listen" /\ stage'[c] \in {"serve", "closing"} /\ port[c] \in Ports
  BY <1>1, LifecycleAssumption DEF Types, Local, Stages, Handling
<1>3. \A d \in Conns \ {c} : Same(d) /\ SameTables(d)
  BY <1>1, <1>2, LifecycleAssumption DEF Types, Same, SameTables
<1>4. Types'
  BY <1>1, <1>2 DEF Types, Stages, Handling, CloseSteps
<1>5. Local(c)'
  BY <1>1, <1>2, LifecycleAssumption DEF Local, Stages, Handling, Registered, Named, Proxied, NameUnreported
<1>6. Owns(c)'
  BY <1>1, <1>2, LifecycleAssumption DEF Owns, Types, Local, PortUnreported, NameUnreported, PortKept, RowKept, NameKept
<1>7. Reached(c)'
  BY <1>1, <1>2 DEF Reached
<1>8. server = "up" => Accounted(c)'
  <2>1. server = "up" => Accounted(c) /\ cstep[c] = "open" /\ used[port[c]] = c
    BY <1>1, <1>2 DEF UpOK, Accounted, Owns, Local, Registered, PortKept, RowKept, NameKept
  <2> QED
    BY <1>1, <1>2, <2>1
    DEF Accounted, Types, PortUnreported, NameUnreported, RowUnreported, PortKept, RowKept,
        NameKept, GroupKept
<1>9. server = "up" => FreedPortIsSilent'
  BY <1>1, <1>2, <1>4, <1>8, LifecycleAssumption DEF UpOK, FreedPortIsSilent, Types, Accounted
<1> QED
  BY <1>3, <1>4, <1>5, <1>6, <1>7, <1>8, <1>9, StepOfOne

(* The proxy is stopped. *)
LEMMA StopProxyKeeps ==
  ASSUME IInv, NEW c \in Conns, StopProxy(c) PROVE IInv'
<1> USE DEF StopProxy, handler, tables, closing, link, listener, Advance, CloseOrder
<1>1. Types /\ Local(c) /\ Owns(c) /\ Reached(c) /\ UpOK
  BY DEF IInv
<1>2. /\ cstep[c] = "stopProxy" /\ cstep'[c] = "shut"
      /\ proxy'[c] = IF "proxy" \in snap[c] THEN "stopped" ELSE proxy[c]
      /\ UNCHANGED <<stage, known, snap, req, port, name>>
  BY <1>1 DEF Types
<1>3. \A d \in Conns \ {c} : Same(d) /\ SameTables(d)
  BY <1>1, <1>2, LifecycleAssumption DEF Types, Same, SameTables
<1>4. Types'
  BY <1>1, <1>2 DEF Types, Stages, Handling, CloseSteps
<1>5. Local(c)'
  BY <1>1, <1>2, LifecycleAssumption DEF Local, Stages, Handling, Registered, Named, Proxied, NameUnreported
<1>6. Owns(c)'
  BY <1>1, <1>2, LifecycleAssumption DEF Owns, Types, Local, PortUnreported, NameUnreported, PortKept, RowKept, NameKept
<1>7. Reached(c)'
  BY <1>1, <1>2 DEF Reached
<1>8. server = "up" => Accounted(c)'
  BY <1>1, <1>2, LifecycleAssumption
  DEF UpOK, Accounted, Types, PortUnreported, NameUnreported, RowUnreported, PortKept, RowKept,
      NameKept, GroupKept
<1>9. server = "up" => FreedPortIsSilent'
  BY <1>1, <1>2, LifecycleAssumption DEF UpOK, FreedPortIsSilent, Types
<1> QED
  BY <1>3, <1>4, <1>5, <1>6, <1>7, <1>8, <1>9, StepOfOne

(* The port is given back. *)
LEMMA FreePortKeeps ==
  ASSUME IInv, NEW c \in Conns, FreePort(c) PROVE IInv'
<1> USE DEF FreePort, handler, tables, closing, link, listener, Advance, CloseOrder, Release
<1>1. Types /\ Local(c) /\ Owns(c) /\ Reached(c) /\ UpOK
  BY DEF IInv
<1>2. /\ cstep[c] = "freePort" /\ cstep'[c] = "dropRow"
      /\ "port" \in snap[c] => port[c] \in Ports /\ used[port[c]] = c /\ stage[c] \notin PortUnreported
      /\ UNCHANGED <<stage, known, snap, req, port, name, proxy>>
  BY <1>1 DEF Types, Local, Owns, PortKept, PortUnreported, Registered
<1>2a. server = "up" => /\ \A p \in Ports : socket[p] # c
                        /\ \A p \in Ports : used[p] = c => p = port[c] /\ "port" \in snap[c]
  BY <1>1, <1>2 DEF UpOK, Accounted, Owns, Local, PortUnreported
<1>3. \A d \in Conns \ {c} : Same(d) /\ SameTables(d)
  BY <1>1, <1>2, LifecycleAssumption DEF Types, Same, SameTables
<1>4. Types'
  BY <1>1, <1>2 DEF Types, Stages, Handling, CloseSteps
<1>5. Local(c)'
  BY <1>1, <1>2, LifecycleAssumption DEF Local, Stages, Handling, Registered, Named, Proxied, NameUnreported
<1>6. Owns(c)'
  <2>1. \A p \in Ports : socket'[p] = c => socket[p] = c
    BY <1>1, LifecycleAssumption DEF Types
  <2>2. stage[c] \in PortUnreported /\ port[c] \in Ports => used'[port[c]] = c
    BY <1>1, <1>2 DEF Owns
  <2> QED
    BY <1>1, <1>2, <2>1, <2>2 DEF Owns, PortKept, RowKept, NameKept
<1>7. Reached(c)'
  BY <1>1, <1>2 DEF Reached
<1>8. server = "up" => Accounted(c)'
  <2>1. server = "up" => \A p \in Ports : used'[p] # c /\ socket'[p] # c
    BY <1>1, <1>2, <1>2a, LifecycleAssumption DEF Types
  <2> QED
    BY <1>1, <1>2, <2>1
    DEF UpOK, Accounted, PortUnreported, NameUnreported, RowUnreported, PortKept, RowKept,
        NameKept, GroupKept
<1>9. server = "up" => FreedPortIsSilent'
  <2>1. server = "up" => \A p \in Ports : socket[p] \in Conns => used[p] = socket[p]
    BY <1>1 DEF UpOK, Accounted
  <2> QED
    BY <1>1, <1>2, <1>2a, <2>1, LifecycleAssumption DEF UpOK, FreedPortIsSilent, Types
<1> QED
  BY <1>3, <1>4, <1>5, <1>6, <1>7, <1>8, <1>9, StepOfOne

(* The row is deleted, or left behind. *)
LEMMA DropRowKeeps ==
  ASSUME IInv, NEW c \in Conns, DropRow(c) PROVE IInv'
<1> USE DEF DropRow, handler, tables, closing, link, listener, Advance, CloseOrder
<1>1. Types /\ Local(c) /\ Owns(c) /\ Reached(c) /\ UpOK
  BY DEF IInv
<1>2. /\ cstep[c] = "dropRow" /\ cstep'[c] = "dropName"
  BY <1>1, LifecycleAssumption DEF Types, Local, Stages, Handling
<1>3. \A d \in Conns \ {c} : Same(d) /\ SameTables(d)
  BY <1>1, <1>2, LifecycleAssumption DEF Types, Same, SameTables
<1>4. Types'
  BY <1>1, <1>2 DEF Types, Stages, Handling, CloseSteps
<1>5. Local(c)'
  BY <1>1, <1>2, LifecycleAssumption DEF Local, Stages, Handling, Registered, Named, Proxied, NameUnreported
<1>6. Owns(c)'
  BY <1>1, <1>2, LifecycleAssumption DEF Owns, Types, Local, PortUnreported, NameUnreported, PortKept, RowKept, NameKept
<1>7. Reached(c)'
  BY <1>1, <1>2 DEF Reached
<1>8. server = "up" => Accounted(c)'
  BY <1>1, <1>2, LifecycleAssumption
  DEF UpOK, Accounted, Types, PortUnreported, NameUnreported, RowUnreported, PortKept, RowKept,
      NameKept, GroupKept
<1>9. server = "up" => FreedPortIsSilent'
  BY <1>1, <1>2, LifecycleAssumption DEF UpOK, FreedPortIsSilent, Types
<1> QED
  BY <1>3, <1>4, <1>5, <1>6, <1>7, <1>8, <1>9, StepOfOne

(* The name is given back. *)
LEMMA DropNameKeeps ==
  ASSUME IInv, NEW c \in Conns, DropName(c) PROVE IInv'
<1> USE DEF DropName, handler, tables, closing, link, listener, Advance, CloseOrder
<1>1. Types /\ Local(c) /\ Owns(c) /\ Reached(c) /\ UpOK
  BY DEF IInv
<1>2. /\ cstep[c] = "dropName" /\ cstep'[c] = "dropGroup"
      /\ "name" \in snap[c] => name[c] \in Names /\ live[name[c]] = c /\ stage[c] \notin NameUnreported
      /\ UNCHANGED <<stage, known, snap, req, port, name, proxy>>
  BY <1>1 DEF Types, Local, Owns, NameKept, NameUnreported, Registered
<1>3. \A d \in Conns \ {c} : Same(d) /\ SameTables(d)
  BY <1>1, <1>2, LifecycleAssumption DEF Types, Same, SameTables
<1>4. Types'
  BY <1>1, <1>2 DEF Types, Stages, Handling, CloseSteps
<1>5. Local(c)'
  BY <1>1, <1>2, LifecycleAssumption DEF Local, Stages, Handling, Registered, Named, Proxied, NameUnreported
<1>6. Owns(c)'
  BY <1>1, <1>2 DEF Owns, Types, PortKept, RowKept, NameKept
<1>7. Reached(c)'
  BY <1>1, <1>2 DEF Reached
<1>8. server = "up" => Accounted(c)'
  BY <1>1, <1>2, LifecycleAssumption
  DEF UpOK, Accounted, Types, PortUnreported, NameUnreported, RowUnreported, PortKept, RowKept,
      NameKept, GroupKept
<1>9. server = "up" => FreedPortIsSilent'
  BY <1>1, <1>2, LifecycleAssumption DEF UpOK, FreedPortIsSilent, Types
<1> QED
  BY <1>3, <1>4, <1>5, <1>6, <1>7, <1>8, <1>9, StepOfOne

(* The group is removed. *)
LEMMA DropGroupKeeps ==
  ASSUME IInv, NEW c \in Conns, DropGroup(c) PROVE IInv'
<1> USE DEF DropGroup, handler, tables, closing, link, listener, Advance, CloseOrder
<1>1. Types /\ Local(c) /\ Owns(c) /\ Reached(c) /\ UpOK
  BY DEF IInv
<1>2. /\ cstep[c] = "dropGroup" /\ cstep'[c] = "closed"
  BY <1>1, LifecycleAssumption DEF Types, Local, Stages, Handling
<1>3. \A d \in Conns \ {c} : Same(d) /\ SameTables(d)
  BY <1>1, <1>2, LifecycleAssumption DEF Types, Same, SameTables
<1>4. Types'
  BY <1>1, <1>2 DEF Types, Stages, Handling, CloseSteps
<1>5. Local(c)'
  BY <1>1, <1>2, LifecycleAssumption DEF Local, Stages, Handling, Registered, Named, Proxied, NameUnreported
<1>6. Owns(c)'
  BY <1>1, <1>2, LifecycleAssumption DEF Owns, Types, Local, PortUnreported, NameUnreported, PortKept, RowKept, NameKept
<1>7. Reached(c)'
  BY <1>1, <1>2 DEF Reached
<1>8. server = "up" => Accounted(c)'
  BY <1>1, <1>2, LifecycleAssumption
  DEF UpOK, Accounted, Types, PortUnreported, NameUnreported, RowUnreported, PortKept, RowKept,
      NameKept, GroupKept
<1>9. server = "up" => FreedPortIsSilent'
  BY <1>1, <1>2, LifecycleAssumption DEF UpOK, FreedPortIsSilent, Types
<1> QED
  BY <1>3, <1>4, <1>5, <1>6, <1>7, <1>8, <1>9, StepOfOne

(* The handler is gone. *)
LEMMA LeaveKeeps ==
  ASSUME IInv, NEW c \in Conns, Leave(c) PROVE IInv'
<1> USE DEF Leave, handler, tables, closing, link, listener, Goto
<1>1. Types /\ Local(c) /\ Owns(c) /\ Reached(c) /\ UpOK
  BY DEF IInv
<1>2. /\ stage[c] = "closing" /\ cstep[c] = "closed" /\ stage'[c] = "free" /\ cstep'[c] = "open"
      /\ known'[c] = {} /\ snap'[c] = {} /\ port'[c] = None /\ proxy'[c] = "none"
  BY <1>1, LifecycleAssumption DEF Types, Local, Stages, Handling
<1>3. \A d \in Conns \ {c} : Same(d) /\ SameTables(d)
  BY <1>1, <1>2, LifecycleAssumption DEF Types, Same, SameTables
<1>4. Types'
  BY <1>1, <1>2 DEF Types, Stages, Handling, CloseSteps
<1>5. Local(c)'
  BY <1>1, <1>2, LifecycleAssumption DEF Local, Stages, Handling, Registered, Named, Proxied, NameUnreported
<1>6. Owns(c)'
  BY <1>1, <1>2, LifecycleAssumption DEF Owns, Types, Local, PortUnreported, NameUnreported, PortKept, RowKept, NameKept
<1>7. Reached(c)'
  BY <1>1, <1>2 DEF Reached
<1>8. server = "up" => Accounted(c)'
  <2>1. server = "up" => /\ \A p \in Ports : used[p] # c /\ socket[p] # c
                         /\ \A n \in Names : live[n] # c /\ rows[n] # c
                         /\ c \notin groups
    BY <1>1, <1>2
    DEF UpOK, Accounted, PortUnreported, NameUnreported, RowUnreported, PortKept, RowKept,
        NameKept, GroupKept
  <2> QED
    BY <1>2, <2>1 DEF Accounted
<1>9. server = "up" => FreedPortIsSilent'
  BY <1>1, <1>2, LifecycleAssumption DEF UpOK, FreedPortIsSilent, Types
<1> QED
  BY <1>3, <1>4, <1>5, <1>6, <1>7, <1>8, <1>9, StepOfOne

----------------------------------------------------------------------------
(* Stopping and starting again.                                            *)
LEMMA SameState == ASSUME IInv, UNCHANGED vars PROVE IInv'
<1> USE DEF vars, handler, tables, closing, link, listener
<1>1. Types'
  BY DEF IInv, Types
<1>2. ASSUME NEW d \in Conns PROVE Local(d)' /\ Owns(d)' /\ Reached(d)'
  BY DEF IInv, Local, Owns, Reached
<1>3. UpOK'
  BY DEF IInv, UpOK, Accounted, FreedPortIsSilent
<1> QED
  BY <1>1, <1>2, <1>3 DEF IInv

(* A step of Stop moves no connection.                                     *)
LEMMA StopStepKeeps ==
  ASSUME IInv, Stop \/ StopWaits \/ StopReturns \/ \E c \in Conns : StopClosed(c)
  PROVE  IInv'
<1> USE DEF handler, tables, closing, link
<1>1. server' # "up" /\ UNCHANGED <<handler, closing, link, used, socket, live, rows>>
  BY DEF Stop, StopWaits, StopReturns, StopClosed
<1>2. Types'
  BY <1>1 DEF IInv, Types, Stop, StopWaits, StopReturns, StopClosed
<1>3. ASSUME NEW d \in Conns PROVE Local(d)' /\ Owns(d)'
  BY <1>1 DEF IInv, Local, Owns
<1>4. ASSUME NEW d \in Conns PROVE Reached(d)'
  <2>1. Types /\ Local(d) /\ Reached(d)
    BY DEF IInv
  <2>2. CASE Stop
    BY <1>1, <2>1, <2>2 DEF Stop, Reached, Types, Stages
  <2>3. CASE StopWaits
    BY <1>1, <2>1, <2>3 DEF StopWaits, Reached
  <2>4. CASE StopReturns
    BY <1>1, <2>1, <2>4 DEF StopReturns, Reached
  <2>5. ASSUME NEW c \in Conns, StopClosed(c) PROVE Reached(d)'
    BY <1>1, <2>1, <2>5 DEF StopClosed, Reached
  <2> QED
    BY <2>2, <2>3, <2>4, <2>5
<1> QED
  BY <1>1, <1>2, <1>3, <1>4 DEF IInv, UpOK

(* A process that begins owes nothing.                                     *)
Begun ==
  /\ stage = [c \in Conns |-> "free"] /\ req = [c \in Conns |-> None]
  /\ port = [c \in Conns |-> None] /\ name = [c \in Conns |-> None]
  /\ used = [p \in Ports |-> None] /\ socket = [p \in Ports |-> None]
  /\ live = [n \in Names |-> None] /\ rows \in [Names -> {"left", None}] /\ groups = {}
  /\ known = [c \in Conns |-> {}] /\ snap = [c \in Conns |-> {}]
  /\ cstep = [c \in Conns |-> "open"] /\ session = [c \in Conns |-> "none"]
  /\ proxy = [c \in Conns |-> "none"] /\ server = "up" /\ pending = {} /\ missed = {}

LEMMA NothingOwed == Begun => IInv
<1> SUFFICES ASSUME Begun PROVE IInv
  OBVIOUS
<1> USE DEF Begun
<1>1. Types
  BY DEF Types, Stages, CloseSteps
<1>2. ASSUME NEW c \in Conns PROVE Local(c) /\ Owns(c) /\ Reached(c) /\ Accounted(c)
  <2>1. Local(c)
    BY LifecycleAssumption
    DEF Local, Stages, Handling, Registered, Named, Proxied, NameUnreported
  <2>2. Owns(c) /\ Reached(c) /\ Accounted(c)
    BY LifecycleAssumption DEF Owns, Reached, Accounted, PortUnreported, NameUnreported
  <2> QED
    BY <2>1, <2>2
<1> QED
  BY <1>1, <1>2 DEF IInv, UpOK, FreedPortIsSilent

LEMMA RestartKeeps == Restart => IInv'
<1>1. Restart => Begun'
  BY DEF Restart, Begun
<1> QED
  BY <1>1, NothingOwed, PTL

----------------------------------------------------------------------------
(* Every step keeps the invariant.                                         *)
LEMMA StepKeeps == IInv /\ [Next]_vars => IInv'
<1> SUFFICES ASSUME IInv, [Next]_vars PROVE IInv'
  OBVIOUS
<1>1. ASSUME NEW c \in Conns,
             \/ Accept(c) \/ Submit(c) \/ HandleConnection(c)
             \/ Handle(c) \/ SessionEnds(c) \/ CloseStaleGroup(c)
      PROVE  IInv'
  BY <1>1, QuietKeeps, AllocateKeeps, ClaimKeeps, UnclaimKeeps, RecordSessionKeeps,
     CreateGroupKeeps, TakeListenerKeeps, StartWithListenerKeeps, LeaveKeeps DEF Handle
<1>2. ASSUME NEW c \in Conns, Close(c) PROVE IInv'
  BY <1>2, QuietKeeps, StopProxyKeeps, FreePortKeeps, DropRowKeeps, DropNameKeeps,
     DropGroupKeeps DEF Close
<1>3. CASE Stop \/ Stopping
  <2>1. ASSUME NEW c \in Conns, StopCloses(c) PROVE IInv'
    BY <2>1, BeginCloseKeeps DEF StopCloses
  <2> QED
    BY <1>3, <2>1, StopStepKeeps DEF Stopping
<1>4. CASE UNCHANGED vars
  BY <1>4, SameState
<1> QED
  BY <1>1, <1>2, <1>3, <1>4, RestartKeeps DEF Next, Serve

(* What a connection has reported it has, and while nobody stops the       *)
(* server it has nothing else, whatever connections, ports and names.      *)
THEOREM LifecycleInductive == Spec => []IInv
<1>1. Init => IInv
  BY NothingOwed DEF Init, Begun
<1> QED
  BY <1>1, StepKeeps, PTL DEF Spec

(* The types of the lifecycle are kept.                                    *)
THEOREM LifecycleTypeCorrect == Spec => []TypeOK
<1>1. IInv => TypeOK
  BY DEF IInv, Types, TypeOK, Local, Named, NameUnreported, Registered
<1> QED
  BY <1>1, LifecycleInductive, PTL

(* A connection that is gone has given back its port, its socket, its      *)
(* name, its row and its group, whatever step its registration failed at.  *)
THEOREM NothingLeaksCorrect == Spec => []NothingLeaks
<1>1. IInv => NothingLeaks
  <2> SUFFICES ASSUME IInv, server = "up", NEW c \in Conns,
                      stage[c] \in {"free"} \cup Arriving
               PROVE  ~HoldsPort(c) /\ ~HoldsName(c) /\ ~HoldsRow(c) /\ c \notin groups
    BY DEF NothingLeaks
  <2>1. Accounted(c) /\ Local(c)
    BY DEF IInv, UpOK
  <2> QED
    BY <2>1
    DEF Accounted, Local, HoldsPort, HoldsName, HoldsRow, PortUnreported, NameUnreported,
        RowUnreported
<1> QED
  BY <1>1, LifecycleInductive, PTL

(* Close gives back its own, the row before the name and the socket before *)
(* the port, whoever waits for them.                                       *)
THEOREM ClosesCleanlyCorrect == Spec => []ClosesCleanly
<1>1. IInv => RowGoesFirst
  <2> SUFFICES ASSUME IInv, server = "up", NEW c \in Conns, stage[c] = "record",
                      NEW d \in Conns, rows[name[c]] = d
               PROVE  FALSE
    <3>1. ASSUME IInv, NEW c \in Conns, stage[c] = "record"
          PROVE  rows[name[c]] \in Conns \cup {"left", None}
      <4>1. name[c] \in Names
        BY <3>1 DEF IInv, Local, Named, NameUnreported
      <4> QED
        BY <3>1, <4>1 DEF IInv, Types
    <3> QED
      BY <3>1 DEF RowGoesFirst
  <2>1. name[c] \in Names /\ live[name[c]] = c
    BY DEF IInv, Local, Owns, Named, NameUnreported
  <2>2. /\ Accounted(d) /\ Local(d) /\ Owns(d)
        /\ name[d] = name[c]
        /\ stage[d] \in RowUnreported \/ ("row" \in known[d] /\ cstep[d] \in RowKept)
    BY <2>1 DEF IInv, UpOK, Accounted
  <2>3. live[name[d]] = d
    <3>1. CASE stage[d] \in {"keepPort", "keepName"}
      BY <2>2, <3>1 DEF Owns, NameUnreported
    <3>2. CASE stage[d] = "keepRow"
      BY <2>2, <3>2 DEF Owns, Local, Accounted, NameKept, RowKept, PortKept
    <3>3. CASE "row" \in known[d] /\ cstep[d] \in RowKept
      BY <2>2, <3>3 DEF Owns, Local, NameKept
    <3> QED
      BY <2>2, <3>1, <3>2, <3>3 DEF RowUnreported
  <2> QED
    BY <2>1, <2>2, <2>3 DEF RowUnreported, Local, Registered
<1>2. IInv => FreedPortIsSilent
  BY DEF IInv, UpOK, FreedPortIsSilent
<1>3. IInv => ReleasesOwn
  BY DEF IInv, Local, Owns, ReleasesOwn, PortKept, RowKept, NameKept
<1> QED
  BY <1>1, <1>2, <1>3, LifecycleInductive, PTL DEF ClosesCleanly

(* Whoever was in l.connections when Range began and serves when it is     *)
(* over has been told to stop, and a proxy that was stopped is not         *)
(* listening once its handler is out of StartWithListener.                 *)
THEOREM StopsAllCorrect == Spec => []StopsAll
<1>1. IInv => StoppedProxyIsSilent
  BY DEF IInv, Local, Owns, StoppedProxyIsSilent
<1>2. IInv => StopClosesAll
  BY DEF IInv, Reached, StopClosesAll, StopChClosed
<1> QED
  BY <1>1, <1>2, LifecycleInductive, PTL DEF StopsAll

(* A server that nobody stops is one of these, so all of this holds of it. *)
THEOREM ServingIsCovered == ServingSpec => Spec
<1>1. [Serve]_vars => [Next]_vars
  BY DEF Next
<1> QED
  BY <1>1, PTL DEF ServingSpec, Spec
=============================================================================
