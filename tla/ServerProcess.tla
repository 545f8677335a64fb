---------------------------- MODULE ServerProcess --------------------------
(***************************************************************************)
(* internal/client/cli/server.go: what "drip server" builds, in which      *)
(* order, and how it takes it down again when it is signalled. The store   *)
(* is used by connections, by the last-seen updates they leave behind, by  *)
(* requests to the panel on its own address or through the proxy, and by   *)
(* the sweeper of the panel.                                               *)
(***************************************************************************)
EXTENDS FiniteSets

CONSTANT Goroutines   \* goroutines that use the store

VARIABLES
  stage,     \* what runServer does next
  store,     \* "open" or "closed"
  use,       \* [Goroutines -> Uses]
  overran    \* the servers whose Shutdown gave up waiting

processVars == <<stage, store, use, overran>>

Starting == {"open", "purge", "authenticator", "listen", "panel"}
Stopping == {"proxyStops", "connectionsStop", "panelStops", "authenticatorStops", "storeStops"}

(* "late": a connection whose wg.Add came after Stop's wg.Wait, with its   *)
(* update, which may find out that nothing is closed and then be late for  *)
(* a wg.Wait itself. "upgrading": hijacked and not yet a connection.       *)
Uses == {"none", "connection", "touch", "late", "lateTouch", "proxied", "upgrading", "panel",
         "sweep"}

ProcessInit ==
  /\ stage = "down" /\ store = "closed" /\ use = [u \in Goroutines |-> "none"] /\ overran = {}

Listening == stage \in {"panel", "serve", "proxyStops"}
PanelUp == stage \in {"serve", "proxyStops", "connectionsStop", "panelStops"}
ConnectionsDone == stage \in {"panelStops", "authenticatorStops", "storeStops", "stopped"}

Using(kinds) == {u \in Goroutines : use[u] \in kinds}
Turns(u, kind) == use' = [use EXCEPT ![u] = kind]

----------------------------------------------------------------------------
(* The process begins; it dies of a Fatal while starting, of a signal that *)
(* comes before signal.Notify, of a crash, or by returning from runServer. *)
(* Nothing of it is left: no deferred call runs, its goroutines are gone.  *)
ProcessBegins == stage = "down" /\ stage' = "open" /\ UNCHANGED <<store, use, overran>>

ProcessDies ==
  /\ stage # "down" /\ stage' = "down" /\ store' = "closed"
  /\ use' = [u \in Goroutines |-> "none"] /\ overran' = {}

(* A purge that fails is a warning.                                        *)
StartStep ==
  /\ \/ stage = "open" /\ stage' = "purge" /\ store' = "open"
     \/ stage = "purge" /\ stage' = "authenticator" /\ UNCHANGED store
     \/ stage = "authenticator" /\ stage' = "listen" /\ UNCHANGED store
     \/ stage = "listen" /\ stage' = "panel" /\ UNCHANGED store
     \/ stage = "panel" /\ stage' = "serve" /\ UNCHANGED store
  /\ UNCHANGED <<use, overran>>

----------------------------------------------------------------------------
(* What runs meanwhile. A connection registers and ends with statements of *)
(* its own; the update of when its client was last seen goes on alone,     *)
(* unless Close has been called.                                           *)
Connects(u) ==
  /\ use[u] = "none" /\ (Listening \/ stage = "connectionsStop") /\ Turns(u, "connection")
  /\ UNCHANGED <<stage, store, overran>>

Touches(u, v) ==
  /\ use[u] \in {"connection", "late"} /\ use[v] = "none"
  /\ stage \notin {"authenticatorStops", "storeStops", "stopped"}
  /\ Turns(v, IF use[u] = "late" THEN "lateTouch" ELSE "touch")
  /\ UNCHANGED <<stage, store, overran>>

(* A visitor's request, which may be one to the panel, or an upgrade that  *)
(* becomes a connection when HandleWSConnection gets to wg.Add.            *)
Requests(u) ==
  /\ \/ use[u] = "none" /\ Listening /\ Turns(u, "proxied")
     \/ use[u] = "proxied" /\ Turns(u, "upgrading")
     \/ use[u] = "upgrading" /\ Turns(u, IF ConnectionsDone THEN "late" ELSE "connection")
     \/ use[u] = "none" /\ PanelUp /\ (Turns(u, "panel") \/ Turns(u, "sweep"))
  /\ UNCHANGED <<stage, store, overran>>

UseEnds(u) ==
  /\ use[u] # "none" /\ Turns(u, "none") /\ UNCHANGED <<stage, store, overran>>

----------------------------------------------------------------------------
(* A signal, then Stop of the listener: Shutdown for at most 30 seconds,   *)
(* the connections closed and waited for; then what was deferred, the last *)
(* first.                                                                  *)
Quit ==
  /\ stage = "serve" /\ stage' = "proxyStops" /\ UNCHANGED <<store, use, overran>>

ShutdownEnds(kind) ==
  /\ overran' = IF Using({kind}) = {} THEN overran ELSE overran \cup {kind}
  /\ UNCHANGED <<store, use>>

ProxyStops ==
  /\ stage = "proxyStops" /\ stage' = "connectionsStop" /\ ShutdownEnds("proxied")

ConnectionsStop ==
  /\ stage = "connectionsStop" /\ Using({"connection"}) = {} /\ stage' = "panelStops"
  /\ UNCHANGED <<store, use, overran>>

(* At most ten seconds. The sweeper is told and not waited for.            *)
PanelStops ==
  /\ stage = "panelStops" /\ stage' = "authenticatorStops" /\ ShutdownEnds("panel")

(* Fault: closed is set and nobody waited for.                             *)
AuthenticatorStopsAtOnce ==
  /\ stage = "authenticatorStops" /\ stage' = "storeStops" /\ UNCHANGED <<store, use, overran>>

(* Close lets no update begin and waits for those that have.               *)
AuthenticatorStops ==
  /\ stage = "authenticatorStops" /\ Using({"touch"}) = {} /\ stage' = "storeStops"
  /\ UNCHANGED <<store, use, overran>>

StoreStops ==
  /\ stage = "storeStops" /\ stage' = "stopped" /\ store' = "closed" /\ UNCHANGED <<use, overran>>

ProcessNext ==
  \/ ProcessBegins \/ ProcessDies \/ StartStep \/ Quit
  \/ ProxyStops \/ ConnectionsStop \/ PanelStops \/ AuthenticatorStops \/ StoreStops
  \/ \E u \in Goroutines : Connects(u) \/ Requests(u) \/ UseEnds(u) \/ \E v \in Goroutines : Touches(u, v)

ProcessSpec == ProcessInit /\ [][ProcessNext]_processVars

----------------------------------------------------------------------------
(* The types.                                                              *)
ProcessTypeOK ==
  /\ stage \in {"down", "serve", "stopped"} \cup Starting \cup Stopping
  /\ store \in {"open", "closed"} /\ use \in [Goroutines -> Uses] /\ overran \subseteq {"proxied", "panel"}

(* The store outlives those who count on it: every connection has deleted  *)
(* its row and every last-seen update is written before the database is    *)
(* closed, and a request finds it closed only when it has outlasted the    *)
(* grace of its server. Not covered are the sweeper and the upgrade that   *)
(* becomes a connection after Stop has counted them: nobody waits for it.  *)
StoreOutlives ==
  store = "closed" =>
    /\ Using({"connection", "touch"}) = {}
    /\ \A kind \in {"proxied", "panel"} : Using({kind}) # {} => kind \in overran
=============================================================================
