-------------------------- MODULE TunnelSupervisor -------------------------
(***************************************************************************)
(* internal/client/cli: superviseTunnel, the loop of the service, and      *)
(* runTunnelWithUI, the loop of the terminal, around one PoolClient after  *)
(* the other.                                                              *)
(***************************************************************************)
EXTENDS ClientPool

CONSTANTS
  Modes,        \* "service": superviseTunnel; "ui": runTunnelWithUI
  Names,        \* names the server assigns
  MaxAttempts,  \* maxReconnectAttempts
  MaxWait       \* doublings from superviseMinBackoff to superviseMaxBackoff

ASSUME SupervisorAssumption ==
  /\ Modes \subseteq {"service", "ui"}
  /\ MaxAttempts \in Nat \ {0} /\ MaxWait \in Nat
  /\ NoRebind \notin Names

VARIABLES
  mode,
  owner,     \* the loop: "start", "connecting", "serving", "closing", "backoff",
             \* or over: "stopped", "failed"
  quit,      \* ctx is cancelled, a signal has come
  once,      \* connectedOnce
  wanted,    \* connConfig.Subdomain; NoRebind: none is asked for
  tries      \* "service": doublings of the wait; "ui": reconnectAttempts

ownerVars == <<mode, owner, quit, once, wanted, tries>>
vars == <<poolVars, ownerVars>>

Init ==
  /\ PoolInit
  /\ mode \in Modes /\ owner = "start" /\ quit = FALSE /\ once = FALSE
  /\ wanted = NoRebind /\ tries = 0

Goes(step) == owner' = step
(* The process ends with the loop, whatever still runs.                    *)
Exits(step) == Goes(step) /\ ProcessEnds

Quit ==
  /\ ~quit /\ quit' = TRUE
  /\ UNCHANGED <<poolVars, mode, owner, once, wanted, tries>>

(* The service looks at ctx before each attempt, the terminal does not.    *)
NewClient ==
  /\ owner = "start" /\ ~(mode = "service" /\ quit)
  /\ NewPoolClient /\ Goes("connecting")
  /\ UNCHANGED <<mode, quit, once, wanted, tries>>

QuitBetween ==
  /\ owner \in {"start", "backoff"} /\ quit /\ (owner = "start" => mode = "service")
  /\ Exits("stopped")
  /\ UNCHANGED <<mode, quit, once, wanted, tries>>

(* What Connect can fail with: "config", the transport is not offered;     *)
(* "refused", a name or credential retrying does not mend; "taken"; or     *)
(* "transport".                                                            *)
Errors == {"config", "refused", "taken", "transport"}

(* isFatalTunnelError, and the checks of runTunnelWithUI                   *)
Fatal(e) ==
  \/ e \in {"config", "refused"}
  \/ e = "taken" /\ (mode = "service" => ~once)

NextTry == IF mode = "service" THEN (IF tries < MaxWait THEN tries + 1 ELSE MaxWait) ELSE tries + 1
OutOfTries(n) == mode = "ui" /\ n >= MaxAttempts

ConnectError(e) ==
  /\ owner = "connecting" /\ ConnectFails
  /\ IF Fatal(e) THEN Goes("failed") /\ UNCHANGED tries
     ELSE tries' = NextTry /\ Goes(IF OutOfTries(NextTry) THEN "failed" ELSE "backoff")
  /\ UNCHANGED <<mode, quit, once, wanted>>

(* Connect has returned: the assigned name is the one to ask for from now. *)
Serve ==
  /\ owner = "connecting" /\ connect = "up"
  /\ Goes("serving") /\ once' = TRUE /\ tries' = 0
  /\ wanted' \in (IF wanted = NoRebind THEN Names ELSE {wanted})
  /\ UNCHANGED <<poolVars, mode, quit>>

(* Fault: the name assigned last outranks a rebind.                        *)
DisconnectedKeepsName ==
  LET base == IF rebind # NoRebind THEN 0 ELSE tries
      n == IF mode = "ui" THEN base + 1 ELSE IF base < MaxWait THEN base + 1 ELSE MaxWait IN
  /\ owner = "serving" /\ done
  /\ tries' = n
  /\ IF OutOfTries(n) THEN Exits("failed") ELSE Goes("backoff") /\ UNCHANGED poolVars
  /\ UNCHANGED <<mode, quit, once, wanted>>

(* client.Wait has returned. A rebind outranks the name.                   *)
Disconnected ==
  LET base == IF rebind # NoRebind THEN 0 ELSE tries
      n == IF mode = "ui" THEN base + 1 ELSE IF base < MaxWait THEN base + 1 ELSE MaxWait IN
  /\ owner = "serving" /\ done
  /\ wanted' = IF rebind # NoRebind THEN rebind ELSE wanted
  /\ tries' = n
  /\ IF OutOfTries(n) THEN Exits("failed") ELSE Goes("backoff") /\ UNCHANGED poolVars
  /\ UNCHANGED <<mode, quit, once>>

(* closeTunnelClient calls Close and gives it a moment; so does the end of *)
(* runTunnelWithUI. The process ends with what still runs.                 *)
QuitServing ==
  /\ owner = "serving" /\ quit
  /\ Goes("closing")
  /\ OwnerCloses
  /\ UNCHANGED <<mode, quit, once, wanted, tries>>

CloseTimedOut ==
  /\ owner = "closing" /\ Exits("stopped")
  /\ UNCHANGED <<mode, quit, once, wanted, tries>>

(* sleepContext; reconnectInterval. What has come cuts the wait short.     *)
WaitOver ==
  /\ owner = "backoff" /\ ~quit /\ Goes("start")
  /\ UNCHANGED <<poolVars, mode, quit, once, wanted, tries>>

Running == owner \notin {"stopped", "failed"}

Own(step) == Running /\ step /\ UNCHANGED ownerVars
Pool == Own(PoolRuns)
Environment == Own(PoolEnvironment)

Owner == NewClient \/ QuitBetween \/ Serve \/ Disconnected \/ QuitServing \/ CloseTimedOut
Next ==
  \/ Pool \/ Environment \/ Quit \/ WaitOver \/ Owner
  \/ \E e \in Errors : ConnectError(e)

Spec == Init /\ [][Next]_vars

(* As PoolFairness, and the loops around it run, their waits and Connect   *)
(* come to an end.                                                         *)
Fairness ==
  /\ WF_vars(Owner) /\ WF_vars(WaitOver) /\ WF_vars(\E e \in Errors : ConnectError(e))
  /\ WF_vars(Own(WarmUp \/ WarmUpSkipped \/ ConnectReturns))
  /\ WF_vars(Own(Close)) /\ WF_vars(Own(ControlEnds)) /\ WF_vars(Own(Scale)) /\ WF_vars(Own(Finish))
  /\ \A s \in Data : WF_vars(Own(AddDataSession(s)))
  /\ \A s \in Sessions : WF_vars(Own(Loop(s)))
  /\ \A v \in Streams : WF_vars(Own(HandlerBegins(v) \/ HandlerCut(v)))

FairSpec == Spec /\ Fairness

----------------------------------------------------------------------------
(* The loops' own variables.                                               *)
TypeOK ==
  /\ PoolTypeOK
  /\ mode \in Modes /\ quit \in BOOLEAN /\ once \in BOOLEAN
  /\ owner \in {"start", "connecting", "serving", "closing", "backoff", "stopped", "failed"}
  /\ wanted \in Names \cup Targets \cup {NoRebind} /\ tries \in Nat

(* A rebind the control stream brought is what the next connection asks    *)
(* for, whatever ended the client and however Close, the control loop and  *)
(* the loss of the session fell together (tunnel_supervisor.go:135-146,    *)
(* tunnel_runner.go:190-203).                                              *)
RebindHonoured == [][(NewClient /\ rebind # NoRebind) => wanted = rebind]_vars

(* A tunnel whose session is gone is dialled again, unless the loop has    *)
(* ended, as long as no upgraded request waits for the local service.      *)
ComesBack ==
  (owner = "serving" /\ Gone(Primary)) ~>
    (owner \in {"connecting", "stopped", "failed"} \/ \E v \in Streams : handler[v].at = "upgrade")

(* What tunnel_supervisor.go:25 says: "superviseTunnels keeps every tunnel *)
(* in tunnels connected until ctx is cancelled". An upgrade the local      *)
(* service never answers keeps the wait group of a dead client, and so the *)
(* tunnel down.                                                            *)
KeptConnected ==
  (owner = "serving" /\ Gone(Primary)) ~> owner \in {"connecting", "stopped", "failed"}
=============================================================================
