------------------------------- MODULE Daemons -----------------------------
(***************************************************************************)
(* internal/client/cli: tunnels in the background. A daemon is a process   *)
(* like any other, known to list, attach and stop by the file it writes    *)
(* for its type and port when it has connected. The file holds a process   *)
(* number; the operating system gives the number of a process that has     *)
(* ended to the next one, whatever that is.                                *)
(***************************************************************************)
EXTENDS FiniteSets

CONSTANTS
  PIDs,
  Forwards,    \* tunnel type and local port
  Commands,    \* list, attach and stop as they run
  NoFile, NoTarget

ASSUME DaemonsAssumption ==
  /\ IsFiniteSet(PIDs) /\ IsFiniteSet(Forwards) /\ NoFile \notin PIDs /\ NoTarget \notin Forwards

VARIABLES
  process,   \* [PIDs -> [does, target, told]]; told: SIGTERM is in the quit channel
  file,      \* [Forwards -> PIDs \cup {NoFile}]: the daemon information
  command,   \* [Commands -> [at, kind, target, pid]]
  tangled    \* targets whose file several daemons or commands wrote over one another

daemonsVars == <<process, file, command, tangled>>

(* "foreign": not a daemon of this program. "retrying": between attempts.  *)
Live == {"connecting", "retrying", "serving", "closing"}

NoProcess == [does |-> "none", target |-> NoTarget, told |-> FALSE]
NoCommand == [at |-> "idle", kind |-> "list", target |-> NoTarget, pid |-> NoFile]

DaemonsInit ==
  /\ process = [p \in PIDs |-> NoProcess] /\ file = [t \in Forwards |-> NoFile]
  /\ command = [k \in Commands |-> NoCommand] /\ tangled = {}

DaemonsOf(t) == {p \in PIDs : process[p].target = t}
CommandsOn(t) == {k \in Commands : command[k].at # "idle" /\ command[k].target = t}

IsProcessRunning(p) == process[p].does # "none"
Does(p, what) == process' = [process EXCEPT ![p].does = what]
DaemonEnds(p) == process' = [process EXCEPT ![p] = NoProcess]

----------------------------------------------------------------------------
(* StartDaemon asks nobody whether the target has a daemon already.        *)
StartDaemon(p, t) ==
  /\ process[p].does = "none"
  /\ process' = [process EXCEPT ![p] = [does |-> "connecting", target |-> t, told |-> FALSE]]
  /\ tangled' = IF DaemonsOf(t) = {} /\ CommandsOn(t) = {} THEN tangled ELSE tangled \cup {t}
  /\ UNCHANGED <<file, command>>

(* Connect succeeds; a file that cannot be written is a warning.           *)
SaveDaemonInfo(p) ==
  LET t == process[p].target IN
  /\ process[p].does = "connecting" /\ Does(p, "serving")
  /\ \/ file' = [file EXCEPT ![t] = p] /\ UNCHANGED tangled
     \/ UNCHANGED file /\ tangled' = tangled \cup {t}
  /\ UNCHANGED command

(* Connect fails or the connection is lost: a pause, in which the quit     *)
(* channel is read, or the end when the error is final or the attempts are *)
(* used up. The file stays.                                                *)
Reconnects(p) ==
  /\ \/ process[p].does = "retrying" /\ Does(p, "connecting")
     \/ process[p].does \in {"connecting", "serving"} /\ (Does(p, "retrying") \/ DaemonEnds(p))
     \/ process[p].does = "retrying" /\ process[p].told /\ DaemonEnds(p)
  /\ UNCHANGED <<file, command, tangled>>

(* The quit channel is read while serving: close, remove the file, return. *)
QuitsServing(p) ==
  /\ process[p].does = "serving" /\ process[p].told /\ Does(p, "closing")
  /\ UNCHANGED <<file, command, tangled>>

RemovesOwnInfo(p) ==
  /\ process[p].does = "closing" /\ DaemonEnds(p)
  /\ file' = [file EXCEPT ![process[p].target] = NoFile]
  /\ UNCHANGED <<command, tangled>>

(* Killed from outside, the machine restarted; other programs come and go. *)
Killed(p) ==
  /\ IsProcessRunning(p) /\ DaemonEnds(p) /\ UNCHANGED <<file, command, tangled>>

ForeignStarts(p) ==
  /\ process[p].does = "none" /\ Does(p, "foreign") /\ UNCHANGED <<file, command, tangled>>

----------------------------------------------------------------------------
(* LoadDaemonInfo for one target, or its entry in ListAllDaemons. Reading  *)
(* one process's file while another of the target is about to write its    *)
(* own tangles them.                                                       *)
LoadDaemonInfo(k, kind, t) ==
  /\ command[k].at = "idle" /\ file[t] # NoFile
  /\ command' = [command EXCEPT ![k] = [at |-> "check", kind |-> kind, target |-> t, pid |-> file[t]]]
  /\ tangled' = IF DaemonsOf(t) \subseteq {file[t]} THEN tangled ELSE tangled \cup {t}
  /\ UNCHANGED <<process, file>>

CommandAt(k, step) == command' = [command EXCEPT ![k].at = step]
Done(k) == command' = [command EXCEPT ![k] = NoCommand]

(* An entry whose process is not running is stale; list leaves the others. *)
CheckRunning(k) ==
  LET p == command[k].pid IN
  /\ command[k].at = "check"
  /\ IF ~IsProcessRunning(p) THEN CommandAt(k, "remove")
     ELSE IF command[k].kind = "stop" THEN CommandAt(k, "signal") ELSE Done(k)
  /\ UNCHANGED <<process, file, tangled>>

(* killProcessOS on Unix: SIGTERM, five seconds of asking, SIGKILL; when   *)
(* there is nobody to signal, stop ends with an error and leaves the file. *)
(* What is not a daemon ends on SIGTERM.                                   *)
SignalsTerm(k) ==
  LET p == command[k].pid IN
  /\ command[k].at = "signal"
  /\ \/ process[p].does = "none" /\ Done(k) /\ UNCHANGED process
     \/ process[p].does = "foreign" /\ DaemonEnds(p) /\ CommandAt(k, "killing")
     \/ process[p].does \in Live /\ process' = [process EXCEPT ![p].told = TRUE] /\ CommandAt(k, "killing")
  /\ UNCHANGED <<file, tangled>>

(* Fault: SIGTERM is thought to be enough.                                 *)
KillEndsAtOnce(k) ==
  /\ command[k].at = "killing" /\ CommandAt(k, "remove") /\ UNCHANGED <<process, file, tangled>>

KillEnds(k) ==
  LET p == command[k].pid IN
  /\ command[k].at = "killing"
  /\ \/ CommandAt(k, "remove") /\ IF IsProcessRunning(p) THEN DaemonEnds(p) ELSE UNCHANGED process
     \/ ~IsProcessRunning(p) /\ Done(k) /\ UNCHANGED process
  /\ UNCHANGED <<file, tangled>>

RemoveDaemonInfo(k) ==
  /\ command[k].at = "remove" /\ CommandAt(k, "removed")
  /\ file' = [file EXCEPT ![command[k].target] = NoFile]
  /\ UNCHANGED <<process, tangled>>

CommandEnds(k) ==
  /\ command[k].at = "removed" /\ Done(k) /\ UNCHANGED <<process, file, tangled>>

DaemonsNext ==
  \/ \E p \in PIDs :
       \/ \E t \in Forwards : StartDaemon(p, t)
       \/ SaveDaemonInfo(p) \/ Reconnects(p) \/ QuitsServing(p) \/ RemovesOwnInfo(p)
       \/ Killed(p) \/ ForeignStarts(p)
  \/ \E k \in Commands :
       \/ \E kind \in {"list", "stop"}, t \in Forwards : LoadDaemonInfo(k, kind, t)
       \/ CheckRunning(k) \/ SignalsTerm(k) \/ KillEnds(k) \/ RemoveDaemonInfo(k) \/ CommandEnds(k)

DaemonsSpec == DaemonsInit /\ [][DaemonsNext]_daemonsVars

----------------------------------------------------------------------------
(* The types.                                                              *)
DaemonsTypeOK ==
  /\ process \in [PIDs -> [does : {"none", "foreign"} \cup Live,
                           target : Forwards \cup {NoTarget}, told : BOOLEAN]]
  /\ file \in [Forwards -> PIDs \cup {NoFile}]
  /\ command \in [Commands -> [at : {"idle", "check", "signal", "killing", "remove", "removed"},
                               kind : {"list", "stop"}, target : Forwards \cup {NoTarget},
                               pid : PIDs \cup {NoFile}]]
  /\ tangled \subseteq Forwards

(* What list shows and stop stops is what runs, over any number of crashes,*)
(* reconnects and reused process numbers: a daemon that serves is named by *)
(* the file of its target, and once a command has removed the file neither *)
(* it nor a daemon of the target is left. It takes one daemon and no start *)
(* during a command to have this.                                          *)
Tracked ==
  \A t \in Forwards \ tangled :
    /\ \A p \in DaemonsOf(t) : process[p].does = "serving" => file[t] = p
    /\ (\E k \in CommandsOn(t) : command[k].at = "removed") => file[t] = NoFile /\ DaemonsOf(t) = {}
=============================================================================
