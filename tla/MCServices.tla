----------------------------- MODULE MCServices ----------------------------
(***************************************************************************)
(* Ten components that share no state with each other, side by side: a     *)
(* behaviour is a behaviour of one of them, its subject.                   *)
(***************************************************************************)
EXTENDS
  ClientPool, FrameWriter, ChallengeZone, LoginLimiter, AdminSetup, Intake, Provisioning,
  VisitorAccess, Daemons, ServerProcess

VARIABLE subject

Subjects ==
  {"pool", "writer", "zone", "logins", "setup", "intake", "provisioning", "visitors",
   "daemons", "process"}

vars == <<subject, poolVars, writerVars, zoneVars, limiterVars, setupVars, intakeVars,
          provisioningVars, visitorVars, daemonsVars, processVars>>

Init ==
  /\ subject \in Subjects
  /\ PoolInit /\ WriterInit /\ ZoneInit /\ LimiterInit /\ SetupInit /\ IntakeInit
  /\ ProvisioningInit /\ VisitorInit /\ DaemonsInit /\ ProcessInit
  /\ subject # "zone" => ~together /\ \A c \in zone : ~c.disabled   \* one of its beginnings

AllBut(s) ==
  /\ s # "pool" => UNCHANGED poolVars
  /\ s # "writer" => UNCHANGED writerVars
  /\ s # "zone" => UNCHANGED zoneVars
  /\ s # "logins" => UNCHANGED limiterVars
  /\ s # "setup" => UNCHANGED setupVars
  /\ s # "intake" => UNCHANGED intakeVars
  /\ s # "provisioning" => UNCHANGED provisioningVars
  /\ s # "visitors" => UNCHANGED visitorVars
  /\ s # "daemons" => UNCHANGED daemonsVars
  /\ s # "process" => UNCHANGED processVars

Stay == UNCHANGED subject /\ AllBut(subject)

Next ==
  \/ subject = "pool" /\ PoolNext /\ Stay
  \/ subject = "writer" /\ WriterNext /\ Stay
  \/ subject = "zone" /\ ZoneNext /\ Stay
  \/ subject = "logins" /\ LimiterNext /\ Stay
  \/ subject = "setup" /\ SetupNext /\ Stay
  \/ subject = "intake" /\ IntakeNext /\ Stay
  \/ subject = "provisioning" /\ ProvisioningNext /\ Stay
  \/ subject = "visitors" /\ VisitorNext /\ Stay
  \/ subject = "daemons" /\ DaemonsNext /\ Stay
  \/ subject = "process" /\ ProcessNext /\ Stay

(* The fairness of WriterSpec, where the writer is the subject.            *)
Spec ==
  /\ Init /\ [][Next]_vars
  /\ WF_writerVars(subject = "writer" /\ LoopGoesOn)
  /\ SF_writerVars(subject = "writer" /\ TakeData)
  /\ SF_writerVars(subject = "writer" /\ BatchTick)
  /\ WF_writerVars(subject = "writer" /\ CloseGoesOn)
=============================================================================
