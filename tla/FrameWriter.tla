---------------------------- MODULE FrameWriter ----------------------------
(***************************************************************************)
(* internal/shared/protocol/writer.go. Goroutines put frames into a data   *)
(* and a control queue, writeLoop takes them out, gathers data frames in a *)
(* batch and writes them, Flush empties queue and batch on the side, and   *)
(* Close discards what is left. enqueueMu keeps Close apart from the       *)
(* goroutines that are enqueuing, mu the loop from Flush.                  *)
(***************************************************************************)
EXTENDS Integers, Sequences, FiniteSets

CONSTANTS
  Frames,
  ControlFrames,   \* those sent with WriteControl
  None,
  QueueSize, ControlSize,
  MaxBatch,
  LowDepth         \* lowConcurrencyThreshold of the adaptive flush

ASSUME WriterAssumption ==
  /\ IsFiniteSet(Frames) /\ ControlFrames \subseteq Frames /\ None \notin Frames
  /\ QueueSize \in Nat \ {0} /\ ControlSize \in Nat \ {0}
  /\ MaxBatch \in Nat \ {0} /\ LowDepth \in Nat

VARIABLES
  place,         \* [Frames -> Places]
  queue, controlQueue, batch,
  held,          \* the frame writeLoop has taken and not handled yet
  queuedFrames,  \* the backlog counter
  wcloser,       \* Close: "no", "draining", "done", or "late": somebody had set closed
  wclosed,       \* the flag
  loop,          \* writeLoop: "top", "select", "ended"
  accepted,      \* the data frames in the order in which they were enqueued
  wire           \* the frames in the order in which they were written or failed

(* "marked": counted, and inside enqueueMu until the channel takes it.     *)
Places == {"caller", "marked", "blocked", "refused", "queued", "held", "batch",
           "written", "failed", "discarded"}
Backlog == {"marked", "blocked", "queued", "held", "batch"}

writerVars == <<place, queue, controlQueue, batch, held, queuedFrames, wcloser, wclosed, loop,
                accepted, wire>>

WriterInit ==
  /\ place = [f \in Frames |-> "caller"]
  /\ queue = <<>> /\ controlQueue = <<>> /\ batch = <<>> /\ held = None
  /\ queuedFrames = 0 /\ wcloser = "no" /\ wclosed = FALSE /\ loop = "top"
  /\ accepted = <<>> /\ wire = <<>>

IsControl(f) == f \in ControlFrames
Full(f) == IF IsControl(f) THEN Len(controlQueue) = ControlSize ELSE Len(queue) = QueueSize
Put(f, p) == place' = [place EXCEPT ![f] = p]
Elements(s) == {s[i] : i \in DOMAIN s}

----------------------------------------------------------------------------
(* WriteFrameWithCancel and WriteControl, under the read lock.             *)
Mark(f) ==
  /\ place[f] = "caller" /\ wcloser # "draining"
  /\ IF wclosed THEN Put(f, "refused") /\ UNCHANGED queuedFrames
     ELSE Put(f, "marked") /\ queuedFrames' = queuedFrames + 1
  /\ UNCHANGED <<queue, controlQueue, batch, held, wcloser, wclosed, loop, accepted, wire>>

Enqueue(f) ==
  /\ place[f] \in {"marked", "blocked"} /\ ~Full(f)
  /\ Put(f, "queued")
  /\ IF IsControl(f) THEN controlQueue' = Append(controlQueue, f) /\ UNCHANGED <<queue, accepted>>
     ELSE queue' = Append(queue, f) /\ accepted' = Append(accepted, f) /\ UNCHANGED controlQueue
  /\ UNCHANGED <<batch, held, queuedFrames, wcloser, wclosed, loop, wire>>

Block(f) ==
  /\ place[f] = "marked" /\ Full(f)
  /\ Put(f, "blocked")
  /\ UNCHANGED <<queue, controlQueue, batch, held, queuedFrames, wcloser, wclosed, loop, accepted,
                 wire>>

(* Fault: a cancelled write stays counted.                                 *)
GiveUpStillMarked(f) ==
  /\ place[f] = "blocked" /\ Put(f, "refused")
  /\ UNCHANGED <<queue, controlQueue, batch, held, queuedFrames, wcloser, wclosed, loop, accepted,
                 wire>>

(* Cancelled, or 30 seconds (50 milliseconds) have passed.                 *)
GiveUp(f) ==
  /\ place[f] = "blocked"
  /\ Put(f, "refused") /\ queuedFrames' = queuedFrames - 1
  /\ UNCHANGED <<queue, controlQueue, batch, held, wcloser, wclosed, loop, accepted, wire>>

Write(f) == Mark(f) \/ Enqueue(f) \/ Block(f) \/ GiveUp(f)

----------------------------------------------------------------------------
(* flushFrameLocked on one frame after the other: what cannot be written   *)
(* is released like the rest, and the first error sets closed.             *)
WriteOut(frames) ==
  \E bad \in SUBSET Elements(frames) :
    /\ place' = [f \in Frames |-> IF f \in bad THEN "failed"
                                  ELSE IF f \in Elements(frames) THEN "written" ELSE place[f]]
    /\ wire' = wire \o frames
    /\ wclosed' = (wclosed \/ bad # {})
    /\ queuedFrames' = queuedFrames - Len(frames)

(* The control queue comes first.                                          *)
TakeControl ==
  /\ loop = "top" /\ held = None /\ controlQueue # <<>>
  /\ held' = Head(controlQueue) /\ controlQueue' = Tail(controlQueue)
  /\ Put(Head(controlQueue), "held")
  /\ UNCHANGED <<queue, batch, queuedFrames, wcloser, wclosed, loop, accepted, wire>>

Select ==
  /\ loop = "top" /\ held = None /\ controlQueue = <<>> /\ wcloser \in {"no", "late"}
  /\ loop' = "select"
  /\ UNCHANGED <<place, queue, controlQueue, batch, held, queuedFrames, wcloser, wclosed, accepted,
                 wire>>

TakeData ==
  /\ loop = "select" /\ held = None /\ queue # <<>>
  /\ held' = Head(queue) /\ queue' = Tail(queue)
  /\ Put(Head(queue), "held")
  /\ UNCHANGED <<controlQueue, batch, queuedFrames, wcloser, wclosed, loop, accepted, wire>>

(* The rest of the loop's turn, under mu.                                  *)
HandleFrame ==
  /\ held # None
  /\ held' = None /\ loop' = "top"
  /\ IF IsControl(held) THEN WriteOut(<<held>>) /\ UNCHANGED batch
     ELSE IF Len(batch) + 1 >= MaxBatch \/ Len(queue) <= LowDepth
     THEN WriteOut(Append(batch, held)) /\ batch' = <<>>
     ELSE /\ batch' = Append(batch, held) /\ Put(held, "batch")
          /\ UNCHANGED <<wire, wclosed, queuedFrames>>
  /\ UNCHANGED <<queue, controlQueue, wcloser, accepted>>

FlushBatch == WriteOut(batch) /\ batch' = <<>>

BatchTick ==
  /\ loop = "select" /\ held = None
  /\ FlushBatch /\ loop' = "top"
  /\ UNCHANGED <<queue, controlQueue, held, wcloser, accepted>>

(* A heartbeat is written at once, past the queues.                        *)
HeartbeatTick ==
  /\ loop = "select" /\ held = None
  /\ loop' = "top" /\ wclosed' \in {wclosed, TRUE}
  /\ UNCHANGED <<place, queue, controlQueue, batch, held, queuedFrames, wcloser, accepted, wire>>

(* Fault: the loop ends without a last look at its batch.                  *)
LoopEndsWithBatch ==
  /\ held = None /\ wcloser \in {"draining", "done"}
  /\ \/ loop = "top" /\ controlQueue = <<>>
     \/ loop = "select" /\ (queue = <<>> \/ wcloser = "done")
  /\ loop' = "ended"
  /\ UNCHANGED <<place, queue, controlQueue, batch, held, queuedFrames, wcloser, wclosed, accepted,
                 wire>>

(* A queue is closed and empty, or done is closed.                         *)
LoopEnds ==
  /\ held = None /\ wcloser \in {"draining", "done"}
  /\ \/ loop = "top" /\ controlQueue = <<>>
     \/ loop = "select" /\ (queue = <<>> \/ wcloser = "done")
  /\ FlushBatch /\ loop' = "ended"
  /\ UNCHANGED <<queue, controlQueue, held, wcloser, accepted>>

WriteLoop ==
  TakeControl \/ Select \/ TakeData \/ HandleFrame \/ BatchTick \/ HeartbeatTick \/ LoopEnds

----------------------------------------------------------------------------
(* Fault: the queue is written before the batch.                           *)
FlushQueueFirst ==
  /\ ~wclosed
  /\ WriteOut(queue \o batch) /\ batch' = <<>> /\ queue' = <<>>
  /\ UNCHANGED <<controlQueue, held, wcloser, loop, accepted>>

Flush ==
  /\ ~wclosed
  /\ WriteOut(batch \o queue) /\ batch' = <<>> /\ queue' = <<>>
  /\ UNCHANGED <<controlQueue, held, wcloser, loop, accepted>>

(* Close waits for those who are enqueuing; nobody enqueues while it runs. *)
CloseWriter ==
  /\ wcloser = "no" /\ \A f \in Frames : place[f] \notin {"marked", "blocked"}
  /\ wcloser' = IF wclosed THEN "late" ELSE "draining"
  /\ wclosed' = TRUE
  /\ UNCHANGED <<place, queue, controlQueue, batch, held, queuedFrames, loop, accepted, wire>>

Discard(f) == Put(f, "discarded") /\ queuedFrames' = queuedFrames - 1

DrainQueues ==
  /\ wcloser = "draining"
  /\ \/ queue # <<>> /\ Discard(Head(queue)) /\ queue' = Tail(queue) /\ UNCHANGED controlQueue
     \/ queue = <<>> /\ controlQueue # <<>> /\ Discard(Head(controlQueue))
        /\ controlQueue' = Tail(controlQueue) /\ UNCHANGED queue
  /\ UNCHANGED <<batch, held, wcloser, wclosed, loop, accepted, wire>>

CloseDone ==
  /\ wcloser = "draining" /\ queue = <<>> /\ controlQueue = <<>>
  /\ wcloser' = "done"
  /\ UNCHANGED <<place, queue, controlQueue, batch, held, queuedFrames, wclosed, loop, accepted,
                 wire>>

WriterNext ==
  \/ \E f \in Frames : Write(f)
  \/ WriteLoop \/ Flush \/ CloseWriter \/ DrainQueues \/ CloseDone

(* The loop goes on as long as it can; its select takes one of the cases   *)
(* that are ready at random, so none is passed over for ever. Close runs   *)
(* to its end.                                                             *)
LoopGoesOn == TakeControl \/ Select \/ HandleFrame \/ LoopEnds
CloseGoesOn == DrainQueues \/ CloseDone

WriterSpec ==
  /\ WriterInit /\ [][WriterNext]_writerVars
  /\ WF_writerVars(LoopGoesOn) /\ SF_writerVars(TakeData) /\ SF_writerVars(BatchTick)
  /\ WF_writerVars(CloseGoesOn)

----------------------------------------------------------------------------
(* The types.                                                              *)
WriterTypeOK ==
  /\ place \in [Frames -> Places] /\ held \in Frames \cup {None}
  /\ queue \in Seq(Frames) /\ controlQueue \in Seq(Frames) /\ batch \in Seq(Frames)
  /\ Len(queue) <= QueueSize /\ Len(controlQueue) <= ControlSize /\ Len(batch) < MaxBatch
  /\ wcloser \in {"no", "draining", "done", "late"} /\ wclosed \in BOOLEAN
  /\ loop \in {"top", "select", "ended"}

(* The backlog counter is the number of frames that wait, whatever became  *)
(* of them: written, failed, cancelled, timed out or discarded by Close.   *)
BacklogExact == queuedFrames = Cardinality({f \in Frames : place[f] \in Backlog})

Before(s, f, g) == \E i, j \in DOMAIN s : i < j /\ s[i] = f /\ s[j] = g

(* Data frames reach the wire in the order in which they were enqueued: a  *)
(* frame is written after each that was enqueued before it was written or  *)
(* failed, but for those Close discards and for one that writeLoop holds   *)
(* while somebody calls Flush.                                             *)
NoOvertaking ==
  [][\A f, g \in Elements(accepted) :
       Before(accepted, f, g) /\ place[g] # "written" /\ place'[g] = "written" =>
         Before(wire', f, g) \/ place'[f] = "discarded" \/ held = f]_writerVars

(* A frame that was accepted is written, has failed or is discarded in the *)
(* end, and after a Close that found the writer open the loop ends.        *)
FramesEnd ==
  <>[](/\ \A f \in Frames : place[f] \notin {"queued", "held", "batch"}
       /\ wcloser = "done" => loop = "ended")
=============================================================================
