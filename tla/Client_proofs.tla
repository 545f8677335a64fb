---------------------------- MODULE Client_proofs ---------------------------
(***************************************************************************)
(* Parts of the client process, for any numbers and limits: the frames     *)
(* that wait to be written to a connection (FrameWriter, which the server  *)
(* uses as well), the connections of a client (ClientPool), the loop       *)
(* around one client after the other (TunnelSupervisor), and the tunnels   *)
(* in the background (Daemons).                                            *)
(***************************************************************************)
EXTENDS FrameWriter, TunnelSupervisor, Daemons, FiniteSetTheorems, FunctionTheorems, TLAPS

----------------------------------------------------------------------------
(* The frame writer.                                                       *)
Distinct(s) == \A i, j \in 1..Len(s) : s[i] = s[j] => i = j
Lies(s, there) == \A i \in 1..Len(s) : place[s[i]] = there

(* Where a frame is kept is where its place says, and it is kept once.     *)
Kept ==
  /\ Distinct(queue) /\ Lies(queue, "queued") /\ \A i \in 1..Len(queue) : ~IsControl(queue[i])
  /\ Distinct(controlQueue) /\ Lies(controlQueue, "queued")
  /\ \A i \in 1..Len(controlQueue) : IsControl(controlQueue[i])
  /\ Distinct(batch) /\ Lies(batch, "batch")
  /\ held # None => place[held] = "held"

WriterIInv == WriterTypeOK /\ Kept /\ BacklogExact

Waiting == {f \in Frames : place[f] \in Backlog}

LEMMA WaitingFinite ==
  /\ IsFiniteSet(Waiting) /\ Cardinality(Waiting) \in Nat
  /\ BacklogExact <=> queuedFrames = Cardinality(Waiting)
BY WriterAssumption, FS_Subset, FS_CardinalityType DEF Waiting, BacklogExact

LEMMA BacklogNext == BacklogExact' <=> queuedFrames' = Cardinality(Waiting')
BY DEF Waiting, BacklogExact

(* A sequence without repetition has as many elements as places.           *)
LEMMA DistinctCounts ==
  ASSUME NEW s \in Seq(Frames), Distinct(s)
  PROVE  IsFiniteSet(Elements(s)) /\ Cardinality(Elements(s)) = Len(s)
<1> DEFINE n == Len(s)
           E == Elements(s)
<1>1. n \in Nat /\ DOMAIN s = 1..n  OBVIOUS
<1>2. s \in [1..n -> E] /\ \A e \in E : \E i \in 1..n : s[i] = e  BY <1>1 DEF Elements
<1>3. s \in Bijection(1..n, E)  BY <1>2, Fun_IsBij DEF Distinct
<1>4. ExistsBijection(1..n, E)  BY <1>3 DEF ExistsBijection
<1>5. IsFiniteSet(1..n) /\ Cardinality(1..n) = n  BY <1>1, FS_Interval
<1> QED  BY <1>4, <1>5, FS_Bijection

LEMMA ElementsOf ==
  ASSUME NEW s \in Seq(Frames)
  PROVE  Elements(s) \subseteq Frames /\ \A f : f \in Elements(s) <=> \E i \in 1..Len(s) : s[i] = f
BY DEF Elements

(* What is written or has failed waits no longer.                          *)
LEMMA WriteOutCounts ==
  ASSUME WriterIInv, NEW s \in Seq(Frames), Distinct(s), WriteOut(s),
         \A i \in 1..Len(s) : place[s[i]] \in Backlog
  PROVE  /\ queuedFrames' = Cardinality(Waiting')
         /\ place' \in [Frames -> Places] /\ wclosed' \in BOOLEAN
         /\ \A f \in Frames : f \notin Elements(s) => place'[f] = place[f]
<1>1. PICK bad \in SUBSET Elements(s) :
        /\ place' = [f \in Frames |-> IF f \in bad THEN "failed"
                                      ELSE IF f \in Elements(s) THEN "written" ELSE place[f]]
        /\ wclosed' = (wclosed \/ bad # {})
        /\ queuedFrames' = queuedFrames - Len(s)
  BY DEF WriteOut
<1>2. Elements(s) \subseteq Waiting  BY ElementsOf DEF Waiting
<1>3. Waiting' = Waiting \ Elements(s)
  BY <1>1 DEF Waiting, Backlog
<1>4. Cardinality(Waiting \ Elements(s)) = Cardinality(Waiting) - Cardinality(Elements(s))
  <2>1. Waiting \cap Elements(s) = Elements(s)  BY <1>2
  <2> DEFINE E == Elements(s)
  <2> HIDE DEF E
  <2>2. Cardinality(Waiting \ E) = Cardinality(Waiting) - Cardinality(Waiting \cap E)
    BY WaitingFinite, FS_Difference
  <2> QED  BY <2>1, <2>2 DEF E
<1>5. queuedFrames = Cardinality(Waiting) /\ Cardinality(Elements(s)) = Len(s)
  BY WaitingFinite, DistinctCounts DEF WriterIInv
<1>6. place' \in [Frames -> Places]  BY <1>1 DEF WriterIInv, WriterTypeOK, Places
<1> QED  BY <1>1, <1>3, <1>4, <1>5, <1>6 DEF WriterIInv, WriterTypeOK

(* One frame changes its place.                                            *)
LEMMA PutCounts ==
  ASSUME WriterIInv, NEW f \in Frames, NEW p \in Places, Put(f, p),
         queuedFrames' = queuedFrames + (IF p \in Backlog THEN 1 ELSE 0)
                                      - (IF place[f] \in Backlog THEN 1 ELSE 0)
  PROVE  /\ queuedFrames' = Cardinality(Waiting')
         /\ place' \in [Frames -> Places] /\ place'[f] = p
         /\ \A g \in Frames \ {f} : place'[g] = place[g]
<1>1. /\ place' \in [Frames -> Places] /\ place'[f] = p
      /\ \A g \in Frames \ {f} : place'[g] = place[g]
  BY DEF Put, WriterIInv, WriterTypeOK
<1>2. queuedFrames = Cardinality(Waiting)  BY WaitingFinite DEF WriterIInv
<1>3. CASE p \in Backlog /\ place[f] \notin Backlog
  <2>1. Waiting' = Waiting \cup {f} /\ f \notin Waiting  BY <1>1, <1>3 DEF Waiting
  <2>2. Cardinality(Waiting \cup {f}) = Cardinality(Waiting) + 1
    BY <2>1, WaitingFinite, FS_AddElement
  <2> QED  BY <1>1, <1>2, <1>3, <2>1, <2>2, WaitingFinite
<1>4. CASE p \notin Backlog /\ place[f] \in Backlog
  <2>1. Waiting' = Waiting \ {f} /\ f \in Waiting  BY <1>1, <1>4 DEF Waiting
  <2>2. Cardinality(Waiting \ {f}) = Cardinality(Waiting) - 1
    BY <2>1, WaitingFinite, FS_RemoveElement
  <2> QED  BY <1>1, <1>2, <1>4, <2>1, <2>2, WaitingFinite
<1>5. CASE p \in Backlog <=> place[f] \in Backlog
  <2>1. Waiting' = Waiting  BY <1>1, <1>5 DEF Waiting
  <2> QED  BY <1>1, <1>2, <1>5, <2>1, WaitingFinite
<1> QED  BY <1>3, <1>4, <1>5

LEMMA TailKept ==
  ASSUME NEW s \in Seq(Frames), s # <<>>, Distinct(s)
  PROVE  /\ Head(s) \in Frames /\ Head(s) = s[1] /\ Len(s) \in Nat \ {0}
         /\ Tail(s) \in Seq(Frames) /\ Len(Tail(s)) = Len(s) - 1 /\ Distinct(Tail(s))
         /\ \A i \in 1..Len(Tail(s)) :
              i + 1 \in 1..Len(s) /\ Tail(s)[i] = s[i + 1] /\ Tail(s)[i] # Head(s)
              /\ Tail(s)[i] \in Frames
<1>1. /\ Head(s) \in Frames /\ Head(s) = s[1] /\ Len(s) \in Nat \ {0}
      /\ Tail(s) \in Seq(Frames) /\ Len(Tail(s)) = Len(s) - 1
      /\ \A i \in 1..Len(Tail(s)) : i + 1 \in 1..Len(s) /\ Tail(s)[i] = s[i + 1]
      /\ 1 \in 1..Len(s)
  OBVIOUS
<1>2. Distinct(Tail(s))  BY <1>1 DEF Distinct
<1>3. \A i \in 1..Len(Tail(s)) : Tail(s)[i] # Head(s) /\ Tail(s)[i] \in Frames
  BY <1>1 DEF Distinct
<1> QED  BY <1>1, <1>2, <1>3

LEMMA AppendKept ==
  ASSUME NEW s \in Seq(Frames), Distinct(s), NEW f \in Frames, \A i \in 1..Len(s) : s[i] # f
  PROVE  /\ Append(s, f) \in Seq(Frames) /\ Len(Append(s, f)) = Len(s) + 1 /\ Len(s) \in Nat
         /\ Distinct(Append(s, f))
         /\ \A i \in 1..Len(s) + 1 : Append(s, f)[i] = IF i = Len(s) + 1 THEN f ELSE s[i]
         /\ \A i \in 1..Len(s) : s[i] \in Frames
<1>1. /\ Append(s, f) \in Seq(Frames) /\ Len(Append(s, f)) = Len(s) + 1 /\ Len(s) \in Nat
      /\ \A i \in 1..Len(s) + 1 : Append(s, f)[i] = IF i = Len(s) + 1 THEN f ELSE s[i]
      /\ \A i \in 1..Len(s) : s[i] \in Frames
  OBVIOUS
<1>2. Distinct(Append(s, f))  BY <1>1 DEF Distinct
<1> QED  BY <1>1, <1>2

LEMMA ConcatKept ==
  ASSUME NEW s \in Seq(Frames), NEW t \in Seq(Frames), Distinct(s), Distinct(t),
         \A i \in 1..Len(s), j \in 1..Len(t) : s[i] # t[j]
  PROVE  /\ s \o t \in Seq(Frames) /\ Len(s \o t) = Len(s) + Len(t) /\ Distinct(s \o t)
         /\ \A i \in 1..Len(s) + Len(t) :
              (s \o t)[i] = IF i <= Len(s) THEN s[i] ELSE t[i - Len(s)]
<1>1. /\ s \o t \in Seq(Frames) /\ Len(s \o t) = Len(s) + Len(t)
      /\ \A i \in 1..Len(s) + Len(t) : (s \o t)[i] = IF i <= Len(s) THEN s[i] ELSE t[i - Len(s)]
      /\ Len(s) \in Nat /\ Len(t) \in Nat
  OBVIOUS
<1>2. Distinct(s \o t)  BY <1>1 DEF Distinct
<1> QED  BY <1>1, <1>2


(* Who puts frames in.                                                     *)
LEMMA WriteKeeps == ASSUME WriterIInv, NEW f \in Frames, Write(f)  PROVE WriterIInv'
<1> USE DEF WriterIInv
<1>0. place[f] \in Places /\ queuedFrames \in Int
  BY WaitingFinite DEF WriterTypeOK
<1>1. ASSUME NEW p \in Places, Put(f, p), place[f] \in {"caller", "marked", "blocked"},
             queuedFrames' = queuedFrames + (IF p \in Backlog THEN 1 ELSE 0)
                                          - (IF place[f] \in Backlog THEN 1 ELSE 0),
             UNCHANGED <<queue, controlQueue, batch, held, wcloser, wclosed, loop>>
      PROVE  WriterIInv'
  <2>1. /\ queuedFrames' = Cardinality(Waiting') /\ place' \in [Frames -> Places]
        /\ \A g \in Frames \ {f} : place'[g] = place[g]
    BY <1>1, PutCounts
  <2>2. WriterTypeOK'  BY <1>1, <2>1 DEF WriterTypeOK
  <2>3. Kept'
    <3>1. \A s \in {queue, controlQueue, batch} : \A i \in 1..Len(s) : s[i] \in Frames
      BY DEF WriterTypeOK
    <3>2. \A s \in {queue, controlQueue, batch} : \A i \in 1..Len(s) : place'[s[i]] = place[s[i]]
      BY <1>1, <2>1, <3>1 DEF Kept, Lies
    <3>3. held # None => place'[held] = place[held]
      BY <1>1, <2>1 DEF Kept, WriterTypeOK
    <3> QED  BY <1>1, <3>2, <3>3 DEF Kept, Lies
  <2> QED  BY <2>1, <2>2, <2>3, BacklogNext
<1>2. CASE Mark(f)
  BY <1>0, <1>1, <1>2 DEF Mark, Places, Backlog
<1>3. CASE Block(f)
  BY <1>0, <1>1, <1>3 DEF Block, Places, Backlog
<1>4. CASE GiveUp(f)
  BY <1>0, <1>1, <1>4 DEF GiveUp, Places, Backlog
<1>5. CASE Enqueue(f)
  <2>1. /\ place[f] \in {"marked", "blocked"} /\ ~Full(f) /\ Put(f, "queued")
        /\ UNCHANGED <<batch, held, queuedFrames, wcloser, wclosed, loop>>
        /\ IF IsControl(f) THEN controlQueue' = Append(controlQueue, f) /\ UNCHANGED <<queue, accepted>>
           ELSE queue' = Append(queue, f) /\ accepted' = Append(accepted, f) /\ UNCHANGED controlQueue
    BY <1>5 DEF Enqueue
  <2>2. /\ queuedFrames' = Cardinality(Waiting') /\ place' \in [Frames -> Places]
        /\ place'[f] = "queued" /\ \A g \in Frames \ {f} : place'[g] = place[g]
    BY <1>0, <2>1, PutCounts DEF Places, Backlog
  <2>3. \A s \in {queue, controlQueue, batch} :
          \A i \in 1..Len(s) : s[i] \in Frames /\ s[i] # f /\ place'[s[i]] = place[s[i]]
    BY <2>1, <2>2 DEF Kept, Lies, WriterTypeOK
  <2>4. held # None => place'[held] = place[held]
    BY <2>1, <2>2 DEF Kept, WriterTypeOK
  <2>5. CASE IsControl(f)
    <3>1. controlQueue \in Seq(Frames) /\ Distinct(controlQueue)  BY DEF WriterTypeOK, Kept
    <3>2. /\ controlQueue' \in Seq(Frames) /\ Len(controlQueue') = Len(controlQueue) + 1
          /\ Distinct(controlQueue')
          /\ \A i \in 1..Len(controlQueue') :
               controlQueue'[i] = IF i = Len(controlQueue) + 1 THEN f ELSE controlQueue[i]
          /\ \A i \in 1..Len(controlQueue') : i = Len(controlQueue) + 1 \/ i \in 1..Len(controlQueue)
      <4>1. controlQueue' = Append(controlQueue, f) /\ \A i \in 1..Len(controlQueue) : controlQueue[i] # f
        BY <2>1, <2>3, <2>5
      <4> QED  BY <3>1, <4>1, AppendKept
    <3>3. Len(controlQueue') <= ControlSize
      BY <2>1, <2>5, <3>1, <3>2, WriterAssumption DEF Full, WriterTypeOK
    <3>4. WriterTypeOK'  BY <2>1, <2>2, <2>5, <3>2, <3>3 DEF WriterTypeOK
    <3>5. Kept'
      BY SMTT(30), <2>1, <2>2, <2>3, <2>4, <2>5, <3>2 DEF Kept, Lies, IsControl
    <3> QED  BY <2>2, <3>4, <3>5, BacklogNext
  <2>6. CASE ~IsControl(f)
    <3>1. queue \in Seq(Frames) /\ Distinct(queue)  BY DEF WriterTypeOK, Kept
    <3>2. /\ queue' \in Seq(Frames) /\ Len(queue') = Len(queue) + 1
          /\ Distinct(queue')
          /\ \A i \in 1..Len(queue') : queue'[i] = IF i = Len(queue) + 1 THEN f ELSE queue[i]
          /\ \A i \in 1..Len(queue') : i = Len(queue) + 1 \/ i \in 1..Len(queue)
      <4>1. queue' = Append(queue, f) /\ \A i \in 1..Len(queue) : queue[i] # f
        BY <2>1, <2>3, <2>6
      <4> QED  BY <3>1, <4>1, AppendKept
    <3>3. Len(queue') <= QueueSize
      BY <2>1, <2>6, <3>1, <3>2, WriterAssumption DEF Full, WriterTypeOK
    <3>4. WriterTypeOK'  BY <2>1, <2>2, <2>6, <3>2, <3>3 DEF WriterTypeOK
    <3>5. Kept'
      BY SMTT(30), <2>1, <2>2, <2>3, <2>4, <2>6, <3>2 DEF Kept, Lies, IsControl
    <3> QED  BY <2>2, <3>4, <3>5, BacklogNext
  <2> QED  BY <2>5, <2>6
<1> QED  BY <1>2, <1>3, <1>4, <1>5 DEF Write


(* The loop takes a frame.                                                 *)
LEMMA TakeKeeps == ASSUME WriterIInv, TakeControl \/ TakeData \/ DrainQueues  PROVE WriterIInv'
<1> USE DEF WriterIInv
<1>1. ASSUME NEW s, s = queue \/ s = controlQueue, s # <<>>, NEW p \in {"held", "discarded"},
             Put(Head(s), p),
             p = "held" => held = None /\ held' = Head(s) /\ UNCHANGED queuedFrames,
             p = "discarded" => UNCHANGED held /\ queuedFrames' = queuedFrames - 1,
             \/ s = queue /\ queue' = Tail(queue) /\ UNCHANGED controlQueue
             \/ s = controlQueue /\ controlQueue' = Tail(controlQueue) /\ UNCHANGED queue,
             UNCHANGED <<batch, wcloser, wclosed, loop>>
      PROVE  WriterIInv'
  <2>1. s \in Seq(Frames) /\ Distinct(s) /\ Lies(s, "queued")
    BY <1>1 DEF WriterTypeOK, Kept
  <2> DEFINE f == Head(s)
  <2>2. /\ f \in Frames /\ f = s[1] /\ Len(s) \in Nat \ {0} /\ Tail(s) \in Seq(Frames)
        /\ Len(Tail(s)) = Len(s) - 1 /\ Distinct(Tail(s))
        /\ \A i \in 1..Len(Tail(s)) : i + 1 \in 1..Len(s) /\ Tail(s)[i] = s[i + 1] /\ Tail(s)[i] # f
    BY <1>1, <2>1, TailKept
  <2>3. place[f] = "queued"  BY <2>1, <2>2 DEF Lies
  <2>4. queuedFrames \in Int  BY WaitingFinite
  <2>5. /\ queuedFrames' = Cardinality(Waiting') /\ place' \in [Frames -> Places]
        /\ place'[f] = p /\ \A g \in Frames \ {f} : place'[g] = place[g]
    BY <1>1, <2>2, <2>3, <2>4, PutCounts DEF Places, Backlog
  <2> HIDE DEF f
  <2>6. \A i \in 1..Len(batch) : place'[batch[i]] = "batch"
    BY <2>2, <2>3, <2>5 DEF Kept, Lies, WriterTypeOK
  <2>7. held' # None => place'[held'] = "held"
    BY <1>1, <2>2, <2>3, <2>5 DEF Kept, WriterTypeOK, f
  <2>8. Distinct(batch') /\ Lies(batch, "batch")'  BY <1>1, <2>6 DEF Kept, Lies
  <2>9. CASE s = queue /\ queue' = Tail(queue) /\ UNCHANGED controlQueue
    <3>1. \A i \in 1..Len(controlQueue) : controlQueue[i] \in Frames /\ controlQueue[i] # f
      BY <2>1, <2>2, <2>9 DEF Kept, WriterTypeOK
    <3>2. /\ Distinct(controlQueue') /\ Lies(controlQueue, "queued")'
          /\ \A i \in 1..Len(controlQueue') : IsControl(controlQueue'[i])
      BY <2>5, <2>9, <3>1 DEF Kept, Lies
    <3>3. Distinct(queue')  BY <2>2, <2>9
    <3>4. Lies(queue, "queued")' /\ \A i \in 1..Len(queue') : ~IsControl(queue'[i])
      BY <2>1, <2>2, <2>5, <2>9 DEF Kept, Lies, WriterTypeOK
    <3>5. WriterTypeOK'
      BY <1>1, <2>2, <2>5, <2>9, WriterAssumption DEF WriterTypeOK, f
    <3> QED  BY <2>5, <2>7, <2>8, <3>2, <3>3, <3>4, <3>5, BacklogNext DEF Kept, IsControl
  <2>10. CASE s = controlQueue /\ controlQueue' = Tail(controlQueue) /\ UNCHANGED queue
    <3>1. \A i \in 1..Len(queue) : queue[i] \in Frames /\ queue[i] # f
      BY <2>1, <2>2, <2>10 DEF Kept, WriterTypeOK
    <3>2. /\ Distinct(queue') /\ Lies(queue, "queued")'
          /\ \A i \in 1..Len(queue') : ~IsControl(queue'[i])
      BY <2>5, <2>10, <3>1 DEF Kept, Lies
    <3>3. Distinct(controlQueue')  BY <2>2, <2>10
    <3>4. Lies(controlQueue, "queued")' /\ \A i \in 1..Len(controlQueue') : IsControl(controlQueue'[i])
      BY <2>1, <2>2, <2>5, <2>10 DEF Kept, Lies, WriterTypeOK
    <3>5. WriterTypeOK'
      BY <1>1, <2>2, <2>5, <2>10, WriterAssumption DEF WriterTypeOK, f
    <3> QED  BY <2>5, <2>7, <2>8, <3>2, <3>3, <3>4, <3>5, BacklogNext DEF Kept, IsControl
  <2> QED  BY <1>1, <2>9, <2>10
<1>2. CASE TakeControl  BY <1>1, <1>2 DEF TakeControl
<1>3. CASE TakeData  BY <1>1, <1>3 DEF TakeData
<1>4. CASE DrainQueues  BY <1>1, <1>4 DEF DrainQueues, Discard
<1> QED  BY <1>2, <1>3, <1>4


(* Some of what is kept is written out, and nothing of it stays.           *)
LEMMA WriteOutKeeps ==
  ASSUME WriterIInv, NEW s \in Seq(Frames), Distinct(s), WriteOut(s),
         \A i \in 1..Len(s) : place[s[i]] \in Backlog,
         queue' = <<>> \/ (queue' = queue /\ \A i \in 1..Len(queue) : queue[i] \notin Elements(s)),
         batch' = <<>> \/ (batch' = batch /\ \A i \in 1..Len(batch) : batch[i] \notin Elements(s)),
         controlQueue' = controlQueue,
         \A i \in 1..Len(controlQueue) : controlQueue[i] \notin Elements(s),
         held' = None \/ (held' = held /\ held \notin Elements(s)),
         wcloser' = wcloser, loop' \in {"top", "select", "ended"}
  PROVE  WriterIInv'
<1> USE DEF WriterIInv
<1>1. /\ queuedFrames' = Cardinality(Waiting')
      /\ place' \in [Frames -> Places] /\ wclosed' \in BOOLEAN
      /\ \A f \in Frames : f \notin Elements(s) => place'[f] = place[f]
  BY WriteOutCounts
<1>2. <<>> \in Seq(Frames) /\ Len(<<>>) = 0 /\ Distinct(<<>>)  BY DEF Distinct
<1>3. WriterTypeOK'
  <2>1. controlQueue' \in Seq(Frames) /\ Len(controlQueue') <= ControlSize
    BY DEF WriterTypeOK
  <2>2. queue' \in Seq(Frames) /\ Len(queue') <= QueueSize
    <3>1. CASE queue' = <<>>
      <4>1. Len(queue') = 0 /\ queue' \in Seq(Frames)  BY <3>1
      <4> QED  BY <4>1, WriterAssumption
    <3>2. CASE queue' = queue  BY <3>2 DEF WriterTypeOK
    <3> QED  BY <3>1, <3>2
  <2>4. batch' \in Seq(Frames) /\ Len(batch') < MaxBatch
    <3>1. CASE batch' = <<>>
      <4>1. Len(batch') = 0 /\ batch' \in Seq(Frames)  BY <3>1
      <4> QED  BY <4>1, WriterAssumption
    <3>2. CASE batch' = batch  BY <3>2 DEF WriterTypeOK
    <3> QED  BY <3>1, <3>2
  <2>3. held' \in Frames \cup {None} /\ wcloser' \in {"no", "draining", "done", "late"}
    BY DEF WriterTypeOK
  <2> QED  BY <1>1, <2>1, <2>2, <2>3, <2>4 DEF WriterTypeOK
<1>4. \A q \in {queue, controlQueue, batch} : \A i \in 1..Len(q) : q[i] \in Frames
  BY DEF WriterTypeOK
<1>5. Distinct(queue') /\ Distinct(controlQueue') /\ Distinct(batch')
  BY <1>2 DEF Kept
<1>6. Lies(queue, "queued")' /\ \A i \in 1..Len(queue') : ~IsControl(queue'[i])
  BY <1>1, <1>2, <1>4 DEF Kept, Lies
<1>7. Lies(controlQueue, "queued")' /\ \A i \in 1..Len(controlQueue') : IsControl(controlQueue'[i])
  BY <1>1, <1>2, <1>4 DEF Kept, Lies
<1>8. Lies(batch, "batch")'  BY <1>1, <1>2, <1>4 DEF Kept, Lies
<1>9. held' # None => place'[held'] = "held"  BY <1>1 DEF Kept, WriterTypeOK
<1> QED  BY <1>1, <1>3, <1>5, <1>6, <1>7, <1>8, <1>9, BacklogNext DEF Kept, IsControl

LEMMA HandleFrameKeeps == ASSUME WriterIInv, HandleFrame  PROVE WriterIInv'
<1> USE DEF WriterIInv
<1>1. /\ held \in Frames /\ place[held] = "held" /\ held' = None /\ loop' = "top"
      /\ UNCHANGED <<queue, controlQueue, wcloser>>
  BY DEF HandleFrame, WriterTypeOK, Kept
<1>2. /\ batch \in Seq(Frames) /\ Distinct(batch)
      /\ \A i \in 1..Len(batch) : batch[i] # held /\ batch[i] \in Frames
      /\ \A i \in 1..Len(batch) : place[batch[i]] = "batch"
  BY <1>1 DEF WriterTypeOK, Kept, Lies
<1>3. \A i \in 1..Len(queue) : place[queue[i]] = "queued" /\ queue[i] \in Frames
  BY DEF Kept, Lies, WriterTypeOK
<1>4. \A i \in 1..Len(controlQueue) : place[controlQueue[i]] = "queued" /\ controlQueue[i] \in Frames
  BY DEF Kept, Lies, WriterTypeOK
<1>5. CASE WriteOut(<<held>>) /\ UNCHANGED batch
  <2>1. <<held>> \in Seq(Frames) /\ Distinct(<<held>>) /\ Elements(<<held>>) = {held}
    BY <1>1 DEF Distinct, Elements
  <2>2. \A i \in 1..Len(<<held>>) : place[<<held>>[i]] \in Backlog  BY <1>1 DEF Backlog
  <2> QED  BY <1>1, <1>2, <1>3, <1>4, <1>5, <2>1, <2>2, WriteOutKeeps
<1>6. CASE WriteOut(Append(batch, held)) /\ batch' = <<>>
  <2> DEFINE s == Append(batch, held)
  <2>1. /\ s \in Seq(Frames) /\ Distinct(s) /\ Len(s) = Len(batch) + 1 /\ Len(batch) \in Nat
        /\ \A i \in 1..Len(batch) + 1 : s[i] = IF i = Len(batch) + 1 THEN held ELSE batch[i]
    BY <1>1, <1>2, AppendKept
  <2> HIDE DEF s
  <2>2. \A i \in 1..Len(s) : place[s[i]] \in {"batch", "held"}
    <3>1. \A i \in 1..Len(s) : i = Len(batch) + 1 \/ i \in 1..Len(batch)  BY <2>1
    <3> QED  BY <1>1, <1>2, <2>1, <3>1
  <2>3. \A f \in Elements(s) : place[f] \in {"batch", "held"}  BY <2>1, <2>2, ElementsOf
  <2>4. WriteOut(s)  BY <1>6 DEF s
  <2>5. \A i \in 1..Len(s) : place[s[i]] \in Backlog  BY <2>2 DEF Backlog
  <2> QED  BY <1>1, <1>3, <1>4, <1>6, <2>1, <2>3, <2>4, <2>5, WriteOutKeeps
<1>7. CASE /\ ~IsControl(held) /\ ~(Len(batch) + 1 >= MaxBatch)
           /\ batch' = Append(batch, held) /\ Put(held, "batch")
           /\ UNCHANGED <<wire, wclosed, queuedFrames>>
  <2>1. queuedFrames \in Int  BY WaitingFinite
  <2>2. /\ queuedFrames' = Cardinality(Waiting') /\ place' \in [Frames -> Places]
        /\ place'[held] = "batch" /\ \A g \in Frames \ {held} : place'[g] = place[g]
    BY <1>1, <1>7, <2>1, PutCounts DEF Places, Backlog
  <2>3. /\ batch' \in Seq(Frames) /\ Len(batch') = Len(batch) + 1 /\ Len(batch) \in Nat
        /\ Distinct(batch')
        /\ \A i \in 1..Len(batch) + 1 : batch'[i] = IF i = Len(batch) + 1 THEN held ELSE batch[i]
    BY <1>1, <1>2, <1>7, AppendKept
  <2>4. WriterTypeOK'
    BY <1>1, <1>7, <2>2, <2>3, WriterAssumption DEF WriterTypeOK
  <2>5. Lies(batch, "batch")'
    <3>1. \A i \in 1..Len(batch') : i = Len(batch) + 1 \/ i \in 1..Len(batch)  BY <2>3
    <3> QED  BY <1>2, <2>2, <2>3, <3>1 DEF Lies
  <2>6. Lies(queue, "queued")' /\ Lies(controlQueue, "queued")'
    BY <1>1, <1>3, <1>4, <2>2 DEF Lies
  <2> QED  BY <1>1, <2>2, <2>3, <2>4, <2>5, <2>6, BacklogNext DEF Kept, IsControl
<1> QED  BY <1>5, <1>6, <1>7 DEF HandleFrame

LEMMA FlushKeeps == ASSUME WriterIInv, BatchTick \/ LoopEnds \/ Flush  PROVE WriterIInv'
<1> USE DEF WriterIInv
<1>1. batch \in Seq(Frames) /\ queue \in Seq(Frames) /\ Distinct(batch) /\ Distinct(queue)
      /\ controlQueue' = controlQueue /\ held' = held /\ wcloser' = wcloser
      /\ loop' \in {"top", "select", "ended"} /\ batch' = <<>>
  BY DEF WriterTypeOK, Kept, BatchTick, LoopEnds, Flush, FlushBatch
<1>2. \A i \in 1..Len(batch) : place[batch[i]] = "batch" /\ batch[i] \in Frames
  BY DEF Kept, Lies, WriterTypeOK
<1>3. \A i \in 1..Len(queue) : place[queue[i]] = "queued" /\ ~IsControl(queue[i]) /\ queue[i] \in Frames
  BY DEF Kept, Lies, WriterTypeOK
<1>4. \A i \in 1..Len(controlQueue) :
        /\ place[controlQueue[i]] = "queued" /\ IsControl(controlQueue[i])
        /\ controlQueue[i] \in Frames
  BY DEF Kept, Lies, WriterTypeOK
<1>5. held # None => place[held] = "held"  BY DEF Kept
<1>6. CASE BatchTick \/ LoopEnds
  <2>1. WriteOut(batch) /\ UNCHANGED queue  BY <1>6 DEF BatchTick, LoopEnds, FlushBatch
  <2>2. \A f \in Elements(batch) : place[f] = "batch"  BY <1>1, <1>2, ElementsOf
  <2>3. \A i \in 1..Len(batch) : place[batch[i]] \in Backlog  BY <1>2 DEF Backlog
  <2> QED  BY <1>1, <1>3, <1>4, <1>5, <2>1, <2>2, <2>3, WriteOutKeeps
<1>7. CASE Flush
  <2> DEFINE s == batch \o queue
  <2>0. \A i \in 1..Len(batch), j \in 1..Len(queue) : batch[i] # queue[j]  BY <1>2, <1>3
  <2>1. /\ s \in Seq(Frames) /\ Len(s) = Len(batch) + Len(queue) /\ Distinct(s)
        /\ \A i \in 1..Len(batch) + Len(queue) :
             s[i] = IF i <= Len(batch) THEN batch[i] ELSE queue[i - Len(batch)]
    BY <1>1, <2>0, ConcatKept
  <2>2. WriteOut(s) /\ queue' = <<>>  BY <1>7 DEF Flush
  <2> HIDE DEF s
  <2>3. \A i \in 1..Len(s) : (\E j \in 1..Len(batch) : s[i] = batch[j])
                              \/ (\E j \in 1..Len(queue) : s[i] = queue[j])
    <3>1. ASSUME NEW i \in 1..Len(s)
          PROVE  i \in 1..Len(batch) \/ (i > Len(batch) /\ i - Len(batch) \in 1..Len(queue))
      BY <1>1, <2>1
    <3> QED  BY <1>1, <2>1, <3>1
  <2>4. \A i \in 1..Len(s) : place[s[i]] = "batch" \/ (place[s[i]] = "queued" /\ ~IsControl(s[i]))
    BY <1>2, <1>3, <2>3
  <2>5. \A f \in Elements(s) : place[f] = "batch" \/ (place[f] = "queued" /\ ~IsControl(f))
    BY <2>1, <2>4, ElementsOf
  <2>6. \A i \in 1..Len(s) : place[s[i]] \in Backlog  BY <2>4 DEF Backlog
  <2> QED  BY <1>1, <1>4, <1>5, <2>1, <2>2, <2>5, <2>6, WriteOutKeeps
<1> QED  BY <1>6, <1>7

LEMMA WriterStepKeeps == WriterIInv /\ [WriterNext]_writerVars => WriterIInv'
<1> SUFFICES ASSUME WriterIInv, [WriterNext]_writerVars  PROVE WriterIInv'  OBVIOUS
<1>1. CASE Select \/ HeartbeatTick \/ CloseWriter \/ CloseDone \/ UNCHANGED writerVars
  <2>1. /\ UNCHANGED <<place, queue, controlQueue, batch, held, queuedFrames>>
        /\ wclosed' \in BOOLEAN /\ loop' \in {"top", "select", "ended"}
        /\ wcloser' \in {"no", "draining", "done", "late"}
    BY <1>1 DEF Select, HeartbeatTick, CloseWriter, CloseDone, writerVars, WriterIInv, WriterTypeOK
  <2> QED  BY <2>1 DEF WriterIInv, WriterTypeOK, Kept, Lies, Distinct, BacklogExact
<1> QED
  BY <1>1, WriteKeeps, TakeKeeps, HandleFrameKeeps, FlushKeeps DEF WriterNext, WriteLoop

(* The argument: a frame is kept once, and where its place says, so that   *)
(* what a step releases is exactly what it took out of the backlog.        *)
THEOREM WriterInductive == WriterSpec => []WriterIInv
<1>1. ASSUME WriterInit  PROVE WriterIInv
  <2>1. <<>> \in Seq(Frames) /\ Len(<<>>) = 0  OBVIOUS
  <2>2. WriterTypeOK
    <3>1. place \in [Frames -> Places] /\ held \in Frames \cup {None}
      BY <1>1 DEF WriterInit, Places
    <3>2. <<>> \in Seq(Frames) /\ 0 <= QueueSize /\ 0 <= ControlSize /\ 0 < MaxBatch
      BY <2>1, WriterAssumption
    <3> QED  BY <1>1, <2>1, <3>1, <3>2 DEF WriterInit, WriterTypeOK
  <2>3. Kept  BY <1>1, <2>1 DEF WriterInit, Kept, Distinct, Lies
  <2>4. Waiting = {}  BY <1>1 DEF WriterInit, Waiting, Backlog
  <2>5. BacklogExact  BY <1>1, <2>4, FS_EmptySet, WaitingFinite DEF WriterInit
  <2> QED  BY <2>2, <2>3, <2>5 DEF WriterIInv
<1> QED  BY <1>1, WriterStepKeeps, PTL DEF WriterSpec

(* The queues and the batch keep within their limits.                      *)
THEOREM WriterTypeCorrect == WriterSpec => []WriterTypeOK
BY WriterInductive, PTL DEF WriterIInv

(* The backlog counter is exact, however the frames end.                   *)
THEOREM BacklogExactCorrect == WriterSpec => []BacklogExact
BY WriterInductive, PTL DEF WriterIInv

(* What is on the wire was put there once, and has been written or failed. *)
Once == wire \in Seq(Frames) /\ Distinct(wire)
        /\ \A i \in 1..Len(wire) : place[wire[i]] \in {"written", "failed"}

LEMMA WriteOutOnce ==
  ASSUME Once, NEW s \in Seq(Frames), Distinct(s), WriteOut(s),
         \A i \in 1..Len(s) : place[s[i]] \in Backlog
  PROVE  Once'
<1>1. /\ wire' = wire \o s
      /\ \A f \in Frames : IF f \in Elements(s) THEN place'[f] \in {"written", "failed"}
                           ELSE place'[f] = place[f]
  BY DEF WriteOut
<1>2. \A i \in 1..Len(wire), j \in 1..Len(s) : wire[i] # s[j]  BY DEF Once, Backlog
<1>3. /\ wire' \in Seq(Frames) /\ Len(wire') = Len(wire) + Len(s) /\ Distinct(wire')
      /\ \A i \in 1..Len(wire) + Len(s) :
           wire'[i] = IF i <= Len(wire) THEN wire[i] ELSE s[i - Len(wire)]
      /\ Len(wire) \in Nat /\ Len(s) \in Nat
  BY <1>1, <1>2, ConcatKept DEF Once
<1>4. ASSUME NEW i \in 1..Len(wire')  PROVE place'[wire'[i]] \in {"written", "failed"}
  <2>1. CASE i <= Len(wire)
    <3>1. i \in 1..Len(wire) /\ wire'[i] = wire[i]  BY <1>3, <2>1
    <3>2. wire[i] \in Frames /\ place[wire[i]] \in {"written", "failed"}  BY <3>1 DEF Once
    <3> QED  BY <1>1, <3>1, <3>2
  <2>2. CASE i > Len(wire)
    <3>1. i - Len(wire) \in 1..Len(s) /\ wire'[i] = s[i - Len(wire)]  BY <1>3, <2>2
    <3>2. s[i - Len(wire)] \in Frames /\ s[i - Len(wire)] \in Elements(s)  BY <3>1, ElementsOf
    <3> QED  BY <1>1, <3>1, <3>2
  <2> QED  BY <1>3, <2>1, <2>2
<1> QED  BY <1>3, <1>4 DEF Once, Distinct

(* What is written out next is queued, held or in the batch, each once.    *)
LEMMA OnceStep == ASSUME WriterIInv, Once, [WriterNext]_writerVars  PROVE Once'
<1> USE DEF WriterIInv
<1>1. /\ batch \in Seq(Frames) /\ Distinct(batch) /\ queue \in Seq(Frames) /\ Distinct(queue)
      /\ \A i \in 1..Len(batch) : place[batch[i]] = "batch"
      /\ \A i \in 1..Len(queue) : place[queue[i]] = "queued"
      /\ held # None => held \in Frames /\ place[held] = "held"
  BY DEF WriterTypeOK, Kept, Lies
<1>2. ASSUME NEW f \in Frames, NEW p \in Places, Put(f, p), place[f] \notin {"written", "failed"},
             wire' = wire
      PROVE  Once'
  <2>1. \A i \in 1..Len(wire) : wire[i] \in Frames /\ wire[i] # f  BY <1>2 DEF Once
  <2>2. \A g \in Frames \ {f} : place'[g] = place[g]  BY <1>2 DEF Put, WriterTypeOK
  <2> QED  BY <1>2, <2>1, <2>2 DEF Once, Distinct
<1>3. CASE \E f \in Frames : Write(f)
  <2>1. PICK f \in Frames : Write(f)  BY <1>3
  <2>2. /\ place[f] \in {"caller", "marked", "blocked"} /\ wire' = wire
        /\ \E p \in Places : Put(f, p)
    BY <2>1 DEF Write, Mark, Enqueue, Block, GiveUp, Places
  <2> QED  BY <1>2, <2>2
<1>4. CASE TakeControl \/ TakeData \/ DrainQueues
  <2>1. /\ wire' = wire
        /\ \E s \in {queue, controlQueue}, p \in Places : s # <<>> /\ Put(Head(s), p)
    BY <1>4 DEF TakeControl, TakeData, DrainQueues, Discard, Places
  <2>2. \A s \in {queue, controlQueue} : s # <<>> => Head(s) \in Frames /\ place[Head(s)] = "queued"
    <3>1. \A s \in {queue, controlQueue} : s \in Seq(Frames) /\ Distinct(s) /\ Lies(s, "queued")
      BY DEF WriterTypeOK, Kept
    <3>2. ASSUME NEW s \in {queue, controlQueue}, s # <<>>
          PROVE  Head(s) \in Frames /\ place[Head(s)] = "queued"
      <4>1. Head(s) \in Frames /\ Head(s) = s[1] /\ Len(s) \in Nat \ {0}
        BY <3>1, <3>2, TailKept
      <4> QED  BY <3>1, <4>1 DEF Lies
    <3> QED  BY <3>2
  <2> QED  BY <1>2, <2>1, <2>2
<1>5. CASE HandleFrame
  <2>1. held \in Frames /\ place[held] = "held"  BY <1>1, <1>5 DEF HandleFrame
  <2>2. \A i \in 1..Len(batch) : batch[i] # held  BY <1>1, <2>1
  <2>3. CASE WriteOut(<<held>>)
    <3>1. <<held>> \in Seq(Frames) /\ Distinct(<<held>>) /\ Len(<<held>>) = 1 /\ <<held>>[1] = held
      BY <2>1 DEF Distinct
    <3>2. \A i \in 1..Len(<<held>>) : place[<<held>>[i]] \in Backlog  BY <2>1, <3>1 DEF Backlog
    <3> QED  BY <2>3, <3>1, <3>2, WriteOutOnce
  <2>4. CASE WriteOut(Append(batch, held))
    <3> DEFINE s == Append(batch, held)
    <3>1. /\ s \in Seq(Frames) /\ Distinct(s) /\ Len(s) = Len(batch) + 1 /\ Len(batch) \in Nat
          /\ \A i \in 1..Len(batch) + 1 : s[i] = IF i = Len(batch) + 1 THEN held ELSE batch[i]
      BY <1>1, <2>1, <2>2, AppendKept
    <3> HIDE DEF s
    <3>2. \A i \in 1..Len(s) : place[s[i]] \in Backlog
      <4>1. \A i \in 1..Len(s) : i = Len(batch) + 1 \/ i \in 1..Len(batch)  BY <3>1
      <4> QED  BY <1>1, <2>1, <3>1, <4>1 DEF Backlog
    <3>3. WriteOut(s)  BY <2>4 DEF s
    <3> QED  BY <3>1, <3>2, <3>3, WriteOutOnce
  <2>5. CASE Put(held, "batch") /\ wire' = wire
    BY <1>2, <2>1, <2>5 DEF Places
  <2> QED  BY <1>5, <2>3, <2>4, <2>5 DEF HandleFrame
<1>6. CASE BatchTick \/ LoopEnds
  <2>1. WriteOut(batch)  BY <1>6 DEF BatchTick, LoopEnds, FlushBatch
  <2>2. \A i \in 1..Len(batch) : place[batch[i]] \in Backlog  BY <1>1 DEF Backlog
  <2> QED  BY <1>1, <2>1, <2>2, WriteOutOnce
<1>7. CASE Flush
  <2> DEFINE s == batch \o queue
  <2>1. \A i \in 1..Len(batch), j \in 1..Len(queue) : batch[i] # queue[j]  BY <1>1
  <2>2. /\ s \in Seq(Frames) /\ Len(s) = Len(batch) + Len(queue) /\ Distinct(s)
        /\ \A i \in 1..Len(batch) + Len(queue) :
             s[i] = IF i <= Len(batch) THEN batch[i] ELSE queue[i - Len(batch)]
        /\ Len(batch) \in Nat /\ Len(queue) \in Nat
    BY <1>1, <2>1, ConcatKept
  <2>3. WriteOut(s)  BY <1>7 DEF Flush
  <2> HIDE DEF s
  <2>4. ASSUME NEW i \in 1..Len(s)  PROVE place[s[i]] \in Backlog
    <3>1. CASE i <= Len(batch)
      <4>1. i \in 1..Len(batch) /\ s[i] = batch[i]  BY <2>2, <3>1
      <4> QED  BY <1>1, <4>1 DEF Backlog
    <3>2. CASE i > Len(batch)
      <4>1. i - Len(batch) \in 1..Len(queue) /\ s[i] = queue[i - Len(batch)]  BY <2>2, <3>2
      <4> QED  BY <1>1, <4>1 DEF Backlog
    <3> QED  BY <2>2, <3>1, <3>2
  <2> QED  BY <2>2, <2>3, <2>4, WriteOutOnce
<1>8. CASE Select \/ HeartbeatTick \/ CloseWriter \/ CloseDone \/ UNCHANGED writerVars
  <2>1. UNCHANGED <<place, wire>>
    BY <1>8 DEF Select, HeartbeatTick, CloseWriter, CloseDone, writerVars
  <2> QED  BY <2>1 DEF Once, Distinct
<1> QED  BY <1>3, <1>4, <1>5, <1>6, <1>7, <1>8 DEF WriterNext, WriteLoop

(* No frame is given to the connection twice, and what was discarded or    *)
(* refused is never given to it.                                           *)
THEOREM OnceCorrect == WriterSpec => []Once
<1>1. ASSUME WriterInit  PROVE Once
  <2>1. <<>> \in Seq(Frames) /\ Len(<<>>) = 0  OBVIOUS
  <2> QED  BY <1>1, <2>1 DEF WriterInit, Once, Distinct
<1>2. WriterIInv /\ Once /\ [WriterNext]_writerVars => Once'  BY OnceStep
<1> QED  BY <1>1, <1>2, WriterInductive, PTL DEF WriterSpec

----------------------------------------------------------------------------
(* The order of the frames. Those that wait are where their places say, so *)
(* that of two that were accepted one after the other the first is never   *)
(* behind: in the queue and in the batch they keep their order, and the    *)
(* second does not leave the queue while the first is still in it.         *)
InPlace ==
  /\ accepted \in Seq(Frames) /\ Distinct(accepted) /\ wire \in Seq(Frames)
  /\ \A f \in Elements(accepted) :
       /\ ~IsControl(f) /\ place[f] \notin {"caller", "marked", "blocked", "refused"}
       /\ place[f] = "queued" => f \in Elements(queue)
       /\ place[f] = "held" => held = f
       /\ place[f] = "batch" => f \in Elements(batch)
       /\ place[f] \in {"written", "failed"} => f \in Elements(wire)

InTurn ==
  \A f, g \in Elements(accepted) : Before(accepted, f, g) =>
    /\ place[f] = "queued" /\ place[g] = "queued" => Before(queue, f, g)
    /\ place[f] = "batch" /\ place[g] = "batch" => Before(batch, f, g)
    /\ place[g] \in {"held", "batch"} => place[f] # "queued"
    /\ place[g] = "batch" => place[f] # "held"

OrderIInv == WriterIInv /\ InPlace /\ InTurn

(* What NoOvertaking forbids.                                              *)
Overtakes ==
  \E f, g \in Elements(accepted) :
    /\ Before(accepted, f, g) /\ place[g] # "written" /\ place'[g] = "written"
    /\ ~(Before(wire', f, g) \/ place'[f] = "discarded" \/ held = f)

LEMMA AppendOrder ==
  ASSUME NEW s \in Seq(Frames), NEW e \in Frames, e \notin Elements(s)
  PROVE  /\ Append(s, e) \in Seq(Frames) /\ Elements(Append(s, e)) = Elements(s) \cup {e}
         /\ \A f, g : Before(Append(s, e), f, g) <=>
                        Before(s, f, g) \/ (f \in Elements(s) /\ g = e)
<1>1. /\ Append(s, e) \in Seq(Frames) /\ Len(s) \in Nat
      /\ DOMAIN s = 1..Len(s) /\ DOMAIN Append(s, e) = 1..(Len(s) + 1)
      /\ \A i \in 1..Len(s) : Append(s, e)[i] = s[i]
      /\ Append(s, e)[Len(s) + 1] = e
  OBVIOUS
<1> DEFINE t == Append(s, e)
           n == Len(s)
<1> HIDE DEF t, n
<1>2. /\ n \in Nat /\ DOMAIN s = 1..n /\ DOMAIN t = 1..(n + 1)
      /\ \A i \in 1..n : t[i] = s[i] /\ s[i] # e
      /\ t[n + 1] = e
  BY <1>1 DEF t, n, Elements
<1>3. Elements(t) = Elements(s) \cup {e}
  <2>1. \A i \in 1..(n + 1) : i \in 1..n \/ i = n + 1  BY <1>2
  <2>2. n + 1 \in 1..(n + 1) /\ \A i \in 1..n : i \in 1..(n + 1)  BY <1>2
  <2> QED  BY <1>2, <2>1, <2>2 DEF Elements
<1>4. ASSUME NEW f, NEW g, Before(t, f, g)  PROVE Before(s, f, g) \/ (f \in Elements(s) /\ g = e)
  <2>1. PICK i, j \in 1..(n + 1) : i < j /\ t[i] = f /\ t[j] = g  BY <1>2, <1>4 DEF Before
  <2>2. i \in 1..n /\ s[i] = f /\ f \in Elements(s)
    <3>1. i \in 1..n  BY <1>2, <2>1
    <3> QED  BY <1>2, <2>1, <3>1 DEF Elements
  <2>3. CASE j = n + 1  BY <1>2, <2>1, <2>2, <2>3
  <2>4. CASE j # n + 1
    <3>1. j \in 1..n  BY <1>2, <2>1, <2>4
    <3> QED  BY <1>2, <2>1, <2>2, <3>1 DEF Before
  <2> QED  BY <2>3, <2>4
<1>5. ASSUME NEW f, NEW g, Before(s, f, g)  PROVE Before(t, f, g)
  <2>1. \A i \in 1..n : i \in 1..(n + 1)  BY <1>2
  <2> QED  BY <1>2, <1>5, <2>1 DEF Before
<1>6. ASSUME NEW f \in Elements(s)  PROVE Before(t, f, e)
  <2>1. PICK i \in 1..n : s[i] = f  BY <1>2 DEF Elements
  <2>2. i \in 1..(n + 1) /\ n + 1 \in 1..(n + 1) /\ i < n + 1  BY <1>2
  <2> QED  BY <1>2, <2>1, <2>2 DEF Before
<1> QED  BY <1>1, <1>3, <1>4, <1>5, <1>6 DEF t

LEMMA ConcatOrder ==
  ASSUME NEW s \in Seq(Frames), NEW t \in Seq(Frames)
  PROVE  /\ s \o t \in Seq(Frames) /\ Elements(s \o t) = Elements(s) \cup Elements(t)
         /\ \A f, g : Before(s, f, g) \/ Before(t, f, g) \/ (f \in Elements(s) /\ g \in Elements(t))
                        => Before(s \o t, f, g)
<1> DEFINE u == s \o t
           m == Len(s)
           n == Len(t)
<1>1. /\ u \in Seq(Frames) /\ m \in Nat /\ n \in Nat
      /\ DOMAIN s = 1..m /\ DOMAIN t = 1..n /\ DOMAIN u = 1..(m + n)
      /\ \A i \in 1..m : u[i] = s[i]
      /\ \A i \in 1..n : u[m + i] = t[i]
  OBVIOUS
<1> HIDE DEF u, m, n
<1>2. /\ \A i \in 1..m : i \in 1..(m + n)
      /\ \A i \in 1..n : m + i \in 1..(m + n)
      /\ \A i \in 1..(m + n) : i \in 1..m \/ (i - m \in 1..n /\ m + (i - m) = i)
  BY <1>1
<1>3. Elements(u) = Elements(s) \cup Elements(t)
  <2>1. ASSUME NEW i \in 1..(m + n)  PROVE u[i] \in Elements(s) \cup Elements(t)
    <3>1. CASE i \in 1..m  BY <1>1, <3>1 DEF Elements
    <3>2. CASE i - m \in 1..n /\ m + (i - m) = i  BY <1>1, <3>2 DEF Elements
    <3> QED  BY <1>2, <3>1, <3>2
  <2>2. Elements(s) \subseteq Elements(u)  BY <1>1, <1>2 DEF Elements
  <2>3. Elements(t) \subseteq Elements(u)  BY <1>1, <1>2 DEF Elements
  <2>4. Elements(u) \subseteq Elements(s) \cup Elements(t)  BY <1>1, <2>1 DEF Elements
  <2> QED  BY <2>2, <2>3, <2>4
<1>4. ASSUME NEW f, NEW g, Before(s, f, g)  PROVE Before(u, f, g)
  BY <1>1, <1>2, <1>4 DEF Before
<1>5. ASSUME NEW f, NEW g, Before(t, f, g)  PROVE Before(u, f, g)
  <2>1. PICK i, j \in 1..n : i < j /\ t[i] = f /\ t[j] = g  BY <1>1, <1>5 DEF Before
  <2>2. m + i \in 1..(m + n) /\ m + j \in 1..(m + n) /\ m + i < m + j  BY <1>1, <2>1
  <2>3. u[m + i] = f /\ u[m + j] = g  BY <1>1, <2>1
  <2> QED  BY <1>1, <2>2, <2>3 DEF Before
<1>6. ASSUME NEW f \in Elements(s), NEW g \in Elements(t)  PROVE Before(u, f, g)
  <2>1. PICK i \in 1..m : s[i] = f  BY <1>1 DEF Elements
  <2>2. PICK j \in 1..n : t[j] = g  BY <1>1 DEF Elements
  <2>3. i \in 1..(m + n) /\ m + j \in 1..(m + n) /\ i < m + j  BY <1>1
  <2>4. u[i] = f /\ u[m + j] = g  BY <1>1, <2>1, <2>2
  <2> QED  BY <1>1, <2>3, <2>4 DEF Before
<1>7. s \o t = u  BY DEF u
<1> QED  BY <1>1, <1>3, <1>4, <1>5, <1>6, <1>7

(* What is at the head is before nothing that goes, and the rest keeps its *)
(* order.                                                                  *)
LEMMA TailOrder ==
  ASSUME NEW s \in Seq(Frames), s # <<>>, Distinct(s)
  PROVE  /\ Head(s) \in Elements(s) /\ Elements(s) = Elements(Tail(s)) \cup {Head(s)}
         /\ \A f : ~Before(s, f, Head(s))
         /\ \A f, g : Before(s, f, g) /\ f # Head(s) => Before(Tail(s), f, g)
<1> DEFINE t == Tail(s)
           n == Len(s)
<1>1. /\ Head(s) = s[1] /\ n \in Nat \ {0} /\ DOMAIN s = 1..n /\ DOMAIN t = 1..(n - 1)
      /\ \A i \in 1..(n - 1) : t[i] = s[i + 1]
  OBVIOUS
<1>2. \A i, j \in 1..n : s[i] = s[j] => i = j  BY DEF Distinct
<1> HIDE DEF t, n
<1>3. /\ 1 \in 1..n /\ \A i \in 1..(n - 1) : i + 1 \in 1..n
      /\ \A i \in 1..n : i = 1 \/ (i - 1 \in 1..(n - 1) /\ (i - 1) + 1 = i)
  BY <1>1
<1>4. Elements(s) = Elements(t) \cup {s[1]}
  <2>1. Elements(t) \subseteq Elements(s) /\ s[1] \in Elements(s)  BY <1>1, <1>3 DEF Elements
  <2>2. ASSUME NEW i \in 1..n  PROVE s[i] \in Elements(t) \cup {s[1]}
    <3>1. CASE i = 1  BY <3>1
    <3>2. CASE i - 1 \in 1..(n - 1) /\ (i - 1) + 1 = i  BY <1>1, <3>2 DEF Elements
    <3> QED  BY <1>3, <3>1, <3>2
  <2>3. Elements(s) \subseteq Elements(t) \cup {s[1]}  BY <1>1, <2>2 DEF Elements
  <2> QED  BY <2>1, <2>3
<1>5. ASSUME NEW f, Before(s, f, s[1])  PROVE FALSE
  <2>1. PICK i, j \in 1..n : i < j /\ s[j] = s[1]  BY <1>1, <1>5 DEF Before
  <2>2. j = 1  BY <1>2, <1>3, <2>1
  <2> QED  BY <2>1, <2>2
<1>6. ASSUME NEW f, NEW g, Before(s, f, g), f # s[1]  PROVE Before(t, f, g)
  <2>1. PICK i, j \in 1..n : i < j /\ s[i] = f /\ s[j] = g  BY <1>1, <1>6 DEF Before
  <2>2. i # 1 /\ j # 1  BY <1>6, <2>1
  <2>3. /\ i - 1 \in 1..(n - 1) /\ j - 1 \in 1..(n - 1) /\ i - 1 < j - 1
        /\ (i - 1) + 1 = i /\ (j - 1) + 1 = j
    BY <1>1, <2>1, <2>2
  <2>4. t[i - 1] = f /\ t[j - 1] = g  BY <1>1, <2>1, <2>3
  <2> QED  BY <1>1, <2>3, <2>4 DEF Before
<1> QED  BY <1>1, <1>3, <1>4, <1>5, <1>6 DEF t, Elements

(* What is written out goes behind what is on the wire already. Nobody is  *)
(* passed over if what is kept stays where it is, and if everything that   *)
(* was accepted before something written is written before it too, or      *)
(* waits no longer, or is held by the loop.                                *)
LEMMA WriteOutOrder ==
  ASSUME OrderIInv, NEW s \in Seq(Frames), WriteOut(s), accepted' = accepted,
         \A f \in Elements(s) : place[f] \in Backlog,
         \A f \in Elements(accepted) \ Elements(s) :
           /\ place[f] = "queued" => queue' = queue
           /\ place[f] = "batch" => batch' = batch
           /\ place[f] = "held" => held' = held,
         \A f, g \in Elements(accepted) :
           Before(accepted, f, g) /\ g \in Elements(s) =>
             Before(s, f, g) \/ place[f] \in {"written", "failed", "discarded", "held"}
  PROVE  InPlace' /\ InTurn' /\ ~Overtakes
<1> DEFINE A == Elements(accepted)
<1>1. /\ wire' = wire \o s
      /\ \A f \in Frames : IF f \in Elements(s) THEN place'[f] \in {"written", "failed"}
                           ELSE place'[f] = place[f]
  BY DEF WriteOut
<1>2. wire \in Seq(Frames) /\ A \subseteq Frames  BY ElementsOf DEF OrderIInv, InPlace
<1>3. /\ wire' \in Seq(Frames) /\ Elements(wire') = Elements(wire) \cup Elements(s)
      /\ \A f, g : Before(s, f, g) \/ (f \in Elements(wire) /\ g \in Elements(s))
                     => Before(wire', f, g)
  BY <1>1, <1>2, ConcatOrder
<1>4. A' = A  OBVIOUS
<1>5. InPlace'
  <2>1. accepted' \in Seq(Frames) /\ Distinct(accepted)'  BY DEF OrderIInv, InPlace, Distinct
  <2>2. ASSUME NEW f \in A
        PROVE  /\ ~IsControl(f) /\ place'[f] \notin {"caller", "marked", "blocked", "refused"}
               /\ place'[f] = "queued" => f \in Elements(queue')
               /\ place'[f] = "held" => held' = f
               /\ place'[f] = "batch" => f \in Elements(batch')
               /\ place'[f] \in {"written", "failed"} => f \in Elements(wire')
    <3>1. /\ ~IsControl(f) /\ place[f] \notin {"caller", "marked", "blocked", "refused"}
          /\ place[f] = "queued" => f \in Elements(queue)
          /\ place[f] = "held" => held = f
          /\ place[f] = "batch" => f \in Elements(batch)
          /\ place[f] \in {"written", "failed"} => f \in Elements(wire)
      BY <2>2 DEF OrderIInv, InPlace
    <3>2. CASE f \in Elements(s)  BY <1>1, <1>2, <1>3, <3>1, <3>2
    <3>3. CASE f \notin Elements(s)
      <4>1. place'[f] = place[f]  BY <1>1, <1>2, <3>3
      <4> QED  BY <1>3, <3>1, <3>3, <4>1
    <3> QED  BY <3>2, <3>3
  <2> QED  BY <1>3, <1>4, <2>1, <2>2 DEF InPlace, IsControl
<1>6. InTurn'
  <2> SUFFICES ASSUME NEW f \in A, NEW g \in A, Before(accepted, f, g)
               PROVE  /\ place'[f] = "queued" /\ place'[g] = "queued" => Before(queue', f, g)
                      /\ place'[f] = "batch" /\ place'[g] = "batch" => Before(batch', f, g)
                      /\ place'[g] \in {"held", "batch"} => place'[f] # "queued"
                      /\ place'[g] = "batch" => place'[f] # "held"
    BY <1>4 DEF InTurn
  <2>1. /\ place[f] = "queued" /\ place[g] = "queued" => Before(queue, f, g)
        /\ place[f] = "batch" /\ place[g] = "batch" => Before(batch, f, g)
        /\ place[g] \in {"held", "batch"} => place[f] # "queued"
        /\ place[g] = "batch" => place[f] # "held"
    BY DEF OrderIInv, InTurn
  <2>2. CASE f \in Elements(s) \/ g \in Elements(s)  BY <1>1, <1>2, <2>2
  <2>3. CASE f \notin Elements(s) /\ g \notin Elements(s)
    <3>1. place'[f] = place[f] /\ place'[g] = place[g]  BY <1>1, <1>2, <2>3
    <3> QED  BY <2>1, <2>3, <3>1
  <2> QED  BY <2>2, <2>3
<1>7. ASSUME NEW f \in A, NEW g \in A, Before(accepted, f, g),
             place[g] # "written", place'[g] = "written"
      PROVE  Before(wire', f, g) \/ place'[f] = "discarded" \/ held = f
  <2>1. g \in Elements(s)  BY <1>1, <1>2, <1>7
  <2>2. CASE Before(s, f, g)  BY <1>3, <2>2
  <2>3. CASE place[f] \in {"written", "failed"}
    BY <1>3, <1>7, <2>1, <2>3 DEF OrderIInv, InPlace
  <2>4. CASE place[f] = "discarded"
    <3>1. f \notin Elements(s)  BY <2>4 DEF Backlog
    <3> QED  BY <1>1, <1>2, <2>4, <3>1
  <2>5. CASE place[f] = "held"  BY <1>7, <2>5 DEF OrderIInv, InPlace
  <2> QED  BY <1>7, <2>1, <2>2, <2>3, <2>4, <2>5
<1> QED  BY <1>5, <1>6, <1>7 DEF Overtakes

(* Only a frame that was not accepted moves, or none does.                 *)
LEMMA OthersMove ==
  ASSUME OrderIInv, \A f \in Elements(accepted) : place'[f] = place[f],
         UNCHANGED <<queue, batch, wire, accepted>>,
         \A f \in Elements(accepted) : held = f => held' = f
  PROVE  InPlace' /\ InTurn' /\ ~Overtakes
<1>1. Elements(accepted)' = Elements(accepted)  OBVIOUS
<1>2. InPlace'
  <2>1. Distinct(accepted)' /\ accepted' \in Seq(Frames) /\ wire' \in Seq(Frames)
    BY DEF OrderIInv, InPlace, Distinct
  <2> QED  BY <1>1, <2>1 DEF OrderIInv, InPlace, IsControl
<1>3. InTurn'  BY <1>1 DEF OrderIInv, InTurn
<1>4. ~Overtakes  BY DEF Overtakes
<1> QED  BY <1>2, <1>3, <1>4

LEMMA EnqueueOrder ==
  ASSUME OrderIInv, NEW e \in Frames, Enqueue(e)  PROVE InPlace' /\ InTurn' /\ ~Overtakes
<1> DEFINE A == Elements(accepted)
<1>1. /\ place[e] \in {"marked", "blocked"} /\ UNCHANGED <<batch, held, wire>>
      /\ place'[e] = "queued" /\ \A f \in Frames \ {e} : place'[f] = place[f]
  BY DEF Enqueue, Put, OrderIInv, WriterIInv, WriterTypeOK
<1>2. e \notin A /\ A \subseteq Frames
  BY <1>1, ElementsOf DEF OrderIInv, InPlace
<1>3. CASE IsControl(e)
  <2>1. UNCHANGED <<queue, accepted>>  BY <1>3 DEF Enqueue
  <2> QED  BY <1>1, <1>2, <2>1, OthersMove
<1>4. CASE ~IsControl(e)
  <2>1. queue' = Append(queue, e) /\ accepted' = Append(accepted, e)  BY <1>4 DEF Enqueue
  <2>2. \A f \in A : place'[f] = place[f]  BY <1>1, <1>2
  <2>3. accepted \in Seq(Frames) /\ Distinct(accepted) /\ wire \in Seq(Frames)
    BY DEF OrderIInv, InPlace
  <2>4. queue \in Seq(Frames) /\ e \notin Elements(queue)
    <3>1. queue \in Seq(Frames) /\ \A i \in 1..Len(queue) : place[queue[i]] = "queued"
      BY DEF OrderIInv, WriterIInv, WriterTypeOK, Kept, Lies
    <3> QED  BY <1>1, <3>1, ElementsOf
  <2>5. /\ Elements(queue') = Elements(queue) \cup {e}
        /\ \A f, g : Before(queue', f, g) <=> Before(queue, f, g) \/ (f \in Elements(queue) /\ g = e)
    BY <2>1, <2>4, AppendOrder
  <2>6. /\ accepted' \in Seq(Frames) /\ Elements(accepted') = A \cup {e}
        /\ \A f, g : Before(accepted', f, g) <=> Before(accepted, f, g) \/ (f \in A /\ g = e)
    BY <1>2, <2>1, <2>3, AppendOrder
  <2>7. Distinct(accepted)'
    <3>1. \A i \in 1..Len(accepted) : accepted[i] # e  BY <1>2, <2>3, ElementsOf
    <3>2. Distinct(accepted')  BY <2>1, <2>3, <3>1, AppendKept
    <3> QED  BY <3>2 DEF Distinct
  <2>8. InPlace'
    <3>1. ASSUME NEW f \in A \cup {e}
          PROVE  /\ ~IsControl(f) /\ place'[f] \notin {"caller", "marked", "blocked", "refused"}
                 /\ place'[f] = "queued" => f \in Elements(queue')
                 /\ place'[f] = "held" => held' = f
                 /\ place'[f] = "batch" => f \in Elements(batch')
                 /\ place'[f] \in {"written", "failed"} => f \in Elements(wire')
      <4>1. CASE f = e  BY <1>1, <1>4, <2>5, <4>1
      <4>2. CASE f \in A
        <5>1. place'[f] = place[f]  BY <2>2, <4>2
        <5>2. Elements(batch') = Elements(batch) /\ Elements(wire') = Elements(wire)  BY <1>1
        <5> QED  BY <1>1, <2>5, <4>2, <5>1, <5>2 DEF OrderIInv, InPlace
      <4> QED  BY <4>1, <4>2
    <3> QED  BY <1>1, <2>3, <2>6, <2>7, <3>1 DEF InPlace, IsControl
  <2>9. InTurn'
    <3> SUFFICES ASSUME NEW f \in A \cup {e}, NEW g \in A \cup {e}, Before(accepted', f, g)
                 PROVE  /\ place'[f] = "queued" /\ place'[g] = "queued" => Before(queue', f, g)
                        /\ place'[f] = "batch" /\ place'[g] = "batch" => Before(batch', f, g)
                        /\ place'[g] \in {"held", "batch"} => place'[f] # "queued"
                        /\ place'[g] = "batch" => place'[f] # "held"
      BY <2>6 DEF InTurn
    <3>1. CASE f \in A /\ g = e
      BY <1>1, <2>2, <2>5, <3>1 DEF OrderIInv, InPlace
    <3>2. CASE Before(accepted, f, g)
      <4>1. f \in A /\ g \in A  BY <3>2 DEF Before, Elements
      <4>2. Before(batch', f, g) <=> Before(batch, f, g)  BY <1>1
      <4> QED  BY <2>2, <2>5, <3>2, <4>1, <4>2 DEF OrderIInv, InTurn
    <3> QED  BY <2>6, <3>1, <3>2
  <2>10. ~Overtakes  BY <2>2 DEF Overtakes
  <2> QED  BY <2>8, <2>9, <2>10
<1> QED  BY <1>3, <1>4

(* Who takes the first frame of the queue leaves nobody behind.            *)
LEMMA TakeOrder ==
  ASSUME OrderIInv, queue # <<>>, queue' = Tail(queue), NEW p \in {"held", "discarded"},
         Put(Head(queue), p), UNCHANGED <<batch, wire, accepted>>,
         p = "held" => held = None /\ held' = Head(queue),
         p = "discarded" => held' = held
  PROVE  InPlace' /\ InTurn' /\ ~Overtakes
<1> DEFINE A == Elements(accepted)
           e == Head(queue)
<1>1. queue \in Seq(Frames) /\ Distinct(queue) /\ Lies(queue, "queued")
  BY DEF OrderIInv, WriterIInv, WriterTypeOK, Kept
<1>2. e \in Frames /\ e = queue[1] /\ Len(queue) \in Nat \ {0}  BY <1>1, TailKept
<1>3. place[e] = "queued"  BY <1>1, <1>2 DEF Lies
<1>4. /\ Elements(queue) = Elements(queue') \cup {e}
      /\ \A f : ~Before(queue, f, e)
      /\ \A f, g : Before(queue, f, g) /\ f # e => Before(queue', f, g)
  BY <1>1, TailOrder
<1>5. place'[e] = p /\ \A f \in Frames \ {e} : place'[f] = place[f]
  BY <1>2 DEF Put, OrderIInv, WriterIInv, WriterTypeOK
<1>6. A' = A /\ A \subseteq Frames /\ accepted \in Seq(Frames) /\ Distinct(accepted)
  BY ElementsOf DEF OrderIInv, InPlace
<1> HIDE DEF A, e
<1>7. held = None => \A f \in A : place[f] # "held"
  BY <1>6, WriterAssumption DEF OrderIInv, InPlace, A
<1>8. InPlace'
  <2>1. ASSUME NEW f \in A
        PROVE  /\ ~IsControl(f) /\ place'[f] \notin {"caller", "marked", "blocked", "refused"}
               /\ place'[f] = "queued" => f \in Elements(queue')
               /\ place'[f] = "held" => held' = f
               /\ place'[f] = "batch" => f \in Elements(batch)
               /\ place'[f] \in {"written", "failed"} => f \in Elements(wire)
    <3>1. /\ ~IsControl(f) /\ place[f] \notin {"caller", "marked", "blocked", "refused"}
          /\ place[f] = "queued" => f \in Elements(queue)
          /\ place[f] = "held" => held = f
          /\ place[f] = "batch" => f \in Elements(batch)
          /\ place[f] \in {"written", "failed"} => f \in Elements(wire)
      BY <2>1 DEF OrderIInv, InPlace, A
    <3>2. CASE f = e  BY <1>5, <3>1, <3>2 DEF e
    <3>3. CASE f # e
      <4>1. place'[f] = place[f]  BY <1>5, <1>6, <3>3
      <4>2. place[f] = "held" => held' = f  BY <1>7, <3>1
      <4> QED  BY <1>4, <3>1, <3>3, <4>1, <4>2
    <3> QED  BY <3>2, <3>3
  <2>2. Distinct(accepted)' /\ accepted' \in Seq(Frames) /\ wire' \in Seq(Frames)
    BY <1>6 DEF OrderIInv, InPlace, Distinct
  <2>3. Elements(accepted') = A /\ Elements(batch') = Elements(batch) /\ Elements(wire') = Elements(wire)
    BY DEF A
  <2> QED  BY <2>1, <2>2, <2>3 DEF InPlace, IsControl
<1>9. InTurn'
  <2> SUFFICES ASSUME NEW f \in A, NEW g \in A, Before(accepted, f, g)
               PROVE  /\ place'[f] = "queued" /\ place'[g] = "queued" => Before(queue', f, g)
                      /\ place'[f] = "batch" /\ place'[g] = "batch" => Before(batch, f, g)
                      /\ place'[g] \in {"held", "batch"} => place'[f] # "queued"
                      /\ place'[g] = "batch" => place'[f] # "held"
    BY <1>6 DEF InTurn, A
  <2>1. /\ place[f] = "queued" /\ place[g] = "queued" => Before(queue, f, g)
        /\ place[f] = "batch" /\ place[g] = "batch" => Before(batch, f, g)
        /\ place[g] \in {"held", "batch"} => place[f] # "queued"
        /\ place[g] = "batch" => place[f] # "held"
    BY DEF OrderIInv, InTurn, A
  <2>2. CASE f = e
    <3>1. place[g] \notin {"held", "batch"}  BY <1>3, <2>1, <2>2
    <3>2. CASE g = e  BY <1>3, <1>4, <2>1, <2>2, <3>2
    <3>3. CASE g # e
      <4>1. place'[g] = place[g]  BY <1>5, <1>6, <3>3
      <4> QED  BY <1>5, <2>2, <3>1, <4>1
    <3> QED  BY <3>2, <3>3
  <2>3. CASE f # e /\ g = e
    <3>1. place'[f] = place[f]  BY <1>5, <1>6, <2>3
    <3>2. place[f] # "queued"  BY <1>3, <1>4, <2>1, <2>3
    <3> QED  BY <1>5, <2>3, <3>1, <3>2
  <2>4. CASE f # e /\ g # e
    <3>1. place'[f] = place[f] /\ place'[g] = place[g]  BY <1>5, <1>6, <2>4
    <3> QED  BY <1>4, <2>1, <2>4, <3>1
  <2> QED  BY <2>2, <2>3, <2>4
<1>10. ~Overtakes
  <2>1. \A g \in A : place'[g] = "written" => place[g] = "written"  BY <1>5, <1>6
  <2> QED  BY <2>1 DEF Overtakes, A
<1> QED  BY <1>8, <1>9, <1>10

LEMMA HandleFrameOrder ==
  ASSUME OrderIInv, HandleFrame  PROVE InPlace' /\ InTurn' /\ ~Overtakes
<1> DEFINE A == Elements(accepted)
<1>1. /\ held \in Frames /\ place[held] = "held" /\ held' = None
      /\ queue' = queue /\ accepted' = accepted
  BY DEF HandleFrame, OrderIInv, WriterIInv, WriterTypeOK, Kept
<1>2. batch \in Seq(Frames) /\ \A i \in 1..Len(batch) : place[batch[i]] = "batch"
  BY DEF OrderIInv, WriterIInv, WriterTypeOK, Kept, Lies
<1>3. \A f \in Elements(batch) : place[f] = "batch"  BY <1>2, ElementsOf
<1>4. held \notin Elements(batch)  BY <1>1, <1>3
<1>5. /\ Append(batch, held) \in Seq(Frames)
      /\ Elements(Append(batch, held)) = Elements(batch) \cup {held}
      /\ \A f, g : Before(Append(batch, held), f, g) <=>
                     Before(batch, f, g) \/ (f \in Elements(batch) /\ g = held)
  BY <1>1, <1>2, <1>4, AppendOrder
<1>6. A \subseteq Frames /\ accepted \in Seq(Frames) /\ Distinct(accepted)
      /\ \A f \in A : /\ ~IsControl(f)
                      /\ place[f] \in {"queued", "held", "batch", "written", "failed", "discarded"}
                      /\ place[f] = "held" => held = f
                      /\ place[f] = "batch" => f \in Elements(batch)
  <2>1. A \subseteq Frames /\ accepted \in Seq(Frames) /\ Distinct(accepted)
    BY ElementsOf DEF OrderIInv, InPlace
  <2>2. \A f \in A : place[f] \in Places  BY <2>1 DEF OrderIInv, WriterIInv, WriterTypeOK
  <2>3. \A f \in A : place[f] \in {"queued", "held", "batch", "written", "failed", "discarded"}
    BY <2>2 DEF OrderIInv, InPlace, Places
  <2> QED  BY <2>1, <2>3 DEF OrderIInv, InPlace
<1>7. CASE IsControl(held) /\ WriteOut(<<held>>) /\ batch' = batch
  <2>1. <<held>> \in Seq(Frames) /\ Elements(<<held>>) = {held}  BY <1>1 DEF Elements
  <2>2. held \notin A  BY <1>6, <1>7
  <2>3. \A f \in A : place[f] # "held"  BY <1>6, <2>2
  <2>4. place[held] \in Backlog  BY <1>1 DEF Backlog
  <2> DEFINE s == <<held>>
  <2> HIDE DEF s
  <2>5. s \in Seq(Frames) /\ Elements(s) = {held} /\ WriteOut(s)  BY <1>7, <2>1 DEF s
  <2> QED  BY <1>1, <1>7, <2>2, <2>3, <2>4, <2>5, WriteOutOrder
<1>8. CASE WriteOut(Append(batch, held)) /\ batch' = <<>>
  <2> DEFINE s == Append(batch, held)
  <2> HIDE DEF s
  <2>1. /\ s \in Seq(Frames) /\ WriteOut(s) /\ Elements(s) = Elements(batch) \cup {held}
        /\ \A f, g : Before(s, f, g) <=> Before(batch, f, g) \/ (f \in Elements(batch) /\ g = held)
    BY <1>5, <1>8 DEF s
  <2>2. \A f \in Elements(s) : place[f] \in Backlog  BY <1>1, <1>3, <2>1 DEF Backlog
  <2>3. \A f \in A \ Elements(s) : place[f] \notin {"batch", "held"}  BY <1>6, <2>1
  <2>4. ASSUME NEW f \in A, NEW g \in A, Before(accepted, f, g), g \in Elements(s)
        PROVE  Before(s, f, g) \/ place[f] \in {"written", "failed", "discarded", "held"}
    <3>1. place[g] \in {"held", "batch"}  BY <1>1, <1>3, <2>1, <2>4
    <3>2. place[f] # "queued"  BY <2>4, <3>1 DEF OrderIInv, InTurn
    <3>3. CASE place[f] = "batch"
      <4>1. f \in Elements(batch)  BY <1>6, <3>3
      <4>2. CASE g = held  BY <2>1, <4>1, <4>2
      <4>3. CASE g \in Elements(batch)
        <5>1. Before(batch, f, g)  BY <1>3, <2>4, <3>3, <4>3 DEF OrderIInv, InTurn
        <5> QED  BY <2>1, <5>1
      <4> QED  BY <2>1, <2>4, <4>2, <4>3
    <3> QED  BY <1>6, <3>2, <3>3
  <2> QED  BY <1>1, <2>1, <2>2, <2>3, <2>4, WriteOutOrder
<1>9. CASE ~IsControl(held) /\ batch' = Append(batch, held) /\ Put(held, "batch") /\ wire' = wire
  <2>1. place'[held] = "batch" /\ \A f \in Frames \ {held} : place'[f] = place[f]
    BY <1>1, <1>9 DEF Put, OrderIInv, WriterIInv, WriterTypeOK
  <2>2. /\ Elements(batch') = Elements(batch) \cup {held}
        /\ \A f, g : Before(batch', f, g) <=> Before(batch, f, g) \/ (f \in Elements(batch) /\ g = held)
    BY <1>5, <1>9
  <2>3. InPlace'
    <3>1. ASSUME NEW f \in A
          PROVE  /\ ~IsControl(f) /\ place'[f] \notin {"caller", "marked", "blocked", "refused"}
                 /\ place'[f] = "queued" => f \in Elements(queue)
                 /\ place'[f] = "held" => held' = f
                 /\ place'[f] = "batch" => f \in Elements(batch')
                 /\ place'[f] \in {"written", "failed"} => f \in Elements(wire)
      <4>1. CASE f = held  BY <1>9, <2>1, <2>2, <4>1
      <4>2. CASE f # held
        <5>1. place'[f] = place[f] /\ place[f] # "held"  BY <1>6, <2>1, <4>2
        <5> QED  BY <1>6, <2>2, <5>1 DEF OrderIInv, InPlace
      <4> QED  BY <4>1, <4>2
    <3>2. Distinct(accepted)' /\ accepted' \in Seq(Frames) /\ wire' \in Seq(Frames)
      BY <1>1, <1>6, <1>9 DEF OrderIInv, InPlace, Distinct
    <3>3. Elements(accepted') = A /\ Elements(queue') = Elements(queue) /\ Elements(wire') = Elements(wire)
      BY <1>1, <1>9
    <3> QED  BY <3>1, <3>2, <3>3 DEF InPlace, IsControl
  <2>4. InTurn'
    <3> SUFFICES ASSUME NEW f \in A, NEW g \in A, Before(accepted, f, g)
                 PROVE  /\ place'[f] = "queued" /\ place'[g] = "queued" => Before(queue, f, g)
                        /\ place'[f] = "batch" /\ place'[g] = "batch" => Before(batch', f, g)
                        /\ place'[g] \in {"held", "batch"} => place'[f] # "queued"
                        /\ place'[g] = "batch" => place'[f] # "held"
      BY <1>1 DEF InTurn
    <3>1. /\ place[f] = "queued" /\ place[g] = "queued" => Before(queue, f, g)
          /\ place[f] = "batch" /\ place[g] = "batch" => Before(batch, f, g)
          /\ place[g] \in {"held", "batch"} => place[f] # "queued"
          /\ place[g] = "batch" => place[f] # "held"
      BY DEF OrderIInv, InTurn
    <3>2. f # g
      <4>1. \A i, j \in 1..Len(accepted) : accepted[i] = accepted[j] => i = j  BY <1>6 DEF Distinct
      <4>2. PICK i, j \in 1..Len(accepted) : i < j /\ accepted[i] = f /\ accepted[j] = g
        BY <1>6 DEF Before
      <4> QED  BY <4>1, <4>2
    <3>3. CASE f = held
      <4>1. place'[g] = place[g] /\ place[g] # "batch" /\ place[g] # "held"
        BY <1>1, <1>6, <2>1, <3>1, <3>2, <3>3
      <4> QED  BY <2>1, <3>3, <4>1
    <3>4. CASE f # held /\ g = held
      <4>1. place'[f] = place[f] /\ place[f] # "queued" /\ place[f] # "held"
        BY <1>1, <1>6, <2>1, <3>1, <3>4
      <4>2. place[f] = "batch" => Before(batch', f, g)  BY <1>6, <2>2, <3>4
      <4> QED  BY <2>1, <3>4, <4>1, <4>2
    <3>5. CASE f # held /\ g # held
      <4>1. place'[f] = place[f] /\ place'[g] = place[g]  BY <1>6, <2>1, <3>5
      <4> QED  BY <2>2, <3>1, <4>1
    <3> QED  BY <3>3, <3>4, <3>5
  <2>5. ~Overtakes
    <3>1. \A g \in A : place'[g] = "written" => place[g] = "written"  BY <1>6, <2>1
    <3> QED  BY <3>1 DEF Overtakes
  <2> QED  BY <2>3, <2>4, <2>5
<1> QED  BY <1>7, <1>8, <1>9 DEF HandleFrame

LEMMA FlushOrder ==
  ASSUME OrderIInv, BatchTick \/ LoopEnds \/ Flush  PROVE InPlace' /\ InTurn' /\ ~Overtakes
<1> DEFINE A == Elements(accepted)
<1>1. held' = held /\ accepted' = accepted /\ batch' = <<>>
  BY DEF BatchTick, LoopEnds, Flush, FlushBatch
<1>2. /\ batch \in Seq(Frames) /\ \A i \in 1..Len(batch) : place[batch[i]] = "batch"
      /\ queue \in Seq(Frames) /\ \A i \in 1..Len(queue) : place[queue[i]] = "queued"
  BY DEF OrderIInv, WriterIInv, WriterTypeOK, Kept, Lies
<1>3. /\ \A f \in Elements(batch) : place[f] = "batch"
      /\ \A f \in Elements(queue) : place[f] = "queued"
  BY <1>2, ElementsOf
<1>4. \A f \in A : /\ place[f] \in {"queued", "held", "batch", "written", "failed", "discarded"}
                   /\ place[f] = "queued" => f \in Elements(queue)
                   /\ place[f] = "batch" => f \in Elements(batch)
  <2>1. A \subseteq Frames  BY ElementsOf DEF OrderIInv, InPlace
  <2>2. \A f \in A : place[f] \in Places  BY <2>1 DEF OrderIInv, WriterIInv, WriterTypeOK
  <2>3. \A f \in A : place[f] \in {"queued", "held", "batch", "written", "failed", "discarded"}
    BY <2>2 DEF OrderIInv, InPlace, Places
  <2> QED  BY <2>3 DEF OrderIInv, InPlace
<1>5. CASE BatchTick \/ LoopEnds
  <2>1. WriteOut(batch) /\ queue' = queue  BY <1>5 DEF BatchTick, LoopEnds, FlushBatch
  <2>2. \A f \in Elements(batch) : place[f] \in Backlog  BY <1>3 DEF Backlog
  <2>3. ASSUME NEW f \in A, NEW g \in A, Before(accepted, f, g), g \in Elements(batch)
        PROVE  Before(batch, f, g) \/ place[f] \in {"written", "failed", "discarded", "held"}
    <3>1. place[g] = "batch"  BY <1>3, <2>3
    <3>2. place[f] # "queued" /\ (place[f] = "batch" => Before(batch, f, g))
      BY <2>3, <3>1 DEF OrderIInv, InTurn
    <3> QED  BY <1>4, <3>2
  <2> QED  BY <1>1, <1>2, <1>4, <2>1, <2>2, <2>3, WriteOutOrder
<1>6. CASE Flush
  <2> DEFINE s == batch \o queue
  <2>1. WriteOut(s)  BY <1>6 DEF Flush
  <2>2. /\ s \in Seq(Frames) /\ Elements(s) = Elements(batch) \cup Elements(queue)
        /\ \A f, g : Before(batch, f, g) \/ Before(queue, f, g)
                       \/ (f \in Elements(batch) /\ g \in Elements(queue)) => Before(s, f, g)
    BY <1>2, ConcatOrder
  <2> HIDE DEF s
  <2>3. \A f \in Elements(s) : place[f] \in Backlog  BY <1>3, <2>2 DEF Backlog
  <2>4. ASSUME NEW f \in A, NEW g \in A, Before(accepted, f, g), g \in Elements(s)
        PROVE  Before(s, f, g) \/ place[f] \in {"written", "failed", "discarded", "held"}
    <3>1. /\ place[f] = "queued" /\ place[g] = "queued" => Before(queue, f, g)
          /\ place[f] = "batch" /\ place[g] = "batch" => Before(batch, f, g)
          /\ place[g] \in {"held", "batch"} => place[f] # "queued"
      BY <2>4 DEF OrderIInv, InTurn
    <3>2. CASE g \in Elements(batch)
      <4>1. place[g] = "batch"  BY <1>3, <3>2
      <4> QED  BY <1>4, <2>2, <3>1, <4>1
    <3>3. CASE g \in Elements(queue)
      <4>1. place[g] = "queued"  BY <1>3, <3>3
      <4>2. place[f] = "batch" => Before(s, f, g)  BY <1>4, <2>2, <3>3
      <4> QED  BY <1>4, <2>2, <3>1, <4>1, <4>2
    <3> QED  BY <2>2, <2>4, <3>2, <3>3
  <2> QED  BY <1>1, <1>4, <2>1, <2>2, <2>3, <2>4, WriteOutOrder
<1> QED  BY <1>5, <1>6

LEMMA OrderStepKeeps ==
  ASSUME OrderIInv, [WriterNext]_writerVars  PROVE OrderIInv' /\ ~Overtakes
<1>1. WriterIInv'  BY WriterStepKeeps DEF OrderIInv
<1>2. Elements(accepted) \subseteq Frames  BY ElementsOf DEF OrderIInv, InPlace
<1>3. \A f \in Elements(accepted) : f # None  BY <1>2, WriterAssumption
<1>4. CASE \E f \in Frames : Write(f)
  <2>1. PICK f \in Frames : Write(f)  BY <1>4
  <2>2. CASE Enqueue(f)  BY <1>1, <2>2, EnqueueOrder DEF OrderIInv
  <2>3. CASE Mark(f) \/ Block(f) \/ GiveUp(f)
    <3>1. /\ place[f] \in {"caller", "marked", "blocked"}
          /\ \A g \in Frames \ {f} : place'[g] = place[g]
          /\ UNCHANGED <<queue, batch, held, wire, accepted>>
      BY <2>3 DEF Mark, Block, GiveUp, Put, OrderIInv, WriterIInv, WriterTypeOK
    <3>2. f \notin Elements(accepted)  BY <3>1 DEF OrderIInv, InPlace
    <3>3. \A g \in Elements(accepted) : place'[g] = place[g]  BY <1>2, <3>1, <3>2
    <3> QED  BY <1>1, <3>1, <3>3, OthersMove DEF OrderIInv
  <2> QED  BY <2>1, <2>2, <2>3 DEF Write
<1>5. CASE TakeControl \/ (DrainQueues /\ queue' = queue)
  <2>1. /\ controlQueue # <<>> /\ place' = [place EXCEPT ![Head(controlQueue)] = place'[Head(controlQueue)]]
        /\ UNCHANGED <<queue, batch, wire, accepted>>
        /\ held = None \/ held' = held
    <3>1. queue \in Seq(Frames)  BY DEF OrderIInv, WriterIInv, WriterTypeOK
    <3>2. queue # <<>> => Tail(queue) # queue
      <4>1. queue # <<>> => Len(Tail(queue)) # Len(queue)  BY <3>1
      <4> QED  BY <4>1
    <3> QED  BY <1>5, <3>2 DEF TakeControl, DrainQueues, Discard, Put, OrderIInv, WriterIInv, WriterTypeOK
  <2> DEFINE e == Head(controlQueue)
  <2>2. e \in Frames /\ IsControl(e)
    BY <2>1 DEF OrderIInv, WriterIInv, WriterTypeOK, Kept
  <2>3. e \notin Elements(accepted)  BY <2>2 DEF OrderIInv, InPlace
  <2>4. \A g \in Elements(accepted) : place'[g] = place[g]
    BY <1>2, <2>1, <2>3 DEF OrderIInv, WriterIInv, WriterTypeOK
  <2>5. \A g \in Elements(accepted) : held = g => held' = g  BY <1>3, <2>1
  <2> QED  BY <1>1, <2>1, <2>4, <2>5, OthersMove DEF OrderIInv
<1>6. CASE TakeData
  <2>1. /\ queue # <<>> /\ queue' = Tail(queue) /\ Put(Head(queue), "held")
        /\ UNCHANGED <<batch, wire, accepted>> /\ held = None /\ held' = Head(queue)
    BY <1>6 DEF TakeData
  <2> QED  BY <1>1, <2>1, TakeOrder DEF OrderIInv
<1>7. CASE DrainQueues /\ queue' # queue
  <2>1. /\ queue # <<>> /\ queue' = Tail(queue) /\ Put(Head(queue), "discarded")
        /\ UNCHANGED <<batch, wire, accepted>> /\ held' = held
    BY <1>7 DEF DrainQueues, Discard
  <2> QED  BY <1>1, <2>1, TakeOrder DEF OrderIInv
<1>8. CASE HandleFrame  BY <1>1, <1>8, HandleFrameOrder DEF OrderIInv
<1>9. CASE BatchTick \/ LoopEnds \/ Flush  BY <1>1, <1>9, FlushOrder DEF OrderIInv
<1>10. CASE Select \/ HeartbeatTick \/ CloseWriter \/ CloseDone \/ UNCHANGED writerVars
  <2>1. UNCHANGED <<place, queue, batch, held, wire, accepted>>
    BY <1>10 DEF Select, HeartbeatTick, CloseWriter, CloseDone, writerVars
  <2> QED  BY <1>1, <2>1, OthersMove DEF OrderIInv
<1> QED
  BY <1>4, <1>5, <1>6, <1>7, <1>8, <1>9, <1>10 DEF WriterNext, WriteLoop

LEMMA OrderInductive == WriterSpec => []OrderIInv
<1>1. ASSUME WriterInit  PROVE InPlace /\ InTurn
  <2>1. <<>> \in Seq(Frames) /\ Elements(<<>>) = {} /\ Distinct(<<>>)  BY DEF Elements, Distinct
  <2> QED  BY <1>1, <2>1 DEF WriterInit, InPlace, InTurn
<1>2. OrderIInv /\ [WriterNext]_writerVars => OrderIInv'  BY OrderStepKeeps
<1>3. WriterIInv /\ InPlace /\ InTurn => OrderIInv  BY DEF OrderIInv
<1> QED  BY <1>1, <1>2, <1>3, WriterInductive, PTL DEF WriterSpec

(* No data frame is written before one that was enqueued before it.        *)
THEOREM NoOvertakingCorrect == WriterSpec => NoOvertaking
<1>1. OrderIInv /\ [WriterNext]_writerVars =>
        \A f, g \in Elements(accepted) :
          Before(accepted, f, g) /\ place[g] # "written" /\ place'[g] = "written" =>
            Before(wire', f, g) \/ place'[f] = "discarded" \/ held = f
  BY OrderStepKeeps DEF Overtakes
<1> QED  BY <1>1, OrderInductive, PTL DEF WriterSpec, NoOvertaking

----------------------------------------------------------------------------
(* The connection pool.                                                    *)
(* Before the acknowledgement nothing runs that could change the pool.     *)
BeforeIsQuiet ==
  connect \in {"idle", "dialing"} =>
    /\ ~primary /\ table = {} /\ ~closed /\ \A s \in Data : adding[s] = "none"
    /\ \A s \in Sessions : loops[s] = "off"
    /\ control = "off"

(* What Close has taken is taken for good.                                 *)
CloseTakesAll ==
  /\ closed <=> closing # "no"
  /\ closing \in {"grabbed", "done"} => table = {} /\ ~primary
  /\ closing # "grabbed" => grabbed = {}

(* Who has called addDataSession still waits for it, and the loops of what *)
(* it adds have not begun.                                                 *)
CallersWait ==
  /\ \A s \in Data :
       /\ adding[s] = "none" <=> adder[s] = "none"
       /\ adding[s] # "none" => loops[s] = "off"
       /\ adder[s] = "warmup" => connect = "warmed"
       /\ adder[s] = "scaler" => scaler.at = "adding"
  /\ scaler.at # "off" => connect = "up"

(* A connection that is not closed is somebody's to close.                 *)
Owned(s) ==
  \/ s \in Data /\ adding[s] \in {"handshake", "joining"}
  \/ s \in table \/ s \in grabbed \/ (s = Primary /\ primary)
  \/ scaler.at = "closing" /\ scaler.victim = s
  \/ loops[s] = "drop"
AllOwned == \A s \in Sessions : link[s] # "closed" => Owned(s)

DoneIsLast ==
  done => /\ connect = "up" /\ closed /\ scaler.at = "off" /\ control = "off"
          /\ \A s \in Sessions : loops[s] = "off"

PoolOwners == BeforeIsQuiet /\ CloseTakesAll /\ CallersWait /\ AllOwned /\ DoneIsLast

PoolIInv == PoolTypeOK /\ desired <= MaxSessions /\ SlotsExact /\ PoolOwners

(* The calls of addDataSession that have a slot.                           *)
Taking == {"dialing", "handshake", "joining"}
Takers == {s \in Data : adding[s] \in Taking}

LEMMA PoolCounts ==
  ASSUME PoolTypeOK
  PROVE  /\ IsFiniteSet(table) /\ Cardinality(table) \in Nat
         /\ IsFiniteSet(Takers) /\ Cardinality(Takers) \in Nat
<1>1. IsFiniteSet(Data) /\ table \subseteq Data /\ Takers \subseteq Data
  BY PoolAssumption DEF PoolTypeOK, Takers
<1> QED  BY <1>1, FS_Subset, FS_CardinalityType

LEMMA SlotsNow ==
  SlotsExact <=> /\ pending = Cardinality(Takers)
                 /\ Cardinality(table) + pending + (IF primary THEN 1 ELSE 0) <= MaxSessions
BY DEF SlotsExact, SessionCount, Takers, Taking

LEMMA SlotsNext ==
  SlotsExact' <=> /\ pending' = Cardinality(Takers')
                  /\ Cardinality(table') + pending' + (IF primary' THEN 1 ELSE 0) <= MaxSessions
BY DEF SlotsExact, SessionCount, Takers, Taking

ScalerStates ==
  [at : ScalerSteps, left : 0..MaxBurst, want : 0..MaxSessions, idle : SUBSET Data,
     victim : Sessions]

(* What neither takes a slot nor gives one back.                           *)
LEMMA SlotsKept ==
  ASSUME PoolTypeOK, SlotsExact, pending' = pending, table' \subseteq table,
     primary' => primary,
         \A s \in Data : adding'[s] \in Taking <=> adding[s] \in Taking
  PROVE  SlotsExact'
<1>1. Takers' = Takers  BY DEF Takers
<1>2. Cardinality(table') <= Cardinality(table) /\ Cardinality(table') \in Nat
  BY PoolCounts, FS_Subset, FS_CardinalityType
<1>3. MaxSessions \in Nat /\ pending \in Nat  BY PoolAssumption DEF PoolTypeOK
<1> QED  BY <1>1, <1>2, <1>3, PoolCounts, SlotsNow, SlotsNext

(* A new client is an empty one, and so is none.                           *)
LEMMA FreshIs ==
  ASSUME NEW step, Fresh(step)
  PROVE  /\ connect' = step /\ closing' = "no" /\ desired' = 0 /\ rebind' = NoRebind
         /\ pending' = 0 /\ closed' = FALSE /\ primary' = FALSE /\ tunnelID' = FALSE
         /\ done' = FALSE /\ control' = "off" /\ grabbed' = {} /\ table' = {}
         /\ link' \in [Sessions -> LinkStates] /\ \A s \in Sessions : link'[s] = "closed"
         /\ loops' \in [Sessions -> LoopSteps] /\ \A s \in Sessions : loops'[s] = "off"
         /\ adding' \in [Data -> AddSteps] /\ \A s \in Data : adding'[s] = "none"
         /\ adder' \in [Data -> {"none", "warmup",
            "scaler"}] /\ \A s \in Data : adder'[s] = "none"
         /\ handler' \in [Streams -> [at : HandlerSteps, on : Sessions]]
         /\ scaler' \in ScalerStates /\ scaler'.at = "off"
<1> USE DEF Fresh
<1>1. scaler' \in ScalerStates /\ scaler'.at = "off"
  BY PoolAssumption DEF Off, ScalerStates, ScalerSteps, Sessions
<1>2. handler' \in [Streams -> [at : HandlerSteps, on : Sessions]]
  BY DEF Free, HandlerSteps, Sessions
<1>3. /\ link' \in [Sessions -> LinkStates] /\ \A s \in Sessions : link'[s] = "closed"
      /\ loops' \in [Sessions -> LoopSteps] /\ \A s \in Sessions : loops'[s] = "off"
      /\ adding' \in [Data -> AddSteps] /\ \A s \in Data : adding'[s] = "none"
      /\ adder' \in [Data -> {"none", "warmup", "scaler"}] /\ \A s \in Data : adder'[s] = "none"
  BY DEF LinkStates, LoopSteps, AddSteps
<1> QED  BY <1>1, <1>2, <1>3

LEMMA FreshKeeps ==
  ASSUME NEW step \in {"idle", "dialing"}, Fresh(step)
  PROVE  PoolIInv'
<1>1. PoolTypeOK' /\ desired' <= MaxSessions
  <2>1. scaler' \in ScalerStates /\ handler' \in [Streams -> [at : HandlerSteps, on : Sessions]]
    BY FreshIs
  <2>2. /\ closing' = "no" /\ desired' = 0 /\ rebind' = NoRebind /\ connect' \in {"idle", "dialing"}
        /\ pending' = 0 /\ closed' = FALSE /\ primary' = FALSE /\ tunnelID' = FALSE
        /\ done' = FALSE /\ control' = "off" /\ grabbed' = {} /\ table' = {}
    BY FreshIs
  <2>3. /\ link' \in [Sessions -> LinkStates] /\ loops' \in [Sessions -> LoopSteps]
        /\ adding' \in [Data -> AddSteps] /\ adder' \in [Data -> {"none", "warmup", "scaler"}]
    BY FreshIs
  <2>4. /\ connect' \in {"idle", "dialing", "warming", "warmed", "up"} /\ desired' <= MaxSessions
        /\ control' \in LoopSteps /\ closing' \in {"no", "stopped", "grabbed", "done"}
        /\ grabbed' \subseteq Sessions /\ table' \subseteq Data
        /\ pending' \in Nat /\ desired' \in Nat
    BY <2>2, PoolAssumption DEF LoopSteps
  <2>5. /\ closed' \in BOOLEAN /\ primary' \in BOOLEAN /\ tunnelID' \in BOOLEAN
        /\ done' \in BOOLEAN /\ rebind' \in Targets \cup {NoRebind}
    BY <2>2
  <2>6. PoolTypeOK'  BY <2>1, <2>3, <2>4, <2>5 DEF PoolTypeOK, ScalerStates
  <2> QED  BY <2>4, <2>6
<1>2. SlotsExact'
  <2>1. Takers' = {}  BY FreshIs DEF Takers, Taking
  <2>2. table' = {} /\ pending' = 0 /\ primary' = FALSE  BY FreshIs
  <2> QED  BY <2>1, <2>2, SlotsNext, FS_EmptySet, PoolAssumption
<1>3. PoolOwners'
  BY FreshIs
  DEF PoolOwners, BeforeIsQuiet, CloseTakesAll, CallersWait, AllOwned, DoneIsLast, Sessions
<1> QED  BY <1>1, <1>2, <1>3 DEF PoolIInv

(* A candidate that is still in the table is taken out to be closed.       *)
LEMMA ScalerRemovesOne ==
  ASSUME PoolIInv, ScalerRemoves
  PROVE  /\ scaler.at = "removing" /\ scaler' \in ScalerStates
         /\ scaler'.at \in {"idle", "removing", "closing"}
         /\ table' \subseteq table /\ table \subseteq Data /\ desired' \in 0..MaxSessions
         /\ \A s \in table : s \in table' \/ (scaler'.at = "closing" /\ scaler'.victim = s)
         /\ UNCHANGED <<connect, closeVars, primary, pending, tunnelID, link, addVars,
            loopVars, handler,
                       rebind, done>>
<1> USE DEF PoolIInv
<1>1. /\ scaler \in ScalerStates /\ table \subseteq Data
      /\ UNCHANGED <<connect, closeVars, primary, pending, tunnelID, link, addVars, loopVars,
         handler,
                     rebind, done>>
  BY DEF ScalerRemoves, PoolTypeOK, ScalerStates
<1>2. /\ scaler' \in ScalerStates /\ scaler'.at \in {"idle", "removing", "closing"}
      /\ table' \subseteq table /\ desired' \in 0..MaxSessions
      /\ \A s \in table : s \in table' \/ (scaler'.at = "closing" /\ scaler'.victim = s)
  <2>1. CASE scaler.idle = {}
    <3>1. [Off EXCEPT !.at = "idle"] \in ScalerStates
      BY PoolAssumption DEF Off, ScalerStates, ScalerSteps, Sessions
    <3>2. desired' = scaler.want /\ scaler' = [Off EXCEPT !.at = "idle"] /\ table' = table
      BY <2>1 DEF ScalerRemoves, Scaler
    <3> QED  BY <1>1, <3>1, <3>2 DEF Off, ScalerStates
  <2>2. CASE scaler.idle # {}
    <3>1. PICK s \in scaler.idle :
            /\ table' = table \ {s} /\ desired' = desired
            /\ scaler' = IF s \in table THEN [scaler EXCEPT !.at = "closing", !.victim = s]
                                        ELSE [scaler EXCEPT !.idle = @ \ {s}]
      BY <2>2 DEF ScalerRemoves, Scaler
    <3>2. s \in Data /\ desired \in 0..MaxSessions
      BY <1>1, PoolAssumption DEF ScalerStates, PoolTypeOK
    <3>3. CASE s \in table
      <4>1. scaler' \in ScalerStates /\ scaler'.at = "closing" /\ scaler'.victim = s
        BY <1>1, <3>1, <3>2, <3>3 DEF ScalerStates, ScalerSteps, Sessions
      <4> QED  BY <3>1, <3>2, <4>1
    <3>4. CASE s \notin table
      <4>1. scaler' \in ScalerStates /\ scaler'.at = scaler.at /\ table' = table
        BY <1>1, <3>1, <3>4 DEF ScalerStates
      <4>2. scaler.at = "removing"  BY DEF ScalerRemoves
      <4> QED  BY <3>1, <3>2, <4>1, <4>2
    <3> QED  BY <3>3, <3>4
  <2> QED  BY <2>1, <2>2
<1> QED  BY <1>1, <1>2 DEF ScalerRemoves

(* The types, step by step.                                                *)
LEMMA PoolTypesKept ==
  ASSUME PoolIInv, [PoolNext]_poolVars
  PROVE  PoolTypeOK' /\ desired' <= MaxSessions
<1> USE PoolAssumption
    DEF PoolIInv, PoolTypeOK, LinkStates, AddSteps, LoopSteps, HandlerSteps, ScalerSteps,
        Sessions, poolVars, closeVars, countVars, addVars, loopVars
<1>1. CASE ConnectFails  BY <1>1 DEF ConnectFails
<1>2. CASE WarmUp  BY <1>2 DEF WarmUp, Unused
<1>3. CASE WarmUpSkipped  BY <1>3 DEF WarmUpSkipped
<1>4. CASE ConnectReturns  BY <1>4 DEF ConnectReturns, Off
<1>5. CASE \E s \in Data : Dialed(s)  BY <1>5 DEF Dialed, Adds
<1>6. CASE \E s \in Data : Accepted(s)  BY <1>6 DEF Accepted, Adds
<1>7. CASE \E s \in Data : StartLoops(s)  BY <1>7 DEF StartLoops, Returns, Adds
<1>8. CASE \E s \in Sessions : LinkFails(s)  BY <1>8 DEF LinkFails
<1>9. CASE \E s \in Sessions : Drop(s)
  <2> SUFFICES ASSUME NEW s \in Sessions, Drop(s)  PROVE PoolTypeOK' /\ desired' <= MaxSessions
    BY <1>9
  <2>1. table' \subseteq Data /\ grabbed' \subseteq Sessions
    BY DEF Drop, NoticesLoss, Gone, CallClose
  <2>2. scaler' \in ScalerStates  BY DEF Drop, NoticesLoss, Gone, CallClose, ScalerStates
  <2> QED  BY ZenonT(30), <2>1, <2>2 DEF Drop, NoticesLoss, Gone, CallClose, ScalerStates
<1>10. CASE \E s \in Sessions : DropReturns(s)  BY <1>10 DEF DropReturns
<1>11. CASE \E s \in Sessions : LoopsEnd(s)  BY <1>11 DEF LoopsEnd, Gone
<1>12. CASE HandleRebind
  <2>1. table' \subseteq Data /\ grabbed' \subseteq Sessions
    BY <1>12 DEF HandleRebind, CallClose
  <2>2. scaler' \in ScalerStates  BY <1>12 DEF HandleRebind, CallClose, ScalerStates
  <2> QED  BY <2>1, <2>2, <1>12 DEF HandleRebind, CallClose, ScalerStates
<1>13. CASE ControlEnds  BY <1>13 DEF ControlEnds, Gone
<1>14. CASE CloseGrabs
  <2>1. table' \subseteq Data /\ grabbed' \subseteq Sessions  BY <1>14 DEF CloseGrabs
  <2>2. scaler' \in ScalerStates  BY <1>14 DEF CloseGrabs, ScalerStates
  <2> QED  BY <2>1, <2>2, <1>14 DEF CloseGrabs, ScalerStates
<1>15. CASE CloseSessions  BY <1>15 DEF CloseSessions
<1>16. CASE OwnerCloses
  <2>1. table' \subseteq Data /\ grabbed' \subseteq Sessions
    BY <1>16 DEF OwnerCloses, CallClose
  <2>2. scaler' \in ScalerStates  BY <1>16 DEF OwnerCloses, CallClose, ScalerStates
  <2> QED  BY ZenonT(30), <2>1, <2>2, <1>16 DEF OwnerCloses, CallClose, ScalerStates
<1>17. CASE \E v \in Streams :
             HandlerBegins(v) \/ HandlerCut(v) \/ UpgradeAnswered(v) \/ HandlerEnds(v)
  BY <1>17 DEF HandlerBegins, HandlerCut, UpgradeAnswered, HandlerEnds, HandlerStep, Free
<1>18. CASE \E v \in Streams, s \in Sessions : StreamOpens(v, s)  BY <1>18 DEF StreamOpens
<1>19. CASE Tick
  <2>1. table' \subseteq Data
    BY <1>19 DEF Tick, Burst, ScaleUp, ScaleDown, Scaler, Off, Least, Most, PoolTypeOK
  <2>2. scaler' \in ScalerStates
    <3>1. SessionCount \in Nat /\ desired \in Nat  BY PoolCounts DEF SessionCount, PoolTypeOK
    <3>2. \A w \in 0..MaxSessions :
            /\ \A l \in 0..MaxBurst :
                 [Off EXCEPT !.at = "adding", !.left = l, !.want = w] \in ScalerStates
            /\ [Off EXCEPT !.at = "picking", !.want = w] \in ScalerStates
      <4>1. Off \in ScalerStates  BY PoolAssumption DEF ScalerStates, ScalerSteps, Off, Sessions
      <4> QED  BY <4>1 DEF ScalerStates, ScalerSteps
    <3>3. CASE Burst
      <4>1. /\ Least(MaxBurst, MaxSessions - SessionCount) \in 0..MaxBurst
            /\ SessionCount + Least(MaxBurst, MaxSessions - SessionCount) \in 0..MaxSessions
        BY <3>1, <3>3, PoolAssumption DEF Burst, Least
      <4> QED  BY <3>2, <3>3, <4>1 DEF Burst, Scaler
    <3>4. CASE ScaleUp
      <4>1. Least(desired + 1, MaxSessions) \in 0..MaxSessions /\ 1 \in 0..MaxBurst
        BY <3>1, PoolAssumption DEF Least
      <4> QED  BY <3>2, <3>4, <4>1 DEF ScaleUp, Scaler
    <3>5. CASE ScaleDown
      <4>1. Most(desired - 1, MinSessions) \in 0..MaxSessions
        BY <3>1, PoolAssumption DEF Most
      <4> QED  BY <3>2, <3>5, <4>1 DEF ScaleDown, Scaler
    <3> QED  BY <3>3, <3>4, <3>5, <1>19 DEF Tick
  <2>3. UNCHANGED <<connect, closeVars, countVars, tunnelID, link, addVars, loopVars, handler,
                 rebind, done>>
    BY <1>19 DEF Tick, Burst, ScaleUp, ScaleDown, Scaler, Off, Least, Most
  <2> QED  BY <2>1, <2>2, <2>3 DEF PoolTypeOK, ScalerStates
<1>20. CASE \E s \in Data : ScalerAdds(s)  BY <1>20 DEF ScalerAdds, Scaler, Adds, Unused
<1>21. CASE Scaled  BY <1>21 DEF Scaled, Scaler, Off
<1>22. CASE ScalerPicks
  <2>1. table' \subseteq Data  BY <1>22 DEF ScalerPicks, Scaler, PoolTypeOK
  <2>2. scaler' \in ScalerStates
    BY <1>22 DEF ScalerPicks, Scaler, PoolTypeOK, ScalerSteps, ScalerStates, Sessions
  <2>3. UNCHANGED <<connect, closeVars, countVars, tunnelID, link, addVars, loopVars, handler,
                 rebind, done>>
    BY <1>22 DEF ScalerPicks, Scaler
  <2> QED  BY <2>1, <2>2, <2>3 DEF PoolTypeOK, ScalerStates
<1>23. CASE ScalerRemoves
  BY <1>23, ScalerRemovesOne DEF ScalerStates
<1>24. CASE ScalerCloses  BY <1>24 DEF ScalerCloses, Scaler, Off
<1>25. CASE ScalerEnds  BY <1>25 DEF ScalerEnds, Scaler, Off
<1>26. CASE Finish  BY <1>26 DEF Finish, WaitGroupEmpty
<1>27. CASE NewPoolClient
  BY <1>27, FreshKeeps DEF NewPoolClient
<1>28. CASE Connected  BY <1>28 DEF Connected
<1>29. CASE \E s \in Data : ReserveSlot(s)  BY <1>29 DEF ReserveSlot, Returns, Adds
<1>30. CASE \E s \in Data : AddFails(s)  BY <1>30 DEF AddFails, Returns, Adds
<1>31. CASE \E s \in Data : JoinTable(s)
  <2> SUFFICES ASSUME NEW s \in Data, JoinTable(s)  PROVE PoolTypeOK' /\ desired' <= MaxSessions
    BY <1>31
  <2>1. table' \subseteq Data  BY DEF JoinTable, Adds, PoolTypeOK
  <2>2. scaler' \in ScalerStates
    BY DEF JoinTable, Adds, PoolTypeOK, ScalerSteps, ScalerStates, Sessions
  <2>3. UNCHANGED <<connect, closeVars, primary, desired, tunnelID, link, adder, loopVars,
                 handler, scaler, rebind, done>>
    BY DEF JoinTable, Adds
  <2>4. adding' \in [Data -> AddSteps]  BY DEF JoinTable, Adds, PoolTypeOK, AddSteps
  <2>5. pending' \in Nat
    <3>1. s \in Takers  BY DEF JoinTable, Takers, Taking
    <3>2. Cardinality(Takers) # 0  BY <3>1, PoolCounts, FS_EmptySet
    <3> QED  BY <3>2, PoolCounts, SlotsNow DEF JoinTable
  <2> QED  BY <2>1, <2>2, <2>3, <2>4, <2>5, PoolAssumption DEF PoolTypeOK, ScalerStates
<1>32. CASE UNCHANGED poolVars  BY <1>32
<1> QED
  BY <1>1, <1>2, <1>3, <1>4, <1>5, <1>6, <1>7, <1>8, <1>9, <1>10, <1>11, <1>12, <1>13, <1>14,
     <1>15, <1>16, <1>17, <1>18, <1>19, <1>20, <1>21, <1>22, <1>23, <1>24, <1>25, <1>26,
     <1>27, <1>28, <1>29, <1>30, <1>31, <1>32
  DEF PoolNext, PoolRuns, PoolEnvironment, AddDataSession, Loop, Close, Control, Scale

(* Who takes a slot, and who gives it back.                                *)
LEMMA PoolSlotsKept ==
  ASSUME PoolIInv, [PoolNext]_poolVars
  PROVE  SlotsExact'
<1> USE DEF PoolIInv, Taking, PoolTypeOK, countVars, addVars
<1>1. CASE ConnectFails  BY <1>1, SlotsKept DEF ConnectFails
<1>2. CASE WarmUp  BY <1>2, SlotsKept DEF WarmUp, Unused
<1>3. CASE WarmUpSkipped  BY <1>3, SlotsKept DEF WarmUpSkipped
<1>4. CASE ConnectReturns  BY <1>4, SlotsKept DEF ConnectReturns, Off
<1>5. CASE \E s \in Data : Dialed(s)  BY <1>5, SlotsKept DEF Dialed, Adds
<1>6. CASE \E s \in Data : Accepted(s)  BY <1>6, SlotsKept DEF Accepted, Adds
<1>7. CASE \E s \in Data : StartLoops(s)  BY <1>7, SlotsKept DEF StartLoops, Returns, Adds
<1>8. CASE \E s \in Sessions : LinkFails(s)  BY <1>8, SlotsKept DEF LinkFails
<1>9. CASE \E s \in Sessions : Drop(s)
  BY <1>9, SlotsKept DEF Drop, NoticesLoss, Gone, CallClose
<1>10. CASE \E s \in Sessions : DropReturns(s)  BY <1>10, SlotsKept DEF DropReturns
<1>11. CASE \E s \in Sessions : LoopsEnd(s)  BY <1>11, SlotsKept DEF LoopsEnd, Gone
<1>12. CASE HandleRebind  BY <1>12, SlotsKept DEF HandleRebind, CallClose
<1>13. CASE ControlEnds  BY <1>13, SlotsKept DEF ControlEnds, Gone
<1>14. CASE CloseGrabs  BY <1>14, SlotsKept DEF CloseGrabs
<1>15. CASE CloseSessions  BY <1>15, SlotsKept DEF CloseSessions
<1>16. CASE OwnerCloses  BY <1>16, SlotsKept DEF OwnerCloses, CallClose
<1>17. CASE \E v \in Streams :
             HandlerBegins(v) \/ HandlerCut(v) \/ UpgradeAnswered(v) \/ HandlerEnds(v)
  BY <1>17, SlotsKept
  DEF HandlerBegins, HandlerCut, UpgradeAnswered, HandlerEnds, HandlerStep, Free
<1>18. CASE \E v \in Streams, s \in Sessions : StreamOpens(v, s)
  BY <1>18, SlotsKept DEF StreamOpens
<1>19. CASE Tick
  BY <1>19, SlotsKept DEF Tick, Burst, ScaleUp, ScaleDown, Scaler, Off, Least, Most
<1>20. CASE \E s \in Data : ScalerAdds(s)
  BY <1>20, SlotsKept DEF ScalerAdds, Scaler, Adds, Unused
<1>21. CASE Scaled  BY <1>21, SlotsKept DEF Scaled, Scaler, Off
<1>22. CASE ScalerPicks  BY <1>22, SlotsKept DEF ScalerPicks, Scaler
<1>23. CASE ScalerRemoves
  BY <1>23, ScalerRemovesOne, SlotsKept
<1>24. CASE ScalerCloses  BY <1>24, SlotsKept DEF ScalerCloses, Scaler, Off
<1>25. CASE ScalerEnds  BY <1>25, SlotsKept DEF ScalerEnds, Scaler, Off
<1>26. CASE Finish  BY <1>26, SlotsKept DEF Finish, WaitGroupEmpty
<1>27. CASE NewPoolClient  BY <1>27, FreshKeeps DEF NewPoolClient
<1>28. CASE Connected
  <2>1. Takers = {} /\ table = {}
    BY <1>28 DEF Connected, Takers, Taking, PoolOwners, BeforeIsQuiet
  <2>2. Takers' = Takers /\ table' = table /\ pending' = pending /\ primary' = TRUE
    BY <1>28 DEF Connected, Takers, addVars
  <2> QED  BY <2>1, <2>2, SlotsNow, SlotsNext, FS_EmptySet, PoolAssumption
<1>29. CASE \E s \in Data : ReserveSlot(s)
  <2> SUFFICES ASSUME NEW s \in Data, ReserveSlot(s)  PROVE SlotsExact'  BY <1>29
  <2>1. CASE adding'[s] = "none" /\ pending' = pending
    <3>1. \A d \in Data : adding'[d] \in Taking <=> adding[d] \in Taking
      BY <2>1 DEF ReserveSlot, Returns, Adds, Taking, PoolTypeOK
    <3> QED  BY <2>1, <3>1, SlotsKept DEF ReserveSlot
  <2>2. CASE adding'[s] = "dialing" /\ pending' = pending + 1 /\ SessionCount < MaxSessions
    <3>1. Takers' = Takers \cup {s} /\ s \notin Takers
      BY <2>2 DEF ReserveSlot, Returns, Adds, Taking, Takers, PoolTypeOK
    <3>2. Cardinality(Takers \cup {s}) = Cardinality(Takers) + 1
      BY <3>1, PoolCounts, FS_AddElement
    <3>3. table' = table /\ primary' = primary  BY DEF ReserveSlot
    <3> QED
      BY <2>2, <3>1, <3>2, <3>3, SlotsNow, SlotsNext, PoolCounts, PoolAssumption
      DEF SessionCount
  <2>3. adding[s] = "start" /\ MaxSessions \in Nat /\ SessionCount \in Nat
    BY PoolCounts, PoolAssumption DEF ReserveSlot, SessionCount, PoolTypeOK
  <2> QED  BY <2>1, <2>2, <2>3 DEF ReserveSlot, Returns, Adds, PoolTypeOK
<1>30. CASE \E s \in Data : AddFails(s)
  <2> SUFFICES ASSUME NEW s \in Data, AddFails(s)  PROVE SlotsExact'  BY <1>30
  <2>1. Takers' = Takers \ {s} /\ s \in Takers
    BY DEF AddFails, Returns, Adds, Taking, Takers, PoolTypeOK
  <2>2. Cardinality(Takers \ {s}) = Cardinality(Takers) - 1
    BY <2>1, PoolCounts, FS_RemoveElement
  <2>3. Cardinality(Takers) # 0  BY <2>1, PoolCounts, FS_EmptySet
  <2>4. pending' = pending - 1 /\ table' = table /\ primary' = primary
    BY <2>3, PoolCounts, SlotsNow DEF AddFails
  <2> QED  BY <2>1, <2>2, <2>4, SlotsNow, SlotsNext, PoolCounts, PoolAssumption
<1>31. CASE \E s \in Data : JoinTable(s)
  <2> SUFFICES ASSUME NEW s \in Data, JoinTable(s)  PROVE SlotsExact'  BY <1>31
  <2>1. Takers' = Takers \ {s} /\ s \in Takers
    BY DEF JoinTable, Adds, Taking, Takers, PoolTypeOK
  <2>2. Cardinality(Takers \ {s}) = Cardinality(Takers) - 1
    BY <2>1, PoolCounts, FS_RemoveElement
  <2>3. Cardinality(table') <= Cardinality(table) + 1 /\ Cardinality(table') \in Nat
    <3>1. table' = table \cup {s}  BY DEF JoinTable
    <3>2. CASE s \in table
      <4>1. table' = table  BY <3>1, <3>2
      <4> QED  BY <4>1, PoolCounts
    <3>3. CASE s \notin table
      <4>1. Cardinality(table \cup {s}) = Cardinality(table) + 1
        BY <3>3, PoolCounts, FS_AddElement
      <4> QED  BY <3>1, <4>1, PoolCounts
    <3> QED  BY <3>2, <3>3
  <2>4. pending' = pending - 1 /\ primary' = primary  BY DEF JoinTable
  <2> QED  BY <2>1, <2>2, <2>3, <2>4, SlotsNow, SlotsNext, PoolCounts, PoolAssumption
<1>32. CASE UNCHANGED poolVars  BY <1>32, SlotsKept DEF poolVars
<1> QED
  BY <1>1, <1>2, <1>3, <1>4, <1>5, <1>6, <1>7, <1>8, <1>9, <1>10, <1>11, <1>12, <1>13, <1>14,
     <1>15, <1>16, <1>17, <1>18, <1>19, <1>20, <1>21, <1>22, <1>23, <1>24, <1>25, <1>26,
     <1>27, <1>28, <1>29, <1>30, <1>31, <1>32
  DEF PoolNext, PoolRuns, PoolEnvironment, AddDataSession, Loop, Close, Control, Scale

(* Who owns what.                                                          *)
LEMMA PoolOwnersKept ==
  ASSUME PoolIInv, [PoolNext]_poolVars
  PROVE  PoolOwners'
<1> USE PoolAssumption
    DEF PoolIInv, PoolOwners, BeforeIsQuiet, CloseTakesAll, CallersWait, AllOwned, Owned,
        DoneIsLast,
        PoolTypeOK, Sessions, poolVars, closeVars, countVars, addVars, loopVars
<1>1. CASE ConnectFails  BY <1>1 DEF ConnectFails
<1>2. CASE WarmUp  BY <1>2 DEF WarmUp, Unused
<1>3. CASE WarmUpSkipped  BY <1>3 DEF WarmUpSkipped
<1>4. CASE ConnectReturns  BY <1>4 DEF ConnectReturns, Off
<1>5. CASE \E s \in Data : Dialed(s)  BY <1>5 DEF Dialed, Adds
<1>6. CASE \E s \in Data : Accepted(s)  BY <1>6 DEF Accepted, Adds
<1>7. CASE \E s \in Data : StartLoops(s)  BY <1>7 DEF StartLoops, Returns, Adds
<1>8. CASE \E s \in Sessions : LinkFails(s)  BY <1>8 DEF LinkFails
<1>9. CASE \E s \in Sessions : Drop(s)  BY <1>9 DEF Drop, NoticesLoss, Gone, CallClose
<1>10. CASE \E s \in Sessions : DropReturns(s)  BY <1>10 DEF DropReturns
<1>11. CASE \E s \in Sessions : LoopsEnd(s)  BY <1>11 DEF LoopsEnd, Gone
<1>12. CASE HandleRebind  BY <1>12 DEF HandleRebind, CallClose
<1>13. CASE ControlEnds  BY <1>13 DEF ControlEnds, Gone
<1>14. CASE CloseGrabs  BY <1>14 DEF CloseGrabs
<1>15. CASE CloseSessions  BY <1>15 DEF CloseSessions
<1>16. CASE OwnerCloses  BY <1>16 DEF OwnerCloses, CallClose
<1>17. CASE \E v \in Streams :
             HandlerBegins(v) \/ HandlerCut(v) \/ UpgradeAnswered(v) \/ HandlerEnds(v)
  BY <1>17 DEF HandlerBegins, HandlerCut, UpgradeAnswered, HandlerEnds, HandlerStep, Free
<1>18. CASE \E v \in Streams, s \in Sessions : StreamOpens(v, s)  BY <1>18 DEF StreamOpens
<1>19. CASE Tick  BY <1>19 DEF Tick, Burst, ScaleUp, ScaleDown, Scaler, Off, Least, Most
<1>20. CASE \E s \in Data : ScalerAdds(s)  BY <1>20 DEF ScalerAdds, Scaler, Adds, Unused
<1>21. CASE Scaled  BY <1>21 DEF Scaled, Scaler, Off
<1>22. CASE ScalerPicks  BY <1>22 DEF ScalerPicks, Scaler
<1>23. CASE ScalerRemoves
  BY <1>23, ScalerRemovesOne
<1>24. CASE ScalerCloses  BY <1>24 DEF ScalerCloses, Scaler, Off
<1>25. CASE ScalerEnds  BY <1>25 DEF ScalerEnds, Scaler, Off
<1>26. CASE Finish  BY <1>26 DEF Finish, WaitGroupEmpty
<1>27. CASE NewPoolClient  BY <1>27, FreshKeeps DEF NewPoolClient
<1>28. CASE Connected  BY <1>28 DEF Connected
<1>29. CASE \E s \in Data : ReserveSlot(s)  BY <1>29 DEF ReserveSlot, Returns, Adds
<1>30. CASE \E s \in Data : AddFails(s)  BY <1>30 DEF AddFails, Returns, Adds
<1>31. CASE \E s \in Data : JoinTable(s)  BY <1>31 DEF JoinTable, Adds
<1>32. CASE UNCHANGED poolVars  BY <1>32
<1> QED
  BY <1>1, <1>2, <1>3, <1>4, <1>5, <1>6, <1>7, <1>8, <1>9, <1>10, <1>11, <1>12, <1>13, <1>14,
     <1>15, <1>16, <1>17, <1>18, <1>19, <1>20, <1>21, <1>22, <1>23, <1>24, <1>25, <1>26,
     <1>27, <1>28, <1>29, <1>30, <1>31, <1>32
  DEF PoolNext, PoolRuns, PoolEnvironment, AddDataSession, Loop, Close, Control, Scale

LEMMA PoolStepKeeps == ASSUME PoolIInv, [PoolNext]_poolVars  PROVE PoolIInv'
BY PoolTypesKept, PoolSlotsKept, PoolOwnersKept DEF PoolIInv

LEMMA PoolBegins == ASSUME PoolInit  PROVE PoolIInv
<1>1. PoolTypeOK
  <2>1. scaler \in ScalerStates
    BY PoolAssumption DEF PoolInit, Off, ScalerStates, ScalerSteps, Sessions
  <2>2. handler \in [Streams -> [at : HandlerSteps, on : Sessions]]
    BY DEF PoolInit, Free, HandlerSteps, Sessions
  <2> QED
    BY <2>1, <2>2 DEF PoolInit, PoolTypeOK, ScalerStates, LinkStates, AddSteps, LoopSteps
<1>2. SlotsExact
  <2>1. Takers = {}  BY DEF PoolInit, Takers, Taking
  <2> QED  BY <2>1, SlotsNow, FS_EmptySet, PoolAssumption DEF PoolInit
<1>3. PoolOwners
  BY DEF PoolInit, Off, PoolOwners, BeforeIsQuiet, CloseTakesAll, CallersWait, AllOwned,
         DoneIsLast, Sessions
<1>4. desired <= MaxSessions  BY PoolAssumption DEF PoolInit
<1> QED  BY <1>1, <1>2, <1>3, <1>4 DEF PoolIInv

(* The argument: whatever is open is in the hands of somebody who will     *)
(* close it, and who has called addDataSession waits for it to return.     *)
THEOREM PoolInductive == PoolSpec => []PoolIInv
<1>1. PoolInit => PoolIInv  BY PoolBegins
<1>2. PoolIInv /\ [PoolNext]_poolVars => PoolIInv'  BY PoolStepKeeps
<1> QED  BY <1>1, <1>2, PTL DEF PoolSpec

(* The types of the pool's variables.                                      *)
THEOREM PoolTypeCorrect == PoolSpec => []PoolTypeOK
BY PoolInductive, PTL DEF PoolIInv

(* addDataSession gives back the slot it took, however it ends, and there  *)
(* are never more sessions than MaxSessions.                               *)
THEOREM SlotsExactCorrect == PoolSpec => []SlotsExact
BY PoolInductive, PTL DEF PoolIInv

(* The argument: what Close did not take is in the hands of somebody who   *)
(* will close it, and nobody is left when the client is done.              *)
LEMMA NothingOpen == ASSUME PoolIInv  PROVE NothingLeftOpen
<1> SUFFICES ASSUME closing = "done"
             PROVE  /\ table = {} /\ ~primary
                    /\ \A s \in Sessions : link[s] # "closed" =>
                         \/ s \in Data /\ adding[s] \in {"handshake", "joining"}
                         \/ scaler.at = "closing" /\ scaler.victim = s
                         \/ loops[s] = "drop"
                    /\ done => pending = 0 /\ \A s \in Sessions : link[s] = "closed"
  BY DEF NothingLeftOpen
<1>1. table = {} /\ ~primary /\ grabbed = {}  BY DEF PoolIInv, PoolOwners, CloseTakesAll
<1>2. \A s \in Sessions : link[s] # "closed" =>
           \/ s \in Data /\ adding[s] \in {"handshake", "joining"}
           \/ scaler.at = "closing" /\ scaler.victim = s
           \/ loops[s] = "drop"
  BY <1>1 DEF PoolIInv, PoolOwners, AllOwned, Owned
<1>3. ASSUME done  PROVE pending = 0 /\ \A s \in Sessions : link[s] = "closed"
  <2>1. scaler.at = "off" /\ connect = "up" /\ \A s \in Sessions : loops[s] = "off"
    BY <1>3 DEF PoolIInv, PoolOwners, DoneIsLast
  <2>2. \A s \in Data : adding[s] = "none"
    BY <2>1 DEF PoolIInv, PoolOwners, CallersWait, PoolTypeOK
  <2>3. Takers = {}  BY <2>2 DEF Takers, Taking
  <2>4. pending = 0  BY <2>3, SlotsNow, FS_EmptySet DEF PoolIInv
  <2> QED  BY <1>2, <2>1, <2>2, <2>4
<1> QED  BY <1>1, <1>2, <1>3

(* Close leaves no connection behind.                                      *)
THEOREM NothingLeftOpenCorrect == PoolSpec => []NothingLeftOpen
BY NothingOpen, PoolInductive, PTL

----------------------------------------------------------------------------
(* The supervisor: the pool of whichever client the loop made last, and    *)
(* the name the loop will ask for.                                         *)
(* No client has brought a rebind before it is connected.                  *)
NoneAskedYet == connect \in {"idle", "dialing"} => rebind = NoRebind

(* Between two clients there is none, or one that is done: its control     *)
(* loop is over, and what it left in rebindTo is what is asked for next.   *)
BetweenClients ==
  owner \in {"start", "backoff"} =>
    /\ connect = "idle" \/ done
    /\ rebind # NoRebind => wanted = rebind

SupervisorIInv == TypeOK /\ PoolIInv /\ NoneAskedYet /\ BetweenClients

(* Only the control loop notes a rebind, and Connect goes one way.         *)
LEMMA PoolStepIs ==
  ASSUME PoolIInv, PoolRuns \/ PoolEnvironment \/ OwnerCloses
  PROVE  /\ rebind' = rebind \/ control = "run"
         /\ connect' = connect \/ connect' \notin {"idle", "dialing"}
         /\ connect = "idle" => connect' = "idle"
         /\ done => done'
<1> USE DEF closeVars, countVars, addVars, loopVars
<1>1. CASE Connected \/ WarmUp \/ WarmUpSkipped \/ ConnectReturns
  BY <1>1 DEF Connected, WarmUp, WarmUpSkipped, ConnectReturns
<1>2. CASE Close \/ Control \/ Finish \/ OwnerCloses
  BY <1>2
  DEF Close, CloseGrabs, CloseSessions, Control, HandleRebind, ControlEnds, Finish, OwnerCloses
<1>3. CASE Scale \/ Tick
  <2>1. CASE \E s \in Data : ScalerAdds(s)  BY <2>1 DEF ScalerAdds
  <2>2. CASE ScalerRemoves  BY <2>2 DEF ScalerRemoves
  <2>3. CASE Scaled \/ ScalerPicks \/ ScalerCloses \/ ScalerEnds \/ Tick
    BY <2>3 DEF Scaled, ScalerPicks, ScalerCloses, ScalerEnds, Tick
  <2> QED  BY <1>3, <2>1, <2>2, <2>3 DEF Scale
<1>4. CASE \E s \in Data : AddDataSession(s)
  BY <1>4
  DEF AddDataSession, ReserveSlot, AddFails, Dialed, Accepted, JoinTable, StartLoops
<1>5. CASE \E s \in Sessions : Loop(s) \/ LinkFails(s)
  BY <1>5 DEF Loop, Drop, DropReturns, LoopsEnd, LinkFails
<1>6. CASE \E v \in Streams : \/ HandlerBegins(v) \/ HandlerCut(v) \/ UpgradeAnswered(v)
                              \/ HandlerEnds(v) \/ \E s \in Sessions : StreamOpens(v, s)
  BY <1>6
  DEF HandlerBegins, HandlerCut, UpgradeAnswered, HandlerEnds, HandlerStep, StreamOpens
<1> QED  BY <1>1, <1>2, <1>3, <1>4, <1>5, <1>6 DEF PoolRuns, PoolEnvironment

(* A step of the pool changes nothing about the name that is asked for.    *)
LEMMA PoolStepBetween ==
  ASSUME SupervisorIInv, PoolRuns \/ PoolEnvironment \/ OwnerCloses, UNCHANGED <<owner, wanted>>
  PROVE  PoolIInv' /\ NoneAskedYet' /\ BetweenClients'
<1>1. PoolIInv'  BY PoolStepKeeps DEF SupervisorIInv, PoolNext
<1>2. connect \in {"idle", "dialing"} => control = "off" /\ rebind = NoRebind
  BY DEF SupervisorIInv, NoneAskedYet, PoolIInv, PoolOwners, BeforeIsQuiet
<1>3. done => control = "off"
  BY DEF SupervisorIInv, PoolIInv, PoolOwners, DoneIsLast
<1>4. NoneAskedYet'  BY <1>2, PoolStepIs DEF NoneAskedYet, SupervisorIInv
<1>5. BetweenClients'  BY <1>2, <1>3, PoolStepIs DEF BetweenClients, SupervisorIInv
<1> QED  BY <1>1, <1>4, <1>5

LEMMA SupervisorStepKeeps == ASSUME SupervisorIInv, [Next]_vars  PROVE SupervisorIInv'
<1> USE SupervisorAssumption, PoolAssumption DEF SupervisorIInv
<1>0. TypeOK /\ tries \in Nat /\ MaxWait \in Nat /\ NextTry \in Nat
  BY DEF TypeOK, NextTry
<1>1. CASE Pool \/ Environment
  <2>1. (PoolRuns \/ PoolEnvironment) /\ UNCHANGED ownerVars
    BY <1>1 DEF Pool, Environment, Own
  <2>2. PoolIInv' /\ NoneAskedYet' /\ BetweenClients'
    BY <2>1, PoolStepBetween DEF ownerVars
  <2> QED  BY <2>1, <2>2 DEF TypeOK, ownerVars, PoolIInv
<1>2. CASE Quit \/ WaitOver \/ Serve
  <2>1. UNCHANGED poolVars  BY <1>2 DEF Quit, WaitOver, Serve
  <2>2. PoolIInv'  BY <2>1, PoolStepKeeps
  <2>3. PoolTypeOK' /\ UNCHANGED <<connect, rebind, done>>
    BY <2>1, <2>2 DEF PoolIInv, poolVars
  <2>4. TypeOK'
    <3>1. CASE Quit  BY <2>3, <3>1 DEF TypeOK, Quit
    <3>2. CASE WaitOver  BY <2>3, <3>2 DEF TypeOK, WaitOver, Goes
    <3>3. CASE Serve
      <4>1. wanted' \in Names \cup Targets \cup {NoRebind}  BY <3>3 DEF TypeOK, Serve
      <4> QED  BY <2>3, <3>3, <4>1 DEF TypeOK, Serve, Goes
    <3> QED  BY <1>2, <3>1, <3>2, <3>3
  <2>5. NoneAskedYet' /\ BetweenClients'
    BY <1>2, <2>3 DEF NoneAskedYet, BetweenClients, Quit, WaitOver, Serve, Goes
  <2> QED  BY <2>2, <2>4, <2>5
<1>3. CASE NewClient \/ QuitBetween \/ CloseTimedOut
  <2>1. PICK step \in {"idle", "dialing"} : Fresh(step)
    BY <1>3 DEF NewClient, NewPoolClient, QuitBetween, CloseTimedOut, Exits, ProcessEnds
  <2>2. PoolIInv' /\ rebind' = NoRebind  BY <2>1, FreshKeeps, FreshIs
  <2>3. owner' \in {"connecting", "stopped"} /\ UNCHANGED <<mode, quit, once, wanted, tries>>
    BY <1>3 DEF NewClient, QuitBetween, CloseTimedOut, Exits, Goes
  <2> QED  BY <2>2, <2>3 DEF TypeOK, PoolIInv, NoneAskedYet, BetweenClients
<1>4. CASE \E e \in Errors : ConnectError(e)
  <2>1. ConnectFails /\ UNCHANGED <<mode, quit, once, wanted>> /\ owner' \in {"failed", "backoff"}
        /\ tries' \in {tries, NextTry}
    BY <1>4 DEF ConnectError, Goes
  <2>2. PoolIInv'  BY <2>1, PoolStepKeeps DEF PoolNext
  <2>3. connect = "dialing" /\ connect' = "idle" /\ rebind' = rebind  BY <2>1 DEF ConnectFails
  <2>4. TypeOK'  BY <1>0, <2>1, <2>2 DEF TypeOK, PoolIInv
  <2>5. NoneAskedYet' /\ BetweenClients'  BY <2>3 DEF NoneAskedYet, BetweenClients
  <2> QED  BY <2>2, <2>4, <2>5
<1>5. CASE Disconnected
  <2>1. /\ UNCHANGED <<mode, quit, once>> /\ done
        /\ wanted' = IF rebind # NoRebind THEN rebind ELSE wanted
        /\ \/ owner' = "failed" /\ Fresh("idle")
           \/ owner' = "backoff" /\ UNCHANGED poolVars
    BY <1>5 DEF Disconnected, Exits, Goes, ProcessEnds
  <2>2. tries' \in Nat
    <3>1. PICK base \in Nat : tries' \in {base + 1, MaxWait}  BY <1>0, <1>5 DEF Disconnected
    <3> QED  BY <1>0, <3>1
  <2>3. rebind \in Targets \cup {NoRebind}  BY <1>0 DEF TypeOK, PoolTypeOK
  <2>4. PoolIInv'  BY <2>1, FreshKeeps, PoolStepKeeps
  <2>5. TypeOK'  BY <1>0, <2>1, <2>2, <2>3, <2>4 DEF TypeOK, PoolIInv
  <2>6. NoneAskedYet' /\ BetweenClients'
    <3>1. CASE owner' = "failed" /\ Fresh("idle")
      BY <3>1, FreshIs DEF NoneAskedYet, BetweenClients
    <3>2. CASE owner' = "backoff" /\ UNCHANGED poolVars
      BY <2>1, <3>2 DEF NoneAskedYet, BetweenClients, poolVars
    <3> QED  BY <2>1, <3>1, <3>2
  <2> QED  BY <2>4, <2>5, <2>6
<1>6. CASE QuitServing
  <2>1. OwnerCloses /\ owner' = "closing" /\ UNCHANGED <<mode, quit, once, wanted, tries>>
    BY <1>6 DEF QuitServing, Goes
  <2>2. PoolIInv'  BY <2>1, PoolStepKeeps DEF PoolNext
  <2>3. NoneAskedYet'
    BY <2>1 DEF OwnerCloses, NoneAskedYet
  <2> QED  BY <2>1, <2>2, <2>3 DEF TypeOK, PoolIInv, BetweenClients
<1>7. CASE UNCHANGED vars
  <2>1. UNCHANGED poolVars /\ UNCHANGED ownerVars  BY <1>7 DEF vars
  <2>2. PoolIInv'  BY <2>1, PoolStepKeeps
  <2> QED  BY <2>1, <2>2 DEF TypeOK, PoolIInv, NoneAskedYet, BetweenClients, ownerVars, poolVars
<1> QED  BY <1>1, <1>2, <1>3, <1>4, <1>5, <1>6, <1>7 DEF Next, Owner

(* The pool's invariant holds of every client of the loop, one after the   *)
(* other, and of what the loop remembers between them.                     *)
THEOREM SupervisorInductive == Spec => []SupervisorIInv
<1>1. ASSUME Init  PROVE SupervisorIInv
  <2>1. PoolIInv  BY <1>1, PoolBegins DEF Init
  <2>2. rebind = NoRebind /\ connect = "idle"  BY <1>1 DEF Init, PoolInit
  <2>3. TypeOK  BY <1>1, <2>1 DEF Init, TypeOK, PoolIInv
  <2> QED  BY <2>1, <2>2, <2>3 DEF SupervisorIInv, NoneAskedYet, BetweenClients
<1>2. SupervisorIInv /\ [Next]_vars => SupervisorIInv'  BY SupervisorStepKeeps
<1> QED  BY <1>1, <1>2, PTL DEF Spec

(* The slots are exact and nothing is left open in any client of the loop, *)
(* whenever the loop makes the next one and however the process ends.      *)
THEOREM SupervisedPoolCorrect == Spec => [](SlotsExact /\ NothingLeftOpen)
<1>1. SupervisorIInv => SlotsExact /\ NothingLeftOpen
  BY NothingOpen DEF SupervisorIInv, PoolIInv
<1> QED  BY <1>1, SupervisorInductive, PTL

(* RebindHonoured: whatever ended the client, the rebind it brought is     *)
(* what the next connection asks for.                                      *)
THEOREM RebindHonouredCorrect == Spec => RebindHonoured
<1>1. SupervisorIInv /\ [Next]_vars => [(NewClient /\ rebind # NoRebind) => wanted = rebind]_vars
  BY DEF SupervisorIInv, BetweenClients, NewClient
<1> QED  BY <1>1, SupervisorInductive, PTL DEF Spec, RebindHonoured

----------------------------------------------------------------------------
(* The daemons.                                                            *)
(* A process has a target as long as it is a daemon, and a command has one *)
(* with the process number it found.                                       *)
WhoIsWho ==
  /\ \A p \in PIDs : /\ process[p].does \in Live => process[p].target \in Forwards
                     /\ process[p].does \notin Live => process[p].target = NoTarget
  /\ \A k \in Commands :
       command[k].at # "idle" => command[k].target \in Forwards /\ command[k].pid \in PIDs

(* Where nothing is tangled there is one daemon, the one a command has     *)
(* found, and none is left when it goes to remove the file.                *)
OneDaemon ==
  \A t \in Forwards \ tangled :
    /\ \A p, q \in PIDs : process[p].target = t /\ process[q].target = t => p = q
    /\ \A k \in Commands : command[k].at # "idle" /\ command[k].target = t =>
         /\ \A p \in PIDs : process[p].target = t =>
              p = command[k].pid /\ command[k].at \notin {"remove", "removed"}
         /\ command[k].at = "removed" => file[t] = NoFile
    /\ \A p \in PIDs : process[p].target = t /\ process[p].does = "serving" => file[t] = p

DaemonsIInv == DaemonsTypeOK /\ WhoIsWho /\ OneDaemon
----------------------------------------------------------------------------
ProcessStates ==
  [does : {"none", "foreign"} \cup Live, target : Forwards \cup {NoTarget}, told : BOOLEAN]

(* What becomes of one process leaves the others alone.                    *)
LEMMA EndIs ==
  ASSUME DaemonsTypeOK, NEW p \in PIDs, DaemonEnds(p)
  PROVE  /\ process' \in [PIDs -> ProcessStates]
         /\ process'[p].does = "none" /\ process'[p].target = NoTarget
         /\ \A q \in PIDs \ {p} : process'[q] = process[q]
<1>1. NoProcess \in ProcessStates /\ NoProcess.does = "none" /\ NoProcess.target = NoTarget
  BY DEF NoProcess, ProcessStates
<1>2. process \in [PIDs -> ProcessStates] /\ process' = [process EXCEPT ![p] = NoProcess]
  BY DEF DaemonsTypeOK, ProcessStates, DaemonEnds
<1> QED  BY <1>1, <1>2

LEMMA DoesIs ==
  ASSUME DaemonsTypeOK, NEW p \in PIDs, NEW what \in {"none", "foreign"} \cup Live, Does(p, what)
  PROVE  /\ process' \in [PIDs -> ProcessStates]
         /\ process'[p].does = what /\ process'[p].target = process[p].target
         /\ \A q \in PIDs \ {p} : process'[q] = process[q]
BY DEF DaemonsTypeOK, ProcessStates, Does

CommandSteps == {"idle", "check", "signal", "killing", "remove", "removed"}
CommandStates == [at : CommandSteps, kind : {"list", "stop"}, target : Forwards \cup {NoTarget},
                  pid : PIDs \cup {NoFile}]

LEMMA DoneIs ==
  ASSUME DaemonsTypeOK, NEW k \in Commands, Done(k)
  PROVE  /\ command' \in [Commands -> CommandStates] /\ command'[k].at = "idle"
         /\ \A j \in Commands \ {k} : command'[j] = command[j]
<1>1. NoCommand \in CommandStates /\ NoCommand.at = "idle"
  BY DEF NoCommand, CommandStates, CommandSteps
<1>2. command \in [Commands -> CommandStates] /\ command' = [command EXCEPT ![k] = NoCommand]
  BY DEF DaemonsTypeOK, CommandStates, CommandSteps, Done
<1> QED  BY <1>1, <1>2

LEMMA CommandAtIs ==
  ASSUME DaemonsTypeOK, NEW k \in Commands, NEW step \in CommandSteps, CommandAt(k, step)
  PROVE  /\ command' \in [Commands -> CommandStates] /\ command'[k].at = step
         /\ command'[k].target = command[k].target /\ command'[k].pid = command[k].pid
         /\ \A j \in Commands \ {k} : command'[j] = command[j]
BY DEF DaemonsTypeOK, CommandStates, CommandSteps, CommandAt

LEMMA DaemonsTyped ==
  /\ DaemonsTypeOK <=> /\ process \in [PIDs -> ProcessStates]
                       /\ file \in [Forwards -> PIDs \cup {NoFile}]
                       /\ command \in [Commands -> CommandStates] /\ tangled \subseteq Forwards
  /\ DaemonsTypeOK' <=> /\ process' \in [PIDs -> ProcessStates]
                        /\ file' \in [Forwards -> PIDs \cup {NoFile}]
                        /\ command' \in [Commands -> CommandStates] /\ tangled' \subseteq Forwards
BY DEF DaemonsTypeOK, ProcessStates, CommandStates, CommandSteps

(* What writes no file and neither starts a daemon nor sets it serving.    *)
LEMMA MovesKeep ==
  ASSUME DaemonsIInv, UNCHANGED <<file, tangled>>,
         process' \in [PIDs -> ProcessStates], command' \in [Commands -> CommandStates],
         \A p \in PIDs :
           \/ /\ process'[p].target = process[p].target
              /\ process'[p].does \in Live <=> process[p].does \in Live
              /\ process'[p].does = "serving" => process[p].does = "serving"
           \/ process'[p].does = "none" /\ process'[p].target = NoTarget,
         \A k \in Commands :
           \/ command'[k].at = "idle"
           \/ /\ command[k].at # "idle"
              /\ command'[k].target = command[k].target /\ command'[k].pid = command[k].pid
              /\ command'[k].at = "removed" => command[k].at = "removed"
              /\ command'[k].at = "remove" =>
                   command[k].at = "remove" \/ process'[command[k].pid].does = "none"
  PROVE  DaemonsIInv'
<1> USE DaemonsAssumption DEF DaemonsIInv
<1>1. DaemonsTypeOK'  BY DaemonsTyped
<1>2. WhoIsWho'  BY DEF WhoIsWho, Live
<1>3. ASSUME NEW t \in Forwards \ tangled'
      PROVE  /\ \A p, q \in PIDs : process'[p].target = t /\ process'[q].target = t => p = q
             /\ \A p \in PIDs : process'[p].target = t /\ process'[p].does = "serving" => file'[t] = p
  BY DEF OneDaemon
<1>4. ASSUME NEW t \in Forwards \ tangled', NEW k \in Commands, command'[k].at # "idle",
             command'[k].target = t
      PROVE  /\ \A p \in PIDs : process'[p].target = t =>
                  p = command'[k].pid /\ command'[k].at \notin {"remove", "removed"}
             /\ command'[k].at = "removed" => file'[t] = NoFile
  <2>1. /\ command[k].at # "idle" /\ command[k].target = t /\ command'[k].pid = command[k].pid
        /\ t \in Forwards \ tangled
    BY <1>4
  <2>2. \A p \in PIDs : process'[p].target = t =>
             process[p].target = t /\ process'[p].does # "none"
    BY <1>2 DEF WhoIsWho, Live
  <2>3. \A p \in PIDs : process[p].target = t =>
             p = command[k].pid /\ command[k].at \notin {"remove", "removed"}
    BY <2>1 DEF OneDaemon
  <2>4. command[k].at = "removed" => file[t] = NoFile  BY <2>1 DEF OneDaemon
  <2> QED  BY <1>4, <2>1, <2>2, <2>3, <2>4
<1>5. OneDaemon'  BY <1>3, <1>4 DEF OneDaemon
<1> QED  BY <1>1, <1>2, <1>5

LEMMA StartKeeps ==
  ASSUME DaemonsIInv, NEW p \in PIDs, NEW t \in Forwards, StartDaemon(p, t)
  PROVE  DaemonsIInv'
<1> USE DaemonsAssumption DEF DaemonsIInv
<1>1. /\ process[p].does = "none" /\ process \in [PIDs -> ProcessStates]
      /\ process' = [process EXCEPT ![p] = [does |-> "connecting", target |-> t, told |-> FALSE]]
      /\ tangled' = IF DaemonsOf(t) = {} /\ CommandsOn(t) = {} THEN tangled ELSE tangled \cup {t}
      /\ UNCHANGED <<file, command>>
  BY DaemonsTyped DEF StartDaemon
<1>2. /\ process' \in [PIDs -> ProcessStates] /\ process'[p].does = "connecting"
      /\ process'[p].target = t /\ \A q \in PIDs \ {p} : process'[q] = process[q]
  <2>1. [does |-> "connecting", target |-> t, told |-> FALSE] \in ProcessStates
    BY DEF ProcessStates, Live
  <2> QED  BY <1>1, <2>1
<1>3. DaemonsTypeOK'  BY <1>1, <1>2, DaemonsTyped
<1>4. WhoIsWho'  BY <1>1, <1>2 DEF WhoIsWho, Live
<1>5. tangled \subseteq tangled' /\ process[p].target = NoTarget
  BY <1>1 DEF WhoIsWho, Live
<1>6. t \notin tangled' => /\ \A q \in PIDs : process[q].target # t
                          /\ \A k \in Commands : command[k].at = "idle" \/ command[k].target # t
  BY <1>1 DEF DaemonsOf, CommandsOn
<1>7. OneDaemon'  BY <1>1, <1>2, <1>5, <1>6 DEF OneDaemon
<1> QED  BY <1>3, <1>4, <1>7

LEMMA SaveKeeps == ASSUME DaemonsIInv, NEW p \in PIDs, SaveDaemonInfo(p)  PROVE DaemonsIInv'
<1> USE DaemonsAssumption DEF DaemonsIInv
<1> DEFINE t == process[p].target
<1>1. /\ process[p].does = "connecting" /\ t \in Forwards /\ UNCHANGED command
      /\ \/ file' = [file EXCEPT ![t] = p] /\ UNCHANGED tangled
         \/ UNCHANGED file /\ tangled' = tangled \cup {t}
  BY DEF SaveDaemonInfo, WhoIsWho, Live
<1>2. /\ process' \in [PIDs -> ProcessStates] /\ process'[p].does = "serving" /\ process'[p].target = t
      /\ \A q \in PIDs \ {p} : process'[q] = process[q]
  BY DoesIs DEF SaveDaemonInfo, Live
<1> HIDE DEF t
<1>3. file \in [Forwards -> PIDs \cup {NoFile}]  BY DaemonsTyped
<1>4. DaemonsTypeOK'  BY <1>1, <1>2, <1>3, DaemonsTyped
<1>5. WhoIsWho'  BY <1>1, <1>2 DEF WhoIsWho, Live, t
<1>6. \A q \in PIDs : process'[q].target = process[q].target  BY <1>2 DEF t
<1>7. OneDaemon'
  <2>1. CASE file' = [file EXCEPT ![t] = p] /\ UNCHANGED tangled
    <3>1. file'[t] = p /\ \A u \in Forwards \ {t} : file'[u] = file[u]  BY <1>1, <1>3, <2>1
    <3>2. t \notin tangled => \A k \in Commands : command[k].at # "removed" \/ command[k].target # t
      BY <1>1 DEF OneDaemon, t
    <3> QED  BY <1>1, <1>2, <1>6, <2>1, <3>1, <3>2 DEF OneDaemon, t
  <2>2. CASE UNCHANGED file /\ tangled' = tangled \cup {t}
    BY <1>1, <1>2, <1>6, <2>2 DEF OneDaemon, t
  <2> QED  BY <1>1, <2>1, <2>2
<1> QED  BY <1>4, <1>5, <1>7

LEMMA RemovesOwnKeeps == ASSUME DaemonsIInv, NEW p \in PIDs, RemovesOwnInfo(p)  PROVE DaemonsIInv'
<1> USE DaemonsAssumption DEF DaemonsIInv
<1> DEFINE t == process[p].target
<1>1. /\ process[p].does = "closing" /\ t \in Forwards /\ UNCHANGED <<command, tangled>>
      /\ file' = [file EXCEPT ![t] = NoFile]
  BY DEF RemovesOwnInfo, WhoIsWho, Live
<1>2. /\ process' \in [PIDs -> ProcessStates] /\ process'[p].does = "none" /\ process'[p].target = NoTarget
      /\ \A q \in PIDs \ {p} : process'[q] = process[q]
  BY EndIs DEF RemovesOwnInfo
<1> HIDE DEF t
<1>3. file \in [Forwards -> PIDs \cup {NoFile}]  BY DaemonsTyped
<1>4. file'[t] = NoFile /\ \A u \in Forwards \ {t} : file'[u] = file[u]  BY <1>1, <1>3
<1>5. DaemonsTypeOK'  BY <1>1, <1>2, <1>3, DaemonsTyped
<1>6. WhoIsWho'  BY <1>1, <1>2 DEF WhoIsWho, Live
<1>7. t \notin tangled => \A q \in PIDs : process'[q].target # t
  BY <1>1, <1>2 DEF OneDaemon, t
<1>8. OneDaemon'  BY <1>1, <1>2, <1>4, <1>7 DEF OneDaemon
<1> QED  BY <1>5, <1>6, <1>8

LEMMA LoadKeeps ==
  ASSUME DaemonsIInv, NEW k \in Commands, NEW kind \in {"list", "stop"}, NEW t \in Forwards,
         LoadDaemonInfo(k, kind, t)
  PROVE  DaemonsIInv'
<1> USE DaemonsAssumption DEF DaemonsIInv
<1>1. /\ file[t] # NoFile /\ command \in [Commands -> CommandStates]
      /\ file \in [Forwards -> PIDs \cup {NoFile}]
      /\ command' = [command EXCEPT ![k] = [at |-> "check", kind |-> kind, target |-> t, pid |-> file[t]]]
      /\ tangled' = IF DaemonsOf(t) \subseteq {file[t]} THEN tangled ELSE tangled \cup {t}
      /\ UNCHANGED <<process, file>>
  BY DaemonsTyped DEF LoadDaemonInfo
<1>2. /\ command' \in [Commands -> CommandStates] /\ command'[k].at = "check"
      /\ command'[k].target = t /\ command'[k].pid = file[t]
      /\ \A j \in Commands \ {k} : command'[j] = command[j]
  <2>1. [at |-> "check", kind |-> kind, target |-> t, pid |-> file[t]] \in CommandStates
    BY <1>1 DEF CommandStates, CommandSteps
  <2> QED  BY <1>1, <2>1
<1>3. DaemonsTypeOK'  BY <1>1, <1>2, DaemonsTyped
<1>4. WhoIsWho'  BY <1>1, <1>2 DEF WhoIsWho
<1>5. t \notin tangled' => \A p \in PIDs : process[p].target = t => p = file[t]
  BY <1>1 DEF DaemonsOf
<1>6. OneDaemon'  BY <1>1, <1>2, <1>5 DEF OneDaemon
<1> QED  BY <1>3, <1>4, <1>6

LEMMA RemoveKeeps == ASSUME DaemonsIInv, NEW k \in Commands, RemoveDaemonInfo(k)  PROVE DaemonsIInv'
<1> USE DaemonsAssumption DEF DaemonsIInv
<1> DEFINE t == command[k].target
<1>1. /\ command[k].at = "remove" /\ t \in Forwards /\ UNCHANGED <<process, tangled>>
      /\ file' = [file EXCEPT ![t] = NoFile]
  BY DEF RemoveDaemonInfo, WhoIsWho
<1>2. /\ command' \in [Commands -> CommandStates] /\ command'[k].at = "removed"
      /\ command'[k].target = t /\ command'[k].pid = command[k].pid
      /\ \A j \in Commands \ {k} : command'[j] = command[j]
  BY CommandAtIs DEF RemoveDaemonInfo, CommandSteps
<1>3. t \notin tangled => \A p \in PIDs : process[p].target # t
  BY <1>1 DEF OneDaemon
<1> HIDE DEF t
<1>4. file \in [Forwards -> PIDs \cup {NoFile}]  BY DaemonsTyped
<1>5. file'[t] = NoFile /\ \A u \in Forwards \ {t} : file'[u] = file[u]  BY <1>1, <1>4
<1>6. DaemonsTypeOK'  BY <1>1, <1>2, <1>4, DaemonsTyped
<1>7. WhoIsWho'  BY <1>1, <1>2 DEF WhoIsWho
<1>8. OneDaemon'  BY <1>1, <1>2, <1>3, <1>5 DEF OneDaemon
<1> QED  BY <1>6, <1>7, <1>8

LEMMA DaemonsStepKeeps == DaemonsIInv /\ [DaemonsNext]_daemonsVars => DaemonsIInv'
<1> SUFFICES ASSUME DaemonsIInv, [DaemonsNext]_daemonsVars  PROVE DaemonsIInv'  OBVIOUS
<1>1. /\ DaemonsTypeOK /\ process \in [PIDs -> ProcessStates] /\ command \in [Commands -> CommandStates]
      /\ \A p \in PIDs : process[p].does \in {"none", "foreign"} \cup Live
  BY DaemonsTyped DEF DaemonsIInv, ProcessStates
<1>2. \A k \in Commands : command[k].at # "idle" => command[k].pid \in PIDs
  BY DEF DaemonsIInv, WhoIsWho
<1>3. CASE \E p \in PIDs : Reconnects(p) \/ QuitsServing(p)
  <2> SUFFICES ASSUME NEW p \in PIDs, Reconnects(p) \/ QuitsServing(p)  PROVE DaemonsIInv'  BY <1>3
  <2>1. UNCHANGED <<file, command, tangled>> /\ process[p].does \in Live
    BY DEF Reconnects, QuitsServing, Live
  <2>2. \/ DaemonEnds(p)
        \/ \E what \in {"connecting", "retrying", "closing"} : Does(p, what)
    BY DEF Reconnects, QuitsServing
  <2>3. CASE DaemonEnds(p)  BY <1>1, <2>1, <2>3, EndIs, MovesKeep
  <2>4. CASE \E what \in {"connecting", "retrying", "closing"} : Does(p, what)
    BY <1>1, <2>1, <2>4, DoesIs, MovesKeep DEF Live
  <2> QED  BY <2>2, <2>3, <2>4
<1>4. CASE \E p \in PIDs : Killed(p)  BY <1>1, <1>4, EndIs, MovesKeep DEF Killed
<1>5. CASE \E p \in PIDs : ForeignStarts(p)  BY <1>1, <1>5, DoesIs, MovesKeep DEF ForeignStarts, Live
<1>6. CASE \E k \in Commands : CheckRunning(k) \/ CommandEnds(k)
  <2> SUFFICES ASSUME NEW k \in Commands, CheckRunning(k) \/ CommandEnds(k)  PROVE DaemonsIInv'
    BY <1>6
  <2>1. /\ UNCHANGED <<process, file, tangled>> /\ command[k].at # "idle"
        /\ \/ Done(k) \/ CommandAt(k, "signal")
           \/ CommandAt(k, "remove") /\ process[command[k].pid].does = "none"
    BY DEF CheckRunning, CommandEnds, IsProcessRunning
  <2>2. CASE Done(k)  BY <1>1, <2>1, <2>2, DoneIs, MovesKeep
  <2>3. CASE CommandAt(k, "signal")
    BY <1>1, <2>1, <2>3, CommandAtIs, MovesKeep DEF CommandSteps
  <2>4. CASE CommandAt(k, "remove") /\ process[command[k].pid].does = "none"
    BY <1>1, <2>1, <2>4, CommandAtIs, MovesKeep DEF CommandSteps
  <2> QED  BY <2>1, <2>2, <2>3, <2>4
<1>7. CASE \E k \in Commands : SignalsTerm(k)
  <2> SUFFICES ASSUME NEW k \in Commands, SignalsTerm(k)  PROVE DaemonsIInv'  BY <1>7
  <2> DEFINE p == command[k].pid
  <2>1. /\ command[k].at = "signal" /\ p \in PIDs /\ UNCHANGED <<file, tangled>>
        /\ \/ Done(k) /\ UNCHANGED process
           \/ DaemonEnds(p) /\ CommandAt(k, "killing")
           \/ process' = [process EXCEPT ![p].told = TRUE] /\ CommandAt(k, "killing")
    BY <1>2 DEF SignalsTerm
  <2>2. CASE Done(k) /\ UNCHANGED process  BY <1>1, <2>1, <2>2, DoneIs, MovesKeep
  <2>3. CASE DaemonEnds(p) /\ CommandAt(k, "killing")
    BY <1>1, <2>1, <2>3, EndIs, CommandAtIs, MovesKeep DEF CommandSteps
  <2>4. CASE process' = [process EXCEPT ![p].told = TRUE] /\ CommandAt(k, "killing")
    <3>1. /\ process' \in [PIDs -> ProcessStates]
          /\ \A q \in PIDs : process'[q].target = process[q].target /\ process'[q].does = process[q].does
      BY <1>1, <2>1, <2>4 DEF ProcessStates
    <3> QED  BY <1>1, <2>1, <2>4, <3>1, CommandAtIs, MovesKeep DEF CommandSteps
  <2> QED  BY <2>1, <2>2, <2>3, <2>4
<1>8. CASE \E k \in Commands : KillEnds(k)
  <2> SUFFICES ASSUME NEW k \in Commands, KillEnds(k)  PROVE DaemonsIInv'  BY <1>8
  <2> DEFINE p == command[k].pid
  <2>1. /\ command[k].at = "killing" /\ p \in PIDs /\ UNCHANGED <<file, tangled>>
        /\ \/ Done(k) /\ UNCHANGED process
           \/ CommandAt(k, "remove") /\ DaemonEnds(p)
           \/ CommandAt(k, "remove") /\ process[p].does = "none" /\ UNCHANGED process
    BY <1>2 DEF KillEnds, IsProcessRunning
  <2>2. CASE Done(k) /\ UNCHANGED process  BY <1>1, <2>1, <2>2, DoneIs, MovesKeep
  <2>3. CASE CommandAt(k, "remove") /\ DaemonEnds(p)
    BY <1>1, <2>1, <2>3, EndIs, CommandAtIs, MovesKeep DEF CommandSteps
  <2>4. CASE CommandAt(k, "remove") /\ process[p].does = "none" /\ UNCHANGED process
    BY <1>1, <2>1, <2>4, CommandAtIs, MovesKeep DEF CommandSteps
  <2> QED  BY <2>1, <2>2, <2>3, <2>4
<1>9. CASE UNCHANGED daemonsVars  BY <1>1, <1>9, MovesKeep DEF daemonsVars
<1> QED
  BY <1>3, <1>4, <1>5, <1>6, <1>7, <1>8, <1>9, StartKeeps, SaveKeeps, RemovesOwnKeeps, LoadKeeps,
     RemoveKeeps
  DEF DaemonsNext

(* The argument: whoever starts a second daemon, or one while a command    *)
(* looks, has tangled the target.                                          *)
THEOREM DaemonsInductive == DaemonsSpec => []DaemonsIInv
<1>1. ASSUME DaemonsInit  PROVE DaemonsIInv
  BY <1>1, DaemonsAssumption
  DEF DaemonsInit, DaemonsIInv, DaemonsTypeOK, WhoIsWho, OneDaemon, Live, NoProcess, NoCommand
<1>2. ASSUME DaemonsIInv, [DaemonsNext]_daemonsVars  PROVE DaemonsIInv'
  BY <1>2, DaemonsStepKeeps
<1> QED  BY <1>1, <1>2, PTL DEF DaemonsSpec

(* What list shows and stop stops is what runs.                            *)
THEOREM TrackedCorrect == DaemonsSpec => []Tracked
<1>1. DaemonsIInv => Tracked
  BY DEF DaemonsIInv, OneDaemon, Tracked, DaemonsOf, CommandsOn
<1> QED  BY <1>1, DaemonsInductive, PTL
=============================================================================
