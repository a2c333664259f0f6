--------------------------- MODULE FullyAsyncProofs ---------------------------
(***************************************************************************)
(* The fully asynchronous pipeline for any sizes, batches and failures: its *)
(* types, that no wake-up of the processor is lost, the freshness bound on  *)
(* the samples under way, the conservation of samples, the bound on their   *)
(* staleness, the refinement of SampleFlow, synchronous training, and the   *)
(* end of a run.                                                            *)
(***************************************************************************)
EXTENDS FullyAsync, FiniteSetTheorems, FunctionTheorems, SequenceTheorems, TLAPS

LEMMA Constants ==
  /\ Total \in Nat /\ Total >= 1 /\ End = Total + 1
  /\ Required \in Nat /\ Required >= 1 /\ Trigger \in Nat /\ Trigger >= 1
  /\ MaxRequired \in Nat /\ MaxRequired >= 1
  /\ MaxConcurrent \in Nat /\ MaxConcurrent >= 1
  /\ PendingCap \in Nat /\ PendingCap >= 1 /\ MaxFailures \in Nat
<1>1. Required * Trigger >= 1
  BY FullyAsyncAssumption
<1> QED BY <1>1, FullyAsyncAssumption DEF End

LEMMA HeadTail ==
  ASSUME NEW T, NEW s \in Seq(T), s # << >>
  PROVE  Head(s) \in T /\ Tail(s) \in Seq(T) /\ Len(Tail(s)) = Len(s) - 1
BY HeadTailProperties

\* Variables a step leaves alone keep their types.
LEMMA Frames ==
  ASSUME TypeOK
  PROVE  /\ UNCHANGED feedVars => FeedOK'
         /\ UNCHANGED procVars => ProcOK'
         /\ UNCHANGED taskVars => TaskOK'
         /\ UNCHANGED lockVars => LockOK'
         /\ UNCHANGED ctrlVars => CtrlOK'
         /\ UNCHANGED loopVars => LoopOK'
         /\ UNCHANGED queueVars => QueueOK'
         /\ UNCHANGED trainVars => TrainOK'
<1>1. UNCHANGED feedVars => FeedOK'
  BY DEF TypeOK, feedVars, FeedOK
<1>2. UNCHANGED procVars => ProcOK'
  BY DEF TypeOK, procVars, ProcOK
<1>3. UNCHANGED taskVars => TaskOK'
  BY DEF TypeOK, taskVars, TaskOK
<1>4. UNCHANGED lockVars => LockOK'
  BY DEF TypeOK, lockVars, LockOK
<1>5. UNCHANGED ctrlVars => CtrlOK'
  BY DEF TypeOK, ctrlVars, CtrlOK
<1>6. UNCHANGED loopVars => LoopOK'
  BY DEF TypeOK, loopVars, LoopOK
<1>7. UNCHANGED queueVars => QueueOK'
  BY DEF TypeOK, queueVars, QueueOK
<1>8. UNCHANGED trainVars => TrainOK'
  BY DEF TypeOK, trainVars, TrainOK
<1> QED BY <1>1, <1>2, <1>3, <1>4, <1>5, <1>6, <1>7, <1>8

-------------------------------------------------------------------------------
(* The lock and the message queue.                                             *)

LEMMA UnlockType ==
  ASSUME LockOK, Unlock
  PROVE  LockOK'
<1>1. CASE waiters = << >>
  BY <1>1, EmptySeq DEF Unlock, LockOK
<1>2. CASE waiters # << >>
  BY <1>2, HeadTail DEF Unlock, LockOK
<1> QED BY <1>1, <1>2

LEMMA PassesType ==
  ASSUME LockOK, NEW c, PassesThrough(c)
  PROVE  LockOK'
<1>1. CASE Unlock
  BY <1>1, UnlockType
<1>2. CASE UNCHANGED lockVars
  BY <1>2 DEF lockVars, LockOK
<1> QED BY <1>1, <1>2 DEF PassesThrough

\* A coroutine that queues for the lock changes nothing else.
LEMMA EnqueueType ==
  ASSUME TypedHand, NEW c \in Lockers, Enqueue(c)
  PROVE  TypedHand'
<1>1. LockOK'
  BY AppendProperties DEF Enqueue, TypedHand, TypeOK, LockOK
<1>2. ProcOK' /\ TaskOK' /\ HandHeld'
  BY DEF Enqueue, TypedHand, TypeOK, ProcOK, TaskOK, taskVars, HandHeld, Carrying
<1>3. UNCHANGED <<feedVars, ctrlVars, loopVars, queueVars, trainVars>>
  BY DEF Enqueue
<1> QED BY <1>1, <1>2, <1>3, Frames DEF TypedHand, TypeOK

\* Whatever is put, the queue stays within its size.
LEMMA PutSampleType ==
  ASSUME TypeOK, NEW x \in 1 .. End, PutSample(x)
  PROVE  QueueOK' /\ Len(queue') <= Len(queue) + 1
<1> DEFINE rest == IF Len(queue) >= MaxRequired THEN Tail(queue) ELSE queue
<1>1. queue \in Seq(1 .. End) /\ Len(queue) \in Nat /\ Len(queue) <= MaxRequired /\ dropped \in Nat
  BY LenProperties DEF TypeOK, QueueOK
<1>2. rest \in Seq(1 .. End) /\ Len(rest) < MaxRequired /\ Len(rest) <= Len(queue) /\ Len(rest) \in Nat
  <2>1. CASE Len(queue) >= MaxRequired
    <3>1. queue # << >>
      BY <2>1, Constants, EmptySeq
    <3> QED BY <1>1, <2>1, <3>1, HeadTail, Constants, LenProperties
  <2> QED BY <1>1, <2>1, Constants
<1>3. queue' = Append(rest, x) /\ dropped' \in Nat
  BY <1>1 DEF PutSample
<1> HIDE DEF rest
<1>4. Append(rest, x) \in Seq(1 .. End) /\ Len(Append(rest, x)) = Len(rest) + 1
  BY <1>2, AppendProperties
<1> QED BY <1>1, <1>2, <1>3, <1>4, Constants DEF QueueOK

-------------------------------------------------------------------------------
(* Types, together with what the processor holds when it starts a task.        *)

LEMMA TypeInit == Init => TypedHand
<1> SUFFICES ASSUME Init PROVE TypedHand
  OBVIOUS
<1>1. FeedOK
  <2>1. fed = 0 /\ taken = 0
    BY DEF Init
  <2> QED BY <2>1, Constants DEF FeedOK
<1>2. ProcOK /\ HandHeld
  <2>1. hand = 0 /\ proc = "top" /\ why = "pause" /\ busy = FALSE /\ bound = FALSE
    BY DEF Init, Nothing
  <2>2. hand \in 0 .. End
    BY <2>1, Constants
  <2>3. busy \in BOOLEAN /\ bound \in BOOLEAN
    BY <2>1
  <2>4. proc \in ProcAt /\ HandHeld
    BY <2>1 DEF ProcAt, HandHeld, Carrying
  <2> QED BY <2>1, <2>2, <2>3, <2>4 DEF ProcOK
<1>3. TaskOK
  <2>1. generating = {} /\ putting = {} /\ ended = 0 /\ raised = FALSE /\ failures = 0
    BY DEF Init
  <2>2. version \in [Samples -> Nat] /\ cancelQueue \in Seq(Samples)
    BY EmptySeq DEF Init
  <2>3. ended \in Nat /\ failures \in 0 .. MaxFailures
    BY <2>1, Constants
  <2>4. generating \subseteq Samples /\ putting \subseteq Samples /\ raised \in BOOLEAN
    BY <2>1
  <2> QED BY <2>2, <2>3, <2>4 DEF TaskOK
<1>4. LockOK
  BY EmptySeq DEF Init, LockOK
<1>5. QueueOK
  BY Constants, EmptySeq DEF Init, QueueOK
<1>6. CtrlOK /\ LoopOK
  BY DEF Init, CtrlOK, LoopOK, SyncAt
<1>7. TrainOK
  BY Constants DEF Init, TrainOK
<1> QED BY <1>1, <1>2, <1>3, <1>4, <1>5, <1>6, <1>7 DEF TypedHand, TypeOK

LEMMA TypeFeed ==
  ASSUME TypedHand, Feed
  PROVE  TypedHand'
<1>1. FeedOK'
  BY Constants DEF TypedHand, TypeOK, FeedOK, Feed
<1>2. UNCHANGED <<procVars, taskVars, lockVars, ctrlVars, loopVars, queueVars, trainVars>> /\ TypeOK
  BY DEF Feed, TypedHand
<1>3. HandHeld'
  BY <1>2 DEF TypedHand, HandHeld, Carrying, procVars
<1> QED BY <1>1, <1>2, <1>3, Frames DEF TypedHand, TypeOK

LEMMA TypeProcessor ==
  ASSUME TypedHand, ProcessorStep
  PROVE  TypedHand'
<1> USE DEF TypedHand, TypeOK
<1>1. CASE CheckPause
  <2>1. ProcOK' /\ HandHeld'
    BY <1>1 DEF CheckPause, ProcOK, HandHeld, Carrying, ProcAt, ProcLockAt
  <2>2. FeedOK' /\ TaskOK' /\ CtrlOK'
    BY <1>1 DEF CheckPause, Processor, FeedOK, TaskOK, CtrlOK
  <2>3. UNCHANGED <<lockVars, loopVars, queueVars, trainVars>>
    BY <1>1 DEF CheckPause, Processor
  <2> QED BY <2>1, <2>2, <2>3, Frames
<1>2. CASE SelfPause
  <2>1. ProcOK' /\ HandHeld'
    BY <1>2 DEF SelfPause, ProcOK, HandHeld, Carrying, ProcAt, ProcLockAt
  <2>2. FeedOK' /\ TaskOK' /\ CtrlOK'
    BY <1>2 DEF SelfPause, Processor, FeedOK, TaskOK, CtrlOK
  <2>3. LockOK' /\ UNCHANGED <<loopVars, queueVars, trainVars>>
    BY <1>2, PassesType DEF SelfPause, Processor
  <2> QED BY <2>1, <2>2, <2>3, Frames
<1>3. CASE DrainTest
  <2>1. ProcOK' /\ HandHeld'
    BY <1>3 DEF DrainTest, AfterDrain, ProcOK, HandHeld, Carrying, ProcAt, ProcLockAt
  <2>2. FeedOK' /\ TaskOK' /\ CtrlOK'
    BY <1>3 DEF DrainTest, Processor, FeedOK, TaskOK, CtrlOK
  <2>3. UNCHANGED <<lockVars, loopVars, queueVars, trainVars>>
    BY <1>3 DEF DrainTest, Processor
  <2> QED BY <2>1, <2>2, <2>3, Frames
<1>4. CASE DrainLocked
  <2>1. ProcOK' /\ HandHeld'
    BY <1>4 DEF DrainLocked, ProcOK, HandHeld, Carrying, ProcAt, ProcLockAt
  <2>2. FeedOK' /\ TaskOK' /\ CtrlOK'
    BY <1>4 DEF DrainLocked, Processor, FeedOK, TaskOK, CtrlOK
  <2>3. LockOK'
    BY <1>4, PassesType DEF DrainLocked, LockOK, Lockers
  <2>4. UNCHANGED <<loopVars, queueVars, trainVars>>
    BY <1>4 DEF DrainLocked, Processor
  <2> QED BY <2>1, <2>2, <2>3, <2>4, Frames
<1>5. CASE DrainWaited
  <2>1. ProcOK' /\ HandHeld'
    BY <1>5 DEF DrainWaited, ProcOK, HandHeld, Carrying, ProcAt, ProcLockAt, TaskOK
  <2>2. FeedOK' /\ TaskOK' /\ CtrlOK'
    BY <1>5 DEF DrainWaited, Processor, FeedOK, TaskOK, CtrlOK
  <2>3. LockOK' /\ UNCHANGED <<loopVars, queueVars, trainVars>>
    BY <1>5, UnlockType DEF DrainWaited, Processor
  <2> QED BY <2>1, <2>2, <2>3, Frames
<1>6. CASE IdleLocked
  <2>1. ProcOK' /\ HandHeld'
    BY <1>6 DEF IdleLocked, ProcOK, HandHeld, Carrying, ProcAt, ProcLockAt, CtrlOK
  <2>2. FeedOK' /\ TaskOK' /\ CtrlOK'
    BY <1>6 DEF IdleLocked, Processor, FeedOK, TaskOK, CtrlOK
  <2>3. LockOK' /\ UNCHANGED <<loopVars, queueVars, trainVars>>
    BY <1>6, PassesType DEF IdleLocked, Processor
  <2> QED BY <2>1, <2>2, <2>3, Frames
<1>7. CASE TakeCancelled
  <2>1. hand' \in Samples /\ cancelQueue' \in Seq(Samples)
    BY <1>7, HeadTail DEF TakeCancelled, TaskOK
  <2>2. ProcOK' /\ HandHeld'
    BY <1>7, <2>1, Constants DEF TakeCancelled, ProcOK, HandHeld, ProcAt, ProcLockAt, Samples
  <2>3. FeedOK' /\ TaskOK' /\ CtrlOK'
    BY <1>7, <2>1 DEF TakeCancelled, Processor, FeedOK, TaskOK, CtrlOK
  <2>4. UNCHANGED <<lockVars, loopVars, queueVars, trainVars>>
    BY <1>7 DEF TakeCancelled, Processor
  <2> QED BY <2>2, <2>3, <2>4, Frames
<1>8. CASE AwaitPending
  <2>1. ProcOK' /\ HandHeld'
    BY <1>8 DEF AwaitPending, ProcOK, HandHeld, Carrying, ProcAt, ProcLockAt
  <2>2. FeedOK' /\ TaskOK' /\ CtrlOK'
    BY <1>8 DEF AwaitPending, Processor, FeedOK, TaskOK, CtrlOK
  <2>3. UNCHANGED <<lockVars, loopVars, queueVars, trainVars>>
    BY <1>8 DEF AwaitPending, Processor
  <2> QED BY <2>1, <2>2, <2>3, Frames
<1>9. CASE TakePending
  <2>1. ProcOK' /\ HandHeld' /\ FeedOK'
    BY <1>9, Constants DEF TakePending, Processor, ProcOK, HandHeld, Carrying, ProcAt, ProcLockAt, FeedOK, Samples
  <2>2. TaskOK' /\ CtrlOK'
    BY <1>9 DEF TakePending, Processor, TaskOK, CtrlOK
  <2>3. UNCHANGED <<lockVars, loopVars, queueVars, trainVars>>
    BY <1>9 DEF TakePending, Processor
  <2> QED BY <2>1, <2>2, <2>3, Frames
<1>10. CASE StartTask
  <2>1. ProcOK' /\ HandHeld'
    <3>1. CASE paused
      BY <1>10, <3>1 DEF StartTask, ProcOK, HandHeld, Carrying, ProcAt
    <3>2. CASE ~paused
      <4>1. proc' = "top" /\ busy' = TRUE /\ hand' = 0 /\ why' = why /\ bound' = bound
        BY <1>10, <3>2 DEF StartTask, Nothing
      <4> QED BY <4>1, Constants DEF ProcOK, HandHeld, Carrying, ProcAt
    <3> QED BY <3>1, <3>2
  <2>2. generating' \subseteq Samples
    BY <1>10 DEF StartTask, HandHeld, Carrying, TaskOK
  <2>3. TaskOK'
    BY <1>10, <2>2 DEF StartTask, TaskOK
  <2>4. LockOK'
    BY <1>10, PassesType DEF StartTask
  <2>5. UNCHANGED <<feedVars, ctrlVars, loopVars, queueVars, trainVars>>
    BY <1>10 DEF StartTask
  <2> QED BY <2>1, <2>3, <2>4, <2>5, Frames
<1>11. CASE Enqueue("proc")
  BY <1>11, EnqueueType DEF Lockers
<1> QED BY <1>1, <1>2, <1>3, <1>4, <1>5, <1>6, <1>7, <1>8, <1>9, <1>10, <1>11 DEF ProcessorStep

LEMMA TypeTask ==
  ASSUME TypedHand, NEW s \in Samples, TaskStep(s)
  PROVE  TypedHand'
<1> USE DEF TypedHand, TypeOK
<1>1. UNCHANGED <<feedVars, procVars, lockVars, ctrlVars, loopVars, trainVars>>
  BY DEF TaskStep, Generated, Put, Interrupted, GenerationRaises, Task
<1>2. HandHeld'
  BY <1>1 DEF procVars, HandHeld, Carrying
<1>3. TaskOK' /\ QueueOK'
  <2>1. CASE Generated(s)
    <3>1. version' \in [Samples -> Nat]
      BY <2>1 DEF Generated, TaskOK, CtrlOK
    <3>2. TaskOK'
      BY <2>1, <3>1 DEF Generated, TaskOK
    <3>3. UNCHANGED queueVars
      BY <2>1 DEF Generated
    <3> QED BY <3>2, <3>3, Frames
  <2>2. CASE Put(s)
    <3>1. s \in 1 .. End
      BY Constants DEF Samples
    <3>2. QueueOK'
      BY <2>2, <3>1, PutSampleType DEF Put
    <3>3. TaskOK'
      BY <2>2 DEF Put, TaskOK
    <3> QED BY <3>2, <3>3
  <2>3. CASE Interrupted(s)
    <3>1. cancelQueue' \in Seq(Samples)
      BY <2>3, AppendProperties DEF Interrupted, TaskOK
    <3>2. TaskOK'
      BY <2>3, <3>1 DEF Interrupted, TaskOK
    <3>3. UNCHANGED queueVars
      BY <2>3 DEF Interrupted
    <3> QED BY <3>2, <3>3, Frames
  <2>4. CASE GenerationRaises(s)
    <3>1. TaskOK'
      BY <2>4, Constants DEF GenerationRaises, TaskOK
    <3>2. UNCHANGED queueVars
      BY <2>4 DEF GenerationRaises
    <3> QED BY <3>1, <3>2, Frames
  <2> QED BY <2>1, <2>2, <2>3, <2>4 DEF TaskStep
<1> QED BY <1>1, <1>2, <1>3, Frames

\* notify_all() moves a waiting processor and leaves its hand alone.
LEMMA NotifiedType ==
  ASSUME ProcOK, HandHeld, proc' = Notified, UNCHANGED <<hand, why, busy, bound>>
  PROVE  ProcOK' /\ HandHeld'
BY DEF ProcOK, HandHeld, Carrying, Notified, ProcAt, ProcLockAt

LEMMA TypeMonitor ==
  ASSUME TypedHand, MonitorStep
  PROVE  TypedHand'
<1> USE DEF TypedHand, TypeOK
<1>1. CASE MonitorWakes
  <2>1. LoopOK'
    BY <1>1 DEF MonitorWakes, LoopOK
  <2>2. UNCHANGED <<feedVars, procVars, taskVars, lockVars, ctrlVars, queueVars, trainVars>>
    BY <1>1 DEF MonitorWakes
  <2>3. HandHeld'
    BY <2>2 DEF procVars, HandHeld, Carrying
  <2> QED BY <2>1, <2>2, <2>3, Frames
<1>2. CASE MonitorResumes
  <2>1. ProcOK' /\ HandHeld'
    BY <1>2, NotifiedType DEF MonitorResumes
  <2>2. CtrlOK' /\ LoopOK'
    BY <1>2 DEF MonitorResumes, CtrlOK, LoopOK
  <2>3. LockOK' /\ UNCHANGED <<feedVars, taskVars, queueVars, trainVars>>
    BY <1>2, PassesType DEF MonitorResumes
  <2> QED BY <2>1, <2>2, <2>3, Frames
<1>3. CASE Enqueue("monitor")
  BY <1>3, EnqueueType DEF Lockers
<1> QED BY <1>1, <1>2, <1>3 DEF MonitorStep

\* What update_param_version adds up is a number.
LEMMA CountType ==
  ASSUME TaskOK
  PROVE  /\ IsFiniteSet(generating) /\ IsFiniteSet(putting)
         /\ Cardinality(generating) \in Nat /\ Cardinality(putting) \in Nat
         /\ Len(cancelQueue) \in Nat /\ ActiveCount \in Nat
<1>1. IsFiniteSet(Samples)
  BY FS_Interval, Constants DEF Samples
<1>2. /\ IsFiniteSet(generating) /\ IsFiniteSet(putting)
      /\ Cardinality(generating) \in Nat /\ Cardinality(putting) \in Nat
  BY <1>1, FS_Subset, FS_CardinalityType DEF TaskOK
<1>3. Len(cancelQueue) \in Nat
  BY LenProperties DEF TaskOK
<1> QED BY <1>2, <1>3 DEF TaskOK, ActiveCount

LEMMA TypeSync ==
  ASSUME TypedHand, SyncStep
  PROVE  TypedHand'
<1> USE DEF TypedHand, TypeOK
<1>1. CASE PauseCalled
  <2>1. LockOK'
    BY <1>1, PassesType DEF PauseCalled, LockOK, Lockers
  <2>2. CtrlOK' /\ LoopOK'
    BY <1>1 DEF PauseCalled, CtrlOK, LoopOK, SyncAt
  <2>3. UNCHANGED <<feedVars, procVars, taskVars, queueVars, trainVars>>
    BY <1>1 DEF PauseCalled
  <2>4. HandHeld'
    BY <2>3 DEF procVars, HandHeld, Carrying
  <2> QED BY <2>1, <2>2, <2>3, <2>4, Frames
<1>2. CASE PauseCancels
  <2>1. CtrlOK' /\ LoopOK'
    BY <1>2 DEF PauseCancels, CtrlOK, LoopOK, SyncAt
  <2>2. UNCHANGED <<feedVars, procVars, taskVars, lockVars, queueVars, trainVars>>
    BY <1>2 DEF PauseCancels
  <2>3. HandHeld'
    BY <2>2 DEF procVars, HandHeld, Carrying
  <2> QED BY <2>1, <2>2, <2>3, Frames
<1>3. CASE PauseGathered
  <2>1. LockOK'
    BY <1>3, UnlockType DEF PauseGathered
  <2>2. CtrlOK' /\ LoopOK' /\ TaskOK'
    BY <1>3 DEF PauseGathered, CtrlOK, LoopOK, SyncAt, TaskOK
  <2>3. UNCHANGED <<feedVars, procVars, queueVars, trainVars>>
    BY <1>3 DEF PauseGathered
  <2>4. HandHeld'
    BY <2>3 DEF procVars, HandHeld, Carrying
  <2> QED BY <2>1, <2>2, <2>3, <2>4, Frames
<1>4. CASE UpdateCounts
  <2>1. counted' \in Nat
    BY <1>4, CountType DEF UpdateCounts
  <2>2. CtrlOK' /\ LoopOK' /\ LockOK'
    BY <1>4, <2>1 DEF UpdateCounts, CtrlOK, LoopOK, SyncAt, LockOK, Lockers, TrainOK
  <2>3. UNCHANGED <<feedVars, procVars, taskVars, queueVars, trainVars>>
    BY <1>4 DEF UpdateCounts
  <2>4. HandHeld'
    BY <2>3 DEF procVars, HandHeld, Carrying
  <2> QED BY <2>2, <2>3, <2>4, Frames
<1>5. CASE UpdateSets
  <2>1. staleness' \in Nat
    BY <1>5, LenProperties DEF UpdateSets, LoopOK, QueueOK
  <2>2. CtrlOK' /\ LoopOK'
    BY <1>5, <2>1 DEF UpdateSets, CtrlOK, LoopOK, SyncAt
  <2>3. LockOK' /\ UNCHANGED <<feedVars, procVars, taskVars, queueVars, trainVars>>
    BY <1>5, UnlockType DEF UpdateSets
  <2>4. HandHeld'
    BY <2>3 DEF procVars, HandHeld, Carrying
  <2> QED BY <2>2, <2>3, <2>4, Frames
<1>6. CASE ResumeCalled
  <2>1. LockOK'
    BY <1>6, PassesType DEF ResumeCalled, LockOK, Lockers
  <2>2. ProcOK' /\ HandHeld'
    <3>1. CASE proc' = proc
      BY <1>6, <3>1 DEF ResumeCalled, ProcOK, HandHeld, Carrying
    <3>2. CASE proc' = Notified
      BY <1>6, <3>2, NotifiedType DEF ResumeCalled
    <3> QED BY <1>6, <3>1, <3>2 DEF ResumeCalled, Resumed
  <2>3. CtrlOK' /\ LoopOK'
    BY <1>6 DEF ResumeCalled, Resumed, CtrlOK, LoopOK, SyncAt
  <2>4. UNCHANGED <<feedVars, taskVars, queueVars, trainVars>>
    BY <1>6 DEF ResumeCalled
  <2> QED BY <2>1, <2>2, <2>3, <2>4, Frames
<1>7. CASE ResumeCleared
  <2>1. ProcOK' /\ HandHeld'
    BY <1>7, NotifiedType DEF ResumeCleared, Resumed
  <2>2. CtrlOK' /\ LoopOK'
    BY <1>7 DEF ResumeCleared, Resumed, CtrlOK, LoopOK, SyncAt
  <2>3. LockOK' /\ UNCHANGED <<feedVars, taskVars, queueVars, trainVars>>
    BY <1>7, UnlockType DEF ResumeCleared
  <2> QED BY <2>1, <2>2, <2>3, Frames
<1>8. CASE Enqueue("sync")
  BY <1>8, EnqueueType DEF Lockers
<1> QED BY <1>1, <1>2, <1>3, <1>4, <1>5, <1>6, <1>7, <1>8 DEF SyncStep

LEMMA TypeTrainer ==
  ASSUME TypedHand, TrainerStep
  PROVE  TypedHand'
<1> USE DEF TypedHand, TypeOK
<1>1. UNCHANGED <<feedVars, procVars, taskVars, lockVars, ctrlVars>>
  BY DEF TrainerStep, GetSample, TrainStep, CallPause, CallUpdate, TrainerStops, Trainer
<1>2. HandHeld'
  BY <1>1 DEF procVars, HandHeld, Carrying
<1>3. QueueOK' /\ TrainOK' /\ LoopOK'
  <2>1. CASE GetSample
    <3>1. queue \in Seq(1 .. End) /\ queue # << >> /\ queue' = Tail(queue)
      BY <2>1 DEF GetSample, QueueOK
    <3>2. QueueOK' /\ Head(queue) \in 1 .. End
      <4>1. Tail(queue) \in Seq(1 .. End) /\ Len(Tail(queue)) = Len(queue) - 1 /\ Head(queue) \in 1 .. End
        BY <3>1, HeadTail
      <4>2. Len(queue) \in Nat /\ Len(queue) <= MaxRequired /\ dropped \in Nat
        BY <3>1, LenProperties DEF QueueOK
      <4>3. dropped' = dropped
        BY <2>1 DEF GetSample, Trainer
      <4>4. Len(queue) - 1 <= MaxRequired
        BY <4>2, Constants
      <4>5. queue' \in Seq(1 .. End) /\ Len(queue') <= MaxRequired
        BY <3>1, <4>1, <4>4
      <4>6. dropped' \in Nat
        BY <4>2, <4>3
      <4> QED BY <4>1, <4>5, <4>6 DEF QueueOK
    <3>3. batch' \subseteq Samples
      <4>1. Head(queue) # End => Head(queue) \in Samples
        BY <3>2, Constants DEF Samples
      <4>2. UNCHANGED batch \/ (Head(queue) # End /\ batch' = batch \cup {Head(queue)})
        BY <2>1 DEF GetSample
      <4> QED BY <4>1, <4>2 DEF TrainOK
    <3>4. TrainOK' /\ LoopOK'
      BY <2>1, <3>3 DEF GetSample, Trainer, TrainOK, LoopOK
    <3> QED BY <3>2, <3>4
  <2>2. CASE TrainStep
    BY <2>2, Constants DEF TrainStep, Trainer, TrainOK, LoopOK, QueueOK
  <2>3. CASE CallPause
    BY <2>3 DEF CallPause, Trainer, TrainOK, LoopOK, QueueOK, SyncAt
  <2>4. CASE CallUpdate
    BY <2>4 DEF CallUpdate, Trainer, TrainOK, LoopOK, QueueOK, SyncAt
  <2>5. CASE TrainerStops
    BY <2>5 DEF TrainerStops, Trainer, TrainOK, LoopOK, QueueOK
  <2> QED BY <2>1, <2>2, <2>3, <2>4, <2>5 DEF TrainerStep
<1> QED BY <1>1, <1>2, <1>3, Frames

LEMMA TypeSentinel ==
  ASSUME TypedHand, SendSentinel
  PROVE  TypedHand'
<1> USE DEF TypedHand, TypeOK
<1>1. QueueOK'
  BY PutSampleType, Constants DEF SendSentinel
<1>2. LoopOK'
  BY DEF SendSentinel, LoopOK
<1>3. UNCHANGED <<feedVars, procVars, taskVars, lockVars, ctrlVars, trainVars>>
  BY DEF SendSentinel
<1>4. HandHeld'
  BY <1>3 DEF procVars, HandHeld, Carrying
<1> QED BY <1>1, <1>2, <1>3, <1>4, Frames

LEMMA TypeStep == TypedHand /\ [Next]_vars => TypedHand'
<1> SUFFICES ASSUME TypedHand, [Next]_vars PROVE TypedHand'
  OBVIOUS
<1>1. CASE Next
  BY <1>1, TypeFeed, TypeProcessor, TypeTask, TypeMonitor, TypeSync, TypeTrainer, TypeSentinel DEF Next
<1>2. CASE UNCHANGED vars
  <2>1. UNCHANGED <<feedVars, procVars, taskVars, lockVars, ctrlVars, loopVars, queueVars, trainVars>>
    BY <1>2 DEF vars
  <2>2. HandHeld'
    BY <2>1 DEF TypedHand, procVars, HandHeld, Carrying
  <2> QED BY <2>1, <2>2, Frames DEF TypedHand, TypeOK
<1> QED BY <1>1, <1>2

\* Every variable keeps its type, whatever the sizes: the message queue and
\* pending_queue stay within theirs, and a processor about to start a task holds
\* a sample and not the end signal.
THEOREM FullyAsyncTypeCorrect == Spec => [](TypeOK /\ HandHeld)
<1>1. Spec => []TypedHand
  BY TypeInit, TypeStep, PTL DEF Spec
<1> QED BY <1>1, PTL DEF TypedHand

-------------------------------------------------------------------------------
(* No lost wake-up.                                                            *)

LEMMA WakeStep ==
  ASSUME TypeOK, NoLostWakeup, [Next]_vars
  PROVE  NoLostWakeup'
<1> USE DEF NoLostWakeup
<1>1. CASE ProcessorStep
  BY <1>1 DEF TypeOK, ProcOK, ProcessorStep, CheckPause, SelfPause, DrainTest, AfterDrain, DrainLocked, DrainWaited,
     IdleLocked, TakeCancelled, AwaitPending, TakePending, StartTask, Enqueue, ctrlVars
<1>2. CASE MonitorStep
  BY <1>2 DEF MonitorStep, MonitorWakes, MonitorResumes, Enqueue, Notified, procVars, ctrlVars
<1>3. CASE SyncStep
  BY <1>3 DEF SyncStep, PauseCalled, PauseCancels, PauseGathered, UpdateCounts, UpdateSets,
     ResumeCalled, ResumeCleared, Resumed, Notified, Enqueue, procVars, ctrlVars
<1>4. CASE Feed \/ SendSentinel \/ TrainerStep \/ (\E s \in Samples : TaskStep(s)) \/ UNCHANGED vars
  <2>1. UNCHANGED <<procVars, ctrlVars>>
    BY <1>4 DEF Feed, SendSentinel, TrainerStep, GetSample, TrainStep, CallPause, CallUpdate,
       TrainerStops, Trainer, TaskStep, Generated, Put, Interrupted, GenerationRaises, Task, vars
  <2> QED BY <2>1 DEF procVars, ctrlVars
<1> QED BY <1>1, <1>2, <1>3, <1>4 DEF Next

\* A processor that waits for the condition will be notified: the flag it waits on
\* is set, and every action that clears it (_async_monitor_loop, resume) moves the
\* processor on.
THEOREM WakeUpNotLost == Spec => []NoLostWakeup
<1>1. Init => NoLostWakeup
  BY DEF Init, NoLostWakeup
<1>2. TypeOK /\ NoLostWakeup /\ [Next]_vars => NoLostWakeup'
  BY WakeStep
<1> QED BY <1>1, <1>2, FullyAsyncTypeCorrect, PTL DEF Spec

-------------------------------------------------------------------------------
(* The freshness bound.                                                        *)

\* Steps that leave the processor, the lock and the controls alone.
LEMMA Elsewhere ==
  ASSUME \/ SendSentinel \/ TrainerStep \/ \E s \in Samples : TaskStep(s)
  PROVE  UNCHANGED <<procVars, lockVars, ctrlVars>>
BY DEF SendSentinel, TrainerStep, GetSample, TrainStep, CallPause, CallUpdate, TrainerStops, Trainer,
   TaskStep, Generated, Put, Interrupted, GenerationRaises, Task

LEMMA LockHeldStep ==
  ASSUME TypeOK, LockHeld, [Next]_vars
  PROVE  LockHeld'
<1> USE DEF LockHeld, Free
<1>1. CASE ProcessorStep
  <2>1. sync' = sync
    BY <1>1 DEF ProcessorStep, CheckPause, SelfPause, DrainTest, DrainLocked, DrainWaited, IdleLocked,
       TakeCancelled, AwaitPending, TakePending, StartTask, Enqueue, Processor, loopVars
  <2>2. CASE UNCHANGED lockVars /\ proc' # "drainWait"
    BY <2>1, <2>2 DEF lockVars
  <2>3. CASE PassesThrough("proc") /\ proc' # "drainWait"
    BY <2>1, <2>3 DEF PassesThrough, CanLock, Unlock, lockVars
  <2>4. CASE DrainLocked /\ proc' = "drainWait"
    BY <2>1, <2>4 DEF DrainLocked, CanLock
  <2>5. CASE DrainWaited
    BY <2>1, <2>5 DEF DrainWaited
  <2>6. CASE Enqueue("proc")
    BY <2>1, <2>6 DEF Enqueue
  <2>7. CASE DrainTest
    BY <2>1, <2>7 DEF DrainTest, AfterDrain, lockVars, TypeOK, ProcOK
  <2> QED BY <1>1, <2>2, <2>3, <2>4, <2>5, <2>6, <2>7 DEF ProcessorStep, CheckPause, SelfPause,
          DrainLocked, IdleLocked, TakeCancelled, AwaitPending, TakePending, StartTask
<1>2. CASE MonitorStep
  <2>1. sync' = sync /\ (proc' = "drainWait" => proc = "drainWait")
    BY <1>2 DEF MonitorStep, MonitorWakes, MonitorResumes, Enqueue, Notified, procVars, loopVars
  <2>2. lock' = lock \/ PassesThrough("monitor")
    BY <1>2 DEF MonitorStep, MonitorWakes, MonitorResumes, Enqueue, lockVars
  <2>3. CASE PassesThrough("monitor")
    BY <2>1, <2>3 DEF PassesThrough, CanLock, lockVars
  <2> QED BY <2>1, <2>2, <2>3
<1>3. CASE SyncStep
  <2>1. proc' = "drainWait" => proc = "drainWait"
    BY <1>3 DEF SyncStep, PauseCalled, PauseCancels, PauseGathered, UpdateCounts, UpdateSets,
       ResumeCalled, ResumeCleared, Resumed, Notified, Enqueue, procVars
  <2>2. CASE PauseCalled \/ ResumeCalled
    BY <2>1, <2>2 DEF PauseCalled, ResumeCalled, Resumed, PassesThrough, CanLock, lockVars
  <2>3. CASE UpdateCounts
    BY <2>1, <2>3 DEF UpdateCounts, CanLock
  <2>4. CASE PauseCancels \/ Enqueue("sync")
    BY <2>1, <2>4 DEF PauseCancels, Enqueue, lockVars, loopVars
  <2>5. CASE PauseGathered \/ UpdateSets \/ ResumeCleared
    BY <2>1, <2>5 DEF PauseGathered, UpdateSets, ResumeCleared, Resumed
  <2> QED BY <1>3, <2>2, <2>3, <2>4, <2>5 DEF SyncStep
<1>4. CASE SendSentinel \/ TrainerStep \/ \E s \in Samples : TaskStep(s)
  <2>1. UNCHANGED <<procVars, lockVars, ctrlVars>>
    BY <1>4, Elsewhere
  <2>2. sync' = sync \/ sync' \in {"pauseLock", "updateLock"}
    BY <1>4 DEF SendSentinel, TrainerStep, GetSample, TrainStep, CallPause, CallUpdate, TrainerStops,
       TaskStep, Generated, Put, Interrupted, GenerationRaises, Task, loopVars
  <2> QED BY <2>1, <2>2 DEF procVars, lockVars
<1>5. CASE Feed \/ UNCHANGED vars
  <2>1. UNCHANGED <<procVars, lockVars, loopVars>>
    BY <1>5 DEF Feed, vars
  <2> QED BY <2>1 DEF procVars, lockVars, loopVars
<1> QED BY <1>1, <1>2, <1>3, <1>4, <1>5 DEF Next

LEMMA TestStep ==
  ASSUME TypeOK, TestStillHolds, [Next]_vars
  PROVE  TestStillHolds'
<1> USE DEF TestStillHolds
<1>1. CASE CheckPause
  <2>1. proc' = "take" => ~ShouldPause
    BY <1>1 DEF CheckPause
  <2>2. busy' = TRUE /\ staleness' = staleness /\ staleness \in Nat
    BY <1>1 DEF CheckPause, TypeOK, CtrlOK
  <2> QED BY <2>1, <2>2, Constants DEF ShouldPause
<1>2. CASE ProcessorStep /\ ~CheckPause
  BY <1>2 DEF TypeOK, ProcOK, ProcessorStep, SelfPause, DrainTest, AfterDrain, DrainLocked, DrainWaited, IdleLocked,
     TakeCancelled, AwaitPending, TakePending, StartTask, Enqueue, WantsLock, ProcLockAt
<1>3. CASE Feed \/ MonitorStep \/ SyncStep
  <2>1. ~busy /\ (proc' = "take" => proc = "take")
    BY <1>3 DEF Feed, MonitorStep, MonitorWakes, MonitorResumes, SyncStep, PauseCalled, PauseCancels,
       PauseGathered, UpdateCounts, UpdateSets, ResumeCalled, ResumeCleared, Resumed, Notified,
       Enqueue, procVars
  <2> QED BY <2>1
<1>4. CASE SendSentinel \/ TrainerStep \/ \E s \in Samples : TaskStep(s)
  BY <1>4, Elsewhere DEF procVars, ctrlVars
<1>5. CASE UNCHANGED vars
  BY <1>5 DEF vars, procVars, ctrlVars
<1> QED BY <1>1, <1>2, <1>3, <1>4, <1>5 DEF Next

Held == IF hand \in Samples THEN 1 ELSE 0
Tasks == Cardinality(generating) + Cardinality(putting) + Len(cancelQueue)

\* The samples under way, in three numbers.
LEMMA UnderWaySum ==
  ASSUME TypeOK
  PROVE  /\ Held \in 0 .. 1 /\ Tasks \in Nat /\ Len(queue) \in Nat
         /\ CountUnderWay = Held + Tasks + Len(queue)
<1>1. Cardinality(generating) \in Nat /\ Cardinality(putting) \in Nat /\ Len(cancelQueue) \in Nat
  BY CountType DEF TypeOK
<1>2. Len(queue) \in Nat
  BY LenProperties DEF TypeOK, QueueOK
<1>3. CountUnderWay = Held + Cardinality(generating) + Cardinality(putting)
                        + Len(cancelQueue) + Len(queue)
  BY DEF CountUnderWay, Held
<1>4. Held \in 0 .. 1
  BY DEF Held
<1> QED BY <1>1, <1>2, <1>3, <1>4 DEF Tasks

\* A task that moves on takes its sample with it, or drops it.
LEMMA TaskMoves ==
  ASSUME TypeOK, NEW s \in Samples, TaskStep(s)
  PROVE  Tasks' <= Tasks /\ Tasks' + Len(queue') <= Tasks + Len(queue)
<1>1. /\ IsFiniteSet(generating) /\ IsFiniteSet(putting) /\ Cardinality(generating) \in Nat
      /\ Cardinality(putting) \in Nat /\ Len(cancelQueue) \in Nat /\ Len(queue) \in Nat
  BY CountType, UnderWaySum DEF TypeOK
<1>2. s \in generating => Cardinality(generating \ {s}) = Cardinality(generating) - 1
  BY <1>1, FS_RemoveElement
<1>3. s \in putting => Cardinality(putting \ {s}) = Cardinality(putting) - 1
  BY <1>1, FS_RemoveElement
<1>4. /\ Cardinality(putting \cup {s}) \in Nat
      /\ Cardinality(putting \cup {s}) <= Cardinality(putting) + 1
  <2>1. Cardinality(putting \cup {s}) = IF s \in putting THEN Cardinality(putting)
                                        ELSE Cardinality(putting) + 1
    BY <1>1, FS_AddElement
  <2> QED BY <1>1, <2>1
<1>5. CASE Generated(s)
  <2>1. /\ Cardinality(generating') = Cardinality(generating) - 1
        /\ Cardinality(putting') = Cardinality(putting \cup {s})
        /\ cancelQueue' = cancelQueue /\ queue' = queue
    BY <1>2, <1>5 DEF Generated, queueVars
  <2> QED BY <1>1, <1>4, <2>1 DEF Tasks
<1>6. CASE Put(s)
  <2>1. s \in 1 .. End
    BY Constants DEF Samples
  <2>2. Len(queue') <= Len(queue) + 1 /\ Len(queue') \in Nat
    BY <1>6, <2>1, PutSampleType, LenProperties DEF Put, QueueOK
  <2>3. /\ Cardinality(putting') = Cardinality(putting) - 1
        /\ generating' = generating /\ cancelQueue' = cancelQueue
    BY <1>3, <1>6 DEF Put
  <2> QED BY <1>1, <2>2, <2>3 DEF Tasks
<1>7. CASE Interrupted(s)
  <2>1. Len(cancelQueue') = Len(cancelQueue) + 1
    BY <1>7, AppendProperties DEF Interrupted, TypeOK, TaskOK
  <2>2. /\ Cardinality(generating') = Cardinality(generating) - 1
        /\ putting' = putting /\ queue' = queue
    BY <1>2, <1>7 DEF Interrupted, queueVars
  <2> QED BY <1>1, <2>1, <2>2 DEF Tasks
<1>8. CASE GenerationRaises(s)
  <2>1. /\ Cardinality(generating') = Cardinality(generating) - 1
        /\ putting' = putting /\ cancelQueue' = cancelQueue /\ queue' = queue
    BY <1>2, <1>8 DEF GenerationRaises, queueVars
  <2> QED BY <1>1, <2>1 DEF Tasks
<1> QED BY <1>5, <1>6, <1>7, <1>8 DEF TaskStep

\* A sample that comes to the hand from one of n places, and one that leaves it.
LEMMA ToHand ==
  ASSUME NEW n \in Nat, NEW m \in Nat, NEW h \in 0 .. 1, NEW k \in 0 .. 1, m = n - 1
  PROVE  m <= n /\ k + m <= h + n
OBVIOUS

LEMMA Transitive ==
  ASSUME NEW a \in Int, NEW b \in Int, NEW c \in Int, a <= b, b <= c
  PROVE  a <= c
OBVIOUS

LEMMA FromHand ==
  ASSUME NEW n \in Nat, NEW m \in Nat, m <= n + 1
  PROVE  0 + m <= 1 + n
OBVIOUS

\* Starting a task moves the sample from the hand; nothing but a fresh sample
\* from pending_queue adds to the samples under way.
LEMMA ProcessorMoves ==
  ASSUME TypedHand, ProcessorStep
  PROVE  /\ queue' = queue
         /\ ~StartTask => Tasks' <= Tasks
         /\ ~TakePending => Held' + Tasks' <= Held + Tasks
         /\ TakePending => Tasks' = Tasks
<1>1. Tasks \in Nat /\ Held \in 0 .. 1 /\ Held' \in 0 .. 1
  BY UnderWaySum DEF TypedHand, Held
<1>2. queue' = queue
  BY DEF ProcessorStep, CheckPause, SelfPause, DrainTest, DrainLocked, DrainWaited, IdleLocked,
     TakeCancelled, AwaitPending, TakePending, StartTask, Enqueue, Processor, queueVars
<1>3. CASE StartTask
  <2>0. ~TakePending
    BY <1>3 DEF StartTask, TakePending
  <2>1. CASE paused
    <3>1. UNCHANGED <<hand, generating, putting, cancelQueue>>
      BY <1>3, <2>1 DEF StartTask
    <3>2. Tasks' = Tasks /\ Held' = Held
      BY <3>1 DEF Held, Tasks
    <3>3. Held' + Tasks' <= Held + Tasks
      <4>1. Held \in Nat
        BY <1>1
      <4> QED BY <1>1, <3>2, <4>1
    <3> QED BY <1>2, <1>3, <2>0, <3>3
  <2>2. CASE ~paused
    <3>1. hand \in Samples
      BY <1>3 DEF StartTask, TypedHand, HandHeld, Carrying
    <3>2. /\ Cardinality(generating) \in Nat /\ IsFiniteSet(generating)
          /\ Cardinality(putting) \in Nat /\ Len(cancelQueue) \in Nat
      BY CountType DEF TypedHand, TypeOK
    <3>3. /\ Cardinality(generating \cup {hand}) \in Nat
          /\ Cardinality(generating \cup {hand}) <= Cardinality(generating) + 1
      <4>1. Cardinality(generating \cup {hand}) = IF hand \in generating THEN Cardinality(generating)
                                                  ELSE Cardinality(generating) + 1
        BY <3>2, FS_AddElement
      <4> QED BY <3>2, <4>1
    <3>4. /\ generating' = generating \cup {hand} /\ hand' = 0
          /\ putting' = putting /\ cancelQueue' = cancelQueue
      BY <1>3, <2>2 DEF StartTask, Nothing
    <3>5. Held = 1 /\ Held' = 0
      BY <3>1, <3>4, Constants DEF Held, Samples
    <3>6. Tasks' <= Tasks + 1
      BY <3>2, <3>3, <3>4 DEF Tasks
    <3>7. Tasks' \in Nat
      BY <3>2, <3>3, <3>4 DEF Tasks
    <3>8. Held' + Tasks' <= Held + Tasks
      BY <1>1, <3>5, <3>6, <3>7, FromHand
    <3> QED BY <1>2, <1>3, <2>0, <3>8
  <2> QED BY <2>1, <2>2
<1>4. CASE TakeCancelled
  <2>1. Len(cancelQueue') = Len(cancelQueue) - 1 /\ generating' = generating /\ putting' = putting
    BY <1>4, HeadTail DEF TakeCancelled, Processor, TypedHand, TypeOK, TaskOK
  <2>2. Tasks' = Tasks - 1
    <3>1. /\ Cardinality(generating) \in Nat /\ Cardinality(putting) \in Nat
          /\ Len(cancelQueue) \in Nat
      BY CountType DEF TypedHand, TypeOK
    <3> QED BY <2>1, <3>1 DEF Tasks
  <2>3. ~TakePending
    <3>1. cancelQueue # << >> /\ proc = "take"
      BY <1>4 DEF TakeCancelled
    <3> QED BY <3>1 DEF TakePending
  <2>4. Tasks' \in Nat
    <3>1. cancelQueue' \in Seq(Samples) /\ generating' = generating /\ putting' = putting
      BY <1>4, <2>1, HeadTail DEF TakeCancelled, TypedHand, TypeOK, TaskOK
    <3>2. Cardinality(generating) \in Nat /\ Cardinality(putting) \in Nat
      BY CountType DEF TypedHand, TypeOK
    <3> QED BY <3>1, <3>2, LenProperties DEF Tasks
  <2>5. Tasks' <= Tasks /\ Held' + Tasks' <= Held + Tasks
    BY <1>1, <2>2, <2>4, ToHand
  <2> QED BY <1>2, <2>3, <2>5
<1>5. CASE ~StartTask /\ ~TakeCancelled
  <2>1. UNCHANGED <<generating, putting, cancelQueue>> /\ (~TakePending => hand' = hand)
    BY <1>5 DEF ProcessorStep, CheckPause, SelfPause, DrainTest, DrainLocked, DrainWaited, IdleLocked,
       AwaitPending, TakePending, Enqueue, Processor, taskVars
  <2>2. Tasks' = Tasks /\ (~TakePending => Held' = Held)
    BY <2>1 DEF Tasks, Held
  <2>3. Tasks' <= Tasks
    BY <1>1, <2>2
  <2>4. ~TakePending => Held' + Tasks' <= Held + Tasks
    <3>1. Held \in Nat
      BY <1>1
    <3> QED BY <1>1, <2>2, <3>1
  <2> QED BY <1>2, <2>2, <2>3, <2>4
<1> QED BY <1>3, <1>4, <1>5

\* The other coroutines and the trainer put nothing under way.
LEMMA OthersMove ==
  ASSUME TypeOK, Feed \/ MonitorStep \/ SyncStep \/ TrainerStep
  PROVE  Tasks' = Tasks /\ Held' = Held /\ Len(queue') <= Len(queue)
<1>1. UNCHANGED <<hand, generating, putting, cancelQueue>>
  BY DEF Feed, MonitorStep, MonitorWakes, MonitorResumes, SyncStep, PauseCalled, PauseCancels,
     PauseGathered, UpdateCounts, UpdateSets, ResumeCalled, ResumeCleared, Enqueue, TrainerStep,
     GetSample, TrainStep, CallPause, CallUpdate, TrainerStops, Trainer, procVars, taskVars
<1>2. queue' = queue \/ GetSample
  BY DEF Feed, MonitorStep, MonitorWakes, MonitorResumes, SyncStep, PauseCalled, PauseCancels,
     PauseGathered, UpdateCounts, UpdateSets, ResumeCalled, ResumeCleared, Enqueue, TrainerStep,
     GetSample, TrainStep, CallPause, CallUpdate, TrainerStops, queueVars
<1>3. CASE GetSample
  <2>1. queue \in Seq(1 .. End) /\ queue # << >> /\ queue' = Tail(queue)
    BY <1>3 DEF GetSample, TypeOK, QueueOK
  <2>2. Len(queue') = Len(queue) - 1
    BY <2>1, HeadTail
  <2> QED BY <1>1, <2>2, UnderWaySum DEF Tasks, Held
<1>4. CASE queue' = queue
  BY <1>1, <1>4, UnderWaySum DEF Tasks, Held
<1> QED BY <1>2, <1>3, <1>4

\* The message queue after a sample, or anything else, was put.
LEMMA CountBefore ==
  ASSUME NEW t \in Nat, NEW q \in Nat, NEW h \in 0 .. 1, NEW u \in Nat, NEW r \in Nat, NEW k \in 0 .. 1,
         \/ u <= t /\ r <= q /\ k = h
         \/ u + r <= t + q /\ k = h
         \/ k + u <= h + t /\ r = q
  PROVE  k + u + r <= h + t + q
OBVIOUS

\* While the processor lives, only a fresh sample adds to the samples under way.
LEMMA CountStep ==
  ASSUME TypedHand, TypedHand', [Next]_vars, main' = "waiting"
  PROVE  /\ ~TakePending => CountUnderWay' <= CountUnderWay
         /\ TakePending => CountUnderWay' <= CountUnderWay + 1
<1>1. /\ Held \in 0 .. 1 /\ Tasks \in Nat /\ Len(queue) \in Nat
      /\ CountUnderWay = Held + Tasks + Len(queue)
  BY UnderWaySum DEF TypedHand
<1>2. /\ Held' \in 0 .. 1 /\ Tasks' \in Nat /\ Len(queue') \in Nat
      /\ CountUnderWay' = Held' + Tasks' + Len(queue')
  <2>1. TypeOK'
    BY DEF TypedHand
  <2>2. Held' \in 0 .. 1
    BY DEF Held
  <2>3. Cardinality(generating') \in Nat /\ Cardinality(putting') \in Nat
    <3>1. generating' \subseteq Samples /\ putting' \subseteq Samples
      BY <2>1 DEF TypeOK, TaskOK
    <3>2. IsFiniteSet(Samples)
      BY FS_Interval, Constants DEF Samples
    <3> QED BY <3>1, <3>2, FS_Subset, FS_CardinalityType
  <2>4. Len(cancelQueue') \in Nat /\ Len(queue') \in Nat
    BY <2>1, LenProperties DEF TypeOK, TaskOK, QueueOK
  <2>5. CountUnderWay' = Held' + Cardinality(generating') + Cardinality(putting')
                           + Len(cancelQueue') + Len(queue')
    BY DEF CountUnderWay, Held
  <2> QED BY <2>2, <2>3, <2>4, <2>5 DEF Tasks
<1>3. CASE TakePending
  <2>1. Tasks' = Tasks /\ queue' = queue
    BY <1>3, ProcessorMoves DEF ProcessorStep
  <2> QED BY <1>1, <1>2, <1>3, <2>1
<1>4. CASE ~TakePending
  <2>1. \/ Tasks' <= Tasks /\ Len(queue') <= Len(queue) /\ Held' = Held
        \/ Tasks' + Len(queue') <= Tasks + Len(queue) /\ Held' = Held
        \/ Held' + Tasks' <= Held + Tasks /\ Len(queue') = Len(queue)
    <3>1. CASE ProcessorStep
      BY <1>4, <3>1, ProcessorMoves
    <3>2. CASE Feed \/ MonitorStep \/ SyncStep \/ TrainerStep
      <4>1. Tasks' = Tasks /\ Held' = Held /\ Len(queue') <= Len(queue)
        BY <3>2, OthersMove DEF TypedHand
      <4> QED BY <1>1, <4>1
    <3>3. CASE \E s \in Samples : TaskStep(s)
      <4>1. Tasks' + Len(queue') <= Tasks + Len(queue)
        BY <3>3, TaskMoves DEF TypedHand
      <4>2. Held' = Held
        BY <3>3, Elsewhere DEF procVars, Held
      <4> QED BY <4>1, <4>2
    <3>4. CASE UNCHANGED vars
      <4>1. UNCHANGED <<procVars, taskVars, queueVars>>
        BY <3>4 DEF vars
      <4>2. Held' = Held /\ Tasks' = Tasks /\ queue' = queue
        BY <4>1 DEF procVars, taskVars, queueVars, Held, Tasks
      <4> QED BY <1>1, <4>2
    <3>5. ~SendSentinel
      BY DEF SendSentinel
    <3> QED BY <3>1, <3>2, <3>3, <3>4, <3>5 DEF Next
  <2>2. Held' + Tasks' + Len(queue') <= Held + Tasks + Len(queue)
    BY <1>1, <1>2, <2>1, CountBefore
  <2> QED BY <1>1, <1>2, <1>4, <2>2
<1> QED BY <1>3, <1>4

\* What update_param_version counted covers the tasks until it has its answer: it
\* keeps the lock, and no task starts without the lock.
LEMMA CountCoversStep ==
  ASSUME TypedHand, LockHeld, CountCovers, [Next]_vars
  PROVE  CountCovers'
<1>1. Tasks \in Nat /\ counted \in Nat
  BY UnderWaySum DEF TypedHand, TypeOK, LoopOK
<1>2. CountCovers <=> (sync = "size" => Tasks <= counted)
  BY DEF CountCovers, Tasks
<1>3. CountCovers' <=> (sync' = "size" => Tasks' <= counted')
  BY DEF CountCovers, Tasks
<1>4. CASE UpdateCounts
  <2>1. counted' = ActiveCount + Len(cancelQueue) /\ Tasks' = Tasks
    BY <1>4 DEF UpdateCounts, taskVars, Tasks
  <2>2. /\ Cardinality(generating) \in Nat /\ Cardinality(putting) \in Nat /\ Len(cancelQueue) \in Nat
        /\ ended \in Nat
    BY CountType DEF TypedHand, TypeOK, TaskOK
  <2>3. Tasks <= counted'
    BY <2>1, <2>2 DEF ActiveCount, Tasks
  <2> QED BY <1>3, <2>1, <2>3
<1>5. CASE ~UpdateCounts /\ sync' = "size"
  <2>1. sync = "size" /\ counted' = counted
    BY <1>5 DEF Next, ProcessorStep, CheckPause, SelfPause, DrainTest, DrainLocked, DrainWaited,
       IdleLocked, TakeCancelled, AwaitPending, TakePending, StartTask, Enqueue, Processor, Feed,
       SendSentinel, MonitorStep, MonitorWakes, MonitorResumes, SyncStep, PauseCalled, PauseCancels,
       PauseGathered, UpdateSets, ResumeCalled, ResumeCleared, Resumed, TrainerStep, GetSample,
       TrainStep, CallPause, CallUpdate, TrainerStops, Trainer, TaskStep, Generated, Put, Interrupted,
       GenerationRaises, Task, loopVars, vars
  <2>2. Tasks' <= Tasks
    <3>1. CASE ProcessorStep
      <4>1. ~StartTask
        BY <2>1 DEF StartTask, PassesThrough, CanLock, LockHeld, Free
      <4> QED BY <3>1, <4>1, ProcessorMoves
    <3>2. CASE Feed \/ MonitorStep \/ SyncStep \/ TrainerStep
      BY <1>1, <3>2, OthersMove DEF TypedHand
    <3>3. CASE \E s \in Samples : TaskStep(s)
      BY <3>3, TaskMoves DEF TypedHand
    <3>4. CASE SendSentinel \/ UNCHANGED vars
      <4>1. UNCHANGED taskVars
        BY <3>4 DEF SendSentinel, vars
      <4> QED BY <1>1, <4>1 DEF taskVars, Tasks
    <3> QED BY <3>1, <3>2, <3>3, <3>4 DEF Next
  <2>3. Tasks' \in Nat
    <3>1. TypeOK'
      BY TypeStep DEF TypedHand
    <3>2. generating' \subseteq Samples /\ putting' \subseteq Samples /\ cancelQueue' \in Seq(Samples)
      BY <3>1 DEF TypeOK, TaskOK
    <3>3. IsFiniteSet(Samples)
      BY FS_Interval, Constants DEF Samples
    <3>4. Cardinality(generating') \in Nat /\ Cardinality(putting') \in Nat
      BY <3>2, <3>3, FS_Subset, FS_CardinalityType
    <3> QED BY <3>2, <3>4, LenProperties DEF Tasks
  <2>4. Tasks <= counted
    BY <1>2, <2>1
  <2> QED BY <1>1, <1>3, <2>1, <2>2, <2>3, <2>4
<1>6. CASE sync' # "size"
  BY <1>3, <1>6
<1> QED BY <1>4, <1>5, <1>6

\* Who changes staleness_samples, and how the processor comes to wait for a sample.
LEMMA StalenessChanges ==
  ASSUME TypeOK, [Next]_vars
  PROVE  /\ staleness' = staleness \/ UpdateSets \/ TakePending
         /\ proc' = "get" => proc = "get" \/ AwaitPending
         /\ main' = "waiting" => main = "waiting"
<1>1. staleness' = staleness \/ UpdateSets \/ TakePending
  BY DEF Next, ProcessorStep, CheckPause, SelfPause, DrainTest, DrainLocked, DrainWaited,
     IdleLocked, TakeCancelled, AwaitPending, StartTask, Enqueue, Feed,
     SendSentinel, MonitorStep, MonitorWakes, MonitorResumes, SyncStep, PauseCalled, PauseCancels,
     PauseGathered, UpdateCounts, ResumeCalled, ResumeCleared, TrainerStep, GetSample,
     TrainStep, CallPause, CallUpdate, TrainerStops, Trainer, TaskStep, Generated, Put, Interrupted,
     GenerationRaises, Task, ctrlVars, vars
<1>2. proc' = "get" => proc = "get" \/ AwaitPending
  BY DEF TypeOK, ProcOK, Next, ProcessorStep, CheckPause, SelfPause, DrainTest, AfterDrain, DrainLocked,
     DrainWaited, IdleLocked, TakeCancelled, TakePending, StartTask, Enqueue, Feed, SendSentinel,
     MonitorStep, MonitorWakes, MonitorResumes, Notified, SyncStep, PauseCalled, PauseCancels,
     PauseGathered, UpdateCounts, UpdateSets, ResumeCalled, ResumeCleared, Resumed, TrainerStep,
     GetSample, TrainStep, CallPause, CallUpdate, TrainerStops, Trainer, TaskStep, Generated, Put,
     Interrupted, GenerationRaises, Task, procVars, vars
<1>3. main' = "waiting" => main = "waiting"
  BY DEF Next, ProcessorStep, CheckPause, SelfPause, DrainTest, DrainLocked, DrainWaited,
     IdleLocked, TakeCancelled, AwaitPending, TakePending, StartTask, Enqueue, Processor, Feed,
     SendSentinel, MonitorStep, MonitorWakes, MonitorResumes, SyncStep, PauseCalled, PauseCancels,
     PauseGathered, UpdateCounts, UpdateSets, ResumeCalled, ResumeCleared, TrainerStep, GetSample,
     TrainStep, CallPause, CallUpdate, TrainerStops, Trainer, TaskStep, Generated, Put, Interrupted,
     GenerationRaises, Task, loopVars, vars
<1> QED BY <1>1, <1>2, <1>3

\* Recounting misses at most the sample in the hand, and a sample is taken only
\* while the count is below the limit.
LEMMA BoundStep ==
  ASSUME TypedHand, TypedHand', Freshness, [Next]_vars, main' = "waiting"
  PROVE  StalenessCovers' /\ UnderWayBounded'
<1>1. /\ main = "waiting" /\ CountUnderWay <= staleness + 1 /\ CountUnderWay <= MaxRequired + 1
      /\ proc = "get" => CountUnderWay <= MaxRequired
  BY StalenessChanges DEF Freshness, StalenessCovers, UnderWayBounded, TypedHand
<1>2. /\ CountUnderWay \in Nat /\ staleness \in Nat
      /\ Held \in 0 .. 1 /\ Tasks \in Nat /\ Len(queue) \in Nat
      /\ CountUnderWay = Held + Tasks + Len(queue)
  BY UnderWaySum DEF TypedHand, TypeOK, CtrlOK
<1>3. CountUnderWay' \in Int /\ staleness' \in Nat
  <2>1. generating' \subseteq Samples /\ putting' \subseteq Samples /\ cancelQueue' \in Seq(Samples)
        /\ queue' \in Seq(1 .. End)
    BY DEF TypedHand, TypeOK, TaskOK, QueueOK
  <2>2. IsFiniteSet(Samples)
    BY FS_Interval, Constants DEF Samples
  <2>3. Cardinality(generating') \in Nat /\ Cardinality(putting') \in Nat
    BY <2>1, <2>2, FS_Subset, FS_CardinalityType
  <2> QED BY <2>1, <2>3, LenProperties DEF CountUnderWay, TypedHand, TypeOK, CtrlOK
<1>4. CASE TakePending
  <2>1. CountUnderWay <= MaxRequired
    <3>1. CASE proc = "get"
      BY <1>1, <3>1
    <3>2. CASE proc = "take"
      <4>1. staleness < MaxRequired
        BY <3>2 DEF Freshness, TestStillHolds
      <4> QED BY <1>1, <1>2, <4>1, Constants
    <3> QED BY <1>4, <3>1, <3>2 DEF TakePending
  <2>2. CountUnderWay' <= CountUnderWay + 1
    BY <1>4, CountStep
  <2>3. staleness' = staleness + 1 /\ proc' = "drain"
    BY <1>4 DEF TakePending
  <2>4. CountUnderWay' <= staleness' + 1
    BY <1>1, <1>2, <1>3, <2>2, <2>3
  <2>5. CountUnderWay' <= MaxRequired + 1
    BY <1>2, <1>3, <2>1, <2>2, Constants
  <2> QED BY <2>3, <2>4, <2>5 DEF StalenessCovers, UnderWayBounded
<1>5. CASE ~TakePending
  <2>1. CountUnderWay' <= CountUnderWay
    BY <1>5, CountStep
  <2>2. CountUnderWay' <= staleness' + 1
    <3>1. CASE UpdateSets
      <4>1. Tasks <= counted /\ staleness' = counted + Len(queue)
        BY <3>1 DEF UpdateSets, Freshness, CountCovers, Tasks
      <4>2. counted \in Nat
        BY DEF TypedHand, TypeOK, LoopOK
      <4>3. CountUnderWay <= staleness' + 1
        BY <1>2, <4>1, <4>2
      <4>4. CountUnderWay \in Int /\ staleness' + 1 \in Int
        BY <1>2, <1>3
      <4> QED BY <1>3, <2>1, <4>3, <4>4, Transitive
    <3>2. CASE staleness' = staleness
      BY <1>1, <1>2, <1>3, <2>1, <3>2
    <3> QED BY <1>5, <3>1, <3>2, StalenessChanges DEF TypedHand
  <2>3. proc' = "get" => CountUnderWay' <= MaxRequired
    <3>1. CASE AwaitPending
      <4>1. staleness < MaxRequired
        BY <3>1 DEF AwaitPending, Freshness, TestStillHolds
      <4> QED BY <1>1, <1>2, <1>3, <2>1, <4>1, Constants
    <3>2. CASE proc = "get"
      BY <1>1, <1>2, <1>3, <2>1, <3>2, Constants
    <3> QED BY <3>1, <3>2, StalenessChanges DEF TypedHand
  <2>4. CountUnderWay' <= MaxRequired + 1
    BY <1>1, <1>2, <1>3, <2>1, Constants
  <2> QED BY <2>2, <2>3, <2>4 DEF StalenessCovers, UnderWayBounded
<1> QED BY <1>4, <1>5

LEMMA FreshnessInit == Init => Freshness
<1> SUFFICES ASSUME Init PROVE Freshness
  OBVIOUS
<1>1. LockHeld /\ TestStillHolds /\ CountCovers
  BY DEF Init, LockHeld, TestStillHolds, CountCovers
<1>2. Cardinality(generating) = 0 /\ Cardinality(putting) = 0
  BY FS_EmptySet DEF Init
<1>3. Len(cancelQueue) = 0 /\ Len(queue) = 0
  BY EmptySeq DEF Init
<1>4. hand \notin Samples /\ staleness = 0 /\ proc # "get"
  BY Constants DEF Init, Samples, Nothing
<1>5. CountUnderWay = 0
  BY <1>2, <1>3, <1>4 DEF CountUnderWay
<1> QED BY <1>1, <1>4, <1>5, Constants DEF Freshness, StalenessCovers, UnderWayBounded

LEMMA FreshnessStep ==
  ASSUME TypedHand, Freshness, [Next]_vars
  PROVE  Freshness'
<1>1. TypedHand'
  BY TypeStep
<1>2. LockHeld' /\ TestStillHolds'
  BY LockHeldStep, TestStep DEF Freshness, TypedHand
<1>3. CountCovers'
  BY CountCoversStep DEF Freshness
<1>4. StalenessCovers' /\ UnderWayBounded'
  <2>1. CASE main' = "waiting"
    BY <1>1, <2>1, BoundStep
  <2>2. CASE main' # "waiting"
    BY <2>2 DEF StalenessCovers, UnderWayBounded
  <2> QED BY <2>1, <2>2
<1> QED BY <1>2, <1>3, <1>4 DEF Freshness

\* Freshness control of _processor_worker and update_param_version: whatever the
\* sizes, with or without partial rollout, at most max_required_samples + 1 samples
\* are under way while the Rollouter works.
THEOREM FreshnessBound == Spec => []UnderWayBounded
<1>1. Init => TypedHand /\ Freshness
  BY TypeInit, FreshnessInit
<1>2. TypedHand /\ Freshness /\ [Next]_vars => (TypedHand /\ Freshness)'
  BY TypeStep, FreshnessStep
<1>3. Freshness => UnderWayBounded
  BY DEF Freshness
<1> QED BY <1>1, <1>2, <1>3, PTL DEF Spec

-------------------------------------------------------------------------------
(* Where the samples are.                                                     *)

\* The samples that are neither trained on nor lost.
Alive == UnderWay \cup batch

\* The samples taken from pending_queue; the end signal is no sample.
TakenSamples == IF taken = End THEN Total ELSE taken

\* A sequence holds each of its members once.
NoRepeat(s) == \A i, j \in 1 .. Len(s) : s[i] = s[j] => i = j

\* The processor keeps a sample in its hand only on its way to a task, or when it dies.
HandPlace == hand \in Samples => Carrying \/ proc = "failed"

\* The places are disjoint and no queue holds a sample twice.
Apart ==
    /\ InHand \cap (generating \cup putting \cup Members(cancelQueue) \cup Queued \cup batch) = {}
    /\ generating \cap (putting \cup Members(cancelQueue) \cup Queued \cup batch) = {}
    /\ putting \cap (Members(cancelQueue) \cup Queued \cup batch) = {}
    /\ Members(cancelQueue) \cap (Queued \cup batch) = {}
    /\ Queued \cap batch = {}
    /\ NoRepeat(cancelQueue) /\ NoRepeat(queue)
    /\ Alive \subseteq 1..taken

\* Every sample taken is in a place, trained on, evicted, or failed to generate.
Counted == TakenSamples = Cardinality(Alive) + batches * Required + dropped + failures

\* The termination signal enters the queue when the processor is over, and only
\* the signal ends the trainer.
EndOfQueue ==
    /\ main = "waiting" => End \notin Members(queue)
    /\ main = "stopped" => proc \in {"exited", "failed"}
    /\ trainer \in {"drained", "crashed", "finished"} => main = "stopped"

\* active_tasks stays within max_concurrent_samples; a processor that left has no
\* tasks, one that died left room for its own.
Concurrent ==
    /\ ActiveCount <= MaxConcurrent
    /\ proc \in {"startLock", "start"} => ActiveCount < MaxConcurrent
    /\ proc = "exited" => generating = {} /\ putting = {}
    /\ proc = "failed" => Cardinality(generating) + Cardinality(putting) < MaxConcurrent

\* What can still be put after the termination signal cannot push it out of the queue.
SignalSafe == \A p \in 1..Len(queue) : queue[p] = End =>
    Len(queue) - p + Cardinality(generating) + Cardinality(putting) < MaxRequired

\* The trainer trains on full batches only.
FullBatch == IF trainer = "train" THEN Cardinality(batch) = Required ELSE Cardinality(batch) < Required

\* Appending adds a member.
LEMMA MembersAppend ==
  ASSUME NEW T, NEW s \in Seq(T), NEW x
  PROVE  /\ Members(Append(s, x)) = Members(s) \cup {x}
         /\ NoRepeat(s) /\ x \notin Members(s) => NoRepeat(Append(s, x))
<1> DEFINE t == Append(s, x)
<1>1. /\ Len(s) \in Nat /\ Len(t) = Len(s) + 1 /\ t[Len(s) + 1] = x
      /\ \A i \in 1 .. Len(s) : t[i] = s[i]
  OBVIOUS
<1> HIDE DEF t
<1>2. 1 .. Len(t) = 1 .. Len(s) \cup {Len(s) + 1}
  BY <1>1
<1>3. Members(t) = Members(s) \cup {x}
  BY <1>1, <1>2 DEF Members
<1>4. ASSUME NoRepeat(s), x \notin Members(s) PROVE NoRepeat(t)
  <2> SUFFICES ASSUME NEW i \in 1 .. Len(t), NEW j \in 1 .. Len(t), t[i] = t[j] PROVE i = j
    BY DEF NoRepeat
  <2>1. CASE i \in 1 .. Len(s) /\ j \in 1 .. Len(s)
    BY <1>1, <1>4, <2>1 DEF NoRepeat
  <2>2. \A k \in 1 .. Len(s) : t[k] # x
    BY <1>1, <1>4 DEF Members
  <2> QED BY <1>1, <1>2, <2>1, <2>2
<1> QED BY <1>3, <1>4 DEF t

\* A sequence is its head and its tail.
LEMMA MembersTail ==
  ASSUME NEW T, NEW s \in Seq(T), s # << >>
  PROVE  /\ Head(s) \in Members(s) /\ Members(Tail(s)) \subseteq Members(s)
         /\ Members(s) = Members(Tail(s)) \cup {Head(s)}
         /\ NoRepeat(s) => NoRepeat(Tail(s)) /\ Members(Tail(s)) = Members(s) \ {Head(s)}
<1> DEFINE t == Tail(s)
<1>1. /\ Len(s) \in Nat \ {0} /\ Len(t) = Len(s) - 1 /\ Head(s) = s[1]
      /\ \A i \in 1 .. Len(t) : t[i] = s[i + 1]
  BY HeadTailProperties, LenProperties, EmptySeq
<1> HIDE DEF t
<1>2. \A i \in 1 .. Len(t) : i + 1 \in 1 .. Len(s) /\ i + 1 # 1
  BY <1>1
<1>3. \A i \in 1 .. Len(s) : i = 1 \/ (i - 1 \in 1 .. Len(t) /\ t[i - 1] = s[i])
  BY <1>1
<1>4. Head(s) \in Members(s)
  BY <1>1 DEF Members
<1>5. Members(t) \subseteq Members(s)
  BY <1>1, <1>2 DEF Members
<1>6. Members(s) \subseteq Members(t) \cup {Head(s)}
  BY <1>1, <1>3 DEF Members
<1>7. ASSUME NoRepeat(s) PROVE NoRepeat(t) /\ Head(s) \notin Members(t)
  <2>1. NoRepeat(t)
    BY <1>1, <1>2, <1>7 DEF NoRepeat
  <2>2. ASSUME NEW i \in 1 .. Len(t), t[i] = s[1] PROVE FALSE
    BY <1>1, <1>2, <1>7, <2>2 DEF NoRepeat
  <2> QED BY <1>1, <2>1, <2>2 DEF Members
<1> QED BY <1>4, <1>5, <1>6, <1>7 DEF t

\* A sequence without repetitions is as long as the set of its members.
LEMMA MembersCount ==
  ASSUME NEW T, NEW s \in Seq(T), NoRepeat(s)
  PROVE  IsFiniteSet(Members(s)) /\ Cardinality(Members(s)) = Len(s)
<1> DEFINE f == [i \in 1 .. Len(s) |-> s[i]]
<1>1. Len(s) \in Nat /\ IsFiniteSet(1 .. Len(s)) /\ Cardinality(1 .. Len(s)) = Len(s)
  BY SMTT(30), LenProperties, FS_Interval
<1>2. f \in Bijection(1 .. Len(s), Members(s))
  <2>1. f \in [1 .. Len(s) -> Members(s)]
    BY DEF Members
  <2>2. \A i, j \in 1 .. Len(s) : f[i] = f[j] => i = j
    BY DEF NoRepeat
  <2>3. \A m \in Members(s) : \E i \in 1 .. Len(s) : f[i] = m
    BY DEF Members
  <2> QED BY <2>1, <2>2, <2>3, Fun_IsBij
<1>3. ExistsBijection(1 .. Len(s), Members(s))
  BY <1>2 DEF ExistsBijection
<1>4. IsFiniteSet(Members(s)) /\ Cardinality(Members(s)) = Cardinality(1 .. Len(s))
  BY <1>1, <1>3, FS_Bijection
<1> QED BY <1>1, <1>4

\* What put_sample does to the members of the queue, full or not.
LEMMA PutMembers ==
  ASSUME TypeOK, NEW x \in 1 .. End, PutSample(x)
  PROVE  /\ queue \in Seq(1 .. End) /\ Len(queue) \in Nat
         /\ \/ /\ Len(queue) < MaxRequired /\ dropped' = dropped
               /\ queue' = Append(queue, x) /\ Len(queue') = Len(queue) + 1
               /\ Members(queue') = Members(queue) \cup {x}
               /\ NoRepeat(queue) /\ x \notin Members(queue) => NoRepeat(queue')
            \/ /\ Len(queue) >= MaxRequired /\ dropped' = dropped + 1
               /\ queue # << >> /\ Head(queue) \in Members(queue)
               /\ queue' = Append(Tail(queue), x) /\ Len(queue') = Len(queue)
               /\ NoRepeat(queue) => Members(queue') = (Members(queue) \ {Head(queue)}) \cup {x}
               /\ NoRepeat(queue) /\ x \notin Members(queue) => NoRepeat(queue')
<1>1. queue \in Seq(1 .. End) /\ Len(queue) \in Nat
  BY LenProperties DEF TypeOK, QueueOK
<1>2. CASE Len(queue) >= MaxRequired
  <2>1. queue # << >>
    BY <1>2, Constants, EmptySeq
  <2>2. Tail(queue) \in Seq(1 .. End) /\ Len(Tail(queue)) = Len(queue) - 1
    BY <1>1, <2>1, HeadTail
  <2>3. queue' = Append(Tail(queue), x) /\ dropped' = dropped + 1
    BY <1>2 DEF PutSample
  <2>4. Len(queue') = Len(Tail(queue)) + 1
    BY <2>2, <2>3, AppendProperties
  <2>5. Members(queue') = Members(Tail(queue)) \cup {x}
    BY <2>2, <2>3, MembersAppend
  <2>6. /\ Head(queue) \in Members(queue) /\ Members(Tail(queue)) \subseteq Members(queue)
        /\ NoRepeat(queue) => NoRepeat(Tail(queue)) /\ Members(Tail(queue)) = Members(queue) \ {Head(queue)}
    BY <1>1, <2>1, MembersTail
  <2>7. NoRepeat(Tail(queue)) /\ x \notin Members(Tail(queue)) => NoRepeat(queue')
    BY <2>2, <2>3, MembersAppend
  <2>8. Len(queue') = Len(queue)
    BY <1>1, <2>2, <2>4
  <2> QED BY <1>1, <1>2, <2>1, <2>3, <2>5, <2>6, <2>7, <2>8
<1>3. CASE ~(Len(queue) >= MaxRequired)
  <2>1. queue' = Append(queue, x) /\ dropped' = dropped
    BY <1>3 DEF PutSample
  <2>2. Len(queue') = Len(queue) + 1
    BY <1>1, <2>1, AppendProperties
  <2>3. /\ Members(queue') = Members(queue) \cup {x}
        /\ NoRepeat(queue) /\ x \notin Members(queue) => NoRepeat(queue')
    BY <1>1, <2>1, MembersAppend
  <2>4. Len(queue) < MaxRequired
    BY <1>1, <1>3, Constants
  <2> QED BY <1>1, <2>1, <2>2, <2>3, <2>4
<1> QED BY <1>2, <1>3

\* The variables that say where the samples are.
places == <<taken, hand, generating, putting, cancelQueue, queue, dropped, batch, batches, failures>>

\* StartTask when it does start the task.
Starts == StartTask /\ ~paused

\* Who moves samples.
LEMMA WhoMoves ==
  ASSUME [Next]_vars
  PROVE  \/ UNCHANGED places
         \/ TakePending \/ TakeCancelled \/ Starts
         \/ \E s \in Samples : TaskStep(s)
         \/ SendSentinel \/ GetSample \/ TrainStep
<1>1. CASE ProcessorStep
  BY <1>1 DEF ProcessorStep, CheckPause, SelfPause, DrainTest, DrainLocked, DrainWaited, IdleLocked,
     AwaitPending, StartTask, Starts, Enqueue, Processor, places, feedVars, taskVars, queueVars, trainVars
<1>2. CASE Feed \/ MonitorStep \/ SyncStep
  BY <1>2 DEF Feed, MonitorStep, MonitorWakes, MonitorResumes, SyncStep, PauseCalled, PauseCancels,
     PauseGathered, UpdateCounts, UpdateSets, ResumeCalled, ResumeCleared, Enqueue, places, feedVars,
     procVars, taskVars, queueVars, trainVars
<1>3. CASE TrainerStep
  BY <1>3 DEF TrainerStep, CallPause, CallUpdate, TrainerStops, Trainer, places, feedVars, procVars, taskVars
<1>4. CASE UNCHANGED vars
  BY <1>4 DEF vars, places, feedVars, procVars, taskVars, queueVars, trainVars
<1> QED BY <1>1, <1>2, <1>3, <1>4 DEF Next

\* Taking fills the hand, starting the task empties it.
LEMMA HandPlaceStep ==
  ASSUME TypedHand, HandPlace, [Next]_vars
  PROVE  HandPlace'
<1> USE DEF HandPlace, Carrying
<1>1. CASE ProcessorStep
  <2>1. CASE TakePending
    <3>1. taken + 1 # End => why' = "limit"
      BY <2>1 DEF TakePending
    <3>2. hand' = taken + 1 /\ proc' = "drain" /\ End \notin Samples
      BY <2>1, Constants DEF TakePending, Samples
    <3> QED BY <3>1, <3>2
  <2>2. CASE StartTask
    <3>1. Nothing \notin Samples
      BY Constants DEF Nothing, Samples
    <3> QED BY <2>2, <3>1 DEF StartTask, ProcLockAt
  <2>3. CASE ~TakePending /\ ~StartTask
    BY <1>1, <2>3 DEF TypedHand, TypeOK, ProcOK, ProcAt, ProcLockAt, ProcessorStep, CheckPause, SelfPause, DrainTest, MustDrain,
       AfterDrain, DrainLocked, DrainWaited, IdleLocked, TakeCancelled, AwaitPending, Enqueue
  <2> QED BY <2>1, <2>2, <2>3
<1>2. CASE MonitorStep \/ SyncStep
  BY <1>2 DEF MonitorStep, MonitorWakes, MonitorResumes, SyncStep, PauseCalled, PauseCancels,
     PauseGathered, UpdateCounts, UpdateSets, ResumeCalled, ResumeCleared, Resumed, Enqueue, Notified, procVars
<1>3. CASE Feed \/ SendSentinel \/ TrainerStep \/ (\E s \in Samples : TaskStep(s)) \/ UNCHANGED vars
  <2>1. UNCHANGED procVars
    BY <1>3, Elsewhere DEF Feed, vars
  <2> QED BY <2>1 DEF procVars
<1> QED BY <1>1, <1>2, <1>3 DEF Next

-------------------------------------------------------------------------------
(* The tasks.                                                                 *)

\* The tasks at work.
Making == Cardinality(generating) + Cardinality(putting)

\* The numbers of tasks are natural numbers.
LEMMA MakingType ==
  ASSUME TypeOK
  PROVE  /\ IsFiniteSet(generating) /\ IsFiniteSet(putting)
         /\ Cardinality(generating) \in Nat /\ Cardinality(putting) \in Nat
         /\ Making \in Nat /\ ended \in Nat /\ ActiveCount \in Nat /\ ActiveCount = Making + ended
BY CountType DEF TypeOK, TaskOK, Making, ActiveCount

\* What one task step does to the number of tasks at work.
LEMMA MakingStep ==
  ASSUME TypeOK, NEW s \in Samples, TaskStep(s)
  PROVE  /\ Making \in Nat \ {0} /\ Making' \in Nat
         /\ Generated(s) => Making' <= Making /\ ended' = ended
         /\ ~Generated(s) => Making' = Making - 1 /\ ended' = ended + 1
<1>1. /\ IsFiniteSet(generating) /\ IsFiniteSet(putting) /\ Cardinality(generating) \in Nat
      /\ Cardinality(putting) \in Nat
  BY MakingType
<1>2. s \in generating => Cardinality(generating \ {s}) = Cardinality(generating) - 1
                          /\ Cardinality(generating \ {s}) \in Nat
  <2>1. IsFiniteSet(generating \ {s})
    BY <1>1, FS_Subset
  <2> QED BY <1>1, <2>1, FS_RemoveElement, FS_CardinalityType
<1>3. s \in putting => Cardinality(putting \ {s}) = Cardinality(putting) - 1
                          /\ Cardinality(putting \ {s}) \in Nat
  <2>1. IsFiniteSet(putting \ {s})
    BY <1>1, FS_Subset
  <2> QED BY <1>1, <2>1, FS_RemoveElement, FS_CardinalityType
<1>4. /\ Cardinality(putting \cup {s}) \in Nat
      /\ Cardinality(putting \cup {s}) <= Cardinality(putting) + 1
  <2>1. Cardinality(putting \cup {s}) = IF s \in putting THEN Cardinality(putting)
                                        ELSE Cardinality(putting) + 1
    BY <1>1, FS_AddElement
  <2> QED BY <1>1, <2>1
<1>5. CASE Generated(s)
  <2>1. /\ generating' = generating \ {s} /\ putting' = putting \cup {s} /\ ended' = ended
        /\ s \in generating
    BY <1>5 DEF Generated
  <2> QED BY <1>1, <1>2, <1>4, <1>5, <2>1 DEF Making
<1>6. CASE Put(s)
  <2>1. /\ generating' = generating /\ putting' = putting \ {s} /\ ended' = ended + 1
        /\ s \in putting
    BY <1>6 DEF Put
  <2>2. ~Generated(s)
    BY <2>1, MakingType DEF Generated
  <2> QED BY <1>1, <1>3, <2>1, <2>2 DEF Making
<1>7. CASE Interrupted(s) \/ GenerationRaises(s)
  <2>1. /\ generating' = generating \ {s} /\ putting' = putting /\ ended' = ended + 1
        /\ s \in generating
    BY <1>7 DEF Interrupted, GenerationRaises
  <2>2. ~Generated(s)
    BY <2>1, MakingType DEF Generated
  <2> QED BY <1>1, <1>2, <2>1, <2>2 DEF Making
<1> QED BY <1>5, <1>6, <1>7 DEF TaskStep

\* A sum of natural numbers is zero when all of them are.
LEMMA ThreeZeros ==
  ASSUME NEW a \in Nat, NEW b \in Nat, NEW c \in Nat, a + b + c = 0
  PROVE  a = 0 /\ b = 0 /\ c = 0
OBVIOUS

\* No active task: nothing generates and nothing is put.
LEMMA Idle ==
  ASSUME TypeOK, ActiveCount = 0
  PROVE  generating = {} /\ putting = {} /\ ended = 0
<1>1. Cardinality(generating) = 0 /\ Cardinality(putting) = 0 /\ ended = 0
  BY MakingType, ThreeZeros DEF ActiveCount
<1> QED BY <1>1, MakingType, FS_EmptySet

\* Who starts, finishes or forgets tasks.
LEMMA WhoTasks ==
  ASSUME [Next]_vars
  PROVE  \/ UNCHANGED <<generating, putting, ended>>
         \/ Starts \/ DrainWaited \/ PauseGathered \/ \E s \in Samples : TaskStep(s)
<1>1. CASE ProcessorStep
  BY <1>1 DEF ProcessorStep, CheckPause, SelfPause, DrainTest, DrainLocked, TakeCancelled, TakePending,
     IdleLocked, AwaitPending, StartTask, Starts, Enqueue, Processor, taskVars
<1>2. CASE Feed \/ SendSentinel \/ MonitorStep \/ SyncStep \/ TrainerStep \/ UNCHANGED vars
  BY <1>2 DEF Feed, SendSentinel, MonitorStep, MonitorWakes, MonitorResumes, SyncStep, PauseCalled,
     PauseCancels, UpdateCounts, UpdateSets, ResumeCalled, ResumeCleared, Enqueue, taskVars, vars,
     TrainerStep, GetSample, TrainStep, CallPause, CallUpdate, TrainerStops, Trainer
<1> QED BY <1>1, <1>2 DEF Next

\* How the processor comes to start a task, to leave, and to die.
LEMMA WhoProc ==
  ASSUME TypeOK, [Next]_vars
  PROVE  /\ proc' \in {"startLock", "start"} =>
               \/ proc \in {"startLock", "start"}
               \/ DrainTest /\ ActiveCount < MaxConcurrent
         /\ proc' = "exited" => \/ proc = "exited"
                                \/ DrainTest /\ ActiveCount = 0
         /\ proc' = "failed" => \/ proc = "failed"
                                \/ DrainLocked /\ ActiveCount = 0
                                \/ DrainWaited /\ ended > 0
         /\ proc \in {"exited", "failed"} => proc' = proc
         /\ StartTask => proc = "startLock"
<1> USE DEF TypeOK, ProcOK, ProcAt, ProcLockAt
<1>1. CASE DrainTest
  <2>1. ActiveCount \in Nat /\ MaxConcurrent \in Nat
    BY CountType, Constants
  <2>2. proc' = IF MustDrain THEN "drainLock" ELSE AfterDrain
    BY <1>1 DEF DrainTest
  <2>3. proc' = "startLock" => ActiveCount < MaxConcurrent
    BY <2>1, <2>2 DEF MustDrain, AfterDrain
  <2>4. proc' = "exited" => ActiveCount = 0
    BY <2>1, <2>2 DEF MustDrain, AfterDrain
  <2>5. proc' \notin {"start", "failed"}
    BY <2>2 DEF AfterDrain
  <2>6. proc = "drain" /\ ~StartTask
    BY <1>1 DEF DrainTest, StartTask
  <2> QED BY <1>1, <2>3, <2>4, <2>5, <2>6
<1>2. CASE ProcessorStep /\ ~DrainTest
  BY <1>2 DEF ProcessorStep, CheckPause, SelfPause, DrainLocked, DrainWaited, IdleLocked, TakeCancelled,
     AwaitPending, TakePending, StartTask, Enqueue, WantsLock
<1>3. CASE MonitorStep \/ SyncStep
  BY <1>3 DEF MonitorStep, MonitorWakes, MonitorResumes, SyncStep, PauseCalled, PauseCancels,
     PauseGathered, UpdateCounts, UpdateSets, ResumeCalled, ResumeCleared, Resumed, Enqueue, Notified,
     procVars, StartTask
<1>4. CASE Feed \/ SendSentinel \/ TrainerStep \/ (\E s \in Samples : TaskStep(s)) \/ UNCHANGED vars
  <2>1. UNCHANGED procVars
    BY <1>4, Elsewhere DEF Feed, vars
  <2> QED BY <2>1 DEF procVars, StartTask
<1> QED BY <1>1, <1>2, <1>3, <1>4 DEF Next

\* Arithmetic of a task that goes on or ends.
LEMMA TaskSum ==
  ASSUME NEW m \in Nat, NEW e \in Nat, NEW n \in Nat, NEW f \in Nat,
         \/ n <= m /\ f = e
         \/ n = m - 1 /\ f = e + 1
  PROVE  n + f <= m + e /\ n <= m
OBVIOUS

\* Arithmetic of a task that starts.
LEMMA OneMore ==
  ASSUME NEW m \in Nat, NEW e \in Nat, NEW n \in Nat, NEW f \in Nat, NEW k \in Nat,
         n <= m + 1, f = e, m + e < k
  PROVE  n + f <= k
OBVIOUS

\* Arithmetic of tasks that are forgotten.
LEMMA FewerTasks ==
  ASSUME NEW a \in Nat, NEW b \in Nat, NEW k \in Nat, b <= a
  PROVE  (a <= k => b <= k) /\ (a < k => b < k)
OBVIOUS

\* A task starts only below the limit, under the lock.
LEMMA ConcurrentStep ==
  ASSUME TypedHand, Concurrent, [Next]_vars
  PROVE  Concurrent'
<1>1. /\ Making \in Nat /\ ended \in Nat /\ ActiveCount \in Nat /\ ActiveCount = Making + ended
      /\ MaxConcurrent \in Nat /\ MaxConcurrent >= 1
  BY MakingType, Constants DEF TypedHand
<1>2. /\ Cardinality(generating') \in Nat
      /\ Making' \in Nat /\ ended' \in Nat /\ ActiveCount' \in Nat /\ ActiveCount' = Making' + ended'
  <2>1. TypeOK'
    BY TypeStep DEF TypedHand
  <2>2. /\ Cardinality(generating') \in Nat /\ Cardinality(putting') \in Nat
    <3>1. generating' \subseteq Samples /\ putting' \subseteq Samples
      BY <2>1 DEF TypeOK, TaskOK
    <3>2. IsFiniteSet(Samples)
      BY FS_Interval, Constants DEF Samples
    <3> QED BY <3>1, <3>2, FS_Subset, FS_CardinalityType
  <2>3. ended' \in Nat
    BY <2>1 DEF TypeOK, TaskOK
  <2> QED BY <2>2, <2>3 DEF Making, ActiveCount
<1>3. /\ ActiveCount <= MaxConcurrent
      /\ proc \in {"startLock", "start"} => ActiveCount < MaxConcurrent
      /\ proc = "failed" => Making < MaxConcurrent
  BY DEF Concurrent, Making
<1>4. Starts \/ (ActiveCount' <= ActiveCount /\ Making' <= Making)
  <2>1. CASE \E s \in Samples : TaskStep(s)
    <3>1. PICK s \in Samples : TaskStep(s)
      BY <2>1
    <3>2. \/ Making' <= Making /\ ended' = ended
          \/ Making' = Making - 1 /\ ended' = ended + 1
      BY <3>1, MakingStep DEF TypedHand
    <3> QED BY <1>1, <1>2, <3>2, TaskSum
  <2>2. CASE UNCHANGED <<generating, putting, ended>>
    <3>1. Making' = Making /\ ended' = ended
      BY <2>2 DEF Making
    <3> QED BY <1>1, <1>2, <3>1
  <2>3. CASE DrainWaited \/ PauseGathered
    <3>1. Making' = Making /\ ended' = 0
      BY <2>3 DEF Making, DrainWaited, PauseGathered, Processor
    <3> QED BY <1>1, <1>2, <3>1
  <2> QED BY <2>1, <2>2, <2>3, WhoTasks
<1>5. CASE Starts
  <2>1. /\ generating' = generating \cup {hand} /\ putting' = putting /\ ended' = ended
        /\ proc = "startLock" /\ proc' = "top"
    BY <1>5, WhoProc DEF Starts, StartTask, TypedHand
  <2>2. Cardinality(generating') <= Cardinality(generating) + 1
    <3>1. IsFiniteSet(generating) /\ Cardinality(generating) \in Nat
      BY MakingType DEF TypedHand
    <3>2. Cardinality(generating \cup {hand}) = IF hand \in generating THEN Cardinality(generating)
                                                  ELSE Cardinality(generating) + 1
      BY <3>1, FS_AddElement
    <3> QED BY <2>1, <3>1, <3>2
  <2>3. Making' <= Making + 1
    <3>1. /\ Cardinality(generating) \in Nat /\ Cardinality(putting) \in Nat
          /\ Cardinality(generating') \in Nat
      BY <1>2, MakingType DEF TypedHand
    <3>2. Cardinality(putting') = Cardinality(putting)
      BY <2>1
    <3> QED BY <2>2, <3>1, <3>2 DEF Making
  <2>4. ActiveCount' <= MaxConcurrent
    <3>1. ActiveCount < MaxConcurrent
      BY <1>3, <2>1
    <3>2. Making' <= Making + 1 /\ ended' = ended
      BY <2>1, <2>3
    <3> QED BY <1>1, <1>2, <3>1, <3>2, OneMore
  <2> QED BY <2>1, <2>4 DEF Concurrent
<1>6. CASE ~Starts
  <2>1. ActiveCount' <= ActiveCount /\ Making' <= Making
    BY <1>4, <1>6
  <2>2. ActiveCount' <= MaxConcurrent
    BY <1>1, <1>2, <1>3, <2>1, FewerTasks
  <2>3. proc' \in {"startLock", "start"} => ActiveCount' < MaxConcurrent
    <3>1. proc' \in {"startLock", "start"} => ActiveCount < MaxConcurrent
      BY <1>3, WhoProc DEF TypedHand
    <3>2. ActiveCount < MaxConcurrent => ActiveCount' < MaxConcurrent
      BY <1>1, <1>2, <2>1, FewerTasks
    <3> QED BY <3>1, <3>2
  <2>4. proc' = "failed" => Making' < MaxConcurrent
    <3>1. CASE proc = "failed"
      BY <1>1, <1>2, <1>3, <2>1, <3>1
    <3>2. CASE ActiveCount = 0
      BY <1>1, <1>2, <2>1, <3>2
    <3>3. CASE ended > 0
      BY <1>1, <1>2, <1>3, <2>1, <3>3
    <3> QED BY <3>1, <3>2, <3>3, WhoProc DEF TypedHand
  <2>5. proc' = "exited" => generating' = {} /\ putting' = {}
    <3>1. CASE proc = "exited"
      <4>1. generating = {} /\ putting = {}
        BY <3>1 DEF Concurrent
      <4>2. \A s \in Samples : ~TaskStep(s)
        BY <4>1 DEF TaskStep, Generated, Put, Interrupted, GenerationRaises
      <4> QED BY <1>6, <4>1, <4>2, WhoTasks DEF DrainWaited, PauseGathered, Processor
    <3>2. CASE DrainTest /\ ActiveCount = 0
      <4>1. generating = {} /\ putting = {}
        BY <3>2, Idle DEF TypedHand
      <4> QED BY <3>2, <4>1 DEF DrainTest, Processor
    <3> QED BY <3>1, <3>2, WhoProc DEF TypedHand
  <2>6. proc' = "failed" => Cardinality(generating)' + Cardinality(putting)' < MaxConcurrent
    BY <2>4 DEF Making
  <2> QED BY <2>2, <2>3, <2>5, <2>6 DEF Concurrent
<1> QED BY <1>5, <1>6

-------------------------------------------------------------------------------
(* The termination signal.                                                    *)

\* Which item of the message queue is where after a step.
LEMMA ItemsAppended ==
  ASSUME NEW T, NEW s \in Seq(T), NEW x
  PROVE  /\ Len(Append(s, x)) = Len(s) + 1 /\ Len(s) \in Nat
         /\ \A p \in 1 .. Len(Append(s, x)) :
               \/ p \in 1 .. Len(s) /\ Append(s, x)[p] = s[p]
               \/ p = Len(s) + 1 /\ Append(s, x)[p] = x
OBVIOUS

\* The items of a queue after a get.
LEMMA ItemsTail ==
  ASSUME NEW T, NEW s \in Seq(T), s # << >>
  PROVE  /\ Len(s) \in Nat /\ Len(s) >= 1 /\ Len(Tail(s)) = Len(s) - 1 /\ Tail(s) \in Seq(T)
         /\ Head(s) = s[1]
         /\ \A p \in 1 .. Len(Tail(s)) : p + 1 \in 1 .. Len(s) /\ Tail(s)[p] = s[p + 1]
<1>1. Len(s) \in Nat /\ Len(s) >= 1 /\ Len(Tail(s)) = Len(s) - 1 /\ Head(s) = s[1] /\ Tail(s) \in Seq(T)
      /\ \A p \in 1 .. Len(Tail(s)) : Tail(s)[p] = s[p + 1]
  BY HeadTailProperties, LenProperties, EmptySeq
<1> QED BY <1>1

\* The items of the queue after a put, evicting the oldest when it is full.
LEMMA ItemsPut ==
  ASSUME TypeOK, NEW x \in 1 .. End, PutSample(x)
  PROVE  /\ Len(queue) \in Nat
         /\ \/ /\ Len(queue') = Len(queue) + 1
               /\ \A p \in 1 .. Len(queue') : (p \in 1 .. Len(queue) /\ queue'[p] = queue[p])
                                             \/ (p = Len(queue') /\ queue'[p] = x)
            \/ /\ Len(queue') = Len(queue) /\ queue # << >>
               /\ \A p \in 1 .. Len(queue') : (p + 1 \in 1 .. Len(queue) /\ queue'[p] = queue[p + 1])
                                             \/ (p = Len(queue') /\ queue'[p] = x)
<1>1. queue \in Seq(1 .. End)
  BY DEF TypeOK, QueueOK
<1>2. CASE queue' = Append(queue, x)
  BY <1>1, <1>2, ItemsAppended
<1>3. CASE queue # << >> /\ queue' = Append(Tail(queue), x)
  <2>1. /\ Len(queue) \in Nat /\ Len(Tail(queue)) = Len(queue) - 1 /\ Tail(queue) \in Seq(1 .. End)
        /\ \A p \in 1 .. Len(Tail(queue)) : p + 1 \in 1 .. Len(queue) /\ Tail(queue)[p] = queue[p + 1]
    BY <1>1, <1>3, ItemsTail
  <2> DEFINE rest == Tail(queue)
  <2>2. rest \in Seq(1 .. End) /\ queue' = Append(rest, x) /\ Len(rest) = Len(queue) - 1
        /\ \A p \in 1 .. Len(rest) : p + 1 \in 1 .. Len(queue) /\ rest[p] = queue[p + 1]
    BY <1>3, <2>1
  <2> HIDE DEF rest
  <2>3. /\ Len(queue') = Len(rest) + 1
        /\ \A p \in 1 .. Len(queue') : (p \in 1 .. Len(rest) /\ queue'[p] = rest[p])
                                          \/ (p = Len(rest) + 1 /\ queue'[p] = x)
    BY <2>2, ItemsAppended
  <2>4. Len(queue') = Len(queue)
    <3>1. Len(queue) \in Nat
      BY <2>1
    <3>2. Len(rest) = Len(queue) - 1 /\ Len(queue') = Len(rest) + 1
      BY <2>2, <2>3
    <3> QED BY <3>1, <3>2
  <2> QED BY <1>3, <2>1, <2>2, <2>3, <2>4
<1> QED BY <1>2, <1>3, PutMembers

\* Who touches the message queue.
LEMMA WhoQueue ==
  ASSUME [Next]_vars
  PROVE  \/ UNCHANGED <<queue, dropped>>
         \/ (\E s \in Samples : Put(s))
         \/ SendSentinel \/ GetSample
<1>1. CASE ProcessorStep
  BY <1>1 DEF ProcessorStep, CheckPause, SelfPause, DrainTest, DrainLocked, DrainWaited, IdleLocked,
     TakeCancelled, TakePending, AwaitPending, StartTask, Enqueue, Processor, queueVars
<1>2. CASE Feed \/ MonitorStep \/ SyncStep \/ UNCHANGED vars
  BY <1>2 DEF Feed, MonitorStep, MonitorWakes, MonitorResumes, SyncStep, PauseCalled, PauseCancels,
     PauseGathered, UpdateCounts, UpdateSets, ResumeCalled, ResumeCleared, Enqueue, queueVars, vars
<1>3. CASE TrainerStep
  BY <1>3 DEF TrainerStep, TrainStep, CallPause, CallUpdate, TrainerStops, Trainer
<1>4. CASE \E s \in Samples : TaskStep(s)
  BY <1>4 DEF TaskStep, Generated, Interrupted, GenerationRaises, queueVars
<1> QED BY <1>1, <1>2, <1>3, <1>4 DEF Next

\* How the run comes to an end, and the trainer.
LEMMA WhoEnds ==
  ASSUME TypeOK, [Next]_vars
  PROVE  /\ main' = main \/ SendSentinel
         /\ trainer' \in {"drained", "crashed", "finished"} =>
               \/ trainer \in {"drained", "crashed", "finished"}
               \/ GetSample /\ Head(queue) = End
         /\ trainer \in {"crashed", "finished"} => trainer' = trainer
<1>1. CASE ProcessorStep
  BY <1>1 DEF ProcessorStep, CheckPause, SelfPause, DrainTest, DrainLocked, DrainWaited, IdleLocked,
     TakeCancelled, TakePending, AwaitPending, StartTask, Enqueue, Processor, trainVars, loopVars
<1>2. CASE Feed \/ MonitorStep \/ SyncStep \/ UNCHANGED vars
  BY <1>2 DEF Feed, MonitorStep, MonitorWakes, MonitorResumes, SyncStep, PauseCalled, PauseCancels,
     PauseGathered, UpdateCounts, UpdateSets, ResumeCalled, ResumeCleared, Enqueue, trainVars, loopVars, vars
<1>3. CASE TrainerStep
  BY <1>3 DEF TrainerStep, GetSample, TrainStep, CallPause, CallUpdate, TrainerStops, Trainer, loopVars
<1>4. CASE SendSentinel \/ \E s \in Samples : TaskStep(s)
  BY <1>4 DEF SendSentinel, TaskStep, Generated, Put, Interrupted, GenerationRaises, Task, trainVars, loopVars
<1> QED BY <1>1, <1>2, <1>3, <1>4 DEF Next

\* Only SendSentinel puts the signal, only the signal drains the trainer.
LEMMA EndOfQueueStep ==
  ASSUME TypedHand, EndOfQueue, [Next]_vars
  PROVE  EndOfQueue'
<1>1. main' = "waiting" => End \notin Members(queue')
  <2> SUFFICES ASSUME main' = "waiting" PROVE End \notin Members(queue')
    OBVIOUS
  <2>1. main = "waiting" /\ End \notin Members(queue) /\ ~SendSentinel
    BY WhoEnds DEF TypedHand, SendSentinel, EndOfQueue
  <2>2. CASE UNCHANGED <<queue, dropped>>
    BY <2>1, <2>2
  <2>3. CASE \E s \in Samples : Put(s)
    <3>1. PICK s \in Samples : Put(s)
      BY <2>3
    <3>2. s \in 1 .. End /\ s # End
      BY Constants DEF Samples
    <3>3. NoRepeat(queue) \/ TRUE
      OBVIOUS
    <3>4. \A p \in 1 .. Len(queue') : queue'[p] # End
      <4>1. \A p \in 1 .. Len(queue) : queue[p] # End
        BY <2>1 DEF Members
      <4> QED BY <3>1, <3>2, <4>1, ItemsPut DEF Put, TypedHand
    <3> QED BY <3>4 DEF Members
  <2>4. CASE GetSample
    <3>1. Members(Tail(queue)) \subseteq Members(queue)
      BY <2>4, MembersTail DEF GetSample, TypedHand, TypeOK, QueueOK
    <3> QED BY <2>1, <2>4, <3>1 DEF GetSample
  <2> QED BY <2>1, <2>2, <2>3, <2>4, WhoQueue
<1>2. main' = "stopped" => proc' \in {"exited", "failed"}
  BY WhoEnds, WhoProc DEF EndOfQueue, TypedHand, SendSentinel, procVars
<1>3. trainer' \in {"drained", "crashed", "finished"} => main' = "stopped"
  <2>1. CASE GetSample /\ Head(queue) = End
    <3>1. End \in Members(queue)
      BY <2>1, MembersTail DEF GetSample, TypedHand, TypeOK, QueueOK
    <3>2. main = "stopped" /\ main' = main
      BY <2>1, <3>1 DEF EndOfQueue, TypedHand, TypeOK, LoopOK, GetSample, Trainer
    <3> QED BY <3>2
  <2>2. CASE trainer \in {"drained", "crashed", "finished"}
    BY <2>2, WhoEnds DEF EndOfQueue, TypedHand, SendSentinel
  <2> QED BY <2>1, <2>2, WhoEnds DEF TypedHand
<1> QED BY <1>1, <1>2, <1>3 DEF EndOfQueue

\* Arithmetic of a put behind the signal.
LEMMA SignalSum ==
  ASSUME NEW n \in Nat, NEW p \in Nat, NEW m \in Nat, NEW k \in Nat, n - p + m < k,
         NEW o \in Nat, NEW q \in Nat, NEW l \in Nat,
         \/ o = n /\ q = p /\ l <= m
         \/ o = n + 1 /\ q = p /\ l = m - 1
         \/ o = n /\ q = p - 1 /\ l = m - 1
         \/ o = n - 1 /\ q = p - 1 /\ l = m
  PROVE  o - q + l < k
OBVIOUS

\* A put uses up a task, an eviction moves the signal up.
LEMMA SignalSafeStep ==
  ASSUME TypedHand, EndOfQueue, Concurrent, SignalSafe, [Next]_vars
  PROVE  SignalSafe'
<1> SUFFICES ASSUME NEW q \in 1 .. Len(queue'), queue'[q] = End
             PROVE  Len(queue') - q + Making' < MaxRequired
  <2>1. TypeOK'
    BY TypeStep DEF TypedHand
  <2>2. /\ Cardinality(generating') \in Nat /\ Cardinality(putting') \in Nat
    <3>1. generating' \subseteq Samples /\ putting' \subseteq Samples
      BY <2>1 DEF TypeOK, TaskOK
    <3>2. IsFiniteSet(Samples)
      BY FS_Interval, Constants DEF Samples
    <3> QED BY <3>1, <3>2, FS_Subset, FS_CardinalityType
  <2>3. Len(queue') \in Nat
    BY <2>1, LenProperties DEF TypeOK, QueueOK
  <2> QED BY <2>2, <2>3 DEF SignalSafe, Making
<1>1. /\ Len(queue) \in Nat /\ Len(queue') \in Nat /\ Making \in Nat /\ Making' \in Nat
      /\ MaxRequired \in Nat /\ MaxConcurrent \in Nat /\ MaxConcurrent <= MaxRequired /\ q \in Nat
      /\ queue \in Seq(1 .. End)
  <2>1. TypeOK /\ TypeOK'
    BY TypeStep DEF TypedHand
  <2>2. Len(queue) \in Nat /\ Len(queue') \in Nat /\ q \in Nat /\ queue \in Seq(1 .. End)
    BY <2>1, LenProperties DEF TypeOK, QueueOK
  <2>3. /\ Cardinality(generating') \in Nat /\ Cardinality(putting') \in Nat
    <3>1. generating' \subseteq Samples /\ putting' \subseteq Samples
      BY <2>1 DEF TypeOK, TaskOK
    <3>2. IsFiniteSet(Samples)
      BY FS_Interval, Constants DEF Samples
    <3> QED BY <3>1, <3>2, FS_Subset, FS_CardinalityType
  <2>4. Making' \in Nat
    BY <2>3 DEF Making
  <2> QED BY <2>1, <2>2, <2>4, MakingType, FullyAsyncAssumption
<1>2. \A p \in 1 .. Len(queue) : queue[p] = End => Len(queue) - p + Making < MaxRequired
  <2>1. Cardinality(generating) \in Nat /\ Cardinality(putting) \in Nat
    BY MakingType DEF TypedHand
  <2> QED BY <1>1, <2>1 DEF SignalSafe, Making
<1>3. CASE \E s \in Samples : Put(s)
  <2>1. PICK s \in Samples : Put(s)
    BY <1>3
  <2>2. s \in 1 .. End /\ s # End
    BY Constants DEF Samples
  <2>3. Making' = Making - 1
    <3>1. ended' = ended + 1 /\ ended \in Nat
      BY <2>1, MakingType DEF Put, TypedHand
    <3>2. ~Generated(s)
      BY <3>1 DEF Generated
    <3> QED BY <2>1, <3>2, MakingStep DEF TaskStep, TypedHand
  <2>4. \/ Len(queue') = Len(queue) + 1 /\ q \in 1 .. Len(queue) /\ queue[q] = End
        \/ Len(queue') = Len(queue) /\ q + 1 \in 1 .. Len(queue) /\ queue[q + 1] = End
    BY <2>1, <2>2, ItemsPut DEF Put, TypedHand
  <2>5. CASE Len(queue') = Len(queue) + 1 /\ q \in 1 .. Len(queue) /\ queue[q] = End
    BY <1>1, <1>2, <2>3, <2>5, SignalSum
  <2>6. CASE Len(queue') = Len(queue) /\ q + 1 \in 1 .. Len(queue) /\ queue[q + 1] = End
    <3>1. Len(queue) - (q + 1) + Making < MaxRequired
      BY <1>2, <2>6
    <3>2. q + 1 \in Nat /\ q = (q + 1) - 1
      BY <1>1
    <3> QED BY <1>1, <2>3, <2>6, <3>1, <3>2, SignalSum
  <2> QED BY <2>4, <2>5, <2>6
<1>4. CASE SendSentinel
  <2>1. UNCHANGED <<generating, putting>> /\ main = "waiting" /\ proc \in {"exited", "failed"} /\ PutSample(End)
    BY <1>4 DEF SendSentinel, taskVars
  <2>2. Making < MaxRequired /\ Making' = Making
    <3>1. CASE proc = "exited"
      <4>1. Cardinality(generating) = 0 /\ Cardinality(putting) = 0
        BY <3>1, FS_EmptySet DEF Concurrent
      <4> QED BY <2>1, <4>1, Constants DEF Making
    <3>2. CASE proc = "failed"
      <4>1. Making < MaxConcurrent
        BY <3>2 DEF Concurrent, Making
      <4>2. Making < MaxRequired
        BY <1>1, <4>1
      <4> QED BY <2>1, <4>2 DEF Making
    <3> QED BY <2>1, <3>1, <3>2
  <2>3. q = Len(queue')
    <3>1. \A p \in 1 .. Len(queue) : queue[p] # End
      BY <2>1 DEF EndOfQueue, Members
    <3>2. End \in 1 .. End
      BY Constants
    <3> QED BY <2>1, <3>1, <3>2, ItemsPut DEF TypedHand
  <2> QED BY <1>1, <2>2, <2>3
<1>5. CASE GetSample
  <2>1. UNCHANGED <<generating, putting>> /\ queue # << >> /\ queue' = Tail(queue)
    BY <1>5 DEF GetSample, Trainer, taskVars
  <2>2. Making' = Making
    BY <2>1 DEF Making
  <2>3. Len(queue') = Len(queue) - 1 /\ q + 1 \in 1 .. Len(queue) /\ queue[q + 1] = End
    BY <1>1, <2>1, ItemsTail
  <2>4. Len(queue) - (q + 1) + Making < MaxRequired
    BY <1>2, <2>3
  <2>5. q + 1 \in Nat /\ q = (q + 1) - 1
    BY <1>1
  <2> QED BY <1>1, <2>2, <2>3, <2>4, <2>5, SignalSum
<1>6. CASE UNCHANGED <<queue, dropped>>
  <2>1. queue[q] = End /\ q \in 1 .. Len(queue)
    BY <1>6
  <2>2. Making' <= Making
    <3>1. CASE Starts
      <4>1. main = "waiting"
        <5>1. proc = "startLock"
          BY <3>1 DEF Starts, StartTask
        <5> QED BY <5>1 DEF EndOfQueue, TypedHand, TypeOK, LoopOK
      <4>2. End \notin Members(queue)
        BY <4>1 DEF EndOfQueue
      <4> QED BY <2>1, <4>2 DEF Members
    <3>2. CASE \E s \in Samples : TaskStep(s)
      <4>1. PICK s \in Samples : TaskStep(s)
        BY <3>2
      <4>2. Making' <= Making \/ Making' = Making - 1
        BY <4>1, MakingStep DEF TypedHand
      <4> QED BY <1>1, <4>2
    <3>3. CASE UNCHANGED <<generating, putting>>
      <4>1. Making' = Making
        BY <3>3 DEF Making
      <4> QED BY <1>1, <4>1
    <3> QED BY <3>1, <3>2, <3>3, WhoTasks DEF DrainWaited, PauseGathered, Processor
  <2>3. Len(queue) - q + Making < MaxRequired
    BY <1>2, <2>1
  <2>4. Len(queue') = Len(queue)
    BY <1>6
  <2> QED BY <1>1, <2>2, <2>3, <2>4, SignalSum
<1> QED BY <1>3, <1>4, <1>5, <1>6, WhoQueue

-------------------------------------------------------------------------------
(* The batch, and the places of samples.                                      *)

\* The sets of samples are finite.
LEMMA FiniteSamples ==
  /\ IsFiniteSet(Samples)
  /\ \A S : S \subseteq Samples => IsFiniteSet(S) /\ Cardinality(S) \in Nat
<1>1. IsFiniteSet(Samples)
  BY FS_Interval, Constants DEF Samples
<1> QED BY <1>1, FS_Subset, FS_CardinalityType

\* Who changes what the trainer has collected.
LEMMA WhoTrains ==
  ASSUME TypeOK, [Next]_vars
  PROVE  \/ UNCHANGED <<batch, batches>> /\ (trainer' = "train" <=> trainer = "train")
         \/ GetSample \/ TrainStep
<1>1. CASE TrainerStep
  BY <1>1 DEF TrainerStep, CallPause, CallUpdate, TrainerStops
<1>2. CASE ~TrainerStep
  <2>1. UNCHANGED trainVars
    BY <1>2 DEF Next, ProcessorStep, CheckPause, SelfPause, DrainTest, DrainLocked, DrainWaited,
       IdleLocked, TakeCancelled, AwaitPending, TakePending, StartTask, Enqueue, Processor, Feed,
       SendSentinel, MonitorStep, MonitorWakes, MonitorResumes, SyncStep, PauseCalled, PauseCancels,
       PauseGathered, UpdateCounts, UpdateSets, ResumeCalled, ResumeCleared, TaskStep, Generated, Put,
       Interrupted, GenerationRaises, Task, vars
  <2> QED BY <2>1 DEF trainVars
<1> QED BY <1>1, <1>2

\* The batch grows by one, to the size that is trained on.
LEMMA FullBatchStep ==
  ASSUME TypedHand, Apart, FullBatch, [Next]_vars
  PROVE  FullBatch'
<1>1. CASE GetSample
  <2>1. trainer = "collect" /\ Cardinality(batch) < Required /\ IsFiniteSet(batch)
        /\ Cardinality(batch) \in Nat
    BY <1>1, FiniteSamples DEF GetSample, FullBatch, TypedHand, TypeOK, TrainOK
  <2>2. CASE Head(queue) = End
    BY <1>1, <2>1, <2>2 DEF GetSample, FullBatch
  <2>3. CASE Head(queue) # End
    <3>1. Head(queue) \in Members(queue)
      BY <1>1, MembersTail DEF GetSample, TypedHand, TypeOK, QueueOK
    <3>2. Head(queue) \notin batch
      BY <2>3, <3>1 DEF Apart, Queued
    <3>3. Cardinality(batch \cup {Head(queue)}) = Cardinality(batch) + 1
      BY <2>1, <3>2, FS_AddElement
    <3>4. /\ batch' = batch \cup {Head(queue)}
          /\ trainer' = IF Cardinality(batch') = Required THEN "train" ELSE "collect"
      BY <1>1, <2>3 DEF GetSample
    <3>5. Cardinality(batch') = Cardinality(batch) + 1
      BY <3>3, <3>4
    <3>6. Cardinality(batch') <= Required
      BY <2>1, <3>5, Constants
    <3>7. Cardinality(batch') # Required => Cardinality(batch') < Required
      BY <2>1, <3>5, <3>6, Constants
    <3> QED BY <3>4, <3>7 DEF FullBatch
  <2> QED BY <2>2, <2>3
<1>2. CASE TrainStep
  <2>1. batch' = {} /\ trainer' # "train"
    BY <1>2 DEF TrainStep
  <2>2. Cardinality(batch') = 0
    BY <2>1, FS_EmptySet
  <2> QED BY <2>1, <2>2, Constants DEF FullBatch
<1>3. CASE UNCHANGED <<batch, batches>> /\ (trainer' = "train" <=> trainer = "train")
  BY <1>3 DEF FullBatch
<1> QED BY <1>1, <1>2, <1>3, WhoTrains DEF TypedHand

\* A sample moves from one place to another; a new one was in no place.
LEMMA ApartStep ==
  ASSUME TypedHand, HandPlace, EndOfQueue, SignalSafe, Apart, [Next]_vars
  PROVE  Apart'
<1> USE DEF Apart, Alive, UnderWay
<1>0. /\ cancelQueue \in Seq(Samples) /\ queue \in Seq(1 .. End) /\ taken \in Nat
      /\ generating \subseteq Samples /\ putting \subseteq Samples /\ batch \subseteq Samples
  BY Constants DEF TypedHand, TypeOK, TaskOK, QueueOK, TrainOK, FeedOK
<1>1. CASE UNCHANGED places
  <2>1. InHand' = InHand /\ Queued' = Queued /\ UNCHANGED places
    BY <1>1 DEF places, InHand, Queued
  <2> QED BY <2>1 DEF places
<1>2. CASE TakePending
  <2>1. hand \notin Samples
    <3>1. proc \in {"take", "get"}
      BY <1>2 DEF TakePending
    <3> QED BY <3>1 DEF HandPlace, Carrying
  <2>2. InHand = {} /\ InHand' \subseteq {taken + 1} /\ taken' = taken + 1
        /\ UNCHANGED <<generating, putting, cancelQueue, queue, batch>>
    BY <1>2, <2>1 DEF TakePending, Processor, InHand, queueVars, trainVars
  <2>3. Queued' = Queued
    BY <2>2 DEF Queued
  <2> DEFINE new == taken + 1
  <2>4. new \notin Alive /\ 1 .. taken' = 1 .. taken \cup {new}
    BY <1>0, <2>2
  <2>5. InHand' \subseteq {new}
    BY <2>2
  <2> HIDE DEF new
  <2>6. Alive' \subseteq 1 .. taken'
    BY <2>2, <2>3, <2>4, <2>5
  <2> QED BY <2>2, <2>3, <2>4, <2>5, <2>6
<1>3. CASE TakeCancelled
  <2>1. /\ cancelQueue # << >> /\ hand' = Head(cancelQueue) /\ cancelQueue' = Tail(cancelQueue)
        /\ proc = "take" /\ UNCHANGED <<generating, putting, queue, batch, taken>>
    BY <1>3 DEF TakeCancelled, Processor, queueVars, trainVars
  <2>2. hand \notin Samples
    BY <2>1 DEF HandPlace, Carrying
  <2>3. /\ hand' \in Members(cancelQueue) /\ Members(cancelQueue') = Members(cancelQueue) \ {hand'}
        /\ NoRepeat(cancelQueue')
    BY <1>0, <2>1, MembersTail
  <2>4. InHand = {} /\ InHand' \subseteq {hand'} /\ Queued' = Queued
    BY <2>1, <2>2 DEF InHand, Queued
  <2> QED BY <2>1, <2>3, <2>4
<1>4. CASE Starts
  <2>1. /\ generating' = generating \cup {hand} /\ hand' = 0
        /\ UNCHANGED <<putting, cancelQueue, queue, batch, taken>>
    BY <1>4 DEF Starts, StartTask, Nothing, queueVars, trainVars, feedVars
  <2>2. hand \in Samples /\ 0 \notin Samples
    BY <1>4, Constants DEF Starts, StartTask, TypedHand, HandHeld, Carrying, Samples
  <2>3. InHand = {hand} /\ InHand' = {} /\ Queued' = Queued
    BY <2>1, <2>2 DEF InHand, Queued
  <2> QED BY <2>1, <2>3
<1>5. CASE \E s \in Samples : TaskStep(s)
  <2>1. PICK s \in Samples : TaskStep(s)
    BY <1>5
  <2>2. InHand' = InHand /\ UNCHANGED <<batch, taken>>
    BY <2>1, Elsewhere DEF procVars, InHand, TaskStep, Generated, Put, Interrupted, GenerationRaises,
       Task, trainVars, feedVars
  <2>3. CASE Generated(s)
    <3>1. /\ s \in generating /\ generating' = generating \ {s} /\ putting' = putting \cup {s}
          /\ UNCHANGED <<cancelQueue, queue>>
      BY <2>3 DEF Generated, queueVars
    <3>2. Queued' = Queued
      BY <3>1 DEF Queued
    <3> QED BY <2>2, <3>1, <3>2
  <2>4. CASE Put(s)
    <3>1. /\ s \in putting /\ putting' = putting \ {s} /\ PutSample(s)
          /\ UNCHANGED <<generating, cancelQueue>>
      BY <2>4 DEF Put
    <3>2. s \in 1 .. End /\ s # End
      BY Constants DEF Samples
    <3>3. s \notin Members(queue)
      BY <3>1, <3>2 DEF Queued
    <3>4. /\ NoRepeat(queue')
          /\ \/ Members(queue') = Members(queue) \cup {s}
             \/ Members(queue') = (Members(queue) \ {Head(queue)}) \cup {s}
      BY <3>1, <3>2, <3>3, PutMembers DEF TypedHand
    <3>5. Queued' \subseteq Queued \cup {s}
      BY <3>4 DEF Queued
    <3> QED BY <2>2, <3>1, <3>4, <3>5
  <2>5. CASE Interrupted(s)
    <3>1. /\ s \in generating /\ generating' = generating \ {s} /\ cancelQueue' = Append(cancelQueue, s)
          /\ UNCHANGED <<putting, queue>>
      BY <2>5 DEF Interrupted, queueVars
    <3>2. s \notin Members(cancelQueue) /\ Queued' = Queued
      BY <3>1 DEF Queued
    <3>3. Members(cancelQueue') = Members(cancelQueue) \cup {s} /\ NoRepeat(cancelQueue')
      BY <1>0, <3>1, <3>2, MembersAppend
    <3> QED BY <2>2, <3>1, <3>2, <3>3
  <2>6. CASE GenerationRaises(s)
    <3>1. generating' = generating \ {s} /\ UNCHANGED <<putting, cancelQueue, queue>>
      BY <2>6 DEF GenerationRaises, queueVars
    <3>2. Queued' = Queued
      BY <3>1 DEF Queued
    <3> QED BY <2>2, <3>1, <3>2
  <2> QED BY <2>1, <2>3, <2>4, <2>5, <2>6 DEF TaskStep
<1>6. CASE SendSentinel
  <2>1. /\ PutSample(End) /\ main = "waiting"
        /\ UNCHANGED <<hand, generating, putting, cancelQueue, batch, taken>>
    BY <1>6 DEF SendSentinel, procVars, taskVars, trainVars, feedVars
  <2>2. End \notin Members(queue) /\ End \in 1 .. End
    BY <2>1, Constants DEF EndOfQueue
  <2>3. /\ NoRepeat(queue')
        /\ \/ Members(queue') = Members(queue) \cup {End}
           \/ Members(queue') = (Members(queue) \ {Head(queue)}) \cup {End}
    BY <2>1, <2>2, PutMembers DEF TypedHand
  <2>4. Queued' \subseteq Queued /\ InHand' = InHand
    BY <2>1, <2>3 DEF Queued, InHand
  <2> QED BY <2>1, <2>3, <2>4
<1>7. CASE GetSample
  <2>1. /\ queue # << >> /\ queue' = Tail(queue)
        /\ batch' = batch \/ (Head(queue) # End /\ batch' = batch \cup {Head(queue)})
        /\ UNCHANGED <<hand, generating, putting, cancelQueue, taken>>
    BY <1>7 DEF GetSample, Trainer, procVars, taskVars, feedVars
  <2>2. /\ Head(queue) \in Members(queue) /\ NoRepeat(queue')
        /\ Members(queue') = Members(queue) \ {Head(queue)}
    BY <1>0, <2>1, MembersTail
  <2>3. InHand' = InHand /\ Queued' = Queued \ {Head(queue)}
        /\ (Head(queue) # End => Head(queue) \in Queued)
    BY <2>1, <2>2 DEF InHand, Queued
  <2> QED BY <2>1, <2>2, <2>3
<1>8. CASE TrainStep
  <2>1. batch' = {} /\ UNCHANGED <<hand, generating, putting, cancelQueue, queue, taken>>
    BY <1>8 DEF TrainStep, Trainer, procVars, taskVars, feedVars
  <2>2. InHand' = InHand /\ Queued' = Queued
    BY <2>1 DEF InHand, Queued
  <2> QED BY <2>1, <2>2
<1> QED BY <1>1, <1>2, <1>3, <1>4, <1>5, <1>6, <1>7, <1>8, WhoMoves

-------------------------------------------------------------------------------
(* What a step does to the flow of samples.                                   *)

\* Samples evicted or failed.
losses == dropped + failures

\* A sample is taken, lost, delivered or trained on, or nothing moves.
LEMMA FlowMoves ==
  ASSUME TypedHand, HandPlace, EndOfQueue, SignalSafe, Concurrent, Apart, [Next]_vars
  PROVE  \/ /\ TakenSamples' = TakenSamples /\ UnderWay' = UnderWay /\ losses' = losses
            /\ UNCHANGED <<batch, batches>>
         \/ /\ TakePending /\ taken < Total /\ TakenSamples = taken /\ TakenSamples' = taken + 1
            /\ UnderWay' = UnderWay \cup {taken + 1} /\ losses' = losses
            /\ UNCHANGED <<batch, batches>>
         \/ \E x \in UnderWay :
            /\ UnderWay' = UnderWay \ {x} /\ losses' = losses + 1 /\ TakenSamples' = TakenSamples
            /\ UNCHANGED <<batch, batches>>
         \/ \E x \in UnderWay :
            /\ GetSample /\ UnderWay' = UnderWay \ {x} /\ batch' = batch \cup {x}
            /\ TakenSamples' = TakenSamples /\ losses' = losses /\ batches' = batches
         \/ /\ TrainStep /\ TakenSamples' = TakenSamples /\ UnderWay' = UnderWay /\ losses' = losses
<1> USE DEF Apart, UnderWay
<1>0. /\ cancelQueue \in Seq(Samples) /\ queue \in Seq(1 .. End) /\ taken \in Nat
      /\ generating \subseteq Samples /\ putting \subseteq Samples /\ batch \subseteq Samples
      /\ dropped \in Nat /\ failures \in Nat
  BY Constants DEF TypedHand, TypeOK, TaskOK, QueueOK, TrainOK, FeedOK
<1>1. CASE UNCHANGED places
  <2>1. InHand' = InHand /\ Queued' = Queued /\ losses' = losses /\ TakenSamples' = TakenSamples
    BY <1>1 DEF places, InHand, Queued, losses, TakenSamples
  <2> QED BY <1>1, <2>1 DEF places
<1>2. CASE TakePending
  <2>1. hand \notin Samples
    <3>1. proc \in {"take", "get"}
      BY <1>2 DEF TakePending
    <3> QED BY <3>1 DEF HandPlace, Carrying
  <2>2. /\ hand' = taken + 1 /\ taken' = taken + 1 /\ taken < fed /\ fed <= End
        /\ UNCHANGED <<generating, putting, cancelQueue, queue, batch, batches, dropped, failures>>
    BY <1>2, Constants DEF TakePending, Processor, queueVars, trainVars, TypedHand, TypeOK, FeedOK
  <2>3. Queued' = Queued /\ losses' = losses /\ InHand = {}
    BY <2>1, <2>2 DEF Queued, losses, InHand
  <2>4. taken \in Nat /\ fed \in Nat /\ taken < End /\ End = Total + 1 /\ Total \in Nat
    BY <1>0, <2>2, Constants DEF TypedHand, TypeOK, FeedOK
  <2>5. CASE taken < Total
    <3>1. InHand' = {taken + 1}
      <4>1. taken + 1 \in Samples
        BY <2>4, <2>5 DEF Samples
      <4> QED BY <2>2, <4>1 DEF InHand
    <3>2. TakenSamples = taken /\ TakenSamples' = taken + 1
      BY <2>2, <2>4, <2>5 DEF TakenSamples
    <3>3. UnderWay' = UnderWay \cup {taken + 1}
      BY <2>2, <2>3, <3>1
    <3> QED BY <1>2, <2>2, <2>3, <2>5, <3>2, <3>3
  <2>6. CASE ~(taken < Total)
    <3>1. taken = Total /\ taken + 1 = End
      BY <2>4, <2>6
    <3>2. InHand' = {}
      BY <2>2, <3>1, Constants DEF InHand, Samples
    <3>3. TakenSamples = Total /\ TakenSamples' = Total
      BY <2>2, <3>1, Constants DEF TakenSamples
    <3> QED BY <2>2, <2>3, <3>2, <3>3
  <2> QED BY <2>5, <2>6
<1>3. CASE TakeCancelled
  <2>1. /\ cancelQueue # << >> /\ hand' = Head(cancelQueue) /\ cancelQueue' = Tail(cancelQueue)
        /\ proc = "take"
        /\ UNCHANGED <<generating, putting, queue, batch, taken, batches, dropped, failures>>
    BY <1>3 DEF TakeCancelled, Processor, queueVars, trainVars
  <2>2. hand \notin Samples
    BY <2>1 DEF HandPlace, Carrying
  <2>3. /\ hand' \in Members(cancelQueue) /\ Members(cancelQueue') = Members(cancelQueue) \ {hand'}
    BY <1>0, <2>1, MembersTail
  <2>4. hand' \in Samples
    BY <1>0, <2>1, HeadTail
  <2>5. InHand = {} /\ InHand' = {hand'} /\ Queued' = Queued /\ losses' = losses
        /\ TakenSamples' = TakenSamples
    BY <2>1, <2>2, <2>4 DEF InHand, Queued, losses, TakenSamples
  <2> QED BY <2>1, <2>3, <2>5
<1>4. CASE Starts
  <2>1. /\ generating' = generating \cup {hand} /\ hand' = 0
        /\ UNCHANGED <<putting, cancelQueue, queue, batch, taken, batches, dropped, failures>>
    BY <1>4 DEF Starts, StartTask, Nothing, queueVars, trainVars, feedVars
  <2>2. hand \in Samples /\ 0 \notin Samples
    BY <1>4, Constants DEF Starts, StartTask, TypedHand, HandHeld, Carrying, Samples
  <2>3. InHand = {hand} /\ InHand' = {} /\ Queued' = Queued /\ losses' = losses
        /\ TakenSamples' = TakenSamples
    BY <2>1, <2>2 DEF InHand, Queued, losses, TakenSamples
  <2> QED BY <2>1, <2>3
<1>5. CASE \E s \in Samples : TaskStep(s)
  <2>1. PICK s \in Samples : TaskStep(s)
    BY <1>5
  <2>2. InHand' = InHand /\ UNCHANGED <<batch, batches>> /\ TakenSamples' = TakenSamples
    BY <2>1, Elsewhere DEF procVars, InHand, TaskStep, Generated, Put, Interrupted, GenerationRaises,
       Task, trainVars, feedVars, TakenSamples
  <2>3. CASE Generated(s)
    <3>1. /\ s \in generating /\ generating' = generating \ {s} /\ putting' = putting \cup {s}
          /\ UNCHANGED <<cancelQueue, queue, dropped, failures>>
      BY <2>3 DEF Generated, queueVars
    <3>2. Queued' = Queued /\ losses' = losses
      BY <3>1 DEF Queued, losses
    <3> QED BY <2>2, <3>1, <3>2
  <2>4. CASE Put(s)
    <3>1. /\ s \in putting /\ putting' = putting \ {s} /\ PutSample(s) /\ failures' = failures
          /\ UNCHANGED <<generating, cancelQueue>>
      BY <2>4 DEF Put
    <3>2. s \in 1 .. End /\ s # End
      BY Constants DEF Samples
    <3>3. CASE Len(queue) < MaxRequired
      <4>1. Members(queue') = Members(queue) \cup {s} /\ dropped' = dropped
        BY <3>1, <3>2, <3>3, PutMembers, Constants DEF TypedHand
      <4>2. Queued' = Queued \cup {s} /\ losses' = losses
        BY <3>1, <3>2, <4>1 DEF Queued, losses
      <4> QED BY <2>2, <3>1, <4>2
    <3>4. CASE ~(Len(queue) < MaxRequired)
      <4>1. /\ Members(queue') = (Members(queue) \ {Head(queue)}) \cup {s} /\ dropped' = dropped + 1
            /\ queue # << >> /\ Head(queue) \in Members(queue)
        BY <3>1, <3>2, <3>4, PutMembers, Constants DEF TypedHand
      <4>2. losses' = losses + 1
        BY <1>0, <3>1, <4>1 DEF losses
      <4>3. Head(queue) # End
        <5>1. SUFFICES ASSUME Head(queue) = End PROVE FALSE
          OBVIOUS
        <5>2. /\ Len(queue) \in Nat /\ 1 \in 1 .. Len(queue) /\ queue[1] = End
          BY <1>0, <4>1, <5>1, ItemsTail
        <5>3. Len(queue) - 1 + Making < MaxRequired
          <6>1. Len(queue) - 1 + Cardinality(generating) + Cardinality(putting) < MaxRequired
            BY <5>2 DEF SignalSafe
          <6>2. Cardinality(generating) \in Nat /\ Cardinality(putting) \in Nat
            BY MakingType DEF TypedHand
          <6> QED BY <5>2, <6>1, <6>2 DEF Making
        <5>4. Making \in Nat /\ Making >= 1
          BY <2>1, MakingStep DEF TypedHand
        <5> QED BY <3>4, <5>2, <5>3, <5>4, Constants
      <4>4. Head(queue) \in Queued /\ Head(queue) \notin putting
        BY <4>1, <4>3 DEF Queued
      <4>5. Queued' = (Queued \ {Head(queue)}) \cup {s}
        BY <3>2, <4>1, <4>3 DEF Queued
      <4>6. UnderWay' = UnderWay \ {Head(queue)}
        BY <2>2, <3>1, <4>4, <4>5
      <4> QED BY <2>2, <4>2, <4>4, <4>6
    <3> QED BY <3>3, <3>4
  <2>5. CASE Interrupted(s)
    <3>1. /\ s \in generating /\ generating' = generating \ {s} /\ cancelQueue' = Append(cancelQueue, s)
          /\ UNCHANGED <<putting, queue, dropped, failures>>
      BY <2>5 DEF Interrupted, queueVars
    <3>2. Queued' = Queued /\ losses' = losses
      BY <3>1 DEF Queued, losses
    <3>3. Members(cancelQueue') = Members(cancelQueue) \cup {s}
      BY <1>0, <3>1, MembersAppend
    <3> QED BY <2>2, <3>1, <3>2, <3>3
  <2>6. CASE GenerationRaises(s)
    <3>1. /\ s \in generating /\ generating' = generating \ {s} /\ failures' = failures + 1
          /\ UNCHANGED <<putting, cancelQueue, queue, dropped>>
      BY <2>6 DEF GenerationRaises, queueVars
    <3>2. Queued' = Queued /\ losses' = losses + 1
      BY <1>0, <3>1 DEF Queued, losses
    <3>3. s \in UnderWay /\ UnderWay' = UnderWay \ {s}
      BY <2>2, <3>1, <3>2
    <3> QED BY <2>2, <3>2, <3>3
  <2> QED BY <2>1, <2>3, <2>4, <2>5, <2>6 DEF TaskStep
<1>6. CASE SendSentinel
  <2>1. /\ PutSample(End) /\ main = "waiting"
        /\ UNCHANGED <<hand, generating, putting, cancelQueue, batch, batches, taken, failures>>
    BY <1>6 DEF SendSentinel, procVars, taskVars, trainVars, feedVars
  <2>2. End \notin Members(queue) /\ End \in 1 .. End
    BY <2>1, Constants DEF EndOfQueue
  <2>3. InHand' = InHand /\ TakenSamples' = TakenSamples
    BY <2>1 DEF InHand, TakenSamples
  <2>4. CASE Len(queue) < MaxRequired
    <3>1. Members(queue') = Members(queue) \cup {End} /\ dropped' = dropped
      BY <2>1, <2>2, <2>4, PutMembers, Constants DEF TypedHand
    <3>2. Queued' = Queued /\ losses' = losses
      BY <2>1, <3>1 DEF Queued, losses
    <3> QED BY <2>1, <2>3, <3>2
  <2>5. CASE ~(Len(queue) < MaxRequired)
    <3>1. /\ Members(queue') = (Members(queue) \ {Head(queue)}) \cup {End} /\ dropped' = dropped + 1
          /\ Head(queue) \in Members(queue)
      BY <2>1, <2>2, <2>5, PutMembers, Constants DEF TypedHand
    <3>2. losses' = losses + 1
      BY <1>0, <2>1, <3>1 DEF losses
    <3>3. Head(queue) \in Queued /\ Queued' = Queued \ {Head(queue)}
      BY <2>2, <3>1 DEF Queued
    <3>4. UnderWay' = UnderWay \ {Head(queue)}
      BY <2>1, <2>3, <3>3
    <3> QED BY <2>1, <2>3, <3>2, <3>3, <3>4
  <2> QED BY <2>4, <2>5
<1>7. CASE GetSample
  <2>1. /\ queue # << >> /\ queue' = Tail(queue)
        /\ UNCHANGED <<hand, generating, putting, cancelQueue, taken, batches, dropped, failures>>
    BY <1>7 DEF GetSample, Trainer, procVars, taskVars, feedVars
  <2>2. Head(queue) \in Members(queue) /\ Members(queue') = Members(queue) \ {Head(queue)}
    BY <1>0, <2>1, MembersTail
  <2>3. InHand' = InHand /\ losses' = losses /\ TakenSamples' = TakenSamples
    BY <2>1 DEF InHand, losses, TakenSamples
  <2>4. CASE Head(queue) = End
    <3>1. batch' = batch /\ Queued' = Queued
      BY <1>7, <2>2, <2>4 DEF GetSample, Queued
    <3> QED BY <2>1, <2>3, <3>1
  <2>5. CASE Head(queue) # End
    <3>1. /\ batch' = batch \cup {Head(queue)} /\ Queued' = Queued \ {Head(queue)}
          /\ Head(queue) \in Queued
      BY <1>7, <2>2, <2>5 DEF GetSample, Queued
    <3>2. UnderWay' = UnderWay \ {Head(queue)}
      BY <2>1, <2>3, <3>1
    <3> QED BY <1>7, <2>1, <2>3, <3>1, <3>2
  <2> QED BY <2>4, <2>5
<1>8. CASE TrainStep
  <2>1. UNCHANGED <<hand, generating, putting, cancelQueue, queue, taken, dropped, failures>>
    BY <1>8 DEF TrainStep, Trainer, procVars, taskVars, feedVars
  <2>2. InHand' = InHand /\ Queued' = Queued /\ losses' = losses /\ TakenSamples' = TakenSamples
    BY <2>1 DEF InHand, Queued, losses, TakenSamples
  <2> QED BY <1>8, <2>1, <2>2
<1> QED BY <1>1, <1>2, <1>3, <1>4, <1>5, <1>6, <1>7, <1>8, WhoMoves

-------------------------------------------------------------------------------
(* Conservation.                                                              *)

\* Products of natural numbers.
LEMMA Product ==
  ASSUME NEW b \in Nat, NEW r \in Nat
  PROVE  b * r \in Nat /\ (b + 1) * r = b * r + r
OBVIOUS

\* Sums of natural numbers.
LEMMA NatSum ==
  ASSUME NEW a \in Nat, NEW b \in Nat
  PROVE  a + b \in Nat
OBVIOUS

\* Members of a typed sequence.
LEMMA MembersType ==
  ASSUME NEW T, NEW s \in Seq(T)
  PROVE  Members(s) \subseteq T
BY DEF Members

\* The places hold samples.
LEMMA AliveFinite ==
  ASSUME TypeOK
  PROVE  /\ UnderWay \subseteq Samples /\ batch \subseteq Samples /\ Alive \subseteq Samples
         /\ IsFiniteSet(Alive) /\ Cardinality(Alive) \in Nat
         /\ InHand \subseteq Samples /\ Members(cancelQueue) \subseteq Samples /\ Queued \subseteq Samples
<1>1. InHand \subseteq Samples
  BY DEF InHand
<1>2. Members(cancelQueue) \subseteq Samples
  BY DEF Members, TypeOK, TaskOK
<1>3. Queued \subseteq Samples
  <2>1. Members(queue) \subseteq 1 .. End
    BY MembersType DEF TypeOK, QueueOK
  <2>2. 1 .. End \subseteq Samples \cup {End}
    BY Constants DEF Samples
  <2> QED BY <2>1, <2>2 DEF Queued
<1>4. UnderWay \subseteq Samples /\ batch \subseteq Samples
  BY <1>1, <1>2, <1>3 DEF TypeOK, TaskOK, TrainOK, UnderWay
<1> QED BY <1>1, <1>2, <1>3, <1>4, FiniteSamples DEF Alive

\* The same in the next state.
LEMMA AliveNext == TypeOK' => (Cardinality(Alive) \in Nat)'
BY AliveFinite, PTL

\* No step loses count of a sample.
LEMMA CountedStep ==
  ASSUME TypedHand, TypedHand', HandPlace, EndOfQueue, SignalSafe, Concurrent, Apart, FullBatch, Counted, [Next]_vars
  PROVE  Counted'
<1>1. /\ IsFiniteSet(Alive) /\ Cardinality(Alive) \in Nat /\ IsFiniteSet(UnderWay)
      /\ IsFiniteSet(batch) /\ Alive = UnderWay \cup batch
  BY AliveFinite, FiniteSamples DEF Alive, TypedHand
<1>2. /\ dropped \in Nat /\ failures \in Nat /\ batches \in Nat /\ Required \in Nat
      /\ dropped' \in Nat /\ failures' \in Nat /\ taken \in Nat /\ Total \in Nat
  BY Constants DEF TypedHand, TypeOK, QueueOK, TaskOK, TrainOK, FeedOK
<1> DEFINE count == Cardinality(Alive)
           trained == batches * Required
<1>3. /\ count \in Nat /\ trained \in Nat /\ losses \in Nat /\ losses' \in Nat
  <2>1. losses \in Nat /\ losses' \in Nat
    <3>1. dropped \in Nat /\ failures \in Nat
      BY <1>2
    <3>2. dropped' \in Nat /\ failures' \in Nat
      BY <1>2
    <3>3. losses \in Nat
      BY <3>1 DEF losses
    <3>4. losses' \in Nat
      BY <3>2, NatSum DEF losses
    <3> QED BY <3>3, <3>4
  <2>2. trained \in Nat
    BY <1>2, Product
  <2> QED BY <1>1, <2>1, <2>2
<1>4. TakenSamples = count + trained + losses
  BY <1>2, <1>3 DEF Counted, losses
<1> SUFFICES TakenSamples' = Cardinality(Alive') + batches' * Required + losses'
  <2>1. Cardinality(Alive') \in Nat /\ batches' * Required \in Nat
    <3>1. batches' \in Nat /\ Cardinality(Alive') \in Nat
      BY AliveNext DEF TypedHand, TypeOK, TrainOK
    <3> QED BY <1>2, <3>1, Product
  <2> QED BY <1>2, <2>1 DEF Counted, losses
<1> HIDE DEF count, trained
<1>5. UnderWay \cap batch = {} /\ Alive \subseteq 1 .. taken
  BY DEF Apart, UnderWay
<1>6. Alive' = UnderWay' \cup batch'
  BY DEF Alive
<1>7. CASE /\ TakenSamples' = TakenSamples /\ UnderWay' = UnderWay /\ losses' = losses
           /\ UNCHANGED <<batch, batches>>
  <2>1. Cardinality(Alive') = count /\ batches' * Required = trained
    BY <1>1, <1>6, <1>7 DEF count, trained
  <2> QED BY <1>3, <1>4, <1>7, <2>1
<1>8. CASE /\ TakePending /\ taken < Total /\ TakenSamples = taken /\ TakenSamples' = taken + 1
           /\ UnderWay' = UnderWay \cup {taken + 1} /\ losses' = losses
           /\ UNCHANGED <<batch, batches>>
  <2>1. Alive' = Alive \cup {taken + 1} /\ batches' * Required = trained
    BY <1>1, <1>6, <1>8 DEF trained
  <2>2. taken + 1 \notin Alive
    BY <1>2, <1>5
  <2>3. Cardinality(Alive') = count + 1
    BY <1>1, <2>1, <2>2, FS_AddElement DEF count
  <2>4. TakenSamples' = TakenSamples + 1 /\ losses' = losses
    BY <1>8
  <2> QED BY <1>3, <1>4, <2>1, <2>3, <2>4
<1>9. CASE \E x \in UnderWay :
            /\ UnderWay' = UnderWay \ {x} /\ losses' = losses + 1 /\ TakenSamples' = TakenSamples
            /\ UNCHANGED <<batch, batches>>
  <2>1. PICK x \in UnderWay : /\ UnderWay' = UnderWay \ {x} /\ losses' = losses + 1
                              /\ TakenSamples' = TakenSamples /\ UNCHANGED <<batch, batches>>
    BY <1>9
  <2>2. Alive' = Alive \ {x} /\ x \in Alive /\ batches' * Required = trained
    BY <1>1, <1>5, <1>6, <2>1 DEF trained
  <2>3. Cardinality(Alive') = count - 1
    BY <1>1, <2>2, FS_RemoveElement DEF count
  <2>4. TakenSamples' = TakenSamples /\ losses' = losses + 1
    BY <2>1
  <2> QED BY <1>3, <1>4, <2>2, <2>3, <2>4
<1>10. CASE \E x \in UnderWay :
            /\ GetSample /\ UnderWay' = UnderWay \ {x} /\ batch' = batch \cup {x}
            /\ TakenSamples' = TakenSamples /\ losses' = losses /\ batches' = batches
  <2>1. Cardinality(Alive') = count /\ batches' * Required = trained
    BY <1>1, <1>6, <1>10 DEF count, trained
  <2>2. TakenSamples' = TakenSamples /\ losses' = losses
    BY <1>10
  <2> QED BY <1>3, <1>4, <2>1, <2>2
<1>11. CASE /\ TrainStep /\ TakenSamples' = TakenSamples /\ UnderWay' = UnderWay /\ losses' = losses
  <2>1. batch' = {} /\ batches' = batches + 1 /\ trainer = "train"
    BY <1>11 DEF TrainStep
  <2>2. Alive' = Alive \ batch /\ Cardinality(batch) = Required /\ Alive \cap batch = batch
    BY <1>1, <1>5, <1>6, <1>11, <2>1 DEF FullBatch
  <2>3. Cardinality(Alive \ batch) = Cardinality(Alive) - Cardinality(Alive \cap batch)
    BY <1>1, FS_Difference
  <2>4. Cardinality(Alive') = count - Required
    BY <2>2, <2>3 DEF count
  <2>5. batches' * Required = trained + Required
    BY <1>2, <2>1, Product DEF trained
  <2>6. TakenSamples' = TakenSamples /\ losses' = losses /\ Required \in Nat
    BY <1>2, <1>11
  <2> QED BY <1>3, <1>4, <2>4, <2>5, <2>6
<1> QED BY <1>7, <1>8, <1>9, <1>10, <1>11, FlowMoves

\* The inductive invariant behind Conservation.
Places == /\ HandPlace /\ EndOfQueue /\ Concurrent /\ SignalSafe
          /\ Apart /\ FullBatch /\ Counted

\* At the start every place is empty.
LEMMA PlacesInit == Init => Places
<1> SUFFICES ASSUME Init PROVE Places
  OBVIOUS
<1>1. /\ hand = 0 /\ proc = "top" /\ generating = {} /\ putting = {} /\ cancelQueue = << >>
      /\ queue = << >> /\ batch = {} /\ taken = 0 /\ batches = 0 /\ dropped = 0 /\ failures = 0
      /\ main = "waiting" /\ trainer = "collect" /\ ended = 0
  BY DEF Init, Nothing
<1>2. Len(<< >>) = 0 /\ Cardinality({}) = 0
  BY EmptySeq, FS_EmptySet
<1>3. Members(<< >>) = {} /\ NoRepeat(<< >>)
  BY <1>2 DEF Members, NoRepeat
<1>4. hand \notin Samples /\ InHand = {} /\ Queued = {}
  BY <1>1, <1>3, Constants DEF Samples, InHand, Queued
<1>5. Alive = {}
  BY <1>1, <1>3, <1>4 DEF Alive, UnderWay
<1>6. HandPlace /\ EndOfQueue
  BY <1>1, <1>3, <1>4 DEF HandPlace, EndOfQueue
<1>7. Concurrent
  BY <1>1, <1>2, Constants DEF Concurrent, ActiveCount
<1>8. SignalSafe
  BY <1>1, <1>2 DEF SignalSafe
<1>9. Apart
  BY <1>1, <1>3, <1>4, <1>5 DEF Apart
<1>10. FullBatch
  BY <1>1, <1>2, Constants DEF FullBatch
<1>11. Counted
  BY <1>1, <1>2, <1>5, Constants DEF Counted, TakenSamples
<1> QED BY <1>6, <1>7, <1>8, <1>9, <1>10, <1>11 DEF Places

\* Every step keeps the samples in their places.
LEMMA PlacesStep == TypedHand /\ Places /\ [Next]_vars => Places'
BY TypeStep, HandPlaceStep, EndOfQueueStep, ConcurrentStep, SignalSafeStep, ApartStep, FullBatchStep,
   CountedStep DEF Places

\* Disjoint finite sets add up.
LEMMA DisjointUnion ==
  ASSUME NEW S, NEW T, IsFiniteSet(S), IsFiniteSet(T), S \cap T = {}
  PROVE  /\ IsFiniteSet(S \cup T) /\ Cardinality(S \cup T) = Cardinality(S) + Cardinality(T)
<1>1. Cardinality({}) = 0 /\ Cardinality(S) \in Nat /\ Cardinality(T) \in Nat
  BY FS_EmptySet, FS_CardinalityType
<1>2. Cardinality(S \cup T) = Cardinality(S) + Cardinality(T) - Cardinality(S \cap T)
  BY FS_Union
<1> QED BY <1>1, <1>2, FS_Union

\* The places of the samples do not overlap: their sizes add up.
LEMMA UnderWaySize ==
  ASSUME TypeOK, Apart
  PROVE  /\ Cardinality(UnderWay) = Cardinality(InHand) + Cardinality(generating) + Cardinality(putting)
               + Cardinality(Members(cancelQueue)) + Cardinality(Queued)
         /\ Cardinality(Alive) = Cardinality(InHand) + Cardinality(generating) + Cardinality(putting)
               + Cardinality(Members(cancelQueue)) + Cardinality(Queued) + Cardinality(batch)
<1>1. /\ IsFiniteSet(InHand) /\ IsFiniteSet(generating) /\ IsFiniteSet(putting)
      /\ IsFiniteSet(Members(cancelQueue)) /\ IsFiniteSet(Queued) /\ IsFiniteSet(batch)
  BY AliveFinite, FiniteSamples DEF TypeOK, TaskOK
<1> DEFINE A == InHand \cup generating
           B == A \cup putting
           C == B \cup Members(cancelQueue)
           D == C \cup Queued
<1>2. IsFiniteSet(A) /\ Cardinality(A) = Cardinality(InHand) + Cardinality(generating)
  BY <1>1, DisjointUnion DEF Apart
<1>3. IsFiniteSet(B) /\ Cardinality(B) = Cardinality(A) + Cardinality(putting)
  <2>1. A \cap putting = {}
    BY DEF Apart
  <2> HIDE DEF A
  <2> QED BY <1>1, <1>2, <2>1, DisjointUnion
<1>4. IsFiniteSet(C) /\ Cardinality(C) = Cardinality(B) + Cardinality(Members(cancelQueue))
  <2>1. B \cap Members(cancelQueue) = {}
    BY DEF Apart
  <2> HIDE DEF B
  <2> QED BY <1>1, <1>3, <2>1, DisjointUnion
<1>5. IsFiniteSet(D) /\ Cardinality(D) = Cardinality(C) + Cardinality(Queued)
  <2>1. C \cap Queued = {}
    BY DEF Apart
  <2> HIDE DEF C
  <2> QED BY <1>1, <1>4, <2>1, DisjointUnion
<1>6. Cardinality(D \cup batch) = Cardinality(D) + Cardinality(batch)
  <2>1. D \cap batch = {}
    BY DEF Apart
  <2> HIDE DEF D
  <2> QED BY <1>1, <1>5, <2>1, DisjointUnion
<1>7. UnderWay = D /\ Alive = D \cup batch
  BY DEF Alive, UnderWay
<1> HIDE DEF A, B, C, D
<1> QED BY <1>2, <1>3, <1>4, <1>5, <1>6, <1>7

\* Disjoint places that account for every sample are what Conservation says.
LEMMA PlacesConserve ==
  ASSUME TypeOK, Places
  PROVE  Conservation
<1>1. /\ IsFiniteSet(InHand) /\ IsFiniteSet(generating) /\ IsFiniteSet(putting)
      /\ IsFiniteSet(Members(cancelQueue)) /\ IsFiniteSet(Queued) /\ IsFiniteSet(batch)
      /\ Cardinality(InHand) \in Nat /\ Cardinality(generating) \in Nat /\ Cardinality(putting) \in Nat
      /\ Cardinality(Members(cancelQueue)) \in Nat /\ Cardinality(Queued) \in Nat /\ Cardinality(batch) \in Nat
  BY AliveFinite, FiniteSamples DEF TypeOK, TaskOK
<1>2. Len(cancelQueue) = Cardinality(Members(cancelQueue))
  BY MembersCount DEF Places, Apart, TypeOK, TaskOK
<1>3. Cardinality({i \in 1 .. Len(queue) : queue[i] # End}) = Cardinality(Queued)
  <2> DEFINE places_ == {i \in 1 .. Len(queue) : queue[i] # End}
             item == [i \in places_ |-> queue[i]]
  <2>1. NoRepeat(queue)
    BY DEF Places, Apart
  <2>2. IsFiniteSet(places_)
    <3>1. Len(queue) \in Nat
      BY LenProperties DEF TypeOK, QueueOK
    <3>2. IsFiniteSet(1 .. Len(queue))
      BY <3>1, FS_Interval
    <3> QED BY <3>2, FS_Subset
  <2>3. item \in Bijection(places_, Queued)
    <3>1. item \in [places_ -> Queued]
      BY DEF Queued, Members
    <3>2. \A i, j \in places_ : item[i] = item[j] => i = j
      BY <2>1 DEF NoRepeat
    <3>3. \A m \in Queued : \E i \in places_ : item[i] = m
      BY DEF Queued, Members
    <3> QED BY <3>1, <3>2, <3>3, Fun_IsBij
  <2>4. ExistsBijection(places_, Queued)
    BY <2>3 DEF ExistsBijection
  <2> QED BY <2>2, <2>4, FS_Bijection
<1>4. Cardinality(Alive) = Cardinality(InHand) + Cardinality(generating) + Cardinality(putting)
          + Cardinality(Members(cancelQueue)) + Cardinality(Queued) + Cardinality(batch)
  BY UnderWaySize DEF Places
<1>5. TakenSamples = Cardinality(Alive) + batches * Required + dropped + failures
  BY DEF Places, Counted
<1>6. (IF taken = End THEN Total ELSE taken) =
          Cardinality(InHand) + Cardinality(generating) + Cardinality(putting)
          + Len(cancelQueue) + Cardinality(Queued) + Cardinality(batch)
          + batches * Required + dropped + failures
  BY <1>2, <1>4, <1>5 DEF TakenSamples
<1>7. Cardinality(UnderWay \cup batch) = Cardinality(InHand) + Cardinality(generating)
          + Cardinality(putting) + Len(cancelQueue) + Cardinality(Queued) + Cardinality(batch)
  BY <1>2, <1>4 DEF Alive
<1> QED BY <1>2, <1>3, <1>6, <1>7 DEF Conservation

\* Conservation: whatever the interleaving of the processor, its tasks, pauses,
\* cancellations, evictions of put_sample and the trainer, a sample is in one place
\* only, and a sample that is nowhere was trained on, evicted or failed to generate.
THEOREM SamplesConserved == Spec => []Conservation
<1>1. Init => TypedHand /\ Places
  BY TypeInit, PlacesInit
<1>2. TypedHand /\ Places /\ [Next]_vars => (TypedHand /\ Places)'
  BY TypeStep, PlacesStep
<1>3. TypedHand /\ Places => Conservation
  BY PlacesConserve DEF TypedHand
<1> QED BY <1>1, <1>2, <1>3, PTL DEF Spec

-------------------------------------------------------------------------------
(* Versions.                                                                  *)

\* pause() has been called and has not gathered the tasks.
Pausing == sync \in {"pauseLock", "cancel", "gather"}

\* The versions of trainer, synchroniser and Rollouter follow each other by one.
Versions ==
    /\ tversion = IF trainer = "sync" THEN synced + 1 ELSE synced
    /\ synced = IF Pausing \/ sync \in {"paused", "updateLock"} THEN rversion + 1 ELSE rversion
    /\ Pausing => trainer = "pausing"

\* The version counts the batches; a synchronisation happens between batches.
VersionCount ==
    /\ batches = tversion * Trigger + localStep - 1
    /\ trainer \in {"sync", "pausing"} => localStep = 1 /\ batch = {}

\* What the trainer got from the queue.
Consumed == batches * Required + Cardinality(batch)

\* A sample about to be put is at most one version behind, two while pause() waits
\* for its task.
PutLag == \A s \in putting : version[s] + (IF Pausing THEN 2 ELSE 1) >= synced

\* A queued sample reaches the trainer in time: what the trainer will have consumed
\* with it is bounded by its version.
QueueLag == \A p \in 1..Len(queue) : queue[p] # End =>
    Consumed + p <= (version[queue[p]] + 2) * SamplesPerVersion + MaxRequired

\* Steps that change neither versions nor what the synchronisation is at.
LEMMA WhoVersions ==
  ASSUME [Next]_vars
  PROVE  UNCHANGED <<trainVars, sync, rversion>> \/ SyncStep \/ TrainerStep
BY DEF Next, ProcessorStep, CheckPause, SelfPause, DrainTest, DrainLocked, DrainWaited,
   IdleLocked, TakeCancelled, AwaitPending, TakePending, StartTask, Enqueue, Processor, Feed,
   SendSentinel, MonitorStep, MonitorWakes, MonitorResumes, TaskStep, Generated, Put,
   Interrupted, GenerationRaises, Task, vars, loopVars, ctrlVars

\* Each synchronisation raises the versions in turn.
LEMMA VersionsStep ==
  ASSUME TypedHand, Versions, [Next]_vars
  PROVE  Versions'
<1>1. CASE SyncStep
  <2>1. UNCHANGED trainVars
    BY <1>1 DEF SyncStep, PauseCalled, PauseCancels, PauseGathered, UpdateCounts, UpdateSets,
       ResumeCalled, ResumeCleared, Enqueue
  <2>2. CASE UpdateCounts
    BY <2>1, <2>2 DEF UpdateCounts, Versions, Pausing, trainVars
  <2>3. CASE ~UpdateCounts
    <3>1. /\ rversion' = rversion /\ (Pausing' => Pausing)
          /\ (Pausing' \/ sync' \in {"paused", "updateLock"}) <=> (Pausing \/ sync \in {"paused", "updateLock"})
      BY <1>1, <2>3 DEF SyncStep, PauseCalled, PauseCancels, PauseGathered, UpdateSets,
         ResumeCalled, ResumeCleared, Resumed, Enqueue, Pausing, ctrlVars, loopVars
    <3> QED BY <2>1, <3>1 DEF Versions, trainVars
  <2> QED BY <2>2, <2>3
<1>2. CASE TrainerStep
  <2>1. rversion' = rversion
    BY <1>2, Elsewhere DEF ctrlVars
  <2>2. CASE TrainStep
    BY <2>1, <2>2 DEF TrainStep, Versions, Pausing
  <2>3. CASE CallPause
    BY <2>1, <2>3 DEF CallPause, Versions, Pausing
  <2>4. CASE CallUpdate
    BY <2>1, <2>4 DEF CallUpdate, Versions, Pausing
  <2>5. CASE GetSample \/ TrainerStops
    <3>1. /\ UNCHANGED <<tversion, synced, sync>> /\ trainer \in {"collect", "drained"}
          /\ trainer' \in {"collect", "drained", "train", "crashed", "finished"}
      BY <2>5 DEF GetSample, TrainerStops
    <3>2. Pausing' = Pausing
      BY <3>1 DEF Pausing
    <3> QED BY <2>1, <3>1, <3>2 DEF Versions
  <2> QED BY <1>2, <2>2, <2>3, <2>4, <2>5 DEF TrainerStep
<1>3. CASE UNCHANGED <<trainVars, sync, rversion>>
  <2>1. Pausing' = Pausing
    BY <1>3 DEF Pausing
  <2> QED BY <1>3, <2>1 DEF Versions, trainVars
<1> QED BY <1>1, <1>2, <1>3, WhoVersions

\* One version more is a version's samples more.
LEMMA VersionProduct ==
  ASSUME NEW t \in Nat, NEW k \in Nat
  PROVE  t * k \in Nat /\ (t + 1) * k = t * k + k
OBVIOUS

\* After Trigger batches the version grows.
LEMMA VersionCountStep ==
  ASSUME TypedHand, VersionCount, [Next]_vars
  PROVE  VersionCount'
<1>0. /\ tversion \in Nat /\ Trigger \in Nat /\ localStep \in Nat /\ localStep <= Trigger
      /\ batches \in Nat /\ tversion * Trigger \in Nat
  BY Constants, VersionProduct DEF TypedHand, TypeOK, TrainOK
<1>1. CASE TrainStep
  <2>1. batches' = batches + 1 /\ batch' = {}
    BY <1>1 DEF TrainStep
  <2>2. batches = tversion * Trigger + localStep - 1
    BY DEF VersionCount
  <2>3. CASE localStep < Trigger
    <3>1. tversion' = tversion /\ localStep' = localStep + 1 /\ trainer' = "collect"
      BY <1>1, <2>3 DEF TrainStep
    <3>2. tversion' * Trigger = tversion * Trigger
      BY <3>1
    <3>3. batches' = tversion' * Trigger + localStep' - 1
      BY <1>0, <2>1, <2>2, <3>1, <3>2
    <3> QED BY <3>1, <3>3 DEF VersionCount
  <2>4. CASE ~(localStep < Trigger)
    <3>1. tversion' = tversion + 1 /\ localStep' = 1 /\ localStep = Trigger
      BY <1>0, <1>1, <2>4 DEF TrainStep
    <3>2. tversion' * Trigger = tversion * Trigger + Trigger
      BY <1>0, <3>1, VersionProduct
    <3>3. tversion' * Trigger \in Nat
      BY <1>0, <3>2
    <3>4. batches' = tversion' * Trigger + localStep' - 1
      BY <1>0, <2>1, <2>2, <3>1, <3>2, <3>3
    <3> QED BY <2>1, <3>1, <3>4 DEF VersionCount
  <2> QED BY <2>3, <2>4
<1>2. CASE TrainerStep /\ ~TrainStep
  <2>1. UNCHANGED <<tversion, localStep, batches>>
    BY <1>2 DEF TrainerStep, GetSample, CallPause, CallUpdate, TrainerStops
  <2>2. trainer' \in {"sync", "pausing"} => trainer = "sync" /\ batch' = batch
    BY <1>2 DEF TrainerStep, GetSample, CallPause, CallUpdate, TrainerStops
  <2> QED BY <2>1, <2>2 DEF VersionCount
<1>3. CASE UNCHANGED trainVars
  BY <1>3 DEF VersionCount, trainVars
<1>4. SyncStep => UNCHANGED trainVars
  BY DEF SyncStep, PauseCalled, PauseCancels, PauseGathered, UpdateCounts, UpdateSets,
     ResumeCalled, ResumeCleared, Enqueue
<1> QED BY <1>1, <1>2, <1>3, <1>4, WhoVersions

\* Only generation that ends gives a sample its version.
LEMMA WhoPuts ==
  ASSUME TypedHand, [Next]_vars
  PROVE  /\ version' = version \/ \E s \in Samples : Generated(s)
         /\ \A s \in putting' : s \in putting \/ Generated(s)
<1>1. CASE \E s \in Samples : TaskStep(s)
  BY <1>1 DEF TaskStep, Generated, Put, Interrupted, GenerationRaises
<1>2. CASE ~(\E s \in Samples : TaskStep(s))
  <2>1. UNCHANGED <<version, putting>>
    BY <1>2 DEF Next, ProcessorStep, CheckPause, SelfPause, DrainTest, DrainLocked, DrainWaited,
       IdleLocked, TakeCancelled, AwaitPending, TakePending, StartTask, Enqueue, Processor, Feed,
       SendSentinel, MonitorStep, MonitorWakes, MonitorResumes, SyncStep, PauseCalled, PauseCancels,
       PauseGathered, UpdateCounts, UpdateSets, ResumeCalled, ResumeCleared, TrainerStep, GetSample,
       TrainStep, CallPause, CallUpdate, TrainerStops, Trainer, vars, taskVars
  <2> QED BY <2>1
<1> QED BY <1>1, <1>2

\* pause() gathers the tasks before the version is passed on.
LEMMA PutLagStep ==
  ASSUME TypedHand, Versions, PutLag, [Next]_vars
  PROVE  PutLag'
<1>0. /\ version \in [Samples -> Nat] /\ rversion \in Nat /\ synced \in Nat /\ putting \subseteq Samples
      /\ tversion \in Nat
  BY DEF TypedHand, TypeOK, TaskOK, CtrlOK, TrainOK
<1> SUFFICES ASSUME NEW s \in putting'
             PROVE  version'[s] + (IF Pausing' THEN 2 ELSE 1) >= synced'
  BY DEF PutLag
<1>1. CASE Generated(s)
  <2>1. s \in Samples /\ version'[s] = rversion
    BY <1>0, <1>1 DEF Generated, TypedHand, TypeOK, TaskOK
  <2>2. synced' = synced /\ Pausing' = Pausing
    BY <1>1 DEF Generated, Task, trainVars, loopVars, Pausing
  <2>3. synced <= rversion + 1
    BY <1>0 DEF Versions
  <2> QED BY <1>0, <2>1, <2>2, <2>3
<1>2. CASE ~Generated(s)
  <2>1. s \in putting /\ version'[s] = version[s] /\ s \in Samples
    <3>1. s \in putting
      BY <1>2, WhoPuts
    <3>2. CASE version' = version
      BY <1>0, <3>1, <3>2
    <3>3. CASE \E r \in Samples : Generated(r)
      <4>1. PICK r \in Samples : Generated(r)
        BY <3>3
      <4>2. version' = [version EXCEPT ![r] = rversion] /\ r # s
        BY <1>2, <4>1 DEF Generated
      <4> QED BY <1>0, <3>1, <4>2
    <3> QED BY <3>2, <3>3, WhoPuts
  <2>2. version[s] \in Nat /\ version[s] + (IF Pausing THEN 2 ELSE 1) >= synced
    BY <1>0, <2>1 DEF PutLag
  <2>3. CASE synced' = synced /\ (Pausing => Pausing')
    BY <1>0, <2>1, <2>2, <2>3
  <2>4. CASE CallPause
    <3>1. synced' = tversion /\ Pausing' /\ ~Pausing /\ trainer = "sync"
      BY <2>4 DEF CallPause, Pausing
    <3>2. tversion = synced + 1
      BY <3>1 DEF Versions
    <3> QED BY <1>0, <2>1, <2>2, <3>1, <3>2
  <2>5. ~(PauseGathered \/ (PauseCalled /\ Pausing /\ ~Pausing'))
    <3>1. ~PauseGathered
      BY <2>1 DEF PauseGathered
    <3>2. ASSUME PauseCalled, ~Pausing' PROVE FALSE
      <4>1. ActiveCount = 0
        BY <3>2 DEF PauseCalled, Pausing
      <4>2. putting = {}
        BY <4>1, Idle DEF TypedHand
      <4> QED BY <2>1, <4>2
    <3> QED BY <3>1, <3>2
  <2>6. \/ synced' = synced /\ (Pausing => Pausing')
        \/ CallPause
    <3>1. CASE SyncStep
      BY <2>5, <3>1 DEF SyncStep, PauseCalled, PauseCancels, UpdateCounts, UpdateSets,
         ResumeCalled, ResumeCleared, Resumed, Enqueue, Pausing, trainVars, loopVars
    <3>2. CASE TrainerStep
      BY <3>2 DEF TrainerStep, GetSample, TrainStep, CallUpdate, TrainerStops, Pausing
    <3>3. CASE UNCHANGED <<trainVars, sync, rversion>>
      BY <3>3 DEF trainVars, Pausing
    <3> QED BY <3>1, <3>2, <3>3, WhoVersions
  <2> QED BY <2>3, <2>4, <2>6
<1> QED BY <1>1, <1>2

-------------------------------------------------------------------------------
(* Staleness.                                                                 *)

\* Multiplication is monotone.
LEMMA Monotone ==
  ASSUME NEW a \in Int, NEW b \in Int, NEW k \in Nat, a <= b
  PROVE  a * k <= b * k
OBVIOUS

\* The samples of the batches, split into versions and rest.
LEMMA BatchesProduct ==
  ASSUME NEW t \in Nat, NEW k \in Nat, NEW r \in Nat, NEW l \in Nat, l >= 1, l <= k
  PROVE  /\ (t * k + l - 1) * r = t * (r * k) + (l - 1) * r
         /\ (l - 1) * r \in Nat /\ (l - 1) * r + r <= r * k
<1>1. (t * k + l - 1) * r = t * (r * k) + (l - 1) * r
  OBVIOUS
<1>2. (l - 1) * r \in Nat
  OBVIOUS
<1>3. (l - 1) * r + r = l * r
  OBVIOUS
<1>4. l * r <= k * r /\ k * r = r * k
  BY Monotone
<1> QED BY <1>1, <1>2, <1>3, <1>4

\* A version is made of at least one sample and fits the queue.
LEMMA SamplesPerVersionType == SamplesPerVersion \in Nat /\ SamplesPerVersion >= 1 /\ SamplesPerVersion <= MaxRequired
<1>1. Required * Trigger \in Nat /\ Required * Trigger >= 1
  BY FullyAsyncAssumption
<1> QED BY <1>1, FullyAsyncAssumption DEF SamplesPerVersion

\* What the trainer consumed, in versions.
LEMMA ConsumedBounds ==
  ASSUME TypeOK, FullBatch, VersionCount
  PROVE  /\ Consumed \in Nat
         /\ tversion * SamplesPerVersion <= Consumed
         /\ Consumed <= (tversion + 1) * SamplesPerVersion
         /\ trainer \in {"sync", "pausing"} => Consumed = tversion * SamplesPerVersion
<1> DEFINE t == tversion * SamplesPerVersion
           r == (localStep - 1) * Required
<1>1. /\ tversion \in Nat /\ Trigger \in Nat /\ Required \in Nat /\ localStep \in Nat
      /\ localStep >= 1 /\ localStep <= Trigger /\ SamplesPerVersion \in Nat
  BY Constants, SamplesPerVersionType DEF TypeOK, TrainOK
<1>2. /\ batches * Required = t + r /\ r \in Nat /\ r + Required <= SamplesPerVersion
  BY <1>1, BatchesProduct DEF SamplesPerVersion, VersionCount
<1>3. t \in Nat /\ (tversion + 1) * SamplesPerVersion = t + SamplesPerVersion
  BY <1>1, VersionProduct
<1>4. trainer \in {"sync", "pausing"} => r = 0 /\ batch = {}
  BY <1>1 DEF VersionCount
<1>5. Cardinality(batch) \in Nat /\ Cardinality(batch) <= Required
  BY <1>1, FiniteSamples DEF FullBatch, TypeOK, TrainOK
<1>6. Consumed = t + r + Cardinality(batch)
  BY <1>2 DEF Consumed
<1>7. batch = {} => Cardinality(batch) = 0
  BY FS_EmptySet
<1> HIDE DEF t, r
<1>8. Consumed \in Nat /\ t <= Consumed /\ Consumed <= t + SamplesPerVersion
  BY <1>1, <1>2, <1>3, <1>5, <1>6
<1>9. trainer \in {"sync", "pausing"} => Consumed = t
  BY <1>3, <1>4, <1>6, <1>7
<1> QED BY <1>3, <1>8, <1>9 DEF t

\* Arithmetic of a sample that is one version behind.
LEMMA LagProduct ==
  ASSUME NEW v \in Nat, NEW k \in Nat, NEW t \in Nat, t <= v + 1
  PROVE  /\ (v + 2) * k \in Nat /\ (t + 1) * k <= (v + 2) * k /\ (t + 1) * k \in Nat
OBVIOUS

\* A sample that is put satisfies QueueLag at the end of the queue.
LEMMA PutInTime ==
  ASSUME TypeOK, FullBatch, VersionCount, Versions, PutLag, NEW s \in putting
  PROVE  Consumed <= (version[s] + 2) * SamplesPerVersion
<1>1. /\ version[s] \in Nat /\ tversion \in Nat /\ synced \in Nat /\ SamplesPerVersion \in Nat
  BY SamplesPerVersionType DEF TypeOK, TaskOK, TrainOK
<1>2. version[s] + (IF Pausing THEN 2 ELSE 1) >= synced
  BY DEF PutLag
<1>3. CASE trainer \in {"sync", "pausing"}
  <2>1. tversion <= version[s] + 2
    <3>1. CASE trainer = "sync"
      <4>1. ~Pausing /\ tversion = synced + 1
        BY <3>1 DEF Versions
      <4> QED BY <1>1, <1>2, <4>1
    <3>2. CASE trainer = "pausing"
      <4>1. tversion = synced
        BY <3>2 DEF Versions
      <4> QED BY <1>1, <1>2, <4>1
    <3> QED BY <1>3, <3>1, <3>2
  <2>2. tversion * SamplesPerVersion <= (version[s] + 2) * SamplesPerVersion
    BY <1>1, <2>1, Monotone
  <2> QED BY <1>3, <2>2, ConsumedBounds
<1>4. CASE ~(trainer \in {"sync", "pausing"})
  <2>1. tversion = synced /\ ~Pausing
    BY <1>4 DEF Versions
  <2>2. tversion <= version[s] + 1
    BY <1>1, <1>2, <2>1
  <2>3. (tversion + 1) * SamplesPerVersion <= (version[s] + 2) * SamplesPerVersion
        /\ (version[s] + 2) * SamplesPerVersion \in Nat /\ (tversion + 1) * SamplesPerVersion \in Nat
    BY <1>1, <2>2, LagProduct
  <2>4. Consumed \in Nat /\ Consumed <= (tversion + 1) * SamplesPerVersion
    BY ConsumedBounds
  <2> QED BY <2>3, <2>4, Transitive
<1> QED BY <1>3, <1>4

\* Only get_sample raises Consumed, by one.
LEMMA ConsumedMoves ==
  ASSUME TypedHand, Apart, FullBatch, VersionCount, [Next]_vars
  PROVE  /\ Consumed \in Nat
         /\ ~GetSample => Consumed' = Consumed
         /\ GetSample => Consumed' = Consumed \/ Consumed' = Consumed + 1
<1>1. /\ Consumed \in Nat /\ batches \in Nat /\ Required \in Nat /\ IsFiniteSet(batch)
      /\ Cardinality(batch) \in Nat
  BY ConsumedBounds, Constants, FiniteSamples DEF TypedHand, TypeOK, TrainOK
<1>2. CASE GetSample
  <2>1. CASE batch' = batch
    <3>1. Consumed' = Consumed
      BY <1>2, <2>1 DEF Consumed, GetSample
    <3> QED BY <1>1, <1>2, <3>1
  <2>2. CASE batch' = batch \cup {Head(queue)} /\ Head(queue) # End
    <3>1. Head(queue) \in Members(queue)
      BY <1>2, MembersTail DEF GetSample, TypedHand, TypeOK, QueueOK
    <3>2. Head(queue) \notin batch
      BY <2>2, <3>1 DEF Apart, Queued
    <3>3. Cardinality(batch') = Cardinality(batch) + 1
      BY <1>1, <2>2, <3>2, FS_AddElement
    <3>4. batches' * Required = batches * Required /\ batches * Required \in Nat
      BY <1>1, <1>2, Product DEF GetSample
    <3>5. Consumed' = Consumed + 1
      BY <1>1, <3>3, <3>4 DEF Consumed
    <3> QED BY <1>1, <1>2, <3>5
  <2> QED BY <1>1, <1>2, <2>1, <2>2 DEF GetSample
<1>3. CASE TrainStep
  <2>1. batches' = batches + 1 /\ batch' = {} /\ Cardinality(batch) = Required
    BY <1>3 DEF TrainStep, FullBatch
  <2>2. Cardinality(batch') = 0
    BY <2>1, FS_EmptySet
  <2>3. batches' * Required = batches * Required + Required /\ batches * Required \in Nat
    BY <1>1, <2>1, Product
  <2>4. Consumed' = Consumed
    BY <1>1, <2>1, <2>2, <2>3 DEF Consumed
  <2>5. ~GetSample
    BY <1>3 DEF TrainStep, GetSample
  <2> QED BY <1>1, <2>4, <2>5
<1>4. CASE UNCHANGED <<batch, batches>> /\ ~GetSample
  <2>1. Consumed' = Consumed
    BY <1>4 DEF Consumed
  <2> QED BY <1>1, <1>4, <2>1
<1> QED BY <1>2, <1>3, <1>4, WhoTrains DEF TypedHand

\* The version of a sample that is queued or collected does not change any more.
LEMMA VersionKept ==
  ASSUME TypedHand, Apart, [Next]_vars, NEW x \in Queued \cup batch
  PROVE  version'[x] = version[x] /\ version[x] \in Nat
<1>1. x \in Samples /\ version \in [Samples -> Nat]
  BY AliveFinite DEF TypedHand, TypeOK, TaskOK
<1>2. CASE version' = version
  BY <1>1, <1>2
<1>3. CASE \E r \in Samples : Generated(r)
  <2>1. PICK r \in Samples : Generated(r)
    BY <1>3
  <2>2. r \in generating /\ version' = [version EXCEPT ![r] = rversion]
    BY <2>1 DEF Generated
  <2>3. r # x
    BY <2>2 DEF Apart
  <2> QED BY <1>1, <2>2, <2>3
<1> QED BY <1>2, <1>3, WhoPuts

\* Getting the head of the queue moves the others up as it raises Consumed.
LEMMA QueueLagStep ==
  ASSUME TypedHand, TypedHand', EndOfQueue, Apart, FullBatch, VersionCount, Versions, PutLag, QueueLag, [Next]_vars
  PROVE  QueueLag'
<1> DEFINE limit(x) == (version[x] + 2) * SamplesPerVersion + MaxRequired
           limitN(x) == (version'[x] + 2) * SamplesPerVersion + MaxRequired
<1>1. \A x \in Queued : limitN(x) = limit(x) /\ limit(x) \in Nat
  <2> SUFFICES ASSUME NEW x \in Queued PROVE limitN(x) = limit(x) /\ limit(x) \in Nat
    OBVIOUS
  <2>1. version'[x] = version[x] /\ version[x] \in Nat
    BY VersionKept
  <2>2. (version[x] + 2) * SamplesPerVersion \in Nat
    BY <2>1, SamplesPerVersionType, LagProduct
  <2> QED BY <2>1, <2>2, Constants
<1>2. /\ queue \in Seq(1 .. End) /\ Len(queue) \in Nat /\ queue' \in Seq(1 .. End) /\ Len(queue') \in Nat
      /\ Len(queue') <= MaxRequired /\ MaxRequired \in Nat
  BY LenProperties, Constants DEF TypedHand, TypeOK, QueueOK
<1>3. \A p \in 1 .. Len(queue) : queue[p] # End => queue[p] \in Queued /\ Consumed + p <= limit(queue[p])
  BY DEF QueueLag, Queued, Members
<1>4. Consumed \in Nat
  BY ConsumedMoves
<1> SUFFICES ASSUME NEW q \in 1 .. Len(queue'), queue'[q] # End
             PROVE  Consumed' + q <= limitN(queue'[q])
  BY DEF QueueLag
<1>5. q \in Nat
  BY <1>2
<1> HIDE DEF limit, limitN
<1>6. CASE GetSample
  <2>1. queue # << >> /\ queue' = Tail(queue)
    BY <1>6 DEF GetSample
  <2>2. q + 1 \in 1 .. Len(queue) /\ queue'[q] = queue[q + 1]
    BY <1>2, <2>1, ItemsTail
  <2>3. queue[q + 1] \in Queued /\ Consumed + (q + 1) <= limit(queue[q + 1])
    BY <1>3, <2>2
  <2>4. Consumed' = Consumed \/ Consumed' = Consumed + 1
    BY <1>6, ConsumedMoves
  <2>5. limit(queue[q + 1]) \in Nat /\ limitN(queue'[q]) = limit(queue[q + 1])
    BY <1>1, <2>2, <2>3
  <2> QED BY <1>4, <1>5, <2>3, <2>4, <2>5
<1>7. CASE UNCHANGED <<queue, dropped>> /\ ~GetSample
  <2>1. queue'[q] = queue[q] /\ q \in 1 .. Len(queue)
    BY <1>7
  <2>2. queue[q] \in Queued /\ Consumed + q <= limit(queue[q])
    BY <1>3, <2>1
  <2>3. Consumed' = Consumed
    BY <1>7, ConsumedMoves
  <2> QED BY <1>1, <2>1, <2>2, <2>3
<1>8. CASE \E s \in Samples : Put(s)
  <2>1. PICK s \in Samples : Put(s)
    BY <1>8
  <2>2. s \in putting /\ PutSample(s) /\ s \in 1 .. End /\ ~GetSample /\ version' = version
    <3>1. s \in putting /\ PutSample(s) /\ putting' = putting \ {s} /\ version' = version
      BY <2>1 DEF Put
    <3>2. ~GetSample
      BY <3>1 DEF GetSample, Trainer, taskVars
    <3> QED BY <3>1, <3>2, Constants DEF Samples
  <2>3. Consumed' = Consumed
    BY <2>2, ConsumedMoves
  <2>4. \/ q \in 1 .. Len(queue) /\ queue'[q] = queue[q]
        \/ q + 1 \in 1 .. Len(queue) /\ queue'[q] = queue[q + 1]
        \/ queue'[q] = s
    BY <2>2, ItemsPut DEF TypedHand
  <2>5. CASE q \in 1 .. Len(queue) /\ queue'[q] = queue[q]
    <3>1. queue[q] \in Queued /\ Consumed + q <= limit(queue[q])
      BY <1>3, <2>5
    <3> QED BY <1>1, <2>3, <2>5, <3>1
  <2>6. CASE q + 1 \in 1 .. Len(queue) /\ queue'[q] = queue[q + 1]
    <3>1. queue[q + 1] \in Queued /\ Consumed + (q + 1) <= limit(queue[q + 1])
      BY <1>3, <2>6
    <3>2. limit(queue[q + 1]) \in Nat /\ limitN(queue'[q]) = limit(queue[q + 1])
      BY <1>1, <2>6, <3>1
    <3> QED BY <1>4, <1>5, <2>3, <3>1, <3>2
  <2>7. CASE queue'[q] = s
    <3>1. Consumed <= (version[s] + 2) * SamplesPerVersion
      BY <2>2, PutInTime DEF TypedHand
    <3>2. q <= MaxRequired
      BY <1>2, <1>5
    <3>3. (version[s] + 2) * SamplesPerVersion \in Nat
      <4>1. version[s] \in Nat
        BY DEF TypedHand, TypeOK, TaskOK
      <4> QED BY <4>1, SamplesPerVersionType, LagProduct
    <3>4. Consumed + q <= (version[s] + 2) * SamplesPerVersion + MaxRequired
      BY <1>2, <1>4, <1>5, <3>1, <3>2, <3>3
    <3>5. limitN(queue'[q]) = (version[s] + 2) * SamplesPerVersion + MaxRequired
      BY <2>2, <2>7 DEF limitN
    <3> QED BY <2>3, <3>4, <3>5
  <2> QED BY <2>4, <2>5, <2>6, <2>7
<1>9. CASE SendSentinel
  <2>1. PutSample(End) /\ End \in 1 .. End /\ ~GetSample
    <3>1. main' # main /\ PutSample(End)
      BY <1>9 DEF SendSentinel
    <3> QED BY <3>1, Constants DEF GetSample, Trainer
  <2>2. Consumed' = Consumed
    BY <2>1, ConsumedMoves
  <2>3. \/ q \in 1 .. Len(queue) /\ queue'[q] = queue[q]
        \/ q + 1 \in 1 .. Len(queue) /\ queue'[q] = queue[q + 1]
    BY <2>1, ItemsPut DEF TypedHand
  <2>4. CASE q \in 1 .. Len(queue) /\ queue'[q] = queue[q]
    <3>1. queue[q] \in Queued /\ Consumed + q <= limit(queue[q])
      BY <1>3, <2>4
    <3> QED BY <1>1, <2>2, <2>4, <3>1
  <2>5. CASE q + 1 \in 1 .. Len(queue) /\ queue'[q] = queue[q + 1]
    <3>1. queue[q + 1] \in Queued /\ Consumed + (q + 1) <= limit(queue[q + 1])
      BY <1>3, <2>5
    <3>2. limit(queue[q + 1]) \in Nat /\ limitN(queue'[q]) = limit(queue[q + 1])
      BY <1>1, <2>5, <3>1
    <3> QED BY <1>4, <1>5, <2>2, <3>1, <3>2
  <2> QED BY <2>3, <2>4, <2>5
<1> QED BY <1>6, <1>7, <1>8, <1>9, WhoQueue

\* The rest of a product that stays below a number.
LEMMA Quotient ==
  ASSUME NEW t \in Nat, NEW v \in Nat, NEW k \in Nat, k >= 1, NEW m \in Nat, m >= 1,
         t * k + 1 <= (v + 2) * k + m
  PROVE  t - v <= 2 + (m - 1) \div k
<1> DEFINE d == t - v - 2
           n == m - 1
           w == n \div k
<1>1. d * k <= n
  <2>1. d * k = t * k - (v + 2) * k
    OBVIOUS
  <2>2. t * k \in Int /\ (v + 2) * k \in Int
    OBVIOUS
  <2> QED BY <2>1, <2>2
<1>2. n \in Nat /\ w \in Nat /\ n = k * w + (n % k) /\ n % k < k /\ n % k \in Nat
  OBVIOUS
<1>3. n < (w + 1) * k
  BY <1>2
<1>4. d <= w
  <2>1. SUFFICES ASSUME d >= w + 1 PROVE FALSE
    BY <1>2
  <2>2. (w + 1) * k <= d * k
    BY <1>2, <2>1, Monotone
  <2> QED BY <1>1, <1>2, <1>3, <2>2
<1> QED BY <1>2, <1>4

\* The inductive invariant behind StalenessBounded.
Lagging == /\ Versions /\ VersionCount /\ PutLag /\ QueueLag /\ StalenessBounded

\* A sample delivered satisfies QueueLag at the head of the queue.
LEMMA LagStep ==
  ASSUME TypedHand, TypedHand', Places, StalenessBounded, Versions, VersionCount, QueueLag, [Next]_vars
  PROVE  StalenessBounded'
<1> SUFFICES ASSUME NEW s \in batch' PROVE tversion' - version'[s] <= 2 + (MaxRequired - 1) \div SamplesPerVersion
  BY DEF StalenessBounded
<1>1. CASE GetSample
  <2>1. queue # << >> /\ tversion' = tversion /\ version' = version /\ queue \in Seq(1 .. End)
    BY <1>1 DEF GetSample, Trainer, taskVars, TypedHand, TypeOK, QueueOK
  <2>2. CASE s \in batch
    BY <2>1, <2>2 DEF StalenessBounded
  <2>3. CASE s \notin batch
    <3>1. s = Head(queue) /\ s # End
      BY <1>1, <2>3 DEF GetSample
    <3>2. 1 \in 1 .. Len(queue) /\ queue[1] = s
      BY <2>1, <3>1, ItemsTail
    <3>3. Consumed + 1 <= (version[s] + 2) * SamplesPerVersion + MaxRequired
      BY <3>1, <3>2 DEF QueueLag
    <3>4. tversion * SamplesPerVersion <= Consumed /\ Consumed \in Nat
      BY ConsumedBounds DEF TypedHand, Places
    <3>5. s \in Queued
      BY <3>1, <3>2 DEF Queued, Members
    <3>6. version[s] \in Nat
      BY <3>5, VersionKept DEF Places
    <3>7. tversion \in Nat /\ MaxRequired \in Nat /\ MaxRequired >= 1
      BY Constants DEF TypedHand, TypeOK, TrainOK
    <3>8. /\ tversion * SamplesPerVersion \in Nat
          /\ (version[s] + 2) * SamplesPerVersion \in Nat
      BY <3>6, <3>7, SamplesPerVersionType, VersionProduct, LagProduct
    <3>9. tversion * SamplesPerVersion + 1 <= (version[s] + 2) * SamplesPerVersion + MaxRequired
      BY <3>3, <3>4, <3>7, <3>8
    <3> QED BY <2>1, <3>6, <3>7, <3>9, SamplesPerVersionType, Quotient
  <2> QED BY <2>2, <2>3
<1>2. CASE TrainStep
  BY <1>2 DEF TrainStep
<1>3. CASE UNCHANGED <<batch, batches>> /\ ~TrainStep
  <2>1. tversion' = tversion
    BY <1>3, WhoVersions DEF trainVars, TrainerStep, GetSample, CallPause, CallUpdate, TrainerStops,
       SyncStep, PauseCalled, PauseCancels, PauseGathered, UpdateCounts, UpdateSets,
       ResumeCalled, ResumeCleared, Enqueue
  <2>2. version'[s] = version[s] /\ s \in batch
    BY <1>3, VersionKept DEF Places
  <2> QED BY <2>1, <2>2 DEF StalenessBounded
<1> QED BY <1>1, <1>2, <1>3, WhoTrains DEF TypedHand

\* All versions start at zero and the queue empty.
LEMMA LaggingInit == Init => Lagging
<1> SUFFICES ASSUME Init PROVE Lagging
  OBVIOUS
<1>1. Versions
  BY DEF Init, Versions, Pausing
<1>2. VersionCount
  <2>1. 0 * Trigger = 0
    BY Constants
  <2> QED BY <2>1 DEF Init, VersionCount
<1>3. PutLag /\ StalenessBounded
  BY DEF Init, PutLag, StalenessBounded
<1>4. QueueLag
  BY EmptySeq DEF Init, QueueLag
<1> QED BY <1>1, <1>2, <1>3, <1>4 DEF Lagging

\* Every step keeps the versions together.
LEMMA LaggingStep == TypedHand /\ Places /\ Lagging /\ [Next]_vars => Lagging'
<1> SUFFICES ASSUME TypedHand, Places, Lagging, [Next]_vars PROVE Lagging'
  OBVIOUS
<1>1. TypedHand'
  BY TypeStep
<1> QED BY <1>1, VersionsStep, VersionCountStep, PutLagStep, QueueLagStep, LagStep DEF Lagging, Places

\* Staleness: between a sample's generation (rollout_sample.param_version) and its
\* delivery by get_sample, at most 2 + (max_required_samples - 1) \div (samples of a
\* version) versions are made, for any sizes, with or without partial rollout.
THEOREM StalenessBound == Spec => []StalenessBounded
<1>1. Init => TypedHand /\ Places /\ Lagging
  BY TypeInit, PlacesInit, LaggingInit
<1>2. TypedHand /\ Places /\ Lagging /\ [Next]_vars => (TypedHand /\ Places /\ Lagging)'
  BY TypeStep, PlacesStep, LaggingStep
<1>3. Lagging => StalenessBounded
  BY DEF Lagging
<1> QED BY <1>1, <1>2, <1>3, PTL DEF Spec

-------------------------------------------------------------------------------
(* The refinement of SampleFlow.                                              *)

\* SampleFlow counts as this module does.
LEMMA FlowCardinality == \A S : Flow!Cardinality(S) = Cardinality(S)
BY DEF Flow!Cardinality, Cardinality, Flow!IsFiniteSet, IsFiniteSet

\* Arithmetic of the queue that may hold the end signal.
LEMMA FourSum ==
  ASSUME NEW h \in Nat, NEW g \in Nat, NEW p \in Nat, NEW c \in Nat, NEW q \in Nat, NEW r \in Nat, r <= q
  PROVE  h + g + p + c + r <= h + g + p + c + q /\ h + g + p + c + r \in Nat
OBVIOUS

\* The samples under way are at most the count that freshness control bounds.
LEMMA UnderWayCounted ==
  ASSUME TypeOK, Apart
  PROVE  Cardinality(UnderWay) <= CountUnderWay /\ Cardinality(UnderWay) \in Nat
<1>1. /\ IsFiniteSet(Queued) /\ Cardinality(Queued) \in Nat
      /\ Cardinality(generating) \in Nat /\ Cardinality(putting) \in Nat
  BY AliveFinite, FiniteSamples DEF TypeOK, TaskOK
<1>2. Len(cancelQueue) = Cardinality(Members(cancelQueue)) /\ Len(cancelQueue) \in Nat
  BY MembersCount, LenProperties DEF Apart, TypeOK, TaskOK
<1>3. Cardinality(Queued) <= Len(queue) /\ Len(queue) \in Nat
  <2>1. /\ IsFiniteSet(Members(queue)) /\ Cardinality(Members(queue)) = Len(queue)
    BY MembersCount DEF Apart, TypeOK, QueueOK
  <2>2. Queued \subseteq Members(queue)
    BY DEF Queued
  <2>3. Len(queue) \in Nat
    BY LenProperties DEF TypeOK, QueueOK
  <2> QED BY <2>1, <2>2, <2>3, FS_Subset
<1>4. Cardinality(InHand) = Held /\ Held \in Nat
  <2>1. CASE hand \in Samples
    <3>1. InHand = {hand}
      BY <2>1 DEF InHand
    <3> QED BY <2>1, <3>1, FS_Singleton DEF Held
  <2>2. CASE hand \notin Samples
    <3>1. InHand = {}
      BY <2>2 DEF InHand
    <3> QED BY <2>2, <3>1, FS_EmptySet DEF Held
  <2> QED BY <2>1, <2>2
<1>5. CountUnderWay = Held + Cardinality(generating) + Cardinality(putting) + Len(cancelQueue) + Len(queue)
  BY DEF CountUnderWay, Held
<1>6. Cardinality(UnderWay) = Held + Cardinality(generating) + Cardinality(putting)
        + Len(cancelQueue) + Cardinality(Queued)
  BY <1>2, <1>4, UnderWaySize
<1> QED BY <1>1, <1>2, <1>3, <1>4, <1>5, <1>6, FourSum

\* When a sample is taken there is room for it.
LEMMA RoomToTake ==
  ASSUME TypedHand, Freshness, EndOfQueue, TakePending
  PROVE  CountUnderWay <= MaxRequired
<1>1. main = "waiting" /\ proc \in {"take", "get"}
  BY DEF TakePending, EndOfQueue, TypedHand, TypeOK, LoopOK
<1>2. CountUnderWay <= staleness + 1 /\ (proc = "get" => CountUnderWay <= MaxRequired)
  BY <1>1 DEF Freshness, StalenessCovers
<1>3. CASE proc = "take"
  <2>1. staleness < MaxRequired /\ staleness \in Nat
    BY <1>3 DEF Freshness, TestStillHolds, TypedHand, TypeOK, CtrlOK
  <2>2. CountUnderWay \in Nat
    BY UnderWaySum DEF TypedHand
  <2> QED BY <1>2, <2>1, <2>2, Constants
<1> QED BY <1>1, <1>2, <1>3

\* The quotient of a number given by quotient and rest.
LEMMA QuotientOf ==
  ASSUME NEW b \in Nat, NEW r \in Nat, r >= 1, NEW c \in Nat, c < r, NEW n \in Int, n = c + b * r
  PROVE  b = n \div r
<1> DEFINE w == n \div r
<1>1. b * r \in Nat
  BY VersionProduct
<1>2. n \in Nat /\ w \in Nat /\ n = r * w + (n % r) /\ n % r < r /\ n % r \in Nat
  BY <1>1
<1>3. ~(w >= b + 1)
  <2>1. SUFFICES ASSUME w >= b + 1 PROVE FALSE
    OBVIOUS
  <2>2. (b + 1) * r <= w * r /\ (b + 1) * r = b * r + r
    BY <1>2, <2>1, Monotone, VersionProduct
  <2> QED BY <1>1, <1>2, <2>2
<1>4. ~(b >= w + 1)
  <2>1. SUFFICES ASSUME b >= w + 1 PROVE FALSE
    OBVIOUS
  <2>2. (w + 1) * r <= b * r /\ (w + 1) * r = w * r + r /\ w * r \in Nat
    BY <1>2, <2>1, Monotone, VersionProduct
  <2> QED BY <1>1, <1>2, <2>2
<1> HIDE DEF w
<1> QED BY <1>2, <1>3, <1>4 DEF w

\* Arithmetic of batches and versions.
LEMMA VersionQuotient ==
  ASSUME NEW t \in Nat, NEW k \in Nat, k >= 1, NEW l \in Nat, l >= 1, l <= k
  PROVE  (t * k + l - 1) \div k = t
<1>1. t * k \in Nat
  BY VersionProduct
<1>2. l - 1 \in Nat /\ l - 1 < k /\ t * k + l - 1 \in Int /\ t * k + l - 1 = (l - 1) + t * k
  BY <1>1
<1> QED BY <1>2, QuotientOf

\* The pipeline starts as SampleFlow does.
LEMMA FlowInit == Init => Flow!FInit
<1> SUFFICES ASSUME Init PROVE Flow!FInit
  OBVIOUS
<1>1. InHand = {} /\ Members(<< >>) = {}
  BY Constants, EmptySeq DEF Init, InHand, Nothing, Samples, Members
<1>2. UnderWay = {}
  BY <1>1 DEF Init, UnderWay, Queued
<1>3. taken # End /\ taken = 0
  BY Constants DEF Init
<1> QED BY <1>2, <1>3 DEF Init, Flow!FInit

\* tversion changes with the batches only.
LEMMA VersionOfBatches ==
  ASSUME [Next]_vars, ~TrainStep
  PROVE  tversion' = tversion
BY WhoVersions DEF trainVars, TrainerStep, GetSample, CallPause, CallUpdate, TrainerStops,
   SyncStep, PauseCalled, PauseCancels, PauseGathered, UpdateCounts, UpdateSets,
   ResumeCalled, ResumeCleared, Enqueue

\* Every step of the pipeline is a step of SampleFlow or a stutter.
LEMMA FlowStep ==
  ASSUME TypedHand, TypedHand', Freshness, Places, VersionCount', [Next]_vars
  PROVE  [Flow!FNext]_(Flow!fvars)
<1> USE DEF Places
<1>1. CASE /\ TakenSamples' = TakenSamples /\ UnderWay' = UnderWay /\ losses' = losses
           /\ UNCHANGED <<batch, batches>>
  <2>1. ~TrainStep
    <3>1. batches \in Nat
      BY DEF TypedHand, TypeOK, TrainOK
    <3> QED BY <1>1, <3>1 DEF TrainStep
  <2>2. tversion' = tversion
    BY <2>1, VersionOfBatches
  <2> QED BY <1>1, <2>2 DEF Flow!fvars, TakenSamples
<1>2. CASE /\ TakePending /\ taken < Total /\ TakenSamples = taken /\ TakenSamples' = taken + 1
           /\ UnderWay' = UnderWay \cup {taken + 1} /\ losses' = losses
           /\ UNCHANGED <<batch, batches>>
  <2>1. ~TrainStep
    <3>1. batches \in Nat
      BY DEF TypedHand, TypeOK, TrainOK
    <3> QED BY <1>2, <3>1 DEF TrainStep
  <2>2. tversion' = tversion
    BY <2>1, VersionOfBatches
  <2>3. Cardinality(UnderWay) < MaxRequired + 1
    <3>1. Cardinality(UnderWay) <= CountUnderWay /\ CountUnderWay <= MaxRequired
      BY <1>2, UnderWayCounted, RoomToTake DEF TypedHand
    <3>2. Cardinality(UnderWay) \in Nat /\ CountUnderWay \in Nat /\ MaxRequired \in Nat
      BY UnderWayCounted, UnderWaySum, Constants DEF TypedHand
    <3> QED BY <3>1, <3>2
  <2>4. Flow!Take
    BY <1>2, <2>2, <2>3, FlowCardinality DEF Flow!Take, TakenSamples
  <2> QED BY <2>4 DEF Flow!FNext
<1>3. CASE \E x \in UnderWay :
            /\ UnderWay' = UnderWay \ {x} /\ losses' = losses + 1 /\ TakenSamples' = TakenSamples
            /\ UNCHANGED <<batch, batches>>
  <2>1. ~TrainStep
    <3>1. batches \in Nat
      BY DEF TypedHand, TypeOK, TrainOK
    <3> QED BY <1>3, <3>1 DEF TrainStep
  <2>2. tversion' = tversion
    BY <2>1, VersionOfBatches
  <2>3. Flow!Lose
    BY <1>3, <2>2 DEF Flow!Lose, TakenSamples
  <2> QED BY <2>3 DEF Flow!FNext
<1>4. CASE \E x \in UnderWay :
            /\ GetSample /\ UnderWay' = UnderWay \ {x} /\ batch' = batch \cup {x}
            /\ TakenSamples' = TakenSamples /\ losses' = losses /\ batches' = batches
  <2>1. tversion' = tversion
    BY <1>4 DEF GetSample
  <2>2. Cardinality(batch) < Required
    BY <1>4 DEF GetSample, FullBatch
  <2>3. Flow!Deliver
    BY <1>4, <2>1, <2>2, FlowCardinality DEF Flow!Deliver, TakenSamples
  <2> QED BY <2>3 DEF Flow!FNext
<1>5. CASE /\ TrainStep /\ TakenSamples' = TakenSamples /\ UnderWay' = UnderWay /\ losses' = losses
  <2>1. batch' = {} /\ batches' = batches + 1 /\ Cardinality(batch) = Required
    BY <1>5 DEF TrainStep, FullBatch
  <2>2. tversion' = batches' \div Trigger
    <3>1. /\ tversion' \in Nat /\ Trigger \in Nat /\ Trigger >= 1 /\ localStep' \in Nat
          /\ localStep' >= 1 /\ localStep' <= Trigger
      BY Constants DEF TypedHand, TypeOK, TrainOK
    <3>2. batches' = tversion' * Trigger + localStep' - 1
      BY DEF VersionCount
    <3> QED BY <3>1, <3>2, VersionQuotient
  <2>3. Flow!Train
    BY <1>5, <2>1, <2>2, FlowCardinality DEF Flow!Train, TakenSamples
  <2> QED BY <2>3 DEF Flow!FNext
<1> QED BY <1>1, <1>2, <1>3, <1>4, <1>5, FlowMoves

\* The Rollouter, the MessageQueue and the Trainer together implement SampleFlow:
\* samples leave the dataset in order, at most max_required_samples + 1 are under way,
\* the trainer gets each at most once, trains on full batches only, and its version is
\* the number of batches divided by trigger_parameter_sync_step.
THEOREM SampleFlowImplemented == Spec => ImplementsSampleFlow
<1> DEFINE Inv == TypedHand /\ Freshness /\ Places /\ Lagging
<1>1. Init => Inv
  BY TypeInit, FreshnessInit, PlacesInit, LaggingInit
<1>2. Inv /\ [Next]_vars => Inv'
  BY TypeStep, FreshnessStep, PlacesStep, LaggingStep
<1>3. Inv /\ Inv' /\ [Next]_vars => [Flow!FNext]_(Flow!fvars)
  BY FlowStep DEF Lagging
<1> HIDE DEF Inv
<1> QED BY <1>1, <1>2, <1>3, FlowInit, PTL DEF Spec, ImplementsSampleFlow, Flow!FlowSpec

-------------------------------------------------------------------------------
(* Synchronous training.                                                      *)

\* The version whose samples may be taken next; while update_param_version awaits the
\* queue size its samples are not taken yet.
NextEpoch == IF sync = "size" THEN rversion ELSE rversion + 1

\* With room for one version's samples only, no more are taken than the epoch allows.
EpochTaken ==
    /\ TakenSamples <= NextEpoch * MaxRequired
    /\ main = "waiting" => TakenSamples + MaxRequired <= NextEpoch * MaxRequired + staleness
    /\ proc = "get" => staleness < MaxRequired

\* What is put, queued or collected has the Rollouter's version.
EpochVersions == \A s \in putting \cup Queued \cup batch : version[s] = rversion

\* Between pause() and the new version no task is left, and nothing is counted.
EpochCounts ==
    /\ sync \in {"paused", "updateLock"} => ended = 0
    /\ sync = "size" => counted = 0

\* The invariant of synchronous training.
InEpoch == MaxRequired = SamplesPerVersion => EpochTaken /\ EpochVersions /\ EpochCounts

\* Arithmetic: everything taken has been trained on.
LEMMA NothingLeft ==
  ASSUME NEW c \in Nat, NEW b \in Nat, NEW d \in Nat, NEW f \in Nat, NEW k \in Nat, NEW t \in Nat, NEW r \in Nat,
         k = c + (b + r) + d + f, k <= t, t <= b
  PROVE  c = 0
OBVIOUS

\* When the trainer's version reaches the next epoch, nothing is alive.
LEMMA EpochOver ==
  ASSUME TypeOK, VersionCount, Counted, MaxRequired = SamplesPerVersion, EpochTaken, tversion >= NextEpoch
  PROVE  Alive = {}
<1> DEFINE b == tversion * SamplesPerVersion
           r == (localStep - 1) * Required
           t == NextEpoch * SamplesPerVersion
<1>1. /\ tversion \in Nat /\ Trigger \in Nat /\ Required \in Nat /\ localStep \in Nat
      /\ localStep >= 1 /\ localStep <= Trigger /\ SamplesPerVersion \in Nat /\ NextEpoch \in Nat
  BY Constants, SamplesPerVersionType DEF TypeOK, TrainOK, NextEpoch, CtrlOK
<1>2. batches * Required = b + r /\ r \in Nat
  BY <1>1, BatchesProduct DEF SamplesPerVersion, VersionCount
<1>3. b \in Nat /\ t \in Nat /\ t <= b
  BY <1>1, VersionProduct, Monotone
<1>4. TakenSamples <= t
  BY DEF EpochTaken
<1>5. IsFiniteSet(Alive) /\ Cardinality(Alive) \in Nat
  BY AliveFinite
<1>6. dropped \in Nat /\ failures \in Nat /\ TakenSamples \in Nat
  BY Constants DEF TypeOK, QueueOK, TaskOK, FeedOK, TakenSamples
<1>7. TakenSamples = Cardinality(Alive) + (b + r) + dropped + failures
  BY <1>2 DEF Counted
<1> HIDE DEF b, r, t
<1>8. Cardinality(Alive) = 0
  BY <1>2, <1>3, <1>4, <1>5, <1>6, <1>7, NothingLeft
<1> QED BY <1>5, <1>8, FS_EmptySet

\* Who changes the epoch, the locals of update_param_version and finished tasks.
LEMMA WhoEpochs ==
  ASSUME [Next]_vars
  PROVE  /\ UpdateCounts \/ rversion' = rversion
         /\ UpdateCounts \/ UpdateSets \/ counted' = counted
         /\ sync' = "size" => UpdateCounts \/ sync = "size"
         /\ sync' \in {"paused", "updateLock"} => \/ PauseGathered \/ PauseCalled
                                                  \/ sync \in {"paused", "updateLock"}
         /\ sync = "size" => sync' = "size" \/ UpdateSets
<1>1. CASE SyncStep
  BY <1>1 DEF SyncStep, PauseCalled, PauseCancels, PauseGathered, UpdateCounts, UpdateSets,
     ResumeCalled, ResumeCleared, Resumed, Enqueue, ctrlVars, loopVars
<1>2. CASE TrainerStep
  BY <1>2, Elsewhere DEF TrainerStep, GetSample, TrainStep, CallPause, CallUpdate, TrainerStops, Trainer, ctrlVars
<1>3. CASE ~SyncStep /\ ~TrainerStep
  BY <1>3 DEF Next, ProcessorStep, CheckPause, SelfPause, DrainTest, DrainLocked, DrainWaited,
     IdleLocked, TakeCancelled, AwaitPending, TakePending, StartTask, Enqueue, Processor, Feed,
     SendSentinel, MonitorStep, MonitorWakes, MonitorResumes, TaskStep, Generated, Put,
     Interrupted, GenerationRaises, Task, vars, loopVars, ctrlVars
<1> QED BY <1>1, <1>2, <1>3

\* While a synchronisation holds the next version back nothing of the epoch is left.
LEMMA EpochEmpty ==
  ASSUME TypeOK, Versions, VersionCount, Counted, MaxRequired = SamplesPerVersion, EpochTaken,
         sync \in {"paused", "updateLock", "size"}
  PROVE  Alive = {}
<1>1. tversion \in Nat /\ synced \in Nat /\ rversion \in Nat
  BY DEF TypeOK, TrainOK, CtrlOK
<1>2. tversion >= synced
  BY <1>1 DEF Versions
<1>3. synced >= NextEpoch
  BY <1>1 DEF Versions, NextEpoch
<1>4. tversion >= NextEpoch
  BY <1>1, <1>2, <1>3 DEF NextEpoch
<1> QED BY <1>4, EpochOver

\* Nothing is alive, so no task ends and nothing is counted.
LEMMA EpochCountsStep ==
  ASSUME TypedHand, Places, Versions, VersionCount, MaxRequired = SamplesPerVersion, EpochTaken,
         EpochCounts, [Next]_vars
  PROVE  EpochCounts'
<1>1. sync' \in {"paused", "updateLock"} => ended' = 0
  <2> SUFFICES ASSUME sync' \in {"paused", "updateLock"} PROVE ended' = 0
    OBVIOUS
  <2>1. CASE PauseGathered
    BY <2>1 DEF PauseGathered
  <2>2. CASE PauseCalled
    <3>1. ~Partial /\ ActiveCount = 0 /\ UNCHANGED taskVars
      BY <2>2 DEF PauseCalled
    <3> QED BY <3>1, Idle DEF TypedHand, taskVars
  <2>3. CASE sync \in {"paused", "updateLock"}
    <3>1. ended = 0 /\ Alive = {}
      BY <2>3, EpochEmpty DEF EpochCounts, TypedHand, Places
    <3>2. generating = {} /\ putting = {}
      BY <3>1 DEF Alive, UnderWay
    <3>3. ~(\E s \in Samples : TaskStep(s))
      BY <3>2 DEF TaskStep, Generated, Put, Interrupted, GenerationRaises
    <3>4. Starts => ended' = ended
      BY DEF Starts, StartTask
    <3> QED BY <3>1, <3>3, <3>4, WhoTasks DEF DrainWaited, PauseGathered
  <2> QED BY <2>1, <2>2, <2>3, WhoEpochs
<1>2. sync' = "size" => counted' = 0
  <2>1. CASE UpdateCounts
    <3>1. sync = "updateLock" /\ counted' = ActiveCount + Len(cancelQueue)
      BY <2>1 DEF UpdateCounts
    <3>2. Alive = {} /\ ended = 0
      BY <3>1, EpochEmpty DEF EpochCounts, TypedHand, Places
    <3>3. generating = {} /\ putting = {} /\ Members(cancelQueue) = {}
      BY <3>2 DEF Alive, UnderWay
    <3>4. Len(cancelQueue) = 0
      BY <3>3, MembersCount, FS_EmptySet DEF Places, Apart, TypedHand, TypeOK, TaskOK
    <3>5. ActiveCount = 0
      BY <3>2, <3>3, FS_EmptySet DEF ActiveCount
    <3> QED BY <3>1, <3>4, <3>5
  <2>2. CASE sync' = "size" /\ ~UpdateCounts
    <3>1. sync = "size" /\ ~UpdateSets
      BY <2>2, WhoEpochs DEF UpdateSets
    <3> QED BY <2>2, <3>1, WhoEpochs DEF EpochCounts
  <2> QED BY <2>1, <2>2
<1> QED BY <1>1, <1>2 DEF EpochCounts

\* Arithmetic of a sample that is taken below the limit.
LEMMA TakenGrows ==
  ASSUME NEW t \in Nat, NEW u \in Nat, NEW m \in Nat, NEW n \in Nat, NEW s \in Nat, NEW r \in Nat,
         t + m <= n + s, s < m, u <= t + 1, r = s + 1
  PROVE  u <= n /\ u + m <= n + r
OBVIOUS

\* A sample is taken only while staleness_samples is below the limit, and the count
\* starts again when nothing is left.
LEMMA EpochTakenStep ==
  ASSUME TypedHand, Places, Freshness, Versions, VersionCount, MaxRequired = SamplesPerVersion,
         EpochTaken, EpochCounts, [Next]_vars
  PROVE  EpochTaken'
<1> DEFINE e == NextEpoch * MaxRequired
<1>1. /\ rversion \in Nat /\ synced \in Nat /\ staleness \in Nat /\ NextEpoch \in Nat
      /\ MaxRequired \in Nat /\ MaxRequired >= 1 /\ e \in Nat /\ TakenSamples \in Nat
      /\ counted \in Nat
  <2>1. /\ rversion \in Nat /\ synced \in Nat /\ staleness \in Nat /\ MaxRequired \in Nat /\ MaxRequired >= 1
        /\ TakenSamples \in Nat /\ counted \in Nat
    BY Constants DEF TypedHand, TypeOK, CtrlOK, TrainOK, LoopOK, FeedOK, TakenSamples
  <2>2. NextEpoch \in Nat
    BY <2>1 DEF NextEpoch
  <2> QED BY <2>1, <2>2, VersionProduct
<1>2. main' = "waiting" => main = "waiting"
  BY StalenessChanges DEF TypedHand
<1>3. proc' = "get" => proc = "get" \/ AwaitPending
  BY StalenessChanges DEF TypedHand
<1>4. AwaitPending => staleness < MaxRequired
  BY DEF AwaitPending, Freshness, TestStillHolds
<1>5. TakenSamples' = TakenSamples \/ TakePending
  BY FlowMoves DEF Places
<1>6. CASE TakePending
  <2>1. staleness < MaxRequired /\ main = "waiting"
    <3>1. proc \in {"take", "get"}
      BY <1>6 DEF TakePending
    <3> QED BY <3>1 DEF EpochTaken, Freshness, TestStillHolds, Places, EndOfQueue, TypedHand, TypeOK, LoopOK
  <2>2. /\ staleness' = staleness + 1 /\ proc' = "drain" /\ main' = main
        /\ rversion' = rversion /\ sync' = sync /\ taken' = taken + 1
    BY <1>6 DEF TakePending, Processor, loopVars
  <2>3. NextEpoch' = NextEpoch
    BY <2>2 DEF NextEpoch
  <2>4. TakenSamples' \in Nat /\ TakenSamples' <= TakenSamples + 1
    <3>1. taken \in Nat /\ End = Total + 1 /\ Total \in Nat /\ taken < fed /\ fed \in Nat /\ fed <= End
      BY <1>6, Constants DEF TakePending, TypedHand, TypeOK, FeedOK
    <3> QED BY <2>2, <3>1 DEF TakenSamples
  <2>5. TakenSamples + MaxRequired <= e + staleness
    BY <2>1 DEF EpochTaken
  <2>6. staleness' \in Nat
    BY <1>1, <2>2
  <2> HIDE DEF e
  <2>7. TakenSamples' <= e /\ TakenSamples' + MaxRequired <= e + staleness'
    <3>1. /\ TakenSamples \in Nat /\ TakenSamples' \in Nat /\ MaxRequired \in Nat
          /\ e \in Nat /\ staleness \in Nat /\ staleness' \in Nat
      BY <1>1, <2>4, <2>6
    <3>2. staleness < MaxRequired
      BY <2>1
    <3>3. staleness' = staleness + 1
      BY <2>2
    <3>4. TakenSamples' <= TakenSamples + 1
      BY <2>4
    <3> QED BY <3>1, <3>2, <3>3, <3>4, <2>5, TakenGrows
  <2> QED BY <2>2, <2>3, <2>7 DEF EpochTaken, e
<1>7. CASE UpdateSets
  <2>1. /\ sync = "size" /\ sync' = "resumeLock" /\ rversion' = rversion
        /\ staleness' = counted + Len(queue) /\ UNCHANGED <<taken, proc>> /\ queue' = queue
        /\ main' = main
    BY <1>7 DEF UpdateSets, feedVars, procVars, queueVars
  <2>2. staleness' = Len(queue) /\ Len(queue) \in Nat
    BY <2>1, LenProperties DEF EpochCounts, TypedHand, TypeOK, QueueOK
  <2>3. NextEpoch = rversion /\ NextEpoch' = rversion + 1 /\ TakenSamples' = TakenSamples
    BY <2>1 DEF NextEpoch, TakenSamples
  <2>4. NextEpoch' * MaxRequired = e + MaxRequired
    BY <1>1, <2>3, VersionProduct
  <2>5. TakenSamples <= e
    BY DEF EpochTaken
  <2>6. proc' = "get" => staleness' < MaxRequired
    <3> SUFFICES ASSUME proc = "get" PROVE Len(queue) < MaxRequired
      BY <2>1, <2>2
    <3>1. main = "waiting"
      BY DEF Places, EndOfQueue, TypedHand, TypeOK, LoopOK
    <3>2. Alive = {}
      BY <2>1, EpochEmpty DEF TypedHand, Places
    <3>3. Members(queue) = {}
      BY <3>1, <3>2 DEF Places, EndOfQueue, Alive, UnderWay, Queued
    <3>4. Len(queue) = 0
      BY <3>3, MembersCount, FS_EmptySet DEF Places, Apart, TypedHand, TypeOK, QueueOK
    <3> QED BY <1>1, <3>4
  <2> HIDE DEF e
  <2>7. TakenSamples' <= e + MaxRequired /\ TakenSamples' + MaxRequired <= e + MaxRequired + staleness'
    BY <1>1, <2>2, <2>3, <2>5
  <2> QED BY <2>4, <2>6, <2>7 DEF EpochTaken
<1>8. CASE ~TakePending /\ ~UpdateSets
  <2>1. staleness' = staleness /\ TakenSamples' = TakenSamples
    BY <1>5, <1>8, StalenessChanges DEF TypedHand
  <2>2. NextEpoch' = NextEpoch
    <3>1. CASE UpdateCounts
      <4>1. sync = "updateLock" /\ sync' = "size" /\ rversion' = synced
        BY <3>1 DEF UpdateCounts
      <4> QED BY <4>1 DEF NextEpoch, Versions
    <3>2. CASE ~UpdateCounts
      <4>1. rversion' = rversion /\ (sync' = "size" <=> sync = "size")
        BY <1>8, <3>2, WhoEpochs
      <4> QED BY <4>1 DEF NextEpoch
    <3> QED BY <3>1, <3>2
  <2>3. proc' = "get" => staleness' < MaxRequired
    BY <1>3, <1>4, <2>1 DEF EpochTaken
  <2> QED BY <1>2, <2>1, <2>2, <2>3 DEF EpochTaken
<1> QED BY <1>6, <1>7, <1>8

\* The version grows only when nothing that carries it is left.
LEMMA EpochVersionsStep ==
  ASSUME TypedHand, Places, Versions, VersionCount, MaxRequired = SamplesPerVersion,
         EpochTaken, EpochVersions, [Next]_vars
  PROVE  EpochVersions'
<1> SUFFICES ASSUME NEW s \in putting' \cup Queued' \cup batch' PROVE version'[s] = rversion'
  BY DEF EpochVersions
<1>1. CASE UpdateCounts
  <2>1. sync = "updateLock" /\ UNCHANGED <<putting, queue, batch>>
    BY <1>1 DEF UpdateCounts, taskVars, queueVars, trainVars
  <2>2. Alive = {}
    BY <2>1, EpochEmpty DEF TypedHand, Places
  <2>3. putting = {} /\ Queued = {} /\ batch = {}
    BY <2>2 DEF Alive, UnderWay
  <2>4. Queued' = Queued
    BY <2>1 DEF Queued
  <2> QED BY <2>1, <2>3, <2>4
<1>2. CASE ~UpdateCounts
  <2>1. rversion' = rversion
    BY <1>2, WhoEpochs
  <2>2. CASE \E r \in Samples : Generated(r)
    <3>1. PICK r \in Samples : Generated(r)
      BY <2>2
    <3>2. /\ r \in generating /\ version' = [version EXCEPT ![r] = rversion]
          /\ putting' = putting \cup {r} /\ queue' = queue /\ batch' = batch
      BY <3>1 DEF Generated, Task, queueVars, trainVars
    <3>3. Queued' = Queued /\ version \in [Samples -> Nat]
      BY <3>2 DEF Queued, TypedHand, TypeOK, TaskOK
    <3>4. CASE s = r
      BY <2>1, <3>2, <3>3, <3>4
    <3>5. CASE s # r
      <4>1. s \in putting \cup Queued \cup batch
        BY <3>2, <3>3, <3>5
      <4>2. s \in Samples
        BY <4>1, AliveFinite DEF TypedHand, TypeOK, TaskOK
      <4>3. version'[s] = version[s]
        BY <3>2, <3>3, <3>5, <4>2
      <4> QED BY <2>1, <4>1, <4>3 DEF EpochVersions
    <3> QED BY <3>4, <3>5
  <2>3. CASE ~(\E r \in Samples : Generated(r))
    <3>0. version' = version /\ putting' \subseteq putting
      <4>2. \A x \in putting' : x \in putting
        <5>1. putting' \subseteq Samples
          BY TypeStep DEF TypedHand, TypeOK, TaskOK
        <5> QED BY <2>3, <5>1, WhoPuts
      <4> QED BY <2>3, <4>2, WhoPuts
    <3>1. s \in putting \cup Queued \cup batch
      <4>2. Queued' \subseteq Queued \cup putting
        <5>1. CASE UNCHANGED queue
          BY <5>1 DEF Queued
        <5>2. CASE GetSample
          <6>1. Members(queue') \subseteq Members(queue)
            BY <5>2, MembersTail DEF GetSample, TypedHand, TypeOK, QueueOK
          <6> QED BY <6>1 DEF Queued
        <5>3. CASE \E r \in Samples : Put(r)
          <6>1. PICK r \in Samples : Put(r)
            BY <5>3
          <6>2. r \in putting /\ PutSample(r) /\ r \in 1 .. End /\ MaxRequired >= 1
            BY <6>1, Constants DEF Put, Samples
          <6>3. Members(queue') \subseteq Members(queue) \cup {r}
            BY <6>2, PutMembers DEF TypedHand, Places, Apart
          <6> QED BY <6>2, <6>3 DEF Queued
        <5>4. CASE SendSentinel
          <6>1. PutSample(End) /\ End \in 1 .. End
            BY <5>4, Constants DEF SendSentinel
          <6>2. Members(queue') \subseteq Members(queue) \cup {End}
            BY <6>1, PutMembers DEF TypedHand, Places, Apart
          <6> QED BY <6>2 DEF Queued
        <5> QED BY <5>1, <5>2, <5>3, <5>4, WhoQueue
      <4>3. batch' \subseteq batch \cup Queued
        <5>1. CASE GetSample
          <6>1. Head(queue) \in Members(queue)
            BY <5>1, MembersTail DEF GetSample, TypedHand, TypeOK, QueueOK
          <6> QED BY <5>1, <6>1 DEF GetSample, Queued
        <5>2. CASE TrainStep
          BY <5>2 DEF TrainStep
        <5> QED BY <5>1, <5>2, WhoTrains DEF TypedHand
      <4> QED BY <3>0, <4>2, <4>3
    <3> QED BY <2>1, <3>0, <3>1 DEF EpochVersions
  <2> QED BY <2>2, <2>3
<1> QED BY <1>1, <1>2

\* The first epoch starts with nothing taken.
LEMMA InEpochInit == Init => InEpoch
<1> SUFFICES ASSUME Init PROVE InEpoch
  OBVIOUS
<1>1. /\ putting = {} /\ queue = << >> /\ batch = {} /\ sync = "none" /\ rversion = 0
      /\ taken = 0 /\ staleness = 0 /\ proc = "top"
  BY DEF Init
<1>2. Queued = {}
  BY <1>1, EmptySeq DEF Queued, Members
<1>3. NextEpoch = 1 /\ TakenSamples = 0
  BY <1>1, Constants DEF NextEpoch, TakenSamples
<1>4. 1 * MaxRequired = MaxRequired /\ MaxRequired \in Nat
  BY Constants
<1>5. EpochTaken
  BY <1>1, <1>3, <1>4 DEF EpochTaken
<1> QED BY <1>1, <1>2, <1>5 DEF InEpoch, EpochVersions, EpochCounts

\* Every step keeps to its epoch.
LEMMA InEpochStep ==
  TypedHand /\ Places /\ Freshness /\ Lagging /\ InEpoch /\ [Next]_vars => InEpoch'
<1> SUFFICES ASSUME TypedHand, Places, Freshness, Lagging, InEpoch, [Next]_vars,
                    MaxRequired = SamplesPerVersion
             PROVE  (EpochTaken /\ EpochVersions /\ EpochCounts)'
  BY DEF InEpoch
<1>1. EpochTaken /\ EpochVersions /\ EpochCounts
  BY DEF InEpoch
<1> QED BY <1>1, EpochTakenStep, EpochVersionsStep, EpochCountsStep DEF Lagging

\* A sample collected within its epoch has the trainer's version.
LEMMA EpochFresh ==
  ASSUME TypedHand, Places, Lagging, InEpoch
  PROVE  SynchronousAtZero
<1> SUFFICES ASSUME MaxRequired = SamplesPerVersion, NEW s \in batch PROVE version[s] = tversion
  BY DEF SynchronousAtZero
<1>1. EpochTaken /\ version[s] = rversion
  BY DEF InEpoch, EpochVersions
<1>2. Alive # {}
  BY DEF Alive
<1>3. ~(tversion >= NextEpoch)
  BY <1>1, <1>2, EpochOver DEF TypedHand, Places, Lagging
<1>4. tversion \in Nat /\ synced \in Nat /\ rversion \in Nat
  BY DEF TypedHand, TypeOK, TrainOK, CtrlOK
<1>5. tversion >= synced /\ synced >= rversion
  BY <1>4 DEF Lagging, Versions
<1>6. NextEpoch <= rversion + 1 /\ NextEpoch \in Nat
  BY <1>4 DEF NextEpoch
<1>7. tversion = rversion
  BY <1>3, <1>4, <1>5, <1>6
<1> QED BY <1>1, <1>7

\* README.md: staleness_threshold = 0. When max_required_samples is what one version
\* needs, the trainer only gets samples generated with its current version, whatever
\* the interleaving of the monitor, pause(), update_param_version and resume().
THEOREM SynchronousTraining == Spec => []SynchronousAtZero
<1> DEFINE Inv == TypedHand /\ Places /\ Freshness /\ Lagging /\ InEpoch
<1>1. Init => Inv
  BY TypeInit, PlacesInit, FreshnessInit, LaggingInit, InEpochInit
<1>2. Inv /\ [Next]_vars => Inv'
  BY TypeStep, PlacesStep, FreshnessStep, LaggingStep, InEpochStep
<1>3. Inv => SynchronousAtZero
  BY EpochFresh
<1> HIDE DEF Inv
<1> QED BY <1>1, <1>2, <1>3, PTL DEF Spec

-------------------------------------------------------------------------------
(* The processor's first burst.                                               *)

\* Nothing has happened but the processor's first burst: the synchronisation, the
\* monitor, the trainer and the tasks have found nothing to do.
Untouched ==
    /\ lock = Free /\ sync = "none" /\ trainer = "collect" /\ main = "waiting"
    /\ queue = << >> /\ cancelQueue = << >> /\ putting = {} /\ ended = 0
    /\ fed = 0 \/ fed >= PendingCap \/ fed = End

\* Before the first sample is taken.
BeforeFirst == /\ proc \in {"top", "take", "get"} /\ taken = 0 /\ generating = {}
               /\ ~paused /\ staleness = 0

\* With a task for every sample taken, testing whether to go on.
TestsBurst == /\ proc \in {"top", "take", "pauseLock"} /\ ~paused
              /\ Cardinality(generating) = taken /\ taken < End

\* Full, about to wait for all tasks.
PausesBurst == /\ proc \in {"drain", "drainLock"} /\ why = "pause"
               /\ Cardinality(generating) = taken

\* At the end signal, about to wait for all tasks.
EndsBurst == /\ proc \in {"drain", "drainLock"} /\ why = "end" /\ ~paused
             /\ Cardinality(generating) >= 1

\* With a sample in its hand, about to wait for room.
StartsBurst == /\ proc \in {"drain", "drainLock", "startLock"} /\ why = "limit" /\ ~paused
               /\ Cardinality(generating) = taken - 1 /\ taken < End
               /\ proc = "drainLock" => taken > 1

\* The processor's first burst: it does not suspend once the first sample is taken.
FirstBurst ==
    /\ Untouched
    /\ \/ BeforeFirst
       \/ busy /\ taken >= 1 /\ (TestsBurst \/ PausesBurst \/ EndsBurst \/ StartsBurst)

\* Nobody but the processor moves in the burst.
LEMMA BurstAlone ==
  ASSUME TypedHand, FirstBurst, [Next]_vars, ~ProcessorStep
  PROVE  FirstBurst'
<1>1. CASE Feed
  <2>1. /\ ~busy /\ fed' = (IF taken + PendingCap < End THEN taken + PendingCap ELSE End)
        /\ UNCHANGED <<taken, procVars, taskVars, lockVars, ctrlVars, loopVars, queueVars, trainVars>>
    BY <1>1 DEF Feed
  <2>2. BeforeFirst /\ BeforeFirst'
    BY <2>1 DEF FirstBurst, BeforeFirst, procVars, taskVars, ctrlVars
  <2>3. fed' >= PendingCap \/ fed' = End
    BY <2>1, <2>2, FullyAsyncAssumption DEF BeforeFirst
  <2>4. Untouched'
    BY <2>1, <2>3 DEF FirstBurst, Untouched, lockVars, loopVars, queueVars, trainVars, taskVars
  <2> QED BY <2>2, <2>4 DEF FirstBurst
<1>2. CASE MonitorStep
  <2>1. ~busy /\ lock = Free
    BY <1>2 DEF MonitorStep, MonitorWakes, MonitorResumes, Enqueue, FirstBurst, Untouched
  <2>2. BeforeFirst
    BY <2>1 DEF FirstBurst
  <2>3. ~Enqueue("monitor")
    BY <2>1 DEF Enqueue, CanLock
  <2>4. CASE MonitorWakes
    BY <2>2, <2>4 DEF MonitorWakes, FirstBurst, BeforeFirst, Untouched, feedVars, procVars, taskVars,
       lockVars, ctrlVars, queueVars, trainVars
  <2>5. CASE MonitorResumes
    <3>1. lock' = lock
      BY <2>1, <2>5 DEF MonitorResumes, PassesThrough, lockVars, Free
    <3>2. proc' = proc /\ paused' = FALSE
      BY <2>2, <2>5 DEF MonitorResumes, Notified, BeforeFirst
    <3> QED BY <2>2, <2>5, <3>1, <3>2 DEF MonitorResumes, FirstBurst, BeforeFirst, Untouched, feedVars,
            taskVars, queueVars, trainVars
  <2> QED BY <1>2, <2>3, <2>4, <2>5 DEF MonitorStep
<1>3. ~SyncStep
  BY DEF SyncStep, PauseCalled, PauseCancels, PauseGathered, UpdateCounts, UpdateSets, ResumeCalled,
     ResumeCleared, Enqueue, WantsLock, FirstBurst, Untouched
<1>4. ~TrainerStep
  BY DEF TrainerStep, GetSample, TrainStep, CallPause, CallUpdate, TrainerStops, FirstBurst, Untouched
<1>5. ~SendSentinel
  BY DEF SendSentinel, FirstBurst, BeforeFirst, TestsBurst, PausesBurst, EndsBurst, StartsBurst
<1>6. ~(\E s \in Samples : TaskStep(s))
  <2>1. SUFFICES ASSUME NEW s \in Samples, TaskStep(s) PROVE FALSE
    OBVIOUS
  <2>2. ~busy
    BY <2>1 DEF TaskStep, Generated, Put, Interrupted, GenerationRaises, Task
  <2>3. generating = {} /\ putting = {}
    BY <2>2 DEF FirstBurst, BeforeFirst, Untouched
  <2> QED BY <2>1, <2>3 DEF TaskStep, Generated, Put, Interrupted, GenerationRaises
<1>7. CASE UNCHANGED vars
  BY <1>7 DEF vars, FirstBurst, Untouched, BeforeFirst, TestsBurst, PausesBurst, EndsBurst, StartsBurst,
     feedVars, procVars, taskVars, lockVars, ctrlVars, loopVars, queueVars, trainVars
<1> QED BY <1>1, <1>2, <1>3, <1>4, <1>5, <1>6, <1>7 DEF Next

\* A processor that waits for tasks in the burst has one to wait for.
LEMMA BurstWaits ==
  ASSUME TypedHand, FirstBurst, proc \in {"drain", "drainLock"}
  PROVE  /\ ActiveCount = Cardinality(generating) /\ Cardinality(generating) \in Nat
         /\ proc = "drainLock" \/ why # "limit" => ActiveCount > 0
<1>1. Cardinality(generating) \in Nat /\ taken \in Nat
  BY MakingType, Constants DEF TypedHand, TypeOK, FeedOK
<1>2. ActiveCount = Cardinality(generating)
  BY <1>1, FS_EmptySet DEF FirstBurst, Untouched, ActiveCount
<1> QED BY <1>1, <1>2 DEF FirstBurst, BeforeFirst, TestsBurst, PausesBurst, EndsBurst, StartsBurst

\* A burst ends in the first wait, which assigns done_tasks: with pending_queue longer
\* than max_concurrent_samples it cannot end in waiting for a sample.
LEMMA BurstStep ==
  ASSUME TypedHand, Places, FirstBurst, PendingCap > MaxConcurrent, [Next]_vars, ~bound'
  PROVE  proc' = "drainWait" \/ FirstBurst'
<1>1. CASE ~ProcessorStep
  BY <1>1, BurstAlone
<1>2. CASE ProcessorStep
  <2>1. /\ taken \in Nat /\ fed \in Nat /\ fed <= End /\ End = Total + 1 /\ Total \in Nat /\ Total >= 1
        /\ Cardinality(generating) \in Nat /\ IsFiniteSet(generating) /\ MaxRequired \in Nat /\ MaxRequired >= 1
        /\ MaxConcurrent \in Nat /\ MaxConcurrent >= 1 /\ PendingCap \in Nat
    BY MakingType, FiniteSamples, Constants, FullyAsyncAssumption DEF TypedHand, TypeOK, FeedOK, TaskOK
  <2>2. lock = Free /\ Len(queue) = 0 /\ cancelQueue = << >>
    BY EmptySeq DEF FirstBurst, Untouched
  <2>3. ~(Enqueue("proc") \/ TakeCancelled \/ DrainWaited \/ IdleLocked)
    BY <2>2 DEF Enqueue, CanLock, TakeCancelled, DrainWaited, IdleLocked, FirstBurst, BeforeFirst,
       TestsBurst, PausesBurst, EndsBurst, StartsBurst
  <2>4. DrainLocked \/ UNCHANGED <<putting, main, sync, trainer, queue, fed, lock, cancelQueue, ended>>
    BY <1>2, <2>2, <2>3 DEF ProcessorStep, CheckPause, SelfPause, DrainTest, AwaitPending, TakePending,
       StartTask, Processor, PassesThrough, Free, lockVars, loopVars, trainVars, queueVars, feedVars, ctrlVars
  <2>5. DrainLocked \/ Untouched'
    BY <2>4 DEF FirstBurst, Untouched
  <2>6. CASE CheckPause
    <3>1. UNCHANGED <<taken, generating, paused, staleness>> /\ proc = "top" /\ busy'
      BY <2>6 DEF CheckPause, Processor
    <3>2. CASE BeforeFirst
      <4>1. proc' = "take"
        BY <2>1, <2>2, <2>6, <3>2 DEF CheckPause, ShouldPause, BeforeFirst
      <4> QED BY <2>5, <2>6, <3>1, <3>2, <4>1 DEF FirstBurst, BeforeFirst, CheckPause, DrainLocked
    <3>3. CASE ~BeforeFirst
      <4>1. TestsBurst /\ taken >= 1
        BY <3>1, <3>3 DEF FirstBurst, TestsBurst, PausesBurst, EndsBurst, StartsBurst
      <4>2. proc' \in {"pauseLock", "take"}
        BY <2>6 DEF CheckPause
      <4>3. TestsBurst' /\ taken' >= 1
        BY <3>1, <4>1, <4>2 DEF TestsBurst
      <4> QED BY <2>5, <3>1, <4>3 DEF FirstBurst, DrainLocked
    <3> QED BY <3>2, <3>3
  <2>7. CASE SelfPause
    <3>1. /\ UNCHANGED <<taken, generating>> /\ proc = "pauseLock" /\ busy' /\ proc' = "drain" /\ why' = "pause"
      BY <2>7 DEF SelfPause, Processor
    <3>2. TestsBurst /\ taken >= 1
      BY <3>1 DEF FirstBurst, BeforeFirst, PausesBurst, EndsBurst, StartsBurst
    <3>3. PausesBurst' /\ taken' >= 1
      BY <3>1, <3>2 DEF PausesBurst, TestsBurst
    <3> QED BY <2>5, <3>1, <3>3 DEF FirstBurst, DrainLocked
  <2>8. CASE DrainTest
    <3>1. /\ UNCHANGED <<taken, generating, paused, why>> /\ proc = "drain" /\ ~DrainLocked
          /\ proc' = (IF MustDrain THEN "drainLock" ELSE AfterDrain) /\ busy' = (proc' # "exited")
      BY <2>8 DEF DrainTest, Processor, DrainLocked
    <3>2. taken >= 1 /\ (PausesBurst \/ EndsBurst \/ StartsBurst)
      BY <3>1 DEF FirstBurst, BeforeFirst, TestsBurst
    <3>3. ActiveCount = Cardinality(generating) /\ (why # "limit" => ActiveCount > 0)
      BY <3>1, BurstWaits
    <3>4. CASE why # "limit"
      <4>1. proc' = "drainLock"
        BY <3>1, <3>3, <3>4 DEF MustDrain
      <4>2. PausesBurst' \/ EndsBurst'
        BY <3>1, <3>2, <3>4, <4>1 DEF PausesBurst, EndsBurst, StartsBurst
      <4> QED BY <2>5, <3>1, <3>2, <4>1, <4>2 DEF FirstBurst
    <3>5. CASE why = "limit"
      <4>1. StartsBurst
        BY <3>2, <3>5 DEF PausesBurst, EndsBurst
      <4>2. \/ proc' = "startLock"
            \/ proc' = "drainLock" /\ Cardinality(generating) >= MaxConcurrent
        BY <3>1, <3>3, <3>5 DEF MustDrain, AfterDrain
      <4>3. proc' = "drainLock" => taken > 1
        BY <2>1, <4>1, <4>2 DEF StartsBurst
      <4>4. StartsBurst'
        BY <3>1, <4>1, <4>2, <4>3 DEF StartsBurst
      <4> QED BY <2>5, <3>1, <3>2, <4>2, <4>4 DEF FirstBurst
    <3> QED BY <3>4, <3>5
  <2>9. CASE DrainLocked
    <3>1. ActiveCount > 0 /\ ActiveCount \in Nat
      BY <2>9, BurstWaits DEF DrainLocked
    <3> QED BY <2>9, <3>1 DEF DrainLocked
  <2>10. CASE AwaitPending
    <3>1. UNCHANGED <<taken, generating, paused, staleness>> /\ proc = "take" /\ proc' = "get" /\ fed = taken
      BY <2>10 DEF AwaitPending, Processor
    <3>2. BeforeFirst
      <4> SUFFICES ASSUME TestsBurst, taken >= 1 PROVE FALSE
        BY <3>1 DEF FirstBurst, PausesBurst, EndsBurst, StartsBurst
      <4>1. fed >= PendingCap \/ fed = End
        BY <2>1, <3>1 DEF FirstBurst, Untouched
      <4>2. taken >= PendingCap
        BY <2>1, <3>1, <4>1 DEF TestsBurst
      <4>3. ActiveCount <= MaxConcurrent
        BY DEF Places, Concurrent
      <4>4. ActiveCount = Cardinality(generating)
        BY <2>1, FS_EmptySet DEF ActiveCount, FirstBurst, Untouched
      <4> QED BY <2>1, <4>2, <4>3, <4>4 DEF TestsBurst
    <3> QED BY <2>5, <3>1, <3>2 DEF FirstBurst, BeforeFirst, DrainLocked
  <2>11. CASE TakePending
    <3>1. /\ UNCHANGED <<generating, paused>> /\ proc \in {"take", "get"} /\ proc' = "drain" /\ busy'
          /\ taken' = taken + 1 /\ taken < fed /\ why' = (IF taken + 1 = End THEN "end" ELSE "limit")
      BY <2>11 DEF TakePending, Processor
    <3>2. taken' >= 1 /\ taken' <= End
      BY <2>1, <3>1
    <3>3. Cardinality(generating) = taken /\ ~paused
      BY <3>1, FS_EmptySet DEF FirstBurst, BeforeFirst, TestsBurst, PausesBurst, EndsBurst, StartsBurst
    <3>4. CASE taken + 1 = End
      <4>1. Cardinality(generating) >= 1
        BY <2>1, <3>3, <3>4
      <4>2. EndsBurst'
        BY <3>1, <3>3, <3>4, <4>1 DEF EndsBurst
      <4> QED BY <2>5, <3>1, <3>2, <4>2 DEF FirstBurst, DrainLocked
    <3>5. CASE taken + 1 # End
      <4>1. taken' < End /\ Cardinality(generating') = taken' - 1
        BY <2>1, <3>1, <3>2, <3>3, <3>5
      <4>2. StartsBurst'
        BY <3>1, <3>3, <3>5, <4>1 DEF StartsBurst
      <4> QED BY <2>5, <3>1, <3>2, <4>2 DEF FirstBurst, DrainLocked
    <3> QED BY <3>4, <3>5
  <2>12. CASE StartTask
    <3>1. proc = "startLock" /\ UNCHANGED <<taken, paused>>
      BY <2>12 DEF StartTask, feedVars, ctrlVars
    <3>2. StartsBurst /\ taken >= 1
      BY <3>1 DEF FirstBurst, BeforeFirst, TestsBurst, PausesBurst, EndsBurst
    <3>3. /\ proc' = "top" /\ busy' /\ generating' = generating \cup {hand}
      BY <2>12, <3>2 DEF StartTask, StartsBurst
    <3>4. hand \in Samples /\ hand \notin generating
      BY <3>1 DEF TypedHand, HandHeld, Carrying, Places, Apart, InHand
    <3>5. Cardinality(generating') = Cardinality(generating) + 1
      BY <2>1, <3>3, <3>4, FS_AddElement
    <3>6. TestsBurst' /\ taken' >= 1
      BY <2>1, <3>1, <3>2, <3>3, <3>5 DEF TestsBurst, StartsBurst
    <3> QED BY <2>5, <3>1, <3>3, <3>6 DEF FirstBurst, DrainLocked
  <2> QED BY <1>2, <2>3, <2>6, <2>7, <2>8, <2>9, <2>10, <2>11, <2>12 DEF ProcessorStep
<1> QED BY <1>1, <1>2

-------------------------------------------------------------------------------
(* Survival and the end of the run.                                           *)

\* The invariant behind ProcessorSurvives.
Survival ==
    /\ raised => failures > 0
    /\ PendingCap > MaxConcurrent /\ ~bound => proc = "drainWait" \/ proc = "failed" \/ FirstBurst
    /\ ProcessorSurvives

\* Who touches failures and the local done_tasks, and who kills the processor.
LEMMA WhoFails ==
  ASSUME TypeOK, [Next]_vars
  PROVE  /\ failures \in Nat /\ failures' \in Nat /\ failures' >= failures
         /\ raised' => raised \/ failures' > 0
         /\ bound => bound'
         /\ proc = "drainWait" => proc' = "drainWait" \/ DrainWaited
         /\ DrainWaited => bound' /\ (proc' = "failed" => raised)
         /\ DrainLocked => (proc' = "failed" => ~bound) /\ proc = "drainLock"
<1>1. failures \in Nat
  BY Constants, FullyAsyncAssumption DEF TypeOK, TaskOK
<1>2. CASE ProcessorStep
  BY <1>1, <1>2 DEF TypeOK, TaskOK, ProcOK, ProcessorStep, CheckPause, SelfPause, DrainTest, DrainLocked, DrainWaited, IdleLocked,
     TakeCancelled, AwaitPending, TakePending, StartTask, Enqueue, Processor, taskVars, WantsLock, ProcLockAt
<1>3. CASE MonitorStep \/ SyncStep
  BY <1>1, <1>3 DEF MonitorStep, MonitorWakes, MonitorResumes, SyncStep, PauseCalled, PauseCancels,
     PauseGathered, UpdateCounts, UpdateSets, ResumeCalled, ResumeCleared, Resumed, Enqueue, Notified,
     procVars, taskVars, DrainWaited, DrainLocked
<1>4. CASE Feed \/ SendSentinel \/ TrainerStep \/ UNCHANGED vars
  <2>1. UNCHANGED <<procVars, taskVars>>
    BY <1>4 DEF Feed, SendSentinel, TrainerStep, GetSample, TrainStep, CallPause, CallUpdate, TrainerStops,
       Trainer, vars
  <2> QED BY <1>1, <2>1 DEF procVars, taskVars, DrainWaited, DrainLocked
<1>5. CASE \E s \in Samples : TaskStep(s)
  <2>1. UNCHANGED procVars
    BY <1>5, Elsewhere
  <2>2. failures' \in Nat /\ failures' >= failures /\ (raised' => raised \/ failures' > 0)
    BY <1>1, <1>5 DEF TaskStep, Generated, Put, Interrupted, GenerationRaises
  <2> QED BY <1>1, <2>1, <2>2 DEF procVars, DrainWaited, DrainLocked
<1> QED BY <1>2, <1>3, <1>4, <1>5 DEF Next

\* In the burst there are tasks to wait for, after it done_tasks is assigned.
LEMMA SurvivalStep ==
  ASSUME TypedHand, Places, Survival, [Next]_vars
  PROVE  Survival'
<1>1. /\ failures \in Nat /\ failures' \in Nat /\ failures' >= failures
      /\ raised' => raised \/ failures' > 0
      /\ bound => bound'
      /\ proc = "drainWait" => proc' = "drainWait" \/ DrainWaited
      /\ DrainWaited => bound' /\ (proc' = "failed" => raised)
      /\ DrainLocked => (proc' = "failed" => ~bound) /\ proc = "drainLock"
  BY WhoFails DEF TypedHand
<1>2. raised' => failures' > 0
  BY <1>1 DEF Survival
<1>3. PendingCap > MaxConcurrent /\ ~bound' => proc' = "drainWait" \/ proc' = "failed" \/ FirstBurst'
  <2> SUFFICES ASSUME PendingCap > MaxConcurrent, ~bound'
               PROVE  proc' = "drainWait" \/ proc' = "failed" \/ FirstBurst'
    OBVIOUS
  <2>1. ~bound
    BY <1>1
  <2>2. CASE proc = "drainWait"
    BY <1>1, <2>2
  <2>3. CASE proc = "failed"
    BY <2>3, WhoProc DEF TypedHand
  <2>4. CASE FirstBurst
    BY <2>4, BurstStep
  <2> QED BY <2>1, <2>2, <2>3, <2>4 DEF Survival
<1>4. ProcessorSurvives'
  <2> SUFFICES ASSUME PendingCap > MaxConcurrent, failures' = 0, proc' = "failed" PROVE FALSE
    BY DEF ProcessorSurvives
  <2>1. failures = 0
    BY <1>1
  <2>2. proc # "failed" /\ ~raised
    BY <1>1, <2>1 DEF Survival, ProcessorSurvives
  <2>3. CASE DrainWaited
    BY <1>1, <2>2, <2>3
  <2>4. CASE DrainLocked /\ ActiveCount = 0
    <3>1. ~bound /\ proc = "drainLock"
      BY <1>1, <2>4
    <3>2. FirstBurst
      BY <2>2, <3>1 DEF Survival
    <3> QED BY <2>4, <3>1, <3>2, BurstWaits
  <2> QED BY <2>2, <2>3, <2>4, WhoProc DEF TypedHand
<1> QED BY <1>2, <1>3, <1>4 DEF Survival

\* The processor starts with its first burst.
LEMMA SurvivalInit == Init => Survival
<1> SUFFICES ASSUME Init PROVE Survival
  OBVIOUS
<1>1. Untouched
  BY DEF Init, Untouched
<1>2. BeforeFirst
  BY DEF Init, BeforeFirst
<1> QED BY <1>1, <1>2 DEF Init, Survival, FirstBurst, ProcessorSurvives

\* Once the processor has left, the signal is the last item of the queue.
ClosingSignal == proc = "exited" => \A p \in 1 .. Len(queue) : queue[p] = End => p = Len(queue)

\* The invariant behind SignalIsLast.
Closing ==
    /\ ~Partial => cancelQueue = << >> /\ ~interrupt /\ sync # "cancel"
    /\ why = "end" => taken = End
    /\ proc = "exited" => why = "end"
    /\ ClosingSignal
    /\ trainer \in {"drained", "crashed", "finished"} /\ proc = "exited" => queue = << >>

\* Without partial rollout no sample is ever cancelled.
LEMMA NoneCancelled ==
  ASSUME TypeOK, Closing, [Next]_vars, ~Partial
  PROVE  cancelQueue' = << >> /\ ~interrupt' /\ sync' # "cancel"
<1>1. cancelQueue = << >> /\ ~interrupt /\ sync # "cancel"
  BY DEF Closing
<1>2. CASE ProcessorStep
  BY <1>1, <1>2 DEF ProcessorStep, CheckPause, SelfPause, DrainTest, DrainLocked, DrainWaited, IdleLocked,
     TakeCancelled, AwaitPending, TakePending, StartTask, Enqueue, Processor, taskVars, ctrlVars, loopVars
<1>3. CASE Feed \/ SendSentinel \/ MonitorStep \/ UNCHANGED vars
  BY <1>1, <1>3 DEF Feed, SendSentinel, MonitorStep, MonitorWakes, MonitorResumes, Enqueue, vars, taskVars,
     ctrlVars, loopVars
<1>4. CASE SyncStep
  BY <1>1, <1>4 DEF SyncStep, PauseCalled, PauseCancels, PauseGathered, UpdateCounts, UpdateSets,
     ResumeCalled, ResumeCleared, Resumed, Enqueue, taskVars, ctrlVars, loopVars
<1>5. CASE TrainerStep
  BY <1>1, <1>5 DEF TrainerStep, GetSample, TrainStep, CallPause, CallUpdate, TrainerStops, Trainer,
     taskVars, ctrlVars
<1>6. CASE \E s \in Samples : TaskStep(s)
  BY <1>1, <1>6 DEF TaskStep, Generated, Put, Interrupted, GenerationRaises, Task, ctrlVars, loopVars
<1> QED BY <1>2, <1>3, <1>4, <1>5, <1>6 DEF Next

\* How the processor comes to its last wait, and to its end.
LEMMA WhoCloses ==
  ASSUME TypeOK, [Next]_vars
  PROVE  /\ why' = "end" => why = "end" \/ taken' = End
         /\ taken = End => taken' = End
         /\ proc = "exited" => why' = why
         /\ DrainTest /\ proc' = "exited" => why' = "end"
         /\ DrainTest => UNCHANGED <<queue, main, trainer>>
<1>0. taken \in Nat /\ fed \in Nat /\ fed <= End /\ End \in Nat
  BY Constants DEF TypeOK, FeedOK
<1>1. CASE ProcessorStep
  <2>1. CASE DrainTest
    BY <1>0, <2>1 DEF DrainTest, AfterDrain, Processor, TypeOK, ProcOK, queueVars, loopVars, trainVars
  <2>2. CASE TakePending
    <3>1. proc \in {"take", "get"} /\ ~DrainTest
      BY <2>2 DEF TakePending, DrainTest
    <3>2. taken # End
      <4>1. taken < fed
        BY <2>2 DEF TakePending
      <4> QED BY <1>0, <4>1
    <3>3. why' = "end" => taken' = End
      BY <2>2 DEF TakePending
    <3> QED BY <3>1, <3>2, <3>3
  <2>3. CASE ProcessorStep /\ ~DrainTest /\ ~TakePending
    BY <2>3 DEF ProcessorStep, CheckPause, SelfPause, DrainLocked, DrainWaited, IdleLocked,
       TakeCancelled, AwaitPending, StartTask, Enqueue, feedVars, WantsLock, ProcLockAt
  <2> QED BY <1>1, <2>1, <2>2, <2>3
<1>2. CASE Feed \/ SendSentinel \/ MonitorStep \/ SyncStep \/ TrainerStep
           \/ (\E s \in Samples : TaskStep(s)) \/ UNCHANGED vars
  <2>1. UNCHANGED <<taken, why>>
    BY <1>2 DEF Feed, SendSentinel, MonitorStep, MonitorWakes, MonitorResumes, SyncStep, PauseCalled,
       PauseCancels, PauseGathered, UpdateCounts, UpdateSets, ResumeCalled, ResumeCleared, Enqueue,
       TrainerStep, GetSample, TrainStep, CallPause, CallUpdate, TrainerStops, Trainer, TaskStep,
       Generated, Put, Interrupted, GenerationRaises, Task, vars, feedVars, procVars
  <2>2. CASE DrainTest
    BY <1>0, <2>2 DEF DrainTest, AfterDrain, Processor, TypeOK, ProcOK, queueVars, loopVars, trainVars
  <2> QED BY <2>1, <2>2
<1> QED BY <1>1, <1>2 DEF Next

\* The tail of a queue that ends in the signal.
LEMMA SignalTail ==
  ASSUME NEW T, NEW s \in Seq(T), s # << >>, \A p \in 1 .. Len(s) : s[p] = End => p = Len(s)
  PROVE  /\ \A p \in 1 .. Len(Tail(s)) : Tail(s)[p] = End => p = Len(Tail(s))
         /\ Head(s) = End => Tail(s) = << >>
<1> DEFINE t == Tail(s)
           n == Len(s)
<1>1. /\ n \in Nat /\ n >= 1 /\ t \in Seq(T) /\ Len(t) = n - 1 /\ Head(s) = s[1]
      /\ \A p \in 1 .. Len(t) : p + 1 \in 1 .. n /\ t[p] = s[p + 1]
  BY ItemsTail
<1>2. \A p \in 1 .. n : s[p] = End => p = n
  OBVIOUS
<1> HIDE DEF t, n
<1>3. \A p \in 1 .. Len(t) : t[p] = End => p = Len(t)
  <2> SUFFICES ASSUME NEW p \in 1 .. Len(t), t[p] = End PROVE p = Len(t)
    OBVIOUS
  <2>1. s[p + 1] = End /\ p + 1 \in 1 .. n
    BY <1>1
  <2>2. p + 1 = n
    BY <1>2, <2>1
  <2> QED BY <1>1, <2>2
<1>4. Head(s) = End => t = << >>
  <2> SUFFICES ASSUME Head(s) = End PROVE t = << >>
    OBVIOUS
  <2>1. 1 \in 1 .. n /\ s[1] = End
    BY <1>1
  <2>2. Len(t) = 0
    BY <1>1, <1>2, <2>1
  <2> QED BY <1>1, <2>2, EmptySeq
<1> QED BY <1>3, <1>4 DEF t

\* A processor that left has no tasks, so nothing is put behind the signal.
LEMMA ClosingStep ==
  ASSUME TypedHand, TypedHand', Places, Closing, [Next]_vars
  PROVE  Closing'
<1>0. queue \in Seq(1 .. End) /\ queue' \in Seq(1 .. End) /\ Len(queue) \in Nat
  BY LenProperties DEF TypedHand, TypeOK, QueueOK
<1>1. ~Partial => cancelQueue' = << >> /\ ~interrupt' /\ sync' # "cancel"
  BY NoneCancelled DEF TypedHand
<1>2. why' = "end" => taken' = End
  BY WhoCloses DEF TypedHand, Closing
<1>3. proc' = "exited" => proc = "exited" \/ DrainTest
  BY WhoProc DEF TypedHand
<1>4. proc' = "exited" => why' = "end"
  BY <1>3, WhoCloses DEF TypedHand, Closing
<1>5. CASE proc' # "exited"
  BY <1>1, <1>2, <1>4, <1>5 DEF Closing, ClosingSignal
<1>6. CASE proc # "exited" /\ proc' = "exited"
  <2>1. UNCHANGED <<queue, main, trainer>>
    BY <1>3, <1>6, WhoCloses DEF TypedHand
  <2>2. main = "waiting" /\ proc # "failed"
    BY <1>6, WhoProc DEF Places, EndOfQueue, TypedHand, TypeOK, LoopOK
  <2>3. End \notin Members(queue) /\ trainer \notin {"drained", "crashed", "finished"}
    BY <2>2 DEF Places, EndOfQueue
  <2>4. ClosingSignal'
    BY <2>1, <2>3 DEF ClosingSignal, Members
  <2> QED BY <1>1, <1>2, <1>4, <2>1, <2>3, <2>4 DEF Closing
<1>7. CASE proc = "exited" /\ proc' = "exited"
  <2>1. generating = {} /\ putting = {}
    BY <1>7 DEF Places, Concurrent
  <2>2. ~(\E s \in Samples : Put(s))
    BY <2>1 DEF Put
  <2>3. \A p \in 1 .. Len(queue) : queue[p] = End => p = Len(queue)
    BY <1>7 DEF Closing, ClosingSignal
  <2>4. CASE GetSample
    <3>1. queue # << >> /\ queue' = Tail(queue)
      BY <2>4 DEF GetSample
    <3>2. ClosingSignal' /\ (Head(queue) = End => queue' = << >>)
      <4>1. /\ \A p \in 1 .. Len(Tail(queue)) : Tail(queue)[p] = End => p = Len(Tail(queue))
            /\ Head(queue) = End => Tail(queue) = << >>
        BY <1>0, <2>3, <3>1, SignalTail
      <4> QED BY <3>1, <4>1 DEF ClosingSignal
    <3>3. trainer' \in {"drained", "crashed", "finished"} => Head(queue) = End
      BY <2>4 DEF GetSample
    <3> QED BY <1>1, <1>2, <1>4, <3>2, <3>3 DEF Closing
  <2>5. CASE SendSentinel
    <3>1. main = "waiting" /\ PutSample(End) /\ trainer' = trainer
      BY <2>5 DEF SendSentinel, trainVars
    <3>2. End \notin Members(queue) /\ trainer \notin {"drained", "crashed", "finished"}
      BY <3>1 DEF Places, EndOfQueue
    <3>3. ClosingSignal'
      <4> DEFINE rest == IF Len(queue) >= MaxRequired THEN Tail(queue) ELSE queue
      <4>1. queue' = Append(rest, End)
        BY <3>1 DEF PutSample
      <4>2. rest \in Seq(1 .. End) /\ Members(rest) \subseteq Members(queue)
        <5>1. CASE Len(queue) >= MaxRequired
          <6>1. queue # << >>
            BY <5>1, EmptySeq, Constants
          <6> QED BY <1>0, <5>1, <6>1, HeadTail, MembersTail
        <5>2. CASE ~(Len(queue) >= MaxRequired)
          BY <1>0, <5>2
        <5> QED BY <5>1, <5>2
      <4>3. End \in 1 .. End
        BY Constants
      <4> HIDE DEF rest
      <4>4. /\ Len(queue') = Len(rest) + 1 /\ Len(rest) \in Nat
            /\ \A p \in 1 .. Len(rest) : queue'[p] = rest[p]
        BY <4>1, <4>2, <4>3, AppendProperties, LenProperties
      <4>5. \A p \in 1 .. Len(rest) : rest[p] # End
        BY <3>2, <4>2 DEF Members
      <4>6. \A p \in 1 .. Len(queue') : queue'[p] = End => p = Len(queue')
        BY <4>4, <4>5
      <4> QED BY <4>6 DEF ClosingSignal
    <3> QED BY <1>1, <1>2, <1>4, <3>1, <3>2, <3>3 DEF Closing
  <2>6. CASE UNCHANGED <<queue, dropped>> /\ ~GetSample
    <3>1. ClosingSignal'
      BY <2>3, <2>6 DEF ClosingSignal
    <3>2. trainer' \in {"drained", "crashed", "finished"} => trainer \in {"drained", "crashed", "finished"}
      BY <2>6, WhoEnds DEF TypedHand
    <3> QED BY <1>1, <1>2, <1>4, <1>7, <2>6, <3>1, <3>2 DEF Closing
  <2> QED BY <2>2, <2>4, <2>5, <2>6, WhoQueue
<1> QED BY <1>5, <1>6, <1>7

\* At the start nothing is over.
LEMMA ClosingInit == Init => Closing
BY DEF Init, Closing, ClosingSignal

\* When all is over the samples are trained on, evicted, or short of a batch.
LEMMA LastSignal ==
  ASSUME TypedHand, Places, Closing
  PROVE  SignalIsLast
<1> SUFFICES ASSUME Over, ~Partial, failures = 0, proc # "failed"
             PROVE  batches = (Total - dropped) \div Required /\ UnderWay = {}
  BY DEF SignalIsLast
<1>1. proc = "exited"
  BY DEF Over, Places, EndOfQueue
<1>2. taken = End /\ queue = << >> /\ cancelQueue = << >>
  BY <1>1 DEF Closing, Over
<1>3. generating = {} /\ putting = {}
  BY <1>1 DEF Places, Concurrent
<1>4. InHand = {}
  BY <1>1 DEF Places, HandPlace, Carrying, InHand
<1>5. Members(<< >>) = {}
  BY EmptySeq DEF Members
<1>6. UnderWay = {}
  BY <1>2, <1>3, <1>4, <1>5 DEF UnderWay, Queued
<1>7. Alive = batch
  BY <1>6 DEF Alive
<1>8. Cardinality(batch) < Required /\ Cardinality(batch) \in Nat
  BY FiniteSamples DEF Places, FullBatch, Over, TypedHand, TypeOK, TrainOK
<1>9. Total = Cardinality(batch) + batches * Required + dropped
  <2>1. Total = Cardinality(batch) + batches * Required + dropped + failures
    BY <1>2, <1>7 DEF Places, Counted, TakenSamples
  <2>2. batches \in Nat /\ Required \in Nat /\ dropped \in Nat
    BY Constants DEF TypedHand, TypeOK, TrainOK, QueueOK
  <2>3. batches * Required \in Nat
    BY <2>2, Product
  <2> QED BY <1>8, <2>1, <2>2, <2>3
<1>10. /\ batches \in Nat /\ Required \in Nat /\ Required >= 1 /\ dropped \in Nat /\ Total \in Nat
       /\ batches * Required \in Nat
  BY Constants, Product DEF TypedHand, TypeOK, TrainOK, QueueOK
<1>11. Total - dropped \in Int /\ Total - dropped = Cardinality(batch) + batches * Required
  BY <1>8, <1>9, <1>10
<1>12. batches = (Total - dropped) \div Required
  BY <1>8, <1>10, <1>11, QuotientOf
<1> QED BY <1>6, <1>12

\* The end of a run: _processor_worker reads done_tasks only after a wait assigned it
\* (pending_queue being longer than max_concurrent_samples), and without partial rollout
\* and failures the termination signal is the last item the trainer gets.
THEOREM OrderlyProcessor == Spec => []ProcessorOrderly
<1> DEFINE Inv == TypedHand /\ Places /\ Survival /\ Closing
<1>1. Init => Inv
  BY TypeInit, PlacesInit, SurvivalInit, ClosingInit
<1>2. Inv /\ [Next]_vars => Inv'
  BY TypeStep, PlacesStep, SurvivalStep, ClosingStep
<1>3. Inv => ProcessorOrderly
  BY LastSignal DEF Survival, ProcessorOrderly
<1> HIDE DEF Inv
<1> QED BY <1>1, <1>2, <1>3, PTL DEF Spec
===============================================================================
