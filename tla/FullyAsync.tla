------------------------------ MODULE FullyAsync ------------------------------
(* verl's fully asynchronous trainer: a Rollouter actor (one asyncio loop with *)
(* the coroutines feed, processor, one task per sample, monitor, and the       *)
(* pause / update_param_version / resume calls of a parameter sync), a         *)
(* MessageQueue actor and a Trainer. A coroutine runs until it suspends: busy  *)
(* says that the processor is between two suspension points, so no other       *)
(* coroutine of the loop may move; the other actors and the servers may.       *)
EXTENDS Integers, Sequences, FiniteSets

CONSTANTS
    Total,          \* total_rollout_steps
    Required,       \* required_samples: samples of a training batch
    Trigger,        \* trigger_parameter_sync_step
    MaxRequired,    \* max_required_samples, also the size of the message queue
    MaxConcurrent,  \* max_concurrent_samples
    PendingCap,     \* maxsize of pending_queue, 128 in the code
    Partial,        \* async_training.partial_rollout
    TestFreq,       \* rollout.test_freq
    MaxFailures     \* bound on generations that raise

ASSUME FullyAsyncAssumption ==
    /\ Total \in Nat \ {0} /\ Required \in Nat \ {0} /\ Trigger \in Nat \ {0}
    /\ MaxRequired \in Nat /\ MaxRequired >= Required * Trigger
    /\ MaxConcurrent \in 1..MaxRequired /\ PendingCap \in Nat \ {0}
    /\ Partial \in BOOLEAN /\ TestFreq \in Nat \ {0} /\ MaxFailures \in Nat

Samples == 1..Total
End == Total + 1      \* "DONE" in pending_queue, None in the message queue
Nothing == 0
Free == "free"

VARIABLES
    fed,         \* items put into pending_queue, the last one is End
    taken,       \* items got from pending_queue
    hand,        \* rollout_sample of the processor
    proc,        \* where _processor_worker is suspended, or about to go on
    why,         \* which of its three drain loops it is in
    busy,        \* the processor has not suspended yet
    bound,       \* its local done_tasks has been assigned
    generating,  \* samples whose task in active_tasks is generating
    putting,     \* samples whose task awaits put_sample
    ended,       \* finished tasks still in active_tasks
    raised,      \* one of them ended with an exception
    failures,    \* generations that raised so far
    version,     \* version[s]: rollout_sample.param_version
    cancelQueue, \* cancel_queue
    interrupt,   \* the cancellation event of the agent loops is set
    lock,        \* holder of self.lock
    waiters,     \* coroutines queued for it
    paused, trigger, staleness, rversion,   \* Rollouter attributes
    main,        \* _streaming_generation_main
    monitor,     \* _async_monitor_loop
    sync,        \* progress of one parameter synchronisation
    counted,     \* active and cancelled samples counted by update_param_version
    queue,       \* MessageQueue.queue
    dropped,     \* MessageQueue.dropped_samples
    trainer,     \* what the Trainer does
    tversion,    \* its current_param_version
    localStep,   \* its local_trigger_step
    synced,      \* the version its last synchronisation was called with
    batch,       \* samples it collected
    batches      \* batches it trained on

feedVars == <<fed, taken>>
procVars == <<hand, proc, why, busy, bound>>
taskVars == <<generating, putting, ended, raised, failures, version, cancelQueue>>
lockVars == <<lock, waiters>>
ctrlVars == <<paused, trigger, staleness, rversion, interrupt>>
loopVars == <<main, monitor, sync, counted>>
queueVars == <<queue, dropped>>
trainVars == <<trainer, tversion, localStep, synced, batch, batches>>
vars == <<feedVars, procVars, taskVars, lockVars, ctrlVars, loopVars, queueVars, trainVars>>

ActiveCount == Cardinality(generating) + Cardinality(putting) + ended
Members(seq) == {seq[i] : i \in 1..Len(seq)}

-------------------------------------------------------------------------------
(* self.lock: an asyncio.Lock hands itself to its waiters in arrival order.    *)
CanLock(c) == lock \in {Free, c}
Unlock == /\ lock' = IF waiters = << >> THEN Free ELSE Head(waiters)
          /\ waiters' = IF waiters = << >> THEN << >> ELSE Tail(waiters)
PassesThrough(c) == \* acquires and releases without suspending
    /\ CanLock(c)
    /\ IF lock = c THEN Unlock ELSE UNCHANGED lockVars

ProcLockAt == {"pauseLock", "drainLock", "idleLock", "startLock"}
WantsLock(c) ==
    \/ c = "proc" /\ proc \in ProcLockAt
    \/ c = "monitor" /\ monitor = "lock"
    \/ c = "sync" /\ sync \in {"pauseLock", "updateLock", "resumeLock"}

Enqueue(c) ==
    /\ WantsLock(c) /\ ~CanLock(c) /\ c \notin Members(waiters)
    /\ c # "proc" => ~busy
    /\ waiters' = Append(waiters, c)
    /\ busy' = FALSE
    /\ UNCHANGED <<feedVars, hand, proc, why, bound, taskVars, lock, ctrlVars,
                   loopVars, queueVars, trainVars>>

\* Mutant: the flag is cleared without notify_all().
NotifyNobody == proc

\* condition.notify_all(): the processor wakes up and asks for the lock again.
Notified == CASE proc = "idle" -> "idleLock" [] proc = "start" -> "startLock"
              [] OTHER -> proc

-------------------------------------------------------------------------------
Init ==
    /\ fed = 0 /\ taken = 0
    /\ hand = Nothing /\ proc = "top" /\ why = "pause" /\ busy = FALSE /\ bound = FALSE
    /\ generating = {} /\ putting = {} /\ ended = 0 /\ raised = FALSE /\ failures = 0
    /\ version = [s \in Samples |-> 0] /\ cancelQueue = << >>
    /\ interrupt = FALSE /\ lock = Free /\ waiters = << >>
    /\ paused = FALSE /\ trigger = TRUE /\ staleness = 0 /\ rversion = 0
    /\ main = "waiting" /\ monitor = "sleep" /\ sync = "none" /\ counted = 0
    /\ queue = << >> /\ dropped = 0
    /\ trainer = "collect" /\ tversion = 0 /\ localStep = 1 /\ synced = 0
    /\ batch = {} /\ batches = 0

-------------------------------------------------------------------------------
(* _feed_samples: the coroutine goes on until pending_queue is full.           *)
Feed ==
    /\ ~busy /\ fed <= Total /\ fed - taken < PendingCap
    /\ fed' = IF taken + PendingCap < End THEN taken + PendingCap ELSE End
    /\ UNCHANGED <<taken, procVars, taskVars, lockVars, ctrlVars, loopVars, queueVars, trainVars>>

-------------------------------------------------------------------------------
(* _processor_worker.                                                          *)
Processor == UNCHANGED <<failures, generating, putting, version, interrupt, trigger,
                         rversion, loopVars, queueVars, trainVars, fed>>

\* Mutant: both tests are strict.
ShouldPauseLate == Len(queue) > MaxRequired \/ staleness > MaxRequired

ShouldPause == Len(queue) >= MaxRequired \/ staleness >= MaxRequired

CheckPause ==
    /\ proc = "top"
    /\ proc' = IF paused \/ ShouldPause THEN "pauseLock" ELSE "take"
    /\ busy' = TRUE
    /\ UNCHANGED <<taken, hand, why, bound, ended, raised, cancelQueue, lockVars, paused, staleness>>
    /\ Processor

SelfPause ==
    /\ proc = "pauseLock" /\ PassesThrough("proc")
    /\ paused' = TRUE
    /\ proc' = "drain" /\ why' = "pause" /\ busy' = TRUE
    /\ UNCHANGED <<taken, hand, bound, ended, raised, cancelQueue, staleness>>
    /\ Processor

\* The condition of the three loops that wait for tasks.
MustDrain == IF why = "limit" THEN ActiveCount >= MaxConcurrent ELSE ActiveCount > 0
AfterDrain == CASE why = "pause" -> "idleLock" [] why = "end" -> "exited"
                [] why = "limit" -> "startLock"

DrainTest ==
    /\ proc = "drain"
    /\ proc' = IF MustDrain THEN "drainLock" ELSE AfterDrain
    /\ busy' = (proc' # "exited")
    /\ UNCHANGED <<taken, hand, why, bound, ended, raised, cancelQueue, lockVars, paused, staleness>>
    /\ Processor

\* With the lock: wait for the tasks, or, if pause() has cleared them meanwhile,
\* go through done_tasks, which only an earlier wait has assigned.
DrainLocked ==
    /\ proc = "drainLock" /\ CanLock("proc")
    /\ \/ /\ ActiveCount > 0
          /\ proc' = "drainWait" /\ busy' = FALSE
          /\ lock' = "proc" /\ UNCHANGED waiters
       \/ /\ ActiveCount = 0
          /\ proc' = IF bound THEN "drain" ELSE "failed"
          /\ busy' = bound
          /\ PassesThrough("proc")
    /\ UNCHANGED <<taken, hand, why, bound, ended, raised, cancelQueue, paused, staleness>>
    /\ Processor

\* Mutant: done_tasks is not assigned by the wait.
DrainWaitedUnbound ==
    /\ proc = "drainWait" /\ ended > 0
    /\ ended' = 0 /\ raised' = FALSE
    /\ proc' = IF raised THEN "failed" ELSE "drain"
    /\ busy' = ~raised
    /\ Unlock
    /\ UNCHANGED <<taken, hand, why, bound, cancelQueue, paused, staleness>>
    /\ Processor

\* asyncio.wait returned, still with the lock: awaiting a failed task raises.
DrainWaited ==
    /\ proc = "drainWait" /\ ended > 0
    /\ ended' = 0 /\ raised' = FALSE /\ bound' = TRUE
    /\ proc' = IF raised THEN "failed" ELSE "drain"
    /\ busy' = ~raised
    /\ Unlock
    /\ UNCHANGED <<taken, hand, why, cancelQueue, paused, staleness>>
    /\ Processor

IdleLocked ==
    /\ proc = "idleLock" /\ PassesThrough("proc")
    /\ proc' = IF paused THEN "idle" ELSE "top"
    /\ busy' = ~paused
    /\ UNCHANGED <<taken, hand, why, bound, ended, raised, cancelQueue, paused, staleness>>
    /\ Processor

TakeCancelled ==
    /\ proc = "take" /\ cancelQueue # << >>
    /\ hand' = Head(cancelQueue) /\ cancelQueue' = Tail(cancelQueue)
    /\ proc' = "drain" /\ why' = "limit" /\ busy' = TRUE
    /\ UNCHANGED <<taken, bound, ended, raised, lockVars, paused, staleness>>
    /\ Processor

AwaitPending ==
    /\ proc = "take" /\ cancelQueue = << >> /\ fed = taken
    /\ proc' = "get" /\ busy' = FALSE
    /\ UNCHANGED <<taken, hand, why, bound, ended, raised, cancelQueue, lockVars, paused, staleness>>
    /\ Processor

\* Mutant: a sample that is taken is not counted as stale.
TakePendingUncounted ==
    /\ \/ proc = "take" /\ cancelQueue = << >>
       \/ proc = "get"
    /\ taken < fed
    /\ taken' = taken + 1 /\ hand' = taken + 1
    /\ proc' = "drain" /\ busy' = TRUE
    /\ why' = IF taken + 1 = End THEN "end" ELSE "limit"
    /\ UNCHANGED <<bound, ended, raised, cancelQueue, lockVars, paused, staleness>>
    /\ Processor

\* The end signal is counted in staleness_samples like a sample.
TakePending ==
    /\ \/ proc = "take" /\ cancelQueue = << >>
       \/ proc = "get"
    /\ taken < fed
    /\ taken' = taken + 1 /\ hand' = taken + 1
    /\ staleness' = staleness + 1
    /\ proc' = "drain" /\ busy' = TRUE
    /\ why' = IF taken + 1 = End THEN "end" ELSE "limit"
    /\ UNCHANGED <<bound, ended, raised, cancelQueue, lockVars, paused>>
    /\ Processor

StartTask ==
    /\ proc = "startLock" /\ PassesThrough("proc")
    /\ IF paused
       THEN proc' = "start" /\ busy' = FALSE /\ UNCHANGED <<hand, generating>>
       ELSE proc' = "top" /\ busy' = TRUE /\ hand' = Nothing
            /\ generating' = generating \cup {hand}
    /\ UNCHANGED <<feedVars, why, bound, putting, ended, raised, failures, version, cancelQueue,
                   ctrlVars, loopVars, queueVars, trainVars>>

ProcessorStep == \/ CheckPause \/ SelfPause \/ DrainTest \/ DrainLocked \/ DrainWaited
                 \/ IdleLocked \/ TakeCancelled \/ AwaitPending \/ TakePending \/ StartTask
                 \/ Enqueue("proc")

-------------------------------------------------------------------------------
(* _process_single_sample_streaming, and MessageQueue.put_sample.              *)
PutSample(x) ==
    LET full == Len(queue) >= MaxRequired
    IN  /\ queue' = Append(IF full THEN Tail(queue) ELSE queue, x)
        /\ dropped' = IF full THEN dropped + 1 ELSE dropped

Task == ~busy /\ UNCHANGED <<feedVars, procVars, lockVars, ctrlVars, loopVars, trainVars>>

\* The whole sample is generated: it gets the version of this moment.
Generated(s) ==
    /\ s \in generating
    /\ generating' = generating \ {s} /\ putting' = putting \cup {s}
    /\ version' = [version EXCEPT ![s] = rversion]
    /\ UNCHANGED <<ended, raised, failures, cancelQueue, queueVars>>
    /\ Task

Put(s) ==
    /\ s \in putting
    /\ putting' = putting \ {s} /\ ended' = ended + 1
    /\ PutSample(s)
    /\ UNCHANGED <<generating, raised, failures, version, cancelQueue>>
    /\ Task

\* Mutant: an interrupted sample is not put into the cancel queue.
InterruptedForgets(s) ==
    /\ interrupt /\ s \in generating
    /\ generating' = generating \ {s} /\ ended' = ended + 1
    /\ UNCHANGED <<putting, raised, failures, version, cancelQueue, queueVars>>
    /\ Task

Interrupted(s) ==
    /\ interrupt /\ s \in generating
    /\ generating' = generating \ {s} /\ ended' = ended + 1
    /\ cancelQueue' = Append(cancelQueue, s)
    /\ UNCHANGED <<putting, raised, failures, version, queueVars>>
    /\ Task

GenerationRaises(s) ==
    /\ failures < MaxFailures /\ s \in generating
    /\ generating' = generating \ {s} /\ ended' = ended + 1
    /\ raised' = TRUE /\ failures' = failures + 1
    /\ UNCHANGED <<putting, version, cancelQueue, queueVars>>
    /\ Task

-------------------------------------------------------------------------------
(* _streaming_generation_main after the processor, and _async_monitor_loop.    *)

SendSentinel ==
    /\ ~busy /\ main = "waiting" /\ proc \in {"exited", "failed"}
    /\ main' = "stopped" /\ PutSample(End)
    /\ UNCHANGED <<feedVars, procVars, taskVars, lockVars, ctrlVars, monitor, sync,
                   counted, trainVars>>

MonitorWakes ==
    /\ ~busy /\ monitor = "sleep" /\ main # "stopped"
    /\ trigger /\ ~ShouldPause
    /\ monitor' = "lock"
    /\ UNCHANGED <<feedVars, procVars, taskVars, lockVars, ctrlVars, main, sync, counted,
                   queueVars, trainVars>>

MonitorResumes ==
    /\ ~busy /\ monitor = "lock" /\ PassesThrough("monitor")
    /\ paused' = FALSE /\ proc' = Notified /\ monitor' = "sleep"
    /\ UNCHANGED <<feedVars, hand, why, busy, bound, taskVars, trigger, staleness, rversion,
                   interrupt, main, sync, counted, queueVars, trainVars>>

-------------------------------------------------------------------------------
(* One synchronisation: pause(), update_param_version() and resume() of the    *)
(* Rollouter, called by ParameterSynchronizer.sync_weights.                    *)
PauseCalled ==
    /\ ~busy /\ sync = "pauseLock" /\ CanLock("sync")
    /\ paused' = TRUE
    /\ \/ /\ Partial \/ ActiveCount > 0        \* suspends with the lock
          /\ sync' = IF Partial THEN "cancel" ELSE "gather"
          /\ lock' = "sync" /\ UNCHANGED <<waiters, trigger>>
       \/ /\ ~Partial /\ ActiveCount = 0
          /\ sync' = "paused" /\ trigger' = FALSE
          /\ PassesThrough("sync")
    /\ UNCHANGED <<feedVars, procVars, taskVars, staleness, rversion, interrupt, main, monitor,
                   counted, queueVars, trainVars>>

PauseCancels ==
    /\ ~busy /\ sync = "cancel"
    /\ interrupt' = TRUE /\ sync' = "gather"
    /\ UNCHANGED <<feedVars, procVars, taskVars, lockVars, paused, trigger, staleness, rversion,
                   main, monitor, counted, queueVars, trainVars>>

\* asyncio.gather(..., return_exceptions=True) and active_tasks.clear().
PauseGathered ==
    /\ ~busy /\ sync = "gather" /\ generating = {} /\ putting = {}
    /\ ended' = 0 /\ raised' = FALSE
    /\ trigger' = FALSE /\ sync' = "paused"
    /\ Unlock
    /\ UNCHANGED <<feedVars, procVars, generating, putting, failures, version, cancelQueue,
                   paused, staleness, rversion, interrupt, main, monitor, counted, queueVars, trainVars>>

\* Mutant: the new version is not recorded.
UpdateCountsOldVersion ==
    /\ ~busy /\ sync = "updateLock" /\ CanLock("sync")
    /\ counted' = ActiveCount + Len(cancelQueue)
    /\ lock' = "sync" /\ sync' = "size"
    /\ UNCHANGED <<feedVars, procVars, taskVars, waiters, ctrlVars, main, monitor, queueVars,
                   trainVars>>

\* len(active_tasks) + cancel_queue.qsize() is evaluated before the queue size is awaited.
UpdateCounts ==
    /\ ~busy /\ sync = "updateLock" /\ CanLock("sync")
    /\ rversion' = synced
    /\ counted' = ActiveCount + Len(cancelQueue)
    /\ lock' = "sync" /\ sync' = "size"
    /\ UNCHANGED <<feedVars, procVars, taskVars, waiters, paused, trigger, staleness, interrupt,
                   main, monitor, queueVars, trainVars>>

\* Mutant: the count is not replaced by what is under way.
UpdateSetsKeepsCount ==
    /\ ~busy /\ sync = "size"
    /\ staleness' = staleness /\ counted' = 0
    /\ sync' = "resumeLock"
    /\ Unlock
    /\ UNCHANGED <<feedVars, procVars, taskVars, paused, trigger, rversion, interrupt,
                   main, monitor, queueVars, trainVars>>

UpdateSets ==
    /\ ~busy /\ sync = "size"
    /\ staleness' = counted + Len(queue) /\ counted' = 0
    /\ sync' = "resumeLock"
    /\ Unlock
    /\ UNCHANGED <<feedVars, procVars, taskVars, paused, trigger, rversion, interrupt,
                   main, monitor, queueVars, trainVars>>

Resumed == /\ paused' = FALSE /\ trigger' = TRUE
           /\ proc' = Notified /\ sync' = "none"

\* Under partial rollout resume() suspends with the lock until the servers answer.
ResumeCalled ==
    /\ ~busy /\ sync = "resumeLock" /\ CanLock("sync")
    /\ \/ /\ Partial
          /\ lock' = "sync" /\ sync' = "clear"
          /\ UNCHANGED <<waiters, paused, trigger, proc>>
       \/ ~Partial /\ Resumed /\ PassesThrough("sync")
    /\ UNCHANGED <<feedVars, hand, why, busy, bound, taskVars, staleness, rversion, interrupt,
                   main, monitor, counted, queueVars, trainVars>>

ResumeCleared ==
    /\ ~busy /\ sync = "clear"
    /\ interrupt' = FALSE /\ Resumed /\ Unlock
    /\ UNCHANGED <<feedVars, hand, why, busy, bound, taskVars, staleness, rversion,
                   main, monitor, counted, queueVars, trainVars>>

SyncStep == \/ PauseCalled \/ PauseCancels \/ PauseGathered \/ UpdateCounts \/ UpdateSets
            \/ ResumeCalled \/ ResumeCleared \/ Enqueue("sync")

-------------------------------------------------------------------------------
(* FullyAsyncTrainer, a process of its own.                                    *)
Trainer == UNCHANGED <<feedVars, procVars, taskVars, lockVars, ctrlVars, main, monitor, counted, dropped>>

\* Mutant: a batch cut short by the end is trained on.
GetSampleOrPartial ==
    /\ trainer = "collect" /\ queue # << >>
    /\ queue' = Tail(queue)
    /\ IF Head(queue) = End
       THEN trainer' = (IF batch = {} THEN "drained" ELSE "train") /\ UNCHANGED batch
       ELSE /\ batch' = batch \cup {Head(queue)}
            /\ trainer' = IF Cardinality(batch') = Required THEN "train" ELSE "collect"
    /\ UNCHANGED <<tversion, localStep, synced, batches, sync>>
    /\ Trainer

\* _get_samples_from_queue: the termination signal discards a partial batch.
GetSample ==
    /\ trainer = "collect" /\ queue # << >>
    /\ queue' = Tail(queue)
    /\ IF Head(queue) = End
       THEN trainer' = "drained" /\ UNCHANGED batch
       ELSE /\ batch' = batch \cup {Head(queue)}
            /\ trainer' = IF Cardinality(batch') = Required THEN "train" ELSE "collect"
    /\ UNCHANGED <<tversion, localStep, synced, batches, sync>>
    /\ Trainer

\* The update of fit_step, then _trigger_parameter_sync_after_step.
TrainStep ==
    /\ trainer = "train"
    /\ batch' = {} /\ batches' = batches + 1
    /\ IF localStep < Trigger
       THEN localStep' = localStep + 1 /\ trainer' = "collect" /\ UNCHANGED tversion
       ELSE localStep' = 1 /\ tversion' = tversion + 1 /\ trainer' = "sync"
    /\ UNCHANGED <<synced, queue, sync>>
    /\ Trainer

\* wait_last_valid has returned, sync_weights is given the version and calls pause().
CallPause ==
    /\ trainer = "sync" /\ sync = "none"
    /\ sync' = "pauseLock" /\ trainer' = "pausing" /\ synced' = tversion
    /\ UNCHANGED <<tversion, localStep, batch, batches, queue>>
    /\ Trainer

\* pause() has returned: update_param_version, with the same version, and, once it
\* is done, resume are left to the Rollouter, and the trainer goes on.
CallUpdate ==
    /\ trainer = "pausing" /\ sync = "paused"
    /\ sync' = "updateLock" /\ trainer' = "collect"
    /\ UNCHANGED <<tversion, localStep, synced, batch, batches, queue>>
    /\ Trainer

\* The end of fit(): a final synchronisation, if one is due, is called with an
\* argument the method does not take.
FinalSyncDue == tversion % TestFreq # 0 \/ localStep > 1

TrainerStops ==
    /\ trainer = "drained" /\ sync = "none"
    /\ trainer' = IF FinalSyncDue THEN "crashed" ELSE "finished"
    /\ UNCHANGED <<tversion, localStep, synced, batch, batches, queue, sync>>
    /\ Trainer

TrainerStep == GetSample \/ TrainStep \/ CallPause \/ CallUpdate \/ TrainerStops

-------------------------------------------------------------------------------
MonitorStep == MonitorWakes \/ MonitorResumes \/ Enqueue("monitor")
TaskStep(s) == Generated(s) \/ Put(s) \/ Interrupted(s) \/ GenerationRaises(s)

Next == \/ Feed \/ ProcessorStep \/ SendSentinel \/ MonitorStep \/ SyncStep \/ TrainerStep
        \/ \E s \in Samples : TaskStep(s)

\* The event loop runs every ready coroutine, and generation takes finite time.
Fairness ==
    /\ WF_vars(Feed) /\ WF_vars(ProcessorStep) /\ WF_vars(SendSentinel)
    /\ SF_vars(MonitorStep) /\ SF_vars(SyncStep) /\ WF_vars(TrainerStep)
    /\ \A s \in Samples : WF_vars(Generated(s) \/ Interrupted(s)) /\ WF_vars(Put(s))

Spec == Init /\ [][Next]_vars /\ Fairness

-------------------------------------------------------------------------------
(* Properties.                                                                 *)
ProcAt == ProcLockAt \cup {"top", "drain", "drainWait", "idle", "take", "get", "start",
                           "exited", "failed"}
SyncAt == {"none", "pauseLock", "cancel", "gather", "paused", "updateLock", "size",
           "resumeLock", "clear"}
Lockers == {"proc", "monitor", "sync"}

FeedOK == fed \in 0..End /\ taken \in 0..fed /\ fed - taken <= PendingCap
ProcOK == /\ hand \in 0..End /\ proc \in ProcAt /\ why \in {"pause", "end", "limit"}
          /\ busy \in BOOLEAN /\ bound \in BOOLEAN
TaskOK == /\ generating \subseteq Samples /\ putting \subseteq Samples
          /\ ended \in Nat /\ raised \in BOOLEAN /\ failures \in 0..MaxFailures
          /\ version \in [Samples -> Nat] /\ cancelQueue \in Seq(Samples)
LockOK == lock \in Lockers \cup {Free} /\ waiters \in Seq(Lockers)
CtrlOK == /\ paused \in BOOLEAN /\ trigger \in BOOLEAN /\ interrupt \in BOOLEAN
          /\ staleness \in Nat /\ rversion \in Nat
LoopOK == /\ main \in {"waiting", "stopped"} /\ monitor \in {"sleep", "lock"}
          /\ sync \in SyncAt /\ counted \in Nat
QueueOK == queue \in Seq(1..End) /\ Len(queue) <= MaxRequired /\ dropped \in Nat
TrainOK == /\ trainer \in {"collect", "train", "sync", "pausing", "drained", "crashed", "finished"}
           /\ tversion \in Nat /\ localStep \in 1..Trigger /\ synced \in Nat
           /\ batch \subseteq Samples /\ batches \in Nat

\* Every variable keeps its type; in particular the message queue holds no more
\* than its size and pending_queue no more than its own.
TypeOK == /\ FeedOK /\ ProcOK /\ TaskOK /\ LockOK
          /\ CtrlOK /\ LoopOK /\ QueueOK /\ TrainOK

Queued == Members(queue) \ {End}
InHand == {hand} \cap Samples
UnderWay == InHand \cup generating \cup putting \cup Members(cancelQueue) \cup Queued

\* A sample is in one place only: _processor_worker, the tasks, the cancel queue,
\* the message queue and the trainer's batch never hold it twice, and what they do
\* not hold was trained on, evicted from the full queue, or failed to generate.
Conservation ==
    /\ Len(cancelQueue) = Cardinality(Members(cancelQueue))
    /\ Cardinality({i \in 1..Len(queue) : queue[i] # End}) = Cardinality(Queued)
    /\ (IF taken = End THEN Total ELSE taken) =
          Cardinality(InHand) + Cardinality(generating) + Cardinality(putting)
          + Len(cancelQueue) + Cardinality(Queued) + Cardinality(batch)
          + batches * Required + dropped + failures
    /\ Cardinality(UnderWay \cup batch) = Cardinality(InHand) + Cardinality(generating)
          + Cardinality(putting) + Len(cancelQueue) + Cardinality(Queued) + Cardinality(batch)

\* Freshness control: counting staleness_samples when a sample is taken, and
\* recounting at every new version, lets at most one sample more than
\* max_required_samples be under way (in the processor's hand, generating, being
\* put, cancelled or queued) until the termination signal is sent.
CountUnderWay == (IF hand \in Samples THEN 1 ELSE 0) + Cardinality(generating)
                   + Cardinality(putting) + Len(cancelQueue) + Len(queue)
UnderWayBounded == main = "waiting" => CountUnderWay <= MaxRequired + 1

\* A processor that waits for the condition will be woken: the flag it waits on is
\* set, and whoever clears the flag notifies it.
NoLostWakeup == proc \in {"idle", "start"} => paused

\* Staleness: a sample the trainer gets is behind the trainer's version by at most
\* two (one if the monitor lets no task start within a synchronisation) and the
\* versions the samples queued before it can make.
SamplesPerVersion == Required * Trigger
StalenessBounded ==
    \A s \in batch : tversion - version[s] <= 2 + (MaxRequired - 1) \div SamplesPerVersion

\* With a pending_queue longer than max_concurrent_samples the processor only dies
\* of a generation that raised.
ProcessorSurvives == PendingCap > MaxConcurrent /\ failures = 0 => proc # "failed"

\* Without partial rollout and failing generations the termination signal is the
\* last thing the trainer gets: it trained on every full batch not evicted.
Over == trainer \in {"finished", "crashed"}
SignalIsLast ==
    Over /\ ~Partial /\ failures = 0 /\ proc # "failed"
        => batches = (Total - dropped) \div Required /\ UnderWay = {}

\* The processor neither dies with samples left nor sends the signal early.
ProcessorOrderly == ProcessorSurvives /\ SignalIsLast

\* However pauses, recoveries of the monitor and synchronisations interleave, the
\* trainer gets its termination signal and stops.
TrainerEnds == <>Over

\* The pipeline implements the flow of samples described by SampleFlow.
Flow == INSTANCE SampleFlow WITH
    Limit <- MaxRequired + 1,
    taken <- IF taken = End THEN Total ELSE taken,
    underWay <- UnderWay,
    pversion <- tversion
ImplementsSampleFlow == Flow!FlowSpec

-------------------------------------------------------------------------------
(* The parts of the inductive invariant behind UnderWayBounded.                *)

\* A processor on its way to starting a task has a sample in its hand.
Carrying == \/ proc \in {"startLock", "start"}
            \/ why = "limit" /\ proc \in {"drain", "drainLock", "drainWait"}
HandHeld == Carrying => hand \in Samples

\* A wait inside the lock keeps it.
LockHeld == /\ proc = "drainWait" => lock = "proc"
            /\ sync \in {"cancel", "gather", "size", "clear"} => lock = "sync"

\* Between the freshness test and the next suspension nobody else moves.
TestStillHolds == proc = "take" => busy /\ staleness < MaxRequired

\* What update_param_version counted before it awaited the queue size covers the
\* tasks and the cancelled samples there are when it gets the answer.
CountCovers == sync = "size" =>
    Cardinality(generating) + Cardinality(putting) + Len(cancelQueue) <= counted

\* staleness_samples misses at most the sample in the processor's hand.
StalenessCovers == main = "waiting" =>
    /\ CountUnderWay <= staleness + 1
    /\ proc = "get" => CountUnderWay <= MaxRequired

TypedHand == TypeOK /\ HandHeld
Freshness == /\ LockHeld /\ TestStillHolds /\ CountCovers /\ StalenessCovers
             /\ UnderWayBounded
-------------------------------------------------------------------------------
(* Statements of the documentation and of comments.                            *)

\* README.md: staleness_threshold = 0 is synchronous training.
SynchronousAtZero == MaxRequired = SamplesPerVersion =>
                         \A s \in batch : version[s] = tversion

\* README.md: an interrupted sample continues to be generated.
InterruptedContinue == \A s \in Samples :
    s \in Members(cancelQueue) ~> s \notin Members(cancelQueue) \/ main = "stopped"
===============================================================================
