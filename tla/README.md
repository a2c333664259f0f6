# TLA+ verification of PRO-CUA

PRO-CUA trains computer-use agents in rounds. A browser agent (`src/WebVoyager/`) collects trajectories with the
current model, scripts label them and turn them into training steps, a trainer (`src/verl/`, or `src/LLaMA-Factory/`
for the SFT baseline) updates the model, and the next round collects with it. This directory models the parts whose
correctness depends on order, failure and concurrency, checks them with TLC on small instances, and proves the most
important results with TLAPS for every value of the constants.

To repeat a run: `tlc -config <cfg> <module>`, with the pairs of the table under "Runs". To repeat the proofs: `tlapm
<module>Proofs.tla`. Paths below are relative to the repository's root without the prefix `src/`; a bare file name is
one of those in the table.

## 1. The system

### Parts, state, operations

| part | state | operations | module |
| --- | --- | --- | --- |
| task collector, `run_task` in `WebVoyager/run_qwen3_og_...train.py` | the conversation, the iteration, the error to report; on disk one folder per task: `screenshot<i>.png`, `interact_messages.json` | launch the browser, take a screenshot, clip the prompt, call the model, parse, execute, save | `Trajectory` |
| data builders: `auto_eval_qwen.py`, `filter_repeat_qwen3.py`, `construct_dataset.py`, `webvoyager_step_to_parquet.py` | the task folders, `results.json`, `interact_messages_dedup.json`, the dataset | purge folders with gaps, judge, score, build, convert | `TrainingData` |
| round scripts: `pro_cua_*.sh`, `step_rl_rule_based_reward_*.sh`, `fbc_*.sh`, `webvoyager_collect_data.sh`, `launch_vllm_servers.sh` | the round; directories and checkpoints of all rounds; the servers on ports 8001-8008 | bootstrap, build, train, merge, serve, evaluate, collect, judge, stop servers | `RoundPipeline` |
| reward service: `webvoyager_reward_new.py`, `reward_manager/naive.py` and `limited.py`, `reward_loop.py`, `naive_router.py` | items and their retries; a semaphore per reward loop; `request_counts` of the router; the workers | post, retry, time out, choose the least loaded worker, try again, line up the extra infos | `RewardService` |
| trainer checkpoints: `ray_trainer.py`, `checkpoint_manager.py`, `fsdp_checkpoint_manager.py` | `global_steps`, saved paths (memory); shards, `data.pt`, tracker file (disk) | step, save behind barriers, rotate, track, resume | `Checkpoint`, `DurableProgress` |
| fully asynchronous trainer: `verl/experimental/fully_async_policy/` | Rollouter: pending, active and cancelled samples, staleness, flags, lock, condition; MessageQueue; Trainer: batch, version | feed, process, generate, put, pause, publish a version, resume, monitor, collect, train | `FullyAsync`, `SampleFlow` |
| agent loop under interruption: `partial_tool_agent_loop.py`, `tool_agent_loop.py`, `vllm_async_server.py` | per trajectory: agent state, tokens, mask, log-probabilities, images, turns; per server: requests under way, pause flag; the worker's cancellation event | start or go on, generate, call tools, ask the user, interrupt, cancel, pause, resume | `ToolAgentLoop`, `AgentTurns` |
| weight transfer: `nixl_checkpoint_engine.py` | two buffers per rank, bucket metadata, notifications, remote reads, device copies | build the chain, fill, publish, read, republish, hand out, swap | `NixlChain`, `WeightStream` |
| weight transfer: `nccl_checkpoint_engine.py` (and `hccl_...`) | two buffers per rank, a PUB socket and subscriptions, one broadcast thread per rank | connect, fill, announce, broadcast, swap, hand out, next update | `NcclBroadcast` |

Everything else of the repository is listed in `PROJECT.json` with its status; section 8 says why it is left out.

### How the parts interact

* The collector and the builders share only files. Nothing records for which screenshot a reply was given: every
  builder counts replies and takes the number for the screenshot's. `TrainingData` therefore extends `Trajectory`: the
  transcripts it reads are exactly those that `run_task` can leave.
* The round scripts call collector, builders and trainer as commands, share one set of ports and GPUs with the servers
  they start with `nohup`, exit at the first command that fails, and always begin again at round 1.
* The trainer's processes meet at barriers within a worker group; the driver saves group after group. The tracker file
  is the only thing a restart looks at.
* The trainer scores every step through reward loops: `num_workers` processes, each with coroutines under a manager of
  its own, before one HTTP router and workers that come and go behind it. Only the text of an error travels back
  through the router.
* Rollouter, MessageQueue and Trainer are Ray actors. The Rollouter is one asyncio loop: its coroutines interleave at
  `await` only, but the other actors and the inference servers move at any time, also during an RPC of the loop.
* A synchronisation sets the agent loops' cancellation event and pauses the servers in an order nobody fixes, and
  resumes both likewise; the Rollouter's monitor may hand out samples in between. `FullyAsync` has this from the side
  of the Rollouter, `ToolAgentLoop` from the side of one trajectory and its server.
* A weight update is a coroutine per rank. NIXL ranks talk to their neighbours by messages, notifications and
  one-sided reads; NCCL ranks wait for an announcement in a thread, then meet in a broadcast.

### What is hard

Failures that leave no trace in the files (a failed model call), counting instead of recording, commands that succeed
while doing nothing (a judge that answers nobody), reruns that find the remains of earlier runs, crashes between two
writes of a save, tests made before an `await` and used after it, a lock queue in front of a pause that cancels what
it waits for, bounded queues that evict, a termination signal that must be the last message, a message cut in two by
an interruption, a buffer refilled while another process still reads it, a subscription that arrives after the first
announcement, a time limit that cancels the asker and not the request, a limit per process in front of a service all
processes share. `PROJECT.json` lists each at its line under
`hazards`, with the property that would catch it, or why none does.

### What makes each part correct

* Collector: a usable prompt whatever failed, the instruction never clipped away, replies numbered by their
  iterations, every task ends.
* Builders: the image of a step exists and is the one its reply was given for; no unreadable reply, unfinished task or
  task without instruction is trained on; one bad task does not stop a round.
* Round scripts: a round trains on complete data that the model before it collected and the judge labelled; training
  finds free GPUs; every round trains in the end.
* Reward service: one item's failure costs its own score only; the router's load counts cover what is under way; a
  dead worker costs few requests; a batch with a time limit ends.
* Checkpoints: what the tracker names can be loaded and comes from one attempt; rotation keeps as many complete
  checkpoints as its limit promises; resuming neither loses nor repeats tracked steps.
* Asynchronous trainer: no sample lost or doubled, bounded freshness, no lost wake-up, no deadlock, the end reached.
* Agent loop: a trajectory interrupted any number of times is the trajectory of the uninterrupted loop, its mask,
  log-probabilities, images and versions match its tokens, no tool call is overlooked but one that an interruption
  split, and a pause ends.
* Weight transfer: every rank is handed the whole model, in order and intact, and returns.

## 2. Modules

| module | what it is |
| --- | --- |
| `Trajectory` | one task of the collector |
| `TrainingData` | composes `Trajectory` with the scripts that read its folder, for the three recipes |
| `RoundPipeline` | the entry points over all rounds, crashes and reruns |
| `RewardService` | one batch scored by a process reward model: items, manager, router, workers |
| `Checkpoint` | saving, rotating and resuming, over crashes |
| `DurableProgress` | abstract: a run that resumes exactly at the step last made durable |
| `FullyAsync` | Rollouter, MessageQueue, Trainer and their synchronisation |
| `SampleFlow` | abstract: samples go from taken to trained, lost or dropped, with a bounded number under way |
| `ToolAgentLoop` | trajectories of the agent loop, their server, and synchronisations that interrupt them |
| `AgentTurns` | abstract: a conversation of whole turns, in which nothing is ever interrupted |
| `NixlChain` | one weight update along the chain of ranks |
| `WeightStream` | abstract: every rank is handed the tensors in order, one after the other |
| `NcclBroadcast` | several weight updates by announced broadcasts |
| `*Proofs` | theorems about `Trajectory` (with `TrainingData`), `Checkpoint`, `FullyAsync`, `RoundPipeline`, `RewardService`, `ToolAgentLoop`, and, as `NixlProofs` and `NcclProofs`, about the two weight engines |
| `MC*` | give the constants values for TLC |

A definition preceded by a comment `Mutant: ...` is a plausible bug of the definition after it; the properties were
seen to fail with it (`mutants` in `PROJECT.json`).

### Trajectory

`pc` follows the loop of `run_task`; `it`, `messages`, `failObs` and `steps` are its variables of those names or their
counterparts (`steps` is the list of recorded replies), `shots` is the set of screenshots on disk and `dropped` the
iterations that left no reply, a history variable. A reply is its kind: readable or not, with or without a tool call,
an answer or an action (`Acts`, `Answers`, `Bad`; `_call` marks a reply with a tool call, `_plain` one without). A
message keeps its role, its kind and the iteration it belongs to. `Clip` is `clip_message_and_obs`: the text of the
second message survives its image. Every `try` of the code is two actions, one for its exception. `Abort` is an
exception that ends the task outside of them (browser, download directory, log).

### TrainingData

`InitData` chooses a recipe and whether the data is that of round 1; `Collect` is a step of the collector; when it has
ended, one action for each script follows: `Purge` (the loop over the screenshots: for step RL by rules the script for
8B has it, the one for 4B does not), `Judge` / `JudgeRaises`, `Dedup` (PRO-CUA only), `BuildScored` or `BuildWhole`.
`dataset` is the list of training steps made of this task, each with the reply's iteration and the image the script
gives it. Verdicts are nondeterministic where a model decides them; the exits before the model is asked are modelled.
Which replies `filter_repeat_qwen3.py` marks as repeated scrolls depends on their text, so an arbitrary subset scores
0. Sampling of tasks (`max_tasks`) is left out: a task is in the sample.

### RoundPipeline

`pc` is the place in the script, `data[<<kind, r>>]` the directory `round_r` of the training or the evaluation tasks
(whole or partial, which model acted, what `results.json` says, whether it is scored), `weights[r]` and `merged[r]`
the checkpoint and the `actor_hf` of round r, `serving` the model behind the ports. `Launched` is the fact that
servers die if others hold the ports and the GPUs. A model that is not the one asked for answers nothing
(`Answering`), and a judge that does not answer gives every task a 0 (`AllLabels`; the retries of `auto_eval_qwen.py`
end in `return 0`). `Crash` ends the script anywhere, at a command that fails or with the machine; servers outlive a
script, not a machine. A labelled directory is taken to hold at least one step that can be trained on. The step-RL
scripts name a reward file that the repository does not have (section 7); it is taken to be there.

### RewardService

`place[i]` and `tries[i]` are where `run_single` of item i is and the `attempt_idx` of `compute_score_prm`; `request`
has the router's handler of every request an item ever posted, by item and attempt, because the router goes on with a
request after its asker has given up; `counts` is `request_counts`. `manager` is chosen by `Init`: the naive manager,
which the PRO-CUA scripts leave as the default, gathers all items without any limit, the other one has a semaphore and
a time limit. The batch is chunked over `NumWorkers` reward loops (`LoopOf`), processes that share the router and
nothing else: the semaphore is an attribute of the manager's class, so `HasRoom` counts the items of one loop.
`Timeout` cancels the asker at any await inside `wait_for` and releases the semaphore, as the code does. A worker can
answer, answer with an error, or never answer; it dies and comes back (`changes` bounds how often). What an answer
scores is left out. `ComputeRmScore` is the end of the step: it raises if the keys of the first item's extra infos are
missing from another's. Whether an error is retried depends on the router's port having 429 in it (`portHas429`),
since every error becomes a 500 whose text names the address.

### Checkpoint

`process` is lost in a crash, `disk` is not. A shard's content is the attempt (run of the program) that wrote it,
which is what tells a mixture of two attempts from a checkpoint of one. Each write is a step of its own: removal of
single files (`RemoveFile`), the directory, each rank's shard, `data.pt`, the truncation of the tracker file and its
writing. A shard is three files that are saved in place: it counts as an attempt's only when all three are whole and
of that attempt. `TruncateShard` is the first `torch.save` over files of an earlier attempt, `WriteShard` the end of
the third; between them, and after a crash there, nothing complete is left of that rank. `data.pt` is one write, as
nothing reads it before the tracker names its step, and the tracker is written after it. `total_epochs` is 1 as in the
scripts, so the dataloader's state is the step. Errors that `rmtree` ignores are left out.

### FullyAsync

Each coroutine has a variable with the `await` it is suspended at (`proc`, `main`, `monitor`, `sync`), each sample's
task is in `generating` or `putting`. `busy` says the processor is between two suspension points: then no other
coroutine of the loop moves, though servers and other actors do. The asyncio lock hands itself to its waiters in order
(`CanLock`, `Unlock`, `Enqueue`). One synchronisation is `sync`, from the trainer's `pause` RPC over `cancel`, the
gathering of tasks, `update_param_version` with its awaited queue size, to `resume` and the clearing of the
cancellation event. The feeding coroutine fills `pending_queue` in one step; validation, checkpoints of this trainer
and statistics are left out; the transfer of weights is commented out in the source. The first synchronisation happens
before `Init`. The trainer's counter (`tversion`), the version the synchroniser was last called with (`synced`) and the
Rollouter's (`rversion`) are three variables: each is set at its own moment.

### ToolAgentLoop and AgentTurns

`at[t]` is the await the coroutine of a trajectory is suspended at ("out" between two runs), `state[t]` the
`AgentState`. A token is who wrote it, under which version of the weights, and one of a few texts, enough to tell an
opened and a closed tool call and an image. `Start` is both beginning and continuing: the agent data of a cancelled
output is the next run's. `Interrupt` is the test of the event at the head of the loop; a request that is cut returns
the tokens so far (`Replied`, `HandleFragment`), a paused server returns none (`Accept`). `phase` and `pending` are a
synchronisation: in each of its steps the calls to the worker and to the server are under way together and land in any
order. `AgentTurns` is the same conversation with whole turns of the model, the tools and the user; `ToolAgentLoop`
implements it when a turn is seen as one step at its last fragment (`ImplementsAgentTurns`).

### NixlChain and WeightStream

A buffer is an array of bytes, each tagged with its tensor, so that an offset that overlaps is visible. `PrevAgents`,
`NextAgents` are `build_topology` with Python's negative slices. Every rank alternates between two buffers: `Fill`,
`SendBucket`, `SendLast`, `SendDone` at the trainer, `BeginRead`, the handing out, and the end of a round at a rollout
rank. Remote reads move one byte per step, and device copies happen later than they are issued, in the order of the
stream: what the code waits for, and what not, decides whether a buffer is still being read when it is written.
`got[n]` maps to the tensors handed out in `WeightStream`.

### NcclBroadcast

`op[n]` is the thread of `BroadcastOperation` at rank n, which announces or hears the metadata and then joins the
broadcast, while the coroutine `pc[n]` fills or empties the other buffer. `Subscribe` is the moment the publisher
learns of a socket, which nothing waits for: `Announce` drops what it sends before (`lost`). `Broadcast` is the
collective: all ranks or none. A bucket is an interval of tensors, and a buffer a set of (update, tensor) pairs, so
bytes of the previous update are not mistaken for this one's.

## 3. Runs

| run | module, cfg | what it shows |
| --- | --- | --- |
| collection | MCTrainingData, MCTrainingData | every behaviour of a task of four iterations with every failure at every place, and every transcript it leaves through the scripts of the three recipes |
| checkpoint | MCCheckpoint, MCCheckpoint | actor and critic, two ranks, limits 2 and 3, two crashes: the tracked checkpoint is loadable and of one attempt, what rotation removes has enough newer complete ones, training ends, `DurableProgress` is implemented |
| fully_async | MCFullyAsync, MCFullyAsync | five samples, one failing generation: freshness, staleness, wake-ups, the processor, and that the trainer ends |
| partial_rollout | MCFullyAsync, MCPartialRollout | no sample is lost without a trace or doubled, with interrupted samples and a failing one |
| synchronous_mode | MCFullyAsync, MCSynchronous | staleness 0 is synchronous; `SampleFlow` is implemented |
| round_pipeline | MCRoundPipeline, MCRoundPipeline | two rounds of each recipe with two crashes anywhere |
| nixl_chain | MCNixlChain, MCNixlChain | no buffer changes under its reader, `WeightStream` is implemented, every rank returns |
| nccl_broadcast | MCNcclBroadcast, MCNcclBroadcast | two updates with late subscriptions: metadata and weights match; an update ends unless an announcement was lost |
| agent_loop | MCToolAgentLoop, MCToolAgentLoop | one trajectory interrupted at every await by up to two synchronisations: outputs, versions, tool calls, the pause, `AgentTurns` |
| reward_service | MCRewardService, MCRewardService | three items in two reward loops, two workers of which one may be down, hang, reject and come back, under both managers |
| rotation_before_tracker | MCCheckpoint, MCRotationFirst | violated: with a limit of 1 the tracker can name a checkpoint that is gone |
| interrupted_continue | MCFullyAsync, MCInterruptedContinue | violated: interrupted samples may never continue |

### Bounds, and why they are enough

* `MaxIter = 4`, `MaxImgs = 1`: the scripts pass one image and 20 or 30 iterations. Four iterations hold a failed
  first, middle and last one beside a good one, clipping that has to skip a failure text, and a gap of any kind.
* `Ranks = {r1, r2}`, `T = 5`, `SaveFreq = 2`, two crashes: two regular saves, the last one, and more by
  `should_save_ckpt_esi`, so each of three attempts can rotate; a directory half written by one attempt and
  overwritten by another needs two ranks and one crash. The actor keeps 2 checkpoints and the critic 3, so one more
  removed than is due shows before and after the last one. A limit of 1 is the run rotation_before_tracker (`T = 4`).
* `FullyAsync`: `MaxRequired` is twice a version's samples, so a version's samples wait while the next ones are
  generated; `MaxConcurrent` of 2 or 3 lets tasks race; 4 to 7 samples are two to three versions and a remainder that
  makes no batch. `PendingCap` is 128 in the code; 2 and 3 let `pending_queue` be full, and `ProcessorOrderly` states
  its dependence on it.
* `Rounds = 2`, `MaxCrashes = 2`, `MaxVersion = 2`: a middle and a last round; two crashes let a second rerun meet
  what the first rerun left (a checkpoint that was finished and then trained further).
* `NixlChain`: three rollout ranks are a first, a middle and a last one; seven tensors of one or two bytes in buckets
  of three are four buckets, so both buffers are used again; one bucket has a gap, as the next tensor does not fit,
  two are full and the last one is partial. `R >= 2` because of section 7.
* `NcclBroadcast`: seven tensors in buckets of two, buckets filled exactly, one with a gap, one with a single tensor
  and a partial last one; two updates let a thread or a socket of the first meet the second.
* `ToolAgentLoop`: one trajectory, as trajectories share only the event and the pause; a response limit of 4 and a
  model length of 6 let a message be cut twice, a tool call be split, and the limit fall inside a fragment, inside a
  tool's answer and beyond it. `MaxAssistantTurns = 0` is no limit, `MaxUserTurns = 1` one.
* `RewardService`: two reward loops with two items and one, as `data.chunk` splits three items when padding is on, and
  a semaphore of one in each, so an item waits in the first while the second asks too: the bound of `LossesBounded` is
  reached, and the tighter one of a single semaphore fails there. Two loops of two items are too many states; the
  theorem has any number. Two attempts at the router and two of the asker; one death or restart, beside a worker that
  is down from the start.

TLC stops at `MaxCrashes`, `MaxFailures`, `MaxVersion`, `MaxChanges`, `MaxLength` and `Updates` by guards of `Crash`,
`GenerationRaises`, `SaveCheckpoint`, the synchronisation, the deaths of workers, `EngineStep` and `NextUpdate`:
nothing else is cut off. `CHECK_DEADLOCK FALSE` is set in every cfg because each of these programs comes to an end,
or, with a lost announcement, really stops.

### Fairness

* `Trajectory`: weak fairness of the next step; every await of the code has a timeout or ends the task. `TrainingData`
  has it for `Collect` only.
* `Checkpoint`: `WF(Work)`, everything but `Crash`; barriers are reached by all ranks unless the processes die.
* `FullyAsync`: weak fairness for the feeder, the processor, the trainer and each task (the event loop runs every
  ready coroutine, generation ends). Strong fairness for the monitor and the synchronisation: they compete with the
  processor for the loop, whose ready queue is first in first out, so a coroutine that is ready again and again is
  run.
* `RoundPipeline`: `WF(Script)`; every command ends. Crashes need not happen.
* `NixlChain`, `NcclBroadcast`: weak fairness per coroutine, thread, transfer and device stream; a subscription
  arrives some time. `Spec` is without fairness (the theorems are about it), `FairSpec` with it (the runs check it).
* `ToolAgentLoop`: weak fairness for the synchronisation's calls and each running trajectory (the engine ends a
  message or the cancellation does). None for `Start` and for the beginning of a pause: nobody need submit anything.
* `RewardService`: weak fairness for items, timers and the end of the step, none for workers and the router: a worker
  may hang for ever (the router's client has no time limit). So `EveryBatchEnds` claims an end under the rate limited
  manager only.

## 4. What is proved

All theorems are `Spec => []...`, action properties or refinements, without bounds on the constants beyond the named
assumptions of the modules, which only say that limits are numbers of the right kind, that one batch fits the queue,
and, for NCCL, that a tensor fits a bucket (an assertion of the code).

* **Trajectory.** `TypeCorrect`, `StepsNumbered` (replies carry the numbers of iterations whose screenshot exists, in
  order), `RepliesAligned` (reply k belongs to screenshot k if nothing was dropped) and `InstructionNeverLost`. The
  last replies' numbers are only bounded by `it` once one knows in which part of the loop `pc` is (`CallInLoop`), and
  the instruction stays in place because clipping removes a message other than the second or only its image
  (`Anchored`, `ClipCases`). `PromptsWellFormed` needs how turns follow each other (`ConversationInv`): by their
  iterations, nothing of its own iteration after a reply (`Ordered`), replies exactly those recorded (`Recorded`), a
  format error right after what it reproves (`Explained`, `Reproved`), and what the last turn is at each `pc`
  (`PhaseFacts`). Clipping takes an observation from between them, and `ClipThins` says what that leaves of each
  fact. That one removal is enough for the limit of images is `ImagesBound`: before a turn is appended there are at
  most `MaxImgs`, so only the oldest can be too old (`ClipImages`). Both lists, of replies and of steps, enumerate one
  set of iterations in order, hence are equal (`InOrderLists`, `ListSame`).
* **TrainingData.** `TrainingImagesAligned`, `TrainingSound` and `RoundStops`, for `SpecData`. The invariant is the
  collector's together with what each script found (`DataInv`): scripts run when the task is over (`Frozen`), which is
  why what they read stays what it was (`SameTask`); scored replies are the steps one by one (`ScoredSteps`); counted
  ones have their own number unless a reply before was left out, and only an unparseable one is (`CountedSteps`). Then
  a purged folder with an instruction has every screenshot up to its last (`NoGap`, `InstructionShown`), a reply whose
  number is not its iteration's comes after a dropped iteration (`ShiftedAfterDropped`), and an unparseable reply that
  was not reproved is the last of its task.
* **Checkpoint.** `CheckpointTypeCorrect`; `CheckpointRefines`: saving and resuming implement `DurableProgress`; and,
  if no group has a limit of 1, after any crashes: `RestartPointHolds` (the tracked checkpoint has every shard) and
  `OneAttemptHolds` (all of one attempt).
  `RestartPointIntact` is not inductive: that rotation never reaches the tracked step needs that rank 0's paths ascend
  and end in the newest complete checkpoint (`PathsAscend`), that what is being removed is older than the tracked step
  (`DoomedAreOld`), and which groups are already complete at the step being saved (`FilesOfOneAttempt`). The limit of
  1 is excluded by `NoLimitOfOne`; the run rotation_before_tracker shows that it has to be. `RotationHolds` needs no
  assumption on limits: a complete checkpoint goes only if rotation leaves at least `max_ckpt_to_keep - 1` newer
  complete ones (one if the limit is 1), or if a later attempt saves the same step over it, which was never tracked.
  What is on the paths stays complete and of the present attempt, and what is being removed is older than all of it
  (`PathsStand`); what this save has written is complete when it is registered (`SavedSoFar`); and no file of the
  present attempt is ahead of it, so what a save truncates is an earlier attempt's (`AttemptBehind`).
* **FullyAsync.** `FullyAsyncTypeCorrect`; `WakeUpNotLost`; `FreshnessBound`: at most `max_required_samples + 1`
  samples are under way. The bound follows from `StalenessCovers` (what is under way exceeds `staleness_samples` by at
  most the sample in the processor's hand), which is stable only because the freshness test still holds when the
  sample is taken (`TestStillHolds`), because waits inside the lock keep it (`LockHeld`), and because what
  `update_param_version` counted before it awaited the queue size still covers what there is afterwards
  (`CountCovers`). On this rest five more:
  * `SamplesConserved`: a sample is in one place only, and one that is nowhere was trained on, evicted or failed. The
    places must be told apart (`Apart`, `HandPlace`), and the sum closes (`Counted`) only if a full queue never evicts
    the end signal: when it is in the queue so little is under way that nothing overflows any more (`SignalSafe`,
    `EndOfQueue`).
  * `StalenessBound`: what `get_sample` delivers is behind the trainer by at most 2 and the versions the samples
    queued before it make. `PutLag` bounds the lag when a sample is put, one more while a pause is under way, and
    `QueueLag` adds its place in the queue, counted in samples consumed (`VersionCount`).
  * `SynchronousTraining`: with staleness 0 everything taken since the last count is of the present version
    (`InEpoch`), also while the synchronisation is between its count and its new version (`NextEpoch`).
  * `OrderlyProcessor`: a first burst of tasks cannot outrun `pending_queue` before `done_tasks` is first assigned
    (`FirstBurst`), and the signal is put when nothing is under way and stays last (`Closing`).
  * `SampleFlowImplemented`: every step is a step of `SampleFlow` or a stutter, which is the conservation of samples
    and the bound on what is under way, step by step.
* **RoundPipeline.** `RoundTypeCorrect`, `FreshData`, `GpusStayFree`, `EvaluationsStayJudged`, all from
  `RoundInvariant`. What a round trains on was made one round before by other commands, so the invariant follows a
  directory through the script: `ServedRight` (who is behind the ports at each place), `Collected` (from the
  collection to the end of the round), `Handed` (from there to the next training), `FirstRound` and `Labelled`. A
  rerun starts at round 1 with any disk: `Handed` says nothing about round 1 but that its data is whole, and each
  later round makes its own.
* **RewardService.** `RewardTypeCorrect`; `CountsCover`: a worker's count is what is under way there plus what failed
  there, since only a success takes one off; `LossesAreBounded`: while some worker fails nothing and no item times
  out, at most `num_workers * max_concurrent` requests are lost to another. Every request under way belongs to an item
  inside the semaphore of its loop (`UnderWay`, `WaitedFor`, `SemaphoreHolds`), and the loops together admit no more
  than that (`AskingBounded`), so the worker that fails nothing never has a higher count; the least loaded choice then
  keeps every other count within the bound too (`LoadBounded`), and what failed is part of the count. `WhyStepsRaise`:
  the step raises only for an item that timed out or could not be built, which needs that results are final and of the
  kind the manager can give (`RaisedFor`, `NaiveNeverTimesOut`).
* **NcclBroadcast.** `NcclTypeCorrect`; `BroadcastsMatch`: ranks in a broadcast hold its bucket's metadata, from
  `Announced` (at most one announcement is under way, it is the present one, and who has heard it has none left);
  `WeightsIntact`: every tensor is handed out in turn, from a buffer with its bytes of this update, and a rank that
  returns has the model. Its invariant compares each rank with the sender through the first tensor no broadcast is
  complete for (`NextTensor`, `Expected`), and keeps the two buffers of a rank apart (`TrainerBuffers`: what is filled
  is not what is sent; `RankBuffers`: what is handed out is not what is received into); `Phases` keeps the ranks in
  one update. It holds whether or not announcements are lost.
* **NixlChain.** `BuffersSafe`: what the next rank reads, and what the engine still copies out, is not written,
  notifications are of the bucket they are taken for, and the trainer returns after its last bucket was read. Each
  link between two ranks is in one of four states (`Free`, `Waiting`, `BeingRead`, `Read`), and which one fixes what
  may be in the message queue, the notifications and the transfer, and which of the two buffers the reader uses
  (`Source`); a step of a rank concerns its two links only, so the argument does not depend on the length of the chain.
  `ChainHandsOver`: every step is one of `WeightStream` or a stutter, so every engine is handed the tensors whole, in
  order and once. Its invariant follows the bytes: a bucket that is published holds whole tensors, one after the
  other and apart (`Packed`, `Placed`, `Apart`), and is the one the next rank needs next (`LinkData`); what a rank
  holds it holds whole while it hands it out (`RankData`).
* **ToolAgentLoop.** `OutputsSound`: mask, log-probabilities and images of a completed output match its tokens
  (`Sample`: they do at every moment, wherever the coroutine is suspended, and no image lies beyond the response
  limit, where it would be cut off while still counted). `VersionsSound`: no token is computed while weights are
  replaced, and recorded versions enclose those of the tokens but for one; a run is told the present version or the
  one before (`Told`), and the two flags follow the calls of a synchronisation that land in any order (`Flags`).
  `CallsSound`: a call within the tokens of one version is always seen. A response that ends inside a message has
  tokens of an older version, or its interruption is the present one and the paused server gives it no more before
  the version changes (`Resumes`). `TurnsImplemented`: every step is a turn of `AgentTurns` or a stutter, in full, as
  that specification has no liveness. It needs that tools and interaction are entered after a message only, the
  tools after one with a call (`Turned`), and that fragments leave the whole turns alone (`WholeKept`).

## 5. What is only model-checked

* Liveness (`Terminates`, `TrainingEnds`, `TrainerEnds`, `EveryRoundTrains`, `EveryRankReturns`, `EveryUpdateEnds`,
  `PauseEnds`, `EveryBatchEnds`): out of the installed provers' reach.
* The liveness of `WeightStream` (every engine is handed everything in the end), the other half of
  `ImplementsWeightStream`.
* The two runs that expect a violation, and what they show of a limit of 1 and of interrupted samples.

## 6. Findings

1. `checkpoint_manager.py:171` removes the only other checkpoint before the tracker names the new one when the limit
   is 1 (rotation_before_tracker). A crash in between leaves a tracker that every later start fails on. The comment at
   `:148` says the existing checkpoint is kept until the new save completes.
2. `fully_async_rollouter.py:734`: samples interrupted by a late resume of the monitor fill `staleness_samples` but
   cannot be generated while the Rollouter is paused; the trainer waits for ever (interrupted_continue). The README of
   the recipe says at `:249` that interrupted samples continue.

## 7. Further observations, read off the source

Collection and data:

* `construct_dataset.py:51` drops a reply answered by a format error without counting it, so all later replies of the
  task get the screenshot before theirs; the comment above says the step is dropped to keep images aligned.
  `ImagesAligned` excepts this case.
* A click whose reply has no coordinate is executed at the coordinate of an earlier iteration
  (`run_qwen3_og_...train.py:519`); all tasks share one download directory (`:420`).

Round scripts:

* `webvoyager_collect_data.sh:55` starts the judge's servers beside those that still serve the collecting model. In
  the 4B recipes they die, every task is labelled 0, and the dataset of round 1 is empty; PRO-CUA also misses its
  scored file, in the 8B recipe too. `EveryRoundTrains` is about scripts that were given the data of round 1.
* The last round of every script but `step_rl_rule_based_reward_4b.sh` collects nothing and so does not stop the
  agent's servers: its evaluation is labelled all 0, and the labelling exits at a training directory that was never
  made. `EvaluationsJudged` excepts this case.
* Any file in the directory of round 1 makes a rerun skip the bootstrap (`pro_cua_env.sh:23`), so an interrupted one
  is never repaired. `fbc_*.sh` has no `pkill` before its training: a rerun may find servers on the GPUs, which
  `GpusFree` and `EveryRoundTrains` except.
* `step_rl_rule_based_reward_*.sh:129` name `webvoyager_reward.py`; the repository has only
  `webvoyager_reward_new.py`.

Reward service:

* The router takes a request off a worker's count only when it succeeds (`naive_router.py:162`): a worker that failed
  often and is back gets nothing until the others have caught up. Since it has no time limit, a worker that hangs
  under the naive manager hangs the step for ever.
* One item that times out has other extra infos than the rest, and `reward_loop.py:334` raises a `KeyError` for the
  whole step; under the naive manager one item whose messages cannot be built raises directly. The reward model is
  then left awake.
* An error is retried when its text contains 429 (`webvoyager_reward_new.py:211`). The router turns every error, also
  a 429 of a worker, into a 500, so a real 429 is not retried, and every error is if the port contains 429.
* A request whose asker timed out goes on at the router: more than `max_concurrent` may be under way, and more again
  with several reward loops. `limited.py:195` says that its limits are "enforced consistently across multiple workers",
  and the log line at `:336` that they are shared by all workers; they are attributes of a class in each process
  (`:255`, `:306`), so the service behind the router sees `num_workers` times the limit (8 by default, 4 in
  `pro_cua_4b.sh:128`).

Checkpoints:

* A process that restarts forgets the checkpoints of earlier attempts (`checkpoint_manager.py:59`), which then pile
  up; a directory that `rmtree` could not remove (`:142`) stays half there.
* A save over an untracked step empties files before it writes them (`fsdp_checkpoint_manager.py:233`, `:238`, `:247`).
  If the first save of a run crashed before the tracker was written, the next attempt starts from scratch and
  destroys the group's only complete checkpoint when it reaches that step; nothing was going to load it.
  `RotationKeepsNewer` names this case.
* The tracker file is rewritten in place (`ray_trainer.py:925`); a crash in between leaves an empty file, on which
  every start fails. `TrainingEnds` excepts this case. With several epochs, resuming at an epoch's end depends on the
  restored dataloader (`:1253`).

Asynchronous trainer:

* Its `README.md:139` allows `rollout_num` samples; one more is possible, the one in the processor's hand that
  `staleness_samples` misses (`fully_async_rollouter.py:234`). With threshold 0 it stays within the limit.
* `fully_async_rollouter.py:514` reads `done_tasks` although `pause()` may have emptied `active_tasks` while the
  processor waited for the lock: if no earlier wait assigned it, the processor dies. It takes a burst of tasks at
  least as long as `pending_queue`, hence the first condition of `ProcessorOrderly`.
* Samples interrupted after the end signal stay in `cancel_queue` and are never generated
  (`fully_async_rollouter.py:531`).
* The last synchronisation is called with an argument its method does not take (`fully_async_trainer.py:368`, `:640`),
  so `fit` ends in a `TypeError`; `test_freq` 0 divides by zero (`:367`); `_fit_save_checkpoint` (`:470`) saves after
  every step while the version is a multiple of `save_freq`. A closed queue answers None where a pair is unpacked
  (`message_queue.py:111`).

Agent loop:

* Tool calls are read from the last request's tokens only (`partial_tool_agent_loop.py:222`): a call whose opening was
  generated before an interruption is overlooked. `CallsSeen` is about calls within one fragment.
* A sample submitted early by the monitor is recorded with the version before the one it may be generated with;
  `VersionsRecorded` allows one.
* The length limit is not tested after a user's answer, so the next request may be of an empty message.
* The output has keys `image` and `video` (`partial_tool_agent_loop.py:246`) where `agent_loop.py:637` reads `images`.
* The vLLM server leaves its `req_output` and `cancel_event` entries behind when nothing was generated
  (`vllm_async_server.py:121`).

Weight transfer:

* With one rollout rank the NIXL topology's slices give lists of the wrong length (`nixl_checkpoint_engine.py:297`),
  and the assertion at `base.py:343` fails. A tensor larger than a bucket fails an assertion mid-stream (`:410`) while
  the others wait.
* A late subscription loses an announcement (`nccl_checkpoint_engine.py:189`): that rank waits in `recv_string`, the
  others in the broadcast, for ever. Every update opens sockets and closes none (`:182`).

## 8. What is not modelled, and why

* The browser, the text of pages, prompts and replies, and everything numeric inside the trainer (losses, advantages,
  models, engines, data containers, sequence balancing) are outside what TLC can represent or what order and failure
  can break.
* LLaMA-Factory is vendored and called as one command. The start-up and the sleep of inference servers are calls of
  one library after another.
* The one-step-off trainer, the transfer queue, the vision-language-action experiments, tools and sandboxes,
  visualisers and the other evaluators are not used by the recipes. `webvoyager_reward.py` is not in the repository.
* `ModelRouter` of the collector is round robin under a lock; what matters of it is in `RoundPipeline`.
* Inside modelled parts: validation and checkpoints of the fully asynchronous trainer, several epochs, Megatron
  checkpoints, the path without partial rollout in the agent loop, the choice of a server, the reward loop's token
  buckets and its discriminative models, the collocated and Kimi weight engines. `PROJECT.json` says so at each
  component.

Most lines of the repository are of these kinds, so the modelled share of all lines is small; of the files the modules
map it is about a third.

## 9. Plan

Done, in this order: `Trajectory`, `TrainingData`, `Checkpoint`, `FullyAsync`, `RoundPipeline`, then `NixlChain`,
`NcclBroadcast`, `ToolAgentLoop`, `RewardService`. What is left:

1. The repeated-scroll marks of `filter_repeat_qwen3.py` against a reference definition over bounded transcripts, to
   replace the arbitrary subset in `TrainingData`; the rule-based reward as a checked operator.
2. `Checkpoint` with several epochs, so that resuming at an epoch's end is covered, and the fully asynchronous
   trainer's own saves; validation inside `update_param_version`.
3. The token buckets of the reward manager, over bounded discrete time.
