------------------------------ MODULE Checkpoint ------------------------------
(* The trainer's checkpoints (verl ray_trainer.py, checkpoint_manager.py and   *)
(* fsdp_checkpoint_manager.py): every worker group (actor, and critic if used) *)
(* writes a shard per rank behind barriers, three files in place, rank 0 of    *)
(* the group removes old checkpoints, then the driver writes data.pt and the   *)
(* tracker file, and a restart continues at the step the tracker names. A      *)
(* crash takes the processes down between any two writes; the files stay.      *)
EXTENDS Integers, Sequences, FiniteSets

CONSTANTS
    Ranks,       \* ranks of a worker group
    Groups,      \* worker groups in saving order, e.g. <<"actor", "critic">>
    Keep,        \* Keep[g]: max_actor/critic_ckpt_to_keep of group g, 0 for None
    T,           \* total_training_steps: one epoch of the data
    SaveFreq,    \* trainer.save_freq
    MaxCrashes   \* bound on crashes

GroupIds == 1..Len(Groups)

ASSUME CheckpointAssumption ==
    /\ Groups \in Seq(STRING) /\ Groups # << >>
    /\ Keep \in [GroupIds -> Nat]
    /\ T \in Nat \ {0} /\ SaveFreq \in Nat \ {0} /\ MaxCrashes \in Nat
    /\ Ranks # {} /\ IsFiniteSet(Ranks)

Steps == 1..T
Attempts == 1..(MaxCrashes + 1)
Down == -1

VARIABLES
    pc,        \* what the driver is doing
    step,      \* self.global_steps of the last update, Down when no process runs
    attempt,   \* which run of the program this is
    group,     \* the worker group being saved
    written,   \* ranks past their torch.save calls of this save
    paths,     \* paths[g]: previous_saved_paths of rank 0 of group g, as steps
    doomed,    \* steps whose directory of this group rmtree is removing
    shard,     \* shard[g][n][r]: the attempt that wrote the three files of rank r,
               \* 0 while one of them is missing, truncated or of another attempt
    data,      \* data[n]: the attempt that wrote global_step_n/data.pt, 0 if none
    made,      \* steps n for which the directory global_step_n exists
    tracker,   \* the step in latest_checkpointed_iteration.txt, 0 if no file
    torn       \* the tracker file is truncated and not yet rewritten

process == <<pc, step, attempt, group, written, paths, doomed>>
disk == <<shard, data, made, tracker, torn>>
vars == <<process, disk>>

Saving == {"ensure", "trim", "write", "register", "rotate", "data", "truncate", "track"}
Running == Saving \cup {"train"}

-------------------------------------------------------------------------------
Prefix(s, k) == {s[i] : i \in 1..k}
Suffix(s, k) == SubSeq(s, k + 1, Len(s))

\* Mutant: capacity is made by removing one path too many.
SurplusOneMore(s, keep) == IF keep > 1 /\ Len(s) >= keep THEN Len(s) - keep + 2 ELSE 0

\* How many of the oldest paths ensure_checkpoint_capacity removes before a save.
Surplus(s, keep) == IF keep > 1 /\ Len(s) >= keep THEN Len(s) - keep + 1 ELSE 0

\* How many of the oldest paths register_checkpoint removes after a save.
Excess(s, keep) == IF keep > 0 /\ Len(s) > keep THEN Len(s) - keep ELSE 0

Complete(g, n) == \A r \in Ranks : shard[g][n][r] # 0

\* _load_checkpoint finds the files of every group that it reads at step n.
Loadable(n) == \A g \in GroupIds : Complete(g, n)

-------------------------------------------------------------------------------
Init ==
    /\ pc = "down" /\ step = Down /\ attempt = 1 /\ group = 1
    /\ written = {} /\ paths = [g \in GroupIds |-> << >>] /\ doomed = {}
    /\ shard = [g \in GroupIds |-> [n \in Steps |-> [r \in Ranks |-> 0]]]
    /\ data = [n \in Steps |-> 0] /\ made = {}
    /\ tracker = 0 /\ torn = FALSE

\* find_latest_ckpt_path: no tracker file, or no directory of that name.
NoLatest == ~torn /\ tracker \notin made
HasLatest == ~torn /\ tracker \in made

Scratch ==
    /\ pc = "down" /\ NoLatest
    /\ pc' = "train" /\ step' = 0
    /\ UNCHANGED <<attempt, group, written, paths, doomed, disk>>

\* Mutant: the step is not taken from the name of the directory.
ResumeUncounted ==
    /\ pc = "down" /\ HasLatest /\ Loadable(tracker)
    /\ pc' = "train" /\ step' = 0
    /\ UNCHANGED <<attempt, group, written, paths, doomed, disk>>

Resume ==
    /\ pc = "down" /\ HasLatest /\ Loadable(tracker)
    /\ pc' = "train" /\ step' = tracker
    /\ UNCHANGED <<attempt, group, written, paths, doomed, disk>>

\* int("") or a missing or truncated shard raises, and raises again however often
\* the run is started: nothing on the disk changes.
StartFails ==
    /\ pc = "down" /\ (torn \/ (HasLatest /\ ~Loadable(tracker)))
    /\ pc' = "stuck"
    /\ UNCHANGED <<step, attempt, group, written, paths, doomed, disk>>

\* One update of the fit loop; esi is should_save_ckpt_esi.
TrainStep ==
    /\ pc = "train" /\ step < T
    /\ step' = step + 1
    /\ \E esi \in BOOLEAN :
          pc' = IF step' = T \/ step' % SaveFreq = 0 \/ esi THEN "ensure" ELSE "train"
    /\ group' = 1
    /\ UNCHANGED <<attempt, written, paths, doomed, disk>>

Finish ==
    /\ pc = "train" /\ step = T
    /\ pc' = "done"
    /\ UNCHANGED <<step, attempt, group, written, paths, doomed, disk>>

-------------------------------------------------------------------------------
\* Rank 0 makes room, then every rank makes the directory and meets the others.
EnsureCapacity ==
    /\ pc = "ensure"
    /\ LET k == Surplus(paths[group], Keep[group]) IN
          /\ doomed' = Prefix(paths[group], k)
          /\ paths' = [paths EXCEPT ![group] = Suffix(@, k)]
    /\ pc' = "trim"
    /\ UNCHANGED <<step, attempt, group, written, disk>>

\* rmtree removes one file after the other.
RemoveFile ==
    /\ pc \in {"trim", "rotate"}
    /\ \E n \in doomed, r \in Ranks :
          /\ shard[group][n][r] # 0
          /\ shard' = [shard EXCEPT ![group][n][r] = 0]
          /\ doomed' = IF \E q \in Ranks \ {r} : shard[group][n][q] # 0
                       THEN doomed ELSE doomed \ {n}
    /\ UNCHANGED <<pc, step, attempt, group, written, paths, data, made, tracker, torn>>

MakeDirectory ==
    /\ pc = "trim" /\ doomed = {}
    /\ made' = made \cup {step} /\ written' = {}
    /\ pc' = "write"
    /\ UNCHANGED <<step, attempt, group, paths, doomed, shard, data, tracker, torn>>

\* The first torch.save of a rank empties a file that an earlier attempt left.
TruncateShard ==
    /\ pc = "write"
    /\ \E r \in Ranks \ written :
          /\ shard[group][step][r] # 0
          /\ shard' = [shard EXCEPT ![group][step][r] = 0]
    /\ UNCHANGED <<pc, step, attempt, group, written, paths, doomed, data, made, tracker, torn>>

\* With its third one the shard is whole again.
WriteShard ==
    /\ pc = "write"
    /\ \E r \in Ranks \ written :
          /\ shard[group][step][r] = 0
          /\ shard' = [shard EXCEPT ![group][step][r] = attempt]
          /\ written' = written \cup {r}
    /\ UNCHANGED <<pc, step, attempt, group, paths, doomed, data, made, tracker, torn>>

\* Mutant: rank 0 goes on as soon as one shard is written.
BarrierDropped ==
    /\ pc = "write" /\ written # {}
    /\ pc' = "register"
    /\ UNCHANGED <<step, attempt, group, written, paths, doomed, disk>>

\* torch.distributed.barrier(): wait for everyone to dump to local.
Barrier ==
    /\ pc = "write" /\ written = Ranks
    /\ pc' = "register"
    /\ UNCHANGED <<step, attempt, group, written, paths, doomed, disk>>

RegisterCheckpoint ==
    /\ pc = "register"
    /\ LET saved == Append(paths[group], step)
           k == Excess(saved, Keep[group])
       IN  /\ doomed' = Prefix(saved, k)
           /\ paths' = [paths EXCEPT ![group] = Suffix(saved, k)]
    /\ pc' = "rotate"
    /\ UNCHANGED <<step, attempt, group, written, disk>>

\* Mutant: the number of the group is raised after the last one too.
GroupOverrun ==
    /\ pc = "rotate" /\ doomed = {}
    /\ group' = group + 1
    /\ pc' = IF group < Len(Groups) THEN "ensure" ELSE "data"
    /\ UNCHANGED <<step, attempt, written, paths, doomed, disk>>

\* Mutant: the driver asks the same group again.
SameGroupAgain ==
    /\ pc = "rotate" /\ doomed = {}
    /\ pc' = "ensure"
    /\ UNCHANGED <<step, attempt, group, written, paths, doomed, disk>>

\* The driver's call returns: the next group, or its own files.
GroupSaved ==
    /\ pc = "rotate" /\ doomed = {}
    /\ IF group < Len(Groups) THEN group' = group + 1 /\ pc' = "ensure"
                              ELSE group' = group /\ pc' = "data"
    /\ UNCHANGED <<step, attempt, written, paths, doomed, disk>>

\* Nothing reads data.pt before the tracker names its step, so it is one write here.
SaveData ==
    /\ pc = "data"
    /\ data' = [data EXCEPT ![step] = attempt]
    /\ pc' = "truncate"
    /\ UNCHANGED <<step, attempt, group, written, paths, doomed, shard, made, tracker, torn>>

\* open(tracker, "w") empties the file ...
TruncateTracker ==
    /\ pc = "truncate"
    /\ torn' = TRUE
    /\ pc' = "track"
    /\ UNCHANGED <<step, attempt, group, written, paths, doomed, shard, data, made, tracker>>

\* ... and closing it writes the step.
WriteTracker ==
    /\ pc = "track"
    /\ tracker' = step /\ torn' = FALSE
    /\ pc' = "train"
    /\ UNCHANGED <<step, attempt, group, written, paths, doomed, shard, data, made>>

\* The processes die; previous_saved_paths is memory and is lost with them.
Crash ==
    /\ pc \in Running /\ attempt <= MaxCrashes
    /\ pc' = "down" /\ step' = Down /\ attempt' = attempt + 1 /\ group' = 1
    /\ written' = {} /\ paths' = [g \in GroupIds |-> << >>] /\ doomed' = {}
    /\ UNCHANGED disk

-------------------------------------------------------------------------------
Work ==
    \/ Scratch \/ Resume \/ StartFails \/ TrainStep \/ Finish
    \/ EnsureCapacity \/ RemoveFile \/ MakeDirectory
    \/ TruncateShard \/ WriteShard \/ Barrier
    \/ RegisterCheckpoint \/ GroupSaved \/ SaveData \/ TruncateTracker \/ WriteTracker

Next == Work \/ Crash

\* The program keeps running unless it crashes.
Spec == Init /\ [][Next]_vars /\ WF_vars(Work)

-------------------------------------------------------------------------------
\* Types of the process state and of the files.
TypeOK ==
    /\ pc \in Running \cup {"down", "done", "stuck"}
    /\ step \in Steps \cup {0, Down} /\ attempt \in Attempts /\ group \in GroupIds
    /\ written \subseteq Ranks /\ doomed \subseteq Steps
    /\ paths \in [GroupIds -> Seq(Steps)]
    /\ shard \in [GroupIds -> [Steps -> [Ranks -> 0..(MaxCrashes + 1)]]]
    /\ data \in [Steps -> 0..(MaxCrashes + 1)]
    /\ made \subseteq Steps /\ tracker \in 0..T /\ torn \in BOOLEAN

\* The step that the tracker names can be loaded: every shard of every group is
\* there (ensure_checkpoint_capacity and register_checkpoint never remove the
\* checkpoint that a restart needs).
RestartPointIntact == tracker # 0 => Loadable(tracker)

\* What a restart would read at the tracked step was all written by one attempt:
\* a directory that a crash left half written is overwritten by every rank
\* before the tracker names it.
RestartPointOfOneAttempt ==
    tracker # 0 =>
        /\ data[tracker] # 0
        /\ \A g \in GroupIds, r \in Ranks : shard[g][tracker][r] \in {0, data[tracker]}

\* Attempt a completed the checkpoint of group g at step n.
SavedBy(g, n, a) == \A r \in Ranks : shard[g][n][r] = a
Saved(g, n) == \E a \in Attempts : SavedBy(g, n, a)

\* The checkpoints that the limit of a group promises to keep while it saves.
MustStay(g) == IF Keep[g] > 1 THEN Keep[g] - 1 ELSE 1

\* A group's complete checkpoint is lost in two ways only. Rotation removes it when
\* enough newer complete ones are there: max_ckpt_to_keep - 1, or with a limit of 1
\* the one just saved (ensure_checkpoint_capacity: "we keep the existing checkpoint
\* until the new save completes successfully"). Or a later attempt saves the step
\* again in place, which the tracker never reached.
RotationKeepsNewer ==
    [][\A g \in GroupIds, n \in Steps :
          Saved(g, n) /\ ~Saved(g, n)' =>
             \/ Cardinality({m \in Steps : m > n /\ Saved(g, m)'}) >= MustStay(g)
             \/ /\ pc = "write" /\ g = group /\ n = step /\ tracker < n
                /\ \A r \in Ranks : shard[g][n][r] < attempt]_vars

\* If crashes stop, training reaches its last step, unless a crash fell between
\* the truncation and the rewriting of the tracker file.
TrainingEnds == <>(pc = "done" \/ (pc = "stuck" /\ torn))

\* Resuming loses only what was not yet tracked, and nothing else moves the run.
Progress == INSTANCE DurableProgress WITH at <- step, durable <- tracker
ImplementsDurableProgress == Progress!Spec

-------------------------------------------------------------------------------
\* The parts of the inductive invariant behind these properties.

\* The files of group g are complete for the step being saved.
Registered(g) ==
    \/ pc \in {"ensure", "trim", "write", "register"} /\ g < group
    \/ pc = "rotate" /\ g <= group
    \/ pc \in {"data", "truncate", "track"}

\* A process is ahead of what is tracked, and the tracked directory exists.
RunState ==
    /\ pc \in {"down", "stuck"} => step = Down
    /\ pc \in Running \cup {"done"} => step \in 0..T /\ tracker <= step
    /\ pc \in Saving => tracker < step
    /\ tracker # 0 => tracker \in made
    /\ pc \in {"write", "register", "rotate", "data", "truncate", "track"} => step \in made

Ascending(s) == \A i, j \in 1..Len(s) : i < j => s[i] < s[j]
Newest(s) == s[Len(s)]

\* A group's paths ascend and end in its newest complete checkpoint.
PathsAscend ==
    \A g \in GroupIds :
        /\ Ascending(paths[g])
        /\ paths[g] # << >> => Newest(paths[g]) = IF Registered(g) THEN step ELSE tracker

\* Only checkpoints older than the tracked one are being removed.
DoomedAreOld ==
    /\ doomed # {} => pc \in {"trim", "rotate"}
    /\ \A n \in doomed : n < tracker

\* What this save has written so far.
SavedSoFar ==
    /\ pc = "write" => \A r \in written : shard[group][step][r] = attempt
    /\ pc = "register" => SavedBy(group, step, attempt)

FilesOfOneAttempt ==
    /\ tracker # 0 => /\ data[tracker] # 0
                      /\ \A g \in GroupIds, r \in Ranks : shard[g][tracker][r] = data[tracker]
    /\ \A g \in GroupIds : Registered(g) => \A r \in Ranks : shard[g][step][r] = attempt
    /\ pc \in {"truncate", "track"} => data[step] = attempt

\* No file of the present attempt is ahead of what it has saved.
AttemptBehind ==
    \A g \in GroupIds, n \in Steps, r \in Ranks :
        /\ shard[g][n][r] <= attempt
        /\ shard[g][n][r] = attempt =>
              /\ n <= step
              /\ pc \in Saving /\ n = step =>
                    \/ Registered(g)
                    \/ pc = "register" /\ g = group
                    \/ pc = "write" /\ g = group /\ r \in written

\* The paths are complete checkpoints of the present attempt. What is being removed
\* is older than all of those left, and enough of them are left.
PathsStand ==
    /\ \A g \in GroupIds : \A i \in 1..Len(paths[g]) : SavedBy(g, paths[g][i], attempt)
    /\ doomed # {} => pc \in {"trim", "rotate"} /\ Len(paths[group]) >= MustStay(group)
    /\ \A n \in doomed, i \in 1..Len(paths[group]) : n < paths[group][i]
===============================================================================
