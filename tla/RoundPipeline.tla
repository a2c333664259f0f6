---------------------------- MODULE RoundPipeline ----------------------------
(* The entry points pro_cua_*.sh, step_rl_rule_based_reward_*.sh and fbc_*.sh: *)
(* each round builds a dataset, trains a model on it, serves the model, lets   *)
(* it act for an evaluation and for the next round's data, and has both        *)
(* labelled by a judge model.  The scripts share one set of ports and GPUs     *)
(* with the servers they start and leave running, exit at the first command    *)
(* that fails, and always start again at round 1: what a rerun finds is what   *)
(* earlier runs left on the disk and, unless the machine was restarted, on the *)
(* ports.                                                                      *)
EXTENDS Integers

CONSTANTS Rounds,       \* TOTAL_ROUNDS
          MaxCrashes,   \* bound on crashes
          MaxVersion    \* bound on the versions that checkpoints add to a round

ASSUME RoundsAssumption ==
    Rounds \in Nat \ {0} /\ MaxCrashes \in Nat /\ MaxVersion \in Nat

VARIABLES
    recipe,        \* the entry point: "prm" (PRO-CUA), "rule" (step RL) or "fbc" (SFT)
    baseIsJudge,   \* BASE_MODEL is the model that judges: the scripts for 8B
    provided,      \* the data of round 1 was there, labelled and scored, from the start
    pc, round, run,
    serving,       \* the model behind the ports 8001-8008
    data,          \* data[<<kind, r>>]: the directory round_r of the kind
    weights,       \* weights[r]: the checkpoint of round r, a version and whether it is final
    merged         \* merged[r]: the version in actor_hf of round r, 0 if there is none

config == <<recipe, baseIsJudge, provided>>
disk == <<data, weights, merged>>
vars == <<config, pc, round, run, serving, disk>>

-------------------------------------------------------------------------------
(* A model is the round that made it and the version of its weights.           *)
Nobody == <<-1, 0>>
Base   == <<0, 0>>
Judge  == IF baseIsJudge THEN Base ELSE <<Rounds + 1, 0>>

\* Servers that start while others hold the ports and the GPUs die.
Launched(model) == IF serving = Nobody THEN model ELSE serving

Directories == {"train", "eval"} \X (1..Rounds + 1)

\* A directory without files counts as absent; labels is results.json.
Absent == [state |-> "absent", by |-> Nobody, labels |-> "none", scored |-> FALSE]
Given == [state |-> "whole", by |-> Base, labels |-> "judge", scored |-> TRUE]

LastRound == round = Rounds

\* Only step RL by rules of the 4B model collects and stops the servers in the
\* last round too.
AlwaysCollects == recipe = "rule" /\ ~baseIsJudge
Collects == ~LastRound \/ AlwaysCollects

Evaluation == pc \in {"evaluate", "evaluating", "labelEval"}
FirstData == pc \in {"bootstrap", "bootstrapping", "bootLabel"}

\* Mutant: the collection writes to the directory of the present round.
TargetNow == <<IF Evaluation THEN "eval" ELSE "train",
               IF FirstData THEN 1 ELSE round>>

\* The directory that a script works on.
Target == <<IF Evaluation THEN "eval" ELSE "train", IF FirstData THEN 1 ELSE round + 1>>

\* --model_name: servers of another model answer that they do not know it.
Requested == IF FirstData THEN 0 ELSE round
Answering == IF serving[1] = Requested THEN serving ELSE Nobody

-------------------------------------------------------------------------------
Init ==
    /\ recipe \in {"prm", "rule", "fbc"} /\ baseIsJudge \in BOOLEAN /\ provided \in BOOLEAN
    /\ pc = "start" /\ round = 1 /\ run = 1 /\ serving = Nobody
    /\ data = [d \in Directories |-> IF d = <<"train", 1>> /\ provided THEN Given ELSE Absent]
    /\ weights = [r \in 1..Rounds |-> [version |-> 0, final |-> FALSE]]
    /\ merged = [r \in 1..Rounds |-> 0]

\* bootstrap_round_1_data: any file in the directory will do.
SkipBootstrap ==
    /\ pc = "start" /\ data[<<"train", 1>>].state # "absent"
    /\ pc' = "construct"
    /\ UNCHANGED <<config, round, run, serving, disk>>

Bootstrap ==
    /\ pc = "start" /\ data[<<"train", 1>>].state = "absent"
    /\ serving' = Launched(Base)
    /\ pc' = "bootstrap"
    /\ UNCHANGED <<config, round, run, disk>>

-------------------------------------------------------------------------------
(* Collecting trajectories.                                                    *)
Opening == [bootstrap |-> "bootstrapping", evaluate |-> "evaluating", collect |-> "collecting"]

\* shutil.rmtree and os.makedirs.
EmptyDirectory ==
    /\ pc \in DOMAIN Opening
    /\ data' = [data EXCEPT ![Target] = Absent]
    /\ pc' = Opening[pc]
    /\ UNCHANGED <<config, round, run, serving, weights, merged>>

Collecting == pc \in {"bootstrapping", "evaluating", "collecting"}

FirstTask ==
    /\ Collecting /\ data[Target].state = "absent"
    /\ data' = [data EXCEPT ![Target].state = "partial", ![Target].by = Answering]
    /\ UNCHANGED <<config, pc, round, run, serving, weights, merged>>

AllTasks ==
    /\ Collecting /\ data[Target].state = "partial"
    /\ data' = [data EXCEPT ![Target].state = "whole"]
    /\ pc' = IF FirstData THEN "bootJudge" ELSE IF ~Evaluation THEN "stop"
             ELSE IF Collects THEN "collect" ELSE "judge"
    /\ UNCHANGED <<config, round, run, serving, weights, merged>>

-------------------------------------------------------------------------------
(* Labelling.                                                                  *)
JudgeNext == [bootJudge |-> "bootLabel", judge |-> "labelEval"]

ServeJudge ==
    /\ pc \in DOMAIN JudgeNext
    /\ serving' = Launched(Judge)
    /\ pc' = JudgeNext[pc]
    /\ UNCHANGED <<config, round, run, disk>>

Labelling == pc \in {"bootLabel", "labelEval", "labelTrain"}

\* results.json is written every 200 tasks ...
FlushLabels ==
    /\ Labelling /\ data[Target].state = "whole" /\ data[Target].labels = "none"
    /\ data' = [data EXCEPT ![Target].labels = "partial"]
    /\ UNCHANGED <<config, pc, round, run, serving, weights, merged>>

\* ... and at the end.  A task the judge does not answer for gets a 0.
AllLabels ==
    /\ Labelling /\ data[Target].state = "whole"
    /\ data' = [data EXCEPT ![Target].labels = IF serving = Judge THEN "judge" ELSE "zero"]
    /\ pc' = IF FirstData THEN "bootStop" ELSE IF Evaluation THEN "labelTrain"
             ELSE IF recipe = "prm" THEN "score" ELSE "end"
    /\ UNCHANGED <<config, round, run, serving, weights, merged>>

\* The output of the judge cannot be written to a directory that was never made.
LabelFails ==
    /\ Labelling /\ data[Target].state = "absent"
    /\ pc' = "exited"
    /\ UNCHANGED <<config, round, run, serving, disk>>

\* filter_repeat_qwen3.py.
Score ==
    /\ pc = "score"
    /\ data' = [data EXCEPT ![<<"train", round + 1>>].scored = TRUE]
    /\ pc' = "end"
    /\ UNCHANGED <<config, round, run, serving, weights, merged>>

StopNext == [bootStop |-> "construct", stop |-> "judge"]

\* Mutant: the servers of the agent are left running for the judge.
StopOnlyBootstrap ==
    /\ pc \in DOMAIN StopNext
    /\ serving' = IF pc = "bootStop" THEN Nobody ELSE serving
    /\ pc' = StopNext[pc]
    /\ UNCHANGED <<config, round, run, disk>>

\* pkill python.
StopServers ==
    /\ pc \in DOMAIN StopNext
    /\ serving' = Nobody
    /\ pc' = StopNext[pc]
    /\ UNCHANGED <<config, round, run, disk>>

-------------------------------------------------------------------------------
(* Training.                                                                   *)
Own == data[<<"train", round>>]

\* A labelled directory is taken to hold a step that can be trained on.  With
\* some labels only, it depends on whether a task without one has a transcript.
MayBuild == /\ Own.by # Nobody
            /\ IF recipe = "prm" THEN Own.scored ELSE Own.labels \in {"judge", "partial"}
MayFail == ~MayBuild \/ (recipe # "prm" /\ Own.labels = "partial")

Construct ==
    /\ pc = "construct" /\ MayBuild
    /\ pc' = "free"
    /\ UNCHANGED <<config, round, run, serving, disk>>

ConstructFails ==
    /\ pc = "construct" /\ MayFail
    /\ pc' = "exited"
    /\ UNCHANGED <<config, round, run, serving, disk>>

\* Mutant: no pkill before the training.
GpusNotFreed ==
    /\ pc = "free"
    /\ pc' = "train"
    /\ UNCHANGED <<config, round, run, serving, disk>>

\* pkill python before the training; fbc_*.sh has none.
FreeGpus ==
    /\ pc = "free"
    /\ serving' = IF recipe = "fbc" THEN serving ELSE Nobody
    /\ pc' = "train"
    /\ UNCHANGED <<config, round, run, disk>>

\* Servers that still hold the memory of the GPUs leave none for the training.
TrainFails ==
    /\ pc = "train" /\ serving # Nobody
    /\ pc' = "exited"
    /\ UNCHANGED <<config, round, run, serving, disk>>

\* A checkpoint before the last step: main_ppo resumes at it.
SaveCheckpoint ==
    /\ pc = "train" /\ serving = Nobody /\ recipe # "fbc"
    /\ ~weights[round].final /\ weights[round].version < MaxVersion
    /\ weights' = [weights EXCEPT ![round].version = @ + 1]
    /\ UNCHANGED <<config, pc, round, run, serving, data, merged>>

\* A final checkpoint of an earlier run is trained further only if the new
\* dataset has more steps.  SFT starts over and writes the model itself.
Trained(more) ==
    LET resumed == recipe # "fbc" /\ weights[round].final /\ ~more
        version == weights[round].version + (IF resumed THEN 0 ELSE 1)
    IN  /\ weights' = [weights EXCEPT ![round] = [version |-> version, final |-> TRUE]]
        /\ IF recipe = "fbc" THEN merged' = [merged EXCEPT ![round] = version] /\ pc' = "serve"
                             ELSE merged' = merged /\ pc' = "merge"

Train ==
    /\ pc = "train" /\ serving = Nobody
    /\ \E more \in BOOLEAN : Trained(more)
    /\ UNCHANGED <<config, round, run, serving, data>>

\* Mutant: a merged model that is there is not merged again.
MergeOnce ==
    /\ pc = "merge"
    /\ merged' = [merged EXCEPT ![round] = IF @ = 0 THEN weights[round].version ELSE @]
    /\ pc' = "serve"
    /\ UNCHANGED <<config, round, run, serving, data, weights>>

\* The checkpoint that the tracker names becomes actor_hf.
Merge ==
    /\ pc = "merge"
    /\ merged' = [merged EXCEPT ![round] = weights[round].version]
    /\ pc' = "serve"
    /\ UNCHANGED <<config, round, run, serving, data, weights>>

ServeAgent ==
    /\ pc = "serve"
    /\ serving' = Launched(<<round, merged[round]>>)
    /\ pc' = "evaluate"
    /\ UNCHANGED <<config, round, run, disk>>

EndRound ==
    /\ pc = "end"
    /\ serving' = Nobody
    /\ IF LastRound THEN round' = round /\ pc' = "done"
                    ELSE round' = round + 1 /\ pc' = "construct"
    /\ UNCHANGED <<config, run, disk>>

-------------------------------------------------------------------------------
\* A command dies or the machine does, and the script is started again.  Servers
\* were started with nohup: they outlive the script but not the machine.
Crash ==
    /\ pc \notin {"done", "exited"} /\ run <= MaxCrashes
    /\ run' = run + 1 /\ round' = 1 /\ pc' = "start"
    /\ serving' \in {serving, Nobody}
    /\ UNCHANGED <<config, disk>>

Script ==
    \/ SkipBootstrap \/ Bootstrap \/ EmptyDirectory \/ FirstTask \/ AllTasks
    \/ ServeJudge \/ FlushLabels \/ AllLabels \/ LabelFails \/ Score \/ StopServers
    \/ Construct \/ ConstructFails \/ FreeGpus \/ TrainFails \/ SaveCheckpoint \/ Train
    \/ Merge \/ ServeAgent \/ EndRound

Next == Script \/ Crash

\* Every command of the script ends.
Spec == Init /\ [][Next]_vars /\ WF_vars(Script)

-------------------------------------------------------------------------------
\* Types; a model that serves was merged before.
Models == (-1..Rounds + 1) \X Nat
TypeOK ==
    /\ recipe \in {"prm", "rule", "fbc"} /\ baseIsJudge \in BOOLEAN /\ provided \in BOOLEAN
    /\ pc \in {"start", "bootstrap", "bootstrapping", "bootJudge", "bootLabel", "bootStop",
               "construct", "free", "train", "merge", "serve", "evaluate", "evaluating",
               "collect", "collecting", "stop", "judge", "labelEval", "labelTrain", "score",
               "end", "done", "exited"}
    /\ round \in 1..Rounds /\ run \in 1..MaxCrashes + 1
    /\ serving \in Models /\ (serving[1] \in 1..Rounds => serving[2] > 0)
    /\ data \in [Directories -> [state : {"absent", "partial", "whole"}, by : Models,
                                 labels : {"none", "partial", "judge", "zero"},
                                 scored : BOOLEAN]]
    /\ weights \in [1..Rounds -> [version : Nat, final : BOOLEAN]]
    /\ merged \in [1..Rounds -> Nat]

\* However often a crash sent the script back to round 1, no round trains on what
\* an interrupted collection left, and from round 2 on it trains on what the
\* present version of the model before it collected, labelled by the judge and,
\* for PRO-CUA, scored.
TrainedOnFreshData ==
    pc \in {"free", "train"} =>
        /\ Own.state = "whole"
        /\ round > 1 => /\ Own.by = <<round - 1, weights[round - 1].version>>
                        /\ Own.labels = "judge"
                        /\ recipe = "prm" => Own.scored

\* The training never meets servers on its GPUs, except that a rerun of the SFT
\* script may find those of the run before.
GpusFree == pc = "train" /\ serving # Nobody => recipe = "fbc" /\ run > 1

\* An evaluation is labelled by the judge, except the one after the last round of
\* all scripts but one: the agent's servers are not stopped before the judge's start.
EvaluationsJudged ==
    \A r \in 1..Rounds + 1 :
        data[<<"eval", r>>].labels = "zero" => r = Rounds + 1 /\ ~AlwaysCollects

\* Once crashes stop, a script that was given the data of round 1 trains every
\* round, except that a crash of the SFT script may leave servers that make each
\* rerun fail.
EveryRoundTrains ==
    <>(\/ \A r \in 1..Rounds : weights[r].final /\ merged[r] # 0
       \/ ~provided
       \/ recipe = "fbc" /\ run > 1)

-------------------------------------------------------------------------------
(* The parts of the inductive invariant behind the first three.                *)

\* What the model of this round collects for the next one.
Present == <<round, weights[round].version>>
Upcoming == data[<<"train", round + 1>>]

\* Who holds the ports and the GPUs.
ServedRight ==
    /\ run = 1 /\ pc \in {"start", "construct", "free", "train"} => serving = Nobody
    /\ recipe # "fbc" /\ pc = "train" => serving = Nobody
    /\ pc \in {"merge", "serve"} => serving = Nobody /\ weights[round].version > 0
    /\ pc = "serve" => merged[round] = weights[round].version
    /\ \A r \in 1..Rounds : weights[r].final => weights[r].version > 0
    /\ pc \in {"evaluate", "evaluating", "collect", "collecting"} => serving = Present
    /\ pc = "judge" /\ Collects => serving = Nobody
    /\ pc \in {"labelEval", "labelTrain"} /\ Collects => serving = Judge

\* From the collection to the end of the round.
Collected ==
    /\ pc \in {"collect", "collecting", "stop"} => Collects
    /\ pc = "collecting" /\ Upcoming.state # "absent" => Upcoming.by = Present
    /\ pc \in {"stop", "judge", "labelEval", "labelTrain"} /\ Collects =>
          Upcoming.state = "whole" /\ Upcoming.by = Present
    /\ pc \in {"score", "end"} =>
          Upcoming.state = "whole" /\ Upcoming.by = Present /\ Upcoming.labels = "judge"
    /\ pc = "end" /\ recipe = "prm" => Upcoming.scored

\* The data of round 1 is made in round 1.
FirstRound == pc = "start" \/ FirstData \/ pc \in {"bootJudge", "bootStop"} => round = 1

\* From the start of the next round to its training.
Handed ==
    /\ pc \in {"free", "train"} => Own.state = "whole"
    /\ pc \in {"construct", "free", "train"} /\ round > 1 =>
          /\ Own.state = "whole" /\ Own.by = <<round - 1, weights[round - 1].version>>
          /\ Own.labels = "judge" /\ (recipe = "prm" => Own.scored)

\* Labels and scores are for whole directories only, and the directory after the
\* last round is made by that one script alone.
Labelled ==
    /\ \A d \in Directories :
          data[d].labels # "none" \/ data[d].scored => data[d].state = "whole"
    /\ ~AlwaysCollects => data[<<"train", Rounds + 1>>].state = "absent"

RoundInv == TypeOK /\ ServedRight /\ Collected /\ FirstRound /\ Handed /\ Labelled /\ EvaluationsJudged

===============================================================================
