----------------------------- MODULE TrainingData -----------------------------
(***************************************************************************)
(* From the folder of one collected task to the training steps made of it. *)
(* The round scripts purge folders whose screenshots have a gap            *)
(* (all but step_rl_*_4b.sh), label them (auto_eval_qwen.py), score their  *)
(* steps (filter_repeat_qwen3.py, PRO-CUA only), build the dataset         *)
(* (construct_dataset.py) and convert it (webvoyager_step_to_parquet.py,   *)
(* the two recipes of verl).  No script records which screenshot a reply   *)
(* was given for: each counts replies and hopes to number the images.      *)
(***************************************************************************)
EXTENDS Trajectory

VARIABLES recipe,     \* the entry point: PRO-CUA, step RL by rules, or SFT
          bootstrap,  \* round 1: the data is from webvoyager_collect_data.sh
          stage,      \* the last script that ran over the folder
          folder,     \* the task's folder is there
          verdict,    \* the task's entry in results.json
          dedup,      \* interact_messages_dedup.json, << >> if not written
          dataset,    \* the training steps made of this task
          failed      \* judging or building raised, so the script exits

dataVars == <<recipe, bootstrap, stage, folder, verdict, dedup, dataset, failed>>
allVars == <<vars, dataVars>>

Recipes == {"prm", "rule", "fbc"}
Verdicts == {"failure", "success", "unclear"}     \* 0, 1 and None in results.json

-----------------------------------------------------------------------------
HasTranscript == folder /\ pc = "saved"

\* Mutant: one missing screenshot is tolerated.
HasWideGap == \E i, k \in shots : i + 2 < k /\ i + 1 \notin shots /\ i + 2 \notin shots

\* Two neighbours among the sorted screenshots whose numbers differ by more
\* than one.  A first or a last screenshot that is missing is no gap.
HasGap == \E i, k \in shots : i < k /\ i + 1 \notin shots

\* The text both scripts look for in the second message.
HasInstruction == Len(messages) >= 2 /\ messages[2].kind \in {"obs", "task"}
                                     /\ messages[2].iter = 1

\* Mutant: the file that filter_repeat_qwen3.py would look for.
UnfinishedByLaterFile == MaxIter + 1 \in shots

\* The file create_sliding_window_data takes for "did not finish".
LooksUnfinished == MaxIter \in shots

AnsweredByFormatError(i) ==
  i + 1 \in DOMAIN messages /\ messages[i + 1].kind = "format_error"

\* The verdicts auto_eval_by_gpt4v can return.  It looks for the marks of an
\* answer anywhere in the last message, which may quote a reply; an
\* observation, and the other two failure texts, have none.
PossibleVerdicts ==
  IF ~HasTranscript \/ ~HasInstruction THEN {"failure"}
  ELSE IF Last(messages).kind \in {"obs", "internal_error", "exec_error"}
       THEN {"failure"} ELSE Verdicts

\* What filter_repeat_qwen3.py scores: reply k goes with screenshot k, and a
\* format error, a repetition or an unchanged screenshot scores 0.  It raises,
\* and writes nothing, without the instruction or a readable tool call.
DedupRaises ==
  ~HasInstruction \/ \E i \in Replied : ~HasToolCall(messages[i].kind)

Step(i, image, score) ==
  [kind |-> messages[i].kind, iter |-> messages[i].iter, image |-> image, score |-> score]

Scored(at, repeats) ==
  [k \in DOMAIN at |->
     Step(at[k], k, IF AnsweredByFormatError(at[k]) \/ k \in repeats THEN 0 ELSE 1)]

\* format_to_conv: a reply answered by a format error is left out, and the
\* images are counted over the replies that stay.
FormatToConv ==
  LET kept == InOrder({i \in Replied : ~AnsweredByFormatError(i)})
  IN  [k \in DOMAIN kept |-> Step(kept[k], k, 0)]

\* Mutant: a transcript without a reply raises as well.
RaisesWithoutReply == HasTranscript /\ Replied = {}

\* format_to_conv reads a second message.
FormatRaises == HasTranscript /\ Len(messages) = 1

\* webvoyager_step_to_parquet.py reads the tool calls of a step and of all
\* before it in the conversation, and skips a step with one that is unreadable.
Converted(conv) ==
  LET unreadable == {k \in DOMAIN conv : ~HasToolCall(conv[k].kind)}
  IN  IF unreadable = {} THEN conv ELSE SubSeq(conv, 1, Min(unreadable) - 1)

-----------------------------------------------------------------------------
InitData ==
  /\ Init
  /\ recipe \in Recipes
  /\ bootstrap \in BOOLEAN
  /\ stage = "collect"
  /\ folder = TRUE
  /\ verdict = "none"
  /\ dedup = << >>
  /\ dataset = << >>
  /\ failed = FALSE

Collect == Next /\ UNCHANGED dataVars

\* The shell loop over the screenshots; collecting for round 1 has none, and for
\* step RL by rules the script for 8B has it, the one for 4B does not.
Purge ==
  /\ stage = "collect" /\ pc \in Ended
  /\ \E purges \in IF recipe = "rule" THEN BOOLEAN ELSE {TRUE} :
        folder' = ~(purges /\ ~bootstrap /\ HasGap)
  /\ stage' = "purged"
  /\ UNCHANGED <<vars, recipe, bootstrap, verdict, dedup, dataset, failed>>

Judge ==
  /\ stage = "purged"
  /\ verdict' \in PossibleVerdicts
  /\ stage' = "judged"
  /\ UNCHANGED <<vars, recipe, bootstrap, folder, dedup, dataset, failed>>

\* The marks of an answer and the word ANSWER are in the last message, but no
\* answer follows the word: the exception ends auto_eval_qwen.py.
JudgeRaises ==
  /\ stage = "purged" /\ "success" \in PossibleVerdicts
  /\ failed' = TRUE
  /\ stage' = "stopped"
  /\ UNCHANGED <<vars, recipe, bootstrap, folder, verdict, dedup, dataset>>

\* Only the later rounds of PRO-CUA run it.
Dedup ==
  /\ stage = "judged"
  /\ LET at == InOrder(Replied)
     IN  IF recipe = "prm" /\ ~bootstrap /\ HasTranscript /\ ~DedupRaises
         THEN \E repeats \in SUBSET DOMAIN at : dedup' = Scored(at, repeats)
         ELSE dedup' = << >>
  /\ stage' = "scored"
  /\ UNCHANGED <<vars, recipe, bootstrap, folder, verdict, dataset, failed>>

\* --correct_step_only --finished_traj_only over interact_messages_dedup.json.
\* A step that scored 0 is rescued if it quotes "finished(content=" in a task
\* that was not judged a failure.  The conversion skips none: filter_repeat_qwen3.py
\* wrote nothing for a task with an unreadable call.
BuildScored ==
  /\ stage = "scored" /\ recipe = "prm"
  /\ \E rescued \in SUBSET {k \in DOMAIN dedup : verdict # "failure"} :
       LET kept == InOrder({k \in DOMAIN dedup : dedup[k].score = 1} \cup rescued)
       IN  dataset' = IF LooksUnfinished THEN << >>
                      ELSE [j \in DOMAIN kept |-> dedup[kept[j]]]
  /\ stage' = "built"
  /\ UNCHANGED <<vars, recipe, bootstrap, folder, verdict, dedup, failed>>

\* --correct_traj_only over interact_messages.json: a verdict of 0 skips the
\* task, and a reply that ends in "Action: " is taken out with its image.
BuildWhole ==
  /\ stage = "scored" /\ recipe \in {"rule", "fbc"}
  /\ LET conv == FormatToConv
         used == HasTranscript /\ verdict # "failure"
     IN  \E cut \in SUBSET {k \in DOMAIN conv : conv[k].kind = "bad_plain"} :
           LET left == InOrder(DOMAIN conv \ cut)
               sft  == [j \in DOMAIN left |-> conv[left[j]]]
           IN  dataset' = IF ~used \/ FormatRaises THEN << >>
                          ELSE IF recipe = "rule" THEN Converted(sft) ELSE sft
  /\ failed' = FormatRaises
  /\ stage' = "built"
  /\ UNCHANGED <<vars, recipe, bootstrap, folder, verdict, dedup>>

NextData == Collect \/ Purge \/ Judge \/ JudgeRaises \/ Dedup \/ BuildScored \/ BuildWhole

\* The fairness of Trajectory: a task keeps taking steps.
SpecData == InitData /\ [][NextData]_allVars /\ WF_allVars(Collect)

-----------------------------------------------------------------------------
Steps == {dataset[k] : k \in DOMAIN dataset}
FromScores == recipe = "prm" /\ Steps # {}

(* PRO-CUA: every image a training step names is on disk, although nothing  *)
(* records which screenshots were taken: folders with a gap were purged and *)
(* one without its first screenshot has no instruction.                     *)
ScoredImagesExist == recipe = "prm" => \A s \in Steps : s.image \in shots

(* PRO-CUA: a step has the screenshot its reply was given for, unless a     *)
(* call to the model failed earlier in the task: the one failure that shows *)
(* in no file.                                                              *)
ScoredImagesAligned ==
  recipe = "prm" =>
    \A s \in Steps : s.image = s.iter \/ \E d \in dropped \cap shots : d < s.iter

(* Step RL by rules and SFT: a wrong image has one of two causes, an        *)
(* iteration that left no reply or a reply that was left out before.        *)
WholeImagesAligned ==
  recipe # "prm" =>
    \A s \in Steps :
      \/ s.image = s.iter
      \/ \E d \in dropped : d < s.iter
      \/ \E k \in DOMAIN steps : steps[k].kind \in Bad /\ steps[k].iter < s.iter

(* No script records which screenshot a reply was given for; still, what    *)
(* goes wrong with the images of the dataset is known for each recipe.      *)
ImagesAligned == ScoredImagesExist /\ ScoredImagesAligned /\ WholeImagesAligned

(* PRO-CUA: a reply the collector could not parse is never trained on in a  *)
(* task that was judged a failure, unless no screenshot was taken after it, *)
(* so that no format error follows it in the transcript.                    *)
BadReplyOnlyAtEnd ==
  recipe = "prm" /\ verdict = "failure" =>
    \A s \in Steps : s.kind \in Bad => \A i \in shots : i <= s.iter

(* PRO-CUA: a task that is trained on ended with an answer, unless its last *)
(* screenshot failed: the file that stands for "did not finish" is then     *)
(* missing.                                                                 *)
TrainedTasksFinished ==
  FromScores => \/ steps[Len(steps)].kind \in Answers
                \/ MaxIter \in dropped \ shots

(* No recipe trains on a task whose instruction never reached the model:    *)
(* one script asserts it, the other's verdict rules it out.                 *)
InstructionTrained == Steps # {} => HasInstruction

(* What filters on files and texts, each with its own idea of a finished    *)
(* task, leave to train on.                                                 *)
TrainedTrajectoriesSound ==
  BadReplyOnlyAtEnd /\ TrainedTasksFinished /\ InstructionTrained

(* One task stops the round in two cases only, whatever failed while it was *)
(* collected: none of its screenshots could be taken and its recipe is not  *)
(* PRO-CUA, or the judge finds no answer in a last message that quotes one. *)
OneTaskStopsRound ==
  failed => \/ stage = "built" /\ recipe # "prm" /\ shots = {}
            \/ stage = "stopped" /\ Last(messages).kind \in Replies \cup {"format_error"}
=============================================================================
