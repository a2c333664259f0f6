------------------------- MODULE RoundPipelineProofs -------------------------
(* What the round scripts guarantee for any number of rounds, crashes and      *)
(* checkpoints: no round trains on anything but fresh data, whatever earlier   *)
(* runs left on the disk and on the ports.                                     *)
EXTENDS RoundPipeline, TLAPS

USE RoundsAssumption

Entry == [state : {"absent", "partial", "whole"}, by : Models,
          labels : {"none", "partial", "judge", "zero"}, scored : BOOLEAN]

\* The fixed models and directories have their types.
LEMMA ConstantTypes ==
  ASSUME TypeOK
  PROVE  /\ Nobody \in Models /\ Base \in Models /\ Judge \in Models
         /\ Nobody[1] = -1 /\ Base[1] = 0 /\ Judge[1] \notin 1 .. Rounds
         /\ Absent \in Entry /\ Given \in Entry
BY DEF TypeOK, Nobody, Base, Judge, Models, Absent, Given, Entry

\* A script works on a directory that there is.
LEMMA TargetType ==
  ASSUME TypeOK
  PROVE  Target \in Directories /\ <<"train", round>> \in Directories
                /\ <<"train", round + 1>> \in Directories
BY DEF TypeOK, Target, Directories

\* Any of the fields of an entry may change.
LEMMA EntryUpdates ==
  ASSUME NEW D, NEW f \in [D -> Entry], NEW d \in D
  PROVE  /\ \A b \in Models : [f EXCEPT ![d].state = "partial", ![d].by = b] \in [D -> Entry]
         /\ [f EXCEPT ![d].state = "whole"] \in [D -> Entry]
         /\ \A l \in {"partial", "judge", "zero"} : [f EXCEPT ![d].labels = l] \in [D -> Entry]
         /\ [f EXCEPT ![d].scored = TRUE] \in [D -> Entry]
<1>1. /\ f[d] \in Entry
      /\ \A e \in Entry : [f EXCEPT ![d] = e] \in [D -> Entry]
  OBVIOUS
<1>2. /\ \A b \in Models : [f[d] EXCEPT !.state = "partial", !.by = b] \in Entry
      /\ [f[d] EXCEPT !.state = "whole"] \in Entry
      /\ \A l \in {"partial", "judge", "zero"} : [f[d] EXCEPT !.labels = l] \in Entry
      /\ [f[d] EXCEPT !.scored = TRUE] \in Entry
  BY <1>1 DEF Entry
<1> QED BY <1>1, <1>2

\* Whoever is asked, the answer comes from a model.
LEMMA AnsweringType ==
  ASSUME TypeOK
  PROVE  Answering \in Models
BY ConstantTypes DEF TypeOK, Answering

\* Which directory a script works on.
LEMMA Places ==
        /\ Evaluation => Target = <<"eval", round + 1>>
        /\ FirstData => Target = <<"train", 1>>
        /\ ~Evaluation /\ ~FirstData => Target = <<"train", round + 1>>
BY DEF Target, Evaluation, FirstData

-----------------------------------------------------------------------------
(* What the steps that work on directories do, place by place.                *)
DiskStep == EmptyDirectory \/ FirstTask \/ AllTasks \/ FlushLabels \/ AllLabels \/ Score

\* They change nothing but the disk and their place in the script.
LEMMA DiskFrame ==
  ASSUME DiskStep
  PROVE  /\ UNCHANGED <<recipe, baseIsJudge, provided>>
         /\ UNCHANGED <<round, run, serving, weights, merged>>
BY DEF DiskStep, EmptyDirectory, FirstTask, AllTasks, FlushLabels, AllLabels, Score, config

\* Their places.
LEMMA Moves ==
        /\ EmptyDirectory => <<pc, pc'>> \in {<<"bootstrap", "bootstrapping">>,
                               <<"evaluate", "evaluating">>, <<"collect", "collecting">>}
        /\ FirstTask => pc \in {"bootstrapping", "evaluating", "collecting"} /\ pc' = pc
        /\ AllTasks => \/ pc = "bootstrapping" /\ pc' = "bootJudge"
                       \/ pc = "evaluating" /\ pc' = IF Collects THEN "collect" ELSE "judge"
                       \/ pc = "collecting" /\ pc' = "stop"
        /\ ServeJudge => <<pc, pc'>> \in {<<"bootJudge", "bootLabel">>, <<"judge", "labelEval">>}
        /\ FlushLabels => pc \in {"bootLabel", "labelEval", "labelTrain"} /\ pc' = pc
        /\ AllLabels => \/ pc = "bootLabel" /\ pc' = "bootStop"
                        \/ pc = "labelEval" /\ pc' = "labelTrain"
                        \/ pc = "labelTrain" /\ pc' = IF recipe = "prm" THEN "score" ELSE "end"
        /\ Score => pc = "score" /\ pc' = "end"
        /\ StopServers => <<pc, pc'>> \in {<<"bootStop", "construct">>, <<"stop", "judge">>}
<1>1. EmptyDirectory => <<pc, pc'>> \in {<<"bootstrap", "bootstrapping">>,
                         <<"evaluate", "evaluating">>, <<"collect", "collecting">>}
  BY DEF EmptyDirectory, Opening
<1>2. ServeJudge => <<pc, pc'>> \in {<<"bootJudge", "bootLabel">>, <<"judge", "labelEval">>}
  BY DEF ServeJudge, JudgeNext
<1>3. StopServers => <<pc, pc'>> \in {<<"bootStop", "construct">>, <<"stop", "judge">>}
  BY DEF StopServers, StopNext
<1>4. AllTasks => \/ pc = "bootstrapping" /\ pc' = "bootJudge"
                  \/ pc = "evaluating" /\ pc' = IF Collects THEN "collect" ELSE "judge"
                  \/ pc = "collecting" /\ pc' = "stop"
  BY DEF AllTasks, Collecting, Evaluation, FirstData
<1>5. AllLabels => \/ pc = "bootLabel" /\ pc' = "bootStop"
                   \/ pc = "labelEval" /\ pc' = "labelTrain"
                   \/ pc = "labelTrain" /\ pc' = IF recipe = "prm" THEN "score" ELSE "end"
  BY DEF AllLabels, Labelling, Evaluation, FirstData
<1> QED BY <1>1, <1>2, <1>3, <1>4, <1>5 DEF FirstTask, Collecting, FlushLabels, Labelling, Score

\* No other step changes a directory.
LEMMA DataFrame ==
  ASSUME [Next]_vars, ~DiskStep
  PROVE  data' = data /\ AlwaysCollects' = AlwaysCollects
<1> USE DEF config, disk
<1>1. CASE Script
  BY <1>1 DEF Script, DiskStep, SkipBootstrap, Bootstrap, ServeJudge, LabelFails,
       StopServers, Construct, ConstructFails, FreeGpus, TrainFails, SaveCheckpoint,
       Train, Merge, ServeAgent, EndRound, AlwaysCollects
<1>2. CASE Crash \/ UNCHANGED vars
  BY <1>2 DEF Crash, vars, AlwaysCollects
<1> QED BY <1>1, <1>2 DEF Next

\* They touch one directory: the target, and Score the next training data.
LEMMA OnlyTarget ==
  ASSUME TypeOK, DiskStep, NEW d \in Directories, d # Target
  PROVE  data'[d] = data[d]
<1>1. Score => Target = <<"train", round + 1>>
  BY Places, Moves DEF Evaluation, FirstData
<1>2. data \in [Directories -> Entry]
  BY DEF TypeOK, Entry
<1> QED BY <1>1, <1>2
     DEF DiskStep, EmptyDirectory, FirstTask, AllTasks, FlushLabels, AllLabels, Score

\* What they make of it.
LEMMA AtTarget ==
  ASSUME TypeOK
  PROVE  /\ EmptyDirectory => data'[Target] = Absent
         /\ FirstTask => /\ data[Target].state = "absent"
                         /\ data'[Target] = [data[Target] EXCEPT !.state = "partial", !.by = Answering]
         /\ AllTasks => /\ data[Target].state = "partial"
                        /\ data'[Target] = [data[Target] EXCEPT !.state = "whole"]
         /\ FlushLabels => /\ data[Target].state = "whole"
                           /\ data'[Target] = [data[Target] EXCEPT !.labels = "partial"]
         /\ AllLabels => /\ data[Target].state = "whole"
                         /\ data'[Target] = [data[Target] EXCEPT
                               !.labels = IF serving = Judge THEN "judge" ELSE "zero"]
         /\ Score => data'[Target] = [data[Target] EXCEPT !.scored = TRUE]
<1>1. ASSUME Score PROVE Target = <<"train", round + 1>>
  BY <1>1, Places, Moves DEF Evaluation, FirstData
<1> QED BY <1>1, TargetType
     DEF EmptyDirectory, FirstTask, AllTasks, FlushLabels, AllLabels, Score, TypeOK

-----------------------------------------------------------------------------
\* Each step keeps the types.
LEMMA TypeStep ==
  ASSUME TypeOK, ServedRight, [Next]_vars
  PROVE  TypeOK'
<1> USE DEF config, disk
<1>1. CASE SkipBootstrap
  BY <1>1 DEF SkipBootstrap, TypeOK
<1>2. CASE Bootstrap
  <2>1. serving' \in Models /\ (serving'[1] \in 1 .. Rounds => serving'[2] > 0)
    BY <1>2, ConstantTypes DEF Bootstrap, TypeOK, Launched
  <2> QED BY <1>2, <2>1 DEF Bootstrap, TypeOK
<1>3. CASE EmptyDirectory
  <2>1. data' \in [Directories -> Entry]
    BY <1>3, ConstantTypes, TargetType DEF EmptyDirectory, TypeOK, Entry
  <2>2. pc' \in {"bootstrapping", "evaluating", "collecting"}
    BY <1>3 DEF EmptyDirectory, Opening
  <2> QED BY <1>3, <2>1, <2>2 DEF EmptyDirectory, TypeOK, Entry
<1>4. CASE FirstTask
  <2>1. Answering \in Models /\ Target \in Directories
    BY AnsweringType, TargetType
  <2>2. data \in [Directories -> Entry]
    BY DEF TypeOK, Entry
  <2>3. data' \in [Directories -> Entry]
    <3>1. data' = [data EXCEPT ![Target].state = "partial", ![Target].by = Answering]
      BY <1>4 DEF FirstTask
    <3> QED BY <2>1, <2>2, <3>1, EntryUpdates
  <2> QED BY <1>4, <2>3 DEF FirstTask, TypeOK, Entry
<1>5. CASE AllTasks
  BY <1>5, TargetType DEF AllTasks, TypeOK
<1>6. CASE ServeJudge
  BY <1>6, ConstantTypes DEF ServeJudge, TypeOK, JudgeNext, Launched
<1>7. CASE FlushLabels
  <2>1. data' \in [Directories -> Entry]
    <3>1. data \in [Directories -> Entry]
      BY DEF TypeOK, Entry
    <3>2. data' = [data EXCEPT ![Target].labels = "partial"]
      BY <1>7 DEF FlushLabels
    <3> QED BY <3>1, <3>2, TargetType, EntryUpdates
  <2> QED BY <1>7, <2>1 DEF FlushLabels, TypeOK, Entry
<1>8. CASE AllLabels
  <2>1. data' \in [Directories -> Entry]
    <3>1. data \in [Directories -> Entry]
      BY DEF TypeOK, Entry
    <3>2. data' = [data EXCEPT ![Target].labels = IF serving = Judge THEN "judge" ELSE "zero"]
      BY <1>8 DEF AllLabels
    <3> QED BY <3>1, <3>2, TargetType, EntryUpdates
  <2> QED BY <1>8, <2>1 DEF AllLabels, TypeOK, Entry
<1>9. CASE LabelFails
  BY <1>9 DEF LabelFails, TypeOK
<1>10. CASE Score
  <2>1. data' \in [Directories -> Entry]
    <3>1. data \in [Directories -> Entry]
      BY DEF TypeOK, Entry
    <3>2. data' = [data EXCEPT ![<<"train", round + 1>>].scored = TRUE]
      BY <1>10 DEF Score
    <3> QED BY <3>1, <3>2, TargetType, EntryUpdates
  <2> QED BY <1>10, <2>1 DEF Score, TypeOK, Entry
<1>11. CASE StopServers
  BY <1>11, ConstantTypes DEF StopServers, TypeOK, StopNext
<1>12. CASE Construct \/ ConstructFails
  BY <1>12 DEF Construct, ConstructFails, TypeOK
<1>13. CASE FreeGpus \/ TrainFails
  <2>1. CASE FreeGpus
    BY SMTT(30), <2>1, ConstantTypes DEF FreeGpus, TypeOK
  <2>2. CASE TrainFails
    BY <2>2 DEF TrainFails, TypeOK
  <2> QED BY <1>13, <2>1, <2>2
<1>14. CASE SaveCheckpoint
  <2>1. weights' \in [1 .. Rounds -> [version : Nat, final : BOOLEAN]]
    BY <1>14 DEF SaveCheckpoint, TypeOK
  <2> QED BY <1>14, <2>1 DEF SaveCheckpoint, TypeOK
<1>15. CASE Train
  <2>1. PICK more \in BOOLEAN : Trained(more)
    BY <1>15 DEF Train
  <2> DEFINE resumed == recipe # "fbc" /\ weights[round].final /\ ~more
             version == weights[round].version + (IF resumed THEN 0 ELSE 1)
  <2>2. version \in Nat
    BY DEF TypeOK
  <2>3. /\ weights' = [weights EXCEPT ![round] = [version |-> version, final |-> TRUE]]
        /\ \/ merged' = [merged EXCEPT ![round] = version] /\ pc' = "serve"
           \/ merged' = merged /\ pc' = "merge"
    BY <2>1 DEF Trained
  <2> HIDE DEF version
  <2>4. weights' \in [1 .. Rounds -> [version : Nat, final : BOOLEAN]]
    BY <2>2, <2>3 DEF TypeOK
  <2>5. merged' \in [1 .. Rounds -> Nat] /\ pc' \in {"serve", "merge"}
    BY <2>2, <2>3 DEF TypeOK
<2> QED BY <1>15, <2>4, <2>5 DEF Train, TypeOK
<1>16. CASE Merge
  BY <1>16 DEF Merge, TypeOK
<1>17. CASE ServeAgent
  <2>1. serving' = <<round, merged[round]>>
    BY <1>17 DEF ServeAgent, Launched, ServedRight
  <2>2. merged[round] \in Nat /\ merged[round] > 0
    BY <1>17 DEF ServeAgent, ServedRight, TypeOK
  <2>3. serving' \in Models /\ serving'[2] > 0
    BY <2>1, <2>2 DEF Models, TypeOK
  <2> QED BY <1>17, <2>3 DEF ServeAgent, TypeOK
<1>18. CASE EndRound
  BY <1>18, ConstantTypes DEF EndRound, TypeOK, LastRound
<1>19. CASE Crash
  BY SMTT(30), <1>19, ConstantTypes DEF Crash, TypeOK
<1>20. CASE UNCHANGED vars
  BY <1>20 DEF vars, TypeOK
<1> QED BY <1>1, <1>2, <1>3, <1>4, <1>5, <1>6, <1>7, <1>8, <1>9, <1>10, <1>11, <1>12, <1>13,
           <1>14, <1>15, <1>16, <1>17, <1>18, <1>19, <1>20 DEF Next, Script

-----------------------------------------------------------------------------
\* Each step leaves the ports and the GPUs to whom they belong.
LEMMA ServedStep ==
  ASSUME RoundInv, [Next]_vars
  PROVE  ServedRight'
<1> USE DEF RoundInv, config, disk
<1>1. CASE SkipBootstrap \/ Bootstrap
  BY <1>1 DEF SkipBootstrap, Bootstrap, ServedRight
<1>2. CASE DiskStep
  <2>1. Present' = Present /\ Collects' = Collects /\ Judge' = Judge
    BY <1>2, DiskFrame DEF Present, Collects, AlwaysCollects, LastRound, Judge
  <2>2. CASE EmptyDirectory \/ FirstTask \/ FlushLabels \/ Score
    BY <1>2, <2>1, <2>2, DiskFrame, Moves DEF ServedRight
  <2>3. CASE AllTasks \/ AllLabels
    BY <1>2, <2>1, <2>3, DiskFrame, Moves DEF ServedRight
  <2> QED BY <1>2, <2>2, <2>3 DEF DiskStep
<1>3. CASE ServeJudge
  <2>1. Judge' = Judge /\ Collects' = Collects /\ pc' \in {"bootLabel", "labelEval"}
    BY <1>3, Moves DEF ServeJudge, Judge, Collects, AlwaysCollects, LastRound
  <2>2. pc' = "labelEval" /\ Collects => serving' = Judge
    BY <1>3, Moves DEF ServeJudge, ServedRight, Launched
  <2> QED BY <1>3, <2>1, <2>2 DEF ServeJudge, ServedRight
<1>4. CASE LabelFails \/ ConstructFails \/ TrainFails
  BY <1>4 DEF LabelFails, ConstructFails, TrainFails, ServedRight
<1>5. CASE StopServers
  <2>1. serving' = Nobody /\ pc' \in {"construct", "judge"}
    BY <1>5, Moves DEF StopServers
  <2> QED BY <1>5, <2>1 DEF StopServers, ServedRight
<1>6. CASE Construct
  BY <1>6 DEF Construct, ServedRight
<1>7. CASE FreeGpus
  BY <1>7 DEF FreeGpus, ServedRight
<1>8. CASE SaveCheckpoint
  BY <1>8 DEF SaveCheckpoint, ServedRight, TypeOK
<1>9. CASE Train
  <2>1. PICK more \in BOOLEAN : Trained(more)
    BY <1>9 DEF Train
  <2>2. /\ \A r \in 1 .. Rounds : r # round => weights'[r] = weights[r]
        /\ weights'[round].version \in Nat /\ weights'[round].version > 0
    BY <2>1 DEF Trained, TypeOK, ServedRight
  <2>3. IF recipe = "fbc" THEN pc' = "serve" /\ merged'[round] = weights'[round].version
                         ELSE pc' = "merge"
    BY <2>1 DEF Trained, TypeOK
  <2> QED BY <1>9, <2>2, <2>3 DEF Train, ServedRight, TypeOK
<1>10. CASE Merge
  BY <1>10 DEF Merge, ServedRight, TypeOK
<1>11. CASE ServeAgent
  BY <1>11 DEF ServeAgent, Launched, Present, ServedRight
<1>12. CASE EndRound \/ Crash
  BY <1>12 DEF EndRound, Crash, ServedRight, TypeOK
<1>13. CASE UNCHANGED vars
  <2>1. Present' = Present /\ Collects' = Collects /\ Judge' = Judge
    BY <1>13 DEF vars, Present, Collects, AlwaysCollects, LastRound, Judge
  <2> QED BY <1>13, <2>1 DEF vars, ServedRight
<1> QED BY <1>1, <1>2, <1>3, <1>4, <1>5, <1>6, <1>7, <1>8, <1>9, <1>10, <1>11, <1>12, <1>13
     DEF Next, Script, DiskStep

\* Each step keeps the next round's data the present model's.
LEMMA CollectedStep ==
  ASSUME RoundInv, [Next]_vars
  PROVE  Collected'
<1> USE DEF RoundInv, config, disk
<1> DEFINE next == <<"train", round + 1>>
<1>a. next \in Directories /\ data[next] \in Entry
  BY TargetType DEF TypeOK, Entry
<1>1. CASE DiskStep
  <2>1. /\ Present' = Present /\ Collects' = Collects /\ recipe' = recipe
        /\ Upcoming = data[next] /\ Upcoming' = data'[next]
    BY <1>1, DiskFrame DEF Present, Collects, AlwaysCollects, LastRound, Upcoming
  <2>2. CASE Evaluation \/ FirstData
    <3>1. pc' \in {"collecting", "stop", "score", "end"} \cup {"judge", "labelEval", "labelTrain"} =>
             data'[next] = data[next]
      BY <1>a, <1>1, <2>2, Places, OnlyTarget, Moves DEF DiskStep, Evaluation, FirstData
    <3> QED BY <1>1, <2>1, <2>2, <3>1, Moves DEF DiskStep, Evaluation, FirstData, Collected
  <2>3. CASE ~Evaluation /\ ~FirstData
    <3>1. Target = next
      BY <2>3, Places
    <3>2. CASE EmptyDirectory
      BY <2>1, <2>3, <3>1, <3>2, AtTarget, Moves DEF Collected, Evaluation, FirstData, Absent
    <3>3. CASE FirstTask
      <4>1. Answering = Present
        BY <2>3, <3>3, Moves DEF Answering, Requested, ServedRight, Present, Evaluation, FirstData
      <4>2. data'[next].by = Present
        BY <1>a, <3>1, <3>3, <4>1, AtTarget DEF Entry
      <4> QED BY <2>1, <2>3, <3>3, <4>2, Moves DEF Collected, Evaluation, FirstData
    <3>4. CASE AllTasks
      <4>1. data'[next].by = data[next].by /\ data[next].state = "partial" /\ data'[next].state = "whole"
        BY <1>a, <3>1, <3>4, AtTarget DEF Entry
      <4> QED BY <2>1, <2>3, <3>4, <4>1, Moves DEF Collected, Evaluation, FirstData
    <3>5. CASE FlushLabels
      <4>1. data'[next].by = data[next].by /\ data'[next].state = "whole"
        BY <1>a, <3>1, <3>5, AtTarget DEF Entry
      <4> QED BY <2>1, <2>3, <3>5, <4>1, Moves DEF Collected, Evaluation, FirstData
    <3>6. CASE AllLabels
      <4>1. pc = "labelTrain" /\ pc' = IF recipe = "prm" THEN "score" ELSE "end"
        BY <2>3, <3>6, Moves DEF Evaluation, FirstData
      <4>2. data[next].state = "whole"
        BY <3>1, <3>6, AtTarget
      <4>3. Collects
        BY <2>1, <4>2, TargetType DEF Collects, AlwaysCollects, LastRound, Labelled, TypeOK
      <4>4. data[next].by = Present /\ serving = Judge
        BY <2>1, <4>1, <4>3 DEF Collected, ServedRight
      <4>5. /\ data'[next].by = Present /\ data'[next].labels = "judge"
            /\ data'[next].state = "whole"
        BY <1>a, <3>1, <3>6, <4>2, <4>4, AtTarget DEF Entry
      <4> QED BY <2>1, <4>1, <4>5 DEF Collected
    <3>7. CASE Score
      <4>1. /\ data'[next].by = data[next].by /\ data'[next].labels = data[next].labels
            /\ data'[next].state = data[next].state /\ data'[next].scored
        BY <1>a, <3>1, <3>7, AtTarget DEF Entry
      <4> QED BY <2>1, <3>7, <4>1, Moves DEF Collected
    <3> QED BY <1>1, <3>2, <3>3, <3>4, <3>5, <3>6, <3>7 DEF DiskStep
  <2> QED BY <2>2, <2>3
<1>2. CASE ServeJudge \/ StopServers
  <2>1. Present' = Present /\ Collects' = Collects /\ Upcoming' = Upcoming /\ recipe' = recipe
    BY <1>2 DEF ServeJudge, StopServers, Present, Collects, AlwaysCollects, LastRound, Upcoming
  <2> QED BY <1>2, <2>1, Moves DEF Collected
<1>3. CASE SkipBootstrap \/ Bootstrap \/ LabelFails \/ Construct \/ ConstructFails
  BY <1>3 DEF SkipBootstrap, Bootstrap, LabelFails, Construct, ConstructFails, Collected
<1>4. CASE FreeGpus \/ TrainFails \/ SaveCheckpoint
  BY <1>4 DEF FreeGpus, TrainFails, SaveCheckpoint, Collected
<1>5. CASE Train
  <2>1. pc' \in {"serve", "merge"}
    BY <1>5 DEF Train, Trained
  <2> QED BY <2>1 DEF Collected
<1>6. CASE Merge \/ ServeAgent \/ EndRound \/ Crash
  BY <1>6 DEF Merge, ServeAgent, EndRound, Crash, Collected
<1>7. CASE UNCHANGED vars
  <2>1. Present' = Present /\ Collects' = Collects /\ Upcoming' = Upcoming
    BY <1>7 DEF vars, Present, Collects, AlwaysCollects, LastRound, Upcoming
  <2> QED BY <1>7, <2>1 DEF vars, Collected
<1> QED BY <1>1, <1>2, <1>3, <1>4, <1>5, <1>6, <1>7 DEF Next, Script, DiskStep

\* Each step hands fresh data to the training of the round.
LEMMA HandedStep ==
  ASSUME RoundInv, [Next]_vars
  PROVE  Handed'
<1> USE DEF RoundInv, config, disk
<1> DEFINE own == <<"train", round>>
<1>a. own \in Directories /\ data[own] \in Entry /\ own = <<"train", round>>
  BY TargetType DEF TypeOK, Entry
<1>1. CASE SkipBootstrap
  <2>1. pc' = "construct" /\ round' = 1
    BY <1>1 DEF SkipBootstrap, FirstRound
  <2> QED BY <2>1 DEF Handed
<1>2. CASE StopServers
  <2>1. pc' = "construct" => round = 1
    BY <1>2, Moves DEF FirstRound
  <2> QED BY <1>2, <2>1, Moves DEF StopServers, Handed
<1>3. CASE Bootstrap \/ DiskStep \/ ServeJudge \/ LabelFails \/ ConstructFails \/ TrainFails
  <2>1. pc' \notin {"construct", "free", "train"}
    BY <1>3, Moves DEF Bootstrap, DiskStep, LabelFails, ConstructFails, TrainFails
  <2> QED BY <2>1 DEF Handed
<1>4. CASE Construct
  <2>1. Own.state = "whole"
    BY <1>4, <1>a DEF Construct, MayBuild, Labelled, Own, Entry
  <2> QED BY <1>4, <2>1 DEF Construct, Handed, Own
<1>5. CASE FreeGpus
  BY <1>5 DEF FreeGpus, Handed, Own
<1>6. CASE SaveCheckpoint
  <2>1. round > 1 => weights'[round - 1] = weights[round - 1]
    BY <1>6 DEF SaveCheckpoint, TypeOK
  <2> QED BY <1>6, <2>1 DEF SaveCheckpoint, Handed, Own
<1>7. CASE Train
  <2>1. pc' \in {"serve", "merge"}
    BY <1>7 DEF Train, Trained
  <2> QED BY <2>1 DEF Handed
<1>8. CASE Merge \/ ServeAgent
  BY <1>8 DEF Merge, ServeAgent, Handed
<1>9. CASE EndRound
  <2>1. CASE LastRound
    BY <1>9, <2>1 DEF EndRound, Handed
  <2>2. CASE ~LastRound
    <3>1. round' = round + 1 /\ round' - 1 = round
      BY <1>9, <2>2 DEF EndRound, TypeOK
    <3>2. Own' = Upcoming
      BY <1>9, <3>1 DEF EndRound, Own, Upcoming
    <3> QED BY <1>9, <3>1, <3>2 DEF EndRound, Collected, Handed, Present
  <2> QED BY <2>1, <2>2
<1>10. CASE Crash
  BY <1>10 DEF Crash, Handed
<1>11. CASE UNCHANGED vars
  BY <1>11 DEF vars, Handed, Own
<1> QED BY <1>1, <1>2, <1>3, <1>4, <1>5, <1>6, <1>7, <1>8, <1>9, <1>10, <1>11
     DEF Next, Script, DiskStep

\* Each step labels and scores whole directories only.
LEMMA LabelledStep ==
  ASSUME RoundInv, [Next]_vars
  PROVE  Labelled'
<1> USE DEF RoundInv, config, disk
<1> DEFINE last == <<"train", Rounds + 1>>
           Right(e) == e.labels # "none" \/ e.scored => e.state = "whole"
<1>a. last \in Directories /\ data \in [Directories -> Entry]
  BY DEF Directories, TypeOK, Entry
<1>1. CASE DiskStep
  <2>1. AlwaysCollects' = AlwaysCollects
    BY <1>1, DiskFrame DEF AlwaysCollects
  <2>2. Target \in Directories /\ data[Target] \in Entry /\ Right(data[Target])
    BY <1>a, TargetType DEF Labelled
  <2>3. Score => Target = <<"train", round + 1>> /\ data[Target].state = "whole"
    BY Places, Moves DEF Evaluation, FirstData, Collected, Upcoming
  <2>4. Right(data'[Target])
    <3>1. CASE EmptyDirectory
      BY <3>1, AtTarget DEF Absent
    <3>2. CASE FirstTask \/ AllTasks
      BY <2>2, <3>2, AtTarget DEF Entry
    <3>3. CASE FlushLabels \/ AllLabels \/ Score
      BY <2>2, <2>3, <3>3, AtTarget DEF Entry
    <3> QED BY <1>1, <3>1, <3>2, <3>3 DEF DiskStep
  <2>5. ASSUME ~AlwaysCollects, Target = last PROVE data'[last].state = "absent"
    <3>1. data[last].state = "absent"
      BY <2>5 DEF Labelled
    <3>2. ~FirstTask
      <4>1. ASSUME FirstTask PROVE pc = "collecting" /\ LastRound
        BY <2>5, <4>1, Places, Moves DEF Evaluation, FirstData, LastRound, TypeOK
      <4> QED BY <2>5, <4>1 DEF Collected, Collects
    <3>3. ~AllTasks /\ ~FlushLabels /\ ~AllLabels /\ ~Score
      BY <2>3, <2>5, <3>1, AtTarget
    <3> QED BY <1>1, <2>5, <3>2, <3>3, AtTarget DEF DiskStep, Absent
  <2>6. ASSUME NEW d \in Directories PROVE Right(data'[d])
    BY <1>1, <2>4, OnlyTarget DEF Labelled
  <2>7. ~AlwaysCollects => data'[last].state = "absent"
    BY <1>a, <1>1, <2>5, OnlyTarget DEF Labelled
  <2> QED BY <2>1, <2>6, <2>7 DEF Labelled
<1>2. CASE ~DiskStep
  BY <1>2, DataFrame DEF Labelled
<1> QED BY <1>1, <1>2

\* Each step leaves the evaluations before the last to the judge.
LEMMA JudgedStep ==
  ASSUME RoundInv, [Next]_vars
  PROVE  EvaluationsJudged'
<1> USE DEF RoundInv, config, disk
<1>a. data \in [Directories -> Entry] /\ \A r \in 1 .. Rounds + 1 : <<"eval", r>> \in Directories
  BY DEF Directories, TypeOK, Entry
<1>1. CASE DiskStep
  <2>1. AlwaysCollects' = AlwaysCollects
    BY <1>1, DiskFrame DEF AlwaysCollects
  <2>2. ASSUME NEW r \in 1 .. Rounds + 1, data'[<<"eval", r>>].labels = "zero"
        PROVE  r = Rounds + 1 /\ ~AlwaysCollects
    <3> DEFINE d == <<"eval", r>>
    <3>1. d \in Directories /\ data[d] \in Entry
      BY <1>a
    <3>2. CASE data[d].labels = "zero"
      BY <3>2 DEF EvaluationsJudged
    <3>3. CASE data[d].labels # "zero"
      <4>1. Target = d
        BY <1>1, <2>2, <3>1, <3>3, OnlyTarget
      <4>2. ~EmptyDirectory /\ ~FirstTask /\ ~AllTasks
        <5>1. ~EmptyDirectory
          BY <2>2, <4>1, AtTarget DEF Absent
        <5>2. ~FirstTask /\ ~AllTasks
          BY <2>2, <3>1, <3>3, <4>1, AtTarget DEF Entry
        <5> QED BY <5>1, <5>2
      <4>3. ~FlushLabels /\ ~Score /\ (AllLabels => serving # Judge)
        BY <2>2, <3>1, <3>3, <4>1, AtTarget DEF Entry
      <4>4. Evaluation /\ r = round + 1
        BY <4>1, Places
      <4>5. AllLabels /\ pc = "labelEval"
        BY <1>1, <4>2, <4>3, <4>4, Moves DEF Evaluation, DiskStep
      <4>6. ~Collects
        BY <4>3, <4>5 DEF ServedRight
      <4> QED BY <4>4, <4>6 DEF Collects, AlwaysCollects, LastRound
    <3> QED BY <3>2, <3>3
  <2> QED BY <2>1, <2>2 DEF EvaluationsJudged
<1>2. CASE ~DiskStep
  BY <1>2, DataFrame DEF EvaluationsJudged
<1> QED BY <1>1, <1>2

\* Each step keeps the bootstrap in round 1.
LEMMA FirstStep ==
  ASSUME RoundInv, [Next]_vars
  PROVE  FirstRound'
<1> DEFINE First(p) == p \in {"start", "bootstrap", "bootstrapping", "bootJudge", "bootLabel", "bootStop"}
<1> USE DEF RoundInv, config, disk
<1>1. FirstRound <=> (First(pc) => round = 1)
  BY DEF FirstRound, FirstData
<1>2. FirstRound' <=> (First(pc') => round' = 1)
  BY DEF FirstRound, FirstData
<1>3. CASE DiskStep
  BY <1>1, <1>2, <1>3, DiskFrame, Moves DEF DiskStep
<1>4. CASE ServeJudge \/ StopServers
  BY <1>1, <1>2, <1>4, Moves DEF ServeJudge, StopServers
<1>5. CASE Bootstrap
  BY <1>1, <1>2, <1>5 DEF Bootstrap
<1>6. CASE SkipBootstrap \/ LabelFails \/ Construct \/ ConstructFails \/ FreeGpus \/ TrainFails
  BY <1>2, <1>6 DEF SkipBootstrap, LabelFails, Construct, ConstructFails, FreeGpus, TrainFails
<1>7. CASE SaveCheckpoint \/ Train \/ Merge \/ ServeAgent \/ EndRound
  BY <1>2, <1>7 DEF SaveCheckpoint, Train, Trained, Merge, ServeAgent, EndRound
<1>8. CASE Crash \/ UNCHANGED vars
  BY <1>1, <1>2, <1>8 DEF Crash, vars
<1> QED BY <1>3, <1>4, <1>5, <1>6, <1>7, <1>8 DEF Next, Script, DiskStep

-----------------------------------------------------------------------------
\* The invariant holds when a script is first started.
LEMMA RoundInit == Init => RoundInv
<1> SUFFICES ASSUME Init PROVE RoundInv
  OBVIOUS
<1>1. Absent \in Entry /\ Given \in Entry /\ Nobody \in Models /\ Nobody[1] = -1
  BY DEF Absent, Given, Entry, Nobody, Base, Models
<1>2. data \in [Directories -> Entry]
  BY <1>1 DEF Init
<1>3. \A d \in Directories : (data[d] = Given /\ d = <<"train", 1>>) \/ data[d] = Absent
  BY DEF Init
<1>4. TypeOK
  BY <1>1, <1>2 DEF Init, TypeOK, Entry
<1>5. ServedRight /\ Collected /\ FirstRound /\ Handed
  BY DEF Init, ServedRight, Collected, FirstRound, Handed
<1>6. Labelled
  <2>1. \A d \in Directories : data[d].labels # "none" \/ data[d].scored => data[d].state = "whole"
    BY <1>3 DEF Given, Absent
  <2>2. <<"train", Rounds + 1>> \in Directories /\ <<"train", Rounds + 1>> # <<"train", 1>>
    BY DEF Directories
  <2> QED BY <1>3, <2>1, <2>2 DEF Labelled, Absent
<1>7. EvaluationsJudged
  <2>1. ASSUME NEW r \in 1 .. Rounds + 1 PROVE data[<<"eval", r>>].labels # "zero"
    BY <1>3 DEF Directories, Given, Absent
  <2> QED BY <2>1 DEF EvaluationsJudged
<1> QED BY <1>4, <1>5, <1>6, <1>7 DEF RoundInv

\* What the ports, the disk and the place in the script have to do with each
\* other, in whatever state a crash left them.
THEOREM RoundInvariant == Spec => []RoundInv
<1>1. RoundInv /\ [Next]_vars => RoundInv'
  BY TypeStep, ServedStep, CollectedStep, FirstStep, HandedStep, LabelledStep, JudgedStep
     DEF RoundInv
<1> QED BY RoundInit, <1>1, PTL DEF Spec

\* Types of every variable; a model that serves was merged before.
THEOREM RoundTypeCorrect == Spec => []TypeOK
<1>1. RoundInv => TypeOK
  BY DEF RoundInv
<1> QED BY <1>1, RoundInvariant, PTL

\* However often a crash sends a script back to round 1, a round trains on a
\* complete collection, and from round 2 on on what the present version of the
\* model before it collected.
THEOREM FreshData == Spec => []TrainedOnFreshData
<1>1. RoundInv => TrainedOnFreshData
  BY DEF RoundInv, Handed, TrainedOnFreshData
<1> QED BY <1>1, RoundInvariant, PTL

\* The training of PRO-CUA and step RL never meets servers on its GPUs.
THEOREM GpusStayFree == Spec => []GpusFree
<1>1. RoundInv => GpusFree
  BY DEF RoundInv, TypeOK, ServedRight, GpusFree
<1> QED BY <1>1, RoundInvariant, PTL

\* Every evaluation but the last of PRO-CUA and SFT is labelled by the judge.
THEOREM EvaluationsStayJudged == Spec => []EvaluationsJudged
<1>1. RoundInv => EvaluationsJudged
  BY DEF RoundInv
<1> QED BY <1>1, RoundInvariant, PTL
===============================================================================
