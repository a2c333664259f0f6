--------------------------- MODULE CheckpointProofs ---------------------------
(***************************************************************************)
(* What checkpointing guarantees for any ranks, worker groups, limits,     *)
(* number of steps and crashes: its types, that it implements              *)
(* DurableProgress, that rotation leaves enough newer checkpoints, and     *)
(* that the tracked checkpoint stays intact when no limit is 1.            *)
(***************************************************************************)
EXTENDS Checkpoint, SequenceTheorems, FiniteSetTheorems, TLAPS

\* Dropping the k oldest paths keeps the others in their order.
LEMMA SuffixFacts ==
  ASSUME NEW S, NEW s \in Seq(S), NEW k \in 0..Len(s)
  PROVE  /\ Suffix(s, k) \in Seq(S)
         /\ Len(Suffix(s, k)) = Len(s) - k
         /\ \A i \in 1..(Len(s) - k) : Suffix(s, k)[i] = s[k + i]
<1>1. Len(s) \in Nat
  BY LenProperties
<1>2. \A i \in (k + 1)..Len(s) : s[i] \in S
  BY <1>1, ElementOfSeq
<1>3. /\ SubSeq(s, k + 1, Len(s)) \in Seq(S)
      /\ Len(SubSeq(s, k + 1, Len(s))) = IF k + 1 <= Len(s) THEN Len(s) - (k + 1) + 1 ELSE 0
      /\ \A i \in 1..(Len(s) - (k + 1) + 1) : SubSeq(s, k + 1, Len(s))[i] = s[(k + 1) + i - 1]
  <2>1. k + 1 \in Int /\ Len(s) \in Int
    BY <1>1
  <2> QED BY <1>2, <2>1, SubSeqProperties
<1>4. ASSUME NEW i \in 1..(Len(s) - k)
      PROVE  Suffix(s, k)[i] = s[k + i]
  <2>1. i \in 1..(Len(s) - (k + 1) + 1) /\ (k + 1) + i - 1 = k + i
    BY <1>1
  <2> QED BY <1>3, <2>1 DEF Suffix
<1> QED BY <1>1, <1>3, <1>4 DEF Suffix

\* The removed paths are steps.
LEMMA PrefixFacts ==
  ASSUME NEW S, NEW s \in Seq(S), NEW k \in 0..Len(s)
  PROVE  Prefix(s, k) \subseteq S
<1>1. Len(s) \in Nat
  BY LenProperties
<1>2. \A i \in 1..k : s[i] \in S
  BY <1>1, ElementOfSeq
<1> QED BY <1>2 DEF Prefix

\* How many paths go: never more than there are, and the newest never goes.
LEMMA RemovedCounts ==
  ASSUME NEW s \in Seq(Steps), NEW keep \in Nat
  PROVE  /\ Surplus(s, keep) \in 0..Len(s)
         /\ Excess(s, keep) \in 0..Len(s)
         /\ Surplus(s, keep) # 0 => Surplus(s, keep) < Len(s)
         /\ Excess(s, keep) # 0 => keep > 0 /\ Excess(s, keep) = Len(s) - keep
<1>1. Len(s) \in Nat
  BY LenProperties
<1> QED BY <1>1 DEF Surplus, Excess

-----------------------------------------------------------------------------
LEMMA ConstantFacts ==
  /\ T \in Nat /\ T >= 1 /\ MaxCrashes \in Nat
  /\ Len(Groups) \in Nat /\ Len(Groups) >= 1
  /\ \A g \in GroupIds : Keep[g] \in Nat
<1>1. Len(Groups) \in Nat /\ Len(Groups) >= 1
  BY CheckpointAssumption, EmptySeq, LenProperties
<1> QED BY <1>1, CheckpointAssumption

LEMMA InitType == Init => TypeOK
<1> SUFFICES ASSUME Init PROVE TypeOK
  OBVIOUS
<1>1. << >> \in Seq(Steps)
  BY EmptySeq
<1>2. paths \in [GroupIds -> Seq(Steps)]
  BY <1>1 DEF Init
<1>3. /\ 0 \in 0..(MaxCrashes + 1) /\ 1 \in Attempts /\ 1 \in GroupIds
  BY ConstantFacts DEF Attempts, GroupIds
<1>4. /\ shard \in [GroupIds -> [Steps -> [Ranks -> 0..(MaxCrashes + 1)]]]
      /\ data \in [Steps -> 0..(MaxCrashes + 1)]
  BY <1>3 DEF Init
<1>5. tracker \in 0..T
  BY ConstantFacts DEF Init
<1> QED BY <1>2, <1>3, <1>4, <1>5 DEF Init, TypeOK

LEMMA TypeInduction == TypeOK /\ RunState /\ [Next]_vars => TypeOK'
<1> SUFFICES ASSUME TypeOK, RunState, [Next]_vars PROVE TypeOK'
  OBVIOUS
<1> USE ConstantFacts DEF TypeOK, disk
<1>1. CASE Scratch
  BY <1>1 DEF Scratch, Running
<1>2. CASE Resume
  BY <1>2 DEF Resume, Running, HasLatest
<1>3. CASE StartFails
  BY <1>3 DEF StartFails
<1>4. CASE TrainStep
  <2>1. step' \in Steps \cup {0, Down}
    BY <1>4 DEF TrainStep, RunState, Running, Steps, Down
  <2>2. pc' \in Running \cup {"down", "done", "stuck"}
    BY <1>4 DEF TrainStep, Running, Saving
  <2>3. group' \in GroupIds
    BY <1>4 DEF TrainStep, GroupIds
  <2> QED BY <1>4, <2>1, <2>2, <2>3 DEF TrainStep
<1>5. CASE Finish
  BY <1>5 DEF Finish
<1>6. CASE EnsureCapacity
  <2> DEFINE k == Surplus(paths[group], Keep[group])
  <2>1. paths[group] \in Seq(Steps) /\ Keep[group] \in Nat
    OBVIOUS
  <2>2. k \in 0..Len(paths[group])
    BY <2>1, RemovedCounts
  <2>3. Suffix(paths[group], k) \in Seq(Steps) /\ Prefix(paths[group], k) \subseteq Steps
    BY <2>1, <2>2, SuffixFacts, PrefixFacts
  <2>4. paths' = [paths EXCEPT ![group] = Suffix(paths[group], k)] /\ doomed' = Prefix(paths[group], k)
    BY <1>6 DEF EnsureCapacity
  <2> HIDE DEF k
  <2>5. paths' \in [GroupIds -> Seq(Steps)]
    BY <2>3, <2>4
  <2>6. doomed' \subseteq Steps
    BY <2>3, <2>4
  <2>7. pc' = "trim" /\ UNCHANGED <<step, attempt, group, written, shard, data, made, tracker, torn>>
    BY <1>6 DEF EnsureCapacity
  <2> QED BY <2>5, <2>6, <2>7 DEF Running, Saving
<1>7. CASE RemoveFile
  BY <1>7 DEF RemoveFile
<1>8. CASE MakeDirectory
  BY <1>8 DEF MakeDirectory, RunState, Running, Saving, Steps
<1>9. CASE WriteShard
  <2>1. PICK r \in Ranks \ written :
          /\ shard' = [shard EXCEPT ![group][step][r] = attempt]
          /\ written' = written \cup {r}
    BY <1>9 DEF WriteShard
  <2>2. attempt \in 0..(MaxCrashes + 1)
    BY DEF Attempts
  <2>3. shard' \in [GroupIds -> [Steps -> [Ranks -> 0..(MaxCrashes + 1)]]]
    BY <2>1, <2>2
  <2>4. written' \subseteq Ranks
    BY <2>1
  <2>5. UNCHANGED <<pc, step, attempt, group, paths, doomed, data, made, tracker, torn>>
    BY <1>9 DEF WriteShard
  <2> QED BY <2>3, <2>4, <2>5
<1>10. CASE TruncateShard
  <2>1. PICK r \in Ranks : shard' = [shard EXCEPT ![group][step][r] = 0]
    BY <1>10 DEF TruncateShard
  <2>2. shard' \in [GroupIds -> [Steps -> [Ranks -> 0..(MaxCrashes + 1)]]]
    <3>1. 0 \in 0..(MaxCrashes + 1)
      OBVIOUS
    <3> QED BY <2>1, <3>1
  <2> QED BY <1>10, <2>2 DEF TruncateShard
<1>11. CASE Barrier
  BY <1>11 DEF Barrier, Running, Saving
<1>12. CASE RegisterCheckpoint
  <2> DEFINE saved == Append(paths[group], step)
             k == Excess(saved, Keep[group])
  <2>1. step \in Steps
    BY <1>12 DEF RegisterCheckpoint, RunState, Running, Saving, Steps
  <2>2. saved \in Seq(Steps) /\ Keep[group] \in Nat
    BY <2>1, AppendProperties
  <2>3. k \in 0..Len(saved)
    BY <2>2, RemovedCounts
  <2>4. Suffix(saved, k) \in Seq(Steps) /\ Prefix(saved, k) \subseteq Steps
    BY <2>2, <2>3, SuffixFacts, PrefixFacts
  <2>5. paths' = [paths EXCEPT ![group] = Suffix(saved, k)] /\ doomed' = Prefix(saved, k)
    BY <1>12 DEF RegisterCheckpoint
  <2> QED BY <1>12, <2>4, <2>5 DEF RegisterCheckpoint, Running, Saving
<1>13. CASE GroupSaved
  BY <1>13 DEF GroupSaved, Running, Saving, GroupIds
<1>14. CASE SaveData
  BY SMTT(30), <1>14 DEF SaveData, RunState, Running, Saving, Steps, Attempts
<1>15. CASE TruncateTracker
  BY <1>15 DEF TruncateTracker, Running, Saving
<1>16. CASE WriteTracker
  BY <1>16 DEF WriteTracker, RunState, Running, Saving
<1>17. CASE Crash
  <2>1. << >> \in Seq(Steps)
    BY EmptySeq
  <2>2. attempt' \in Attempts
    BY <1>17 DEF Crash, Attempts
  <2> QED BY <1>17, <2>1, <2>2 DEF Crash, GroupIds
<1>18. CASE UNCHANGED vars
  BY <1>18 DEF vars, process
<1> QED
  BY <1>1, <1>2, <1>3, <1>4, <1>5, <1>6, <1>7, <1>8, <1>9, <1>11, <1>12, <1>13, <1>14,
     <1>15, <1>16, <1>17, <1>18, <1>10 DEF Next, Work

LEMMA InitRun == Init => RunState
BY DEF Init, RunState, Running, Saving

LEMMA RunInduction == TypeOK /\ RunState /\ [Next]_vars => RunState'
<1> SUFFICES ASSUME TypeOK, RunState, [Next]_vars PROVE RunState'
  OBVIOUS
<1>1. T \in Nat /\ tracker \in 0..T /\ step \in (1..T) \cup {0, -1}
  BY ConstantFacts DEF TypeOK, Steps, Down
<1> USE <1>1 DEF RunState, Running, Saving, disk, Down
<1>2. CASE Scratch
  BY <1>2 DEF Scratch, NoLatest
<1>3. CASE Resume
  BY <1>3 DEF Resume
<1>4. CASE StartFails
  BY <1>4 DEF StartFails
<1>5. CASE TrainStep
  BY <1>5 DEF TrainStep
<1>6. CASE Finish
  BY <1>6 DEF Finish
<1>7. CASE EnsureCapacity
  BY <1>7 DEF EnsureCapacity
<1>8. CASE RemoveFile
  BY <1>8 DEF RemoveFile
<1>9. CASE MakeDirectory
  BY <1>9 DEF MakeDirectory
<1>10. CASE WriteShard
  BY <1>10 DEF WriteShard
<1>11. CASE TruncateShard
  BY <1>11 DEF TruncateShard
<1>12. CASE Barrier
  BY <1>12 DEF Barrier
<1>13. CASE RegisterCheckpoint
  BY <1>13 DEF RegisterCheckpoint
<1>14. CASE GroupSaved
  BY <1>14 DEF GroupSaved
<1>15. CASE SaveData
  BY <1>15 DEF SaveData
<1>16. CASE TruncateTracker
  BY <1>16 DEF TruncateTracker
<1>17. CASE WriteTracker
  BY <1>17 DEF WriteTracker
<1>18. CASE Crash
  BY <1>18 DEF Crash
<1>19. CASE UNCHANGED vars
  BY <1>19 DEF vars, process
<1> QED
  BY <1>2, <1>3, <1>4, <1>5, <1>6, <1>7, <1>8, <1>9, <1>10, <1>12, <1>13, <1>14, <1>15,
     <1>16, <1>17, <1>18, <1>19, <1>11 DEF Next, Work

(* The types of the process state and of the files, for any constants.      *)
THEOREM CheckpointTypeCorrect == Spec => []TypeOK
<1>1. TypeOK /\ RunState /\ [Next]_vars => (TypeOK /\ RunState)'
  BY TypeInduction, RunInduction
<1> QED BY <1>1, InitType, InitRun, PTL DEF Spec

-----------------------------------------------------------------------------
LEMMA RefinedStep == TypeOK /\ RunState /\ [Next]_vars => [Progress!Next]_(Progress!vars)
<1> SUFFICES ASSUME TypeOK, RunState, [Next]_vars
             PROVE  Progress!Next \/ UNCHANGED <<step, tracker>>
  BY DEF Progress!vars
<1>1. T \in Nat /\ tracker \in 0..T /\ step \in (1..T) \cup {0, -1}
  BY ConstantFacts DEF TypeOK, Steps, Down
<1> USE DEF Progress!Next, Progress!Down, Down
<1>2. CASE Scratch
  <2>1. step = Down /\ step' = tracker /\ tracker' = tracker
    BY <1>1, <1>2 DEF Scratch, NoLatest, RunState, disk
  <2> QED BY <2>1 DEF Progress!Resume
<1>3. CASE Resume
  <2>1. step = Down /\ step' = tracker /\ tracker' = tracker
    BY <1>3 DEF Resume, RunState, disk
  <2> QED BY <2>1 DEF Progress!Resume
<1>4. CASE TrainStep
  <2>1. step \in 0..T /\ step < T /\ step' = step + 1 /\ tracker' = tracker
    BY <1>1, <1>4 DEF TrainStep, RunState, Running, disk
  <2> QED BY <1>1, <2>1 DEF Progress!Train
<1>5. CASE WriteTracker
  <2>1. step \in 0..T /\ tracker < step /\ tracker' = step /\ step' = step
    BY <1>1, <1>5 DEF WriteTracker, RunState, Running, Saving
  <2> QED BY <1>1, <2>1 DEF Progress!Persist
<1>6. CASE Crash
  <2>1. step \in 0..T /\ step' = -1 /\ tracker' = tracker
    BY <1>1, <1>6 DEF Crash, RunState, Running, disk
  <2> QED BY <1>1, <2>1 DEF Progress!Crash
<1>7. CASE UNCHANGED vars
  BY <1>7 DEF vars, process, disk
<1>8. CASE \/ StartFails \/ Finish \/ EnsureCapacity \/ RemoveFile \/ MakeDirectory
            \/ TruncateShard \/ WriteShard \/ Barrier \/ RegisterCheckpoint \/ GroupSaved \/ SaveData
            \/ TruncateTracker
  BY <1>8 DEF StartFails, Finish, EnsureCapacity, RemoveFile, MakeDirectory, TruncateShard,
       WriteShard, Barrier, RegisterCheckpoint, GroupSaved, SaveData, TruncateTracker, disk
<1> QED
  BY <1>2, <1>3, <1>4, <1>5, <1>6, <1>7, <1>8 DEF Next, Work

(* Saving and resuming implement durable progress: a run resumes exactly at *)
(* the step last tracked, whatever crashes, and the tracked step only grows. *)
THEOREM CheckpointRefines == Spec => ImplementsDurableProgress
<1>1. TypeOK /\ RunState /\ [Next]_vars => (TypeOK /\ RunState)'
  BY TypeInduction, RunInduction
<1>2. Init => Progress!Init
  BY DEF Init, Progress!Init, Down, Progress!Down
<1> QED BY <1>1, <1>2, InitType, InitRun, RefinedStep, PTL DEF Spec, ImplementsDurableProgress, Progress!Spec

-----------------------------------------------------------------------------
\* Dropping paths keeps the order and the newest one, and drops older ones.
LEMMA SuffixAscends ==
  ASSUME NEW s \in Seq(Steps), Ascending(s),
         NEW k \in 0..Len(s), k # 0 => k < Len(s)
  PROVE  /\ Ascending(Suffix(s, k))
         /\ Suffix(s, k) # << >> => s # << >> /\ Newest(Suffix(s, k)) = Newest(s)
         /\ \A n \in Prefix(s, k) : n < Newest(s)
<1>1. Len(s) \in Nat
  BY LenProperties
<1>2. /\ Suffix(s, k) \in Seq(Steps)
      /\ Len(Suffix(s, k)) = Len(s) - k
      /\ \A i \in 1..(Len(s) - k) : Suffix(s, k)[i] = s[k + i]
  BY SuffixFacts
<1>3. Ascending(Suffix(s, k))
  <2> SUFFICES ASSUME NEW i \in 1..Len(Suffix(s, k)), NEW j \in 1..Len(Suffix(s, k)), i < j
               PROVE  Suffix(s, k)[i] < Suffix(s, k)[j]
    BY DEF Ascending
  <2>1. Suffix(s, k)[i] = s[k + i] /\ Suffix(s, k)[j] = s[k + j]
    BY <1>1, <1>2
  <2>2. k + i \in 1..Len(s) /\ k + j \in 1..Len(s) /\ k + i < k + j
    BY <1>1, <1>2
  <2> QED BY <2>1, <2>2 DEF Ascending
<1>4. ASSUME Suffix(s, k) # << >>
      PROVE  s # << >> /\ Newest(Suffix(s, k)) = Newest(s)
  <2>1. Len(Suffix(s, k)) \in Nat \ {0}
    BY <1>2, <1>4, EmptySeq
  <2>2. Len(s) >= 1 /\ s # << >>
    BY <1>1, <1>2, <2>1, EmptySeq
  <2>3. Len(s) - k \in 1..(Len(s) - k) /\ k + (Len(s) - k) = Len(s)
    BY <1>1, <1>2, <2>1
  <2>4. Suffix(s, k)[Len(s) - k] = s[Len(s)]
    BY <1>2, <2>3
  <2> QED BY <1>2, <2>2, <2>4 DEF Newest
<1>5. ASSUME NEW n \in Prefix(s, k)
      PROVE  n < Newest(s)
  <2>1. PICK i \in 1..k : n = s[i]
    BY DEF Prefix
  <2>2. k < Len(s)
    BY <2>1
  <2>3. i \in 1..Len(s) /\ Len(s) \in 1..Len(s) /\ i < Len(s)
    BY <1>1, <2>2
  <2> QED BY <2>1, <2>3 DEF Ascending, Newest
<1> QED BY <1>3, <1>4, <1>5

\* A newer step at the end keeps the order.
LEMMA AppendAscends ==
  ASSUME NEW s \in Seq(Steps), Ascending(s), NEW n \in Steps,
         s # << >> => Newest(s) < n
  PROVE  /\ Append(s, n) \in Seq(Steps) /\ Append(s, n) # << >>
         /\ Ascending(Append(s, n)) /\ Newest(Append(s, n)) = n
<1>1. Len(s) \in Nat
  BY LenProperties
<1>2. /\ Append(s, n) \in Seq(Steps)
      /\ Append(s, n) # << >>
      /\ Len(Append(s, n)) = Len(s) + 1
      /\ \A i \in 1..Len(s) : Append(s, n)[i] = s[i]
      /\ Append(s, n)[Len(s) + 1] = n
  BY AppendProperties
<1>3. \A i \in 1..Len(s) : s[i] \in Int /\ s[i] < n
  <2> SUFFICES ASSUME NEW i \in 1..Len(s)
               PROVE  s[i] \in Int /\ s[i] < n
    OBVIOUS
  <2>1. s[i] \in Int /\ Len(s) \in 1..Len(s) /\ s[Len(s)] \in Int /\ n \in Int
    BY <1>1, ElementOfSeq, ConstantFacts DEF Steps
  <2>2. s # << >>
    BY <1>1, EmptySeq
  <2>3. s[Len(s)] < n
    BY <2>2 DEF Newest
  <2>4. i = Len(s) \/ s[i] < s[Len(s)]
    BY <1>1, <2>1 DEF Ascending
  <2> QED BY <2>1, <2>3, <2>4
<1>4. ASSUME NEW i \in 1..(Len(s) + 1), NEW j \in 1..(Len(s) + 1), i < j
      PROVE  Append(s, n)[i] < Append(s, n)[j]
  <2>1. i \in 1..Len(s) /\ (j \in 1..Len(s) \/ j = Len(s) + 1)
    BY <1>1, <1>4
  <2>2. CASE j \in 1..Len(s)
    BY <1>2, <1>4, <2>1, <2>2 DEF Ascending
  <2>3. CASE j = Len(s) + 1
    BY <1>2, <1>3, <2>1, <2>3
  <2> QED BY <2>1, <2>2, <2>3
<1> QED BY <1>2, <1>4 DEF Ascending, Newest
-----------------------------------------------------------------------------
LEMMA InitPaths == Init => PathsAscend
<1>1. \A i, j \in 1..Len(<< >>) : i < j => << >>[i] < << >>[j]
  BY EmptySeq
<1> QED BY <1>1 DEF Init, PathsAscend, Ascending, GroupIds

\* A step that leaves the paths alone, and what they must end in as well.
LEMMA PathsKept ==
  ASSUME PathsAscend, paths' = paths,
         \A g \in GroupIds : (IF Registered(g) THEN step ELSE tracker)'
                              = (IF Registered(g) THEN step ELSE tracker)
  PROVE  PathsAscend'
BY DEF PathsAscend, Ascending, Newest

LEMMA PathsInduction ==
  TypeOK /\ RunState /\ PathsAscend /\ [Next]_vars => PathsAscend'
<1> SUFFICES ASSUME TypeOK, RunState, PathsAscend, [Next]_vars PROVE PathsAscend'
  OBVIOUS
<1>1. /\ T \in Nat /\ tracker \in 0..T /\ Len(Groups) \in Nat
      /\ GroupIds = 1..Len(Groups) /\ group \in GroupIds
      /\ paths \in [GroupIds -> Seq(Steps)]
  BY ConstantFacts DEF TypeOK, GroupIds
<1>2. CASE Scratch \/ Resume \/ StartFails \/ Finish
  <2>1. paths' = paths /\ tracker' = tracker /\ \A g \in GroupIds : ~Registered(g) /\ ~Registered(g)'
    BY <1>2 DEF Scratch, Resume, StartFails, Finish, Registered, disk
  <2> QED BY <2>1, PathsKept
<1>3. CASE TrainStep
  <2>1. paths' = paths /\ tracker' = tracker /\ \A g \in GroupIds : ~Registered(g) /\ ~Registered(g)'
    BY <1>1, <1>3 DEF TrainStep, Registered, disk
  <2> QED BY <2>1, PathsKept
<1>4. CASE EnsureCapacity
  <2> DEFINE k == Surplus(paths[group], Keep[group])
  <2>1. k \in 0..Len(paths[group]) /\ (k # 0 => k < Len(paths[group]))
    BY <1>1, ConstantFacts, RemovedCounts
  <2>2. Ascending(paths[group]) /\ paths[group] \in Seq(Steps)
    BY <1>1 DEF PathsAscend
  <2>3. /\ Ascending(Suffix(paths[group], k))
        /\ Suffix(paths[group], k) # << >> =>
              paths[group] # << >> /\ Newest(Suffix(paths[group], k)) = Newest(paths[group])
    BY <2>1, <2>2, SuffixAscends
  <2>4. paths' = [paths EXCEPT ![group] = Suffix(paths[group], k)]
    BY <1>4 DEF EnsureCapacity
  <2>5. tracker' = tracker /\ step' = step /\ \A g \in GroupIds : Registered(g)' = Registered(g)
    BY <1>4 DEF EnsureCapacity, Registered, disk
  <2> HIDE DEF k
  <2> SUFFICES ASSUME NEW g \in GroupIds
               PROVE  /\ Ascending(paths'[g])
                      /\ paths'[g] # << >> =>
                            Newest(paths'[g]) = IF Registered(g) THEN step ELSE tracker
    BY <2>5 DEF PathsAscend, Ascending, Newest
  <2>6. CASE g = group
    <3>1. paths'[g] = Suffix(paths[group], k)
      BY <1>1, <2>4, <2>6
    <3> QED BY <2>3, <2>6, <3>1 DEF PathsAscend
  <2>7. CASE g # group
    <3>1. paths'[g] = paths[g]
      BY <1>1, <2>4, <2>7
    <3> QED BY <3>1 DEF PathsAscend
  <2> QED BY <2>6, <2>7
<1>5. CASE \/ RemoveFile \/ MakeDirectory \/ TruncateShard \/ WriteShard \/ Barrier
           \/ SaveData \/ TruncateTracker
  <2>1. paths' = paths /\ tracker' = tracker /\ step' = step
    BY <1>5 DEF RemoveFile, MakeDirectory, TruncateShard, WriteShard, Barrier, SaveData,
         TruncateTracker, disk
  <2>2. \A g \in GroupIds : Registered(g)' = Registered(g)
    BY <1>5 DEF RemoveFile, MakeDirectory, TruncateShard, WriteShard, Barrier, SaveData,
         TruncateTracker, Registered
  <2> QED BY <2>1, <2>2, PathsKept
<1>6. CASE RegisterCheckpoint
  <2> DEFINE saved == Append(paths[group], step)
             k == Excess(saved, Keep[group])
  <2>1. step \in Steps /\ tracker < step
    BY <1>1, <1>6 DEF RegisterCheckpoint, RunState, Running, Saving, Steps
  <2>2. ~Registered(group)
    BY <1>1, <1>6 DEF RegisterCheckpoint, Registered
  <2>3. /\ Ascending(paths[group]) /\ paths[group] \in Seq(Steps)
        /\ paths[group] # << >> => Newest(paths[group]) < step
    BY <1>1, <2>1, <2>2 DEF PathsAscend
  <2>4. /\ saved \in Seq(Steps) /\ saved # << >> /\ Ascending(saved) /\ Newest(saved) = step
    BY <2>1, <2>3, AppendAscends
  <2>5. k \in 0..Len(saved) /\ (k # 0 => k < Len(saved))
    <3>1. Keep[group] \in Nat /\ Len(saved) \in Nat
      BY <1>1, <2>4, ConstantFacts, LenProperties
    <3>2. k \in 0..Len(saved) /\ (k # 0 => Keep[group] > 0 /\ k = Len(saved) - Keep[group])
      BY <2>4, <3>1, RemovedCounts
    <3> QED BY <3>1, <3>2
  <2>6. /\ Ascending(Suffix(saved, k))
        /\ Suffix(saved, k) # << >> => Newest(Suffix(saved, k)) = step
    BY <2>4, <2>5, SuffixAscends
  <2>7. paths' = [paths EXCEPT ![group] = Suffix(saved, k)]
    BY <1>6 DEF RegisterCheckpoint
  <2>8. /\ tracker' = tracker /\ step' = step
        /\ \A g \in GroupIds : Registered(g)' <=> (g = group \/ Registered(g))
    <3>1. /\ pc = "register" /\ pc' = "rotate" /\ group' = group
          /\ tracker' = tracker /\ step' = step
      BY <1>6 DEF RegisterCheckpoint, disk
    <3>2. ASSUME NEW g \in GroupIds
          PROVE  Registered(g)' <=> (g = group \/ Registered(g))
      <4>1. (Registered(g) <=> g < group) /\ (Registered(g)' <=> g <= group)
        BY <3>1 DEF Registered
      <4>2. g \in Int /\ group \in Int
        BY <1>1
      <4> QED BY <4>1, <4>2
    <3> QED BY <3>1, <3>2
  <2> HIDE DEF k, saved
  <2> SUFFICES ASSUME NEW g \in GroupIds
               PROVE  /\ Ascending(paths'[g])
                      /\ paths'[g] # << >> =>
                            Newest(paths'[g]) = IF Registered(g)' THEN step ELSE tracker
    BY <2>8 DEF PathsAscend, Ascending, Newest
  <2>9. CASE g = group
    <3>1. paths'[g] = Suffix(saved, k)
      BY <1>1, <2>7, <2>9
    <3> QED BY <2>6, <2>8, <2>9, <3>1
  <2>10. CASE g # group
    <3>1. paths'[g] = paths[g]
      BY <1>1, <2>7, <2>10
    <3> QED BY <2>8, <2>10, <3>1 DEF PathsAscend
  <2> QED BY <2>9, <2>10
<1>7. CASE GroupSaved
  <2>1. paths' = paths /\ tracker' = tracker /\ step' = step
    BY <1>7 DEF GroupSaved, disk
  <2>2. \A g \in GroupIds : Registered(g)' = Registered(g)
    BY <1>1, <1>7 DEF GroupSaved, Registered
  <2> QED BY <2>1, <2>2, PathsKept
<1>8. CASE WriteTracker
  <2>1. paths' = paths /\ tracker' = step /\ \A g \in GroupIds : Registered(g) /\ ~Registered(g)'
    BY <1>8 DEF WriteTracker, Registered
  <2> QED BY <2>1, PathsKept
<1>9. CASE Crash
  <2>1. \A g \in GroupIds : paths'[g] = << >>
    BY <1>9 DEF Crash
  <2>2. Ascending(<< >>)
    BY EmptySeq DEF Ascending
  <2> QED BY <2>1, <2>2 DEF PathsAscend, Ascending
<1>10. CASE UNCHANGED vars
  <2>1. paths' = paths /\ tracker' = tracker /\ step' = step
    BY <1>10 DEF vars, process, disk
  <2>2. \A g \in GroupIds : Registered(g)' = Registered(g)
    BY <1>10 DEF vars, process, disk, Registered
  <2> QED BY <2>1, <2>2, PathsKept
<1> QED
  BY <1>2, <1>3, <1>4, <1>5, <1>6, <1>7, <1>8, <1>9, <1>10 DEF Next, Work
-----------------------------------------------------------------------------
\* With no limit of 1, what is removed is older than the tracked checkpoint.
NoLimitOfOne == \A g \in GroupIds : Keep[g] # 1

LEMMA DoomedInduction ==
  ASSUME NoLimitOfOne
  PROVE  TypeOK /\ RunState /\ PathsAscend /\ DoomedAreOld /\ [Next]_vars => DoomedAreOld'
<1> SUFFICES ASSUME TypeOK, RunState, PathsAscend, DoomedAreOld, [Next]_vars PROVE DoomedAreOld'
  OBVIOUS
<1>1. /\ T \in Nat /\ tracker \in 0..T /\ Len(Groups) \in Nat
      /\ GroupIds = 1..Len(Groups) /\ group \in GroupIds
      /\ paths \in [GroupIds -> Seq(Steps)]
  BY ConstantFacts DEF TypeOK, GroupIds
<1>2. CASE Scratch \/ Resume \/ StartFails \/ TrainStep \/ Finish \/ TruncateShard
           \/ WriteShard \/ Barrier \/ SaveData \/ TruncateTracker
  <2>1. doomed = {} /\ doomed' = {}
    BY <1>2 DEF Scratch, Resume, StartFails, TrainStep, Finish, TruncateShard,
         WriteShard, Barrier, SaveData, TruncateTracker, DoomedAreOld
  <2> QED BY <2>1 DEF DoomedAreOld
<1>3. CASE EnsureCapacity
  <2> DEFINE k == Surplus(paths[group], Keep[group])
  <2>1. k \in 0..Len(paths[group]) /\ (k # 0 => k < Len(paths[group]))
    BY <1>1, ConstantFacts, RemovedCounts
  <2>2. Ascending(paths[group]) /\ paths[group] \in Seq(Steps)
    BY <1>1 DEF PathsAscend
  <2>3. \A n \in Prefix(paths[group], k) : n < Newest(paths[group])
    BY <2>1, <2>2, SuffixAscends
  <2>4. Prefix(paths[group], k) # {} => Newest(paths[group]) = tracker
    <3>1. ~Registered(group)
      <4>1. pc = "ensure" /\ group \in Int
        BY <1>1, <1>3 DEF EnsureCapacity
      <4> QED BY <4>1 DEF Registered
    <3>2. Prefix(paths[group], k) # {} => paths[group] # << >>
      BY <2>1, EmptySeq DEF Prefix
    <3> QED BY <1>1, <3>1, <3>2 DEF PathsAscend
  <2>5. doomed' = Prefix(paths[group], k) /\ pc' = "trim" /\ tracker' = tracker
    BY <1>3 DEF EnsureCapacity, disk
  <2> QED BY <2>3, <2>4, <2>5 DEF DoomedAreOld
<1>4. CASE RemoveFile
  <2>1. doomed' \subseteq doomed /\ tracker' = tracker /\ pc' = pc
    BY <1>4 DEF RemoveFile
  <2> QED BY <2>1 DEF DoomedAreOld
<1>5. CASE MakeDirectory \/ GroupSaved
  <2>1. doomed' = {}
    BY <1>5 DEF MakeDirectory, GroupSaved
  <2> QED BY <2>1 DEF DoomedAreOld
<1>6. CASE RegisterCheckpoint
  <2> DEFINE s == paths[group]
             saved == Append(s, step)
             k == Excess(saved, Keep[group])
  <2>1. step \in Steps /\ s \in Seq(Steps) /\ Ascending(s)
    BY <1>1, <1>6 DEF RegisterCheckpoint, RunState, Running, Saving, Steps, PathsAscend
  <2>2. /\ saved \in Seq(Steps) /\ Len(saved) = Len(s) + 1 /\ Len(s) \in Nat
        /\ \A i \in 1..Len(s) : saved[i] = s[i]
    BY <2>1, AppendProperties, LenProperties
  <2>3. Keep[group] \in Nat /\ Keep[group] # 1
    BY <1>1, ConstantFacts DEF NoLimitOfOne
  <2>4. k # 0 => Keep[group] > 0 /\ k = Len(saved) - Keep[group]
    BY <2>2, <2>3, RemovedCounts
  <2>5. k \in Int /\ (k # 0 => k < Len(s))
    <3>1. k \in 0..Len(saved)
      BY <2>2, <2>3, RemovedCounts
    <3> QED BY <2>2, <2>3, <2>4, <3>1
  <2>6. doomed' = Prefix(saved, k) /\ pc' = "rotate" /\ tracker' = tracker
    BY <1>6 DEF RegisterCheckpoint, disk
  <2>7. ~Registered(group)
    <3>1. pc = "register" /\ group \in Int
      BY <1>1, <1>6 DEF RegisterCheckpoint
    <3> QED BY <3>1 DEF Registered
  <2> HIDE DEF k, saved
  <2>8. ASSUME NEW n \in Prefix(saved, k)
        PROVE  n < tracker
    <3>1. PICK i \in 1..k : n = saved[i]
      BY DEF Prefix
    <3>2. i \in 1..Len(s) /\ Len(s) \in 1..Len(s) /\ i < Len(s)
      BY <2>2, <2>5, <3>1
    <3>3. n = s[i] /\ s[i] < s[Len(s)]
      BY <2>1, <2>2, <3>1, <3>2 DEF Ascending
    <3>4. s # << >>
      BY <3>2, EmptySeq
    <3>5. s[Len(s)] = tracker
      BY <1>1, <2>7, <3>4 DEF PathsAscend, Newest
    <3> QED BY <3>3, <3>5
  <2> QED BY <2>6, <2>8 DEF DoomedAreOld
<1>7. CASE WriteTracker
  <2>1. doomed = {} /\ doomed' = {}
    BY <1>7 DEF WriteTracker, DoomedAreOld
  <2> QED BY <2>1 DEF DoomedAreOld
<1>8. CASE Crash
  <2>1. doomed' = {}
    BY <1>8 DEF Crash
  <2> QED BY <2>1 DEF DoomedAreOld
<1>9. CASE UNCHANGED vars
  BY <1>9 DEF vars, process, disk, DoomedAreOld
<1> QED
  BY <1>2, <1>3, <1>4, <1>5, <1>6, <1>7, <1>8, <1>9 DEF Next, Work

-----------------------------------------------------------------------------
\* One save at a time: what is written so far is of the present attempt.
LEMMA SavedInduction == TypeOK /\ RunState /\ SavedSoFar /\ [Next]_vars => SavedSoFar'
<1> SUFFICES ASSUME TypeOK, RunState, SavedSoFar, [Next]_vars PROVE SavedSoFar'
  OBVIOUS
<1>1. /\ shard \in [GroupIds -> [Steps -> [Ranks -> 0..(MaxCrashes + 1)]]]
      /\ group \in GroupIds /\ written \subseteq Ranks
      /\ pc = "write" => step \in Steps
  BY ConstantFacts DEF TypeOK, RunState, Running, Saving, Steps
<1>2. CASE MakeDirectory
  BY <1>2 DEF MakeDirectory, SavedSoFar
<1>3. CASE TruncateShard
  <2>1. PICK r \in Ranks \ written : shard' = [shard EXCEPT ![group][step][r] = 0]
    BY <1>3 DEF TruncateShard
  <2>2. pc = "write" /\ UNCHANGED <<pc, step, attempt, group, written>>
    BY <1>3 DEF TruncateShard
  <2>3. \A q \in written : shard'[group][step][q] = shard[group][step][q]
    BY <1>1, <2>1, <2>2
  <2> QED BY <2>2, <2>3 DEF SavedSoFar
<1>4. CASE WriteShard
  <2>1. PICK r \in Ranks \ written :
          /\ shard' = [shard EXCEPT ![group][step][r] = attempt]
          /\ written' = written \cup {r}
    BY <1>4 DEF WriteShard
  <2>2. pc = "write" /\ UNCHANGED <<pc, step, attempt, group>>
    BY <1>4 DEF WriteShard
  <2>3. \A q \in written : shard'[group][step][q] = shard[group][step][q]
    BY <1>1, <2>1, <2>2
  <2>4. shard'[group][step][r] = attempt
    BY SMTT(30), <1>1, <2>1, <2>2
  <2> QED BY <2>1, <2>2, <2>3, <2>4 DEF SavedSoFar
<1>5. CASE Barrier
  BY <1>5 DEF Barrier, SavedSoFar, SavedBy, disk
<1>6. CASE UNCHANGED vars
  BY <1>6 DEF vars, process, disk, SavedSoFar, SavedBy
<1>7. CASE pc' \notin {"write", "register"}
  BY <1>7 DEF SavedSoFar
<1>8. \/ MakeDirectory \/ TruncateShard \/ WriteShard \/ Barrier
      \/ UNCHANGED vars \/ pc' \notin {"write", "register"}
  BY DEF Next, Work, Scratch, Resume, StartFails, TrainStep, Finish, EnsureCapacity, RemoveFile,
         RegisterCheckpoint, GroupSaved, SaveData, TruncateTracker, WriteTracker, Crash
<1> QED BY <1>2, <1>3, <1>4, <1>5, <1>6, <1>7, <1>8

\* A step that leaves files and tracker alone, and registers no group.
LEMMA FilesKept ==
  ASSUME TypeOK, FilesOfOneAttempt, UNCHANGED <<shard, data, tracker>>,
         (step' = step /\ attempt' = attempt) \/ (\A g \in GroupIds : ~Registered(g)'),
         \A g \in GroupIds : Registered(g)' => Registered(g),
         pc' \notin {"truncate", "track"}
  PROVE  FilesOfOneAttempt'
BY DEF FilesOfOneAttempt

LEMMA FilesInduction ==
  TypeOK /\ RunState /\ SavedSoFar /\ DoomedAreOld /\ FilesOfOneAttempt /\ [Next]_vars
    => FilesOfOneAttempt'
<1> SUFFICES ASSUME TypeOK, RunState, SavedSoFar, DoomedAreOld, FilesOfOneAttempt, [Next]_vars
             PROVE  FilesOfOneAttempt'
  OBVIOUS
<1>1. /\ T \in Nat /\ tracker \in 0..T /\ Len(Groups) \in Nat
      /\ GroupIds = 1..Len(Groups) /\ group \in GroupIds
      /\ MaxCrashes \in Nat /\ attempt \in 1..(MaxCrashes + 1)
      /\ shard \in [GroupIds -> [Steps -> [Ranks -> 0..(MaxCrashes + 1)]]]
      /\ data \in [Steps -> 0..(MaxCrashes + 1)]
      /\ written \subseteq Ranks
  BY ConstantFacts DEF TypeOK, GroupIds, Attempts
<1>2. CASE Scratch \/ Resume \/ StartFails \/ Finish \/ Crash
  <2>1. /\ UNCHANGED <<shard, data, tracker>> /\ \A g \in GroupIds : ~Registered(g)'
        /\ pc' \notin {"truncate", "track"}
    BY <1>2 DEF Scratch, Resume, StartFails, Finish, Crash, Registered, disk
  <2> QED BY <2>1, FilesKept
<1>3. CASE TrainStep
  <2>1. /\ UNCHANGED <<shard, data, tracker>> /\ pc' \in {"train", "ensure"} /\ group' = 1
    BY <1>3 DEF TrainStep, disk
  <2>2. \A g \in GroupIds : ~Registered(g)'
    BY <1>1, <2>1 DEF Registered
  <2> QED BY <2>1, <2>2, FilesKept
<1>4. CASE EnsureCapacity
  <2>1. /\ UNCHANGED <<shard, data, tracker, step, attempt>> /\ pc' = "trim"
        /\ \A g \in GroupIds : Registered(g)' => Registered(g)
    BY <1>4 DEF EnsureCapacity, Registered, disk
  <2> QED BY <2>1, FilesKept
<1>5. CASE RemoveFile
  <2>1. PICK n \in doomed, r \in Ranks : shard' = [shard EXCEPT ![group][n][r] = 0]
    BY <1>5 DEF RemoveFile
  <2>2. /\ pc \in {"trim", "rotate"} /\ UNCHANGED <<pc, step, attempt, group, written, data, tracker>>
    BY <1>5 DEF RemoveFile
  <2>3. n < tracker /\ n \in Int /\ tracker < step /\ step \in Int
    BY <1>1, <2>2 DEF DoomedAreOld, RunState, Saving, Running, TypeOK, Steps
  <2>4. ASSUME NEW g \in GroupIds, NEW q \in Ranks, NEW m \in Steps, m # n
        PROVE  shard'[g][m][q] = shard[g][m][q]
    BY <1>1, <2>1, <2>4
  <2>5. tracker \in Steps /\ tracker # n /\ step \in Steps /\ step # n
    BY <1>1, <2>2, <2>3 DEF TypeOK, Steps, DoomedAreOld, RunState, Running, Saving
  <2>6. \A g \in GroupIds : Registered(g)' <=> Registered(g)
    BY <2>2 DEF Registered
  <2> QED BY <2>2, <2>4, <2>5, <2>6 DEF FilesOfOneAttempt
<1>6. CASE MakeDirectory
  <2>1. /\ UNCHANGED <<shard, data, tracker, step, attempt, group>> /\ pc' = "write"
        /\ \A g \in GroupIds : Registered(g)' => Registered(g)
    BY <1>6 DEF MakeDirectory, Registered
  <2> QED BY <2>1, FilesKept
<1>7. CASE TruncateShard \/ WriteShard
  <2>1. PICK r \in Ranks, v \in {0, attempt} : shard' = [shard EXCEPT ![group][step][r] = v]
    BY <1>7 DEF TruncateShard, WriteShard
  <2>2. pc = "write" /\ UNCHANGED <<pc, step, attempt, group, data, tracker>>
    BY <1>7 DEF TruncateShard, WriteShard
  <2>3. tracker < step /\ step \in Steps
    BY <1>1, <2>2 DEF RunState, Running, Saving, Steps
  <2>4. ASSUME NEW g \in GroupIds, NEW q \in Ranks, NEW m \in Steps, g # group \/ m # step
        PROVE  shard'[g][m][q] = shard[g][m][q]
    BY <1>1, <2>1, <2>3, <2>4
  <2>5. \A g \in GroupIds : Registered(g)' => Registered(g) /\ g # group
    BY <1>1, <2>2 DEF Registered
  <2>6. tracker # 0 => tracker \in Steps /\ tracker # step
    BY <1>1, <2>3 DEF Steps
  <2>7. tracker # 0 => \A g \in GroupIds, q \in Ranks : shard'[g][tracker][q] = data[tracker]
    BY <2>4, <2>6 DEF FilesOfOneAttempt
  <2>8. \A g \in GroupIds : Registered(g)' => \A q \in Ranks : shard'[g][step][q] = attempt
    BY <2>3, <2>4, <2>5 DEF FilesOfOneAttempt
  <2> QED BY <2>2, <2>7, <2>8 DEF FilesOfOneAttempt
<1>8. CASE Barrier
  <2>1. /\ UNCHANGED <<shard, data, tracker, step, attempt, group>> /\ pc = "write"
        /\ pc' = "register"
    BY <1>8 DEF Barrier, disk
  <2>2. \A g \in GroupIds : Registered(g)' => Registered(g)
    BY <2>1 DEF Registered
  <2> QED BY <2>1, <2>2, FilesKept
<1>9. CASE RegisterCheckpoint
  <2>1. /\ UNCHANGED <<shard, data, tracker, step, attempt, group>> /\ pc = "register" /\ pc' = "rotate"
    BY <1>9 DEF RegisterCheckpoint, disk
  <2>2. \A g \in GroupIds : Registered(g)' => Registered(g) \/ g = group
    <3> SUFFICES ASSUME NEW g \in GroupIds, Registered(g)' PROVE Registered(g) \/ g = group
      OBVIOUS
    <3>1. g <= group /\ g \in Int /\ group \in Int
      BY <1>1, <2>1 DEF Registered
    <3>2. g < group \/ g = group
      BY <3>1
    <3> QED BY <2>1, <3>2 DEF Registered
  <2>3. \A r \in Ranks : shard[group][step][r] = attempt
    BY <2>1 DEF SavedSoFar, SavedBy
  <2> QED BY <2>1, <2>2, <2>3 DEF FilesOfOneAttempt
<1>10. CASE GroupSaved
  <2>1. /\ UNCHANGED <<shard, data, tracker, step, attempt>> /\ pc = "rotate" /\ pc' \in {"ensure", "data"}
        /\ (pc' = "ensure" => group' = group + 1)
        /\ (pc' = "data" => ~(group < Len(Groups)))
    BY <1>10 DEF GroupSaved, disk
  <2>2. ASSUME NEW g \in GroupIds, Registered(g)' PROVE Registered(g)
    <3>1. g \in Int /\ group \in Int /\ g <= Len(Groups) /\ Len(Groups) \in Int
      BY <1>1
    <3>2. CASE pc' = "ensure"
      <4>1. g < group + 1
        BY <2>1, <2>2, <3>2 DEF Registered
      <4>2. g <= group
        BY <3>1, <4>1
      <4> QED BY <2>1, <4>2 DEF Registered
    <3>3. CASE pc' = "data"
      <4>1. g <= group
        BY <2>1, <3>1, <3>3
      <4> QED BY <2>1, <4>1 DEF Registered
    <3> QED BY <2>1, <3>2, <3>3
  <2> QED BY <2>1, <2>2, FilesKept
<1>11. CASE SaveData
  <2>1. /\ data' = [data EXCEPT ![step] = attempt] /\ pc = "data" /\ pc' = "truncate"
        /\ UNCHANGED <<shard, tracker, step, attempt, group>>
    BY <1>11 DEF SaveData
  <2>2. tracker < step /\ step \in Steps
    BY <1>1, <2>1 DEF RunState, Running, Saving, Steps
  <2>3. data'[step] = attempt /\ (tracker # 0 => data'[tracker] = data[tracker])
    BY <1>1, <2>1, <2>2 DEF Steps
  <2>4. \A g \in GroupIds : Registered(g)
    BY <2>1 DEF Registered
  <2> QED BY <2>1, <2>3, <2>4 DEF FilesOfOneAttempt
<1>12. CASE TruncateTracker
  <2>1. /\ UNCHANGED <<shard, data, tracker, step, attempt, group>> /\ pc = "truncate" /\ pc' = "track"
    BY <1>12 DEF TruncateTracker
  <2>2. \A g \in GroupIds : Registered(g)
    BY <2>1 DEF Registered
  <2> QED BY <2>1, <2>2 DEF FilesOfOneAttempt
<1>13. CASE WriteTracker
  <2>1. /\ UNCHANGED <<shard, data, step, attempt, group>> /\ pc = "track" /\ pc' = "train"
        /\ tracker' = step
    BY <1>13 DEF WriteTracker
  <2>2. \A g \in GroupIds : Registered(g) /\ ~Registered(g)'
    BY <2>1 DEF Registered
  <2>3. data[step] = attempt /\ attempt # 0
    BY <1>1, <2>1 DEF FilesOfOneAttempt
  <2>4. \A g \in GroupIds, r \in Ranks : shard[g][step][r] = data[step]
    BY <2>2, <2>3 DEF FilesOfOneAttempt
  <2> QED BY <2>1, <2>2, <2>3, <2>4 DEF FilesOfOneAttempt
<1>14. CASE UNCHANGED vars
  BY <1>14 DEF vars, process, disk, FilesOfOneAttempt, Registered
<1> QED
  BY <1>2, <1>3, <1>4, <1>5, <1>6, <1>7, <1>8, <1>9, <1>10, <1>11, <1>12, <1>13,
     <1>14 DEF Next, Work

LEMMA InitFiles == Init => SavedSoFar /\ DoomedAreOld /\ FilesOfOneAttempt
BY DEF Init, SavedSoFar, DoomedAreOld, FilesOfOneAttempt, Registered

\* The inductive invariant.
CheckpointInv ==
  TypeOK /\ RunState /\ PathsAscend /\ SavedSoFar /\ DoomedAreOld /\ FilesOfOneAttempt

LEMMA InvInduction ==
  ASSUME NoLimitOfOne
  PROVE  CheckpointInv /\ [Next]_vars => CheckpointInv'
BY TypeInduction, RunInduction, PathsInduction, SavedInduction, DoomedInduction, FilesInduction
   DEF CheckpointInv

LEMMA InitInv == Init => CheckpointInv
BY InitType, InitRun, InitPaths, InitFiles DEF CheckpointInv

\* With no limit of 1, a restart always finds every shard of every group at
\* the tracked step (ensure_checkpoint_capacity, register_checkpoint).
THEOREM RestartPointHolds ==
  ASSUME NoLimitOfOne
  PROVE  Spec => []RestartPointIntact
<1>1. CheckpointInv => RestartPointIntact
  BY DEF CheckpointInv, FilesOfOneAttempt, RestartPointIntact, Loadable, Complete
<1> QED BY <1>1, InvInduction, InitInv, PTL DEF Spec

\* With no limit of 1, what a restart reads at the tracked step was all written
\* by one attempt: its shards and data.pt.
THEOREM OneAttemptHolds ==
  ASSUME NoLimitOfOne
  PROVE  Spec => []RestartPointOfOneAttempt
<1>1. CheckpointInv => RestartPointOfOneAttempt
  BY DEF CheckpointInv, FilesOfOneAttempt, RestartPointOfOneAttempt
<1> QED BY <1>1, InvInduction, InitInv, PTL DEF Spec

-----------------------------------------------------------------------------
(* What rotation leaves, whatever the limits are.                          *)

\* An ascending sequence has as many different members as places.
LEMMA AscendingRange ==
  ASSUME NEW s \in Seq(Steps), Ascending(s), NEW S \in SUBSET Steps,
         \A i \in 1..Len(s) : s[i] \in S
  PROVE  Len(s) <= Cardinality(S)
<1> DEFINE f == [i \in 1..Len(s) |-> s[i]]
<1>1. Len(s) \in Nat /\ T \in Nat
  BY LenProperties, ConstantFacts
<1>2. \A i \in 1..Len(s) : s[i] \in Nat
  BY <1>1, ElementOfSeq DEF Steps
<1>3. f \in Injection(1..Len(s), S)
  <2>1. ASSUME NEW i \in 1..Len(s), NEW j \in 1..Len(s), i # j
        PROVE  s[i] # s[j]
    <3>1. i < j \/ j < i
      BY <1>1, <2>1
    <3> QED BY <1>2, <3>1 DEF Ascending
  <2> QED BY <2>1 DEF Injection, IsInjective
<1>4. /\ IsFiniteSet(1..Len(s)) /\ IsFiniteSet(S)
      /\ Cardinality(1..Len(s)) = Len(s)
  <2>1. IsFiniteSet(Steps)
    BY <1>1, FS_Interval DEF Steps
  <2>2. IsFiniteSet(S)
    BY <2>1, FS_Subset
  <2> DEFINE n == Len(s)
  <2>3. n \in Nat
    BY <1>1
  <2> HIDE DEF f, n
  <2>4. n \in Int /\ 1 \in Int
    BY <2>3
  <2>5. /\ IsFiniteSet(1..n)
        /\ Cardinality(1..n) = IF 1 > n THEN 0 ELSE n - 1 + 1
    BY <2>4, FS_Interval
  <2>6. Cardinality(1..n) = n
    BY <2>3, <2>5
  <2> QED BY <2>2, <2>5, <2>6 DEF n
<1>5. Cardinality(1..Len(s)) <= Cardinality(S)
  <2> HIDE DEF f
  <2> QED BY <1>3, <1>4, FS_Injection
<1> QED BY <1>1, <1>4, <1>5

LEMMA InitStand == Init => AttemptBehind /\ PathsStand
<1> SUFFICES ASSUME Init PROVE AttemptBehind /\ PathsStand
  OBVIOUS
<1>1. \A g \in GroupIds, n \in Steps, r \in Ranks : shard[g][n][r] = 0
  BY DEF Init
<1>2. \A g \in GroupIds : Len(paths[g]) = 0
  BY EmptySeq DEF Init
<1> QED BY <1>1, <1>2 DEF Init, AttemptBehind, PathsStand

LEMMA BehindInduction == TypeOK /\ RunState /\ AttemptBehind /\ [Next]_vars => AttemptBehind'
<1> SUFFICES ASSUME TypeOK, RunState, AttemptBehind, [Next]_vars,
                    NEW g \in GroupIds, NEW n \in Steps, NEW r \in Ranks
             PROVE  /\ shard'[g][n][r] <= attempt'
                    /\ shard'[g][n][r] = attempt' =>
                         /\ n <= step'
                         /\ pc' \in Saving /\ n = step' =>
                              \/ Registered(g)'
                              \/ pc' = "register" /\ g = group'
                              \/ pc' = "write" /\ g = group' /\ r \in written'
  BY DEF AttemptBehind
<1>1. /\ shard \in [GroupIds -> [Steps -> [Ranks -> 0..(MaxCrashes + 1)]]]
      /\ shard[g][n][r] \in Nat /\ attempt \in Nat /\ attempt >= 1 /\ n \in Nat /\ n >= 1
      /\ step \in Steps \cup {0, Down} /\ step \in Int
      /\ g \in Int /\ group \in Int /\ g <= Len(Groups) /\ Len(Groups) \in Int
      /\ (pc \in Saving => step \in Steps)
  <2>1. shard[g][n][r] \in 0..(MaxCrashes + 1)
    BY DEF TypeOK
  <2>2. T \in Nat /\ MaxCrashes \in Nat /\ Len(Groups) \in Nat
    BY ConstantFacts
  <2>3. step \in Steps \cup {0, Down} /\ group \in GroupIds /\ attempt \in Attempts
    BY DEF TypeOK
  <2>4. pc \in Saving => step \in Steps
    BY <2>2, <2>3 DEF RunState, Running, Steps, Down, TypeOK
  <2> QED BY <2>1, <2>2, <2>3, <2>4 DEF TypeOK, Steps, Attempts, GroupIds, Down
<1>2. /\ shard[g][n][r] <= attempt
      /\ shard[g][n][r] = attempt =>
            /\ n <= step
            /\ pc \in Saving /\ n = step =>
                  \/ Registered(g)
                  \/ pc = "register" /\ g = group
                  \/ pc = "write" /\ g = group /\ r \in written
  BY DEF AttemptBehind
<1>3. CASE Scratch \/ Resume \/ StartFails
  <2>1. pc = "down" /\ UNCHANGED <<shard, attempt>>
    BY <1>3 DEF Scratch, Resume, StartFails, disk
  <2>2. step = Down
    BY <2>1 DEF RunState
  <2>3. shard[g][n][r] # attempt
    BY <1>1, <1>2, <2>2 DEF Down
  <2> QED BY <1>2, <2>1, <2>3
<1>4. CASE TrainStep
  <2>1. step' = step + 1 /\ UNCHANGED <<shard, attempt>>
    BY <1>4 DEF TrainStep, disk
  <2> QED BY <1>1, <1>2, <2>1
<1>5. CASE Finish \/ WriteTracker
  <2>1. pc' \notin Saving /\ UNCHANGED <<shard, attempt, step>>
    BY <1>5 DEF Finish, WriteTracker, Saving, disk
  <2> QED BY <1>2, <2>1
<1>6. CASE EnsureCapacity \/ MakeDirectory
  <2>1. /\ UNCHANGED <<shard, attempt, step, group>>
        /\ pc \in {"ensure", "trim"} /\ pc' \in {"trim", "write"}
    BY <1>6 DEF EnsureCapacity, MakeDirectory, disk
  <2>2. Registered(g)' = Registered(g) /\ pc \in Saving
    BY <2>1 DEF Registered, Saving
  <2> QED BY <1>2, <2>1, <2>2
<1>7. CASE RemoveFile
  <2>1. PICK d \in doomed, q \in Ranks : shard' = [shard EXCEPT ![group][d][q] = 0]
    BY <1>7 DEF RemoveFile
  <2>2. UNCHANGED <<pc, step, attempt, group, written>>
    BY <1>7 DEF RemoveFile
  <2>3. shard'[g][n][r] \in {shard[g][n][r], 0}
    BY <1>1, <2>1
  <2>4. Registered(g)' = Registered(g)
    BY <2>2 DEF Registered
  <2> QED BY <1>1, <1>2, <2>2, <2>3, <2>4
<1>8. CASE TruncateShard
  <2>1. PICK q \in Ranks : shard' = [shard EXCEPT ![group][step][q] = 0]
    BY <1>8 DEF TruncateShard
  <2>2. UNCHANGED <<pc, step, attempt, group, written>>
    BY <1>8 DEF TruncateShard
  <2>3. shard'[g][n][r] \in {shard[g][n][r], 0}
    BY <1>1, <2>1
  <2>4. Registered(g)' = Registered(g)
    BY <2>2 DEF Registered
  <2> QED BY <1>1, <1>2, <2>2, <2>3, <2>4
<1>9. CASE WriteShard
  <2>1. PICK q \in Ranks \ written :
          /\ shard' = [shard EXCEPT ![group][step][q] = attempt]
          /\ written' = written \cup {q}
    BY <1>9 DEF WriteShard
  <2>2. pc = "write" /\ UNCHANGED <<pc, step, attempt, group>>
    BY <1>9 DEF WriteShard
  <2>3. \/ shard'[g][n][r] = shard[g][n][r]
        \/ shard'[g][n][r] = attempt /\ g = group /\ n = step /\ r = q
    BY <1>1, <2>1
  <2>4. Registered(g)' = Registered(g)
    BY <2>2 DEF Registered
  <2> QED BY <1>1, <1>2, <2>1, <2>2, <2>3, <2>4
<1>10. CASE Barrier
  <2>1. /\ UNCHANGED <<shard, attempt, step, group>> /\ pc = "write" /\ pc' = "register"
    BY <1>10 DEF Barrier, disk
  <2>2. Registered(g)' = Registered(g) /\ pc \in Saving
    BY <2>1 DEF Registered, Saving
  <2> QED BY <1>2, <2>1, <2>2
<1>11. CASE RegisterCheckpoint
  <2>1. /\ UNCHANGED <<shard, attempt, step, group>> /\ pc = "register" /\ pc' = "rotate"
    BY <1>11 DEF RegisterCheckpoint, disk
  <2>2. pc \in Saving /\ (Registered(g) \/ g = group => Registered(g)')
    BY <1>1, <2>1 DEF Registered, Saving
  <2> QED BY <1>2, <2>1, <2>2
<1>12. CASE GroupSaved
  <2>1. /\ UNCHANGED <<shard, attempt, step>> /\ pc = "rotate"
        /\ \/ pc' = "ensure" /\ group' = group + 1
           \/ pc' = "data"
    BY <1>12 DEF GroupSaved, disk
  <2>2. pc \in Saving /\ (Registered(g) => Registered(g)')
    BY <1>1, <2>1 DEF Registered, Saving
  <2> QED BY <1>2, <2>1, <2>2
<1>13. CASE SaveData \/ TruncateTracker
  <2>1. /\ UNCHANGED <<shard, attempt, step>> /\ pc' \in {"truncate", "track"}
    BY <1>13 DEF SaveData, TruncateTracker
  <2>2. Registered(g)' /\ pc \in Saving
    BY <1>13, <2>1 DEF SaveData, TruncateTracker, Registered, Saving
  <2> QED BY <1>2, <2>1, <2>2
<1>14. CASE Crash
  <2>1. shard' = shard /\ attempt' = attempt + 1
    BY <1>14 DEF Crash, disk
  <2> QED BY <1>1, <1>2, <2>1
<1>15. CASE UNCHANGED vars
  <2>1. UNCHANGED <<shard, attempt, step, pc, group, written>>
    BY <1>15 DEF vars, process, disk
  <2>2. Registered(g)' = Registered(g)
    BY <2>1 DEF Registered
  <2> QED BY <1>2, <2>1, <2>2
<1> QED
  BY <1>3, <1>4, <1>5, <1>6, <1>7, <1>8, <1>9, <1>10, <1>11, <1>12, <1>13, <1>14, <1>15
     DEF Next, Work

\* Cutting an ascending sequence: what is dropped lies below what is left.
LEMMA PrefixBelowSuffix ==
  ASSUME NEW s \in Seq(Steps), Ascending(s), NEW k \in 0..Len(s)
  PROVE  /\ Len(Suffix(s, k)) = Len(s) - k
         /\ \A i \in 1..Len(Suffix(s, k)) : \E j \in 1..Len(s) : Suffix(s, k)[i] = s[j]
         /\ \A n \in Prefix(s, k), i \in 1..Len(Suffix(s, k)) : n < Suffix(s, k)[i]
         /\ Prefix(s, k) # {} => k # 0
<1>1. Len(s) \in Nat
  BY LenProperties
<1>2. Len(Suffix(s, k)) = Len(s) - k /\ \A i \in 1..(Len(s) - k) : Suffix(s, k)[i] = s[k + i]
  BY SuffixFacts
<1>3. \A i \in 1..(Len(s) - k) : k + i \in 1..Len(s)
  BY <1>1
<1>4. ASSUME NEW n \in Prefix(s, k), NEW i \in 1..(Len(s) - k)
      PROVE  n < Suffix(s, k)[i]
  <2>1. PICK j \in 1..k : n = s[j]
    BY DEF Prefix
  <2>2. j \in 1..Len(s) /\ k + i \in 1..Len(s) /\ j < k + i
    BY <1>1
  <2> QED BY <1>2, <2>1, <2>2 DEF Ascending
<1>5. Prefix(s, k) # {} => k # 0
  BY DEF Prefix
<1> QED BY <1>2, <1>3, <1>4, <1>5

\* A save writes no directory of the paths: they end at the tracked step.
LEMMA PathsBehind ==
  ASSUME TypeOK, RunState, PathsAscend, pc = "write", NEW i \in 1..Len(paths[group])
  PROVE  paths[group][i] \in Steps /\ paths[group][i] # step
<1> DEFINE s == paths[group]
<1>1. /\ s \in Seq(Steps) /\ Ascending(s) /\ Len(s) \in Nat
      /\ tracker < step /\ tracker \in Int /\ step \in Int
  BY LenProperties, ConstantFacts DEF TypeOK, PathsAscend, RunState, Running, Saving, Steps, Down
<1>2. i \in 1..Len(s) /\ Len(s) \in 1..Len(s) /\ s # << >>
  BY <1>1, EmptySeq
<1>3. ~Registered(group)
  BY ConstantFacts DEF Registered, TypeOK, GroupIds
<1>4. s[Len(s)] = tracker
  BY <1>2, <1>3 DEF PathsAscend, Newest, TypeOK
<1>5. s[i] \in Steps /\ s[i] \in Int
  <2>1. s[i] \in Steps
    BY <1>1, <1>2, ElementOfSeq
  <2> QED BY <2>1, ConstantFacts DEF Steps
<1>6. i = Len(s) \/ s[i] < s[Len(s)]
  BY <1>1, <1>2 DEF Ascending
<1> QED BY <1>1, <1>4, <1>5, <1>6

LEMMA StandInduction ==
  /\ TypeOK /\ RunState /\ PathsAscend /\ SavedSoFar /\ PathsStand /\ [Next]_vars
  => PathsStand'
<1> SUFFICES ASSUME TypeOK, RunState, PathsAscend, SavedSoFar, PathsStand, [Next]_vars
             PROVE  PathsStand'
  OBVIOUS
<1>1. /\ shard \in [GroupIds -> [Steps -> [Ranks -> 0..(MaxCrashes + 1)]]]
      /\ paths \in [GroupIds -> Seq(Steps)] /\ group \in GroupIds
      /\ \A g \in GroupIds : Ascending(paths[g])
      /\ Keep[group] \in Nat /\ (pc \in Saving => step \in Steps)
  BY ConstantFacts DEF TypeOK, PathsAscend, RunState, Running, Saving, Steps, Down
<1>2. ASSUME doomed = {}, doomed' = {}, UNCHANGED <<paths, attempt>>,
             \A g \in GroupIds : \A i \in 1..Len(paths[g]), r \in Ranks :
                shard'[g][paths[g][i]][r] = shard[g][paths[g][i]][r]
      PROVE  PathsStand'
  BY <1>2 DEF PathsStand, SavedBy
<1>3. CASE \/ Scratch \/ Resume \/ StartFails \/ TrainStep \/ Finish \/ MakeDirectory \/ Barrier
           \/ GroupSaved \/ SaveData \/ TruncateTracker \/ WriteTracker
  <2>1. doomed = {} /\ doomed' = {}
    BY <1>3 DEF Scratch, Resume, StartFails, TrainStep, Finish, MakeDirectory, Barrier,
         GroupSaved, SaveData, TruncateTracker, WriteTracker, PathsStand
  <2>2. UNCHANGED <<paths, attempt, shard>>
    BY <1>3 DEF Scratch, Resume, StartFails, TrainStep, Finish, MakeDirectory, Barrier,
         GroupSaved, SaveData, TruncateTracker, WriteTracker, disk
  <2> QED BY <1>2, <2>1, <2>2
<1>4. CASE EnsureCapacity
  <2> DEFINE s == paths[group]
             k == Surplus(s, Keep[group])
  <2>1. k \in 0..Len(s) /\ Len(s) \in Nat
    BY <1>1, RemovedCounts, LenProperties
  <2>2. /\ Len(Suffix(s, k)) = Len(s) - k
        /\ \A i \in 1..Len(Suffix(s, k)) : \E j \in 1..Len(s) : Suffix(s, k)[i] = s[j]
        /\ \A n \in Prefix(s, k), i \in 1..Len(Suffix(s, k)) : n < Suffix(s, k)[i]
        /\ Prefix(s, k) # {} => k # 0
    BY <1>1, <2>1, PrefixBelowSuffix
  <2>3. k # 0 => Len(s) - k >= MustStay(group)
    BY <1>1, <2>1 DEF Surplus, MustStay
  <2>4. /\ doomed' = Prefix(s, k) /\ paths' = [paths EXCEPT ![group] = Suffix(s, k)]
        /\ pc' = "trim" /\ UNCHANGED <<attempt, group, shard>>
    BY <1>4 DEF EnsureCapacity, disk
  <2> HIDE DEF k
  <2>5. paths'[group] = Suffix(s, k) /\ \A g \in GroupIds : g # group => paths'[g] = paths[g]
    BY <1>1, <2>4
  <2>6. ASSUME NEW g \in GroupIds, NEW i \in 1..Len(paths'[g])
        PROVE  \A r \in Ranks : shard'[g][paths'[g][i]][r] = attempt'
    <3>1. PICK j \in 1..Len(paths[g]) : paths'[g][i] = paths[g][j]
      <4>1. CASE g = group
        BY <2>2, <2>5, <4>1
      <4>2. CASE g # group
        BY <2>5, <4>2
      <4> QED BY <4>1, <4>2
    <3>2. SavedBy(g, paths[g][j], attempt)
      BY DEF PathsStand
    <3> QED BY <2>4, <3>1, <3>2 DEF SavedBy
  <2>7. doomed' # {} => Len(paths'[group]) >= MustStay(group)
    BY <2>2, <2>3, <2>4, <2>5
  <2>8. \A n \in doomed', i \in 1..Len(paths'[group]) : n < paths'[group][i]
    BY <2>2, <2>4, <2>5
  <2>9. group' = group /\ pc' = "trim"
    BY <2>4
  <2> QED BY <2>6, <2>7, <2>8, <2>9 DEF PathsStand, MustStay, SavedBy
<1>5. CASE RemoveFile
  <2>1. PICK d \in doomed, q \in Ranks : shard' = [shard EXCEPT ![group][d][q] = 0]
    BY <1>5 DEF RemoveFile
  <2>2. UNCHANGED <<pc, attempt, group, paths>> /\ doomed' \subseteq doomed
    BY <1>5 DEF RemoveFile
  <2>3. ASSUME NEW g \in GroupIds, NEW i \in 1..Len(paths[g]), NEW r \in Ranks
        PROVE  shard'[g][paths[g][i]][r] = shard[g][paths[g][i]][r]
    <3>1. paths[g][i] \in Steps /\ paths[g][i] \in Int /\ d \in Steps /\ d \in Int
      <4>1. paths[g][i] \in Steps /\ d \in Steps
        BY <1>1, ElementOfSeq DEF TypeOK
      <4> QED BY <4>1, ConstantFacts DEF Steps
    <3>2. g = group => d < paths[g][i]
      BY DEF PathsStand
    <3>3. g # group \/ paths[g][i] # d
      BY <3>1, <3>2
    <3> QED BY <1>1, <2>1, <3>1, <3>3
  <2> QED BY <2>2, <2>3 DEF PathsStand, SavedBy, MustStay
<1>6. CASE TruncateShard \/ WriteShard
  <2>1. PICK q \in Ranks, v \in {0, attempt} : shard' = [shard EXCEPT ![group][step][q] = v]
    BY <1>6 DEF TruncateShard, WriteShard
  <2>2. pc = "write" /\ UNCHANGED <<attempt, paths, doomed>>
    BY <1>6 DEF TruncateShard, WriteShard
  <2>3. doomed = {} /\ step \in Steps
    BY <1>1, <2>2 DEF PathsStand, Saving
  <2>4. ASSUME NEW g \in GroupIds, NEW i \in 1..Len(paths[g]), NEW r \in Ranks
        PROVE  shard'[g][paths[g][i]][r] = shard[g][paths[g][i]][r]
    <3>1. paths[g][i] \in Steps
      BY <1>1, ElementOfSeq
    <3>2. g # group \/ paths[g][i] # step
      BY <2>2, PathsBehind
    <3> QED BY <1>1, <2>1, <2>3, <3>1, <3>2
  <2> QED BY <1>2, <2>2, <2>3, <2>4
<1>7. CASE RegisterCheckpoint
  <2> DEFINE s == paths[group]
             saved == Append(s, step)
             k == Excess(saved, Keep[group])
  <2>1. /\ pc = "register" /\ step \in Steps /\ s \in Seq(Steps) /\ Len(s) \in Nat
        /\ (s # << >> => Newest(s) < step)
    <3>1. pc = "register" /\ s \in Seq(Steps) /\ step \in Steps /\ tracker < step
      BY <1>1, <1>7 DEF RegisterCheckpoint, Saving, RunState
    <3>2. ~Registered(group)
      BY <3>1, ConstantFacts DEF Registered, TypeOK, GroupIds
    <3> QED BY <3>1, <3>2, LenProperties DEF PathsAscend, TypeOK
  <2>2. /\ saved \in Seq(Steps) /\ Ascending(saved) /\ Len(saved) = Len(s) + 1
        /\ \A i \in 1..Len(s) : saved[i] = s[i]
        /\ saved[Len(s) + 1] = step
    BY <1>1, <2>1, AppendAscends, AppendProperties
  <2>3. k \in 0..Len(saved) /\ Len(saved) \in Nat
    BY <1>1, <2>2, RemovedCounts, LenProperties
  <2>4. k # 0 => Len(saved) - k >= MustStay(group)
    BY <1>1, <2>3 DEF Excess, MustStay
  <2>5. /\ doomed' = Prefix(saved, k) /\ paths' = [paths EXCEPT ![group] = Suffix(saved, k)]
        /\ pc' = "rotate" /\ UNCHANGED <<attempt, group, shard>>
    BY <1>7 DEF RegisterCheckpoint, disk
  <2>6. ASSUME NEW j \in 1..Len(saved)
        PROVE  SavedBy(group, saved[j], attempt)
    <3>1. CASE j \in 1..Len(s)
      BY <1>1, <2>2, <3>1 DEF PathsStand
    <3>2. CASE j = Len(s) + 1
      BY <2>1, <2>2, <3>2 DEF SavedSoFar
    <3> QED BY <2>1, <2>2, <3>1, <3>2
  <2> HIDE DEF k, saved
  <2>7. /\ Len(Suffix(saved, k)) = Len(saved) - k
        /\ \A i \in 1..Len(Suffix(saved, k)) : \E j \in 1..Len(saved) : Suffix(saved, k)[i] = saved[j]
        /\ \A n \in Prefix(saved, k), i \in 1..Len(Suffix(saved, k)) : n < Suffix(saved, k)[i]
        /\ Prefix(saved, k) # {} => k # 0
    BY <2>2, <2>3, PrefixBelowSuffix
  <2>8. paths'[group] = Suffix(saved, k) /\ \A g \in GroupIds : g # group => paths'[g] = paths[g]
    BY <1>1, <2>5
  <2>9. ASSUME NEW g \in GroupIds, NEW i \in 1..Len(paths'[g])
        PROVE  \A r \in Ranks : shard'[g][paths'[g][i]][r] = attempt'
    <3>1. SavedBy(g, paths'[g][i], attempt)
      <4>1. CASE g = group
        <5>1. PICK j \in 1..Len(saved) : paths'[g][i] = saved[j]
          BY <2>7, <2>8, <4>1
        <5> QED BY <2>6, <4>1, <5>1
      <4>2. CASE g # group
        BY <2>8, <4>2 DEF PathsStand
      <4> QED BY <4>1, <4>2
    <3> QED BY <2>5, <3>1 DEF SavedBy
  <2>10. doomed' # {} => Len(paths'[group]) >= MustStay(group)
    BY <2>4, <2>5, <2>7, <2>8
  <2>11. \A n \in doomed', i \in 1..Len(paths'[group]) : n < paths'[group][i]
    BY <2>5, <2>7, <2>8
  <2>12. group' = group /\ pc' = "rotate"
    BY <2>5
  <2> QED BY <2>9, <2>10, <2>11, <2>12 DEF PathsStand, MustStay, SavedBy
<1>8. CASE Crash
  <2>1. doomed' = {} /\ \A g \in GroupIds : paths'[g] = << >>
    BY <1>8 DEF Crash
  <2>2. \A g \in GroupIds : Len(paths'[g]) = 0
    BY <2>1, EmptySeq
  <2> QED BY <2>1, <2>2 DEF PathsStand
<1>9. CASE UNCHANGED vars
  BY <1>9 DEF vars, process, disk, PathsStand, SavedBy, MustStay
<1> QED BY <1>3, <1>4, <1>5, <1>6, <1>7, <1>8, <1>9 DEF Next, Work

RotationInv ==
  TypeOK /\ RunState /\ PathsAscend /\ SavedSoFar /\ AttemptBehind /\ PathsStand

\* A step that loses a complete checkpoint removes a file of it where enough newer
\* ones stay, or truncates a file of it that an earlier attempt left.
LEMMA LostStep ==
  ASSUME RotationInv, [Next]_vars, NEW g \in GroupIds, NEW n \in Steps,
         Saved(g, n), ~Saved(g, n)'
  PROVE  \/ Cardinality({m \in Steps : m > n /\ Saved(g, m)'}) >= MustStay(g)
         \/ /\ pc = "write" /\ g = group /\ n = step /\ tracker < n
            /\ \A r \in Ranks : shard[g][n][r] < attempt
<1> USE DEF RotationInv
<1>1. /\ shard \in [GroupIds -> [Steps -> [Ranks -> 0..(MaxCrashes + 1)]]]
      /\ paths \in [GroupIds -> Seq(Steps)] /\ group \in GroupIds
      /\ attempt \in Attempts /\ attempt \in Int
      /\ (pc \in Saving => step \in Steps /\ tracker < step)
  <2>1. TypeOK /\ RunState
    OBVIOUS
  <2> HIDE DEF RotationInv
  <2>2. /\ shard \in [GroupIds -> [Steps -> [Ranks -> 0..(MaxCrashes + 1)]]]
        /\ paths \in [GroupIds -> Seq(Steps)] /\ group \in GroupIds /\ attempt \in Attempts
    BY <2>1 DEF TypeOK
  <2>3. attempt \in Int
    BY <2>2, ConstantFacts DEF Attempts
  <2>4. ASSUME pc \in Saving
        PROVE  step \in Steps /\ tracker < step
    <3>1. /\ step \in Steps \cup {0, Down} /\ step \in 0..T
          /\ tracker \in 0..T /\ tracker < step
      BY <2>1, <2>4 DEF TypeOK, RunState, Running
    <3> QED BY <3>1, ConstantFacts DEF Steps, Down
  <2> QED BY <2>2, <2>3, <2>4
<1>2. PICK a \in Attempts : SavedBy(g, n, a)
  BY DEF Saved
<1>3. PICK q \in Ranks : shard'[g][n][q] # shard[g][n][q]
  <2>1. ~SavedBy(g, n, a)'
    BY <1>2 DEF Saved
  <2>2. ~\A r \in Ranks : shard'[g][n][r] = a
    BY <2>1 DEF SavedBy
  <2>3. \A r \in Ranks : shard[g][n][r] = a
    BY <1>2 DEF SavedBy
  <2> QED BY <2>2, <2>3
<1>4. CASE RemoveFile
  <2> DEFINE s == paths[group]
             newer == {m \in Steps : m > n /\ Saved(g, m)'}
  <2>1. PICK d \in doomed, r \in Ranks : shard' = [shard EXCEPT ![group][d][r] = 0]
    BY <1>4 DEF RemoveFile
  <2>2. d \in Steps /\ g = group /\ n = d
    BY <1>1, <1>3, <2>1 DEF TypeOK
  <2>3. Len(s) >= MustStay(group) /\ \A i \in 1..Len(s) : n < s[i]
    BY <2>1, <2>2 DEF PathsStand
  <2>4. ASSUME NEW i \in 1..Len(s), NEW m, m = s[i]
        PROVE  m \in newer
    <3>1. s[i] \in Steps /\ s[i] \in Int /\ n \in Int
      <4>1. s[i] \in Steps
        BY <1>1, ElementOfSeq
      <4> QED BY <4>1, ConstantFacts DEF Steps
    <3>2. n < s[i] /\ s[i] # n
      BY <2>3, <3>1
    <3>3. \A p \in Ranks : shard'[group][s[i]][p] = shard[group][s[i]][p]
      BY <1>1, <2>1, <2>2, <3>1, <3>2
    <3>4. SavedBy(group, s[i], attempt)
      BY <1>1 DEF PathsStand
    <3>5. \A p \in Ranks : shard'[g][m][p] = attempt
      BY <2>2, <2>4, <3>3, <3>4 DEF SavedBy
    <3>6. Saved(g, m)'
      BY <1>1, <3>5 DEF Saved, SavedBy
    <3> QED BY <2>4, <3>1, <3>2, <3>6
  <2>5. s \in Seq(Steps) /\ Ascending(s) /\ newer \in SUBSET Steps
    BY <1>1 DEF PathsAscend
  <2>6. newer \in SUBSET Nat /\ IsFiniteSet(newer) /\ Cardinality(newer) \in Nat
    <3>1. IsFiniteSet(Steps) /\ Steps \subseteq Nat
      <4>1. T \in Int /\ 1 \in Int /\ T \in Nat
        BY ConstantFacts
      <4>2. IsFiniteSet(1..T)
        BY <4>1, FS_Interval
      <4> QED BY <4>1, <4>2 DEF Steps
    <3> HIDE DEF newer
    <3>2. newer \subseteq Steps
      BY <2>5
    <3>3. IsFiniteSet(newer)
      BY <3>1, <3>2, FS_Subset
    <3> QED BY <3>1, <3>2, <3>3, FS_CardinalityType
  <2>7. Len(s) <= Cardinality(newer)
    <3> HIDE DEF newer, s
    <3> QED BY <2>4, <2>5, AscendingRange
  <2>8. Len(s) \in Nat /\ MustStay(group) \in Nat
    BY <2>5, LenProperties, ConstantFacts, <1>1 DEF MustStay
  <2>9. Cardinality(newer) >= MustStay(g)
    <3> HIDE DEF newer, s
    <3> QED BY <2>2, <2>3, <2>6, <2>7, <2>8
  <2> QED BY <2>9
<1>5. CASE TruncateShard
  <2>1. PICK r \in Ranks \ written : shard' = [shard EXCEPT ![group][step][r] = 0]
    BY <1>5 DEF TruncateShard
  <2>2. pc = "write" /\ step \in Steps /\ tracker < step
    BY <1>1, <1>5 DEF TruncateShard, Saving
  <2>3. g = group /\ n = step
    BY <1>1, <1>3, <2>1, <2>2
  <2>4. shard[g][n][r] # attempt
    BY <2>1, <2>2, <2>3, ConstantFacts DEF AttemptBehind, Registered, Saving, TypeOK, GroupIds
  <2>5. \A p \in Ranks : shard[g][n][p] = a /\ shard[g][n][p] <= attempt
    BY <1>2 DEF SavedBy, AttemptBehind
  <2>6. a < attempt
    <3>1. a \in Int /\ a <= attempt /\ a # attempt
      BY <2>1, <2>4, <2>5, ConstantFacts DEF Attempts
    <3> QED BY <1>1, <3>1
  <2> QED BY <2>2, <2>3, <2>5, <2>6
<1>6. ASSUME WriteShard PROVE FALSE
  <2>1. PICK r \in Ranks : /\ shard[group][step][r] = 0
                           /\ shard' = [shard EXCEPT ![group][step][r] = attempt]
    BY <1>6 DEF WriteShard
  <2>2. step \in Steps
    BY <1>1, <1>6 DEF WriteShard, Saving
  <2>3. g = group /\ n = step
    BY <1>1, <1>3, <2>1, <2>2
  <2>4. shard[g][n][r] = a /\ a # 0
    BY <1>2, ConstantFacts DEF SavedBy, Attempts
  <2> QED BY <2>1, <2>3, <2>4
<1>7. RemoveFile \/ TruncateShard \/ WriteShard \/ shard' = shard
  BY DEF Next, Work, Scratch, Resume, StartFails, TrainStep, Finish, EnsureCapacity, MakeDirectory,
         Barrier, RegisterCheckpoint, GroupSaved, SaveData, TruncateTracker, WriteTracker, Crash,
         vars, process, disk
<1> QED BY <1>3, <1>4, <1>5, <1>6, <1>7

\* A complete checkpoint goes only when rotation leaves as many newer complete ones
\* as the group's limit promises, for any limit, or when a later attempt saves the
\* same step again, which was never tracked.
THEOREM RotationHolds == Spec => RotationKeepsNewer
<1>1. Init => RotationInv
  BY InitType, InitRun, InitPaths, InitFiles, InitStand DEF RotationInv
<1>2. RotationInv /\ [Next]_vars => RotationInv'
  BY TypeInduction, RunInduction, PathsInduction, SavedInduction, BehindInduction, StandInduction
     DEF RotationInv
<1>3. RotationInv /\ [Next]_vars =>
        [\A g \in GroupIds, n \in Steps :
            Saved(g, n) /\ ~Saved(g, n)' =>
               \/ Cardinality({m \in Steps : m > n /\ Saved(g, m)'}) >= MustStay(g)
               \/ /\ pc = "write" /\ g = group /\ n = step /\ tracker < n
                  /\ \A r \in Ranks : shard[g][n][r] < attempt]_vars
  BY LostStep
<1> QED BY <1>1, <1>2, <1>3, PTL DEF Spec, RotationKeepsNewer
===============================================================================
