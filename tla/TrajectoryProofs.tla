--------------------------- MODULE TrajectoryProofs ---------------------------
(***************************************************************************)
(* What run_task guarantees for any number of iterations and images: its   *)
(* types, the numbering of replies that the training scripts rely on, that *)
(* clipping keeps the instruction of the task and leaves a usable prompt;  *)
(* and what the scripts make of the two things a task leaves on disk,      *)
(* however it ended.                                                       *)
(***************************************************************************)
EXTENDS TrainingData, FiniteSetTheorems, SequenceTheorems, FunctionTheorems,
        WellFoundedInduction, TLAPS

\* Removing a place keeps the elements before it and the type of the others.
LEMMA RemoveAtFacts ==
  ASSUME NEW T, NEW s \in Seq(T), NEW i \in 1 .. Len(s)
  PROVE  /\ RemoveAt(s, i) \in Seq(T)
         /\ Len(RemoveAt(s, i)) = Len(s) - 1
         /\ \A j \in 1 .. (i - 1) : RemoveAt(s, i)[j] = s[j]
         /\ \A j \in i .. (Len(s) - 1) : RemoveAt(s, i)[j] = s[j + 1]
<1> DEFINE front == SubSeq(s, 1, i - 1)
           back == SubSeq(s, i + 1, Len(s))
<1>1. /\ front \in Seq(T)
      /\ Len(front) = i - 1
      /\ \A j \in 1 .. (i - 1) : front[j] = s[j]
  BY SubSeqProperties
<1>2. /\ back \in Seq(T)
      /\ Len(back) = Len(s) - i
      /\ \A j \in 1 .. (Len(s) - i) : back[j] = s[i + j]
  BY SubSeqProperties
<1>3. RemoveAt(s, i) = front \o back
  BY DEF RemoveAt
<1> HIDE DEF front, back
<1>4. /\ front \o back \in Seq(T)
      /\ Len(front \o back) = Len(s) - 1
  <2>1. front \o back \in Seq(T) /\ Len(front \o back) = Len(front) + Len(back)
    BY <1>1, <1>2, ConcatProperties
  <2>2. Len(s) \in Nat /\ i \in Nat
    BY LenProperties
  <2> QED BY <1>1, <1>2, <2>1, <2>2
<1>5. ASSUME NEW j \in 1 .. (i - 1)
      PROVE  (front \o back)[j] = s[j]
  BY <1>1, <1>2, ConcatProperties
<1>6. ASSUME NEW j \in i .. (Len(s) - 1)
      PROVE  (front \o back)[j] = s[j + 1]
  <2>1. j - (i - 1) \in 1 .. (Len(s) - i) /\ i + (j - (i - 1)) = j + 1
        /\ j > i - 1 /\ j \in 1 .. (Len(s) - 1)
    BY LenProperties
  <2>2. (front \o back)[j] = back[j - (i - 1)]
    BY <1>1, <1>2, <2>1, ConcatProperties
  <2> QED BY <1>2, <2>1, <2>2
<1> QED BY <1>3, <1>4, <1>5, <1>6

\* Only an observation is ever taken out or replaced by a clipping.
LEMMA ClipCases ==
  ASSUME NEW m \in Seq(Message)
  PROVE  \/ OldImages(m) = {} /\ Clip(m) = m
         \/ /\ 2 \in Images(m) /\ 2 < Len(m)
            /\ Clip(m) = [m EXCEPT ![2] = UserTurn("task", m[2].iter)]
         \/ \E i \in Images(m) : i # 2 /\ i < Len(m) /\ Clip(m) = RemoveAt(m, i)
<1>1. CASE OldImages(m) = {}
  BY <1>1 DEF Clip
<1>2. CASE OldImages(m) # {}
  <2> DEFINE old == CHOOSE i \in OldImages(m) : TRUE
  <2>1. old \in OldImages(m) /\ OldImages(m) \subseteq Images(m)
    BY <1>2 DEF OldImages
  <2>2. old < Len(m)
    <3>1. Cardinality({j \in Images(m) : j > old}) # 0
      BY <2>1, BoundsAssumption DEF OldImages
    <3>2. {j \in Images(m) : j > old} # {}
      BY <3>1, FS_EmptySet
    <3>3. PICK j \in Images(m) : j > old
      BY <3>2
    <3>4. j \in 1 .. Len(m) /\ old \in 1 .. Len(m) /\ Len(m) \in Nat
      BY <2>1, LenProperties DEF Images
    <3> QED BY <3>3, <3>4
  <2>3. Clip(m) = IF old = 2 THEN [m EXCEPT ![2] = UserTurn("task", m[2].iter)]
                  ELSE RemoveAt(m, old)
    BY <1>2 DEF Clip
  <2> QED BY <2>1, <2>2, <2>3
<1> QED BY <1>1, <1>2

\* Clipping a conversation gives a conversation.
LEMMA ClipType ==
  ASSUME NEW m \in Seq(Message)
  PROVE  Clip(m) \in Seq(Message)
<1>1. ASSUME 2 \in Images(m)
      PROVE  [m EXCEPT ![2] = UserTurn("task", m[2].iter)] \in Seq(Message)
  <2>1. 2 \in 1 .. Len(m) /\ m[2] \in Message /\ m[2].kind = "obs"
    BY <1>1 DEF Images
  <2>2. m[2].iter \in 1 .. MaxIter
    BY <2>1 DEF Message, Replies, Acts, Answers, Bad
  <2>3. UserTurn("task", m[2].iter) \in Message
    BY <2>2 DEF UserTurn, Message, UserKinds
  <2> QED BY <2>1, <2>3
<1>2. ASSUME NEW i \in Images(m)
      PROVE  RemoveAt(m, i) \in Seq(Message)
  BY RemoveAtFacts DEF Images
<1> QED BY <1>1, <1>2, ClipCases

-----------------------------------------------------------------------------
StepsType == Seq([kind : Replies, iter : 1 .. MaxIter])

\* Recording a reply keeps the types.
LEMMA RecordType ==
  ASSUME TypeOK, NEW r \in Replies, Record(r), it \in 1 .. MaxIter
  PROVE  messages' \in Seq(Message) /\ steps' \in StepsType
<1>1. Reply(r, it) \in Message
  BY DEF Reply, Message
<1> QED BY <1>1 DEF Record, TypeOK, StepsType

\* When the model is called, or an action executed, an iteration has begun.
CallInLoop == pc \in {"call", "exec"} => it \in 1 .. MaxIter

\* Every action keeps the types.
LEMMA TypeInduction ==
  ASSUME TypeOK, CallInLoop, [Next]_vars
  PROVE  TypeOK' /\ CallInLoop'
<1> USE BoundsAssumption
<1>1. CASE Launch
  BY <1>1 DEF Launch, TypeOK, CallInLoop
<1>2. CASE LaunchFails
  BY <1>2 DEF LaunchFails, TypeOK, CallInLoop, Ended
<1>3. CASE TakeScreenshot
  <2>1. it + 1 \in 1 .. MaxIter /\ it' = it + 1 /\ pc' = "call"
    BY <1>3 DEF TakeScreenshot, TypeOK, MoreIterations
  <2>2. messages' \in Seq(Message)
    <3> DEFINE turn == IF failObs = "none" THEN "obs" ELSE failObs
    <3>1. turn \in UserKinds
      BY DEF TypeOK, UserKinds
    <3>2. UserTurn(turn, it + 1) \in Message
      BY <2>1, <3>1 DEF UserTurn, Message
    <3>3. Append(messages, UserTurn(turn, it + 1)) \in Seq(Message)
      BY <3>2 DEF TypeOK
    <3> QED BY <1>3, <3>3, ClipType DEF TakeScreenshot
  <2> QED BY <1>3, <2>1, <2>2 DEF TakeScreenshot, TypeOK, CallInLoop
<1>4. CASE ScreenshotFails
  BY <1>4 DEF ScreenshotFails, TypeOK, CallInLoop, FailTexts, MoreIterations
<1>5. CASE CallFails
  BY <1>5 DEF CallFails, TypeOK, CallInLoop
<1>6. CASE ReplyUnparseable
  <2>1. messages' \in Seq(Message) /\ steps' \in StepsType
    BY <1>6, RecordType DEF ReplyUnparseable, CallInLoop, Replies
  <2> QED BY <1>6, <2>1 DEF ReplyUnparseable, TypeOK, CallInLoop, FailTexts, StepsType
<1>7. CASE ReplyActs
  <2>1. messages' \in Seq(Message) /\ steps' \in StepsType
    BY <1>7, RecordType DEF ReplyActs, CallInLoop, Replies
  <2> QED BY <1>7, <2>1 DEF ReplyActs, TypeOK, CallInLoop, StepsType
<1>8. CASE ReplyAnswers
  <2>1. messages' \in Seq(Message) /\ steps' \in StepsType
    BY <1>8, RecordType DEF ReplyAnswers, CallInLoop, Replies
  <2> QED BY <1>8, <2>1 DEF ReplyAnswers, TypeOK, CallInLoop, StepsType
<1>9. CASE Execute
  BY <1>9 DEF Execute, TypeOK, CallInLoop
<1>10. CASE ExecuteFails
  BY <1>10 DEF ExecuteFails, TypeOK, CallInLoop, FailTexts
<1>11. CASE SaveTranscript
  BY <1>11 DEF SaveTranscript, TypeOK, CallInLoop, Ended
<1>12. CASE Abort
  BY <1>12 DEF Abort, TypeOK, CallInLoop, Ended
<1>13. CASE UNCHANGED vars
  BY <1>13 DEF vars, TypeOK, CallInLoop
<1> QED
  BY <1>1, <1>2, <1>3, <1>4, <1>5, <1>6, <1>7, <1>8, <1>9, <1>10, <1>11, <1>12,
     <1>13 DEF Next

\* At the start nothing was collected.
LEMMA InitType == Init => TypeOK /\ CallInLoop
<1>1. SystemPrompt \in Message
  BY DEF SystemPrompt, Message
<1> QED BY <1>1, BoundsAssumption DEF Init, TypeOK, CallInLoop, StepsType

(* The types of run_task's variables hold for any MaxIter and MaxImgs.      *)
THEOREM TypeCorrect == Spec => [](TypeOK /\ CallInLoop)
BY InitType, TypeInduction, PTL DEF Spec

-----------------------------------------------------------------------------
(* StepsFollowIterations is not inductive: that a new reply belongs to a    *)
(* new iteration, with its screenshot, rests on what holds while the model  *)
(* is called, and that none is missing on the count of the replies so far.  *)
Numbering ==
  /\ shots \subseteq 1 .. it
  /\ dropped \subseteq 1 .. it
  /\ \A k \in DOMAIN steps : steps[k].iter <= it
  /\ pc = "launch" => it = 0
  /\ pc = "call" => /\ it \in shots
                    /\ it \notin dropped
                    /\ \A k \in DOMAIN steps : steps[k].iter # it
  /\ dropped = {} => /\ pc = "call" => Len(steps) = it - 1
                     /\ pc \notin {"call", "aborted"} => Len(steps) = it

NumberInv == Numbering /\ StepsFollowIterations /\ AlignedWhenNothingDropped

\* The numbers of the replies are iterations.
LEMMA StepTypes ==
  ASSUME TypeOK
  PROVE  /\ steps \in StepsType /\ DOMAIN steps = 1 .. Len(steps) /\ Len(steps) \in Nat
         /\ \A k \in DOMAIN steps : steps[k].iter \in 1 .. MaxIter
<1>1. steps \in StepsType
  BY DEF TypeOK, StepsType
<1>2. DOMAIN steps = 1 .. Len(steps) /\ Len(steps) \in Nat
  BY <1>1 DEF StepsType
<1>3. \A k \in DOMAIN steps : steps[k] \in [kind : Replies, iter : 1 .. MaxIter]
  BY <1>1, <1>2, ElementOfSeq DEF StepsType
<1> QED BY <1>1, <1>2, <1>3

\* A recorded reply is the last one, of the present iteration.
LEMMA RecordNumber ==
  ASSUME TypeOK, NumberInv, pc = "call", it \in 1 .. MaxIter,
         NEW r \in Replies, Record(r)
  PROVE  /\ DOMAIN steps' = 1 .. Len(steps) + 1
         /\ Len(steps') = Len(steps) + 1
         /\ \A k \in DOMAIN steps : steps'[k] = steps[k]
         /\ steps'[Len(steps) + 1].iter = it
         /\ \A k \in DOMAIN steps : steps[k].iter < it
         /\ Len(steps) + 1 <= it
<1>1. steps \in StepsType /\ DOMAIN steps = 1 .. Len(steps) /\ Len(steps) \in Nat
  BY StepTypes
<1>2. \A k \in DOMAIN steps : steps[k].iter \in 1 .. MaxIter
  BY StepTypes
<1>3. \A k \in DOMAIN steps : steps[k].iter < it
  BY <1>2, BoundsAssumption DEF NumberInv, Numbering, TypeOK
<1>4. Len(steps) + 1 <= it
  <2>1. CASE Len(steps) = 0
    BY <2>1
  <2>2. CASE Len(steps) # 0
    <3>1. Len(steps) \in DOMAIN steps
      BY <1>1, <2>2
    <3>2. steps[Len(steps)].iter >= Len(steps)
      BY <3>1 DEF NumberInv, StepsFollowIterations
    <3> QED BY <1>1, <1>2, <1>3, <3>1, <3>2
  <2> QED BY <2>1, <2>2
<1>5. steps' = Append(steps, [kind |-> r, iter |-> it])
  BY DEF Record
<1> QED BY <1>1, <1>3, <1>4, <1>5

\* So recording it keeps the numbering.
LEMMA RecordKeepsNumbering ==
  ASSUME TypeOK, NumberInv, pc = "call", it \in 1 .. MaxIter,
         NEW r \in Replies, Record(r),
         UNCHANGED <<it, shots, dropped>>, pc' \in {"loop", "exec", "done"}
  PROVE  NumberInv'
<1> USE RecordNumber
<1>1. steps \in StepsType /\ DOMAIN steps = 1 .. Len(steps) /\ Len(steps) \in Nat
  BY StepTypes
<1>2. \A k \in DOMAIN steps' : k \in DOMAIN steps \/ k = Len(steps) + 1
  BY <1>1
<1>3. Numbering'
  BY SMTT(30), <1>1, <1>2 DEF NumberInv, Numbering, TypeOK
<1>4. StepsFollowIterations'
  <2>1. \A k \in DOMAIN steps' : steps'[k].iter \in shots' /\ steps'[k].iter >= k
    BY <1>1, <1>2 DEF NumberInv, Numbering, StepsFollowIterations, TypeOK
  <2>2. \A j, k \in DOMAIN steps' : j < k => steps'[j].iter < steps'[k].iter
    BY <1>1, <1>2 DEF NumberInv, StepsFollowIterations
  <2>3. \A k \in DOMAIN steps' : steps'[k].iter \notin dropped'
    BY <1>1, <1>2 DEF NumberInv, Numbering, StepsFollowIterations
  <2>4. \A i \in 1 .. it' : \/ i \in dropped'
                            \/ \E k \in DOMAIN steps' : steps'[k].iter = i
    <3> SUFFICES ASSUME NEW i \in 1 .. it, i \notin dropped
                 PROVE  \E k \in DOMAIN steps' : steps'[k].iter = i
      OBVIOUS
    <3>1. CASE i = it
      BY <3>1, <1>1
    <3>2. CASE i # it
      <4>1. PICK k \in DOMAIN steps : steps[k].iter = i
        BY <3>2 DEF NumberInv, StepsFollowIterations
      <4>2. k \in DOMAIN steps' /\ steps'[k].iter = i
        BY <4>1, <1>1
      <4> QED BY <4>2
    <3> QED BY <3>1, <3>2
  <2> QED BY <2>1, <2>2, <2>3, <2>4 DEF StepsFollowIterations
<1>5. AlignedWhenNothingDropped'
  BY <1>1, <1>2 DEF NumberInv, Numbering, AlignedWhenNothingDropped, TypeOK
<1> QED BY <1>3, <1>4, <1>5 DEF NumberInv

\* Every action keeps the numbering.
LEMMA NumberInduction ==
  ASSUME TypeOK, CallInLoop, NumberInv, [Next]_vars
  PROVE  NumberInv'
<1>1. /\ it \in Nat /\ MaxIter \in Nat /\ Len(steps) \in Nat
      /\ \A k \in DOMAIN steps : steps[k].iter \in Nat
  BY StepTypes, BoundsAssumption DEF TypeOK
<1> USE BoundsAssumption DEF NumberInv, Numbering, StepsFollowIterations,
                             AlignedWhenNothingDropped
<1>2. CASE Launch
  BY <1>1, <1>2 DEF Launch
<1>3. CASE LaunchFails
  BY <1>1, <1>3 DEF LaunchFails
<1>4. CASE TakeScreenshot
  <2>1. /\ pc = "loop" /\ pc' = "call"
        /\ it' = it + 1
        /\ shots' = shots \cup {it + 1}
        /\ steps' = steps /\ dropped' = dropped
    BY <1>4 DEF TakeScreenshot
  <2>2. Numbering'
    <3>1. 1 .. it \subseteq 1 .. it' /\ it + 1 \in 1 .. it'
      BY <1>1, <2>1
    <3>2. shots' \subseteq 1 .. it' /\ dropped' \subseteq 1 .. it'
      BY <2>1, <3>1
    <3>3. \A k \in DOMAIN steps' : steps'[k].iter <= it'
      BY <1>1, <2>1
    <3>4. pc' = "call" => it' \in shots' /\ it' \notin dropped'
      BY <1>1, <2>1
    <3>5. pc' = "call" => \A k \in DOMAIN steps' : steps'[k].iter # it'
      BY <1>1, <2>1
    <3>6. dropped' = {} =>
            /\ pc' = "call" => Len(steps') = it' - 1
            /\ pc' \notin {"call", "aborted"} => Len(steps') = it'
      BY <1>1, <2>1
    <3> QED BY <2>1, <3>2, <3>3, <3>4, <3>5, <3>6
  <2>3. StepsFollowIterations'
    <3>1. \A k \in DOMAIN steps' : steps'[k].iter \in shots' /\ steps'[k].iter >= k
      BY <1>1, <2>1
    <3>2. \A j, k \in DOMAIN steps' : j < k => steps'[j].iter < steps'[k].iter
      BY <1>1, <2>1
    <3>3. \A k \in DOMAIN steps' : steps'[k].iter \notin dropped'
      BY <1>1, <2>1
    <3>4. \A i \in 1 .. it' : \/ i \in dropped'
                              \/ \E k \in DOMAIN steps' : steps'[k].iter = i
                              \/ i = it' /\ pc' \in {"call", "aborted"}
      BY <1>1, <2>1
    <3> QED BY <3>1, <3>2, <3>3, <3>4
  <2>4. AlignedWhenNothingDropped'
    BY <2>1
  <2> QED BY <2>2, <2>3, <2>4
<1>5. CASE ScreenshotFails
  <2>1. /\ pc = "loop" /\ pc' = "loop"
        /\ it' = it + 1
        /\ dropped' = dropped \cup {it + 1}
        /\ shots' = shots /\ steps' = steps
    BY <1>5 DEF ScreenshotFails
  <2>2. Numbering'
    <3>1. 1 .. it \subseteq 1 .. it' /\ it + 1 \in 1 .. it'
      BY <1>1, <2>1
    <3>2. shots' \subseteq 1 .. it' /\ dropped' \subseteq 1 .. it'
      BY <2>1, <3>1
    <3>3. \A k \in DOMAIN steps' : steps'[k].iter <= it'
      BY <1>1, <2>1
    <3>4. pc' = "call" => it' \in shots' /\ it' \notin dropped'
      BY <1>1, <2>1
    <3>5. pc' = "call" => \A k \in DOMAIN steps' : steps'[k].iter # it'
      BY <1>1, <2>1
    <3>6. dropped' = {} =>
            /\ pc' = "call" => Len(steps') = it' - 1
            /\ pc' \notin {"call", "aborted"} => Len(steps') = it'
      BY <1>1, <2>1
    <3> QED BY <2>1, <3>2, <3>3, <3>4, <3>5, <3>6
  <2>3. StepsFollowIterations'
    <3>1. \A k \in DOMAIN steps' : steps'[k].iter \in shots' /\ steps'[k].iter >= k
      BY <1>1, <2>1
    <3>2. \A j, k \in DOMAIN steps' : j < k => steps'[j].iter < steps'[k].iter
      BY <1>1, <2>1
    <3>3. \A k \in DOMAIN steps' : steps'[k].iter \notin dropped'
      BY <1>1, <2>1
    <3>4. \A i \in 1 .. it' : \/ i \in dropped'
                              \/ \E k \in DOMAIN steps' : steps'[k].iter = i
                              \/ i = it' /\ pc' \in {"call", "aborted"}
      BY <1>1, <2>1
    <3> QED BY <3>1, <3>2, <3>3, <3>4
  <2>4. AlignedWhenNothingDropped'
    BY <2>1
  <2> QED BY <2>2, <2>3, <2>4
<1>6. CASE CallFails
  BY <1>1, <1>6 DEF CallFails
<1>7. CASE ReplyUnparseable
  BY <1>7, RecordKeepsNumbering DEF ReplyUnparseable, CallInLoop, Replies
<1>8. CASE ReplyActs
  BY <1>8, RecordKeepsNumbering DEF ReplyActs, CallInLoop, Replies
<1>9. CASE ReplyAnswers
  BY <1>9, RecordKeepsNumbering DEF ReplyAnswers, CallInLoop, Replies
<1>10. CASE Execute
  BY <1>1, <1>10 DEF Execute
<1>11. CASE ExecuteFails
  BY <1>1, <1>11 DEF ExecuteFails
<1>12. CASE SaveTranscript
  BY <1>1, <1>12 DEF SaveTranscript
<1>13. CASE Abort
  BY <1>1, <1>13 DEF Abort
<1>14. CASE UNCHANGED vars
  BY <1>14 DEF vars
<1> QED
  BY <1>2, <1>3, <1>4, <1>5, <1>6, <1>7, <1>8, <1>9, <1>10, <1>11, <1>12, <1>13,
     <1>14 DEF Next

\* No reply was numbered yet.
LEMMA InitNumber == Init => NumberInv
BY DEF Init, NumberInv, Numbering, StepsFollowIterations, AlignedWhenNothingDropped

(* Replies are numbered by their iterations, and an iteration that left no  *)
(* reply is one whose screenshot or whose call failed.                      *)
THEOREM StepsNumbered == Spec => []StepsFollowIterations
<1>1. TypeOK /\ CallInLoop /\ NumberInv /\ [Next]_vars => (TypeOK /\ CallInLoop /\ NumberInv)'
  BY TypeInduction, NumberInduction
<1>2. NumberInv => StepsFollowIterations
  BY DEF NumberInv
<1> QED BY <1>1, <1>2, InitType, InitNumber, PTL DEF Spec

(* A task that dropped no iteration has reply k beside screenshot k.        *)
THEOREM RepliesAligned == Spec => []AlignedWhenNothingDropped
<1>1. TypeOK /\ CallInLoop /\ NumberInv /\ [Next]_vars => (TypeOK /\ CallInLoop /\ NumberInv)'
  BY TypeInduction, NumberInduction
<1>2. NumberInv => AlignedWhenNothingDropped
  BY DEF NumberInv
<1> QED BY <1>1, <1>2, InitType, InitNumber, PTL DEF Spec

-----------------------------------------------------------------------------
(* Clipping never disturbs the second place once the instruction is there.  *)
Anchored ==
  /\ Len(messages) >= 1
  /\ messages[1] = SystemPrompt
  /\ shots \subseteq 1 .. it
  /\ it = 0 => messages = <<SystemPrompt>> /\ failObs = "none"

InstructionInv == Anchored /\ InstructionKept

Anchors(m) == /\ Len(m) >= 2
              /\ m[1] = SystemPrompt
              /\ m[2].iter = 1
              /\ m[2].kind \in {"obs", "task"}

\* Clipping keeps the system prompt, and the instruction behind it.
LEMMA ClipKeepsAnchor ==
  ASSUME NEW m \in Seq(Message), Len(m) >= 1, m[1] = SystemPrompt
  PROVE  /\ Len(Clip(m)) >= 1
         /\ Clip(m)[1] = SystemPrompt
         /\ Anchors(m) => Anchors(Clip(m))
<1>1. 1 \notin Images(m)
  BY DEF Images, SystemPrompt
<1>2. CASE Clip(m) = m
  BY <1>2
<1>3. CASE 2 \in Images(m) /\ Clip(m) = [m EXCEPT ![2] = UserTurn("task", m[2].iter)]
  BY <1>3 DEF Images, Anchors, UserTurn
<1>4. ASSUME NEW i \in Images(m), i # 2, Clip(m) = RemoveAt(m, i)
      PROVE  /\ Len(Clip(m)) >= 1
             /\ Clip(m)[1] = SystemPrompt
             /\ Anchors(m) => Anchors(Clip(m))
  <2>1. i \in 3 .. Len(m)
    BY <1>1, <1>4 DEF Images
  <2>2. i \in 1 .. Len(m) /\ 1 \in 1 .. (i - 1) /\ 2 \in 1 .. (i - 1)
    BY <2>1
  <2>3. /\ Len(RemoveAt(m, i)) = Len(m) - 1
        /\ \A j \in 1 .. (i - 1) : RemoveAt(m, i)[j] = m[j]
    BY <2>2, RemoveAtFacts
  <2> QED BY <1>4, <2>1, <2>2, <2>3 DEF Anchors
<1> QED BY <1>2, <1>3, <1>4, ClipCases

\* The first observation is not clipped: no newer one is behind it.
LEMMA FirstObservation ==
  ASSUME NEW m \in Seq(Message), Len(m) = 2, m[1] = SystemPrompt
  PROVE  Clip(m) = m
<1>1. Images(m) \subseteq {2}
  BY DEF Images, SystemPrompt
<1>2. \A i \in Images(m) : {j \in Images(m) : j > i} = {}
  BY <1>1
<1>3. \A i \in Images(m) : Cardinality({j \in Images(m) : j > i}) = 0
  BY <1>2, FS_EmptySet
<1>4. OldImages(m) = {}
  BY <1>3, BoundsAssumption DEF OldImages
<1> QED BY <1>4 DEF Clip

\* An observation keeps the anchor, or is the first and becomes it.
LEMMA ScreenshotKeepsInstruction ==
  ASSUME TypeOK, InstructionInv, TakeScreenshot
  PROVE  InstructionInv'
<1> DEFINE turn == IF failObs = "none" THEN "obs" ELSE failObs
           m == Append(messages, UserTurn(turn, it + 1))
<1>1. it \in 0 .. MaxIter /\ it < MaxIter /\ it' = it + 1 /\ shots' = shots \cup {it + 1}
  BY DEF TakeScreenshot, TypeOK, MoreIterations
<1>2. m \in Seq(Message) /\ messages' = Clip(m)
  <2>1. UserTurn(turn, it + 1) \in Message
    BY <1>1, BoundsAssumption DEF UserTurn, Message, TypeOK, UserKinds
  <2> QED BY <2>1 DEF TakeScreenshot, TypeOK
<1>3. Len(m) >= 1 /\ m[1] = SystemPrompt /\ (Anchors(messages) => Anchors(m))
  BY DEF InstructionInv, Anchored, TypeOK, Anchors
<1>4. Len(messages') >= 1 /\ messages'[1] = SystemPrompt /\ (Anchors(messages) => Anchors(messages'))
  BY <1>2, <1>3, ClipKeepsAnchor
<1>5. CASE it = 0
  <2>1. messages = <<SystemPrompt>> /\ turn = "obs" /\ it + 1 = 1
    BY <1>5 DEF InstructionInv, Anchored
  <2>2. Len(m) = 2 /\ m[1] = SystemPrompt /\ m[2] = UserTurn("obs", 1)
    BY <2>1
  <2>3. messages' = m
    BY <1>2, <2>2, FirstObservation
  <2> QED BY <1>1, <1>4, <1>5, <2>2, <2>3
          DEF InstructionInv, Anchored, InstructionKept, UserTurn
<1>6. CASE it # 0
  <2>1. 1 \in shots' => Anchors(messages)
    BY <1>1, <1>6 DEF InstructionInv, Anchored, InstructionKept, Anchors
  <2> QED BY <1>1, <1>4, <1>6, <2>1
          DEF InstructionInv, Anchored, InstructionKept, Anchors
<1> QED BY <1>5, <1>6

\* A reply is appended behind it.
LEMMA RecordKeepsInstruction ==
  ASSUME TypeOK, InstructionInv, it \in 1 .. MaxIter,
         NEW r \in Replies, Record(r), UNCHANGED <<it, shots>>
  PROVE  InstructionInv'
<1>1. messages' = Append(messages, Reply(r, it)) /\ messages \in Seq(Message)
  BY DEF Record, TypeOK
<1>2. Len(messages') = Len(messages) + 1 /\ \A i \in 1 .. Len(messages) : messages'[i] = messages[i]
  BY <1>1
<1> QED BY <1>1, <1>2 DEF InstructionInv, Anchored, InstructionKept

\* Every action keeps the instruction.
LEMMA InstructionInduction ==
  ASSUME TypeOK, CallInLoop, InstructionInv, [Next]_vars
  PROVE  InstructionInv'
<1> USE BoundsAssumption DEF InstructionInv, Anchored, InstructionKept
<1>1. CASE Launch \/ LaunchFails \/ Execute \/ SaveTranscript \/ Abort
  BY <1>1 DEF Launch, LaunchFails, Execute, SaveTranscript, Abort
<1>2. CASE TakeScreenshot
  BY <1>2, ScreenshotKeepsInstruction
<1>3. CASE ScreenshotFails
  BY <1>3 DEF ScreenshotFails, TypeOK
<1>4. CASE CallFails
  BY <1>4 DEF CallFails
<1>5. CASE ReplyUnparseable
  BY <1>5, RecordKeepsInstruction DEF ReplyUnparseable, CallInLoop, Replies
<1>6. CASE ReplyActs
  BY <1>6, RecordKeepsInstruction DEF ReplyActs, CallInLoop, Replies
<1>7. CASE ReplyAnswers
  BY <1>7, RecordKeepsInstruction DEF ReplyAnswers, CallInLoop, Replies
<1>8. CASE ExecuteFails
  <2>1. it # 0
    BY <1>8 DEF ExecuteFails, CallInLoop
  <2> QED BY <1>8, <2>1 DEF ExecuteFails
<1>9. CASE UNCHANGED vars
  BY <1>9 DEF vars
<1> QED
  BY <1>1, <1>2, <1>3, <1>4, <1>5, <1>6, <1>7, <1>8, <1>9 DEF Next

\* The conversation starts with the system prompt.
LEMMA InitInstruction == Init => InstructionInv
BY DEF Init, InstructionInv, Anchored, InstructionKept

(* Once the first observation was sent, the model always gets to see the    *)
(* instruction, whatever fails and however much is clipped.                 *)
THEOREM InstructionNeverLost == Spec => []InstructionKept
<1>1. TypeOK /\ CallInLoop /\ InstructionInv /\ [Next]_vars
        => (TypeOK /\ CallInLoop /\ InstructionInv)'
  BY TypeInduction, InstructionInduction
<1>2. InstructionInv => InstructionKept
  BY DEF InstructionInv
<1> QED BY <1>1, <1>2, InitType, InitInstruction, PTL DEF Spec

-----------------------------------------------------------------------------
(* InOrder lists the members of a set.  No induction over data is needed    *)
(* for it: a set that could not be listed would be a least one.             *)

\* A set of naturals has a least element.
LEMMA LeastNatural ==
  ASSUME NEW S, S \subseteq Nat, S # {}
  PROVE  \E k \in S : \A j \in S : k <= j
<1> DEFINE Less == OpToRel(<, Nat)
<1>1. IsWellFoundedOn(Less, Nat)
  BY NatLessThanWellFounded
<1>2. \A i, j \in Nat : << i, j >> \in Less <=> i < j
  BY DEF OpToRel
<1> HIDE DEF Less
<1>3. PICK k \in S : \A j \in S : ~(<< j, k >> \in Less)
  BY <1>1, WFMin
<1>4. ASSUME NEW j \in S PROVE k <= j
  <2>1. j \in Nat /\ k \in Nat
    OBVIOUS
  <2>2. ~(j < k)
    BY <1>2, <1>3, <2>1
  <2> QED BY <2>1, <2>2
<1> QED BY <1>4

\* f lists the n members of S, smallest first.
Lists(f, n, S) ==
  /\ n \in Nat /\ f \in [1 .. n -> S]
  /\ \A j, k \in 1 .. n : j < k => f[j] < f[k]
  /\ \A i \in S : \E k \in 1 .. n : f[k] = i

\* So its values are smaller where its arguments are, and only there.
LEMMA ListOrder ==
  ASSUME NEW S \in SUBSET Nat, NEW n, NEW f, Lists(f, n, S)
  PROVE  \A j, k \in 1 .. n : /\ f[j] \in Nat /\ f[k] \in Nat
                              /\ (f[j] < f[k] <=> j < k)
                              /\ (f[j] = f[k] <=> j = k)
<1> SUFFICES ASSUME NEW j \in 1 .. n, NEW k \in 1 .. n
             PROVE  /\ f[j] \in Nat /\ f[k] \in Nat
                    /\ (f[j] < f[k] <=> j < k)
                    /\ (f[j] = f[k] <=> j = k)
  OBVIOUS
<1>1. f[j] \in Nat /\ f[k] \in Nat /\ j \in Nat /\ k \in Nat /\ n \in Nat
  <2>1. n \in Nat /\ f[j] \in S /\ f[k] \in S
    BY DEF Lists
  <2>2. f[j] \in Nat /\ f[k] \in Nat
    BY <2>1
  <2>3. j \in Nat /\ k \in Nat
    BY <2>1
  <2> QED BY <2>1, <2>2, <2>3
<1>2. (j < k => f[j] < f[k]) /\ (k < j => f[k] < f[j])
  BY DEF Lists
<1> QED BY <1>1, <1>2

\* Every finite set of positive numbers is listed.
LEMMA ListExists ==
  ASSUME NEW n \in Nat, NEW S \in SUBSET (1 .. n)
  PROVE  \E m \in Nat : \E f : Lists(f, m, S)
<1> DEFINE P(k) == \A R \in SUBSET (1 .. k) : \E m \in Nat : \E f : Lists(f, m, R)
           B == {k \in Nat : ~P(k)}
<1>1. ASSUME B # {} PROVE FALSE
  <2>1. PICK k \in B : \A j \in B : k <= j
    BY <1>1, LeastNatural
  <2>2. k \in Nat /\ ~P(k)
    BY <2>1
  <2>3. PICK R \in SUBSET (1 .. k) : ~(\E m \in Nat : \E f : Lists(f, m, R))
    BY <2>2
  <2>4. CASE k = 0
    <3>1. R = {} /\ 1 .. 0 = {}
      BY <2>4
    <3> DEFINE e == [x \in 1 .. 0 |-> x]
    <3>2. Lists(e, 0, R)
      BY <3>1 DEF Lists
    <3> QED BY <2>3, <3>2
  <2>5. CASE k # 0
    <3>1. k - 1 \in Nat /\ k - 1 \notin B
      BY <2>1, <2>2, <2>5
    <3>2. P(k - 1)
      BY <3>1
    <3> DEFINE Q == R \ {k}
    <3>3. Q \in SUBSET (1 .. k - 1) /\ Q \subseteq Nat
      BY <2>2
    <3>4. PICK m \in Nat : \E f : Lists(f, m, Q)
      BY <3>2, <3>3
    <3>5. PICK f : Lists(f, m, Q)
      BY <3>4
    <3>6. k \in R
      <4>1. k \notin R => Q = R
        OBVIOUS
      <4> QED BY <2>3, <3>5, <4>1
    <3> DEFINE g == [j \in 1 .. m + 1 |-> IF j = m + 1 THEN k ELSE f[j]]
    <3>7. \A j \in 1 .. m : f[j] \in Q /\ f[j] \in R /\ f[j] < k /\ g[j] = f[j]
      <4> SUFFICES ASSUME NEW j \in 1 .. m PROVE f[j] \in Q /\ f[j] \in R /\ f[j] < k /\ g[j] = f[j]
        OBVIOUS
      <4>1. f[j] \in Q
        BY <3>5 DEF Lists
      <4>2. f[j] \in 1 .. k - 1
        BY <3>3, <4>1
      <4> QED BY <2>2, <4>1, <4>2
    <3>8. g[m + 1] = k /\ DOMAIN g = 1 .. m + 1
      OBVIOUS
    <3>9. g \in [1 .. m + 1 -> R]
      <4>1. \A j \in 1 .. m + 1 : j = m + 1 \/ j \in 1 .. m
        OBVIOUS
      <4>2. \A j \in 1 .. m + 1 : (IF j = m + 1 THEN k ELSE f[j]) \in R
        BY <3>6, <3>7, <4>1
      <4> QED BY <4>2
    <3> HIDE DEF g, Q
    <3>10. \A i, j \in 1 .. m + 1 : i < j => g[i] < g[j]
      <4> SUFFICES ASSUME NEW i \in 1 .. m + 1, NEW j \in 1 .. m + 1, i < j PROVE g[i] < g[j]
        OBVIOUS
      <4>1. i \in 1 .. m /\ g[i] = f[i] /\ f[i] < k
        BY <3>7
      <4>2. CASE j = m + 1
        BY <3>8, <4>1, <4>2
      <4>3. CASE j # m + 1
        <5>1. j \in 1 .. m /\ g[j] = f[j]
          BY <3>7, <4>3
        <5> QED BY <3>5, <4>1, <5>1 DEF Lists
      <4> QED BY <4>2, <4>3
    <3>11. \A i \in R : \E j \in 1 .. m + 1 : g[j] = i
      <4> SUFFICES ASSUME NEW i \in R PROVE \E j \in 1 .. m + 1 : g[j] = i
        OBVIOUS
      <4>1. CASE i = k
        BY <3>8, <4>1
      <4>2. CASE i # k
        <5>1. i \in Q
          BY <4>2 DEF Q
        <5>2. PICK j \in 1 .. m : f[j] = i
          BY <3>5, <5>1 DEF Lists
        <5>3. j \in 1 .. m + 1 /\ g[j] = i
          BY <3>7, <5>2
        <5> QED BY <5>3
      <4> QED BY <4>1, <4>2
    <3>12. m + 1 \in Nat /\ Lists(g, m + 1, R)
      BY <3>9, <3>10, <3>11 DEF Lists
    <3> QED BY <2>3, <3>12
  <2> QED BY <2>4, <2>5
<1> HIDE DEF P
<1>2. P(n)
  BY <1>1
<1> QED BY <1>2 DEF P

\* The first k members are k members.
LEMMA ListPrefix ==
  ASSUME NEW S \in SUBSET Nat, NEW n, NEW f, Lists(f, n, S)
  PROVE  \A k \in 1 .. n : f[k] \in S /\ Cardinality({j \in S : j <= f[k]}) = k
<1> SUFFICES ASSUME NEW k \in 1 .. n PROVE f[k] \in S /\ Cardinality({j \in S : j <= f[k]}) = k
  OBVIOUS
<1>1. \A i, j \in 1 .. n : /\ f[i] \in Nat /\ f[j] \in Nat
                           /\ (f[i] < f[j] <=> i < j)
                           /\ (f[i] = f[j] <=> i = j)
  BY ListOrder
<1> DEFINE T == {j \in S : j <= f[k]}
           g == [i \in 1 .. k |-> f[i]]
<1>2. n \in Nat /\ k \in Nat /\ \A i \in 1 .. k : i \in 1 .. n
  BY DEF Lists
<1>3. \A i \in 1 .. k : f[i] \in T
  <2> SUFFICES ASSUME NEW i \in 1 .. k PROVE f[i] \in S /\ f[i] <= f[k]
    OBVIOUS
  <2>1. f[i] \in S /\ f[k] \in S /\ f[i] \in Nat /\ f[k] \in Nat /\ i \in 1 .. n
    BY <1>2 DEF Lists
  <2>2. i < k \/ i = k
    BY <1>2
  <2> QED BY <1>1, <2>1, <2>2
<1>4. \A j \in T : \E i \in 1 .. k : f[i] = j
  <2> SUFFICES ASSUME NEW j \in S, j <= f[k] PROVE \E i \in 1 .. k : f[i] = j
    OBVIOUS
  <2>1. PICK i \in 1 .. n : f[i] = j
    BY DEF Lists
  <2>2. ~(f[k] < f[i])
    <3>1. f[i] \in Nat /\ f[k] \in Nat
      BY DEF Lists
    <3> QED BY <2>1, <3>1
  <2>3. ~(k < i)
    BY <1>1, <1>2, <2>1, <2>2
  <2>4. i \in 1 .. k
    BY <1>2, <2>1, <2>3
  <2> QED BY <2>1, <2>4
<1> HIDE DEF T
<1>5. g \in Bijection(1 .. k, T)
  <2>1. g \in [1 .. k -> T]
    BY <1>3
  <2>2. \A i, j \in 1 .. k : g[i] = g[j] => i = j
    BY <1>1, <1>2
  <2>3. \A j \in T : \E i \in 1 .. k : g[i] = j
    BY <1>4
  <2> HIDE DEF g
  <2> QED BY <2>1, <2>2, <2>3 DEF Bijection, Injection, Surjection, IsInjective
<1>6. IsFiniteSet(1 .. k) /\ Cardinality(1 .. k) = k
  BY <1>2, FS_Interval
<1>7. ExistsBijection(1 .. k, T)
  BY <1>5 DEF ExistsBijection
<1>8. f[k] \in S
  BY DEF Lists
<1> QED BY <1>6, <1>7, <1>8, FS_Bijection DEF T

\* InOrder lists a set.
LEMMA InOrderLists ==
  ASSUME NEW n \in Nat, NEW S \in SUBSET (1 .. n)
  PROVE  /\ IsFiniteSet(S)
         /\ Lists(InOrder(S), Cardinality(S), S)
<1>1. PICK m \in Nat : \E f : Lists(f, m, S)
  BY ListExists
<1>2. PICK f : Lists(f, m, S)
  BY <1>1
<1>3. S \in SUBSET Nat
  OBVIOUS
<1>4. \A k \in 1 .. m : f[k] \in S /\ Cardinality({j \in S : j <= f[k]}) = k
  BY <1>2, <1>3, ListPrefix
<1>5. IsFiniteSet(S) /\ Cardinality(S) = m
  <2>1. IsFiniteSet(1 .. m) /\ Cardinality(1 .. m) = m
    BY FS_Interval
  <2>2. f \in Bijection(1 .. m, S)
    <3>1. f \in [1 .. m -> S] /\ \A i \in S : \E k \in 1 .. m : f[k] = i
      BY <1>2 DEF Lists
    <3>2. \A i, j \in 1 .. m : f[i] = f[j] => i = j
      BY <1>2, <1>3, ListOrder
    <3> QED BY <3>1, <3>2 DEF Bijection, Injection, Surjection, IsInjective
  <2>3. ExistsBijection(1 .. m, S)
    BY <2>2 DEF ExistsBijection
  <2> QED BY <2>1, <2>3, FS_Bijection
<1>6. \A k \in 1 .. m : (CHOOSE i \in S : Cardinality({j \in S : j <= i}) = k) = f[k]
  <2> SUFFICES ASSUME NEW k \in 1 .. m PROVE (CHOOSE i \in S : Cardinality({j \in S : j <= i}) = k) = f[k]
    OBVIOUS
  <2>1. \A i \in S : Cardinality({j \in S : j <= i}) = k => i = f[k]
    <3> SUFFICES ASSUME NEW i \in S, Cardinality({j \in S : j <= i}) = k PROVE i = f[k]
      OBVIOUS
    <3>1. PICK l \in 1 .. m : f[l] = i
      BY <1>2 DEF Lists
    <3>2. Cardinality({j \in S : j <= i}) = l
      BY <1>4, <3>1
    <3> QED BY <3>1, <3>2
  <2> QED BY <1>4, <2>1
<1>7. InOrder(S) = [k \in 1 .. m |-> f[k]]
  BY <1>5, <1>6 DEF InOrder
<1>8. [k \in 1 .. m |-> f[k]] = f
  BY <1>2 DEF Lists
<1> QED BY <1>2, <1>5, <1>7, <1>8

\* The places of a list grow at least as fast as its numbers.
LEMMA ListSame ==
  ASSUME NEW S \in SUBSET Nat, NEW n, NEW f, Lists(f, n, S), NEW m, NEW g, Lists(g, m, S)
  PROVE  n = m /\ \A k \in 1 .. n : f[k] = g[k]
<1>1. n \in Nat /\ m \in Nat
  BY DEF Lists
<1>2. /\ \A k \in 1 .. n : f[k] \in S /\ Cardinality({j \in S : j <= f[k]}) = k
      /\ \A k \in 1 .. m : g[k] \in S /\ Cardinality({j \in S : j <= g[k]}) = k
  BY ListPrefix
<1>3. /\ \A i \in S : \E k \in 1 .. n : f[k] = i
      /\ \A i \in S : \E k \in 1 .. m : g[k] = i
  BY DEF Lists
<1>4. \A k \in 1 .. n : k \in 1 .. m /\ f[k] = g[k]
  <2> SUFFICES ASSUME NEW k \in 1 .. n PROVE k \in 1 .. m /\ f[k] = g[k]
    OBVIOUS
  <2>1. PICK l \in 1 .. m : g[l] = f[k]
    BY <1>2, <1>3
  <2> QED BY <1>2, <2>1
<1>5. \A k \in 1 .. m : k \in 1 .. n
  <2> SUFFICES ASSUME NEW k \in 1 .. m PROVE k \in 1 .. n
    OBVIOUS
  <2>1. PICK l \in 1 .. n : f[l] = g[k]
    BY <1>2, <1>3
  <2> QED BY <1>2, <2>1
<1>6. n = m
  <2>1. n # 0 => n \in 1 .. m
    <3>1. n # 0 => n \in 1 .. n
      BY <1>1
    <3> QED BY <1>4, <3>1
  <2>2. m # 0 => m \in 1 .. n
    <3>1. m # 0 => m \in 1 .. m
      BY <1>1
    <3> QED BY <1>5, <3>1
  <2> QED BY <1>1, <2>1, <2>2
<1> QED BY <1>4, <1>6

-----------------------------------------------------------------------------
(* PromptWellFormed, and what the scripts make of a conversation later,     *)
(* rest on how its turns follow each other.  Clipping takes an observation  *)
(* from between them, so each of these facts has to survive that.           *)

\* Turns come by their iterations, and nothing of its iteration follows a reply.
Ordered(m) ==
  \A i, j \in 1 .. Len(m) :
    i < j => /\ m[i].iter <= m[j].iter
             /\ m[i].role = "assistant" => m[i].iter < m[j].iter

Within(m, n) == \A i \in 1 .. Len(m) : m[i].iter <= n

\* A user turn was sent with a screenshot.
Shown(m, S) == \A i \in 1 .. Len(m) : m[i].role = "user" => m[i].iter \in S

\* The replies are the steps.
Recorded(m, st) ==
  /\ \A i \in 1 .. Len(m) :
       m[i].role = "assistant" => \E k \in 1 .. Len(st) : m[i] = Reply(st[k].kind, st[k].iter)
  /\ \A k \in 1 .. Len(st) : \E i \in 1 .. Len(m) : m[i] = Reply(st[k].kind, st[k].iter)

\* A format error is sent after a reply that was unparseable, or once more.
Explained(m) ==
  \A i \in 1 .. Len(m) :
    m[i].kind = "format_error" =>
      i - 1 \in 1 .. Len(m) /\ m[i - 1].kind \in Bad \cup {"format_error"}

\* The screenshot right after an unparseable reply comes with a format error.
Reproved(m, S) ==
  \A i \in 1 .. Len(m) :
    m[i].kind \in Bad /\ m[i].iter + 1 \in S =>
      i + 1 \in 1 .. Len(m) /\ m[i + 1].kind = "format_error"

LastTurn == messages[Len(messages)]

ConversationFacts ==
  /\ Ordered(messages) /\ Within(messages, it) /\ Shown(messages, shots)
  /\ Recorded(messages, steps)
  /\ Explained(messages) /\ Reproved(messages, shots)
  /\ shots # {} => Len(messages) >= 2

PhaseFacts ==
  /\ LastTurn.kind # "task"
  /\ pc = "call" => LastTurn = UserTurn(IF failObs = "none" THEN "obs" ELSE failObs, it)
  /\ pc = "exec" => LastTurn.kind \in Acts /\ LastTurn.iter = it /\ failObs = "none"
  /\ pc = "loop" /\ failObs = "format_error" => LastTurn.kind \in Bad \cup {"format_error"}
  /\ pc = "loop" => \A i \in 1 .. Len(messages) :
       messages[i].kind \in Bad /\ messages[i].iter = it => failObs = "format_error"
  /\ pc = "done" => Len(steps) # 0 /\ steps[Len(steps)].kind \in Answers
  /\ pc = "saved" => it = MaxIter \/ (Len(steps) # 0 /\ steps[Len(steps)].kind \in Answers)

ConversationInv == ConversationFacts /\ PhaseFacts

\* What a turn can be.
LEMMA TurnShape ==
  ASSUME NEW t \in Message
  PROVE  /\ t.iter \in Nat /\ t.iter \in 0 .. MaxIter
         /\ t.role = "assistant" <=> t.kind \in Replies
         /\ t.role = "user" <=> t.kind \in UserKinds
         /\ t.role = "assistant" \/ t.role = "user" \/ t = SystemPrompt
         /\ t.role # "system" => t.iter \in 1 .. MaxIter
BY BoundsAssumption DEF Message, Replies, Acts, Answers, Bad, UserKinds, FailTexts, SystemPrompt

\* c is m without one observation, or with one reduced to its text.
Was(h, j) == IF j < h THEN j ELSE j + 1
Kept(new, old) == new = old \/ (old.kind = "obs" /\ new = UserTurn("task", old.iter))
Thins(c, m, h) ==
  /\ h \in 3 .. Len(m) + 1
  /\ Len(c) = IF h > Len(m) THEN Len(m) ELSE Len(m) - 1
  /\ h <= Len(m) => h < Len(m) /\ m[h].kind = "obs"
  /\ \A j \in 1 .. Len(c) : Kept(c[j], m[Was(h, j)])
  /\ c[Len(c)] = m[Len(m)]

\* Clipping thins a conversation.
LEMMA ClipThins ==
  ASSUME NEW m \in Seq(Message), Len(m) >= 2, m[1] = SystemPrompt
  PROVE  \E h \in Nat : Thins(Clip(m), m, h)
<1>1. Len(m) \in Nat /\ Images(m) \subseteq 1 .. Len(m) /\ 1 \notin Images(m)
  BY LenProperties DEF Images, SystemPrompt
<1>2. CASE Clip(m) = m
  <2>1. Thins(m, m, Len(m) + 1)
    BY <1>1 DEF Thins, Was, Kept
  <2> QED BY <1>1, <1>2, <2>1
<1>3. CASE 2 \in Images(m) /\ 2 < Len(m) /\ Clip(m) = [m EXCEPT ![2] = UserTurn("task", m[2].iter)]
  <2> DEFINE c == [m EXCEPT ![2] = UserTurn("task", m[2].iter)]
  <2>1. Len(c) = Len(m) /\ \A j \in 1 .. Len(m) : c[j] = IF j = 2 THEN UserTurn("task", m[2].iter) ELSE m[j]
    BY <1>1
  <2>2. m[2].kind = "obs"
    BY <1>3 DEF Images
  <2> HIDE DEF c
  <2> DEFINE n == Len(m)
  <2>3. Thins(c, m, Len(m) + 1)
    <3>1. n \in Nat /\ 2 < n /\ Len(c) = n
      BY <1>1, <1>3, <2>1
    <3>2. \A j \in 1 .. n : c[j] = IF j = 2 THEN UserTurn("task", m[2].iter) ELSE m[j]
      BY <2>1
    <3>3. \A j \in 1 .. n : Kept(c[j], m[j])
      BY <2>2, <3>2 DEF Kept
    <3> HIDE DEF n
    <3>4. \A j \in 1 .. n : Was(n + 1, j) = j
      BY <3>1 DEF Was
    <3>5. n + 1 \in 3 .. n + 1 /\ ~(n + 1 <= n) /\ n + 1 > n /\ n \in 1 .. n /\ n # 2
      BY <3>1
    <3>6. c[n] = m[n]
      BY <3>2, <3>5
    <3>7. \A j \in 1 .. n : Kept(c[j], m[Was(n + 1, j)])
      BY <3>3, <3>4
    <3> QED BY <3>1, <3>5, <3>6, <3>7 DEF Thins, n
  <2> QED BY <1>1, <1>3, <2>3 DEF c
<1>4. ASSUME NEW i \in Images(m), i # 2, i < Len(m), Clip(m) = RemoveAt(m, i)
      PROVE  \E h \in Nat : Thins(Clip(m), m, h)
  <2>1. i \in 1 .. Len(m) /\ i \in 3 .. Len(m) /\ i \in Nat /\ m[i].kind = "obs"
    BY <1>1, <1>4 DEF Images
  <2>2. /\ Len(Clip(m)) = Len(m) - 1
        /\ \A j \in 1 .. (i - 1) : Clip(m)[j] = m[j]
        /\ \A j \in i .. (Len(m) - 1) : Clip(m)[j] = m[j + 1]
    <3> DEFINE c == RemoveAt(m, i)
    <3>1. /\ Len(c) = Len(m) - 1
          /\ \A j \in 1 .. (i - 1) : c[j] = m[j]
          /\ \A j \in i .. (Len(m) - 1) : c[j] = m[j + 1]
      BY <2>1, RemoveAtFacts
    <3> HIDE DEF c
    <3>2. Clip(m) = c
      BY <1>4 DEF c
    <3> QED BY <3>1, <3>2
  <2>3. \A j \in 1 .. Len(Clip(m)) : Kept(Clip(m)[j], m[Was(i, j)])
    <3> SUFFICES ASSUME NEW j \in 1 .. Len(Clip(m)) PROVE Clip(m)[j] = m[Was(i, j)]
      BY DEF Kept
    <3>1. CASE j < i
      BY <1>1, <2>1, <2>2, <3>1 DEF Was
    <3>2. CASE ~(j < i)
      BY <1>1, <2>1, <2>2, <3>2 DEF Was
    <3> QED BY <3>1, <3>2
  <2>4. Clip(m)[Len(m) - 1] = m[Len(m)]
    <3>1. Len(m) - 1 \in i .. (Len(m) - 1) /\ Len(m) - 1 + 1 = Len(m)
      BY <1>1, <1>4, <2>1
    <3> QED BY <2>2, <3>1
  <2>5. Thins(Clip(m), m, i)
    BY <1>1, <1>4, <2>1, <2>2, <2>3, <2>4 DEF Thins
  <2> QED BY <2>1, <2>5
<1> QED BY <1>2, <1>3, <1>4, ClipCases

\* Where the turns that stay were.
LEMMA WasPlaces ==
  ASSUME NEW m \in Seq(Message), NEW c \in Seq(Message), NEW h \in Nat, Thins(c, m, h)
  PROVE  /\ Len(m) \in Nat /\ Len(c) \in Nat
         /\ \A j \in 1 .. Len(c) : /\ Was(h, j) \in 1 .. Len(m) /\ Was(h, j) # h
                                   /\ Kept(c[j], m[Was(h, j)])
                                   /\ c[j].iter = m[Was(h, j)].iter /\ c[j].role = m[Was(h, j)].role
                                   /\ c[j].kind # "task" => c[j] = m[Was(h, j)]
                                   /\ m[Was(h, j)].kind # "obs" => c[j] = m[Was(h, j)]
         /\ \A i, j \in 1 .. Len(c) : i < j => Was(h, i) < Was(h, j)
         /\ \A i \in 1 .. Len(m) : i # h => \E j \in 1 .. Len(c) : Was(h, j) = i
<1>1. /\ Len(m) \in Nat /\ Len(c) \in Nat
      /\ Len(c) = IF h > Len(m) THEN Len(m) ELSE Len(m) - 1
      /\ h \in 3 .. Len(m) + 1
  BY LenProperties DEF Thins
<1>2. \A j \in 1 .. Len(c) : Was(h, j) \in 1 .. Len(m) /\ Was(h, j) # h
  BY <1>1 DEF Was
<1>3. \A i, j \in 1 .. Len(c) : i < j => Was(h, i) < Was(h, j)
  BY <1>1 DEF Was
<1>4. ASSUME NEW i \in 1 .. Len(m), i # h
      PROVE  \E j \in 1 .. Len(c) : Was(h, j) = i
  <2>1. CASE i < h
    <3>1. i \in 1 .. Len(c) /\ Was(h, i) = i
      BY <1>1, <2>1 DEF Was
    <3> QED BY <3>1
  <2>2. CASE ~(i < h)
    <3>1. i - 1 \in 1 .. Len(c) /\ Was(h, i - 1) = i
      BY <1>1, <1>4, <2>2 DEF Was
    <3> QED BY <3>1
  <2> QED BY <2>1, <2>2
<1>5. ASSUME NEW j \in 1 .. Len(c)
      PROVE  /\ Kept(c[j], m[Was(h, j)])
             /\ c[j].iter = m[Was(h, j)].iter /\ c[j].role = m[Was(h, j)].role
             /\ c[j].kind # "task" => c[j] = m[Was(h, j)]
             /\ m[Was(h, j)].kind # "obs" => c[j] = m[Was(h, j)]
  <2> DEFINE old == m[Was(h, j)]
  <2>1. Kept(c[j], old)
    BY DEF Thins
  <2>2. old \in Message
    BY <1>1, <1>2
  <2>3. old.kind = "obs" => old.role = "user"
    BY <2>2, TurnShape DEF UserKinds
  <2> HIDE DEF old
  <2>4. /\ c[j].iter = old.iter /\ c[j].role = old.role
        /\ c[j].kind # "task" => c[j] = old
        /\ old.kind # "obs" => c[j] = old
    BY <2>1, <2>3 DEF Kept, UserTurn
  <2> QED BY <2>1, <2>4 DEF old
<1> QED BY <1>1, <1>2, <1>3, <1>4, <1>5

\* So a conversation keeps its order when it is clipped, ...
LEMMA ThinsKeeps ==
  ASSUME NEW m \in Seq(Message), NEW c \in Seq(Message), NEW h \in Nat, Thins(c, m, h)
  PROVE  /\ Ordered(m) => Ordered(c)
         /\ \A n : Within(m, n) => Within(c, n)
         /\ \A S : Shown(m, S) => Shown(c, S)
<1>1. /\ Len(m) \in Nat /\ Len(c) \in Nat
      /\ \A j \in 1 .. Len(c) : /\ Was(h, j) \in 1 .. Len(m)
                                /\ c[j].iter = m[Was(h, j)].iter /\ c[j].role = m[Was(h, j)].role
      /\ \A i, j \in 1 .. Len(c) : i < j => Was(h, i) < Was(h, j)
  BY WasPlaces
<1>2. ASSUME Ordered(m) PROVE Ordered(c)
  BY <1>1, <1>2 DEF Ordered
<1>3. ASSUME NEW n, Within(m, n) PROVE Within(c, n)
  BY <1>1, <1>3 DEF Within
<1>4. ASSUME NEW S, Shown(m, S) PROVE Shown(c, S)
  BY <1>1, <1>4 DEF Shown
<1> QED BY <1>2, <1>3, <1>4

\* ... all its replies, ...
LEMMA ThinsRecords ==
  ASSUME NEW m \in Seq(Message), NEW c \in Seq(Message), NEW h \in Nat, Thins(c, m, h),
         NEW st, Recorded(m, st)
  PROVE  Recorded(c, st)
<1>1. /\ Len(m) \in Nat /\ Len(c) \in Nat
      /\ \A j \in 1 .. Len(c) : /\ Was(h, j) \in 1 .. Len(m)
                                /\ c[j].role = m[Was(h, j)].role
                                /\ m[Was(h, j)].kind # "obs" => c[j] = m[Was(h, j)]
      /\ \A i \in 1 .. Len(m) : i # h => \E j \in 1 .. Len(c) : Was(h, j) = i
      /\ h \in 1 .. Len(m) => m[h].kind = "obs"
  BY WasPlaces DEF Thins
<1>2. \A i \in 1 .. Len(m) : m[i].role = "assistant" => m[i].kind # "obs"
  <2> SUFFICES ASSUME NEW i \in 1 .. Len(m), m[i].role = "assistant" PROVE m[i].kind # "obs"
    OBVIOUS
  <2>1. m[i] \in Message
    OBVIOUS
  <2> QED BY <2>1, TurnShape DEF Replies, Acts, Answers, Bad
<1>3. ASSUME NEW j \in 1 .. Len(c), c[j].role = "assistant"
      PROVE  \E k \in 1 .. Len(st) : c[j] = Reply(st[k].kind, st[k].iter)
  <2>1. c[j] = m[Was(h, j)] /\ Was(h, j) \in 1 .. Len(m) /\ m[Was(h, j)].role = "assistant"
    BY <1>1, <1>2, <1>3
  <2> QED BY <2>1 DEF Recorded
<1>4. ASSUME NEW k \in 1 .. Len(st)
      PROVE  \E j \in 1 .. Len(c) : c[j] = Reply(st[k].kind, st[k].iter)
  <2>1. PICK i \in 1 .. Len(m) : m[i] = Reply(st[k].kind, st[k].iter)
    BY DEF Recorded
  <2>2. m[i].role = "assistant"
    BY <2>1 DEF Reply
  <2>3. i # h
    BY <1>1, <1>2, <2>2
  <2>4. PICK j \in 1 .. Len(c) : Was(h, j) = i
    BY <1>1, <2>3
  <2>5. c[j] = m[i]
    BY <1>1, <1>2, <2>2, <2>4
  <2> QED BY <2>1, <2>5
<1> QED BY <1>3, <1>4 DEF Recorded

\* ... and the format errors beside what they answer.
LEMMA ThinsExplains ==
  ASSUME NEW m \in Seq(Message), NEW c \in Seq(Message), NEW h \in Nat, Thins(c, m, h)
  PROVE  /\ Explained(m) => Explained(c)
         /\ \A S : Reproved(m, S) => Reproved(c, S)
<1>1. /\ Len(m) \in Nat /\ Len(c) \in Nat
      /\ h \in 3 .. Len(m) + 1
      /\ Len(c) = IF h > Len(m) THEN Len(m) ELSE Len(m) - 1
      /\ h \in 1 .. Len(m) => m[h].kind = "obs"
      /\ \A j \in 1 .. Len(c) : /\ Was(h, j) \in 1 .. Len(m)
                                /\ c[j].kind # "task" => c[j] = m[Was(h, j)]
                                /\ m[Was(h, j)].kind # "obs" => c[j] = m[Was(h, j)]
  <2>1. /\ Len(m) \in Nat /\ Len(c) \in Nat
        /\ \A j \in 1 .. Len(c) : /\ Was(h, j) \in 1 .. Len(m)
                                  /\ c[j].kind # "task" => c[j] = m[Was(h, j)]
                                  /\ m[Was(h, j)].kind # "obs" => c[j] = m[Was(h, j)]
    BY WasPlaces
  <2>2. /\ h \in 3 .. Len(m) + 1
        /\ Len(c) = IF h > Len(m) THEN Len(m) ELSE Len(m) - 1
        /\ h <= Len(m) => m[h].kind = "obs"
    BY DEF Thins
  <2> QED BY <2>1, <2>2
<1>2. ASSUME Explained(m), NEW j \in 1 .. Len(c), c[j].kind = "format_error"
      PROVE  j - 1 \in 1 .. Len(c) /\ c[j - 1].kind \in Bad \cup {"format_error"}
  <2> DEFINE w == Was(h, j)
  <2>1. w \in 1 .. Len(m) /\ m[w].kind = "format_error"
    BY <1>1, <1>2
  <2>2. w - 1 \in 1 .. Len(m) /\ m[w - 1].kind \in Bad \cup {"format_error"}
    BY <1>2, <2>1 DEF Explained
  <2>3. m[w - 1].kind # "obs"
    BY <2>2 DEF Bad
  <2>4. w - 1 # h
    BY <1>1, <2>2, <2>3
  <2>5. j - 1 \in 1 .. Len(c) /\ Was(h, j - 1) = w - 1
    BY <1>1, <2>2, <2>4 DEF Was
  <2>6. c[j - 1] = m[w - 1]
    BY <1>1, <2>3, <2>5
  <2> QED BY <2>2, <2>5, <2>6
<1>3. ASSUME NEW S, Reproved(m, S), NEW j \in 1 .. Len(c), c[j].kind \in Bad, c[j].iter + 1 \in S
      PROVE  j + 1 \in 1 .. Len(c) /\ c[j + 1].kind = "format_error"
  <2> DEFINE w == Was(h, j)
  <2>1. w \in 1 .. Len(m) /\ m[w].kind \in Bad /\ m[w].iter + 1 \in S
    BY <1>1, <1>3 DEF Bad
  <2>2. w + 1 \in 1 .. Len(m) /\ m[w + 1].kind = "format_error"
    BY <1>3, <2>1 DEF Reproved
  <2>3. w + 1 # h
    BY <1>1, <2>2
  <2>4. j + 1 \in 1 .. Len(c) /\ Was(h, j + 1) = w + 1
    BY <1>1, <2>2, <2>3 DEF Was
  <2> QED BY <1>1, <2>2, <2>4
<1> QED BY <1>2, <1>3 DEF Explained, Reproved

-----------------------------------------------------------------------------
\* Appending a turn.
LEMMA AppendTurn ==
  ASSUME TypeOK, NEW u \in Message
  PROVE  /\ Append(messages, u) \in Seq(Message)
         /\ Len(messages) \in Nat /\ Len(Append(messages, u)) = Len(messages) + 1
         /\ Append(messages, u)[Len(messages) + 1] = u
         /\ \A i \in 1 .. Len(messages) : /\ Append(messages, u)[i] = messages[i]
                                          /\ messages[i] \in Message
         /\ \A i \in 1 .. Len(messages) + 1 : i \in 1 .. Len(messages) \/ i = Len(messages) + 1
<1>1. messages \in Seq(Message)
  BY DEF TypeOK
<1>2. Len(messages) \in Nat /\ \A i \in 1 .. Len(messages) : messages[i] \in Message
  BY <1>1, LenProperties, ElementOfSeq
<1>3. /\ Append(messages, u) \in Seq(Message) /\ Len(Append(messages, u)) = Len(messages) + 1
      /\ Append(messages, u)[Len(messages) + 1] = u
      /\ \A i \in 1 .. Len(messages) : Append(messages, u)[i] = messages[i]
  BY <1>1, AppendProperties
<1> QED BY <1>2, <1>3

\* A reply to the present observation keeps the facts of the conversation.
LEMMA RecordKeepsConversation ==
  ASSUME TypeOK, NumberInv, InstructionInv, ConversationInv, pc = "call", it \in 1 .. MaxIter,
         NEW r \in Replies, Record(r), UNCHANGED <<it, shots>>
  PROVE  /\ ConversationFacts'
         /\ LastTurn' = Reply(r, it)
         /\ Len(steps') # 0 /\ steps'[Len(steps')].kind = r
<1> DEFINE u == Reply(r, it)
           m == Append(messages, u)
           n == Len(messages)
<1>1. u \in Message /\ u.role = "assistant" /\ u.kind = r /\ u.iter = it
  BY DEF Reply, Message
<1>2. /\ m \in Seq(Message) /\ n \in Nat /\ Len(m) = n + 1 /\ m[n + 1] = u
      /\ \A i \in 1 .. n : m[i] = messages[i] /\ messages[i] \in Message
      /\ \A i \in 1 .. n + 1 : i \in 1 .. n \/ i = n + 1
  BY <1>1, AppendTurn
<1>3. messages' = m /\ steps' = Append(steps, [kind |-> r, iter |-> it])
  BY DEF Record
<1>4. /\ steps \in StepsType /\ Len(steps) \in Nat /\ DOMAIN steps = 1 .. Len(steps)
      /\ \A k \in DOMAIN steps : steps[k].iter < it
  BY RecordNumber, StepTypes
<1>5. /\ Len(steps') = Len(steps) + 1
      /\ steps'[Len(steps) + 1] = [kind |-> r, iter |-> it]
      /\ \A k \in 1 .. Len(steps) : steps'[k] = steps[k]
  BY <1>3, <1>4, AppendProperties DEF StepsType
<1>6. /\ Ordered(messages) /\ Within(messages, it) /\ Shown(messages, shots)
      /\ Recorded(messages, steps) /\ Explained(messages) /\ Reproved(messages, shots)
  BY DEF ConversationInv, ConversationFacts
<1> HIDE DEF u, m, n
<1>7. \A i \in 1 .. n : messages[i].iter <= it /\ messages[i].iter \in Nat
  BY <1>2, <1>6, TurnShape DEF Within, n
<1>8. \A i \in 1 .. n : messages[i].role = "assistant" => messages[i].iter < it
  <2> SUFFICES ASSUME NEW i \in 1 .. n, messages[i].role = "assistant" PROVE messages[i].iter < it
    OBVIOUS
  <2>1. PICK k \in 1 .. Len(steps) : messages[i] = Reply(steps[k].kind, steps[k].iter)
    BY <1>6 DEF Recorded, n
  <2>2. messages[i].iter = steps[k].iter
    BY <2>1 DEF Reply
  <2> QED BY <1>4, <2>2
<1>9. Ordered(m)
  <2> SUFFICES ASSUME NEW i \in 1 .. n + 1, NEW j \in 1 .. n + 1, i < j
               PROVE  m[i].iter <= m[j].iter /\ (m[i].role = "assistant" => m[i].iter < m[j].iter)
    BY <1>2 DEF Ordered
  <2>1. i \in 1 .. n
    BY <1>2
  <2>2. CASE j = n + 1
    BY <1>1, <1>2, <1>7, <1>8, <2>1, <2>2
  <2>3. CASE j # n + 1
    <3>1. j \in 1 .. n
      BY <1>2, <2>3
    <3> QED BY <1>2, <1>6, <2>1, <3>1 DEF Ordered, n
  <2> QED BY <2>2, <2>3
<1>10. Within(m, it)
  BY <1>1, <1>2, <1>7, BoundsAssumption DEF Within
<1>11. Shown(m, shots)
  BY <1>1, <1>2, <1>6 DEF Shown, n
<1>12. Recorded(m, steps')
  <2>1. ASSUME NEW i \in 1 .. n + 1, m[i].role = "assistant"
        PROVE  \E k \in 1 .. Len(steps') : m[i] = Reply(steps'[k].kind, steps'[k].iter)
    <3>1. CASE i = n + 1
      <4>1. m[i] = Reply(steps'[Len(steps) + 1].kind, steps'[Len(steps) + 1].iter)
        BY <1>2, <1>5, <3>1 DEF u
      <4>2. Len(steps) + 1 \in 1 .. Len(steps')
        BY <1>4, <1>5
      <4> QED BY <4>1, <4>2
    <3>2. CASE i # n + 1
      <4>1. i \in 1 .. n /\ m[i] = messages[i]
        BY <1>2, <3>2
      <4>2. PICK k \in 1 .. Len(steps) : messages[i] = Reply(steps[k].kind, steps[k].iter)
        BY <1>6, <2>1, <4>1 DEF Recorded, n
      <4>3. k \in 1 .. Len(steps') /\ steps'[k] = steps[k]
        BY <1>4, <1>5
      <4> QED BY <4>1, <4>2, <4>3
    <3> QED BY <3>1, <3>2
  <2>2. ASSUME NEW k \in 1 .. Len(steps')
        PROVE  \E i \in 1 .. n + 1 : m[i] = Reply(steps'[k].kind, steps'[k].iter)
    <3>1. CASE k = Len(steps) + 1
      <4>1. m[n + 1] = Reply(steps'[k].kind, steps'[k].iter) /\ n + 1 \in 1 .. n + 1
        BY <1>2, <1>5, <3>1 DEF u
      <4> QED BY <4>1
    <3>2. CASE k # Len(steps) + 1
      <4>1. k \in 1 .. Len(steps) /\ steps'[k] = steps[k]
        BY <1>4, <1>5, <3>2
      <4>2. PICK i \in 1 .. n : messages[i] = Reply(steps[k].kind, steps[k].iter)
        BY <1>6, <4>1 DEF Recorded, n
      <4>3. i \in 1 .. n + 1 /\ m[i] = messages[i]
        BY <1>2
      <4> QED BY <4>1, <4>2, <4>3
    <3> QED BY <3>1, <3>2
  <2> QED BY <1>2, <2>1, <2>2 DEF Recorded
<1>13. Explained(m)
  <2> SUFFICES ASSUME NEW i \in 1 .. n + 1, m[i].kind = "format_error"
               PROVE  i - 1 \in 1 .. n + 1 /\ m[i - 1].kind \in Bad \cup {"format_error"}
    BY <1>2 DEF Explained
  <2>1. i # n + 1
    BY <1>1, <1>2 DEF Replies, Acts, Answers, Bad
  <2>2. i \in 1 .. n /\ messages[i].kind = "format_error"
    BY <1>2, <2>1
  <2>3. i - 1 \in 1 .. n /\ messages[i - 1].kind \in Bad \cup {"format_error"}
    BY <1>6, <2>2 DEF Explained, n
  <2> QED BY <1>2, <2>3
<1>14. Reproved(m, shots)
  <2> SUFFICES ASSUME NEW i \in 1 .. n + 1, m[i].kind \in Bad, m[i].iter + 1 \in shots
               PROVE  i + 1 \in 1 .. n + 1 /\ m[i + 1].kind = "format_error"
    BY <1>2 DEF Reproved
  <2>1. i # n + 1
    <3>1. shots \subseteq 1 .. it /\ it \in Nat
      BY BoundsAssumption DEF NumberInv, Numbering
    <3>2. it + 1 \notin shots
      BY <3>1
    <3> QED BY <1>1, <1>2, <3>2
  <2>2. i \in 1 .. n /\ messages[i] = m[i]
    BY <1>2, <2>1
  <2>3. i + 1 \in 1 .. n /\ messages[i + 1].kind = "format_error"
    BY <1>6, <2>2 DEF Reproved, n
  <2> QED BY <1>2, <2>3
<1>15. Len(m) >= 2
  <2>1. n >= 1
    BY DEF InstructionInv, Anchored, n
  <2> QED BY <1>2, <2>1
<1>16. ConversationFacts'
  BY <1>3, <1>9, <1>10, <1>11, <1>12, <1>13, <1>14, <1>15 DEF ConversationFacts
<1>17. LastTurn' = u
  BY <1>2, <1>3 DEF LastTurn
<1> QED BY <1>4, <1>5, <1>16, <1>17 DEF u

\* So does an observation, or the failure text in its place.
LEMMA ScreenshotKeepsConversation ==
  ASSUME TypeOK, NumberInv, InstructionInv, ConversationInv, TakeScreenshot
  PROVE  ConversationInv'
<1> DEFINE k == IF failObs = "none" THEN "obs" ELSE failObs
           u == UserTurn(k, it + 1)
           m == Append(messages, u)
           n == Len(messages)
           S == shots \cup {it + 1}
           c == Clip(m)
<1>1. /\ pc = "loop" /\ pc' = "call" /\ it' = it + 1 /\ shots' = S /\ messages' = c
      /\ failObs' = failObs /\ steps' = steps /\ it \in Nat /\ it + 1 \in 1 .. MaxIter
  BY BoundsAssumption DEF TakeScreenshot, TypeOK, MoreIterations
<1>2. u \in Message /\ u.role = "user" /\ u.kind = k /\ u.iter = it + 1 /\ k \in {"obs"} \cup FailTexts
  BY <1>1 DEF UserTurn, Message, TypeOK, UserKinds
<1>3. /\ m \in Seq(Message) /\ n \in Nat /\ Len(m) = n + 1 /\ m[n + 1] = u
      /\ \A i \in 1 .. n : m[i] = messages[i] /\ messages[i] \in Message
      /\ \A i \in 1 .. n + 1 : i \in 1 .. n \/ i = n + 1
  BY <1>2, AppendTurn
<1>4. n >= 1 /\ messages[1] = SystemPrompt
  BY DEF InstructionInv, Anchored
<1>5. c \in Seq(Message)
  BY <1>3, ClipType
<1>6. /\ Ordered(messages) /\ Within(messages, it) /\ Shown(messages, shots)
      /\ Recorded(messages, steps) /\ Explained(messages) /\ Reproved(messages, shots)
  BY DEF ConversationInv, ConversationFacts
<1>7. /\ failObs = "format_error" => messages[n].kind \in Bad \cup {"format_error"}
      /\ \A i \in 1 .. n : messages[i].kind \in Bad /\ messages[i].iter = it => failObs = "format_error"
  BY <1>1 DEF ConversationInv, PhaseFacts, LastTurn
<1>8. \E h \in Nat : Thins(c, m, h)
  <2>1. m[1] = SystemPrompt /\ Len(m) >= 2
    BY <1>3, <1>4
  <2> QED BY <1>3, <2>1, ClipThins
<1> HIDE DEF u, m, n, S, c
<1>9. \A i \in 1 .. n : messages[i].iter <= it /\ messages[i].iter \in Nat
  BY <1>3, <1>6, TurnShape DEF Within, n
<1>10. Ordered(m)
  <2> SUFFICES ASSUME NEW i \in 1 .. n + 1, NEW j \in 1 .. n + 1, i < j
               PROVE  m[i].iter <= m[j].iter /\ (m[i].role = "assistant" => m[i].iter < m[j].iter)
    BY <1>3 DEF Ordered
  <2>1. i \in 1 .. n
    BY <1>3
  <2>2. CASE j = n + 1
    BY <1>1, <1>2, <1>3, <1>9, <2>1, <2>2
  <2>3. CASE j # n + 1
    <3>1. j \in 1 .. n
      BY <1>3, <2>3
    <3> QED BY <1>3, <1>6, <2>1, <3>1 DEF Ordered, n
  <2> QED BY <2>2, <2>3
<1>11. Within(m, it + 1)
  <2> SUFFICES ASSUME NEW i \in 1 .. n + 1 PROVE m[i].iter <= it + 1
    BY <1>3 DEF Within
  <2>1. CASE i \in 1 .. n
    BY <1>1, <1>3, <1>9, <2>1
  <2>2. CASE i = n + 1
    BY <1>1, <1>2, <1>3, <2>2
  <2> QED BY <1>3, <2>1, <2>2
<1>12. Shown(m, S)
  BY <1>2, <1>3, <1>6 DEF Shown, n, S
<1>13. Recorded(m, steps)
  <2>1. ASSUME NEW i \in 1 .. n + 1, m[i].role = "assistant"
        PROVE  \E j \in 1 .. Len(steps) : m[i] = Reply(steps[j].kind, steps[j].iter)
    <3>1. i \in 1 .. n /\ m[i] = messages[i]
      BY <1>2, <1>3, <2>1
    <3> QED BY <1>6, <2>1, <3>1 DEF Recorded, n
  <2>2. ASSUME NEW j \in 1 .. Len(steps)
        PROVE  \E i \in 1 .. n + 1 : m[i] = Reply(steps[j].kind, steps[j].iter)
    <3>1. PICK i \in 1 .. n : messages[i] = Reply(steps[j].kind, steps[j].iter)
      BY <1>6 DEF Recorded, n
    <3>2. i \in 1 .. n + 1 /\ m[i] = messages[i]
      BY <1>3
    <3> QED BY <3>1, <3>2
  <2> QED BY <1>3, <2>1, <2>2 DEF Recorded
<1>14. Explained(m)
  <2> SUFFICES ASSUME NEW i \in 1 .. n + 1, m[i].kind = "format_error"
               PROVE  i - 1 \in 1 .. n + 1 /\ m[i - 1].kind \in Bad \cup {"format_error"}
    BY <1>3 DEF Explained
  <2>1. CASE i = n + 1
    <3>1. failObs = "format_error"
      BY <1>2, <1>3, <2>1
    <3>2. i - 1 = n /\ n \in 1 .. n /\ n \in 1 .. n + 1
      BY <1>3, <1>4, <2>1
    <3> QED BY <1>3, <1>7, <3>1, <3>2
  <2>2. CASE i # n + 1
    <3>1. i \in 1 .. n /\ messages[i].kind = "format_error"
      BY <1>3, <2>2
    <3>2. i - 1 \in 1 .. n /\ messages[i - 1].kind \in Bad \cup {"format_error"}
      BY <1>6, <3>1 DEF Explained, n
    <3> QED BY <1>3, <3>2
  <2> QED BY <2>1, <2>2
<1>15. Reproved(m, S)
  <2> SUFFICES ASSUME NEW i \in 1 .. n + 1, m[i].kind \in Bad, m[i].iter + 1 \in S
               PROVE  i + 1 \in 1 .. n + 1 /\ m[i + 1].kind = "format_error"
    BY <1>3 DEF Reproved
  <2>1. i # n + 1
    BY <1>2, <1>3 DEF Bad, FailTexts
  <2>2. i \in 1 .. n /\ messages[i] = m[i]
    BY <1>3, <2>1
  <2>3. CASE m[i].iter + 1 \in shots
    <3>1. i + 1 \in 1 .. n /\ messages[i + 1].kind = "format_error"
      BY <1>6, <2>2, <2>3 DEF Reproved, n
    <3> QED BY <1>3, <3>1
  <2>4. CASE m[i].iter + 1 \notin shots
    <3>1. messages[i].iter = it
      BY <1>1, <1>9, <2>2, <2>4 DEF S
    <3>2. failObs = "format_error"
      BY <1>7, <2>2, <3>1
    <3>3. messages[i].role = "assistant"
      BY <1>3, <2>2, TurnShape DEF Replies
    <3>4. i = n
      <4>1. i < n => messages[i].iter < messages[n].iter
        BY <1>3, <1>6, <2>2, <3>3 DEF Ordered, n
      <4>2. n \in 1 .. n /\ messages[n].iter <= it /\ messages[n].iter \in Nat
        BY <1>3, <1>4, <1>9
      <4> QED BY <1>1, <1>3, <2>2, <3>1, <4>1, <4>2
    <3> QED BY <1>2, <1>3, <3>2, <3>4
  <2> QED BY <2>3, <2>4
<1>16. PICK h \in Nat : Thins(c, m, h)
  BY <1>8
<1>17. Ordered(c) /\ Within(c, it + 1) /\ Shown(c, S)
  BY <1>3, <1>5, <1>10, <1>11, <1>12, <1>16, ThinsKeeps
<1>18. Recorded(c, steps)
  BY <1>3, <1>5, <1>13, <1>16, ThinsRecords
<1>19. Explained(c) /\ Reproved(c, S)
  BY <1>3, <1>5, <1>14, <1>15, <1>16, ThinsExplains
<1>20. Len(c) >= 2 /\ c[Len(c)] = u
  BY <1>3, <1>4, <1>16 DEF Thins
<1>21. ConversationFacts'
  BY <1>1, <1>17, <1>18, <1>19, <1>20 DEF ConversationFacts
<1>22. PhaseFacts'
  <2>1. LastTurn' = u
    BY <1>1, <1>20 DEF LastTurn
  <2>2. LastTurn'.kind # "task"
    BY <1>2, <2>1 DEF FailTexts
  <2> QED BY <1>1, <2>1, <2>2 DEF PhaseFacts, u
<1> QED BY <1>21, <1>22 DEF ConversationInv

\* A failed screenshot has no turn.
LEMMA ScreenshotFailsKeepsConversation ==
  ASSUME TypeOK, ConversationInv, ScreenshotFails
  PROVE  ConversationInv'
<1>1. /\ pc = "loop" /\ pc' = "loop" /\ it' = it + 1 /\ failObs' = "internal_error"
      /\ UNCHANGED <<shots, messages, steps>> /\ it \in Nat
  BY BoundsAssumption DEF ScreenshotFails, TypeOK
<1>2. \A i \in 1 .. Len(messages) : messages[i].iter <= it /\ messages[i].iter \in Nat
  <2>1. \A i \in 1 .. Len(messages) : messages[i] \in Message
    BY DEF TypeOK
  <2> QED BY <2>1, TurnShape DEF ConversationInv, ConversationFacts, Within
<1>3. Within(messages', it')
  BY <1>1, <1>2 DEF Within
<1>4. \A i \in 1 .. Len(messages') : messages'[i].iter # it'
  BY <1>1, <1>2
<1>5. ConversationFacts'
  BY <1>1, <1>3 DEF ConversationInv, ConversationFacts
<1>6. LastTurn' = LastTurn
  BY <1>1 DEF LastTurn
<1>7. PhaseFacts'
  BY <1>1, <1>4, <1>6 DEF ConversationInv, PhaseFacts
<1> QED BY <1>5, <1>7 DEF ConversationInv

\* Every action keeps the facts of the conversation.
LEMMA ConversationInduction ==
  ASSUME TypeOK, CallInLoop, NumberInv, InstructionInv, ConversationInv, [Next]_vars
  PROVE  ConversationInv'
<1>1. ASSUME UNCHANGED <<it, shots, messages, steps>>
      PROVE  ConversationFacts' /\ LastTurn' = LastTurn
  BY <1>1 DEF ConversationInv, ConversationFacts, LastTurn
<1>2. CASE Launch
  <2>1. it = 0 /\ pc' = "loop" /\ UNCHANGED <<it, shots, messages, failObs, steps>>
    BY <1>2 DEF Launch, NumberInv, Numbering
  <2>2. messages = <<SystemPrompt>> /\ failObs = "none"
    BY <2>1 DEF InstructionInv, Anchored
  <2>3. \A i \in 1 .. Len(messages) : messages[i].kind \notin Bad
    BY <2>2 DEF SystemPrompt, Bad
  <2> QED BY <1>1, <2>1, <2>2, <2>3 DEF ConversationInv, PhaseFacts
<1>3. CASE LaunchFails \/ Abort
  <2>1. pc' = "aborted" /\ UNCHANGED <<it, shots, messages, steps>>
    BY <1>3 DEF LaunchFails, Abort
  <2> QED BY <1>1, <2>1 DEF ConversationInv, PhaseFacts
<1>4. CASE TakeScreenshot
  BY <1>4, ScreenshotKeepsConversation
<1>5. CASE ScreenshotFails
  BY <1>5, ScreenshotFailsKeepsConversation
<1>6. CASE CallFails
  <2>1. pc = "call" /\ pc' = "loop" /\ UNCHANGED <<it, shots, messages, failObs, steps>>
    BY <1>6 DEF CallFails
  <2>2. LastTurn = UserTurn(IF failObs = "none" THEN "obs" ELSE failObs, it)
    BY <2>1 DEF ConversationInv, PhaseFacts
  <2>3. failObs = "format_error" => LastTurn.kind = "format_error"
    BY <2>2 DEF UserTurn
  <2>4. \A i \in 1 .. Len(messages) : messages[i].kind \in Bad => messages[i].iter # it
    <3> SUFFICES ASSUME NEW i \in 1 .. Len(messages), messages[i].kind \in Bad PROVE messages[i].iter # it
      OBVIOUS
    <3>1. messages[i] \in Message
      BY DEF TypeOK
    <3>2. messages[i].role = "assistant"
      BY <3>1, TurnShape DEF Replies
    <3>3. PICK k \in 1 .. Len(steps) : messages[i] = Reply(steps[k].kind, steps[k].iter)
      BY <3>2 DEF ConversationInv, ConversationFacts, Recorded
    <3>4. k \in DOMAIN steps
      BY StepTypes
    <3>5. steps[k].iter # it
      BY <2>1, <3>4 DEF NumberInv, Numbering
    <3> QED BY <3>3, <3>5 DEF Reply
  <2> QED BY <1>1, <2>1, <2>3, <2>4 DEF ConversationInv, PhaseFacts
<1>7. CASE ReplyUnparseable
  <2>1. PICK r \in Bad : Record(r)
    BY <1>7 DEF ReplyUnparseable
  <2>2. /\ r \in Replies /\ pc = "call" /\ it \in 1 .. MaxIter /\ UNCHANGED <<it, shots>>
        /\ pc' = "loop" /\ failObs' = "format_error"
    BY <1>7 DEF ReplyUnparseable, Replies, CallInLoop
  <2>3. ConversationFacts' /\ LastTurn' = Reply(r, it)
    BY <2>1, <2>2, RecordKeepsConversation
  <2>4. LastTurn'.kind = r /\ r # "task"
    BY <2>3 DEF Reply, Bad
  <2> QED BY <2>2, <2>3, <2>4 DEF ConversationInv, PhaseFacts
<1>8. CASE ReplyActs
  <2>1. PICK r \in Acts : Record(r)
    BY <1>8 DEF ReplyActs
  <2>2. /\ r \in Replies /\ pc = "call" /\ it \in 1 .. MaxIter /\ UNCHANGED <<it, shots>>
        /\ pc' = "exec" /\ failObs' = "none"
    BY <1>8 DEF ReplyActs, Replies, CallInLoop
  <2>3. ConversationFacts' /\ LastTurn' = Reply(r, it)
    BY <2>1, <2>2, RecordKeepsConversation
  <2>4. LastTurn'.kind = r /\ LastTurn'.iter = it /\ r # "task"
    BY <2>3 DEF Reply, Acts
  <2> QED BY <2>2, <2>3, <2>4 DEF ConversationInv, PhaseFacts
<1>9. CASE ReplyAnswers
  <2>1. PICK r \in Answers : Record(r)
    BY <1>9 DEF ReplyAnswers
  <2>2. /\ r \in Replies /\ pc = "call" /\ it \in 1 .. MaxIter /\ UNCHANGED <<it, shots>>
        /\ pc' = "done"
    BY <1>9 DEF ReplyAnswers, Replies, CallInLoop
  <2>3. /\ ConversationFacts' /\ LastTurn' = Reply(r, it)
        /\ Len(steps') # 0 /\ steps'[Len(steps')].kind = r
    BY <2>1, <2>2, RecordKeepsConversation
  <2>4. LastTurn'.kind = r /\ r # "task"
    BY <2>3 DEF Reply, Answers
  <2> QED BY <2>2, <2>3, <2>4 DEF ConversationInv, PhaseFacts
<1>10. CASE Execute \/ ExecuteFails
  <2>1. /\ pc = "exec" /\ pc' = "loop" /\ UNCHANGED <<it, shots, messages, steps>>
        /\ failObs' = failObs \/ failObs' = "exec_error"
    BY <1>10 DEF Execute, ExecuteFails
  <2>2. LastTurn.kind \in Acts /\ LastTurn.iter = it /\ failObs = "none"
    BY <2>1 DEF ConversationInv, PhaseFacts
  <2>3. \A i \in 1 .. Len(messages) : messages[i].kind \in Bad => messages[i].iter # it
    <3> SUFFICES ASSUME NEW i \in 1 .. Len(messages), messages[i].kind \in Bad, messages[i].iter = it
                 PROVE  FALSE
      OBVIOUS
    <3>1. messages[i] \in Message /\ Len(messages) \in Nat
      BY LenProperties DEF TypeOK
    <3>2. messages[i].role = "assistant"
      BY <3>1, TurnShape DEF Replies
    <3>3. i # Len(messages)
      BY <2>2 DEF LastTurn, Acts, Bad
    <3>4. messages[i].iter < messages[Len(messages)].iter
      BY <3>1, <3>2, <3>3 DEF ConversationInv, ConversationFacts, Ordered
    <3> QED BY <2>2, <3>4, BoundsAssumption DEF LastTurn, TypeOK
  <2>4. failObs' # "format_error"
    BY <2>1, <2>2
  <2> QED BY <1>1, <2>1, <2>3, <2>4 DEF ConversationInv, PhaseFacts
<1>11. CASE SaveTranscript
  <2>1. /\ pc' = "saved" /\ UNCHANGED <<it, shots, messages, steps>>
        /\ pc = "done" \/ ~(it < MaxIter)
    BY <1>11 DEF SaveTranscript, MoreIterations
  <2>2. pc # "done" => it = MaxIter
    BY <2>1, BoundsAssumption DEF TypeOK
  <2> QED BY <1>1, <2>1, <2>2 DEF ConversationInv, PhaseFacts
<1>12. CASE UNCHANGED vars
  <2>1. UNCHANGED <<pc, it, shots, messages, failObs, steps>>
    BY <1>12 DEF vars
  <2> QED BY <1>1, <2>1 DEF ConversationInv, PhaseFacts
<1> QED
  BY <1>2, <1>3, <1>4, <1>5, <1>6, <1>7, <1>8, <1>9, <1>10, <1>11, <1>12 DEF Next

\* The system prompt alone is a conversation.
LEMMA InitConversation == Init => ConversationInv
<1> SUFFICES ASSUME Init PROVE ConversationInv
  OBVIOUS
<1>1. /\ messages = <<SystemPrompt>> /\ steps = << >> /\ shots = {} /\ it = 0 /\ pc = "launch"
  BY DEF Init
<1>2. /\ Len(messages) = 1 /\ 1 .. 1 = {1} /\ messages[1] = SystemPrompt
      /\ Len(steps) = 0 /\ 1 .. 0 = {}
  BY <1>1
<1>3. /\ SystemPrompt.role = "system" /\ SystemPrompt.kind = "prompt" /\ SystemPrompt.iter = 0
  BY DEF SystemPrompt
<1>4. Ordered(messages) /\ Within(messages, it) /\ Shown(messages, shots)
  BY <1>1, <1>2, <1>3 DEF Ordered, Within, Shown
<1>5. Recorded(messages, steps) /\ Explained(messages) /\ Reproved(messages, shots)
  BY <1>1, <1>2, <1>3 DEF Recorded, Explained, Reproved, Bad
<1>6. ConversationFacts
  BY <1>1, <1>4, <1>5 DEF ConversationFacts
<1>7. PhaseFacts
  BY <1>1, <1>2, <1>3 DEF PhaseFacts, LastTurn
<1> QED BY <1>6, <1>7 DEF ConversationInv

-----------------------------------------------------------------------------
\* The images of a conversation are finitely many.
LEMMA ImagesFinite ==
  ASSUME NEW m \in Seq(Message)
  PROVE  /\ IsFiniteSet(Images(m)) /\ Cardinality(Images(m)) \in Nat
         /\ Images(m) \subseteq 1 .. Len(m) /\ Len(m) \in Nat
<1>1. Len(m) \in Nat /\ Images(m) \subseteq 1 .. Len(m)
  BY LenProperties DEF Images
<1>2. IsFiniteSet(Images(m))
  <2>1. IsFiniteSet(1 .. Len(m))
    BY <1>1, FS_Interval
  <2> QED BY <1>1, <2>1, FS_Subset
<1> QED BY <1>1, <1>2, FS_CardinalityType

\* Clipping leaves at most MaxImgs of MaxImgs + 1 images.
LEMMA ClipImages ==
  ASSUME NEW m \in Seq(Message), Cardinality(Images(m)) <= MaxImgs + 1
  PROVE  Cardinality(Images(Clip(m))) <= MaxImgs
<1> DEFINE I == Images(m)
<1>1. IsFiniteSet(I) /\ Cardinality(I) \in Nat /\ I \subseteq 1 .. Len(m) /\ Len(m) \in Nat
  BY ImagesFinite
<1>2. MaxImgs \in Nat /\ MaxImgs >= 1
  BY BoundsAssumption
<1>3. CASE OldImages(m) = {}
  <2>1. Clip(m) = m
    BY <1>3 DEF Clip
  <2>2. ASSUME Cardinality(I) = MaxImgs + 1 PROVE FALSE
    <3>1. I # {}
      <4>1. Cardinality({}) = 0
        BY FS_EmptySet
      <4> HIDE DEF I
      <4> QED BY <1>2, <2>2, <4>1
    <3>2. PICK l \in I : \A j \in I : l <= j
      <4>1. I \subseteq Nat
        BY <1>1
      <4> QED BY <3>1, <4>1, LeastNatural
    <3>3. {j \in I : j > l} = I \ {l}
      BY <1>1, <3>2
    <3>4. Cardinality(I \ {l}) = Cardinality(I) - 1
      BY <1>1, FS_RemoveElement
    <3>5. Cardinality({j \in I : j > l}) = MaxImgs
      <4>1. Cardinality({j \in I : j > l}) = Cardinality(I) - 1
        BY <3>3, <3>4
      <4> HIDE DEF I
      <4> QED BY <1>2, <2>2, <4>1
    <3>6. l \in OldImages(m)
      BY <1>2, <3>5 DEF OldImages
    <3> QED BY <1>3, <3>6
  <2>3. Cardinality(I) # MaxImgs + 1
    BY <2>2
  <2> HIDE DEF I
  <2>4. Cardinality(I) <= MaxImgs
    BY <1>1, <1>2, <2>3 DEF I
  <2> QED BY <2>1, <2>4 DEF I
<1>4. ASSUME NEW h \in I, IsFiniteSet(I \ {h}), Cardinality(Images(Clip(m))) = Cardinality(I \ {h})
      PROVE  Cardinality(Images(Clip(m))) <= MaxImgs
  <2>1. Cardinality(I \ {h}) = Cardinality(I) - 1
    BY <1>1, FS_RemoveElement
  <2> HIDE DEF I
  <2> QED BY <1>1, <1>2, <1>4, <2>1 DEF I
<1>5. \A h \in I : IsFiniteSet(I \ {h})
  BY <1>1, FS_RemoveElement
<1>6. CASE 2 \in I /\ Clip(m) = [m EXCEPT ![2] = UserTurn("task", m[2].iter)]
  <2>1. Images(Clip(m)) = I \ {2}
    BY <1>1, <1>6 DEF Images, UserTurn
  <2> QED BY <1>4, <1>5, <1>6, <2>1
<1>7. ASSUME NEW i \in I, Clip(m) = RemoveAt(m, i)
      PROVE  Cardinality(Images(Clip(m))) <= MaxImgs
  <2> DEFINE c == Clip(m)
             f == [j \in Images(c) |-> IF j < i THEN j ELSE j + 1]
  <2>1. i \in 1 .. Len(m) /\ i \in Nat
    BY <1>1
  <2>2. /\ c \in Seq(Message) /\ Len(c) = Len(m) - 1
        /\ \A j \in 1 .. (i - 1) : c[j] = m[j]
        /\ \A j \in i .. (Len(m) - 1) : c[j] = m[j + 1]
    BY <1>7, <2>1, RemoveAtFacts
  <2>3. IsFiniteSet(Images(c)) /\ Images(c) \subseteq 1 .. Len(c)
    BY <2>2, ImagesFinite
  <2>4. \A j \in Images(c) : j \in Nat /\ f[j] \in I \ {i} /\ (j < i => f[j] = j) /\ (~(j < i) => f[j] = j + 1)
    <3> SUFFICES ASSUME NEW j \in Images(c)
                 PROVE  j \in Nat /\ f[j] \in I \ {i} /\ (j < i => f[j] = j) /\ (~(j < i) => f[j] = j + 1)
      OBVIOUS
    <3>1. j \in 1 .. Len(c) /\ c[j].kind = "obs" /\ j \in Nat
      BY <2>3 DEF Images
    <3>2. CASE j < i
      <4>1. j \in 1 .. (i - 1) /\ j \in 1 .. Len(m) /\ j # i /\ f[j] = j
        BY <1>1, <2>1, <3>1, <3>2
      <4> QED BY <2>2, <3>1, <3>2, <4>1 DEF Images
    <3>3. CASE ~(j < i)
      <4>1. j \in i .. (Len(m) - 1) /\ j + 1 \in 1 .. Len(m) /\ j + 1 # i /\ f[j] = j + 1
        BY <1>1, <2>1, <2>2, <3>1, <3>3
      <4> QED BY <2>2, <3>1, <3>3, <4>1 DEF Images
    <3> QED BY <3>2, <3>3
  <2>5. \A l \in I \ {i} : \E j \in Images(c) : f[j] = l
    <3> SUFFICES ASSUME NEW l \in I, l # i PROVE \E j \in Images(c) : f[j] = l
      OBVIOUS
    <3>1. l \in 1 .. Len(m) /\ m[l].kind = "obs"
      BY <1>1 DEF Images
    <3>2. CASE l < i
      <4>1. l \in 1 .. (i - 1) /\ l \in 1 .. Len(c)
        BY <1>1, <2>1, <2>2, <3>1, <3>2
      <4>2. l \in Images(c)
        BY <2>2, <3>1, <4>1 DEF Images
      <4> QED BY <2>4, <3>2, <4>2
    <3>3. CASE ~(l < i)
      <4>1. l - 1 \in i .. (Len(m) - 1) /\ l - 1 \in 1 .. Len(c) /\ l - 1 + 1 = l /\ ~(l - 1 < i)
        BY <1>1, <2>1, <2>2, <3>1, <3>3
      <4>2. l - 1 \in Images(c)
        BY <2>2, <3>1, <4>1 DEF Images
      <4> QED BY <2>4, <4>1, <4>2
    <3> QED BY <3>2, <3>3
  <2>6. f \in [Images(c) -> I \ {i}]
    BY <2>4
  <2>7. \A j, l \in Images(c) : f[j] = f[l] => j = l
    <3> HIDE DEF f
    <3> QED BY <2>1, <2>4
  <2> HIDE DEF f, c, I
  <2>8. f \in Bijection(Images(c), I \ {i})
    BY <2>5, <2>6, <2>7 DEF Bijection, Injection, Surjection, IsInjective
  <2>9. ExistsBijection(Images(c), I \ {i})
    BY <2>8 DEF ExistsBijection
  <2>10. Cardinality(Images(c)) = Cardinality(I \ {i})
    BY <2>3, <2>9, FS_Bijection
  <2> QED BY <1>4, <1>5, <2>10 DEF c
<1> QED BY <1>3, <1>6, <1>7, ClipCases

\* One more turn is at most one more image.
LEMMA AppendImages ==
  ASSUME TypeOK, NEW u \in Message
  PROVE  /\ Cardinality(Images(Append(messages, u))) <= Cardinality(Images(messages)) + 1
         /\ u.kind # "obs" => Images(Append(messages, u)) = Images(messages)
<1> DEFINE I == Images(messages)
           n == Len(messages)
<1>1. messages \in Seq(Message)
  BY DEF TypeOK
<1>2. IsFiniteSet(I) /\ Cardinality(I) \in Nat /\ I \subseteq 1 .. n /\ n \in Nat
  BY <1>1, ImagesFinite
<1>3. /\ Len(Append(messages, u)) = n + 1 /\ Append(messages, u)[n + 1] = u
      /\ DOMAIN Append(messages, u) = 1 .. n + 1 /\ DOMAIN messages = 1 .. n
      /\ \A i \in 1 .. n : Append(messages, u)[i] = messages[i]
  BY <1>1, AppendProperties
<1>4. Images(Append(messages, u)) = IF u.kind = "obs" THEN I \cup {n + 1} ELSE I
  BY <1>2, <1>3 DEF Images
<1>5. n + 1 \notin I
  BY <1>2
<1>6. Cardinality(I \cup {n + 1}) = Cardinality(I) + 1
  BY <1>2, <1>5, FS_AddElement
<1> HIDE DEF I, n
<1> QED BY <1>2, <1>4, <1>6 DEF I

ImagesBound == Cardinality(Images(messages)) <= MaxImgs

\* Every action keeps the images within MaxImgs.
LEMMA ImagesInduction ==
  ASSUME TypeOK, CallInLoop, ImagesBound, [Next]_vars
  PROVE  ImagesBound'
<1>1. ASSUME NEW r \in Replies, Record(r), pc = "call" PROVE ImagesBound'
  <2>1. Reply(r, it) \in Message /\ Reply(r, it).kind # "obs"
    BY <1>1 DEF Reply, Message, CallInLoop, Replies, Acts, Answers, Bad
  <2>2. Images(Append(messages, Reply(r, it))) = Images(messages)
    BY <2>1, AppendImages
  <2> QED BY <1>1, <2>2 DEF Record, ImagesBound
<1>2. CASE TakeScreenshot
  <2> DEFINE u == UserTurn(IF failObs = "none" THEN "obs" ELSE failObs, it + 1)
             m == Append(messages, u)
  <2>1. u \in Message
    BY <1>2, BoundsAssumption DEF TakeScreenshot, MoreIterations, UserTurn, Message, TypeOK, UserKinds
  <2>2. m \in Seq(Message) /\ Cardinality(Images(m)) <= Cardinality(Images(messages)) + 1
    BY <2>1, AppendTurn, AppendImages
  <2>3. messages \in Seq(Message) /\ messages' = Clip(m)
    BY <1>2 DEF TakeScreenshot, TypeOK
  <2> HIDE DEF m
  <2>4. Cardinality(Images(m)) \in Nat /\ Cardinality(Images(messages)) \in Nat
    BY <2>2, <2>3, ImagesFinite
  <2>5. Cardinality(Images(m)) <= MaxImgs + 1
    BY <2>2, <2>4, BoundsAssumption DEF ImagesBound
  <2> QED BY <2>2, <2>3, <2>5, ClipImages DEF ImagesBound
<1>3. CASE ReplyUnparseable \/ ReplyActs \/ ReplyAnswers
  BY <1>1, <1>3 DEF ReplyUnparseable, ReplyActs, ReplyAnswers, Replies
<1>4. CASE UNCHANGED messages
  BY <1>4 DEF ImagesBound
<1>5. CASE UNCHANGED vars
  BY <1>5 DEF vars, ImagesBound
<1> QED
  BY <1>2, <1>3, <1>4, <1>5
     DEF Next, Launch, LaunchFails, ScreenshotFails, CallFails, Execute, ExecuteFails,
         SaveTranscript, Abort

\* The system prompt has no image.
LEMMA InitImages == Init => ImagesBound
<1> SUFFICES ASSUME Init PROVE ImagesBound
  OBVIOUS
<1>1. messages = <<SystemPrompt>>
  BY DEF Init
<1>2. Images(messages) = {}
  BY <1>1 DEF Images, SystemPrompt
<1> QED BY <1>2, FS_EmptySet, BoundsAssumption DEF ImagesBound

\* The k-th reply of the conversation is the k-th step.
LEMMA RepliesInOrder ==
  ASSUME TypeOK, StepsFollowIterations, ConversationFacts
  PROVE  /\ Lists(InOrder(Replied), Len(steps), Replied)
         /\ \A k \in 1 .. Len(steps) :
              messages[InOrder(Replied)[k]] = Reply(steps[k].kind, steps[k].iter)
<1> DEFINE R == Replied
           at == InOrder(R)
           n == Cardinality(R)
           I == {steps[k].iter : k \in 1 .. Len(steps)}
           f == [k \in 1 .. Len(steps) |-> steps[k].iter]
           g == [k \in 1 .. n |-> messages[at[k]].iter]
<1>1. /\ messages \in Seq(Message) /\ Len(messages) \in Nat
      /\ R \in SUBSET (1 .. Len(messages)) /\ R \in SUBSET Nat
      /\ \A i \in R : messages[i].role = "assistant"
      /\ \A i \in 1 .. Len(messages) : messages[i].role = "assistant" => i \in R
  <2>1. messages \in Seq(Message) /\ Len(messages) \in Nat
    BY LenProperties DEF TypeOK
  <2> QED BY <2>1 DEF Replied
<1>2. /\ Len(steps) \in Nat /\ DOMAIN steps = 1 .. Len(steps)
      /\ \A k \in 1 .. Len(steps) : steps[k].iter \in Nat
  BY StepTypes
<1>3. Lists(at, n, R)
  BY <1>1, InOrderLists
<1> HIDE DEF R, at
<1>4. n \in Nat /\ (\A k \in 1 .. n : at[k] \in R) /\ (\A i \in R : \E k \in 1 .. n : at[k] = i)
      /\ \A j, k \in 1 .. n : j < k => at[j] < at[k]
  BY <1>3 DEF Lists
<1>5. \A k \in 1 .. n : \E l \in 1 .. Len(steps) : messages[at[k]] = Reply(steps[l].kind, steps[l].iter)
  BY <1>1, <1>4 DEF ConversationFacts, Recorded
<1>6. \A l \in 1 .. Len(steps) : \E k \in 1 .. n : messages[at[k]] = Reply(steps[l].kind, steps[l].iter)
  <2> SUFFICES ASSUME NEW l \in 1 .. Len(steps)
               PROVE  \E k \in 1 .. n : messages[at[k]] = Reply(steps[l].kind, steps[l].iter)
    OBVIOUS
  <2>1. PICK i \in 1 .. Len(messages) : messages[i] = Reply(steps[l].kind, steps[l].iter)
    BY DEF ConversationFacts, Recorded
  <2>2. i \in R
    BY <1>1, <2>1 DEF Reply
  <2> QED BY <1>4, <2>1, <2>2
<1> HIDE DEF n
<1>7. Lists(f, Len(steps), I) /\ I \in SUBSET Nat
  <2>1. f \in [1 .. Len(steps) -> I] /\ \A i \in I : \E k \in 1 .. Len(steps) : f[k] = i
    OBVIOUS
  <2>2. \A j, k \in 1 .. Len(steps) : j < k => f[j] < f[k]
    BY <1>2 DEF StepsFollowIterations
  <2>3. I \in SUBSET Nat
    BY <1>2
  <2> QED BY <1>2, <2>1, <2>2, <2>3 DEF Lists
<1>8. Lists(g, n, I)
  <2>1. \A k \in 1 .. n : g[k] \in I
    <3> SUFFICES ASSUME NEW k \in 1 .. n PROVE messages[at[k]].iter \in I
      OBVIOUS
    <3>1. PICK l \in 1 .. Len(steps) : messages[at[k]] = Reply(steps[l].kind, steps[l].iter)
      BY <1>5
    <3>2. messages[at[k]].iter = steps[l].iter
      BY <3>1 DEF Reply
    <3> QED BY <3>2
  <2>2. \A i \in I : \E k \in 1 .. n : g[k] = i
    <3> SUFFICES ASSUME NEW l \in 1 .. Len(steps) PROVE \E k \in 1 .. n : g[k] = steps[l].iter
      OBVIOUS
    <3>1. PICK k \in 1 .. n : messages[at[k]] = Reply(steps[l].kind, steps[l].iter)
      BY <1>6
    <3>2. g[k] = steps[l].iter
      BY <3>1 DEF Reply
    <3> QED BY <3>2
  <2>3. \A j, k \in 1 .. n : j < k => g[j] < g[k]
    <3> SUFFICES ASSUME NEW j \in 1 .. n, NEW k \in 1 .. n, j < k PROVE messages[at[j]].iter < messages[at[k]].iter
      OBVIOUS
    <3>1. at[j] < at[k] /\ at[j] \in 1 .. Len(messages) /\ at[k] \in 1 .. Len(messages)
          /\ messages[at[j]].role = "assistant"
      BY <1>1, <1>4
    <3> QED BY <3>1 DEF ConversationFacts, Ordered
  <2>4. g \in [1 .. n -> I]
    BY <2>1
  <2> HIDE DEF g, I
  <2> QED BY <1>4, <2>2, <2>3, <2>4 DEF Lists
<1> HIDE DEF I
<1>9. n = Len(steps) /\ \A k \in 1 .. Len(steps) : f[k] = g[k]
  <2> HIDE DEF f, g
  <2>1. I \in SUBSET Nat /\ Lists(f, Len(steps), I) /\ Lists(g, n, I)
    BY <1>7, <1>8
  <2> DEFINE l == Len(steps)
  <2>2. l = n /\ \A k \in 1 .. l : f[k] = g[k]
    <3>1. I \in SUBSET Nat /\ Lists(f, l, I) /\ Lists(g, n, I)
      BY <2>1
    <3> HIDE DEF l
    <3> QED BY <3>1, ListSame
  <2> QED BY <2>2
<1>10. \A j, k \in 1 .. Len(steps) : f[j] = f[k] <=> j = k
  <2> HIDE DEF f
  <2> QED BY <1>7, ListOrder
<1>11. ASSUME NEW k \in 1 .. Len(steps)
       PROVE  messages[at[k]] = Reply(steps[k].kind, steps[k].iter)
  <2>1. k \in 1 .. n
    BY <1>9
  <2>2. PICK l \in 1 .. Len(steps) : messages[at[k]] = Reply(steps[l].kind, steps[l].iter)
    BY <1>5, <2>1
  <2>3. messages[at[k]].iter = steps[l].iter
    BY <2>2 DEF Reply
  <2>4. steps[l].iter = steps[k].iter
    BY <1>9, <2>1, <2>3
  <2>5. l = k
    BY <1>10, <2>4
  <2> QED BY <2>2, <2>5
<1> QED BY <1>3, <1>9, <1>11 DEF R, at

ConversationState == TypeOK /\ CallInLoop /\ NumberInv /\ InstructionInv /\ ConversationInv /\ ImagesBound

\* All of run_task's invariants together are inductive, ...
LEMMA ConversationSteps == ConversationState /\ [Next]_vars => ConversationState'
BY TypeInduction, NumberInduction, InstructionInduction, ConversationInduction, ImagesInduction
   DEF ConversationState

\* ... and hold at the start.
LEMMA ConversationInit == Init => ConversationState
BY InitType, InitNumber, InitInstruction, InitConversation, InitImages DEF ConversationState

(* Whatever failed before, the model is called with the system prompt, all  *)
(* the replies in their order, at most MaxImgs images and the turn of the   *)
(* present iteration last.                                                  *)
THEOREM PromptsWellFormed == Spec => []PromptWellFormed
<1>1. ConversationState => PromptWellFormed
  <2> SUFFICES ASSUME ConversationState PROVE PromptWellFormed
    OBVIOUS
  <2> USE DEF ConversationState
  <2>1. messages \in Seq(Message) /\ Len(messages) \in Nat /\ DOMAIN messages = 1 .. Len(messages)
    BY LenProperties DEF TypeOK
  <2>2. Head(messages) = SystemPrompt
    BY <2>1 DEF InstructionInv, Anchored
  <2>3. [k \in DOMAIN InOrder(Replied) |-> messages[InOrder(Replied)[k]]]
          = [k \in DOMAIN steps |-> Reply(steps[k].kind, steps[k].iter)]
    <3> DEFINE at == InOrder(Replied)
    <3>1. /\ Lists(at, Len(steps), Replied)
          /\ \A k \in 1 .. Len(steps) : messages[at[k]] = Reply(steps[k].kind, steps[k].iter)
      BY RepliesInOrder DEF NumberInv, ConversationInv
    <3>2. DOMAIN at = 1 .. Len(steps) /\ DOMAIN steps = 1 .. Len(steps)
      BY <3>1, StepTypes DEF Lists
    <3> HIDE DEF at
    <3>3. [k \in DOMAIN at |-> messages[at[k]]] = [k \in DOMAIN steps |-> Reply(steps[k].kind, steps[k].iter)]
      BY <3>1, <3>2
    <3> QED BY <3>3 DEF at
  <2>4. pc = "call" => /\ Last(messages).role = "user"
                       /\ Last(messages).iter = it
                       /\ Last(messages).kind = IF failObs = "none" THEN "obs" ELSE failObs
    BY DEF ConversationInv, PhaseFacts, LastTurn, Last, UserTurn
  <2>5. \A i, j \in DOMAIN messages : i < j => messages[i].iter <= messages[j].iter
    BY <2>1 DEF ConversationInv, ConversationFacts, Ordered
  <2> QED BY <2>2, <2>3, <2>4, <2>5 DEF PromptWellFormed, ImagesBound
<1> QED BY <1>1, ConversationInit, ConversationSteps, PTL DEF Spec

-----------------------------------------------------------------------------
(* What the scripts rely on after the task ended: that the conversation is  *)
(* not touched again, and what each script found in it.                     *)

\* Step k of the task, with screenshot k, as filter_repeat_qwen3.py scored it.
ScoredStep(k) ==
  /\ dedup[k].kind = steps[k].kind /\ dedup[k].iter = steps[k].iter /\ dedup[k].image = k
  /\ dedup[k].score = 1 => ~AnsweredByFormatError(InOrder(Replied)[k])

\* Step k of the task with an image that is shifted by unparseable replies only.
CountedStep(s, k) ==
  /\ s.iter = steps[k].iter
  /\ s.image = k \/ \E l \in 1 .. Len(steps) : l < k /\ steps[l].kind \in Bad

\* The scripts run when the task has ended.
Frozen == stage # "collect" => pc \in Ended

\* What PRO-CUA keeps from the second round on has no gap.
Purged == stage # "collect" /\ folder /\ recipe = "prm" /\ ~bootstrap => ~HasGap

\* The verdict is one that auto_eval_qwen.py gives for this transcript.
Judged == stage \in {"judged", "scored", "built"} => verdict \in PossibleVerdicts

\* interact_messages_dedup.json is there for later rounds of PRO-CUA only, and
\* holds the steps of the task.
Deduped ==
  /\ stage \in {"collect", "purged", "judged", "stopped"} => dedup = << >>
  /\ \/ dedup = << >>
     \/ /\ recipe = "prm" /\ ~bootstrap /\ HasTranscript /\ HasInstruction
        /\ DOMAIN dedup = 1 .. Len(steps)
        /\ \A k \in 1 .. Len(steps) : ScoredStep(k)

\* Each training step is a step of the task, in a task its recipe accepts.
Built ==
  /\ stage # "built" => dataset = << >>
  /\ Steps # {} =>
       IF recipe = "prm"
       THEN /\ ~LooksUnfinished
            /\ \A s \in Steps : \E k \in DOMAIN dedup :
                 s = dedup[k] /\ (dedup[k].score = 1 \/ verdict # "failure")
       ELSE /\ verdict # "failure"
            /\ \A s \in Steps : \E k \in 1 .. Len(steps) : CountedStep(s, k)

\* What made a script raise.
Stopped ==
  failed => \/ stage = "built" /\ recipe # "prm" /\ FormatRaises
            \/ stage = "stopped" /\ "success" \in PossibleVerdicts

DataInv == Frozen /\ Purged /\ Judged /\ Deduped /\ Built /\ Stopped

\* A task that ended takes no more steps.
LEMMA EndedStays == pc \in Ended => ~Next
BY DEF Ended, Next, Launch, LaunchFails, TakeScreenshot, ScreenshotFails, CallFails,
       ReplyUnparseable, ReplyActs, ReplyAnswers, Execute, ExecuteFails, SaveTranscript, Abort

\* What the scripts read of a task does not change with the later stages.
LEMMA SameTask ==
  ASSUME UNCHANGED <<vars, folder>>
  PROVE  /\ HasGap' = HasGap /\ HasTranscript' = HasTranscript
         /\ HasInstruction' = HasInstruction /\ LooksUnfinished' = LooksUnfinished
         /\ Replied' = Replied /\ InOrder(Replied)' = InOrder(Replied)
         /\ PossibleVerdicts' = PossibleVerdicts /\ FormatRaises' = FormatRaises
         /\ \A i : AnsweredByFormatError(i)' = AnsweredByFormatError(i)
         /\ UNCHANGED <<pc, it, shots, messages, failObs, steps, dropped>>
<1>1. UNCHANGED <<pc, it, shots, messages, failObs, steps, dropped, folder>>
  BY DEF vars
<1> USE <1>1
<1>2. HasGap' = HasGap /\ HasTranscript' = HasTranscript
      /\ HasInstruction' = HasInstruction /\ LooksUnfinished' = LooksUnfinished
  BY DEF HasGap, HasTranscript, HasInstruction, LooksUnfinished
<1>3. Replied' = Replied
  BY DEF Replied
<1>4. InOrder(Replied)' = InOrder(Replied)
  BY <1>3
<1>5. PossibleVerdicts' = PossibleVerdicts
  BY <1>2 DEF PossibleVerdicts, Last
<1>6. FormatRaises' = FormatRaises
  BY <1>2, <1>3 DEF FormatRaises
<1>7. \A i : AnsweredByFormatError(i)' = AnsweredByFormatError(i)
  BY DEF AnsweredByFormatError
<1> QED BY <1>2, <1>3, <1>4, <1>5, <1>6, <1>7

\* InOrder enumerates a set of places.
LEMMA InOrderPlaces ==
  ASSUME NEW n \in Nat, NEW S \in SUBSET (1 .. n)
  PROVE  /\ Cardinality(S) \in Nat /\ DOMAIN InOrder(S) = 1 .. Cardinality(S)
         /\ \A k \in 1 .. Cardinality(S) : InOrder(S)[k] \in S
BY InOrderLists DEF Lists

\* What the replies of the conversation are.
LEMMA RepliedPlaces ==
  ASSUME TypeOK
  PROVE  /\ messages \in Seq(Message) /\ Len(messages) \in Nat /\ DOMAIN messages = 1 .. Len(messages)
         /\ Replied \in SUBSET (1 .. Len(messages)) /\ Replied \in SUBSET Nat
         /\ \A i \in Replied : messages[i].role = "assistant" /\ messages[i].kind \in Replies
<1>1. messages \in Seq(Message) /\ Len(messages) \in Nat /\ DOMAIN messages = 1 .. Len(messages)
  BY LenProperties DEF TypeOK
<1>2. Replied \in SUBSET (1 .. Len(messages)) /\ Replied \in SUBSET Nat
  BY <1>1 DEF Replied
<1>3. \A i \in Replied : messages[i] \in Message /\ messages[i].role = "assistant"
  BY <1>1, <1>2 DEF Replied
<1> QED BY <1>1, <1>2, <1>3, TurnShape

\* Only an unparseable reply is answered by a format error.
LEMMA OnlyBadAnswered ==
  ASSUME TypeOK, ConversationFacts, NEW i \in Replied, AnsweredByFormatError(i)
  PROVE  messages[i].kind \in Bad
<1>1. i \in 1 .. Len(messages) /\ i \in Nat /\ messages[i].kind \in Replies
  BY RepliedPlaces
<1>2. i + 1 \in 1 .. Len(messages) /\ messages[i + 1].kind = "format_error"
  BY RepliedPlaces DEF AnsweredByFormatError
<1> DEFINE n == i + 1
<1>3. n - 1 = i
  BY <1>1
<1>4. messages[n - 1].kind \in Bad \cup {"format_error"}
  <2>1. n \in 1 .. Len(messages) /\ messages[n].kind = "format_error"
    BY <1>2
  <2> HIDE DEF n
  <2> QED BY <2>1 DEF ConversationFacts, Explained
<1> HIDE DEF n
<1> QED BY <1>1, <1>3, <1>4 DEF Replies, Acts, Answers, Bad

\* The replies filter_repeat_qwen3.py scores are the steps, in their order.
LEMMA ScoredSteps ==
  ASSUME TypeOK, StepsFollowIterations, ConversationFacts, NEW repeats
  PROVE  /\ DOMAIN Scored(InOrder(Replied), repeats) = 1 .. Len(steps)
         /\ \A k \in 1 .. Len(steps) :
              /\ Scored(InOrder(Replied), repeats)[k].kind = steps[k].kind
              /\ Scored(InOrder(Replied), repeats)[k].iter = steps[k].iter
              /\ Scored(InOrder(Replied), repeats)[k].image = k
              /\ Scored(InOrder(Replied), repeats)[k].score = 1 =>
                   ~AnsweredByFormatError(InOrder(Replied)[k])
<1> DEFINE at == InOrder(Replied)
<1>1. /\ DOMAIN at = 1 .. Len(steps)
      /\ \A k \in 1 .. Len(steps) : messages[at[k]] = Reply(steps[k].kind, steps[k].iter)
  BY RepliesInOrder DEF Lists
<1> HIDE DEF at
<1>2. /\ DOMAIN Scored(at, repeats) = 1 .. Len(steps)
      /\ \A k \in 1 .. Len(steps) :
           Scored(at, repeats)[k] =
             Step(at[k], k, IF AnsweredByFormatError(at[k]) \/ k \in repeats THEN 0 ELSE 1)
  BY <1>1 DEF Scored
<1>3. ASSUME NEW k \in 1 .. Len(steps)
      PROVE  /\ Scored(at, repeats)[k].kind = steps[k].kind
             /\ Scored(at, repeats)[k].iter = steps[k].iter
             /\ Scored(at, repeats)[k].image = k
             /\ Scored(at, repeats)[k].score = 1 => ~AnsweredByFormatError(at[k])
  <2>1. messages[at[k]].kind = steps[k].kind /\ messages[at[k]].iter = steps[k].iter
    <3>1. messages[at[k]] = Reply(steps[k].kind, steps[k].iter)
      BY <1>1
    <3> QED BY <3>1 DEF Reply
  <2>2. Scored(at, repeats)[k] =
          [kind |-> steps[k].kind, iter |-> steps[k].iter, image |-> k,
           score |-> IF AnsweredByFormatError(at[k]) \/ k \in repeats THEN 0 ELSE 1]
    BY <1>2, <2>1 DEF Step
  <2> QED BY <2>2
<1> QED BY <1>2, <1>3 DEF at

\* The replies construct_dataset.py keeps are steps, and their images are
\* shifted only if one before was left out.
LEMMA CountedSteps ==
  ASSUME TypeOK, StepsFollowIterations, ConversationFacts
  PROVE  \E c \in Nat :
           /\ DOMAIN FormatToConv = 1 .. c
           /\ \A j \in 1 .. c : \E k \in 1 .. Len(steps) : CountedStep(FormatToConv[j], k)
<1> DEFINE R == Replied
           K == {i \in R : ~AnsweredByFormatError(i)}
           kept == InOrder(K)
           at == InOrder(R)
           c == Cardinality(K)
<1>1. /\ Len(messages) \in Nat /\ R \in SUBSET (1 .. Len(messages)) /\ R \in SUBSET Nat
      /\ K \in SUBSET (1 .. Len(messages)) /\ K \in SUBSET Nat
  BY RepliedPlaces
<1>2. Lists(kept, c, K)
  BY <1>1, InOrderLists
<1>3. /\ Lists(at, Len(steps), R)
      /\ \A k \in 1 .. Len(steps) : messages[at[k]] = Reply(steps[k].kind, steps[k].iter)
  BY RepliesInOrder
<1>4. FormatToConv = [j \in DOMAIN kept |-> Step(kept[j], j, 0)]
  BY DEF FormatToConv
<1>5. K \subseteq R /\ \A i \in R : i \notin K => messages[i].kind \in Bad
  BY OnlyBadAnswered
<1> HIDE DEF kept, at, K, R, c
<1>6. c \in Nat /\ DOMAIN kept = 1 .. c /\ \A j \in 1 .. c : kept[j] \in K
  BY <1>2 DEF Lists
<1>7. \A i \in R : \E k \in 1 .. Len(steps) : at[k] = i
  BY <1>3 DEF Lists
<1>8. \A j, k \in 1 .. Len(steps) : at[j] < at[k] <=> j < k
  <2> DEFINE n == Len(steps)
  <2>1. Lists(at, n, R)
    BY <1>3
  <2> HIDE DEF n
  <2>2. \A j, k \in 1 .. n : at[j] < at[k] <=> j < k
    BY <1>1, <2>1, ListOrder
  <2> QED BY <2>2 DEF n
<1>9. \A k \in 1 .. Len(steps) : Cardinality({i \in R : i <= at[k]}) = k
  <2> DEFINE n == Len(steps)
  <2>1. Lists(at, n, R)
    BY <1>3
  <2>2. R \in SUBSET Nat
    BY <1>1
  <2> HIDE DEF n
  <2>3. \A k \in 1 .. n : at[k] \in R /\ Cardinality({i \in R : i <= at[k]}) = k
    BY <2>2, <2>1, ListPrefix
  <2> QED BY <2>3 DEF n
<1>10. \A j \in 1 .. c : Cardinality({i \in K : i <= kept[j]}) = j
  BY <1>1, <1>2, ListPrefix
<1>11. ASSUME NEW j \in 1 .. c
       PROVE  \E k \in 1 .. Len(steps) : CountedStep(FormatToConv[j], k)
  <2>1. PICK k \in 1 .. Len(steps) : at[k] = kept[j]
    BY <1>5, <1>6, <1>7
  <2>2. FormatToConv[j].iter = steps[k].iter /\ FormatToConv[j].image = j
    <3>1. FormatToConv[j] = Step(kept[j], j, 0)
      BY <1>4, <1>6
    <3>2. messages[kept[j]].iter = steps[k].iter
      <4>1. messages[at[k]] = Reply(steps[k].kind, steps[k].iter)
        BY <1>3
      <4> QED BY <2>1, <4>1 DEF Reply
    <3> QED BY <3>1, <3>2 DEF Step
  <2>3. CASE \E l \in 1 .. Len(steps) : l < k /\ steps[l].kind \in Bad
    BY <2>2, <2>3 DEF CountedStep
  <2>4. CASE ~\E l \in 1 .. Len(steps) : l < k /\ steps[l].kind \in Bad
    <3>1. ASSUME NEW i \in R, i <= kept[j]
          PROVE  i \in K
      <4>1. PICK l \in 1 .. Len(steps) : at[l] = i
        BY <1>7
      <4>2. messages[i].kind = steps[l].kind
        <5>1. messages[at[l]] = Reply(steps[l].kind, steps[l].iter)
          BY <1>3
        <5> QED BY <4>1, <5>1 DEF Reply
      <4>3. CASE i = kept[j]
        BY <1>6, <4>3
      <4>4. CASE i # kept[j]
        <5>1. i \in Nat /\ kept[j] \in Nat
          BY <1>1, <1>6
        <5>2. at[l] < at[k]
          BY <2>1, <3>1, <4>1, <4>4, <5>1
        <5>3. l < k
          BY <1>8, <5>2
        <5>4. steps[l].kind \notin Bad
          BY <2>4, <5>3
        <5> QED BY <1>5, <4>2, <5>4
      <4> QED BY <4>3, <4>4
    <3>2. {i \in K : i <= kept[j]} = {i \in R : i <= at[k]}
      BY <1>5, <2>1, <3>1
    <3>3. j = k
      BY <1>9, <1>10, <3>2
    <3> QED BY <2>2, <3>3 DEF CountedStep
  <2> QED BY <2>3, <2>4
<1>12. DOMAIN FormatToConv = 1 .. c
  BY <1>4, <1>6
<1> QED BY <1>6, <1>11, <1>12

\* A list of members of a sequence has no others.
LEMMA Sublist ==
  ASSUME NEW n \in Nat, NEW f, DOMAIN f = 1 .. n, NEW S \in SUBSET (1 .. n),
         NEW g, DOMAIN g = DOMAIN InOrder(S), \A j \in DOMAIN g : g[j] = f[InOrder(S)[j]]
  PROVE  \E c \in Nat : DOMAIN g = 1 .. c /\ \A j \in 1 .. c : \E k \in S : g[j] = f[k]
<1> DEFINE left == InOrder(S)
           c == Cardinality(S)
<1>1. c \in Nat /\ DOMAIN left = 1 .. c /\ \A j \in 1 .. c : left[j] \in S
  BY InOrderPlaces
<1>2. DOMAIN g = DOMAIN left /\ \A j \in DOMAIN g : g[j] = f[left[j]]
  OBVIOUS
<1> HIDE DEF left, c
<1>3. DOMAIN g = 1 .. c /\ \A j \in 1 .. c : g[j] = f[left[j]]
  BY <1>1, <1>2
<1> QED BY <1>1, <1>3

\* Nor has what is left of it after the conversion.
LEMMA ConvertedSteps ==
  ASSUME NEW c \in Nat, NEW conv, DOMAIN conv = 1 .. c
  PROVE  \A j \in DOMAIN Converted(conv) : \E k \in 1 .. c : Converted(conv)[j] = conv[k]
<1> DEFINE U == {k \in DOMAIN conv : ~HasToolCall(conv[k].kind)}
           V == {conv[k] : k \in 1 .. c}
<1>1. CASE U = {}
  BY <1>1 DEF Converted
<1>2. CASE U # {}
  <2>1. U \subseteq Nat /\ U \subseteq 1 .. c
    OBVIOUS
  <2>2. Converted(conv) = SubSeq(conv, 1, Min(U) - 1)
    BY <1>2 DEF Converted
  <2> DEFINE m == Min(U)
  <2>3. m \in 1 .. c
    <3>1. \E x \in U : \A y \in U : x <= y
      <4> HIDE DEF U
      <4> QED BY <1>2, <2>1, LeastNatural
    <3>2. m = CHOOSE x \in U : \A y \in U : x <= y
      BY DEF Min
    <3> HIDE DEF U, m
    <3>3. m \in U
      BY <3>1, <3>2
    <3> QED BY <2>1, <3>3
  <2>4. \A k \in 1 .. m - 1 : conv[k] \in V
    BY <2>3
  <2> HIDE DEF m, U, V
  <2>5. /\ Len(SubSeq(conv, 1, m - 1)) = m - 1 /\ SubSeq(conv, 1, m - 1) \in Seq(V)
        /\ \A j \in 1 .. m - 1 : SubSeq(conv, 1, m - 1)[j] = conv[j]
    <3>1. 1 \in Int /\ m - 1 \in Int
      BY <2>3
    <3>2. /\ SubSeq(conv, 1, m - 1) \in Seq(V)
          /\ Len(SubSeq(conv, 1, m - 1)) = IF 1 <= m - 1 THEN m - 1 - 1 + 1 ELSE 0
          /\ \A j \in 1 .. m - 1 - 1 + 1 : SubSeq(conv, 1, m - 1)[j] = conv[1 + j - 1]
      BY <2>4, <3>1, SubSeqProperties
    <3> DEFINE sub == SubSeq(conv, 1, m - 1)
    <3> HIDE DEF sub
    <3>3. \A j \in 1 .. m - 1 : 1 + j - 1 = j /\ j \in 1 .. m - 1 - 1 + 1
      BY <2>3
    <3> QED BY <2>3, <3>2, <3>3
  <2>6. DOMAIN Converted(conv) = 1 .. m - 1 /\ \A j \in 1 .. m - 1 : j \in 1 .. c
    <3>1. DOMAIN SubSeq(conv, 1, m - 1) = 1 .. Len(SubSeq(conv, 1, m - 1))
      BY <2>5
    <3> QED BY <2>2, <2>3, <2>5, <3>1 DEF m
  <2> QED BY <2>2, <2>5, <2>6 DEF m
<1> QED BY <1>1, <1>2

-----------------------------------------------------------------------------
(* What the scripts find in the folder, from stage to stage.                *)
DataState == ConversationState /\ DataInv

\* No script ran yet.
LEMMA InitDataState == InitData => DataState
<1>1. InitData => ConversationState
  BY ConversationInit DEF InitData
<1>2. InitData => DataInv
  BY DEF InitData, DataInv, Frozen, Purged, Judged, Deduped, Built, Stopped, Steps
<1> QED BY <1>1, <1>2 DEF DataState

\* The scripts leave the conversation alone.
LEMMA ScriptsLeaveTask == [NextData]_allVars => [Next]_vars
BY DEF NextData, allVars, Collect, Purge, Judge, JudgeRaises, Dedup, BuildScored, BuildWhole

\* While the task runs, the scripts have made nothing of it.
LEMMA CollectKeepsData == DataInv /\ Collect => DataInv'
<1> SUFFICES ASSUME DataInv, Collect PROVE DataInv'
  OBVIOUS
<1>1. stage = "collect" /\ stage' = "collect" /\ dedup' = dedup /\ dataset' = dataset /\ failed' = failed
  BY EndedStays DEF DataInv, Frozen, Collect, dataVars
<1>2. dedup' = << >> /\ dataset' = << >> /\ ~failed'
  BY <1>1 DEF DataInv, Deduped, Built, Stopped
<1>3. Steps' = {}
  BY <1>2 DEF Steps
<1> QED BY <1>1, <1>2, <1>3 DEF DataInv, Frozen, Purged, Judged, Deduped, Built, Stopped

\* A folder with a gap is gone before PRO-CUA looks at it.
LEMMA PurgeKeepsData == DataInv /\ Purge => DataInv'
<1> SUFFICES ASSUME DataInv, Purge PROVE DataInv'
  OBVIOUS
<1>1. /\ stage = "collect" /\ stage' = "purged" /\ pc' = pc /\ pc \in Ended
      /\ dedup' = dedup /\ dataset' = dataset /\ failed' = failed
      /\ recipe' = recipe /\ bootstrap' = bootstrap /\ shots' = shots
  BY DEF Purge, vars
<1>2. dedup' = << >> /\ dataset' = << >> /\ ~failed'
  BY <1>1 DEF DataInv, Deduped, Built, Stopped
<1>3. Steps' = {}
  BY <1>2 DEF Steps
<1>4. HasGap' = HasGap
  BY <1>1 DEF HasGap
<1>5. Purged'
  <2>1. recipe = "prm" => folder' = ~(~bootstrap /\ HasGap)
    BY DEF Purge
  <2> QED BY <1>1, <1>4, <2>1 DEF Purged
<1> QED BY <1>1, <1>2, <1>3, <1>5 DEF DataInv, Frozen, Judged, Deduped, Built, Stopped

\* The verdict is one the transcript allows.
LEMMA JudgeKeepsData == DataInv /\ (Judge \/ JudgeRaises) => DataInv'
<1> SUFFICES ASSUME DataInv, Judge \/ JudgeRaises PROVE DataInv'
  OBVIOUS
<1>1. /\ stage = "purged" /\ UNCHANGED <<vars, folder>>
      /\ dedup' = dedup /\ dataset' = dataset
      /\ recipe' = recipe /\ bootstrap' = bootstrap
  BY DEF Judge, JudgeRaises
<1>2. pc' = pc /\ HasGap' = HasGap /\ PossibleVerdicts' = PossibleVerdicts
  BY <1>1, SameTask
<1>3. dedup' = << >> /\ dataset' = << >> /\ ~failed
  BY <1>1 DEF DataInv, Deduped, Built, Stopped
<1>4. Steps' = {}
  BY <1>3 DEF Steps
<1>5. \/ stage' = "judged" /\ verdict' \in PossibleVerdicts /\ failed' = failed
      \/ stage' = "stopped" /\ "success" \in PossibleVerdicts
  BY DEF Judge, JudgeRaises
<1> QED BY <1>1, <1>2, <1>3, <1>4, <1>5
        DEF DataInv, Frozen, Purged, Judged, Deduped, Built, Stopped

\* What is scored are the steps of the task.
LEMMA DedupKeepsData == DataState /\ Dedup => DataInv'
<1> SUFFICES ASSUME DataState, Dedup PROVE DataInv'
  OBVIOUS
<1>1. TypeOK /\ StepsFollowIterations /\ ConversationFacts /\ DataInv
  BY DEF DataState, ConversationState, NumberInv, ConversationInv
<1>2. /\ stage = "judged" /\ stage' = "scored" /\ UNCHANGED <<vars, folder>>
      /\ dataset' = dataset /\ failed' = failed
      /\ recipe' = recipe /\ bootstrap' = bootstrap /\ verdict' = verdict
  BY DEF Dedup
<1>3. /\ pc' = pc /\ HasGap' = HasGap /\ PossibleVerdicts' = PossibleVerdicts
      /\ HasTranscript' = HasTranscript /\ HasInstruction' = HasInstruction
      /\ InOrder(Replied)' = InOrder(Replied) /\ steps' = steps
      /\ \A i : AnsweredByFormatError(i)' = AnsweredByFormatError(i)
  BY <1>2, SameTask
<1>4. dataset' = << >> /\ ~failed
  BY <1>1, <1>2 DEF DataInv, Built, Stopped
<1>5. Steps' = {}
  BY <1>4 DEF Steps
<1>6. CASE dedup' = << >>
  BY <1>1, <1>2, <1>3, <1>4, <1>5, <1>6
     DEF DataInv, Frozen, Purged, Judged, Deduped, Built, Stopped
<1>7. ASSUME recipe = "prm", ~bootstrap, HasTranscript, ~DedupRaises,
             NEW repeats, dedup' = Scored(InOrder(Replied), repeats)
      PROVE  DataInv'
  <2>1. HasInstruction
    BY <1>7 DEF DedupRaises
  <2>2. /\ DOMAIN dedup' = 1 .. Len(steps)
        /\ \A k \in 1 .. Len(steps) :
             /\ dedup'[k].kind = steps[k].kind /\ dedup'[k].iter = steps[k].iter
             /\ dedup'[k].image = k
             /\ dedup'[k].score = 1 => ~AnsweredByFormatError(InOrder(Replied)[k])
    BY <1>1, <1>7, ScoredSteps
  <2>3. \A k \in 1 .. Len(steps) :
          AnsweredByFormatError(InOrder(Replied)[k])' = AnsweredByFormatError(InOrder(Replied)[k])
    BY <1>2 DEF AnsweredByFormatError, Replied, vars
  <2>4. (\A k \in 1 .. Len(steps) : ScoredStep(k))'
    BY <1>3, <2>2, <2>3 DEF ScoredStep
  <2>5. Deduped'
    BY <1>2, <1>3, <1>7, <2>1, <2>2, <2>4 DEF Deduped
  <2> QED BY <1>1, <1>2, <1>3, <1>4, <1>5, <2>5
          DEF DataInv, Frozen, Purged, Judged, Built, Stopped
<1>8. \/ dedup' = << >>
      \/ /\ recipe = "prm" /\ ~bootstrap /\ HasTranscript /\ ~DedupRaises
         /\ \E repeats : dedup' = Scored(InOrder(Replied), repeats)
  BY DEF Dedup
<1> QED BY <1>6, <1>7, <1>8

\* The dataset of PRO-CUA is made of scored steps.
LEMMA BuildScoredKeepsData == DataState /\ BuildScored => DataInv'
<1> SUFFICES ASSUME DataState, BuildScored PROVE DataInv'
  OBVIOUS
<1>1. TypeOK /\ StepsFollowIterations /\ ConversationFacts /\ DataInv
  BY DEF DataState, ConversationState, NumberInv, ConversationInv
<1>2. /\ stage = "scored" /\ recipe = "prm" /\ stage' = "built" /\ UNCHANGED <<vars, folder>>
      /\ dedup' = dedup /\ failed' = failed
      /\ recipe' = recipe /\ bootstrap' = bootstrap /\ verdict' = verdict
  BY DEF BuildScored
<1>3. /\ pc' = pc /\ HasGap' = HasGap /\ PossibleVerdicts' = PossibleVerdicts
      /\ HasTranscript' = HasTranscript /\ HasInstruction' = HasInstruction
      /\ LooksUnfinished' = LooksUnfinished /\ steps' = steps
  BY <1>2, SameTask
<1>4. \A k \in 1 .. Len(steps) : ScoredStep(k)' = ScoredStep(k)
  BY <1>2 DEF ScoredStep, AnsweredByFormatError, Replied, vars
<1>5. Deduped'
  BY <1>1, <1>2, <1>3, <1>4 DEF DataInv, Deduped
<1>6. PICK rescued \in SUBSET {k \in DOMAIN dedup : verdict # "failure"} :
        dataset' = LET kept == InOrder({k \in DOMAIN dedup : dedup[k].score = 1} \cup rescued)
                   IN  IF LooksUnfinished THEN << >> ELSE [j \in DOMAIN kept |-> dedup[kept[j]]]
  BY DEF BuildScored
<1> DEFINE K == {k \in DOMAIN dedup : dedup[k].score = 1} \cup rescued
<1>7. Steps' # {} => /\ ~LooksUnfinished
                     /\ \A s \in Steps' : \E k \in DOMAIN dedup :
                          s = dedup[k] /\ (dedup[k].score = 1 \/ verdict # "failure")
  <2>1. CASE LooksUnfinished
    <3>1. dataset' = << >>
      BY <1>6, <2>1
    <3> QED BY <3>1 DEF Steps
  <2>2. CASE ~LooksUnfinished
    <3>1. \E n \in Nat : DOMAIN dedup = 1 .. n
      <4>1. Len(steps) \in Nat
        BY <1>1, StepTypes
      <4>2. dedup = << >> => DOMAIN dedup = 1 .. 0
        OBVIOUS
      <4> QED BY <1>1, <4>1, <4>2 DEF DataInv, Deduped
    <3>2. PICK n \in Nat : DOMAIN dedup = 1 .. n
      BY <3>1
    <3>3. K \in SUBSET (1 .. n)
      BY <3>2
    <3>4. dataset' = [j \in DOMAIN InOrder(K) |-> dedup[InOrder(K)[j]]]
      BY <1>6, <2>2
    <3>5. \A k \in K : k \in DOMAIN dedup /\ (dedup[k].score = 1 \/ verdict # "failure")
      OBVIOUS
    <3> HIDE DEF K
    <3> DEFINE g == dataset'
    <3>6. \E c \in Nat : DOMAIN g = 1 .. c /\ \A j \in 1 .. c : \E k \in K : g[j] = dedup[k]
      <4>1. DOMAIN g = DOMAIN InOrder(K) /\ \A j \in DOMAIN g : g[j] = dedup[InOrder(K)[j]]
        BY <3>4
      <4> HIDE DEF g
      <4> QED BY <3>2, <3>3, <4>1, Sublist
    <3>7. \A j \in DOMAIN dataset' : \E k \in K : dataset'[j] = dedup[k]
      BY <3>6
    <3> QED BY <2>2, <3>5, <3>7 DEF Steps
  <2> QED BY <2>1, <2>2
<1>8. Built'
  BY <1>2, <1>3, <1>7 DEF Built
<1>9. ~failed
  BY <1>1, <1>2 DEF DataInv, Stopped
<1> QED BY <1>1, <1>2, <1>3, <1>5, <1>8, <1>9 DEF DataInv, Frozen, Purged, Judged, Stopped

\* The other datasets are made of counted steps.
LEMMA BuildWholeKeepsData == DataState /\ BuildWhole => DataInv'
<1> SUFFICES ASSUME DataState, BuildWhole PROVE DataInv'
  OBVIOUS
<1>1. TypeOK /\ StepsFollowIterations /\ ConversationFacts /\ DataInv
  BY DEF DataState, ConversationState, NumberInv, ConversationInv
<1>2. /\ stage = "scored" /\ recipe # "prm" /\ stage' = "built" /\ UNCHANGED <<vars, folder>>
      /\ dedup' = dedup /\ failed' = FormatRaises
      /\ recipe' = recipe /\ bootstrap' = bootstrap /\ verdict' = verdict
  BY DEF BuildWhole
<1>3. /\ pc' = pc /\ HasGap' = HasGap /\ PossibleVerdicts' = PossibleVerdicts
      /\ HasTranscript' = HasTranscript /\ HasInstruction' = HasInstruction
      /\ FormatRaises' = FormatRaises /\ steps' = steps
  BY <1>2, SameTask
<1>4. Deduped'
  <2>1. dedup = << >>
    BY <1>1, <1>2 DEF DataInv, Deduped
  <2> QED BY <1>2, <2>1 DEF Deduped
<1>5. PICK cut \in SUBSET {k \in DOMAIN FormatToConv : FormatToConv[k].kind = "bad_plain"} :
        dataset' = LET left == InOrder(DOMAIN FormatToConv \ cut)
                       sft  == [j \in DOMAIN left |-> FormatToConv[left[j]]]
                   IN  IF ~(HasTranscript /\ verdict # "failure") \/ FormatRaises THEN << >>
                       ELSE IF recipe = "rule" THEN Converted(sft) ELSE sft
  BY DEF BuildWhole
<1> DEFINE conv == FormatToConv
           K == DOMAIN conv \ cut
<1>6. PICK c \in Nat : /\ DOMAIN conv = 1 .. c
                       /\ \A j \in 1 .. c : \E k \in 1 .. Len(steps) : CountedStep(conv[j], k)
  BY <1>1, CountedSteps
<1>7. CASE ~(HasTranscript /\ verdict # "failure") \/ FormatRaises
  <2>1. dataset' = << >>
    BY <1>5, <1>7
  <2>2. Steps' = {}
    BY <2>1 DEF Steps
  <2> QED BY <1>1, <1>2, <1>3, <1>4, <2>1, <2>2
          DEF DataInv, Frozen, Purged, Judged, Built, Stopped
<1>8. CASE HasTranscript /\ verdict # "failure" /\ ~FormatRaises
  <2> DEFINE sft == [j \in DOMAIN InOrder(K) |-> conv[InOrder(K)[j]]]
  <2>1. dataset' = Converted(sft) \/ dataset' = sft
    BY <1>5, <1>8
  <2>2. K \in SUBSET (1 .. c) /\ DOMAIN conv = 1 .. c
    BY <1>6
  <2> HIDE DEF K, conv
  <2>3. DOMAIN sft = DOMAIN InOrder(K) /\ \A j \in DOMAIN sft : sft[j] = conv[InOrder(K)[j]]
    OBVIOUS
  <2> HIDE DEF sft
  <2>4. PICK d \in Nat : DOMAIN sft = 1 .. d /\ \A j \in 1 .. d : \E k \in K : sft[j] = conv[k]
    BY <2>2, <2>3, Sublist
  <2>5. \A j \in DOMAIN dataset' : \E k \in K : dataset'[j] = conv[k]
    <3>1. \A j \in DOMAIN Converted(sft) : \E k \in 1 .. d : Converted(sft)[j] = sft[k]
      BY <2>4, ConvertedSteps
    <3> QED BY <2>1, <2>4, <3>1
  <2>6. \A s \in Steps' : \E k \in 1 .. Len(steps) : CountedStep(s, k)
    <3> SUFFICES ASSUME NEW j \in DOMAIN dataset'
                 PROVE  \E k \in 1 .. Len(steps) : CountedStep(dataset'[j], k)
      BY DEF Steps
    <3> QED BY <1>6, <2>2, <2>5
  <2>7. \A s \in Steps' : \E k \in 1 .. Len(steps) : CountedStep(s, k)'
    BY <1>3, <2>6 DEF CountedStep
  <2>8. Built'
    BY <1>2, <1>3, <1>8, <2>7 DEF Built
  <2> QED BY <1>1, <1>2, <1>3, <1>4, <1>8, <2>8
          DEF DataInv, Frozen, Purged, Judged, Stopped
<1> QED BY <1>7, <1>8

\* No script undoes what another one relies on.
LEMMA DataInduction == DataState /\ [NextData]_allVars => DataState'
<1> SUFFICES ASSUME DataState, [NextData]_allVars PROVE DataState'
  OBVIOUS
<1>1. ConversationState'
  BY ScriptsLeaveTask, ConversationSteps DEF DataState
<1>2. DataInv'
  <2>1. CASE UNCHANGED allVars
    <3>1. /\ UNCHANGED <<vars, folder>> /\ stage' = stage
          /\ dataset' = dataset /\ dedup' = dedup /\ failed' = failed
          /\ recipe' = recipe /\ bootstrap' = bootstrap /\ verdict' = verdict
      BY <2>1 DEF allVars, dataVars
    <3>2. /\ pc' = pc /\ HasGap' = HasGap /\ PossibleVerdicts' = PossibleVerdicts
          /\ HasTranscript' = HasTranscript /\ HasInstruction' = HasInstruction
          /\ LooksUnfinished' = LooksUnfinished /\ FormatRaises' = FormatRaises /\ steps' = steps
      BY <3>1, SameTask
    <3>3. \A k \in 1 .. Len(steps) : ScoredStep(k)' = ScoredStep(k)
      BY <3>1 DEF ScoredStep, AnsweredByFormatError, Replied, vars
    <3>4. DataInv
      BY DEF DataState
    <3>5. Deduped'
      BY <3>1, <3>2, <3>3, <3>4 DEF DataInv, Deduped
    <3>6. Built'
      <4>1. Steps' = Steps
        BY <3>1 DEF Steps
      <4> QED BY <3>1, <3>2, <3>4, <4>1 DEF DataInv, Built, CountedStep
    <3> QED BY <3>1, <3>2, <3>4, <3>5, <3>6 DEF DataInv, Frozen, Purged, Judged, Stopped
  <2>2. CASE NextData
    BY <2>2, CollectKeepsData, PurgeKeepsData, JudgeKeepsData, DedupKeepsData,
       BuildScoredKeepsData, BuildWholeKeepsData DEF NextData, DataState
  <2> QED BY <2>1, <2>2
<1> QED BY <1>1, <1>2 DEF DataState

\* Screenshots without a gap and with a first one are all there.
LEMMA NoGap ==
  ASSUME shots \subseteq Nat \ {0}, 1 \in shots, ~HasGap
  PROVE  \A i \in shots : 1 .. i \subseteq shots
<1> SUFFICES ASSUME NEW i \in shots, NEW j \in 1 .. i, j \notin shots PROVE FALSE
  OBVIOUS
<1> DEFINE M == {k \in 1 .. i : k \notin shots}
<1>1. PICK k \in M : \A l \in M : k <= l
  <2>1. M \subseteq Nat /\ M # {}
    OBVIOUS
  <2> HIDE DEF M
  <2> QED BY <2>1, LeastNatural
<1>2. k \in 1 .. i /\ k \notin shots /\ i \in Nat
  OBVIOUS
<1>3. k # 1 /\ k # i
  BY <1>2
<1>4. k - 1 \in 1 .. i /\ k - 1 < i /\ k - 1 + 1 = k
  BY <1>2, <1>3
<1>5. k - 1 \in shots
  <2>1. ~(k <= k - 1)
    BY <1>2
  <2> QED BY <1>1, <1>4, <2>1
<1> QED BY <1>2, <1>4, <1>5 DEF HasGap

\* A reply whose number is not its iteration's comes after a dropped iteration.
LEMMA ShiftedAfterDropped ==
  ASSUME TypeOK, NumberInv, NEW k \in 1 .. Len(steps), steps[k].iter # k
  PROVE  \E d \in dropped : d < steps[k].iter
<1>1. /\ Len(steps) \in Nat /\ DOMAIN steps = 1 .. Len(steps)
      /\ \A j \in 1 .. Len(steps) : steps[j].iter \in Nat /\ steps[j].iter >= j
  BY StepTypes DEF NumberInv, StepsFollowIterations
<1> DEFINE M == {j \in 1 .. Len(steps) : steps[j].iter # j}
<1>2. M \subseteq Nat /\ k \in M
  BY <1>1
<1>3. PICK j \in M : \A l \in M : j <= l
  BY <1>2, LeastNatural
<1>4. j \in 1 .. Len(steps) /\ j \in Nat /\ j <= k /\ k \in Nat /\ j < steps[j].iter
  BY <1>1, <1>2, <1>3
<1>5. \A l \in 1 .. Len(steps) : l < j => steps[l].iter = l
  <2> SUFFICES ASSUME NEW l \in 1 .. Len(steps), l < j, steps[l].iter # l PROVE FALSE
    OBVIOUS
  <2>1. l \in M /\ l \in Nat
    OBVIOUS
  <2> QED BY <1>3, <1>4, <2>1
<1>6. \A l \in 1 .. Len(steps) : steps[l].iter # j
  <2> SUFFICES ASSUME NEW l \in 1 .. Len(steps), steps[l].iter = j PROVE FALSE
    OBVIOUS
  <2>1. l \in Nat /\ l <= j
    BY <1>1
  <2>2. l # j
    BY <1>4
  <2>3. l < j
    BY <1>4, <2>1, <2>2
  <2> QED BY <1>5, <2>3
<1>7. steps[j].iter <= steps[k].iter /\ steps[k].iter \in Nat /\ steps[k].iter <= it
  <2>1. j < k => steps[j].iter < steps[k].iter
    BY <1>1, <1>4 DEF NumberInv, StepsFollowIterations
  <2>2. steps[k].iter <= it
    BY <1>1 DEF NumberInv, Numbering
  <2> QED BY <1>1, <1>4, <2>1, <2>2
<1>8. j \in 1 .. it /\ j < it /\ j < steps[k].iter
  <2>1. it \in Nat /\ j >= 1 /\ steps[j].iter \in Nat
    BY <1>1, <1>4 DEF TypeOK
  <2> DEFINE a == steps[j].iter
             b == steps[k].iter
  <2>2. a \in Nat /\ b \in Nat /\ j < a /\ a <= b /\ b <= it
    BY <1>4, <1>7, <2>1
  <2> HIDE DEF a, b
  <2>3. j \in 1 .. it /\ j < it /\ j < b
    BY <1>4, <2>1, <2>2
  <2> QED BY <2>3 DEF b
<1>9. j \in dropped
  <2>1. \/ j \in dropped
        \/ \E l \in DOMAIN steps : steps[l].iter = j
        \/ j = it
    BY <1>8 DEF NumberInv, StepsFollowIterations
  <2>2. j # it
    BY <1>4, <1>8 DEF TypeOK
  <2> QED BY <1>1, <1>6, <2>1, <2>2
<1> QED BY <1>8, <1>9

\* The instruction came with the first screenshot.
LEMMA InstructionShown ==
  ASSUME TypeOK, ConversationFacts, HasInstruction
  PROVE  1 \in shots
<1>1. 2 \in 1 .. Len(messages) /\ messages[2] \in Message
      /\ messages[2].kind \in UserKinds /\ messages[2].iter = 1
  BY RepliedPlaces DEF HasInstruction, UserKinds
<1>2. messages[2].role = "user"
  BY <1>1, TurnShape
<1> QED BY <1>1, <1>2 DEF ConversationFacts, Shown

\* What a training step of PRO-CUA is.
LEMMA ScoredTraining ==
  ASSUME DataState, recipe = "prm", NEW s \in Steps
  PROVE  /\ pc = "saved" /\ HasInstruction /\ ~LooksUnfinished
         /\ \A i \in shots : 1 .. i \subseteq shots
         /\ \E k \in 1 .. Len(steps) :
              /\ s = dedup[k] /\ ScoredStep(k)
              /\ dedup[k].score = 1 \/ verdict # "failure"
<1>1. TypeOK /\ NumberInv /\ ConversationFacts /\ DataInv
  BY DEF DataState, ConversationState, NumberInv, ConversationInv
<1>2. ~LooksUnfinished /\ \E k \in DOMAIN dedup :
                            s = dedup[k] /\ (dedup[k].score = 1 \/ verdict # "failure")
  BY <1>1 DEF DataInv, Built
<1>3. dedup # << >>
  BY <1>2
<1>4. /\ ~bootstrap /\ HasTranscript /\ HasInstruction
      /\ DOMAIN dedup = 1 .. Len(steps)
      /\ \A k \in 1 .. Len(steps) : ScoredStep(k)
  BY <1>1, <1>3 DEF DataInv, Deduped
<1>5. pc = "saved" /\ folder
  BY <1>4 DEF HasTranscript
<1>6. ~HasGap
  <2>1. dataset # << >>
    BY DEF Steps
  <2>2. stage = "built"
    BY <1>1, <2>1 DEF DataInv, Built
  <2> QED BY <1>1, <1>4, <1>5, <2>2 DEF DataInv, Purged
<1>7. \A i \in shots : 1 .. i \subseteq shots
  <2>1. shots \subseteq Nat \ {0}
    BY <1>1, BoundsAssumption DEF TypeOK
  <2> QED BY <1>1, <1>4, <1>6, <2>1, InstructionShown, NoGap
<1> QED BY <1>2, <1>4, <1>5, <1>7

\* The images: no gap before them, and a number that only dropped
\* iterations and replies that were left out can shift.
LEMMA StateAligned == DataState => ImagesAligned
<1> SUFFICES ASSUME DataState PROVE ImagesAligned
  OBVIOUS
<1>1. TypeOK /\ NumberInv /\ ConversationFacts /\ DataInv
  BY DEF DataState, ConversationState, NumberInv, ConversationInv
<1>2. /\ Len(steps) \in Nat /\ DOMAIN steps = 1 .. Len(steps)
      /\ \A k \in 1 .. Len(steps) : /\ steps[k].iter \in Nat /\ steps[k].iter >= k
                                    /\ steps[k].iter \in shots
      /\ \A j, k \in 1 .. Len(steps) : j < k => steps[j].iter < steps[k].iter
  BY <1>1, StepTypes DEF NumberInv, StepsFollowIterations
<1>3. ASSUME recipe = "prm", NEW s \in Steps
      PROVE  /\ s.image \in shots
             /\ s.image = s.iter \/ \E d \in dropped \cap shots : d < s.iter
  <2>1. /\ \A i \in shots : 1 .. i \subseteq shots
        /\ \E k \in 1 .. Len(steps) : s = dedup[k] /\ ScoredStep(k)
    BY <1>3, ScoredTraining
  <2>2. PICK k \in 1 .. Len(steps) : s.image = k /\ s.iter = steps[k].iter
    BY <2>1 DEF ScoredStep
  <2> DEFINE b == steps[k].iter
  <2>3. b \in Nat /\ k \in 1 .. b /\ 1 .. b \subseteq shots
    BY <1>2, <2>1
  <2>4. ASSUME b # k PROVE \E d \in dropped \cap shots : d < b
    <3>1. PICK d \in dropped : d < b
      BY <1>1, <2>4, ShiftedAfterDropped
    <3>2. d \in 1 .. MaxIter
      BY <1>1 DEF TypeOK
    <3> HIDE DEF b
    <3>3. d \in 1 .. b
      BY <2>3, <3>1, <3>2
    <3> QED BY <2>3, <3>1, <3>3
  <2> QED BY <2>2, <2>3, <2>4
<1>4. ASSUME recipe # "prm", NEW s \in Steps
      PROVE  \/ s.image = s.iter
             \/ \E d \in dropped : d < s.iter
             \/ \E k \in DOMAIN steps : steps[k].kind \in Bad /\ steps[k].iter < s.iter
  <2>1. PICK k \in 1 .. Len(steps) : CountedStep(s, k)
    BY <1>1, <1>4 DEF DataInv, Built
  <2>2. CASE s.image = k
    BY <1>1, <2>1, <2>2, ShiftedAfterDropped DEF CountedStep
  <2>3. CASE \E l \in 1 .. Len(steps) : l < k /\ steps[l].kind \in Bad
    BY <1>2, <2>1, <2>3 DEF CountedStep
  <2> QED BY <2>1, <2>2, <2>3 DEF CountedStep
<1> QED BY <1>3, <1>4 DEF ImagesAligned, ScoredImagesExist, ScoredImagesAligned, WholeImagesAligned

\* The steps: a reply that was reproved scores 0, and a task without its
\* last screenshot lost it.
LEMMA StateSound == DataState => TrainedTrajectoriesSound
<1> SUFFICES ASSUME DataState PROVE TrainedTrajectoriesSound
  OBVIOUS
<1>1. TypeOK /\ NumberInv /\ StepsFollowIterations /\ ConversationFacts /\ PhaseFacts /\ DataInv
  BY DEF DataState, ConversationState, NumberInv, ConversationInv
<1>2. /\ Len(steps) \in Nat /\ DOMAIN steps = 1 .. Len(steps)
      /\ \A k \in 1 .. Len(steps) : steps[k].iter \in Nat /\ steps[k].iter \in shots
  BY <1>1, StepTypes DEF NumberInv, StepsFollowIterations
<1>3. ASSUME recipe = "prm", verdict = "failure", NEW s \in Steps, s.kind \in Bad,
             NEW i \in shots
      PROVE  i <= s.iter
  <2>1. PICK k \in 1 .. Len(steps) : /\ s = dedup[k] /\ ScoredStep(k)
                                     /\ dedup[k].score = 1 \/ verdict # "failure"
    BY <1>3, ScoredTraining
  <2>2. /\ s.kind = steps[k].kind /\ s.iter = steps[k].iter
        /\ ~AnsweredByFormatError(InOrder(Replied)[k])
    BY <1>3, <2>1 DEF ScoredStep
  <2> DEFINE at == InOrder(Replied)
             b == steps[k].iter
  <2>3. messages[at[k]] = Reply(steps[k].kind, steps[k].iter) /\ at[k] \in 1 .. Len(messages)
    <3>1. at[k] \in Replied
      BY <1>1, RepliesInOrder DEF Lists
    <3> QED BY <1>1, <3>1, RepliesInOrder, RepliedPlaces
  <2>4. messages[at[k]].kind \in Bad /\ messages[at[k]].iter = b
    BY <1>3, <2>2, <2>3 DEF Reply
  <2>5. b + 1 \notin shots
    <3> SUFFICES ASSUME b + 1 \in shots PROVE FALSE
      OBVIOUS
    <3>1. at[k] + 1 \in 1 .. Len(messages) /\ messages[at[k] + 1].kind = "format_error"
      <4> HIDE DEF at, b
      <4> QED BY <1>1, <2>3, <2>4 DEF ConversationFacts, Reproved
    <3>2. at[k] + 1 \in DOMAIN messages
      BY <1>1, <3>1, RepliedPlaces
    <3> HIDE DEF at
    <3>3. AnsweredByFormatError(at[k])
      BY <3>1, <3>2 DEF AnsweredByFormatError
    <3> QED BY <2>2, <3>3 DEF at
  <2>6. b \in Nat /\ i \in Nat /\ 1 .. i \subseteq shots
    BY <1>1, <1>2, <1>3, ScoredTraining DEF TypeOK
  <2> HIDE DEF b
  <2>7. i <= b
    BY <2>5, <2>6
  <2> QED BY <2>2, <2>7 DEF b
<1>4. ASSUME FromScores
      PROVE  steps[Len(steps)].kind \in Answers \/ MaxIter \in dropped \ shots
  <2>1. pc = "saved" /\ ~LooksUnfinished
    BY <1>4, ScoredTraining DEF FromScores
  <2>2. it = MaxIter \/ steps[Len(steps)].kind \in Answers
    BY <1>1, <2>1 DEF PhaseFacts
  <2>3. MaxIter \notin shots
    BY <2>1 DEF LooksUnfinished
  <2>4. ASSUME it = MaxIter PROVE MaxIter \in dropped
    <3>1. MaxIter \in 1 .. it
      BY <2>4, BoundsAssumption
    <3>2. \A k \in DOMAIN steps : steps[k].iter # MaxIter
      BY <1>2, <2>3
    <3> QED BY <1>1, <2>1, <3>1, <3>2 DEF StepsFollowIterations
  <2> QED BY <2>2, <2>3, <2>4
<1>5. ASSUME Steps # {}
      PROVE  HasInstruction
  <2>1. CASE recipe = "prm"
    BY <1>5, <2>1, ScoredTraining
  <2>2. CASE recipe # "prm"
    <3>1. verdict # "failure"
      BY <1>1, <1>5, <2>2 DEF DataInv, Built
    <3>2. stage = "built"
      BY <1>1, <1>5 DEF DataInv, Built, Steps
    <3>3. verdict \in PossibleVerdicts
      BY <1>1, <3>2 DEF DataInv, Judged
    <3> QED BY <3>1, <3>3 DEF PossibleVerdicts
  <2> QED BY <2>1, <2>2
<1> QED BY <1>3, <1>4, <1>5
        DEF TrainedTrajectoriesSound, BadReplyOnlyAtEnd, TrainedTasksFinished, InstructionTrained

\* What raises: no second message, or an answer in the last one.
LEMMA StateStops == DataState => OneTaskStopsRound
<1> SUFFICES ASSUME DataState PROVE OneTaskStopsRound
  OBVIOUS
<1>1. TypeOK /\ ConversationFacts /\ PhaseFacts /\ DataInv
  BY DEF DataState, ConversationState, ConversationInv
<1>2. ASSUME FormatRaises PROVE shots = {}
  BY <1>1, <1>2 DEF FormatRaises, ConversationFacts
<1>3. ASSUME "success" \in PossibleVerdicts
      PROVE  Last(messages).kind \in Replies \cup {"format_error"}
  <2> DEFINE n == Len(messages)
             t == messages[n]
  <2>1. HasInstruction /\ Last(messages) = t
    BY <1>3 DEF PossibleVerdicts, Last
  <2>2. t.kind \notin {"obs", "internal_error", "exec_error"}
    <3>1. Last(messages).kind \notin {"obs", "internal_error", "exec_error"}
      BY <1>3 DEF PossibleVerdicts
    <3> QED BY <2>1, <3>1
  <2>3. t.kind # "task"
    BY <1>1 DEF PhaseFacts, LastTurn
  <2>4. n \in Nat /\ n >= 2 /\ messages[2].iter = 1 /\ t \in Message
    BY <1>1, <2>1, RepliedPlaces DEF HasInstruction
  <2>5. t # SystemPrompt
    <3>1. CASE n = 2
      BY <2>4, <3>1 DEF SystemPrompt
    <3>2. CASE n # 2
      <4>1. n \in Nat /\ n >= 2 /\ n # 2
        BY <2>4, <3>2
      <4> HIDE DEF n
      <4>2. 2 \in 1 .. n /\ n \in 1 .. n /\ 2 < n
        BY <4>1
      <4>3. messages[2].iter <= messages[n].iter
        BY <1>1, <4>2 DEF ConversationFacts, Ordered, n
      <4>4. 1 <= t.iter
        BY <2>4, <4>3
      <4> HIDE DEF t
      <4> QED BY <4>4 DEF SystemPrompt
    <3> QED BY <3>1, <3>2
  <2> HIDE DEF t, n
  <2>6. t.kind \in Replies \/ t.kind \in UserKinds
    BY <2>4, <2>5, TurnShape
  <2>7. t.kind \in Replies \cup {"format_error"}
    BY <2>2, <2>3, <2>6 DEF UserKinds, FailTexts
  <2> QED BY <2>1, <2>7
<1> QED BY <1>1, <1>2, <1>3 DEF DataInv, Stopped, OneTaskStopsRound

(* However a task failed while it was collected: what is wrong with the     *)
(* images of the training steps made of it has the causes that              *)
(* ImagesAligned names, for each recipe.                                    *)
THEOREM TrainingImagesAligned == SpecData => []ImagesAligned
BY InitDataState, DataInduction, StateAligned, PTL DEF SpecData

(* No unparseable reply is trained on unless it was the last of its task,   *)
(* and no task that did not finish or whose instruction was never sent.     *)
THEOREM TrainingSound == SpecData => []TrainedTrajectoriesSound
BY InitDataState, DataInduction, StateSound, PTL DEF SpecData

(* One task stops the round in the two cases of OneTaskStopsRound only.     *)
THEOREM RoundStops == SpecData => []OneTaskStopsRound
BY InitDataState, DataInduction, StateStops, PTL DEF SpecData
=============================================================================
