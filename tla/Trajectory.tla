------------------------------ MODULE Trajectory ------------------------------
(***************************************************************************)
(* The collector of WebVoyager: run_task drives one browser task.  Each    *)
(* iteration takes a screenshot, sends the conversation to the model       *)
(* through the router, parses the reply and executes the action.  Every    *)
(* one of these may fail, and each failure takes its own way back to the   *)
(* head of the loop.  What the later tools read are the two things a task  *)
(* leaves on disk: the screenshot files, numbered by iteration, and the    *)
(* conversation in interact_messages.json.                                 *)
(***************************************************************************)
EXTENDS Naturals, Sequences, FiniteSets, SequencesExt

CONSTANTS MaxIter,   \* args.max_iter
          MaxImgs    \* args.max_attached_imgs

ASSUME BoundsAssumption == MaxIter \in Nat \ {0} /\ MaxImgs \in Nat \ {0}

VARIABLES pc,        \* where run_task is
          it,        \* the loop counter
          shots,     \* iterations whose screenshot{it}.png is on disk
          messages,  \* the conversation
          failObs,   \* fail_obs, by the text it holds; "none" when empty
          steps,     \* history: the assistant messages, in order
          dropped    \* history: iterations that ended without a reply

vars == <<pc, it, shots, messages, failObs, steps, dropped>>

-----------------------------------------------------------------------------
(* A reply of the model is abstracted to how the program reads it.  The     *)
(* collector accepts a <tool_call> block or a plain "Action:" line.  The    *)
(* scripts that run later read only a <tool_call> block on lines of its     *)
(* own with well-formed JSON: the replies named "_call".                    *)

Acts    == {"act_call", "act_plain"}
Answers == {"answer_call", "answer_plain"}
Bad     == {"bad_call", "bad_plain"}     \* parsing it for the action raises
Replies == Acts \cup Answers \cup Bad
HasToolCall(r) == r \in {"act_call", "answer_call", "bad_call"}

FailTexts == {"internal_error", "format_error", "exec_error"}

\* "obs" carries an image; "task" is the first observation reduced to its text.
UserKinds == {"obs", "task"} \cup FailTexts

Message == [role : {"system"}, kind : {"prompt"}, iter : {0}]
           \cup [role : {"user"}, kind : UserKinds, iter : 1 .. MaxIter]
           \cup [role : {"assistant"}, kind : Replies, iter : 1 .. MaxIter]

SystemPrompt == [role |-> "system", kind |-> "prompt", iter |-> 0]
UserTurn(k, i) == [role |-> "user", kind |-> k, iter |-> i]
Reply(r, i) == [role |-> "assistant", kind |-> r, iter |-> i]

Images(m) == {i \in DOMAIN m : m[i].kind = "obs"}

\* The numbers of S, smallest first.
InOrder(S) == [k \in 1 .. Cardinality(S) |->
                 CHOOSE i \in S : Cardinality({j \in S : j <= i}) = k]

\* Mutant: img_num <= max_img_num, one image too many stays.
OldImagesOffByOne(m) == {i \in Images(m) : Cardinality({j \in Images(m) : j > i}) > MaxImgs}

\* Observations that have MaxImgs newer ones behind them.
OldImages(m) == {i \in Images(m) : Cardinality({j \in Images(m) : j > i}) >= MaxImgs}

\* Mutant: the second place of the list gets no special treatment.
ClipDropsTask(m) ==
  IF OldImages(m) = {} THEN m ELSE RemoveAt(m, CHOOSE i \in OldImages(m) : TRUE)

(* clip_message_and_obs after a turn was appended.  The list was clipped    *)
(* before, so at most one observation is too old: it is left out, except    *)
(* in the second place of the list, where its text (the task) stays.        *)
Clip(m) ==
  IF OldImages(m) = {} THEN m
  ELSE LET old == CHOOSE i \in OldImages(m) : TRUE
       IN IF old = 2 THEN [m EXCEPT ![2] = UserTurn("task", m[2].iter)]
          ELSE RemoveAt(m, old)

-----------------------------------------------------------------------------
Init ==
  /\ pc = "launch"
  /\ it = 0
  /\ shots = {}
  /\ messages = <<SystemPrompt>>
  /\ failObs = "none"
  /\ steps = << >>
  /\ dropped = {}

\* The browser starts and the start page loads.
Launch ==
  /\ pc = "launch"
  /\ pc' = "loop"
  /\ UNCHANGED <<it, shots, messages, failObs, steps, dropped>>

\* page.goto fails and run_task returns, or the browser does not start.
LaunchFails ==
  /\ pc = "launch"
  /\ pc' = "aborted"
  /\ UNCHANGED <<it, shots, messages, failObs, steps, dropped>>

MoreIterations == it < MaxIter

\* The observation is appended; after a failure its text is sent, without image.
TakeScreenshot ==
  /\ pc = "loop" /\ MoreIterations
  /\ it' = it + 1
  /\ shots' = shots \cup {it + 1}
  /\ messages' = LET turn == IF failObs = "none" THEN "obs" ELSE failObs
                 IN Clip(Append(messages, UserTurn(turn, it + 1)))
  /\ pc' = "call"
  /\ UNCHANGED <<failObs, steps, dropped>>

ScreenshotFails ==
  /\ pc = "loop" /\ MoreIterations
  /\ it' = it + 1
  /\ failObs' = "internal_error"
  /\ dropped' = dropped \cup {it + 1}
  /\ UNCHANGED <<pc, shots, messages, steps>>

\* Mutant: a failed call gives its iteration back.
CallFailsForFree ==
  /\ pc = "call"
  /\ pc' = "loop"
  /\ it' = it - 1
  /\ failObs' = "none"
  /\ UNCHANGED <<shots, messages, steps, dropped>>

\* call_gpt4v_api gave up, or its answer has no message: the turn that was
\* sent stays in the conversation and fail_obs keeps its value.
CallFails ==
  /\ pc = "call"
  /\ pc' = "loop"
  /\ dropped' = dropped \cup {it}
  /\ UNCHANGED <<it, shots, messages, failObs, steps>>

Record(r) ==
  /\ messages' = Append(messages, Reply(r, it))
  /\ steps' = Append(steps, [kind |-> r, iter |-> it])

\* Mutant: the model is asked again at once, without a new observation.
UnparseableAsksAgain ==
  /\ pc = "call"
  /\ \E r \in Bad : Record(r)
  /\ Len(steps) < MaxIter
  /\ UNCHANGED <<pc, it, shots, failObs, dropped>>

ReplyUnparseable ==
  /\ pc = "call"
  /\ \E r \in Bad : Record(r)
  /\ failObs' = "format_error"
  /\ pc' = "loop"
  /\ UNCHANGED <<it, shots, dropped>>

ReplyActs ==
  /\ pc = "call"
  /\ \E r \in Acts : Record(r)
  /\ failObs' = "none"
  /\ pc' = "exec"
  /\ UNCHANGED <<it, shots, dropped>>

\* The loop breaks; fail_obs is not read again.
ReplyAnswers ==
  /\ pc = "call"
  /\ \E r \in Answers : Record(r)
  /\ pc' = "done"
  /\ UNCHANGED <<it, shots, failObs, dropped>>

Execute ==
  /\ pc = "exec"
  /\ pc' = "loop"
  /\ UNCHANGED <<it, shots, messages, failObs, steps, dropped>>

ExecuteFails ==
  /\ pc = "exec"
  /\ failObs' = "exec_error"
  /\ pc' = "loop"
  /\ UNCHANGED <<it, shots, messages, steps, dropped>>

\* print_message writes interact_messages.json.
SaveTranscript ==
  /\ pc = "done" \/ (pc = "loop" /\ ~MoreIterations)
  /\ pc' = "saved"
  /\ UNCHANGED <<it, shots, messages, failObs, steps, dropped>>

\* An exception no inner handler catches, or the process dies: nothing is
\* written, the screenshots stay.
Abort ==
  /\ pc \in {"loop", "call", "exec", "done"}
  /\ pc' = "aborted"
  /\ UNCHANGED <<it, shots, messages, failObs, steps, dropped>>

Next ==
  \/ Launch \/ LaunchFails
  \/ TakeScreenshot \/ ScreenshotFails
  \/ CallFails \/ ReplyUnparseable \/ ReplyActs \/ ReplyAnswers
  \/ Execute \/ ExecuteFails
  \/ SaveTranscript \/ Abort

\* Every await of run_task has a timeout, so the task keeps taking steps.
Spec == Init /\ [][Next]_vars /\ WF_vars(Next)

Ended == {"saved", "aborted"}

Replied == {i \in DOMAIN messages : messages[i].role = "assistant"}

-----------------------------------------------------------------------------
(* The variables have their types. *)
TypeOK ==
  /\ pc \in {"launch", "loop", "call", "exec", "done"} \cup Ended
  /\ it \in 0 .. MaxIter
  /\ shots \subseteq 1 .. MaxIter
  /\ messages \in Seq(Message)
  /\ failObs \in {"none"} \cup FailTexts
  /\ steps \in Seq([kind : Replies, iter : 1 .. MaxIter])
  /\ dropped \subseteq 1 .. MaxIter

(* What clip_message_and_obs leaves is a usable prompt whatever failed      *)
(* before: the system prompt, never more than MaxImgs images, no reply lost *)
(* or out of order, the turns by their iterations, and a user turn of the   *)
(* present one at the end when the model is called.                         *)
PromptWellFormed ==
  /\ Head(messages) = SystemPrompt
  /\ Cardinality(Images(messages)) <= MaxImgs
  /\ [k \in DOMAIN InOrder(Replied) |-> messages[InOrder(Replied)[k]]]
       = [k \in DOMAIN steps |-> Reply(steps[k].kind, steps[k].iter)]
  /\ pc = "call" =>
       /\ Last(messages).role = "user"
       /\ Last(messages).iter = it
       /\ Last(messages).kind = IF failObs = "none" THEN "obs" ELSE failObs
  /\ \A i, j \in DOMAIN messages : i < j => messages[i].iter <= messages[j].iter

(* The instruction of the task is in the first observation only: once it    *)
(* was sent, clipping never loses it, however many turns follow.            *)
InstructionKept ==
  1 \in shots => /\ Len(messages) >= 2
                 /\ messages[2].iter = 1
                 /\ messages[2].kind \in {"obs", "task"}

(* Replies are recorded in the order of their iterations, at most one for   *)
(* each, never for an iteration without a screenshot, and an iteration that *)
(* is over either left a reply or was dropped.                              *)
StepsFollowIterations ==
  /\ \A k \in DOMAIN steps : steps[k].iter \in shots /\ steps[k].iter >= k
  /\ \A j, k \in DOMAIN steps : j < k => steps[j].iter < steps[k].iter
  /\ \A k \in DOMAIN steps : steps[k].iter \notin dropped
  /\ \A i \in 1 .. it : i \in dropped \/ (\E k \in DOMAIN steps : steps[k].iter = i)
                          \/ (i = it /\ pc \in {"call", "aborted"})

(* The k-th reply answers screenshot k as long as no iteration was dropped: *)
(* the assumption under which the scripts that build training data number   *)
(* the images by counting replies.                                          *)
AlignedWhenNothingDropped ==
  dropped = {} => \A k \in DOMAIN steps : steps[k].iter = k

(* A task always ends: no failure path returns to the head of the loop      *)
(* without consuming an iteration.                                          *)
Terminates == <>(pc \in Ended)
=============================================================================
