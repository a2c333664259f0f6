----------------------------- MODULE ToolAgentLoop -----------------------------
(* verl's multi-turn agent loop under interruptions: the trajectories of one   *)
(* sample on one worker and one rollout server, from the prompt to the         *)
(* completed output. Every trajectory runs the state machine of                *)
(* AsyncPartialToolAgentLoop with partial rollout, whose handlers for tools    *)
(* and interactions are those of ToolAgentLoop. Pausing sets the worker's      *)
(* cancellation event and pauses the server, in any order; resuming clears     *)
(* both, in any order.                                                         *)
(*                                                                             *)
(* A token is what it is written by, by which version of the weights, and a    *)
(* text: "<" opens a tool call and ">" closes it, "i" stands for an image,     *)
(* "r" and "u" for anything else a tool or a user says. The prompt is left out.*)
EXTENDS Integers, Sequences, SequencesExt, FiniteSetsExt

CONSTANTS
    Trajectories,
    ResponseLength,     \* response_length
    MaxAssistantTurns,  \* max_assistant_turns, 0 for no limit
    MaxUserTurns,       \* max_user_turns, 0 for no limit
    Interaction,        \* whether an interaction is configured
    MaxLength,          \* bound on the tokens of a response: max_model_len
    MaxVersion          \* bound on the weight versions

ASSUME AgentAssumption ==
    /\ ResponseLength \in Nat \ {0} /\ MaxAssistantTurns \in Nat /\ MaxUserTurns \in Nat
    /\ MaxLength \in Nat /\ MaxLength > ResponseLength + 1 /\ MaxVersion \in Nat
    /\ Interaction \in BOOLEAN

VARIABLES
    at,             \* at[t]: where the coroutine of trajectory t is
    state,          \* AgentState
    response,       \* the tokens of prompt_ids after the prompt
    mask, logprobs, \* response_mask and response_logprobs
    images,         \* images that tools added to image_data
    assistantTurns, userTurns,
    first, passed,  \* param_version_start; param_version of the present run
    reqOutput,      \* req_output of the server: the tokens of the present request
    cut,            \* is_cancel of the present reply
    asked,          \* requests whose cancel_event is set
    paused,         \* the server is paused
    cancelled,      \* cancellation_event of the worker
    phase, pending, \* pause, synchronisation and resume; their calls under way
    version,        \* version of the weights on the server
    out             \* the completed outputs

agent == <<state, response, mask, logprobs, images, assistantTurns, userTurns>>
server == <<reqOutput, cut, asked>>
control == <<paused, cancelled, phase, pending, version>>
vars == <<at, agent, first, passed, server, control, out>>

-------------------------------------------------------------------------------
Goes(t, place) == at' = [at EXCEPT ![t] = place]
Becomes(t, s) == state' = [state EXCEPT ![t] = s]
Counted(count, t) == count' = [count EXCEPT ![t] = @ + 1]
Unset == [ids |-> <<>>, mask |-> <<>>, logprobs |-> <<>>, images |-> 0, first |-> 0, last |-> 0]

\* Mutant: a fragment is not masked in.
ExtendUnmasked(t, ids, byModel) ==
    /\ response' = [response EXCEPT ![t] = @ \o ids]
    /\ mask' = [mask EXCEPT ![t] = @ \o [i \in DOMAIN ids |-> IF byModel /\ ~cut[t] THEN 1 ELSE 0]]
    /\ logprobs' = [logprobs EXCEPT ![t] = @ \o [i \in DOMAIN ids |-> IF byModel THEN "p" ELSE "0"]]

\* Tokens join the prompt of the next request, the mask and the log-probabilities.
Extend(t, ids, byModel) ==
    /\ response' = [response EXCEPT ![t] = @ \o ids]
    /\ mask' = [mask EXCEPT ![t] = @ \o [i \in DOMAIN ids |-> IF byModel THEN 1 ELSE 0]]
    /\ logprobs' = [logprobs EXCEPT ![t] = @ \o [i \in DOMAIN ids |-> IF byModel THEN "p" ELSE "0"]]

Init ==
    /\ at = [t \in Trajectories |-> "out"] /\ state = [t \in Trajectories |-> "new"]
    /\ response = [t \in Trajectories |-> <<>>]
    /\ mask = [t \in Trajectories |-> <<>>] /\ logprobs = [t \in Trajectories |-> <<>>]
    /\ images = [t \in Trajectories |-> 0]
    /\ assistantTurns = [t \in Trajectories |-> 0] /\ userTurns = [t \in Trajectories |-> 0]
    /\ first = [t \in Trajectories |-> 0] /\ passed = [t \in Trajectories |-> 0]
    /\ reqOutput = [t \in Trajectories |-> <<>>] /\ cut = [t \in Trajectories |-> FALSE]
    /\ asked = {} /\ paused = FALSE /\ cancelled = FALSE
    /\ phase = "run" /\ pending = {} /\ version = 0
    /\ out = [t \in Trajectories |-> Unset]

(* ------------------------------ run, state machine ------------------------- *)

\* Mutant: a trajectory that goes on keeps the version it was started with.
StartWithOldVersion(t) ==
    /\ at[t] = "out" /\ phase # "cancel"
    /\ IF state[t] = "new"
       THEN /\ Becomes(t, "pending") /\ first' = [first EXCEPT ![t] = version]
            /\ passed' = [passed EXCEPT ![t] = version]
       ELSE UNCHANGED <<state, first, passed>>
    /\ Goes(t, "head")
    /\ UNCHANGED <<response, mask, logprobs, images, assistantTurns, userTurns, server, control, out>>

\* The sample is given to the worker: a trajectory starts from scratch or from the
\* agent_data and the state of its cancelled output; a completed one is returned
\* as it is. The monitor may do so early, before resume() has cleared the event.
Start(t) ==
    /\ at[t] = "out" /\ phase # "cancel"
    /\ passed' = [passed EXCEPT ![t] = version]
    /\ IF state[t] = "new"
       THEN Becomes(t, "pending") /\ first' = [first EXCEPT ![t] = version]
       ELSE UNCHANGED <<state, first>>
    /\ Goes(t, "head")
    /\ UNCHANGED <<response, mask, logprobs, images, assistantTurns, userTurns, server, control, out>>

\* Mutant: the event is not looked at before a state is entered.
NotInterrupted(t) == FALSE

\* The state machine is between two states.
Interrupted(t) == at[t] = "head" /\ state[t] # "terminated" /\ cancelled

\* _build_cancelled_output: the agent data and the state are kept for the next run.
Interrupt(t) ==
    /\ Interrupted(t)
    /\ Goes(t, "out")
    /\ UNCHANGED <<agent, first, passed, server, control, out>>

Enters(t, s) == at[t] = "head" /\ state[t] = s /\ ~Interrupted(t)

Pending(t) ==
    /\ Enters(t, "pending") /\ Becomes(t, "generating")
    /\ UNCHANGED <<at, response, mask, logprobs, images, assistantTurns, userTurns, first, passed,
                   server, control, out>>

\* A handler that awaits the server, the tools or the interaction.
Await(t) ==
    /\ \/ Enters(t, "generating") /\ Goes(t, "request")
       \/ Enters(t, "tools") /\ Goes(t, "tools")
       \/ Enters(t, "interacting") /\ Goes(t, "user")
    /\ UNCHANGED <<agent, first, passed, server, control, out>>

Newest(s, n) == SubSeq(s, Len(s) - n + 1, Len(s))
Truncated(s) == IF Len(s) > ResponseLength THEN SubSeq(s, 1, ResponseLength) ELSE s

\* _build_completed_output: the newest tokens, as many as the mask has.
Output(t) ==
    [ids |-> Truncated(Newest(response[t], Len(mask[t]))),
     mask |-> Truncated(mask[t]), logprobs |-> Truncated(logprobs[t]),
     images |-> images[t], first |-> first[t], last |-> passed[t]]

Complete(t) ==
    /\ at[t] = "head" /\ state[t] = "terminated"
    /\ out' = [out EXCEPT ![t] = Output(t)]
    /\ Goes(t, "done")
    /\ UNCHANGED <<agent, first, passed, server, control>>

(* ------------------------- the rollout server ------------------------------ *)

\* A paused server returns nothing, as cancelled.
Refuses(t) == paused

Accept(t) ==
    /\ at[t] = "request"
    /\ reqOutput' = [reqOutput EXCEPT ![t] = <<>>]
    /\ cut' = [cut EXCEPT ![t] = Refuses(t)]
    /\ Goes(t, IF Refuses(t) THEN "reply" ELSE "engine")
    /\ UNCHANGED <<agent, first, passed, asked, control, out>>

Token(text) == [by |-> "model", text |-> text, version |-> version]

EngineStep(t) ==
    /\ at[t] = "engine" /\ Len(response[t]) + Len(reqOutput[t]) < MaxLength
    /\ \E text \in {"<", ">"} : reqOutput' = [reqOutput EXCEPT ![t] = Append(@, Token(text))]
    /\ UNCHANGED <<at, agent, first, passed, cut, asked, control, out>>

\* The engine ends the message, or the cancellation wins the wait: the tokens so
\* far are returned.
Replied(t) ==
    /\ at[t] = "engine"
    /\ \/ reqOutput[t] # <<>> /\ cut' = [cut EXCEPT ![t] = FALSE]
       \/ t \in asked /\ cut' = [cut EXCEPT ![t] = TRUE]
    /\ asked' = asked \ {t}
    /\ Goes(t, "reply")
    /\ UNCHANGED <<agent, first, passed, reqOutput, control, out>>

(* ------------------------------ the handlers ------------------------------- *)

\* Mutant: the limit is looked at only after a complete message.
NeverFull(t) == FALSE

Full(t) == Len(mask'[t]) >= ResponseLength

\* An interrupted message counts as a turn only when it filled the response.
HandleFragment(t) ==
    /\ at[t] = "reply" /\ cut[t]
    /\ Extend(t, reqOutput[t], TRUE)
    /\ IF Full(t)
       THEN Becomes(t, "terminated") /\ Counted(assistantTurns, t)
       ELSE UNCHANGED <<state, assistantTurns>>
    /\ reqOutput' = [reqOutput EXCEPT ![t] = <<>>]
    /\ Goes(t, "head")
    /\ UNCHANGED <<images, userTurns, first, passed, cut, asked, control, out>>

TurnsUsedUp(t) ==
    \/ MaxAssistantTurns # 0 /\ assistantTurns'[t] >= MaxAssistantTurns
    \/ MaxUserTurns # 0 /\ userTurns[t] >= MaxUserTurns

\* extract_tool_calls sees the tokens of the last request only.
CallsIn(ids) == \E i, j \in DOMAIN ids : i < j /\ ids[i].text = "<" /\ ids[j].text = ">"

\* Mutant: the interaction comes before the tools.
NextStateUserFirst(t) ==
    IF Full(t) \/ TurnsUsedUp(t) THEN "terminated"
    ELSE IF Interaction THEN "interacting"
    ELSE IF CallsIn(reqOutput[t]) THEN "tools" ELSE "terminated"

NextState(t) ==
    IF Full(t) \/ TurnsUsedUp(t) THEN "terminated"
    ELSE IF CallsIn(reqOutput[t]) THEN "tools"
    ELSE IF Interaction THEN "interacting" ELSE "terminated"

HandleMessage(t) ==
    /\ at[t] = "reply" /\ ~cut[t]
    /\ Extend(t, reqOutput[t], TRUE)
    /\ Counted(assistantTurns, t)
    /\ Becomes(t, NextState(t))
    /\ reqOutput' = [reqOutput EXCEPT ![t] = <<>>]
    /\ Goes(t, "head")
    /\ UNCHANGED <<images, userTurns, first, passed, cut, asked, control, out>>

Says(by, texts) == [i \in DOMAIN texts |-> [by |-> by, text |-> texts[i], version |-> version]]
ToolTexts == {<<"r">>, <<"r", "r">>, <<"i">>}
UserTexts == {<<"u">>, <<"u", "u">>}
ImagesIn(ids) == Cardinality({i \in DOMAIN ids : ids[i].text = "i"})

\* An answer that does not fit ends the trajectory, its images are dropped too.
ToolsAnswer(t) ==
    /\ at[t] = "tools"
    /\ \E texts \in ToolTexts :
         IF Len(mask[t]) + Len(texts) >= ResponseLength
         THEN Becomes(t, "terminated") /\ UNCHANGED <<response, mask, logprobs, images, userTurns>>
         ELSE /\ Extend(t, Says("tool", texts), FALSE)
              /\ images' = [images EXCEPT ![t] = @ + ImagesIn(Says("tool", texts))]
              /\ Counted(userTurns, t)
              /\ Becomes(t, "generating")
    /\ Goes(t, "head")
    /\ UNCHANGED <<assistantTurns, first, passed, server, control, out>>

\* The answer of the interaction is added whatever its length.
InteractionAnswers(t) ==
    /\ at[t] = "user"
    /\ \E texts \in UserTexts : Extend(t, Says("user", texts), FALSE)
    /\ \E s \in {"generating", "terminated"} : Becomes(t, s)
    /\ Counted(userTurns, t)
    /\ Goes(t, "head")
    /\ UNCHANGED <<images, assistantTurns, first, passed, server, control, out>>

Run(t) ==
    \/ Interrupt(t) \/ Pending(t) \/ Await(t) \/ Accept(t) \/ EngineStep(t) \/ Replied(t)
    \/ HandleFragment(t) \/ HandleMessage(t) \/ ToolsAnswer(t) \/ InteractionAnswers(t)
    \/ Complete(t)

(* --------------------- pause, synchronisation, resume ---------------------- *)

\* FullyAsyncAgentLoopManager.cancel and resume call the server and the worker
\* at once.
Calls == {"server", "worker"}

Pause ==
    /\ phase = "run" /\ version < MaxVersion
    /\ phase' = "cancel" /\ pending' = Calls
    /\ UNCHANGED <<at, agent, first, passed, server, paused, cancelled, version, out>>

CancelServer ==
    /\ phase = "cancel" /\ "server" \in pending
    /\ paused' = TRUE
    /\ asked' = {t \in Trajectories : at[t] = "engine"}
    /\ pending' = pending \ {"server"}
    /\ UNCHANGED <<at, agent, first, passed, reqOutput, cut, cancelled, phase, version, out>>

CancelWorker ==
    /\ phase = "cancel" /\ "worker" \in pending
    /\ cancelled' = TRUE
    /\ pending' = pending \ {"worker"}
    /\ UNCHANGED <<at, agent, first, passed, server, paused, phase, version, out>>

\* pause() has gathered the tasks and returns.
Gathered ==
    /\ phase = "cancel" /\ pending = {}
    /\ \A t \in Trajectories : at[t] \in {"out", "done"}
    /\ phase' = "synchronise"
    /\ UNCHANGED <<at, agent, first, passed, server, paused, cancelled, pending, version, out>>

\* The weights are replaced and update_param_version is called.
NewVersion ==
    /\ phase = "synchronise"
    /\ version' = version + 1
    /\ phase' = "resume" /\ pending' = Calls
    /\ UNCHANGED <<at, agent, first, passed, server, paused, cancelled, out>>

ResumeServer ==
    /\ phase = "resume" /\ "server" \in pending
    /\ paused' = FALSE
    /\ pending' = pending \ {"server"}
    /\ UNCHANGED <<at, agent, first, passed, server, cancelled, phase, version, out>>

ResumeWorker ==
    /\ phase = "resume" /\ "worker" \in pending
    /\ cancelled' = FALSE
    /\ pending' = pending \ {"worker"}
    /\ UNCHANGED <<at, agent, first, passed, server, paused, phase, version, out>>

Resumed ==
    /\ phase = "resume" /\ pending = {}
    /\ phase' = "run"
    /\ UNCHANGED <<at, agent, first, passed, server, paused, cancelled, pending, version, out>>

Synchroniser ==
    \/ CancelServer \/ CancelWorker \/ Gathered
    \/ NewVersion \/ ResumeServer \/ ResumeWorker \/ Resumed

Next ==
    \/ \E t \in Trajectories : Start(t) \/ Run(t)
    \/ Pause \/ Synchroniser

\* The event loops and the synchroniser go on. Nobody has to pause, and the
\* Rollouter need not submit an interrupted sample again (FullyAsync shows when).
Fairness == WF_vars(Synchroniser) /\ \A t \in Trajectories : WF_vars(Run(t))

Spec == Init /\ [][Next]_vars /\ Fairness

(* -------------------------------- properties ------------------------------- *)

\* However often a trajectory was interrupted, its output is a training sample:
\* the mask marks the model's tokens and no others, they have log-probabilities,
\* and the images are those that the tokens speak of.
OutputsMatch == \A t \in Trajectories : at[t] = "done" =>
    LET o == out[t]
    IN  /\ Len(o.ids) \in 1 .. ResponseLength /\ DOMAIN o.mask = DOMAIN o.ids
        /\ DOMAIN o.logprobs = DOMAIN o.ids
        /\ \A i \in DOMAIN o.ids :
             /\ o.mask[i] = 1 <=> o.ids[i].by = "model"
             /\ o.logprobs[i] = "p" <=> o.ids[i].by = "model"
        /\ o.images = ImagesIn(o.ids)

\* No token is computed while the weights are replaced, the versions along a
\* response only grow, and the versions an output records enclose those of its
\* tokens, but for one: a run that the monitor started early, before the new
\* version was known, may generate with it.
VersionsRecorded ==
    /\ phase = "synchronise" => \A t \in Trajectories : at[t] # "engine"
    /\ \A t \in Trajectories : \A i, j \in DOMAIN response[t] :
          i < j => response[t][i].version <= response[t][j].version
    /\ \A t \in Trajectories : at[t] = "done" =>
          \A i \in DOMAIN out[t].ids : out[t].ids[i].version \in out[t].first .. out[t].last + 1

\* A call that the loop passes over, with room left and no limit on turns, was
\* split by an interruption: its message has tokens of an older version.
CallsSeen == [][\A t \in Trajectories :
    LET s == response'[t]
        n == Len(s)
    IN  at[t] = "reply" /\ at'[t] = "head" /\ ~cut[t] /\ state'[t] # "tools" /\ n < ResponseLength /\ ~TurnsUsedUp(t)
          => ~ \E i, j \in 1 .. n : i < j /\ s[i].text = "<" /\ s[j].text = ">"
                 /\ \A k \in i .. n : s[k].by = "model" /\ s[k].version = s[n].version]_vars

\* pause() ends, as every trajectory sees the cancellation or comes to its end,
\* and so does every run, paused or not: no trajectory talks for ever.
PauseEnds ==
    /\ phase = "cancel" ~> phase # "cancel"
    /\ \A t \in Trajectories : at[t] = "head" ~> at[t] \in {"out", "done"}

\* The turns of a trajectory: an interrupted message is no turn yet.
WholeTurns(t) ==
    LET others == {i \in DOMAIN response[t] : response[t][i].by # "model"}
    IN  IF state[t] # "generating" THEN response[t]
        ELSE SubSeq(response[t], 1, IF others = {} THEN 0 ELSE Max(others))

Rollout == INSTANCE AgentTurns WITH
    talk <- [t \in Trajectories |-> WholeTurns(t)],
    ended <- {t \in Trajectories : state[t] = "terminated"}
\* An interruption cannot be told from the turns of a trajectory: the loop acts
\* like one that is never interrupted, except that it may overlook a call.
ImplementsAgentTurns == Rollout!TSpec
===============================================================================
