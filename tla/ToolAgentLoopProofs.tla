-------------------------- MODULE ToolAgentLoopProofs --------------------------
(***************************************************************************)
(* What the interruptible agent loop guarantees for any number of          *)
(* trajectories, weight versions and any limits on length and turns:       *)
(* completed outputs are training samples (OutputsMatch), their versions   *)
(* are those of their tokens (VersionsRecorded), a call is overlooked only *)
(* when an interruption split it (CallsSeen), and an interruption cannot   *)
(* be told from the turns (ImplementsAgentTurns).                          *)
(***************************************************************************)
EXTENDS ToolAgentLoop, SequenceTheorems, FiniteSetTheorems, WellFoundedInduction, NaturalsInduction, TLAPS

-------------------------------------------------------------------------------
(* Types.                                                                     *)

\* The tokens of the model, where a coroutine can be and the states of the machine.
Texts == {"<", ">", "i", "r", "u"}
Tokens == [by : {"model", "tool", "user"}, text : Texts, version : Nat]
Places == {"out", "head", "request", "engine", "reply", "tools", "user", "done"}
States == {"new", "pending", "generating", "tools", "interacting", "terminated"}

\* Type correctness: the trajectories, ...
AgentType ==
  /\ at \in [Trajectories -> Places] /\ state \in [Trajectories -> States]
  /\ response \in [Trajectories -> Seq(Tokens)]
  /\ mask \in [Trajectories -> Seq({0, 1})] /\ logprobs \in [Trajectories -> Seq({"p", "0"})]
  /\ images \in [Trajectories -> Nat]
  /\ assistantTurns \in [Trajectories -> Nat] /\ userTurns \in [Trajectories -> Nat]
  /\ first \in [Trajectories -> Nat] /\ passed \in [Trajectories -> Nat]

\* ... the requests at the server, ...
ServerType ==
  /\ reqOutput \in [Trajectories -> Seq(Tokens)] /\ cut \in [Trajectories -> BOOLEAN]
  /\ asked \subseteq Trajectories

\* ... and the synchronisation.
ControlType ==
  /\ paused \in BOOLEAN /\ cancelled \in BOOLEAN
  /\ phase \in {"run", "cancel", "synchronise", "resume"} /\ pending \subseteq Calls
  /\ version \in Nat
  /\ DOMAIN out = Trajectories
TypeOK == AgentType /\ ServerType /\ ControlType

\* The members of a concatenation.
LEMMA Joined ==
  ASSUME NEW S, NEW a \in Seq(S), NEW b \in Seq(S)
  PROVE  LET c == a \o b IN
         /\ c \in Seq(S) /\ Len(a) \in Nat /\ Len(b) \in Nat /\ Len(c) = Len(a) + Len(b)
         /\ \A i \in 1 .. Len(a) : c[i] = a[i]
         /\ \A i \in Len(a) + 1 .. Len(a) + Len(b) : i - Len(a) \in 1 .. Len(b) /\ c[i] = b[i - Len(a)]
<1> DEFINE c == a \o b
<1>1. c \in Seq(S) /\ Len(c) = Len(a) + Len(b) /\ Len(a) \in Nat /\ Len(b) \in Nat
  BY ConcatProperties, LenProperties
<1>2. \A i \in 1 .. Len(a) + Len(b) : c[i] = IF i <= Len(a) THEN a[i] ELSE b[i - Len(a)]
  BY ConcatProperties
<1> HIDE DEF c
<1>3. \A i \in 1 .. Len(a) : i \in 1 .. Len(a) + Len(b) /\ i <= Len(a)
  BY <1>1
<1>4. \A i \in Len(a) + 1 .. Len(a) + Len(b) :
        i \in 1 .. Len(a) + Len(b) /\ ~(i <= Len(a)) /\ i - Len(a) \in 1 .. Len(b)
  BY <1>1
<1> QED BY <1>1, <1>2, <1>3, <1>4 DEF c

\* A function one of whose sequences has grown.
LEMMA Extended ==
  ASSUME NEW S, NEW f \in [Trajectories -> Seq(S)], NEW g, NEW t \in Trajectories, NEW b \in Seq(S),
         g = [f EXCEPT ![t] = @ \o b]
  PROVE  /\ g \in [Trajectories -> Seq(S)]
         /\ Len(f[t]) \in Nat /\ Len(b) \in Nat /\ Len(g[t]) = Len(f[t]) + Len(b)
         /\ \A i \in 1 .. Len(f[t]) : g[t][i] = f[t][i]
         /\ \A i \in Len(f[t]) + 1 .. Len(g[t]) : i - Len(f[t]) \in 1 .. Len(b) /\ g[t][i] = b[i - Len(f[t])]
         /\ \A u \in Trajectories : u # t => g[u] = f[u]
<1> DEFINE c == f[t] \o b
<1>1. g = [f EXCEPT ![t] = c]
  OBVIOUS
<1>2. /\ c \in Seq(S) /\ Len(f[t]) \in Nat /\ Len(b) \in Nat /\ Len(c) = Len(f[t]) + Len(b)
      /\ \A i \in 1 .. Len(f[t]) : c[i] = f[t][i]
      /\ \A i \in Len(f[t]) + 1 .. Len(f[t]) + Len(b) : i - Len(f[t]) \in 1 .. Len(b) /\ c[i] = b[i - Len(f[t])]
  BY Joined
<1> HIDE DEF c
<1>3. g \in [Trajectories -> Seq(S)] /\ g[t] = c /\ \A u \in Trajectories : u # t => g[u] = f[u]
  BY <1>1, <1>2
<1> QED BY <1>2, <1>3

\* The mask and the log-probabilities that Extend adds.
Bits(ids, byModel) == [i \in DOMAIN ids |-> IF byModel THEN 1 ELSE 0]
Probs(ids, byModel) == [i \in DOMAIN ids |-> IF byModel THEN "p" ELSE "0"]

\* They are as long as the tokens, and say whether the model wrote them.
LEMMA MarksType ==
  ASSUME NEW ids \in Seq(Tokens), NEW b \in BOOLEAN
  PROVE  /\ Bits(ids, b) \in Seq({0, 1}) /\ Len(Bits(ids, b)) = Len(ids)
         /\ Probs(ids, b) \in Seq({"p", "0"}) /\ Len(Probs(ids, b)) = Len(ids)
         /\ \A i \in 1 .. Len(ids) : (Bits(ids, b)[i] = 1 <=> b) /\ (Probs(ids, b)[i] = "p" <=> b)
<1>1. DOMAIN ids = 1 .. Len(ids) /\ Len(ids) \in Nat
  BY LenProperties
<1>2. \A i \in 1 .. Len(ids) : Bits(ids, b)[i] = (IF b THEN 1 ELSE 0) /\ Probs(ids, b)[i] = (IF b THEN "p" ELSE "0")
  BY <1>1 DEF Bits, Probs
<1>3. Bits(ids, b) \in [1 .. Len(ids) -> {0, 1}] /\ Probs(ids, b) \in [1 .. Len(ids) -> {"p", "0"}]
  BY <1>1 DEF Bits, Probs
<1>4. Bits(ids, b) \in Seq({0, 1}) /\ Len(Bits(ids, b)) = Len(ids)
  BY <1>1, <1>3
<1>5. Probs(ids, b) \in Seq({"p", "0"}) /\ Len(Probs(ids, b)) = Len(ids)
  BY <1>1, <1>3
<1>6. \A i \in 1 .. Len(ids) : (Bits(ids, b)[i] = 1 <=> b) /\ (Probs(ids, b)[i] = "p" <=> b)
  BY <1>2
<1> QED BY <1>4, <1>5, <1>6

\* The mask m and the log-probabilities p of r mark what the model wrote.
Marked(r, m, p) ==
  /\ Len(m) = Len(r) /\ Len(p) = Len(r)
  /\ \A i \in 1 .. Len(r) : (m[i] = 1 <=> r[i].by = "model") /\ (p[i] = "p" <=> r[i].by = "model")

\* What Extend does to a response; a marked response stays marked.
LEMMA ExtendType ==
  ASSUME TypeOK, NEW t \in Trajectories, NEW ids \in Seq(Tokens), NEW b \in BOOLEAN, Extend(t, ids, b)
  PROVE  /\ response' \in [Trajectories -> Seq(Tokens)]
         /\ mask' \in [Trajectories -> Seq({0, 1})] /\ logprobs' \in [Trajectories -> Seq({"p", "0"})]
         /\ Len(response[t]) \in Nat /\ Len(ids) \in Nat /\ Len(response'[t]) = Len(response[t]) + Len(ids)
         /\ \A i \in 1 .. Len(response[t]) : response'[t][i] = response[t][i]
         /\ \A i \in Len(response[t]) + 1 .. Len(response'[t]) :
              i - Len(response[t]) \in 1 .. Len(ids) /\ response'[t][i] = ids[i - Len(response[t])]
         /\ \A u \in Trajectories : u # t => response'[u] = response[u] /\ mask'[u] = mask[u] /\ logprobs'[u] = logprobs[u]
         /\ Marked(response[t], mask[t], logprobs[t]) /\ (\A i \in 1 .. Len(ids) : ids[i].by = "model" <=> b)
              => Marked(response'[t], mask'[t], logprobs'[t])
<1> DEFINE m == Bits(ids, b)
           p == Probs(ids, b)
<1>1. /\ response' = [response EXCEPT ![t] = @ \o ids] /\ mask' = [mask EXCEPT ![t] = @ \o m]
      /\ logprobs' = [logprobs EXCEPT ![t] = @ \o p]
  BY DEF Extend, Bits, Probs
<1>2. /\ m \in Seq({0, 1}) /\ Len(m) = Len(ids) /\ p \in Seq({"p", "0"}) /\ Len(p) = Len(ids)
      /\ \A i \in 1 .. Len(ids) : (m[i] = 1 <=> b) /\ (p[i] = "p" <=> b)
  BY MarksType
<1> HIDE DEF m, p
<1>3. /\ response' \in [Trajectories -> Seq(Tokens)]
      /\ Len(response[t]) \in Nat /\ Len(ids) \in Nat /\ Len(response'[t]) = Len(response[t]) + Len(ids)
      /\ \A i \in 1 .. Len(response[t]) : response'[t][i] = response[t][i]
      /\ \A i \in Len(response[t]) + 1 .. Len(response'[t]) :
           i - Len(response[t]) \in 1 .. Len(ids) /\ response'[t][i] = ids[i - Len(response[t])]
      /\ \A u \in Trajectories : u # t => response'[u] = response[u]
  BY <1>1, Extended DEF TypeOK, AgentType
<1>4. /\ mask' \in [Trajectories -> Seq({0, 1})] /\ Len(mask'[t]) = Len(mask[t]) + Len(m)
      /\ \A i \in 1 .. Len(mask[t]) : mask'[t][i] = mask[t][i]
      /\ \A i \in Len(mask[t]) + 1 .. Len(mask'[t]) : mask'[t][i] = m[i - Len(mask[t])]
      /\ \A u \in Trajectories : u # t => mask'[u] = mask[u]
  <2> DEFINE M == {0, 1}
  <2>1. mask \in [Trajectories -> Seq(M)] /\ m \in Seq(M) /\ mask' = [mask EXCEPT ![t] = @ \o m]
    BY <1>1, <1>2 DEF TypeOK, AgentType
  <2> HIDE DEF M
  <2>2. /\ mask' \in [Trajectories -> Seq(M)] /\ Len(mask'[t]) = Len(mask[t]) + Len(m)
        /\ \A i \in 1 .. Len(mask[t]) : mask'[t][i] = mask[t][i]
        /\ \A i \in Len(mask[t]) + 1 .. Len(mask'[t]) : mask'[t][i] = m[i - Len(mask[t])]
        /\ \A u \in Trajectories : u # t => mask'[u] = mask[u]
    BY <2>1, Extended
  <2> QED BY <2>2 DEF M
<1>5. /\ logprobs' \in [Trajectories -> Seq({"p", "0"})] /\ Len(logprobs'[t]) = Len(logprobs[t]) + Len(p)
      /\ \A i \in 1 .. Len(logprobs[t]) : logprobs'[t][i] = logprobs[t][i]
      /\ \A i \in Len(logprobs[t]) + 1 .. Len(logprobs'[t]) : logprobs'[t][i] = p[i - Len(logprobs[t])]
      /\ \A u \in Trajectories : u # t => logprobs'[u] = logprobs[u]
  <2> DEFINE P == {"p", "0"}
  <2>1. logprobs \in [Trajectories -> Seq(P)] /\ p \in Seq(P) /\ logprobs' = [logprobs EXCEPT ![t] = @ \o p]
    BY <1>1, <1>2 DEF TypeOK, AgentType
  <2> HIDE DEF P
  <2>2. /\ logprobs' \in [Trajectories -> Seq(P)] /\ Len(logprobs'[t]) = Len(logprobs[t]) + Len(p)
        /\ \A i \in 1 .. Len(logprobs[t]) : logprobs'[t][i] = logprobs[t][i]
        /\ \A i \in Len(logprobs[t]) + 1 .. Len(logprobs'[t]) : logprobs'[t][i] = p[i - Len(logprobs[t])]
        /\ \A u \in Trajectories : u # t => logprobs'[u] = logprobs[u]
    BY <2>1, Extended
  <2> QED BY <2>2 DEF P
<1>6. ASSUME Marked(response[t], mask[t], logprobs[t]), \A i \in 1 .. Len(ids) : ids[i].by = "model" <=> b
      PROVE  Marked(response'[t], mask'[t], logprobs'[t])
  <2>1. /\ Len(mask[t]) = Len(response[t]) /\ Len(logprobs[t]) = Len(response[t])
        /\ \A i \in 1 .. Len(response[t]) : /\ mask[t][i] = 1 <=> response[t][i].by = "model"
                                            /\ logprobs[t][i] = "p" <=> response[t][i].by = "model"
    BY <1>6 DEF Marked
  <2>2. Len(mask'[t]) = Len(response'[t]) /\ Len(logprobs'[t]) = Len(response'[t])
    BY <1>2, <1>3, <1>4, <1>5, <2>1
  <2>3. ASSUME NEW i \in 1 .. Len(response[t])
        PROVE  /\ mask'[t][i] = 1 <=> response'[t][i].by = "model"
               /\ logprobs'[t][i] = "p" <=> response'[t][i].by = "model"
    <3>1. mask'[t][i] = mask[t][i] /\ logprobs'[t][i] = logprobs[t][i] /\ response'[t][i] = response[t][i]
      BY <1>3, <1>4, <1>5, <2>1
    <3> QED BY <2>1, <3>1
  <2>4. ASSUME NEW i \in Len(response[t]) + 1 .. Len(response'[t])
        PROVE  /\ mask'[t][i] = 1 <=> response'[t][i].by = "model"
               /\ logprobs'[t][i] = "p" <=> response'[t][i].by = "model"
    <3> DEFINE j == i - Len(response[t])
    <3>1. j \in 1 .. Len(ids) /\ mask'[t][i] = m[j] /\ logprobs'[t][i] = p[j] /\ response'[t][i] = ids[j]
      BY <1>3, <1>4, <1>5, <2>1, <2>2
    <3> HIDE DEF j
    <3> QED BY <1>2, <1>6, <3>1
  <2>5. \A i \in 1 .. Len(response'[t]) : i \in 1 .. Len(response[t]) \/ i \in Len(response[t]) + 1 .. Len(response'[t])
    BY <1>3
  <2> QED BY <2>2, <2>3, <2>4, <2>5 DEF Marked
<1> QED BY <1>3, <1>4, <1>5, <1>6

\* The trajectories start with empty responses.
LEMMA TypeInit == Init => TypeOK
<1> SUFFICES ASSUME Init PROVE TypeOK
  OBVIOUS
<1>1. AgentType
  BY DEF Init, AgentType, Places, States
<1>2. ServerType
  BY DEF Init, ServerType
<1>3. ControlType
  <2>1. DOMAIN out = Trajectories
    BY DEF Init
  <2> QED BY <2>1 DEF Init, ControlType
<1> QED BY <1>1, <1>2, <1>3 DEF TypeOK

\* What the model, the tools and the user say are tokens.
LEMMA TokenType ==
  ASSUME TypeOK
  PROVE  /\ \A x \in {"<", ">"} : Token(x) \in Tokens
         /\ \A texts \in ToolTexts : Says("tool", texts) \in Seq(Tokens) /\ Len(Says("tool", texts)) = Len(texts)
         /\ \A texts \in UserTexts : Says("user", texts) \in Seq(Tokens) /\ Len(Says("user", texts)) = Len(texts)
<1>1. version \in Nat
  BY DEF TypeOK, ControlType
<1>2. \A x \in {"<", ">"} : Token(x) \in Tokens
  BY <1>1 DEF Token, Tokens, Texts
<1>3. \A texts \in ToolTexts \cup UserTexts : texts \in Seq(Texts) /\ Len(texts) >= 1
  <2>1. \A x \in Texts : << x >> \in Seq(Texts) /\ Len(<< x >>) = 1 /\ << x, x >> \in Seq(Texts) /\ Len(<< x, x >>) = 2
    OBVIOUS
  <2>2. {"r", "i", "u"} \subseteq Texts
    BY DEF Texts
  <2>3. \A texts \in ToolTexts \cup UserTexts : \E x \in {"r", "i", "u"} : texts = << x >> \/ texts = << x, x >>
    BY DEF ToolTexts, UserTexts
  <2>4. ASSUME NEW texts \in ToolTexts \cup UserTexts PROVE texts \in Seq(Texts) /\ Len(texts) >= 1
    <3>1. PICK x \in Texts : texts = << x >> \/ texts = << x, x >>
      BY <2>2, <2>3
    <3>2. CASE texts = << x >>
      BY <2>1, <3>2
    <3>3. CASE texts = << x, x >>
      BY <2>1, <3>3
    <3> QED BY <3>1, <3>2, <3>3
  <2> QED BY <2>4
<1>4. ASSUME NEW texts \in Seq(Texts), NEW x \in {"tool", "user"}
      PROVE  Says(x, texts) \in Seq(Tokens) /\ Len(Says(x, texts)) = Len(texts)
  <2>1. DOMAIN texts = 1 .. Len(texts) /\ Len(texts) \in Nat /\ \A i \in 1 .. Len(texts) : texts[i] \in Texts
    BY LenProperties, ElementOfSeq
  <2>2. Says(x, texts) \in [1 .. Len(texts) -> Tokens]
    BY <1>1, <2>1 DEF Says, Tokens
  <2> QED BY <2>1, <2>2
<1> QED BY <1>2, <1>3, <1>4

\* A step leaves what belongs to trajectory u as it is, its cancel_event too.
Own(u) ==
  /\ at'[u] = at[u] /\ state'[u] = state[u] /\ response'[u] = response[u]
  /\ mask'[u] = mask[u] /\ logprobs'[u] = logprobs[u] /\ images'[u] = images[u]
  /\ first'[u] = first[u] /\ passed'[u] = passed[u]
  /\ reqOutput'[u] = reqOutput[u] /\ cut'[u] = cut[u]
  /\ out'[u] = out[u]
Same(u) == Own(u) /\ (u \in asked' <=> u \in asked)

\* A step of trajectory t keeps the types and leaves the others alone: its start, ...
LEMMA StartType ==
  ASSUME TypeOK, NEW t \in Trajectories, Start(t)
  PROVE  TypeOK' /\ UNCHANGED control /\ \A u \in Trajectories : u # t => Same(u)
<1>1. AgentType'
  BY DEF Start, TypeOK, AgentType, ControlType, Becomes, Goes, Places, States
<1>2. ServerType' /\ ControlType' /\ UNCHANGED control
  BY DEF Start, TypeOK, ServerType, ControlType, server, control
<1>3. ASSUME NEW u \in Trajectories, u # t PROVE Same(u)
  BY <1>3 DEF Start, TypeOK, AgentType, ServerType, Becomes, Goes, server, Same, Own
<1> QED BY <1>1, <1>2, <1>3 DEF TypeOK

\* ... a step that adds no token, ...
LEMMA MoveType ==
  ASSUME TypeOK, NEW t \in Trajectories, Interrupt(t) \/ Pending(t) \/ Await(t) \/ Accept(t) \/ Replied(t) \/ Complete(t)
  PROVE  TypeOK' /\ UNCHANGED control /\ \A u \in Trajectories : u # t => Same(u)
<1>1. AgentType'
  BY DEF Interrupt, Pending, Await, Accept, Replied, Complete, TypeOK, AgentType, Becomes, Goes, Places, States, agent
<1>2. ServerType'
  <2>1. CASE Accept(t)
    <3>1. << >> \in Seq(Tokens) /\ Refuses(t) \in BOOLEAN
      BY DEF Refuses, TypeOK, ControlType
    <3> QED BY <2>1, <3>1 DEF Accept, TypeOK, ServerType
  <2>2. CASE Replied(t)
    BY <2>2 DEF Replied, TypeOK, ServerType
  <2>3. CASE Interrupt(t) \/ Pending(t) \/ Await(t) \/ Complete(t)
    BY <2>3 DEF Interrupt, Pending, Await, Complete, server, TypeOK, ServerType
  <2> QED BY <2>1, <2>2, <2>3
<1>3. ControlType' /\ UNCHANGED control
  BY DEF Interrupt, Pending, Await, Accept, Replied, Complete, TypeOK, ControlType, control
<1>4. ASSUME NEW u \in Trajectories, u # t PROVE Same(u)
  <2>1. CASE Interrupt(t) \/ Pending(t) \/ Await(t)
    BY <1>4, <2>1
        DEF Interrupt, Pending, Await, TypeOK, AgentType, ServerType, Becomes, Goes, server, agent,
            Same, Own
  <2>2. CASE Accept(t) \/ Replied(t)
    BY <1>4, <2>2 DEF Accept, Replied, TypeOK, AgentType, ServerType, Becomes, Goes, server, agent, Same, Own
  <2>3. CASE Complete(t)
    BY <1>4, <2>3 DEF Complete, TypeOK, AgentType, ServerType, ControlType, Becomes, Goes, server, agent, Same, Own
  <2> QED BY <2>1, <2>2, <2>3
<1> QED BY <1>1, <1>2, <1>3, <1>4 DEF TypeOK

\* ... the engine's next token, ...
LEMMA EngineStepType ==
  ASSUME TypeOK, NEW t \in Trajectories, EngineStep(t)
  PROVE  TypeOK' /\ UNCHANGED control /\ \A u \in Trajectories : u # t => Same(u)
<1>1. PICK x \in {"<", ">"} : reqOutput' = [reqOutput EXCEPT ![t] = Append(@, Token(x))]
  BY DEF EngineStep
<1> DEFINE a == Append(reqOutput[t], Token(x))
<1>2. a \in Seq(Tokens)
  BY TokenType, AppendProperties DEF TypeOK, ServerType
<1>3. reqOutput' = [reqOutput EXCEPT ![t] = a]
  BY <1>1
<1> HIDE DEF a
<1>4. AgentType' /\ ControlType' /\ UNCHANGED control
  BY DEF EngineStep, TypeOK, AgentType, ControlType, agent, control
<1>5. ServerType'
  BY <1>2, <1>3 DEF EngineStep, TypeOK, ServerType
<1>6. ASSUME NEW u \in Trajectories, u # t PROVE Same(u)
  BY <1>3, <1>6 DEF EngineStep, TypeOK, ServerType, agent, Same, Own
<1> QED BY <1>4, <1>5, <1>6 DEF TypeOK

\* ... the handling of a reply, ...
LEMMA HandleType ==
  ASSUME TypeOK, NEW t \in Trajectories, HandleFragment(t) \/ HandleMessage(t)
  PROVE  TypeOK' /\ UNCHANGED control /\ \A u \in Trajectories : u # t => Same(u)
<1>1. Extend(t, reqOutput[t], TRUE) /\ reqOutput[t] \in Seq(Tokens)
  BY DEF HandleFragment, HandleMessage, TypeOK, ServerType
<1>2. /\ response' \in [Trajectories -> Seq(Tokens)]
      /\ mask' \in [Trajectories -> Seq({0, 1})] /\ logprobs' \in [Trajectories -> Seq({"p", "0"})]
      /\ \A u \in Trajectories : u # t => response'[u] = response[u] /\ mask'[u] = mask[u] /\ logprobs'[u] = logprobs[u]
  BY <1>1, ExtendType
<1>3. \E s \in States : state' = [state EXCEPT ![t] = s] \/ state' = state
  BY DEF HandleFragment, HandleMessage, Becomes, NextState, States
<1>4. state' \in [Trajectories -> States] /\ \A u \in Trajectories : u # t => state'[u] = state[u]
  BY <1>3 DEF TypeOK, AgentType
<1>5. assistantTurns' \in [Trajectories -> Nat]
  <2>1. assistantTurns' = [assistantTurns EXCEPT ![t] = @ + 1] \/ assistantTurns' = assistantTurns
    BY DEF HandleFragment, HandleMessage, Counted
  <2>2. assistantTurns[t] + 1 \in Nat /\ assistantTurns \in [Trajectories -> Nat]
    BY DEF TypeOK, AgentType
  <2> QED BY <2>1, <2>2
<1>6. /\ at' = [at EXCEPT ![t] = "head"] /\ reqOutput' = [reqOutput EXCEPT ![t] = << >>]
      /\ UNCHANGED << images, userTurns, first, passed, cut, asked, control, out >>
  BY DEF HandleFragment, HandleMessage, Goes
<1>7. AgentType'
  BY <1>2, <1>4, <1>5, <1>6 DEF TypeOK, AgentType, Places
<1>8. ServerType' /\ ControlType'
  BY <1>6 DEF TypeOK, ServerType, ControlType, control
<1>9. ASSUME NEW u \in Trajectories, u # t PROVE Same(u)
  BY <1>2, <1>4, <1>6, <1>9 DEF TypeOK, AgentType, ServerType, Same, Own
<1> QED BY <1>6, <1>7, <1>8, <1>9 DEF TypeOK

\* ... the answer of the tools, ...
LEMMA ToolsType ==
  ASSUME TypeOK, NEW t \in Trajectories, ToolsAnswer(t)
  PROVE  TypeOK' /\ UNCHANGED control /\ \A u \in Trajectories : u # t => Same(u)
<1>1. PICK texts \in ToolTexts :
         IF Len(mask[t]) + Len(texts) >= ResponseLength
         THEN Becomes(t, "terminated") /\ UNCHANGED << response, mask, logprobs, images, userTurns >>
         ELSE /\ Extend(t, Says("tool", texts), FALSE)
              /\ images' = [images EXCEPT ![t] = @ + ImagesIn(Says("tool", texts))]
              /\ Counted(userTurns, t)
              /\ Becomes(t, "generating")
  BY DEF ToolsAnswer
<1>2. /\ at' = [at EXCEPT ![t] = "head"]
      /\ UNCHANGED << assistantTurns, first, passed, server, control, out >>
  BY DEF ToolsAnswer, Goes
<1>3. ServerType' /\ ControlType'
  BY <1>2 DEF TypeOK, ServerType, ControlType, control, server
<1>4. CASE Len(mask[t]) + Len(texts) >= ResponseLength
  <2>1. AgentType'
    BY <1>1, <1>2, <1>4 DEF TypeOK, AgentType, Becomes, Places, States
  <2>2. ASSUME NEW u \in Trajectories, u # t PROVE Same(u)
    BY <1>1, <1>2, <1>4, <2>2 DEF TypeOK, AgentType, Becomes, server, Same, Own
  <2> QED BY <1>2, <1>3, <2>1, <2>2 DEF TypeOK
<1>5. CASE ~(Len(mask[t]) + Len(texts) >= ResponseLength)
  <2> DEFINE ids == Says("tool", texts)
  <2>1. ids \in Seq(Tokens)
    BY TokenType
  <2>2. Extend(t, ids, FALSE) /\ images' = [images EXCEPT ![t] = @ + ImagesIn(ids)]
        /\ Counted(userTurns, t) /\ Becomes(t, "generating")
    BY <1>1, <1>5
  <2>3. ImagesIn(ids) \in Nat
    <3>1. {i \in DOMAIN ids : ids[i].text = "i"} \subseteq 1 .. Len(ids) /\ Len(ids) \in Nat
      BY <2>1, LenProperties
    <3>2. IsFiniteSet({i \in DOMAIN ids : ids[i].text = "i"})
      BY <3>1, FS_Interval, FS_Subset
    <3> HIDE DEF ids
    <3> QED BY <3>2, FS_CardinalityType DEF ImagesIn
  <2> HIDE DEF ids
  <2>4. /\ response' \in [Trajectories -> Seq(Tokens)]
        /\ mask' \in [Trajectories -> Seq({0, 1})] /\ logprobs' \in [Trajectories -> Seq({"p", "0"})]
        /\ \A u \in Trajectories : u # t => response'[u] = response[u] /\ mask'[u] = mask[u] /\ logprobs'[u] = logprobs[u]
    BY <2>1, <2>2, ExtendType
  <2>5. images' \in [Trajectories -> Nat] /\ \A u \in Trajectories : u # t => images'[u] = images[u]
    BY <2>2, <2>3 DEF TypeOK, AgentType
  <2>6. AgentType'
    <3>1. at' \in [Trajectories -> Places] /\ state' \in [Trajectories -> States]
      BY <1>2, <2>2 DEF TypeOK, AgentType, Becomes, Places, States
    <3>2. userTurns' \in [Trajectories -> Nat]
      BY <2>2 DEF TypeOK, AgentType, Counted
    <3>3. /\ assistantTurns' \in [Trajectories -> Nat]
          /\ first' \in [Trajectories -> Nat] /\ passed' \in [Trajectories -> Nat]
      BY <1>2 DEF TypeOK, AgentType
    <3> QED BY <2>4, <2>5, <3>1, <3>2, <3>3 DEF AgentType
  <2>7. ASSUME NEW u \in Trajectories, u # t PROVE Same(u)
    BY <1>2, <2>2, <2>4, <2>5, <2>7 DEF TypeOK, AgentType, Becomes, server, Same, Own
  <2> QED BY <1>2, <1>3, <2>6, <2>7 DEF TypeOK
<1> QED BY <1>4, <1>5

\* ... and the answer of the interaction.
LEMMA InteractionType ==
  ASSUME TypeOK, NEW t \in Trajectories, InteractionAnswers(t)
  PROVE  TypeOK' /\ UNCHANGED control /\ \A u \in Trajectories : u # t => Same(u)
<1>1. PICK texts \in UserTexts : Extend(t, Says("user", texts), FALSE)
  BY DEF InteractionAnswers
<1>2. /\ at' = [at EXCEPT ![t] = "head"] /\ userTurns' = [userTurns EXCEPT ![t] = @ + 1]
      /\ \E s \in {"generating", "terminated"} : state' = [state EXCEPT ![t] = s]
      /\ UNCHANGED << images, assistantTurns, first, passed, server, control, out >>
  BY DEF InteractionAnswers, Goes, Counted, Becomes
<1>3. ServerType' /\ ControlType'
  BY <1>2 DEF TypeOK, ServerType, ControlType, control, server
<1>4. Says("user", texts) \in Seq(Tokens)
  BY TokenType
<1>5. /\ response' \in [Trajectories -> Seq(Tokens)]
      /\ mask' \in [Trajectories -> Seq({0, 1})] /\ logprobs' \in [Trajectories -> Seq({"p", "0"})]
      /\ \A u \in Trajectories : u # t => response'[u] = response[u] /\ mask'[u] = mask[u] /\ logprobs'[u] = logprobs[u]
  BY <1>1, <1>4, ExtendType
<1>6. state' \in [Trajectories -> States] /\ \A u \in Trajectories : u # t => state'[u] = state[u]
  BY <1>2 DEF TypeOK, AgentType, States
<1>7. AgentType'
  BY <1>2, <1>5, <1>6 DEF TypeOK, AgentType, Places
<1>8. ASSUME NEW u \in Trajectories, u # t PROVE Same(u)
  BY <1>2, <1>5, <1>6, <1>8 DEF TypeOK, AgentType, server, Same, Own
<1> QED BY <1>2, <1>3, <1>7, <1>8 DEF TypeOK

\* The steps of the trajectories.
LEMMA OneActs ==
  ASSUME TypeOK, NEW t \in Trajectories, Start(t) \/ Run(t)
  PROVE  TypeOK' /\ UNCHANGED control /\ \A u \in Trajectories : u # t => Same(u)
BY StartType, MoveType, EngineStepType, HandleType, ToolsType, InteractionType DEF Run

\* The steps of the synchronisation touch no trajectory.
LEMMA ControlStepType ==
  ASSUME TypeOK, Pause \/ Synchroniser
  PROVE  TypeOK' /\ UNCHANGED << at, agent, first, passed, reqOutput, cut, out >>
<1>1. UNCHANGED << at, agent, first, passed, reqOutput, cut, out >>
  BY DEF Pause, Synchroniser, CancelServer, CancelWorker, Gathered, NewVersion, ResumeServer,
          ResumeWorker, Resumed, server
<1>2. AgentType'
  BY <1>1 DEF TypeOK, AgentType, agent
<1>3. ServerType'
  BY <1>1
      DEF Pause, Synchroniser, CancelServer, CancelWorker, Gathered, NewVersion, ResumeServer,
          ResumeWorker, Resumed, server, TypeOK, ServerType
<1>4. ControlType'
  <2>1. version + 1 \in Nat /\ Calls \subseteq Calls
    BY DEF TypeOK, ControlType
  <2> QED BY <1>1, <2>1
      DEF Pause, Synchroniser, CancelServer, CancelWorker, Gathered, NewVersion, ResumeServer,
          ResumeWorker, Resumed, TypeOK, ControlType
<1> QED BY <1>1, <1>2, <1>3, <1>4 DEF TypeOK

-------------------------------------------------------------------------------
(* Training samples.                                                          *)

\* Where the coroutine of t is agrees with the state of its machine.
InState(t) ==
  /\ at[t] \in {"request", "engine", "reply"} => state[t] = "generating"
  /\ at[t] = "tools" => state[t] = "tools"
  /\ at[t] = "user" => state[t] = "interacting"
  /\ at[t] = "done" => state[t] = "terminated"
  /\ at[t] = "out" => state[t] # "terminated"
  /\ state[t] = "new" => at[t] = "out"

\* The tokens of a request are the model's; a complete message has some.
Request(t) ==
  /\ at[t] \notin {"engine", "reply"} => reqOutput[t] = << >>
  /\ at[t] = "reply" /\ ~cut[t] => reqOutput[t] # << >>
  /\ \A i \in 1 .. Len(reqOutput[t]) : reqOutput[t][i].by = "model" /\ reqOutput[t][i].text \in {"<", ">"}

\* A response is empty before its first message and not after it.
Started(t) ==
  /\ state[t] \in {"new", "pending"} => response[t] = << >>
  /\ state[t] \in {"tools", "interacting", "terminated"} => response[t] # << >>

\* The images are those of the tokens, and none of them is cut off at the end.
Pictures(t) ==
  /\ images[t] = ImagesIn(response[t])
  /\ \A i \in 1 .. Len(response[t]) : response[t][i].text = "i" => i <= ResponseLength

\* A completed output is that of the agent data.
Completed(t) == at[t] = "done" => out[t] = Output(t)

\* Mask and log-probabilities go with the response.
Tokenwise(t) == Marked(response[t], mask[t], logprobs[t])

\* The inductive invariant behind OutputsMatch.
Sample(t) == InState(t) /\ Request(t) /\ Tokenwise(t) /\ Started(t) /\ Pictures(t) /\ Completed(t)

\* It holds of empty responses.
LEMMA SampleInit == Init => \A t \in Trajectories : Sample(t)
<1> SUFFICES ASSUME Init, NEW t \in Trajectories PROVE Sample(t)
  OBVIOUS
<1>1. /\ at[t] = "out" /\ state[t] = "new" /\ reqOutput[t] = << >> /\ response[t] = << >>
      /\ mask[t] = << >> /\ logprobs[t] = << >> /\ images[t] = 0
  BY DEF Init
<1>2. Len(<< >>) = 0 /\ \A i \in 1 .. 0 : FALSE
  OBVIOUS
<1>3. InState(t) /\ Request(t) /\ Tokenwise(t) /\ Started(t) /\ Completed(t)
  BY <1>1, <1>2 DEF InState, Request, Tokenwise, Marked, Started, Completed
<1>4. ImagesIn(response[t]) = 0
  <2>1. {i \in DOMAIN response[t] : response[t][i].text = "i"} = {}
    BY <1>1
  <2> QED BY <2>1, FS_EmptySet DEF ImagesIn
<1> QED BY <1>1, <1>2, <1>3, <1>4 DEF Sample, Pictures

\* A trajectory that does nothing keeps it.
LEMMA SampleKept == \A u \in Trajectories : Own(u) /\ Sample(u) => Sample(u)'
<1> SUFFICES ASSUME NEW u \in Trajectories, Own(u), Sample(u) PROVE Sample(u)'
  OBVIOUS
<1>1. (InState(u) /\ Request(u) /\ Tokenwise(u) /\ Started(u) /\ Pictures(u))'
  BY DEF Own, Sample, InState, Request, Tokenwise, Started, Pictures
<1>2. Output(u)' = Output(u)
  BY DEF Own, Output
<1>3. Completed(u)'
  BY <1>2 DEF Own, Sample, Completed
<1> QED BY <1>1, <1>3 DEF Sample

\* The images among the tokens.
Pics(s) == {i \in DOMAIN s : s[i].text = "i"}

\* They can be counted.
LEMMA PicsFinite ==
  ASSUME NEW s \in Seq(Tokens)
  PROVE  /\ Pics(s) = {i \in 1 .. Len(s) : s[i].text = "i"} /\ IsFiniteSet(Pics(s)) /\ Len(s) \in Nat
         /\ ImagesIn(s) = Cardinality(Pics(s)) /\ ImagesIn(s) \in Nat
<1>1. DOMAIN s = 1 .. Len(s) /\ Len(s) \in Nat
  BY LenProperties
<1>2. Pics(s) \subseteq 1 .. Len(s) /\ IsFiniteSet(1 .. Len(s))
  BY <1>1, FS_Interval DEF Pics
<1>3. IsFiniteSet(Pics(s))
  BY <1>2, FS_Subset
<1> QED BY <1>1, <1>3, FS_CardinalityType DEF Pics, ImagesIn

\* The images of a response that has grown.
LEMMA ImagesAppend ==
  ASSUME NEW a \in Seq(Tokens), NEW b \in Seq(Tokens), NEW c \in Seq(Tokens), Len(c) = Len(a) + Len(b),
         \A i \in 1 .. Len(a) : c[i] = a[i],
         \A i \in Len(a) + 1 .. Len(c) : i - Len(a) \in 1 .. Len(b) /\ c[i] = b[i - Len(a)]
  PROVE  ImagesIn(c) = ImagesIn(a) + ImagesIn(b)
<1> DEFINE k == Len(a)
           f == [i \in Pics(b) |-> i + k]
           B == {i \in k + 1 .. Len(c) : c[i].text = "i"}
<1>1. k \in Nat /\ Len(b) \in Nat
  BY LenProperties
<1>2. \A i \in 1 .. Len(b) : i + k \in k + 1 .. Len(c) /\ (i + k) - k = i
  BY <1>1
<1>3. Pics(b) = {i \in 1 .. Len(b) : b[i].text = "i"} /\ IsFiniteSet(Pics(b))
  BY PicsFinite
<1>4. f \in Bijection(Pics(b), B)
  <2>1. \A i \in Pics(b) : f[i] = i + k /\ f[i] \in B
    BY <1>2, <1>3
  <2>2. \A i, j \in Pics(b) : f[i] = f[j] => i = j
    BY <1>1, <1>3, <2>1
  <2>3. \A i \in B : i - k \in Pics(b) /\ f[i - k] = i
    <3>1. ASSUME NEW i \in B PROVE i - k \in 1 .. Len(b) /\ c[i] = b[i - k] /\ (i - k) + k = i
      BY <1>1
    <3> QED BY <1>3, <2>1, <3>1
  <2>4. f \in [Pics(b) -> B]
    BY <2>1
  <2> HIDE DEF f, B
  <2> QED BY <2>2, <2>3, <2>4 DEF Bijection, Injection, Surjection, IsInjective
<1>5. IsFiniteSet(B) /\ Cardinality(B) = Cardinality(Pics(b))
  BY <1>3, <1>4, FS_Bijection DEF ExistsBijection
<1>6. Pics(c) = Pics(a) \cup B /\ Pics(a) \cap B = {}
  <2>1. Pics(c) = {i \in 1 .. Len(c) : c[i].text = "i"} /\ Pics(a) = {i \in 1 .. k : a[i].text = "i"}
    BY PicsFinite
  <2>2. /\ \A i \in 1 .. Len(c) : i \in 1 .. k \/ i \in k + 1 .. Len(c)
        /\ \A i \in 1 .. k : i \in 1 .. Len(c) /\ i \notin k + 1 .. Len(c)
        /\ \A i \in k + 1 .. Len(c) : i \in 1 .. Len(c)
    BY <1>1
  <2> QED BY <2>1, <2>2
<1>7. IsFiniteSet(Pics(a))
  BY PicsFinite
<1> HIDE DEF B, f, k
<1>8. Cardinality(Pics(c)) = Cardinality(Pics(a)) + Cardinality(B)
  <2>1. Cardinality(Pics(a) \cup B) = Cardinality(Pics(a)) + Cardinality(B) - Cardinality(Pics(a) \cap B)
    BY <1>5, <1>7, FS_Union
  <2>2. Cardinality(Pics(a) \cap B) = 0
    BY <1>6, FS_EmptySet
  <2>3. Cardinality(Pics(a)) \in Nat /\ Cardinality(B) \in Nat
    BY <1>5, <1>7, FS_CardinalityType
  <2>4. Cardinality(Pics(c)) = Cardinality(Pics(a)) + Cardinality(B) - 0
    BY <1>6, <2>1, <2>2
  <2> QED BY <2>3, <2>4
<1> QED BY <1>5, <1>8, PicsFinite

\* Tokens without images.
LEMMA NoImages ==
  ASSUME NEW s \in Seq(Tokens), \A i \in 1 .. Len(s) : s[i].text # "i"
  PROVE  ImagesIn(s) = 0
<1>1. Pics(s) = {}
  BY PicsFinite
<1> QED BY <1>1, PicsFinite, FS_EmptySet

\* Tokens that join the response: the mask goes along, and so do the images, if they
\* are in it.
LEMMA ExtendSample ==
  ASSUME TypeOK, NEW t \in Trajectories, Sample(t), NEW ids \in Seq(Tokens), NEW b \in BOOLEAN, Extend(t, ids, b),
         \A i \in 1 .. Len(ids) : ids[i].by = "model" <=> b,
         images'[t] = images[t] + ImagesIn(ids),
         (\A i \in 1 .. Len(ids) : ids[i].text # "i") \/ Len(response[t]) + Len(ids) <= ResponseLength
  PROVE  Tokenwise(t)' /\ Pictures(t)' /\ (ids # << >> => response'[t] # << >>) /\ (response[t] # << >> => response'[t] # << >>)
<1>1. /\ Len(response[t]) \in Nat /\ Len(ids) \in Nat /\ Len(response'[t]) = Len(response[t]) + Len(ids)
      /\ \A i \in 1 .. Len(response[t]) : response'[t][i] = response[t][i]
      /\ \A i \in Len(response[t]) + 1 .. Len(response'[t]) :
           i - Len(response[t]) \in 1 .. Len(ids) /\ response'[t][i] = ids[i - Len(response[t])]
      /\ Tokenwise(t)'
      /\ response'[t] \in Seq(Tokens) /\ response[t] \in Seq(Tokens)
  <2>1. Marked(response[t], mask[t], logprobs[t])
    BY DEF Sample, Tokenwise
  <2>2. Marked(response'[t], mask'[t], logprobs'[t]) /\ response'[t] \in Seq(Tokens)
    BY <2>1, ExtendType
  <2> QED BY <2>2, ExtendType DEF Tokenwise, TypeOK, AgentType
<1>2. ImagesIn(response'[t]) = ImagesIn(response[t]) + ImagesIn(ids)
  BY <1>1, ImagesAppend
<1>3. images'[t] = ImagesIn(response'[t])
  BY <1>2 DEF Sample, Pictures
<1>4. ASSUME NEW i \in 1 .. Len(response'[t]), response'[t][i].text = "i" PROVE i <= ResponseLength
  <2>1. CASE i \in 1 .. Len(response[t])
    BY <1>1, <1>4, <2>1 DEF Sample, Pictures
  <2>2. CASE i \in Len(response[t]) + 1 .. Len(response'[t])
    <3>1. i - Len(response[t]) \in 1 .. Len(ids) /\ ids[i - Len(response[t])].text = "i"
      BY <1>1, <1>4, <2>2
    <3>2. Len(response'[t]) <= ResponseLength
      BY <1>1, <3>1
    <3> QED BY <1>1, <3>2, AgentAssumption
  <2> QED BY <1>1, <2>1, <2>2
<1>5. (ids # << >> => response'[t] # << >>) /\ (response[t] # << >> => response'[t] # << >>)
  <2>1. /\ ids # << >> => Len(ids) >= 1
        /\ response[t] # << >> => Len(response[t]) >= 1
        /\ response'[t] = << >> => Len(response'[t]) = 0
    BY <1>1, EmptySeq
  <2> QED BY <1>1, <2>1
<1> QED BY <1>1, <1>3, <1>4, <1>5 DEF Pictures

\* A step that adds nothing to the response.
LEMMA QuietSample ==
  ASSUME NEW t \in Trajectories, Sample(t),
         response'[t] = response[t], mask'[t] = mask[t], logprobs'[t] = logprobs[t], images'[t] = images[t]
  PROVE  Tokenwise(t)' /\ Pictures(t)'
BY DEF Sample, Tokenwise, Pictures

\* A trajectory starts or goes on.
LEMMA StartSample ==
  ASSUME TypeOK, NEW t \in Trajectories, Sample(t), Start(t)
  PROVE  Sample(t)'
<1>1. /\ at[t] = "out" /\ at'[t] = "head" /\ UNCHANGED << response, mask, logprobs, images, reqOutput, cut >>
      /\ state'[t] = (IF state[t] = "new" THEN "pending" ELSE state[t])
  BY DEF Start, Becomes, Goes, server, TypeOK, AgentType
<1>2. InState(t)' /\ Request(t)' /\ Started(t)' /\ Completed(t)'
  BY <1>1 DEF Sample, InState, Request, Started, Completed
<1> QED BY <1>1, <1>2, QuietSample DEF Sample

\* It is interrupted, or enters a state.
LEMMA MoveSample ==
  ASSUME TypeOK, NEW t \in Trajectories, Sample(t), Interrupt(t) \/ Pending(t) \/ Await(t)
  PROVE  Sample(t)'
<1>1. UNCHANGED << response, mask, logprobs, images, reqOutput, cut >>
  BY DEF Interrupt, Pending, Await, agent, server
<1>2. CASE Interrupt(t)
  <2>1. at[t] = "head" /\ at'[t] = "out" /\ state' = state /\ state[t] # "terminated"
    BY <1>2 DEF Interrupt, Interrupted, Goes, agent, TypeOK, AgentType
  <2>2. InState(t)' /\ Request(t)' /\ Started(t)' /\ Completed(t)'
    BY <1>1, <2>1 DEF Sample, InState, Request, Started, Completed
  <2> QED BY <1>1, <2>2, QuietSample DEF Sample
<1>3. CASE Pending(t)
  <2>1. at[t] = "head" /\ at'[t] = "head" /\ state[t] = "pending" /\ state'[t] = "generating"
    BY <1>3 DEF Pending, Enters, Becomes, TypeOK, AgentType
  <2>2. InState(t)' /\ Request(t)' /\ Started(t)' /\ Completed(t)'
    BY <1>1, <2>1 DEF Sample, InState, Request, Started, Completed
  <2> QED BY <1>1, <2>2, QuietSample DEF Sample
<1>4. CASE Await(t)
  <2>1. at[t] = "head" /\ state' = state
        /\ \/ state[t] = "generating" /\ at'[t] = "request"
           \/ state[t] = "tools" /\ at'[t] = "tools"
           \/ state[t] = "interacting" /\ at'[t] = "user"
    BY <1>4 DEF Await, Enters, Goes, agent, TypeOK, AgentType
  <2>2. InState(t)' /\ Request(t)' /\ Started(t)' /\ Completed(t)'
    BY <1>1, <2>1 DEF Sample, InState, Request, Started, Completed
  <2> QED BY <1>1, <2>2, QuietSample DEF Sample
<1> QED BY <1>2, <1>3, <1>4

\* It is completed.
LEMMA CompleteSample ==
  ASSUME TypeOK, NEW t \in Trajectories, Sample(t), Complete(t)
  PROVE  Sample(t)'
<1>1. /\ at[t] = "head" /\ at'[t] = "done" /\ state' = state /\ state[t] = "terminated"
      /\ UNCHANGED << response, mask, logprobs, images, first, passed, reqOutput, cut >>
      /\ out'[t] = Output(t)
  BY DEF Complete, Goes, agent, server, TypeOK, AgentType, ControlType
<1>2. Output(t)' = Output(t)
  BY <1>1 DEF Output
<1>3. InState(t)' /\ Request(t)' /\ Started(t)' /\ Completed(t)'
  BY <1>1, <1>2 DEF Sample, InState, Request, Started, Completed
<1> QED BY <1>1, <1>3, QuietSample DEF Sample

\* Its request is at the server.
LEMMA ServerSample ==
  ASSUME TypeOK, NEW t \in Trajectories, Sample(t), Accept(t) \/ EngineStep(t) \/ Replied(t)
  PROVE  Sample(t)'
<1>1. UNCHANGED << response, mask, logprobs, images, state >>
  BY DEF Accept, EngineStep, Replied, agent
<1>2. reqOutput[t] \in Seq(Tokens)
  BY DEF TypeOK, ServerType
<1>3. CASE Accept(t)
  <2>1. /\ at[t] = "request" /\ reqOutput'[t] = << >> /\ cut'[t] = Refuses(t)
        /\ at'[t] = IF Refuses(t) THEN "reply" ELSE "engine"
    BY <1>3 DEF Accept, Goes, TypeOK, AgentType, ServerType
  <2>2. Len(<< >>) = 0 /\ \A i \in 1 .. 0 : FALSE
    OBVIOUS
  <2>3. Request(t)'
    BY <2>1, <2>2 DEF Request
  <2>4. InState(t)' /\ Started(t)' /\ Completed(t)'
    BY <1>1, <2>1 DEF Sample, InState, Started, Completed
  <2> QED BY <1>1, <2>3, <2>4, QuietSample DEF Sample
<1>4. CASE EngineStep(t)
  <2>1. PICK x \in {"<", ">"} : reqOutput' = [reqOutput EXCEPT ![t] = Append(@, Token(x))]
    BY <1>4 DEF EngineStep
  <2>2. at[t] = "engine" /\ at' = at /\ cut' = cut
    BY <1>4 DEF EngineStep
  <2> DEFINE a == Append(reqOutput[t], Token(x))
             n == Len(reqOutput[t])
  <2>3. reqOutput'[t] = a
    BY <2>1 DEF TypeOK, ServerType
  <2>4. n \in Nat /\ Len(a) = n + 1 /\ \A i \in 1 .. n + 1 : a[i] = IF i <= n THEN reqOutput[t][i] ELSE Token(x)
    <3>1. Token(x) \in Tokens
      BY TokenType
    <3> QED BY <1>2, <3>1, LenProperties
  <2>5. \A i \in 1 .. n : reqOutput[t][i].by = "model" /\ reqOutput[t][i].text \in {"<", ">"}
    BY DEF Sample, Request
  <2>6. Token(x).by = "model" /\ Token(x).text \in {"<", ">"}
    BY DEF Token
  <2> HIDE DEF a, n
  <2>7. \A i \in 1 .. n + 1 : i <= n => i \in 1 .. n
    BY <2>4
  <2>8. \A i \in 1 .. Len(a) : a[i].by = "model" /\ a[i].text \in {"<", ">"}
    BY <2>4, <2>5, <2>6, <2>7
  <2>9. Request(t)'
    BY <2>2, <2>3, <2>8 DEF Request
  <2>10. InState(t)' /\ Started(t)' /\ Completed(t)'
    BY <1>1, <2>2 DEF Sample, InState, Started, Completed
  <2> QED BY <1>1, <2>9, <2>10, QuietSample DEF Sample
<1>5. CASE Replied(t)
  <2>1. at[t] = "engine" /\ at'[t] = "reply" /\ reqOutput' = reqOutput
    BY <1>5 DEF Replied, Goes, TypeOK, AgentType
  <2>2. ~cut'[t] => reqOutput[t] # << >>
    BY <1>5 DEF Replied, TypeOK, ServerType
  <2>3. Request(t)'
    BY <2>1, <2>2 DEF Sample, Request
  <2>4. InState(t)' /\ Started(t)' /\ Completed(t)'
    BY <1>1, <2>1 DEF Sample, InState, Started, Completed
  <2> QED BY <1>1, <2>3, <2>4, QuietSample DEF Sample
<1> QED BY <1>3, <1>4, <1>5

\* After a handler the request is over.
LEMMA HeadRequest ==
  ASSUME NEW t \in Trajectories, reqOutput'[t] = << >>, at'[t] = "head"
  PROVE  Request(t)' /\ Completed(t)'
<1>1. Len(<< >>) = 0 /\ \A i \in 1 .. 0 : FALSE
  OBVIOUS
<1> QED BY <1>1 DEF Request, Completed

\* A reply joins the response.
LEMMA HandleSample ==
  ASSUME TypeOK, NEW t \in Trajectories, Sample(t), HandleFragment(t) \/ HandleMessage(t)
  PROVE  Sample(t)'
<1> DEFINE ids == reqOutput[t]
<1>1. /\ at[t] = "reply" /\ Extend(t, ids, TRUE) /\ images' = images /\ reqOutput'[t] = << >> /\ at'[t] = "head"
      /\ ids \in Seq(Tokens) /\ images[t] \in Nat /\ state[t] = "generating"
  BY DEF HandleFragment, HandleMessage, Goes, TypeOK, AgentType, ServerType, Sample, InState
<1>2. \A i \in 1 .. Len(ids) : ids[i].by = "model" /\ ids[i].text \in {"<", ">"}
  BY DEF Sample, Request
<1>3. ~cut[t] => ids # << >>
  BY <1>1 DEF Sample, Request
<1>4. CASE HandleFragment(t)
  <2>1. state'[t] = "generating" \/ (state'[t] = "terminated" /\ Full(t))
    BY <1>1, <1>4 DEF HandleFragment, Becomes, TypeOK, AgentType
  <2> QED
  <3> HIDE DEF ids
  <3>1. ImagesIn(ids) = 0
    BY <1>1, <1>2, NoImages
  <3>2. Tokenwise(t)' /\ Pictures(t)'
    <4>1. /\ \A i \in 1 .. Len(ids) : ids[i].by = "model" <=> TRUE
          /\ images'[t] = images[t] + ImagesIn(ids) /\ \A i \in 1 .. Len(ids) : ids[i].text # "i"
      BY <1>1, <1>2, <3>1
    <4>2. ids \in Seq(Tokens) /\ Extend(t, ids, TRUE) /\ TRUE \in BOOLEAN
      BY <1>1
    <4> QED BY <4>1, <4>2, ExtendSample
  <3>3. Full(t) => response'[t] # << >>
    <4>1. Len(mask'[t]) = Len(response'[t]) /\ ResponseLength \in Nat /\ ResponseLength >= 1
      BY <3>2, AgentAssumption DEF Tokenwise, Marked
    <4>2. ASSUME Full(t), response'[t] = << >> PROVE FALSE
      <5>1. Len(response'[t]) = 0 /\ Len(response'[t]) >= ResponseLength
        BY <4>1, <4>2 DEF Full
      <5> QED BY <4>1, <5>1
    <4> QED BY <4>2
  <3>4. Request(t)' /\ Completed(t)'
    BY <1>1, HeadRequest
  <3>5. InState(t)' /\ Started(t)'
    BY <1>1, <2>1, <3>3 DEF InState, Started
  <3> QED BY <3>2, <3>4, <3>5 DEF Sample
<1>5. CASE HandleMessage(t)
  <2>1. state'[t] \in {"tools", "interacting", "terminated"} /\ ~cut[t]
    BY <1>1, <1>5 DEF HandleMessage, Becomes, NextState, TypeOK, AgentType
  <2> HIDE DEF ids
  <2>2. ImagesIn(ids) = 0
    BY <1>1, <1>2, NoImages
  <2>3. Tokenwise(t)' /\ Pictures(t)' /\ response'[t] # << >>
    <3>1. /\ \A i \in 1 .. Len(ids) : ids[i].by = "model" <=> TRUE
          /\ images'[t] = images[t] + ImagesIn(ids) /\ \A i \in 1 .. Len(ids) : ids[i].text # "i"
      BY <1>1, <1>2, <2>2
    <3>2. ids \in Seq(Tokens) /\ Extend(t, ids, TRUE) /\ TRUE \in BOOLEAN /\ ids # << >>
      BY <1>1, <1>3, <2>1
    <3> QED BY <3>1, <3>2, ExtendSample
  <2>4. Request(t)' /\ Completed(t)'
    BY <1>1, HeadRequest
  <2>5. InState(t)' /\ Started(t)'
    BY <1>1, <2>1, <2>3 DEF InState, Started
  <2> QED BY <2>3, <2>4, <2>5 DEF Sample
<1> QED BY <1>4, <1>5

\* Who says what tools and interaction say, and where the images are.
LEMMA SaysFacts ==
  /\ \A x, texts : \A i \in DOMAIN texts : Says(x, texts)[i].by = x /\ Says(x, texts)[i].text = texts[i]
  /\ \A texts \in UserTexts : /\ \A i \in 1 .. Len(Says("user", texts)) : Says("user", texts)[i].by = "user" /\ Says("user", texts)[i].text = "u"
                              /\ Says("user", texts) # << >>
  /\ \A texts \in ToolTexts : /\ \A i \in 1 .. Len(Says("tool", texts)) : Says("tool", texts)[i].by = "tool"
                              /\ Says("tool", texts) # << >>
<1>1. \A x, texts : \A i \in DOMAIN texts : Says(x, texts)[i].by = x /\ Says(x, texts)[i].text = texts[i]
  BY DEF Says
<1>2. \A x, texts : DOMAIN Says(x, texts) = DOMAIN texts
  BY DEF Says
<1>3. \A x, texts : \A n \in Nat : DOMAIN texts = 1 .. n => Len(Says(x, texts)) = n
  BY <1>2
<1>4. \A y : /\ DOMAIN << y >> = 1 .. 1 /\ << y >>[1] = y
             /\ DOMAIN << y, y >> = 1 .. 2 /\ \A i \in 1 .. 2 : << y, y >>[i] = y
  OBVIOUS
<1>5. \A texts \in UserTexts : \E n \in {1, 2} : DOMAIN texts = 1 .. n /\ \A i \in 1 .. n : texts[i] = "u"
  BY <1>4 DEF UserTexts
<1>6. \A texts \in ToolTexts : \E n \in {1, 2} : DOMAIN texts = 1 .. n
  BY <1>4 DEF ToolTexts
<1>7. DOMAIN << >> # 1 .. 1 /\ DOMAIN << >> # 1 .. 2
  OBVIOUS
<1>8. ASSUME NEW texts \in UserTexts
      PROVE  /\ \A i \in 1 .. Len(Says("user", texts)) : Says("user", texts)[i].by = "user" /\ Says("user", texts)[i].text = "u"
             /\ Says("user", texts) # << >>
  <2>1. PICK n \in {1, 2} : DOMAIN texts = 1 .. n /\ \A i \in 1 .. n : texts[i] = "u"
    BY <1>5
  <2>2. Len(Says("user", texts)) = n
    BY <1>3, <2>1
  <2>3. Says("user", texts) # << >>
    BY <1>2, <1>7, <2>1
  <2> QED BY <1>1, <2>1, <2>2, <2>3
<1>9. ASSUME NEW texts \in ToolTexts
      PROVE  /\ \A i \in 1 .. Len(Says("tool", texts)) : Says("tool", texts)[i].by = "tool"
             /\ Says("tool", texts) # << >>
  <2>1. PICK n \in {1, 2} : DOMAIN texts = 1 .. n
    BY <1>6
  <2>2. Len(Says("tool", texts)) = n
    BY <1>3, <2>1
  <2>3. Says("tool", texts) # << >>
    BY <1>2, <1>7, <2>1
  <2> QED BY <1>1, <2>1, <2>2, <2>3
<1> QED BY <1>1, <1>8, <1>9

\* An answer of the tools: it fits and brings its images, or both are dropped.
LEMMA ToolsSample ==
  ASSUME TypeOK, NEW t \in Trajectories, Sample(t), ToolsAnswer(t)
  PROVE  Sample(t)'
<1>1. PICK texts \in ToolTexts :
         IF Len(mask[t]) + Len(texts) >= ResponseLength
         THEN Becomes(t, "terminated") /\ UNCHANGED << response, mask, logprobs, images, userTurns >>
         ELSE /\ Extend(t, Says("tool", texts), FALSE)
              /\ images' = [images EXCEPT ![t] = @ + ImagesIn(Says("tool", texts))]
              /\ Counted(userTurns, t)
              /\ Becomes(t, "generating")
  BY DEF ToolsAnswer
<1>2. at[t] = "tools" /\ at'[t] = "head" /\ reqOutput' = reqOutput /\ state[t] = "tools" /\ response[t] # << >>
  BY DEF ToolsAnswer, Goes, server, TypeOK, AgentType, Sample, InState, Started
<1>3. reqOutput'[t] = << >>
  BY <1>2 DEF Sample, Request
<1>4. Request(t)' /\ Completed(t)'
  BY <1>2, <1>3, HeadRequest
<1>5. CASE Len(mask[t]) + Len(texts) >= ResponseLength
  <2>1. state'[t] = "terminated" /\ UNCHANGED << response, mask, logprobs, images >>
    BY <1>1, <1>5 DEF Becomes, TypeOK, AgentType
  <2>2. InState(t)' /\ Started(t)'
    BY <1>2, <2>1 DEF InState, Started
  <2> QED BY <1>4, <2>1, <2>2, QuietSample DEF Sample
<1>6. CASE ~(Len(mask[t]) + Len(texts) >= ResponseLength)
  <2> DEFINE ids == Says("tool", texts)
  <2>1. /\ Extend(t, ids, FALSE) /\ images'[t] = images[t] + ImagesIn(ids) /\ state'[t] = "generating"
        /\ ids \in Seq(Tokens) /\ Len(ids) = Len(texts) /\ \A i \in 1 .. Len(ids) : ids[i].by = "tool"
    <3>1. ids \in Seq(Tokens) /\ Len(ids) = Len(texts) /\ \A i \in 1 .. Len(ids) : ids[i].by = "tool"
      BY TokenType, SaysFacts
    <3>2. /\ Extend(t, ids, FALSE) /\ images' = [images EXCEPT ![t] = @ + ImagesIn(ids)]
          /\ state' = [state EXCEPT ![t] = "generating"]
      BY <1>1, <1>6 DEF Becomes
    <3> HIDE DEF ids
    <3>3. images'[t] = images[t] + ImagesIn(ids) /\ state'[t] = "generating"
      BY <3>2 DEF TypeOK, AgentType
    <3> QED BY <3>1, <3>2, <3>3
  <2> HIDE DEF ids
  <2>2. Len(response[t]) + Len(ids) <= ResponseLength
    <3>1. Len(mask[t]) = Len(response[t]) /\ Len(mask[t]) \in Nat /\ Len(ids) \in Nat /\ ResponseLength \in Nat
      BY <2>1, LenProperties, AgentAssumption DEF Sample, Tokenwise, Marked, TypeOK, AgentType
    <3> QED BY <1>6, <2>1, <3>1
  <2>3. Tokenwise(t)' /\ Pictures(t)' /\ response'[t] # << >>
    <3>1. (\A i \in 1 .. Len(ids) : ids[i].by = "model" <=> FALSE) /\ FALSE \in BOOLEAN
      BY <2>1
    <3> QED BY <1>2, <2>1, <2>2, <3>1, ExtendSample
  <2>4. InState(t)' /\ Started(t)'
    BY <1>2, <2>1 DEF InState, Started
  <2> QED BY <1>4, <2>3, <2>4 DEF Sample
<1> QED BY <1>5, <1>6

\* An answer of the interaction has no images.
LEMMA InteractionSample ==
  ASSUME TypeOK, NEW t \in Trajectories, Sample(t), InteractionAnswers(t)
  PROVE  Sample(t)'
<1>1. PICK texts \in UserTexts : Extend(t, Says("user", texts), FALSE)
  BY DEF InteractionAnswers
<1>2. /\ at[t] = "user" /\ at'[t] = "head" /\ reqOutput' = reqOutput /\ images' = images
      /\ state'[t] \in {"generating", "terminated"}
  BY DEF InteractionAnswers, Goes, Becomes, server, TypeOK, AgentType
<1>3. reqOutput'[t] = << >>
  BY <1>2 DEF Sample, Request
<1>4. Request(t)' /\ Completed(t)'
  BY <1>2, <1>3, HeadRequest
<1> DEFINE ids == Says("user", texts)
<1>5. ids \in Seq(Tokens) /\ ids # << >> /\ \A i \in 1 .. Len(ids) : ids[i].by = "user" /\ ids[i].text = "u"
  BY TokenType, SaysFacts
<1>6. Extend(t, ids, FALSE)
  BY <1>1
<1> HIDE DEF ids
<1>7. ImagesIn(ids) = 0
  BY <1>5, NoImages
<1>8. images[t] \in Nat
  BY DEF TypeOK, AgentType
<1>9. Tokenwise(t)' /\ Pictures(t)' /\ response'[t] # << >>
  <2>1. /\ \A i \in 1 .. Len(ids) : ids[i].by = "model" <=> FALSE
        /\ images'[t] = images[t] + ImagesIn(ids) /\ \A i \in 1 .. Len(ids) : ids[i].text # "i"
    BY <1>2, <1>5, <1>7, <1>8
  <2>2. ids \in Seq(Tokens) /\ Extend(t, ids, FALSE) /\ FALSE \in BOOLEAN /\ ids # << >>
    BY <1>5, <1>6
  <2> QED BY <2>1, <2>2, ExtendSample
<1>10. InState(t)' /\ Started(t)'
  BY <1>2, <1>9 DEF InState, Started
<1> QED BY <1>4, <1>9, <1>10 DEF Sample

\* All trajectories.
Samples == \A t \in Trajectories : Sample(t)

\* Every step keeps the types and the samples.
LEMMA SampleStep == TypeOK /\ Samples /\ [Next]_vars => TypeOK' /\ Samples'
<1> SUFFICES ASSUME TypeOK, Samples, [Next]_vars PROVE TypeOK' /\ Samples'
  OBVIOUS
<1>1. CASE \E t \in Trajectories : Start(t) \/ Run(t)
  <2>1. PICK t \in Trajectories : Start(t) \/ Run(t)
    BY <1>1
  <2>2. TypeOK' /\ \A u \in Trajectories : u # t => Own(u)
    BY <2>1, OneActs DEF Same
  <2>3. Sample(t)'
    BY <2>1, StartSample, MoveSample, CompleteSample, ServerSample, HandleSample, ToolsSample, InteractionSample
        DEF Run, Samples
  <2> QED BY <2>2, <2>3, SampleKept DEF Samples
<1>2. CASE Pause \/ Synchroniser
  <2>1. TypeOK' /\ UNCHANGED << at, agent, first, passed, reqOutput, cut, out >>
    BY <1>2, ControlStepType
  <2>2. \A u \in Trajectories : Own(u)
    BY <2>1 DEF Own, agent
  <2> QED BY <2>1, <2>2, SampleKept DEF Samples
<1>3. CASE UNCHANGED vars
  <2>1. \A u \in Trajectories : Own(u)
    BY <1>3 DEF Own, agent, server, vars
  <2>2. TypeOK'
    BY <1>3 DEF vars, agent, server, control, TypeOK, AgentType, ServerType, ControlType
  <2> QED BY <2>1, <2>2, SampleKept DEF Samples
<1> QED BY <1>1, <1>2, <1>3 DEF Next

\* The output is the beginning of the response.
LEMMA TruncatedIs ==
  ASSUME NEW S, NEW s \in Seq(S)
  PROVE  LET c == Truncated(s) IN
         /\ c \in Seq(S) /\ Len(c) = (IF Len(s) > ResponseLength THEN ResponseLength ELSE Len(s)) /\ Len(s) \in Nat
         /\ DOMAIN c = 1 .. Len(c)
         /\ \A i \in 1 .. Len(c) : i \in 1 .. Len(s) /\ c[i] = s[i]
<1> DEFINE L == ResponseLength
           c == Truncated(s)
           p == SubSeq(s, 1, L)
<1>1. Len(s) \in Nat /\ L \in Nat /\ L >= 1
  BY AgentAssumption, LenProperties
<1>2. ASSUME Len(s) > L
      PROVE /\ c \in Seq(S) /\ Len(c) = (IF Len(s) > L THEN L ELSE Len(s)) /\ DOMAIN c = 1 .. Len(c)
           /\ \A i \in 1 .. Len(c) : i \in 1 .. Len(s) /\ c[i] = s[i]
  <2>1. \A i \in 1 .. L : i \in 1 .. Len(s) /\ s[i] \in S
    BY <1>1, <1>2, ElementOfSeq
  <2>2. p \in Seq(S) /\ Len(p) = L - 1 + 1 /\ \A i \in 1 .. L - 1 + 1 : p[i] = s[1 + i - 1]
    BY <1>1, <1>2, SubSeqProperties
  <2>3. L - 1 + 1 = L /\ \A i \in 1 .. L : 1 + i - 1 = i
    BY <1>1
  <2>4. c = p
    BY <1>2 DEF Truncated
  <2> HIDE DEF p, c
  <2>5. Len(c) = L /\ c \in Seq(S) /\ \A i \in 1 .. L : c[i] = s[i]
    BY <2>2, <2>3, <2>4
  <2>6. DOMAIN c = 1 .. Len(c)
    BY <2>5, LenProperties
  <2> HIDE DEF L
  <2> QED BY <1>2, <2>1, <2>5, <2>6
<1>3. ASSUME ~(Len(s) > L)
      PROVE /\ c \in Seq(S) /\ Len(c) = (IF Len(s) > L THEN L ELSE Len(s)) /\ DOMAIN c = 1 .. Len(c)
           /\ \A i \in 1 .. Len(c) : i \in 1 .. Len(s) /\ c[i] = s[i]
  <2>1. c = s
    BY <1>3 DEF Truncated
  <2> HIDE DEF c
  <2>2. DOMAIN s = 1 .. Len(s) /\ \A i \in 1 .. Len(s) : i \in 1 .. Len(s)
    BY LenProperties
  <2> HIDE DEF L
  <2> QED BY <1>3, <2>1, <2>2
<1> HIDE DEF c
<1> QED BY <1>1, <1>2, <1>3 DEF c

\* The newest tokens, as many as the mask has, are all of them.
LEMMA NewestIsAll ==
  ASSUME NEW S, NEW s \in Seq(S), NEW n, n = Len(s)
  PROVE  Newest(s, n) = s
<1>1. Len(s) \in Nat /\ Len(s) - Len(s) + 1 = 1
  BY LenProperties
<1>2. \A i \in 1 .. Len(s) : s[i] \in S
  BY ElementOfSeq
<1>3. Newest(s, n) = SubSeq(s, 1, Len(s))
  BY <1>1 DEF Newest
<1>4. SubSeq(s, 1, Len(s)) = s
  BY <1>1, SubSeqFull
<1> QED BY <1>3, <1>4

\* A completed trajectory is a training sample.
LEMMA SampleMatches == TypeOK /\ Samples => OutputsMatch
<1> SUFFICES ASSUME TypeOK, Samples, NEW t \in Trajectories, at[t] = "done"
             PROVE  /\ Len(out[t].ids) \in 1 .. ResponseLength /\ DOMAIN out[t].mask = DOMAIN out[t].ids
                    /\ DOMAIN out[t].logprobs = DOMAIN out[t].ids
                    /\ \A i \in DOMAIN out[t].ids :
                         /\ out[t].mask[i] = 1 <=> out[t].ids[i].by = "model"
                         /\ out[t].logprobs[i] = "p" <=> out[t].ids[i].by = "model"
                    /\ out[t].images = ImagesIn(out[t].ids)
  BY DEF OutputsMatch
<1> DEFINE r == response[t]
           m == mask[t]
           p == logprobs[t]
           ids == Truncated(r)
           tm == Truncated(m)
           tp == Truncated(p)
<1>1. /\ r \in Seq(Tokens) /\ m \in Seq({0, 1}) /\ p \in Seq({"p", "0"})
  BY DEF TypeOK, AgentType
<1>2. /\ Len(m) = Len(r) /\ Len(p) = Len(r) /\ r # << >>
      /\ \A i \in 1 .. Len(r) : (m[i] = 1 <=> r[i].by = "model") /\ (p[i] = "p" <=> r[i].by = "model")
      /\ images[t] = ImagesIn(r) /\ \A i \in 1 .. Len(r) : r[i].text = "i" => i <= ResponseLength
      /\ out[t] = Output(t)
  BY DEF Samples, Sample, InState, Started, Tokenwise, Marked, Pictures, Completed
<1>3. out[t].ids = Truncated(Newest(r, Len(m))) /\ out[t].mask = tm /\ out[t].logprobs = tp /\ out[t].images = images[t]
  BY <1>2 DEF Output
<1>4. Newest(r, Len(m)) = r
  BY <1>1, <1>2, NewestIsAll
<1>5. out[t].ids = ids
  BY <1>3, <1>4
<1>6. /\ ids \in Seq(Tokens) /\ Len(ids) = (IF Len(r) > ResponseLength THEN ResponseLength ELSE Len(r))
      /\ Len(r) \in Nat
      /\ DOMAIN ids = 1 .. Len(ids) /\ \A i \in 1 .. Len(ids) : i \in 1 .. Len(r) /\ ids[i] = r[i]
  BY <1>1, TruncatedIs
<1>7. /\ Len(tm) = (IF Len(m) > ResponseLength THEN ResponseLength ELSE Len(m))
      /\ DOMAIN tm = 1 .. Len(tm) /\ \A i \in 1 .. Len(tm) : tm[i] = m[i]
  BY <1>1, TruncatedIs
<1>8. /\ Len(tp) = (IF Len(p) > ResponseLength THEN ResponseLength ELSE Len(p))
      /\ DOMAIN tp = 1 .. Len(tp) /\ \A i \in 1 .. Len(tp) : tp[i] = p[i]
  <2> DEFINE P == {"p", "0"}
  <2>1. p \in Seq(P)
    BY <1>1
  <2> HIDE DEF P
  <2> QED BY <2>1, TruncatedIs
<1> HIDE DEF ids, tm, tp, r, m, p
<1>9. Len(tm) = Len(ids) /\ Len(tp) = Len(ids)
  BY <1>2, <1>6, <1>7, <1>8
<1>10. Len(ids) \in 1 .. ResponseLength
  <2>1. Len(r) >= 1 /\ ResponseLength \in Nat /\ ResponseLength >= 1
    BY <1>1, <1>2, <1>6, EmptySeq, AgentAssumption
  <2> QED BY <1>6, <2>1
<1>11. \A i \in 1 .. Len(ids) : (tm[i] = 1 <=> ids[i].by = "model") /\ (tp[i] = "p" <=> ids[i].by = "model")
  BY <1>2, <1>6, <1>7, <1>8, <1>9
<1>12. ImagesIn(ids) = ImagesIn(r)
  <2>1. Pics(ids) = {i \in 1 .. Len(ids) : ids[i].text = "i"} /\ Pics(r) = {i \in 1 .. Len(r) : r[i].text = "i"}
    BY <1>1, <1>6, PicsFinite
  <2>2. ASSUME NEW i \in Pics(r) PROVE i \in 1 .. Len(ids)
    <3>1. i \in 1 .. Len(r) /\ i <= ResponseLength /\ ResponseLength \in Nat
      BY <1>2, <2>1, AgentAssumption
    <3> QED BY <1>6, <3>1
  <2>3. Pics(ids) = Pics(r)
    BY <1>6, <2>1, <2>2
  <2> QED BY <1>1, <1>6, <2>3, PicsFinite
<1> QED BY <1>2, <1>3, <1>5, <1>6, <1>7, <1>8, <1>9, <1>10, <1>11, <1>12

\* For any number of trajectories and versions and any limits, with the interruptions
\* wherever they fall: the mask of a completed output marks the model's tokens and no
\* others, they and only they have log-probabilities, and its images are those its
\* tokens speak of.
THEOREM OutputsSound == Spec => []OutputsMatch
<1>1. Init => TypeOK /\ Samples
  BY TypeInit, SampleInit DEF Samples
<1>2. TypeOK /\ Samples /\ [Next]_vars => TypeOK' /\ Samples'
  BY SampleStep
<1>3. TypeOK /\ Samples => OutputsMatch
  BY SampleMatches
<1> QED BY <1>1, <1>2, <1>3, PTL DEF Spec

-------------------------------------------------------------------------------
(* Versions.                                                                  *)

\* The server's and the worker's flags follow the calls of cancel and resume.
Flags ==
  /\ paused <=> \/ phase = "cancel" /\ "server" \notin pending
                \/ phase = "synchronise"
                \/ phase = "resume" /\ "server" \in pending
  /\ cancelled <=> \/ phase = "cancel" /\ "worker" \notin pending
                   \/ phase = "synchronise"
                   \/ phase = "resume" /\ "worker" \in pending

\* A cancel_event is set only for a request in the engine, while cancelling.
Asked(t) == t \in asked => at[t] = "engine" /\ phase = "cancel" /\ "server" \notin pending

\* While the weights are replaced, no request is out.
Quiet(t) == phase = "synchronise" => at[t] \in {"out", "head", "done"}

\* Trajectory t is at work.
Running(t) == at[t] \notin {"out", "done"}

\* The version a run was told is the present one or, when it was started early, the
\* one before.
Told(t) ==
  /\ passed[t] <= version /\ first[t] <= version
  /\ Running(t) => version <= passed[t] + 1
  /\ Running(t) /\ phase = "synchronise" => passed[t] = version

\* The versions of the tokens: never falling along a response, between those the run
\* records, and those of the request are of the present version.
Dated(t) ==
  /\ \A i, j \in 1 .. Len(response[t]) : i < j => response[t][i].version <= response[t][j].version
  /\ \A i \in 1 .. Len(response[t]) : LET v == response[t][i].version IN
       first[t] <= v /\ v <= passed[t] + 1 /\ v <= version
  /\ \A i \in 1 .. Len(reqOutput[t]) : reqOutput[t][i].version = version

\* The inductive invariant behind VersionsRecorded.
Versions(t) == Asked(t) /\ Quiet(t) /\ Told(t) /\ Dated(t)
VersionsInv == Flags /\ \A t \in Trajectories : Versions(t)

\* The empty sequence.
LEMMA NoTokens == Len(<< >>) = 0 /\ \A i \in 1 .. 0 : FALSE
OBVIOUS

\* It holds at the start.
LEMMA VersionsInit == Init => VersionsInv
<1> SUFFICES ASSUME Init PROVE VersionsInv
  OBVIOUS
<1>1. Flags
  BY DEF Init, Flags
<1>2. ASSUME NEW t \in Trajectories PROVE Versions(t)
  <2>1. /\ at[t] = "out" /\ response[t] = << >> /\ reqOutput[t] = << >> /\ first[t] = 0 /\ passed[t] = 0
        /\ version = 0 /\ asked = {} /\ phase = "run"
    BY DEF Init
  <2>2. Asked(t) /\ Quiet(t) /\ Told(t)
    BY <2>1 DEF Asked, Quiet, Told, Running
  <2>3. Dated(t)
    BY <2>1, NoTokens DEF Dated
  <2> QED BY <2>2, <2>3 DEF Versions
<1> QED BY <1>1, <1>2 DEF VersionsInv

\* Versions are numbers.
LEMMA VersionTypes ==
  ASSUME TypeOK, NEW t \in Trajectories
  PROVE  /\ version \in Nat /\ first[t] \in Nat /\ passed[t] \in Nat
         /\ response[t] \in Seq(Tokens) /\ reqOutput[t] \in Seq(Tokens) /\ Len(response[t]) \in Nat
         /\ Len(reqOutput[t]) \in Nat
         /\ \A i \in 1 .. Len(response[t]) : response[t][i].version \in Nat
         /\ \A i \in 1 .. Len(reqOutput[t]) : reqOutput[t][i].version \in Nat
<1>1. /\ version \in Nat /\ first[t] \in Nat /\ passed[t] \in Nat
      /\ response[t] \in Seq(Tokens) /\ reqOutput[t] \in Seq(Tokens)
  BY DEF TypeOK, AgentType, ServerType, ControlType
<1>2. \A s \in Seq(Tokens) : Len(s) \in Nat /\ \A i \in 1 .. Len(s) : s[i].version \in Nat
  <2>1. ASSUME NEW s \in Seq(Tokens) PROVE Len(s) \in Nat /\ \A i \in 1 .. Len(s) : s[i] \in Tokens
    BY LenProperties, ElementOfSeq
  <2>2. \A x \in Tokens : x.version \in Nat
    BY DEF Tokens
  <2> QED BY <2>1, <2>2
<1> QED BY <1>1, <1>2

\* A trajectory that does nothing keeps it, ...
LEMMA VersionsKept ==
  ASSUME NEW u \in Trajectories, Same(u), UNCHANGED control, Versions(u)
  PROVE  Versions(u)'
BY DEF Same, Own, control, Versions, Asked, Quiet, Told, Running, Dated

\* ... and so do the flags.
LEMMA FlagsKept == UNCHANGED control /\ Flags => Flags'
BY DEF control, Flags

\* A cancelled worker enters no state.
LEMMA NotSynchronising ==
  ASSUME Flags, NEW t \in Trajectories, NEW s, s # "terminated", Enters(t, s)
  PROVE  phase # "synchronise"
BY DEF Flags, Enters, Interrupted

\* A step that adds no token.
LEMMA DatedKept ==
  ASSUME NEW t \in Trajectories, Dated(t), response'[t] = response[t], reqOutput'[t] = reqOutput[t],
         first'[t] = first[t], passed'[t] = passed[t], version' = version
  PROVE  Dated(t)'
BY DEF Dated

\* A run is told the present version.
LEMMA StartVersions ==
  ASSUME TypeOK, NEW t \in Trajectories, Samples, Versions(t), UNCHANGED control, Start(t)
  PROVE  Versions(t)'
<1>1. /\ at[t] = "out" /\ at'[t] = "head" /\ passed'[t] = version
      /\ first'[t] = (IF state[t] = "new" THEN version ELSE first[t])
      /\ UNCHANGED << response, reqOutput, asked, phase, pending, version >>
  BY DEF Start, Goes, server, control, TypeOK, AgentType
<1>2. /\ version \in Nat /\ first[t] \in Nat /\ passed[t] \in Nat
      /\ Len(response[t]) \in Nat /\ \A i \in 1 .. Len(response[t]) : response[t][i].version \in Nat
  BY VersionTypes
<1>3. Asked(t)' /\ Quiet(t)'
  BY <1>1 DEF Versions, Asked, Quiet
<1>4. Told(t)'
  BY <1>1, <1>2 DEF Versions, Told
<1>5. state[t] = "new" => response[t] = << >>
  BY DEF Samples, Sample, Started
<1>6. \A i \in 1 .. Len(response[t]) : LET v == response[t][i].version IN
        first'[t] <= v /\ v <= passed'[t] + 1 /\ v <= version
  <2>1. CASE state[t] = "new"
    BY <1>5, <2>1, NoTokens
  <2>2. CASE state[t] # "new"
    <3>1. passed[t] <= passed'[t]
      BY <1>1 DEF Versions, Told
    <3>2. \A i \in 1 .. Len(response[t]) : LET v == response[t][i].version IN
            v \in Nat /\ first[t] <= v /\ v <= passed[t] + 1 /\ v <= version
      BY <1>2 DEF Versions, Dated
    <3>3. ASSUME NEW i \in 1 .. Len(response[t]) PROVE first'[t] <= response[t][i].version /\ response[t][i].version <= passed'[t] + 1 /\ response[t][i].version <= version
      <4>1. response[t][i].version \in Nat /\ first[t] <= response[t][i].version /\ response[t][i].version <= version
        BY <3>2
      <4>2. version <= version + 1
        BY <1>2
      <4> QED BY <1>1, <1>2, <2>2, <4>1, <4>2
    <3> QED BY <3>3
  <2> QED BY <2>1, <2>2
<1>7. Dated(t)'
  BY <1>1, <1>6 DEF Versions, Dated
<1> QED BY <1>3, <1>4, <1>7 DEF Versions

\* A trajectory is interrupted, enters a state or is completed.
LEMMA MoveVersions ==
  ASSUME TypeOK, NEW t \in Trajectories, Flags, Versions(t), UNCHANGED control,
         Interrupt(t) \/ Pending(t) \/ Await(t) \/ Complete(t)
  PROVE  Versions(t)'
<1>1. UNCHANGED << response, reqOutput, asked, first, passed, phase, pending, version >>
  BY DEF Interrupt, Pending, Await, Complete, agent, server, control
<1>2. at[t] = "head" /\ at'[t] \in {"out", "head", "done", "request", "tools", "user"}
  BY DEF Interrupt, Interrupted, Pending, Await, Complete, Enters, Goes, TypeOK, AgentType
<1>3. at'[t] \in {"request", "tools", "user"} => phase # "synchronise"
  <2>1. CASE Await(t)
    BY <2>1, NotSynchronising DEF Await
  <2>2. CASE Interrupt(t) \/ Pending(t) \/ Complete(t)
    BY <2>2 DEF Interrupt, Pending, Complete, Enters, Goes, TypeOK, AgentType
  <2> QED BY <2>1, <2>2
<1>4. Asked(t)' /\ Quiet(t)'
  BY <1>1, <1>2, <1>3 DEF Versions, Asked, Quiet
<1>5. Told(t)'
  BY <1>1, <1>2 DEF Versions, Told, Running
<1>6. Dated(t)'
  BY <1>1, DatedKept DEF Versions
<1> QED BY <1>4, <1>5, <1>6 DEF Versions

\* Its request is at the server.
LEMMA ServerVersions ==
  ASSUME TypeOK, NEW t \in Trajectories, Flags, Versions(t), UNCHANGED control,
         Accept(t) \/ EngineStep(t) \/ Replied(t)
  PROVE  Versions(t)'
<1>1. UNCHANGED << response, first, passed, phase, pending, version >>
  BY DEF Accept, EngineStep, Replied, agent, control
<1>2. /\ at[t] \in {"request", "engine"} /\ at'[t] \in {"engine", "reply"}
      /\ t \in asked' => t \in asked /\ at'[t] = at[t]
  <2>1. CASE Accept(t)
    BY <2>1 DEF Accept, Goes, TypeOK, AgentType, Versions, Asked
  <2>2. CASE EngineStep(t)
    BY <2>2 DEF EngineStep
  <2>3. CASE Replied(t)
    BY <2>3 DEF Replied, Goes, TypeOK, AgentType
  <2> QED BY <2>1, <2>2, <2>3
<1>3. phase # "synchronise"
  BY <1>2 DEF Versions, Quiet
<1>4. Asked(t)' /\ Quiet(t)' /\ Told(t)'
  BY <1>1, <1>2, <1>3 DEF Versions, Asked, Quiet, Told, Running
<1>5. \A i \in 1 .. Len(reqOutput'[t]) : reqOutput'[t][i].version = version
  <2>1. CASE Accept(t)
    <3>1. reqOutput'[t] = << >>
      BY <2>1 DEF Accept, TypeOK, ServerType
    <3> QED BY <3>1, NoTokens
  <2>2. CASE Replied(t)
    BY <2>2 DEF Replied, Versions, Dated
  <2>3. CASE EngineStep(t)
    <3>1. PICK x \in {"<", ">"} : reqOutput' = [reqOutput EXCEPT ![t] = Append(@, Token(x))]
      BY <2>3 DEF EngineStep
    <3> DEFINE a == Append(reqOutput[t], Token(x))
               n == Len(reqOutput[t])
    <3>2. reqOutput'[t] = a /\ reqOutput[t] \in Seq(Tokens)
      BY <3>1 DEF TypeOK, ServerType
    <3>3. n \in Nat /\ Len(a) = n + 1 /\ \A i \in 1 .. n + 1 : a[i] = IF i <= n THEN reqOutput[t][i] ELSE Token(x)
      <4>1. Token(x) \in Tokens
        BY TokenType
      <4> QED BY <3>2, <4>1, LenProperties
    <3>4. Token(x).version = version /\ \A i \in 1 .. n : reqOutput[t][i].version = version
      BY DEF Token, Versions, Dated
    <3> HIDE DEF a, n
    <3>5. \A i \in 1 .. n + 1 : i <= n => i \in 1 .. n
      BY <3>3
    <3> QED BY <3>2, <3>3, <3>4, <3>5
  <2> QED BY <2>1, <2>2, <2>3
<1>6. Dated(t)'
  BY <1>1, <1>5 DEF Versions, Dated
<1> QED BY <1>4, <1>6 DEF Versions

\* Tokens of the present version join the response.
LEMMA DatedExtend ==
  ASSUME TypeOK, NEW t \in Trajectories, Versions(t), Running(t), NEW ids \in Seq(Tokens), NEW b \in BOOLEAN,
         Extend(t, ids, b), \A i \in 1 .. Len(ids) : ids[i].version = version,
         UNCHANGED << first, passed, version >>, reqOutput'[t] = << >>
  PROVE  Dated(t)'
<1> DEFINE r == response[t]
           q == response'[t]
           n == Len(r)
           F == first[t]
           P == passed[t]
           V == version
<1>1. /\ n \in Nat /\ Len(ids) \in Nat /\ Len(q) = n + Len(ids)
      /\ \A i \in 1 .. n : q[i] = r[i]
      /\ \A i \in n + 1 .. Len(q) : i - n \in 1 .. Len(ids) /\ q[i] = ids[i - n]
  BY ExtendType
<1>2. V \in Nat /\ F \in Nat /\ P \in Nat /\ \A i \in 1 .. n : r[i].version \in Nat
  BY VersionTypes
<1>3. F <= V /\ V <= P + 1
  BY DEF Versions, Told
<1>4. /\ \A i, j \in 1 .. n : i < j => r[i].version <= r[j].version
      /\ \A i \in 1 .. n : F <= r[i].version /\ r[i].version <= P + 1 /\ r[i].version <= V
  BY DEF Versions, Dated
<1>5. first'[t] = F /\ passed'[t] = P /\ version' = V
  OBVIOUS
<1> HIDE DEF r, q, n, F, P, V
<1>6. \A i \in 1 .. Len(q) : i \in 1 .. n \/ i \in n + 1 .. Len(q)
  BY <1>1
<1>7. \A i \in n + 1 .. Len(q) : q[i].version = V
  BY <1>1 DEF V
<1>8. \A i \in 1 .. Len(q) : F <= q[i].version /\ q[i].version <= P + 1 /\ q[i].version <= V
  <2>1. V <= V
    BY <1>2
  <2> QED BY <1>1, <1>3, <1>4, <1>6, <1>7, <2>1
<1>9. ASSUME NEW i \in 1 .. Len(q), NEW j \in 1 .. Len(q), i < j PROVE q[i].version <= q[j].version
  <2>1. CASE j \in n + 1 .. Len(q)
    BY <1>7, <1>8, <2>1
  <2>2. CASE j \in 1 .. n
    <3>1. i \in 1 .. n
      BY <1>1, <1>9, <2>2
    <3> QED BY <1>1, <1>4, <1>9, <2>2, <3>1
  <2> QED BY <1>6, <2>1, <2>2
<1> QED BY <1>5, <1>8, <1>9, NoTokens DEF Dated, q

\* The handlers add such tokens.
LEMMA AnswerVersions ==
  ASSUME TypeOK, NEW t \in Trajectories, Samples, Flags, Versions(t), UNCHANGED control,
         HandleFragment(t) \/ HandleMessage(t) \/ ToolsAnswer(t) \/ InteractionAnswers(t)
  PROVE  Versions(t)'
<1>1. /\ at[t] \in {"reply", "tools", "user"} /\ at'[t] = "head"
      /\ UNCHANGED << asked, first, passed, phase, pending, version >>
  BY DEF HandleFragment, HandleMessage, ToolsAnswer, InteractionAnswers, Goes, server, control, TypeOK, AgentType
<1>2. phase # "synchronise" /\ Running(t)
  BY <1>1 DEF Versions, Quiet, Running
<1>3. Asked(t)' /\ Quiet(t)' /\ Told(t)'
  BY <1>1, <1>2 DEF Versions, Asked, Quiet, Told, Running
<1>4. CASE HandleFragment(t) \/ HandleMessage(t)
  <2> DEFINE ids == reqOutput[t]
  <2>1. Extend(t, ids, TRUE) /\ reqOutput'[t] = << >> /\ ids \in Seq(Tokens) /\ TRUE \in BOOLEAN
    BY <1>4 DEF HandleFragment, HandleMessage, TypeOK, ServerType
  <2>2. \A i \in 1 .. Len(ids) : ids[i].version = version
    BY DEF Versions, Dated
  <2> HIDE DEF ids
  <2>3. Dated(t)'
    BY <1>1, <1>2, <2>1, <2>2, DatedExtend
  <2> QED BY <1>3, <2>3 DEF Versions
<1>5. CASE ToolsAnswer(t) \/ InteractionAnswers(t)
  <2>1. at[t] \in {"tools", "user"} /\ reqOutput'[t] = reqOutput[t]
    BY <1>5 DEF ToolsAnswer, InteractionAnswers, server
  <2>2. reqOutput[t] = << >>
    BY <2>1 DEF Samples, Sample, Request
  <2>3. \A x, texts : \A i \in 1 .. Len(Says(x, texts)) : Says(x, texts) \in Seq(Tokens) => Says(x, texts)[i].version = version
    <3>1. ASSUME NEW x, NEW texts, Says(x, texts) \in Seq(Tokens), NEW i \in 1 .. Len(Says(x, texts))
          PROVE  Says(x, texts)[i].version = version
      <4>1. i \in DOMAIN Says(x, texts)
        BY <3>1, LenProperties
      <4> QED BY <4>1 DEF Says
    <3> QED BY <3>1
  <2>4. CASE response' = response
    <3>1. Dated(t)'
      BY <1>1, <2>1, <2>4, DatedKept DEF Versions
    <3> QED BY <1>3, <3>1 DEF Versions
  <2>5. ASSUME NEW x, NEW texts, Extend(t, Says(x, texts), FALSE), Says(x, texts) \in Seq(Tokens) PROVE Versions(t)'
    <3> DEFINE ids == Says(x, texts)
    <3>1. Extend(t, ids, FALSE) /\ ids \in Seq(Tokens) /\ FALSE \in BOOLEAN /\ \A i \in 1 .. Len(ids) : ids[i].version = version
      BY <2>3, <2>5
    <3> HIDE DEF ids
    <3>2. Dated(t)'
      BY <1>1, <1>2, <2>1, <2>2, <3>1, DatedExtend
    <3> QED BY <1>3, <3>2 DEF Versions
  <2>6. CASE ToolsAnswer(t)
    <3>1. response' = response \/ \E texts \in ToolTexts : Extend(t, Says("tool", texts), FALSE)
      BY <2>6 DEF ToolsAnswer
    <3> QED BY <2>4, <2>5, <3>1, TokenType
  <2>7. CASE InteractionAnswers(t)
    <3>1. \E texts \in UserTexts : Extend(t, Says("user", texts), FALSE)
      BY <2>7 DEF InteractionAnswers
    <3> QED BY <2>5, <3>1, TokenType
  <2> QED BY <1>5, <2>6, <2>7
<1> QED BY <1>4, <1>5

\* The calls change flags and phase together.
LEMMA FlagsStep == TypeOK /\ Flags /\ (Pause \/ Synchroniser) => Flags'
<1> SUFFICES ASSUME TypeOK, Flags, Pause \/ Synchroniser PROVE Flags'
  OBVIOUS
<1>1. pending \subseteq {"server", "worker"} /\ Calls = {"server", "worker"}
  BY DEF TypeOK, ControlType, Calls
<1>2. CASE Pause
  BY <1>1, <1>2 DEF Pause, Flags
<1>3. CASE CancelServer
  BY <1>3 DEF CancelServer, Flags
<1>4. CASE CancelWorker
  BY <1>4 DEF CancelWorker, Flags
<1>5. CASE Gathered
  BY <1>5 DEF Gathered, Flags
<1>6. CASE NewVersion
  BY <1>1, <1>6 DEF NewVersion, Flags
<1>7. CASE ResumeServer
  BY <1>7 DEF ResumeServer, Flags
<1>8. CASE ResumeWorker
  BY <1>8 DEF ResumeWorker, Flags
<1>9. CASE Resumed
  BY <1>9 DEF Resumed, Flags
<1> QED BY <1>2, <1>3, <1>4, <1>5, <1>6, <1>7, <1>8, <1>9 DEF Synchroniser

\* The synchronisation: a new version comes only when no token is under way.
LEMMA ControlVersions ==
  ASSUME TypeOK, NEW t \in Trajectories, Samples, Flags, Versions(t), Pause \/ Synchroniser
  PROVE  Versions(t)'
<1>1. UNCHANGED << at, response, first, passed, reqOutput >>
  BY ControlStepType DEF agent
<1>2. CASE NewVersion
  <2>1. phase = "synchronise" /\ phase' = "resume" /\ version' = version + 1 /\ asked' = asked
    BY <1>2 DEF NewVersion, server
  <2>2. Asked(t)' /\ Quiet(t)'
    BY <1>1, <2>1 DEF Versions, Asked, Quiet
  <2>3. version \in Nat /\ first[t] \in Nat /\ passed[t] \in Nat /\ \A i \in 1 .. Len(response[t]) : response[t][i].version \in Nat
    BY VersionTypes
  <2>4. Told(t)'
    <3>1. passed[t] <= version /\ first[t] <= version /\ (Running(t) => passed[t] = version)
      BY <2>1 DEF Versions, Told
    <3> QED BY <1>1, <2>1, <2>3, <3>1 DEF Told, Running
  <2>5. Dated(t)'
    <3>1. reqOutput[t] = << >>
      BY <2>1 DEF Versions, Quiet, Samples, Sample, Request
    <3>2. \A i \in 1 .. Len(response[t]) : response[t][i].version <= version'
      BY <2>1, <2>3 DEF Versions, Dated
    <3> QED BY <1>1, <3>1, <3>2, NoTokens DEF Versions, Dated
  <2> QED BY <2>2, <2>4, <2>5 DEF Versions
<1>3. CASE ~NewVersion
  <2>1. version' = version
    BY <1>3 DEF Pause, Synchroniser, CancelServer, CancelWorker, Gathered, ResumeServer, ResumeWorker, Resumed
  <2>2. Dated(t)'
    BY <1>1, <2>1, DatedKept DEF Versions
  <2>3. Asked(t)' /\ Quiet(t)' /\ Told(t)'
    <3>1. CASE Pause
      BY <1>1, <2>1, <3>1 DEF Pause, server, Versions, Asked, Quiet, Told, Running
    <3>2. CASE CancelServer
      BY <1>1, <2>1, <3>2 DEF CancelServer, Versions, Asked, Quiet, Told, Running
    <3>3. CASE CancelWorker
      BY <1>1, <2>1, <3>3 DEF CancelWorker, server, Versions, Asked, Quiet, Told, Running
    <3>4. CASE Gathered
      BY <1>1, <2>1, <3>4 DEF Gathered, server, Versions, Asked, Quiet, Told, Running
    <3>5. CASE ResumeServer \/ ResumeWorker
      BY <1>1, <2>1, <3>5 DEF ResumeServer, ResumeWorker, server, Versions, Asked, Quiet, Told, Running
    <3>6. CASE Resumed
      BY <1>1, <2>1, <3>6 DEF Resumed, server, Versions, Asked, Quiet, Told, Running
    <3> QED BY <1>3, <3>1, <3>2, <3>3, <3>4, <3>5, <3>6 DEF Synchroniser
  <2> QED BY <2>2, <2>3 DEF Versions
<1> QED BY <1>2, <1>3

\* Every step keeps the versions.
LEMMA VersionsStep == TypeOK /\ Samples /\ VersionsInv /\ [Next]_vars => VersionsInv'
<1> SUFFICES ASSUME TypeOK, Samples, VersionsInv, [Next]_vars PROVE VersionsInv'
  OBVIOUS
<1>1. CASE \E t \in Trajectories : Start(t) \/ Run(t)
  <2>1. PICK t \in Trajectories : Start(t) \/ Run(t)
    BY <1>1
  <2>2. UNCHANGED control /\ \A u \in Trajectories : u # t => Same(u)
    BY <2>1, OneActs
  <2>3. Versions(t)'
    BY <2>1, <2>2, StartVersions, MoveVersions, ServerVersions, AnswerVersions DEF Run, VersionsInv
  <2>4. \A u \in Trajectories : u # t => Versions(u)'
    BY <2>2, VersionsKept DEF VersionsInv
  <2>5. Flags'
    BY <2>2, FlagsKept DEF VersionsInv
  <2> QED BY <2>3, <2>4, <2>5 DEF VersionsInv
<1>2. CASE Pause \/ Synchroniser
  BY <1>2, FlagsStep, ControlVersions DEF VersionsInv
<1>3. CASE UNCHANGED vars
  <2>1. UNCHANGED control /\ \A u \in Trajectories : Same(u)
    BY <1>3 DEF Same, Own, agent, server, vars
  <2> QED BY <2>1, FlagsKept, VersionsKept DEF VersionsInv
<1> QED BY <1>1, <1>2, <1>3 DEF Next

\* What the invariant says of a completed output.
LEMMA VersionsInvRecorded == TypeOK /\ Samples /\ VersionsInv => VersionsRecorded
<1> SUFFICES ASSUME TypeOK, Samples, VersionsInv PROVE VersionsRecorded
  OBVIOUS
<1>1. phase = "synchronise" => \A t \in Trajectories : at[t] # "engine"
  BY DEF VersionsInv, Versions, Quiet
<1>2. ASSUME NEW t \in Trajectories, NEW i \in DOMAIN response[t], NEW j \in DOMAIN response[t], i < j
      PROVE  response[t][i].version <= response[t][j].version
  <2>1. DOMAIN response[t] = 1 .. Len(response[t])
    BY VersionTypes, LenProperties
  <2> QED BY <1>2, <2>1 DEF VersionsInv, Versions, Dated
<1>3. ASSUME NEW t \in Trajectories, at[t] = "done", NEW i \in DOMAIN out[t].ids
      PROVE  out[t].ids[i].version \in out[t].first .. out[t].last + 1
  <2> DEFINE r == response[t]
             ids == Truncated(r)
  <2>1. r \in Seq(Tokens) /\ Len(mask[t]) = Len(r) /\ out[t] = Output(t)
    BY <1>3 DEF TypeOK, AgentType, Samples, Sample, Completed, Tokenwise, Marked
  <2>2. out[t].ids = Truncated(Newest(r, Len(mask[t]))) /\ out[t].first = first[t] /\ out[t].last = passed[t]
    BY <2>1 DEF Output
  <2>3. Newest(r, Len(mask[t])) = r
    BY <2>1, NewestIsAll
  <2>4. out[t].ids = ids
    BY <2>2, <2>3
  <2>5. DOMAIN ids = 1 .. Len(ids) /\ \A k \in 1 .. Len(ids) : k \in 1 .. Len(r) /\ ids[k] = r[k]
    BY <2>1, TruncatedIs
  <2> HIDE DEF ids
  <2>6. i \in 1 .. Len(r) /\ ids[i] = r[i]
    BY <2>4, <2>5
  <2>7. first[t] <= r[i].version /\ r[i].version <= passed[t] + 1
    BY <2>6 DEF VersionsInv, Versions, Dated
  <2>8. r[i].version \in Nat /\ first[t] \in Nat /\ passed[t] \in Nat
    BY <2>6, VersionTypes
  <2> QED BY <2>2, <2>4, <2>6, <2>7, <2>8
<1> QED BY <1>1, <1>2, <1>3 DEF VersionsRecorded

\* No token is computed while the weights are replaced, the versions along a response
\* only grow, and those an output records enclose those of its tokens, but for one.
THEOREM VersionsSound == Spec => []VersionsRecorded
<1>1. Init => TypeOK /\ Samples /\ VersionsInv
  BY TypeInit, SampleInit, VersionsInit DEF Samples
<1>2. TypeOK /\ Samples /\ VersionsInv /\ [Next]_vars => TypeOK' /\ Samples' /\ VersionsInv'
  BY SampleStep, VersionsStep
<1>3. TypeOK /\ Samples /\ VersionsInv => VersionsRecorded
  BY VersionsInvRecorded
<1> QED BY <1>1, <1>2, <1>3, PTL DEF Spec

-------------------------------------------------------------------------------
(* Tool calls.                                                                *)

\* The server has been paused for a synchronisation.
Cancelling == phase = "cancel" /\ "server" \notin pending

\* The response ends in the middle of a message.
Split(t) ==
  state[t] = "generating" /\ response[t] # << >> /\ response[t][Len(response[t])].by = "model"

\* A message that goes on has been interrupted: its tokens are of an older version, or
\* the interruption is the present one and nothing more is generated before it is over.
Resumes(t) ==
  /\ at[t] = "reply" /\ cut[t] /\ reqOutput[t] # << >> => Cancelling
  /\ Split(t) => \/ response[t][Len(response[t])].version < version
                 \/ Cancelling /\ at[t] # "engine" /\ (at[t] = "reply" => cut[t])
                 \/ phase = "synchronise"

\* All trajectories.
Resumption == \A t \in Trajectories : Resumes(t)

\* No response, no message.
LEMMA ResumesInit == Init => Resumption
BY DEF Init, Resumption, Resumes, Split

\* A trajectory that does nothing.
LEMMA ResumesKept ==
  ASSUME NEW u \in Trajectories, Same(u), UNCHANGED control, Resumes(u)
  PROVE  Resumes(u)'
BY DEF Same, Own, control, Resumes, Split, Cancelling

\* A step that adds nothing to the response.
LEMMA QuietResumes ==
  ASSUME TypeOK, NEW t \in Trajectories, Samples, VersionsInv, Resumes(t), UNCHANGED control,
         Start(t) \/ Interrupt(t) \/ Pending(t) \/ Await(t) \/ Complete(t)
  PROVE  Resumes(t)'
<1> DEFINE Moves == /\ response' = response /\ UNCHANGED << phase, pending, version >>
                    /\ at'[t] \in {"head", "out", "request", "tools", "user", "done"}
                    /\ state'[t] = "generating" => state[t] = "generating" \/ state[t] = "pending"
<1>1. Moves
  <2>1. CASE Start(t)
    <3>1. at'[t] = "head" /\ response' = response /\ UNCHANGED << phase, pending, version >>
      BY <2>1 DEF Start, Goes, control, TypeOK, AgentType
    <3>2. state'[t] = "pending" \/ state'[t] = state[t]
      BY <2>1 DEF Start, Becomes, TypeOK, AgentType
    <3> QED BY <3>1, <3>2
  <2>2. CASE Interrupt(t)
    BY <2>2 DEF Interrupt, Goes, agent, control, TypeOK, AgentType
  <2>3. CASE Pending(t)
    BY <2>3 DEF Pending, Enters, control, TypeOK, AgentType
  <2>4. CASE Await(t)
    BY <2>4 DEF Await, Goes, agent, control, TypeOK, AgentType
  <2>5. CASE Complete(t)
    BY <2>5 DEF Complete, Goes, agent, control, TypeOK, AgentType
  <2> QED BY <2>1, <2>2, <2>3, <2>4, <2>5
<1>2. state[t] = "pending" => response[t] = << >>
  BY DEF Samples, Sample, Started
<1> QED BY <1>1, <1>2 DEF Resumes, Split, Cancelling

\* A paused server gives no token to a message that was interrupted.
LEMMA ServerResumes ==
  ASSUME TypeOK, NEW t \in Trajectories, VersionsInv, Resumes(t), UNCHANGED control,
         Accept(t) \/ EngineStep(t) \/ Replied(t)
  PROVE  Resumes(t)'
<1>1. UNCHANGED << response, state, phase, pending, version, paused >>
  BY DEF Accept, EngineStep, Replied, agent, control
<1>2. CASE Accept(t)
  <2>1. /\ reqOutput'[t] = << >> /\ cut'[t] = paused /\ at'[t] = IF paused THEN "reply" ELSE "engine"
    BY <1>2 DEF Accept, Refuses, Goes, TypeOK, AgentType, ServerType
  <2>2. Cancelling => paused
    BY DEF VersionsInv, Flags, Cancelling
  <2> QED BY <1>1, <2>1, <2>2 DEF Resumes, Split, Cancelling
<1>3. CASE EngineStep(t)
  <2>1. at[t] = "engine" /\ at' = at
    BY <1>3 DEF EngineStep
  <2> QED BY <1>1, <2>1 DEF Resumes, Split, Cancelling
<1>4. CASE Replied(t)
  <2>1. at[t] = "engine" /\ at'[t] = "reply"
    BY <1>4 DEF Replied, Goes, TypeOK, AgentType
  <2>2. cut'[t] => t \in asked
    BY <1>4 DEF Replied, TypeOK, ServerType
  <2>3. t \in asked => Cancelling
    BY DEF VersionsInv, Versions, Asked, Cancelling
  <2> QED BY <1>1, <2>1, <2>2, <2>3 DEF Resumes, Split, Cancelling
<1> QED BY <1>2, <1>3, <1>4

\* The last token of a response that has grown.
LEMMA LastToken ==
  ASSUME TypeOK, NEW t \in Trajectories, NEW ids \in Seq(Tokens), NEW b \in BOOLEAN, Extend(t, ids, b), ids # << >>
  PROVE  /\ Len(response'[t]) = Len(response[t]) + Len(ids) /\ Len(response[t]) \in Nat /\ Len(ids) \in Nat
         /\ Len(response'[t]) >= 1 /\ Len(ids) >= 1 /\ response'[t][Len(response'[t])] = ids[Len(ids)]
<1>1. /\ Len(response[t]) \in Nat /\ Len(ids) \in Nat /\ Len(response'[t]) = Len(response[t]) + Len(ids)
      /\ \A i \in Len(response[t]) + 1 .. Len(response'[t]) : response'[t][i] = ids[i - Len(response[t])]
  BY ExtendType
<1>2. Len(ids) >= 1
  BY <1>1, EmptySeq
<1>3. Len(response'[t]) \in Len(response[t]) + 1 .. Len(response'[t]) /\ Len(response'[t]) - Len(response[t]) = Len(ids)
  BY <1>1, <1>2
<1>4. response'[t][Len(response'[t])] = ids[Len(response'[t]) - Len(response[t])]
  BY <1>1, <1>3
<1> QED BY <1>1, <1>2, <1>3, <1>4

\* A response to which no token is added.
LEMMA ExtendNothing ==
  ASSUME TypeOK, NEW t \in Trajectories, NEW b, Extend(t, << >>, b)
  PROVE  response'[t] = response[t]
<1>1. response[t] \in Seq(Tokens)
  BY DEF TypeOK, AgentType
<1>2. response[t] \o << >> = response[t]
  BY <1>1, ConcatEmptySeq
<1> QED BY <1>2 DEF Extend, TypeOK, AgentType

\* An interrupted reply: the interruption is the present one.
LEMMA HandleResumes ==
  ASSUME TypeOK, NEW t \in Trajectories, Samples, VersionsInv, Resumes(t), UNCHANGED control,
         HandleFragment(t) \/ HandleMessage(t)
  PROVE  Resumes(t)'
<1>1. at[t] = "reply" /\ at'[t] = "head" /\ Extend(t, reqOutput[t], TRUE) /\ state[t] = "generating"
      /\ UNCHANGED << phase, pending, version >>
  BY DEF HandleFragment, HandleMessage, Goes, control, TypeOK, AgentType, Samples, Sample, InState
<1>2. CASE HandleMessage(t)
  <2>1. state'[t] # "generating"
    BY <1>2 DEF HandleMessage, Becomes, NextState, TypeOK, AgentType
  <2> QED BY <1>1, <2>1 DEF Resumes, Split
<1>3. CASE HandleFragment(t)
  <2>1. cut[t]
    BY <1>3 DEF HandleFragment
  <2>2. CASE reqOutput[t] = << >>
    <3>1. response'[t] = response[t]
      BY <1>1, <2>2, ExtendNothing
    <3> QED BY <1>1, <2>1, <3>1 DEF Resumes, Split, Cancelling
  <2>3. CASE reqOutput[t] # << >>
    <3>1. Cancelling
      BY <1>1, <2>1, <2>3 DEF Resumes
    <3> QED BY <1>1, <3>1 DEF Resumes, Cancelling
  <2> QED BY <2>2, <2>3
<1> QED BY <1>2, <1>3

\* After an answer no message is split.
LEMMA AnswerResumes ==
  ASSUME TypeOK, NEW t \in Trajectories, Resumes(t), UNCHANGED control,
         ToolsAnswer(t) \/ InteractionAnswers(t)
  PROVE  Resumes(t)'
<1>1. at'[t] = "head"
  BY DEF ToolsAnswer, InteractionAnswers, Goes, TypeOK, AgentType
<1>2. ASSUME NEW x \in {"tool", "user"}, NEW texts, Says(x, texts) \in Seq(Tokens), Says(x, texts) # << >>,
             \A i \in 1 .. Len(Says(x, texts)) : Says(x, texts)[i].by = x, Extend(t, Says(x, texts), FALSE)
      PROVE  Resumes(t)'
  <2> DEFINE ids == Says(x, texts)
  <2>1. ids \in Seq(Tokens) /\ ids # << >> /\ Extend(t, ids, FALSE) /\ \A i \in 1 .. Len(ids) : ids[i].by = x
    BY <1>2
  <2> HIDE DEF ids
  <2>2. Len(ids) \in Nat /\ Len(ids) >= 1 /\ response'[t][Len(response'[t])] = ids[Len(ids)]
    BY <2>1, LastToken
  <2>3. ids[Len(ids)].by = x
    BY <2>1, <2>2
  <2> QED BY <1>1, <2>2, <2>3 DEF Resumes, Split
<1>3. CASE ToolsAnswer(t)
  <2>1. state' = [state EXCEPT ![t] = "terminated"] \/ \E texts \in ToolTexts : Extend(t, Says("tool", texts), FALSE)
    BY <1>3 DEF ToolsAnswer, Becomes
  <2>2. CASE state' = [state EXCEPT ![t] = "terminated"]
    BY <1>1, <2>2 DEF Resumes, Split, TypeOK, AgentType
  <2> QED BY <1>2, <2>1, <2>2, TokenType, SaysFacts
<1>4. CASE InteractionAnswers(t)
  <2>1. \E texts \in UserTexts : Extend(t, Says("user", texts), FALSE)
    BY <1>4 DEF InteractionAnswers
  <2>2. PICK texts \in UserTexts : Extend(t, Says("user", texts), FALSE)
    BY <2>1
  <2>3. \A i \in 1 .. Len(Says("user", texts)) : Says("user", texts)[i].by = "user"
    BY SaysFacts
  <2>4. Says("user", texts) \in Seq(Tokens) /\ Says("user", texts) # << >>
    BY TokenType, SaysFacts
  <2> QED BY <1>2, <2>2, <2>3, <2>4
<1> QED BY <1>3, <1>4

\* The new version makes the tokens of a split message old.
LEMMA ControlResumes ==
  ASSUME TypeOK, NEW t \in Trajectories, VersionsInv, Resumes(t), Pause \/ Synchroniser
  PROVE  Resumes(t)'
<1>1. UNCHANGED << at, state, response, reqOutput, cut >>
  BY ControlStepType DEF agent
<1>2. CASE NewVersion
  <2>1. phase = "synchronise" /\ version' = version + 1
    BY <1>2 DEF NewVersion
  <2>2. at[t] # "reply"
    BY <2>1 DEF VersionsInv, Versions, Quiet
  <2>3. response[t] # << >> => response[t][Len(response[t])].version < version'
    <3>1. ASSUME response[t] # << >> PROVE response[t][Len(response[t])].version < version'
      <4> DEFINE n == Len(response[t])
                 v == response[t][n].version
      <4>1. n \in Nat /\ n >= 1 /\ version \in Nat /\ \A i \in 1 .. n : response[t][i].version \in Nat
        BY <3>1, VersionTypes, EmptySeq
      <4>2. \A i \in 1 .. n : response[t][i].version <= version
        BY DEF VersionsInv, Versions, Dated
      <4> HIDE DEF n
      <4>3. n \in 1 .. n
        BY <4>1
      <4>4. v \in Nat /\ v <= version
        BY <4>1, <4>2, <4>3
      <4> HIDE DEF v
      <4>5. v < version'
        BY <2>1, <4>1, <4>4
      <4> QED BY <4>5 DEF v, n
    <3> QED BY <3>1
  <2> QED BY <1>1, <2>2, <2>3 DEF Resumes, Split
<1>3. CASE ~NewVersion
  <2>1. version' = version
    BY <1>3 DEF Pause, Synchroniser, CancelServer, CancelWorker, Gathered, ResumeServer, ResumeWorker, Resumed
  <2>2. CASE Pause
    BY <1>1, <2>1, <2>2 DEF Pause, Resumes, Split, Cancelling
  <2>3. CASE CancelServer
    BY <1>1, <2>1, <2>3 DEF CancelServer, Resumes, Split, Cancelling
  <2>4. CASE CancelWorker
    BY <1>1, <2>1, <2>4 DEF CancelWorker, Resumes, Split, Cancelling
  <2>5. CASE Gathered
    <3>1. at[t] # "reply" /\ phase' = "synchronise"
      BY <2>5 DEF Gathered
    <3> QED BY <1>1, <3>1 DEF Resumes
  <2>6. CASE ResumeServer \/ ResumeWorker \/ Resumed
    BY <1>1, <2>1, <2>6 DEF ResumeServer, ResumeWorker, Resumed, Resumes, Split, Cancelling
  <2> QED BY <1>3, <2>2, <2>3, <2>4, <2>5, <2>6 DEF Synchroniser
<1> QED BY <1>2, <1>3

\* Every step keeps it.
LEMMA ResumptionStep == TypeOK /\ Samples /\ VersionsInv /\ Resumption /\ [Next]_vars => Resumption'
<1> SUFFICES ASSUME TypeOK, Samples, VersionsInv, Resumption, [Next]_vars, NEW u \in Trajectories PROVE Resumes(u)'
  BY DEF Resumption
<1>1. Resumes(u)
  BY DEF Resumption
<1>2. CASE \E t \in Trajectories : Start(t) \/ Run(t)
  <2>1. PICK t \in Trajectories : Start(t) \/ Run(t)
    BY <1>2
  <2>2. UNCHANGED control /\ \A x \in Trajectories : x # t => Same(x)
    BY <2>1, OneActs
  <2>3. CASE u # t
    BY <1>1, <2>2, <2>3, ResumesKept
  <2>4. CASE u = t
    BY <1>1, <2>1, <2>2, <2>4, QuietResumes, ServerResumes, HandleResumes, AnswerResumes DEF Run
  <2> QED BY <2>3, <2>4
<1>3. CASE Pause \/ Synchroniser
  BY <1>1, <1>3, ControlResumes
<1>4. CASE UNCHANGED vars
  <2>1. UNCHANGED control /\ Same(u)
    BY <1>4 DEF Same, Own, agent, server, vars
  <2> QED BY <1>1, <2>1, ResumesKept
<1> QED BY <1>2, <1>3, <1>4 DEF Next

\* The only step from a complete reply back to the machine.
LEMMA MessageStep ==
  ASSUME TypeOK, [Next]_vars, NEW t \in Trajectories, at[t] = "reply", at'[t] = "head", ~cut[t]
  PROVE  HandleMessage(t)
<1>1. CASE \E u \in Trajectories : Start(u) \/ Run(u)
  <2>1. PICK u \in Trajectories : Start(u) \/ Run(u)
    BY <1>1
  <2>2. u = t
    BY <2>1, OneActs DEF Same, Own
  <2>3. ~(Start(t) \/ Interrupt(t) \/ Pending(t) \/ Await(t) \/ Complete(t))
    BY DEF Start, Interrupt, Interrupted, Pending, Await, Complete, Enters
  <2>4. ~(Accept(t) \/ EngineStep(t) \/ Replied(t) \/ ToolsAnswer(t) \/ InteractionAnswers(t) \/ HandleFragment(t))
    BY DEF Accept, EngineStep, Replied, ToolsAnswer, InteractionAnswers, HandleFragment
  <2> QED BY <2>1, <2>2, <2>3, <2>4 DEF Run
<1>2. CASE Pause \/ Synchroniser
  BY <1>2, ControlStepType
<1>3. CASE UNCHANGED vars
  BY <1>3 DEF vars
<1> QED BY <1>1, <1>2, <1>3 DEF Next

\* A call in tokens of one version is within one reply, and the parser sees it.
LEMMA PassedOver ==
  ASSUME TypeOK, Samples, VersionsInv, Resumption, NEW t \in Trajectories, HandleMessage(t), state'[t] # "tools",
         Len(response'[t]) < ResponseLength, ~TurnsUsedUp(t),
         NEW i \in 1 .. Len(response'[t]), NEW j \in 1 .. Len(response'[t]), i < j,
         response'[t][i].text = "<", response'[t][j].text = ">",
         \A k \in i .. Len(response'[t]) :
            response'[t][k].by = "model" /\ response'[t][k].version = response'[t][Len(response'[t])].version
  PROVE  FALSE
<1> DEFINE r == response[t]
           s == response'[t]
           q == reqOutput[t]
           m == Len(r)
           n == Len(s)
<1>1. /\ at[t] = "reply" /\ ~cut[t] /\ Extend(t, q, TRUE) /\ q \in Seq(Tokens) /\ q # << >> /\ state[t] = "generating"
      /\ \A k \in 1 .. Len(q) : q[k].by = "model" /\ q[k].version = version
  BY DEF HandleMessage, TypeOK, ServerType, Samples, Sample, InState, Request, VersionsInv, Versions, Dated
<1>2. TRUE \in BOOLEAN /\ \A k \in 1 .. Len(q) : q[k].by = "model" <=> TRUE
  BY <1>1
<1>3. /\ m \in Nat /\ Len(q) \in Nat /\ n = m + Len(q)
      /\ \A k \in 1 .. m : s[k] = r[k]
      /\ \A k \in m + 1 .. n : k - m \in 1 .. Len(q) /\ s[k] = q[k - m]
      /\ Marked(s, mask'[t], logprobs'[t])
  BY <1>1, <1>2, ExtendType DEF Samples, Sample, Tokenwise
<1>4. Len(q) >= 1 /\ s[n] = q[Len(q)]
  BY <1>1, LastToken
<1>5. ~Full(t)
  <2>1. Len(mask'[t]) = n
    BY <1>3 DEF Marked
  <2>2. n < ResponseLength /\ ResponseLength \in Nat
    BY AgentAssumption
  <2> HIDE DEF n, m, q, s
  <2>3. n \in Nat
    BY <1>3
  <2>4. ~(n >= ResponseLength)
    BY <2>2, <2>3
  <2> QED BY <2>1, <2>4 DEF Full
<1>6. ~CallsIn(q)
  <2>1. state'[t] = NextState(t)
    BY DEF HandleMessage, Becomes, TypeOK, AgentType
  <2> QED BY <1>5, <2>1 DEF NextState
<1>7. DOMAIN q = 1 .. Len(q)
  BY <1>1, LenProperties
<1>8. s[n].version = version
  <2>1. Len(q) \in 1 .. Len(q)
    BY <1>3, <1>4
  <2> QED BY <1>1, <1>4, <2>1
<1>9. i \in 1 .. n /\ j \in 1 .. n /\ i < j /\ s[i].text = "<" /\ s[j].text = ">"
      /\ \A k \in i .. n : s[k].by = "model" /\ s[k].version = s[n].version
  OBVIOUS
<1> HIDE DEF s, q, r, m, n
<1>10. CASE i \in m + 1 .. n
  <2>1. j \in m + 1 .. n /\ i - m < j - m
    BY <1>3, <1>9, <1>10
  <2>2. i - m \in DOMAIN q /\ j - m \in DOMAIN q /\ q[i - m].text = "<" /\ q[j - m].text = ">"
    BY <1>3, <1>7, <1>9, <1>10, <2>1
  <2> QED BY <1>6, <2>1, <2>2 DEF CallsIn
<1>11. CASE i \in 1 .. m
  <2>1. m \in i .. n /\ m \in 1 .. m
    BY <1>3, <1>9, <1>11
  <2>2. r[m].by = "model" /\ r[m].version = version
    BY <1>3, <1>8, <1>9, <2>1
  <2>3. r # << >>
    <3>1. m # 0
      BY <2>1
    <3> QED BY <3>1 DEF m
  <2>4. Split(t)
    BY <1>1, <2>2, <2>3 DEF Split, r, m
  <2>5. version \in Nat
    BY DEF TypeOK, ControlType
  <2>6. phase # "synchronise"
    BY <1>1 DEF VersionsInv, Versions, Quiet
  <2>7. r[m].version < version
    BY <1>1, <2>4, <2>6 DEF Resumption, Resumes, r, m
  <2> QED BY <2>2, <2>5, <2>7
<1> QED BY <1>3, <1>9, <1>10, <1>11

\* So every step of the loop sees the calls that were not split.
LEMMA CallsSeenStep ==
  TypeOK /\ Samples /\ VersionsInv /\ Resumption /\ [Next]_vars =>
    \A t \in Trajectories :
      LET s == response'[t]
          n == Len(s)
      IN  at[t] = "reply" /\ at'[t] = "head" /\ ~cut[t] /\ state'[t] # "tools" /\ n < ResponseLength /\ ~TurnsUsedUp(t)
            => ~ \E i, j \in 1 .. n : i < j /\ s[i].text = "<" /\ s[j].text = ">"
                   /\ \A k \in i .. n : s[k].by = "model" /\ s[k].version = s[n].version
<1> SUFFICES ASSUME TypeOK, Samples, VersionsInv, Resumption, [Next]_vars, NEW t \in Trajectories,
                    at[t] = "reply", at'[t] = "head", ~cut[t], state'[t] # "tools",
                    Len(response'[t]) < ResponseLength, ~TurnsUsedUp(t),
                    NEW i \in 1 .. Len(response'[t]), NEW j \in 1 .. Len(response'[t]), i < j,
                    response'[t][i].text = "<", response'[t][j].text = ">",
                    \A k \in i .. Len(response'[t]) :
                       response'[t][k].by = "model" /\ response'[t][k].version = response'[t][Len(response'[t])].version
             PROVE  FALSE
  OBVIOUS
<1>1. HandleMessage(t)
  BY MessageStep
<1> QED BY <1>1, PassedOver

\* A tool call that the loop passes over, with room left in the response and turns to
\* spare, was split by an interruption, between tokens of two versions: no call within
\* the tokens of one version is ever overlooked.
THEOREM CallsSound == Spec => CallsSeen
<1>1. Init => TypeOK /\ Samples /\ VersionsInv /\ Resumption
  BY TypeInit, SampleInit, VersionsInit, ResumesInit DEF Samples
<1>2. TypeOK /\ Samples /\ VersionsInv /\ Resumption /\ [Next]_vars => TypeOK' /\ Samples' /\ VersionsInv' /\ Resumption'
  BY SampleStep, VersionsStep, ResumptionStep
<1>3. TypeOK /\ Samples /\ VersionsInv /\ Resumption /\ [Next]_vars =>
        [\A t \in Trajectories :
           LET s == response'[t]
               n == Len(s)
           IN  at[t] = "reply" /\ at'[t] = "head" /\ ~cut[t] /\ state'[t] # "tools" /\ n < ResponseLength /\ ~TurnsUsedUp(t)
                 => ~ \E i, j \in 1 .. n : i < j /\ s[i].text = "<" /\ s[j].text = ">"
                        /\ \A k \in i .. n : s[k].by = "model" /\ s[k].version = s[n].version]_vars
  BY CallsSeenStep
<1> QED BY <1>1, <1>2, <1>3, PTL DEF Spec, CallsSeen

-------------------------------------------------------------------------------
(* Turns.                                                                     *)

\* A set of natural numbers has a least one.
LEMMA LeastNatural ==
  ASSUME NEW S, S \subseteq Nat, S # {}
  PROVE  \E k \in S : \A j \in S : k <= j
<1> DEFINE Less == OpToRel(<, Nat)
<1>1. IsWellFoundedOn(Less, Nat)
  BY NatLessThanWellFounded
<1>2. \A i, j \in Nat : << i, j >> \in Less <=> i < j
  BY DEF OpToRel
<1> HIDE DEF Less
<1>3. PICK k \in S : \A j \in S : ~(<< j, k >> \in Less)
  BY <1>1, WFMin
<1>4. ASSUME NEW j \in S PROVE k <= j
  <2>1. j \in Nat /\ k \in Nat
    OBVIOUS
  <2>2. ~(j < k)
    BY <1>2, <1>3, <2>1
  <2> QED BY <2>1, <2>2
<1> QED BY <1>4

\* The tokens that are not the model's, and a response without the message after them.
Others(s) == {i \in DOMAIN s : s[i].by # "model"}
Whole(s) == SubSeq(s, 1, IF Others(s) = {} THEN 0 ELSE Max(Others(s)))

\* The last of the others.
LEMMA GreatestOther ==
  ASSUME NEW s \in Seq(Tokens), Others(s) # {}
  PROVE  /\ Max(Others(s)) \in 1 .. Len(s) /\ s[Max(Others(s))].by # "model"
         /\ \A k \in Max(Others(s)) + 1 .. Len(s) : s[k].by = "model"
<1> DEFINE O == Others(s)
           n == Len(s)
           U == {b \in Nat : \A i \in O : i <= b}
<1>1. n \in Nat /\ O \subseteq 1 .. n /\ \A i \in 1 .. n : i \in O <=> s[i].by # "model"
  BY LenProperties DEF Others
<1> HIDE DEF O, n
<1>2. U \subseteq Nat /\ n \in U
  BY <1>1
<1>3. PICK b \in U : \A j \in U : b <= j
  BY <1>2, LeastNatural
<1>4. b \in Nat /\ \A i \in O : i <= b
  BY <1>3
<1>5. PICK x \in O : TRUE
  BY DEF O
<1>6. b \in O
  <2>1. SUFFICES ASSUME b \notin O PROVE FALSE
    OBVIOUS
  <2>2. x \in 1 .. n /\ x <= b
    BY <1>1, <1>4, <1>5
  <2>3. b - 1 \in Nat
    BY <1>1, <1>4, <2>2
  <2>4. ASSUME NEW i \in O PROVE i <= b - 1
    <3>1. i \in 1 .. n /\ i <= b /\ i # b
      BY <1>1, <1>4, <2>1
    <3> QED BY <1>1, <1>4, <3>1
  <2>5. b - 1 \in U
    BY <2>3, <2>4
  <2>6. b <= b - 1
    BY <1>3, <2>5
  <2> QED BY <1>4, <2>6
<1>7. \E m \in O : \A y \in O : m >= y
  <2>1. \A y \in O : b >= y
    BY <1>1, <1>4
  <2> QED BY <1>6, <2>1
<1> DEFINE M == Max(O)
<1>8. M \in O /\ \A y \in O : M >= y
  BY <1>7 DEF Max
<1> HIDE DEF M
<1>9. ASSUME NEW k \in M + 1 .. n PROVE s[k].by = "model"
  <2>1. k \in 1 .. n /\ ~(M >= k)
    BY <1>1, <1>8
  <2> QED BY <1>1, <1>8, <2>1
<1> QED BY <1>1, <1>8, <1>9 DEF M, O, n

\* What is left are the tokens up to it.
LEMMA WholeIs ==
  ASSUME NEW s \in Seq(Tokens)
  PROVE  LET w == Whole(s) IN
         /\ w \in Seq(Tokens) /\ Len(w) \in 0 .. Len(s) /\ Len(s) \in Nat /\ Len(w) \in Nat
         /\ \A k \in 1 .. Len(w) : w[k] = s[k]
         /\ \A k \in Len(w) + 1 .. Len(s) : s[k].by = "model"
         /\ Len(w) # 0 => s[Len(w)].by # "model"
<1> DEFINE p == IF Others(s) = {} THEN 0 ELSE Max(Others(s))
           w == SubSeq(s, 1, p)
<1>1. Len(s) \in Nat /\ DOMAIN s = 1 .. Len(s) /\ \A i \in 1 .. Len(s) : s[i] \in Tokens
  BY LenProperties, ElementOfSeq
<1>2. /\ p \in 0 .. Len(s) /\ (p # 0 => s[p].by # "model")
      /\ \A k \in p + 1 .. Len(s) : s[k].by = "model"
  <2>1. CASE Others(s) = {}
    BY <1>1, <2>1 DEF Others
  <2>2. CASE Others(s) # {}
    <3>1. p = Max(Others(s))
      BY <2>2
    <3> HIDE DEF p
    <3> QED BY <1>1, <2>2, <3>1, GreatestOther
  <2> QED BY <2>1, <2>2
<1> HIDE DEF p
<1>3. p \in Nat /\ \A i \in 1 .. p : i \in 1 .. Len(s) /\ s[i] \in Tokens
  BY <1>1, <1>2
<1>4. w \in Seq(Tokens) /\ Len(w) = (IF 1 <= p THEN p - 1 + 1 ELSE 0) /\ \A i \in 1 .. p - 1 + 1 : w[i] = s[1 + i - 1]
  BY <1>3, SubSeqProperties
<1> HIDE DEF w
<1>5. Len(w) = p /\ \A i \in 1 .. p : w[i] = s[i]
  BY <1>3, <1>4
<1>6. Whole(s) = w
  BY DEF Whole, w, p
<1> QED BY <1>1, <1>2, <1>3, <1>4, <1>5, <1>6

\* Nothing is left of nothing.
LEMMA WholeEmpty == Whole(<< >>) = << >>
<1>1. << >> \in Seq(Tokens) /\ Len(<< >>) = 0
  OBVIOUS
<1>2. Whole(<< >>) \in Seq(Tokens) /\ Len(Whole(<< >>)) \in 0 .. 0
  BY <1>1, WholeIs
<1>3. Len(Whole(<< >>)) = 0
  BY <1>2
<1> QED BY <1>2, <1>3, EmptySeq

\* All is left of a response that ends in another's token.
LEMMA WholeAll ==
  ASSUME NEW s \in Seq(Tokens), s # << >>, s[Len(s)].by # "model"
  PROVE  Whole(s) = s
<1> DEFINE w == Whole(s)
<1>1. /\ w \in Seq(Tokens) /\ Len(w) \in 0 .. Len(s) /\ Len(s) \in Nat
      /\ \A k \in 1 .. Len(w) : w[k] = s[k]
      /\ \A k \in Len(w) + 1 .. Len(s) : s[k].by = "model"
  BY WholeIs
<1> HIDE DEF w
<1>2. Len(s) >= 1
  BY <1>1, EmptySeq
<1>3. Len(w) = Len(s)
  BY <1>1, <1>2
<1> QED BY <1>1, <1>3, SeqEqual DEF w

\* More tokens of the model make no difference.
LEMMA WholeKept ==
  ASSUME NEW s \in Seq(Tokens), NEW r \in Seq(Tokens), Len(s) <= Len(r),
         \A k \in 1 .. Len(s) : r[k] = s[k], \A k \in Len(s) + 1 .. Len(r) : r[k].by = "model"
  PROVE  Whole(r) = Whole(s)
<1> DEFINE w == Whole(s)
           v == Whole(r)
           p == Len(w)
           q == Len(v)
           n == Len(s)
           m == Len(r)
<1>1. /\ w \in Seq(Tokens) /\ p \in 0 .. n /\ n \in Nat /\ p \in Nat /\ \A k \in 1 .. p : w[k] = s[k]
      /\ \A k \in p + 1 .. n : s[k].by = "model"
      /\ p # 0 => s[p].by # "model"
  BY WholeIs
<1>2. /\ v \in Seq(Tokens) /\ q \in 0 .. m /\ m \in Nat /\ q \in Nat /\ \A k \in 1 .. q : v[k] = r[k]
      /\ \A k \in q + 1 .. m : r[k].by = "model"
      /\ q # 0 => r[q].by # "model"
  BY WholeIs
<1>3. /\ n <= m /\ \A k \in 1 .. n : r[k] = s[k]
      /\ \A k \in n + 1 .. m : r[k].by = "model"
  OBVIOUS
<1> HIDE DEF w, v, p, q, n, m
<1>4. ~(q < p)
  <2>1. SUFFICES ASSUME q < p PROVE FALSE
    OBVIOUS
  <2>2. p # 0 /\ p \in 1 .. n /\ p \in q + 1 .. m
    BY <1>1, <1>2, <1>3, <2>1
  <2>3. r[p] = s[p]
    BY <1>3, <2>2
  <2> QED BY <1>1, <1>2, <2>2, <2>3
<1>5. ~(p < q)
  <2>1. SUFFICES ASSUME p < q PROVE FALSE
    OBVIOUS
  <2>2. q # 0
    BY <1>1, <1>2, <2>1
  <2>3. CASE q <= n
    <3>1. q \in p + 1 .. n /\ q \in 1 .. n
      BY <1>1, <1>2, <2>1, <2>3
    <3> QED BY <1>1, <1>2, <1>3, <2>2, <3>1
  <2>4. CASE ~(q <= n)
    <3>1. q \in n + 1 .. m
      BY <1>1, <1>2, <2>4
    <3> QED BY <1>2, <1>3, <2>2, <3>1
  <2> QED BY <2>3, <2>4
<1>6. p = q
  BY <1>1, <1>2, <1>4, <1>5
<1>7. \A k \in 1 .. q : v[k] = w[k]
  <2>1. \A k \in 1 .. q : k \in 1 .. n
    BY <1>1, <1>6
  <2> QED BY <1>1, <1>2, <1>3, <1>6, <2>1
<1>8. v = w
  BY <1>1, <1>2, <1>6, <1>7, SeqEqual DEF p, q
<1> QED BY <1>8 DEF v, w

\* Sequence c has the tokens of a and then some of x.
Longer(a, c, x) ==
  /\ Len(c) > Len(a) /\ IsPrefix(a, c)
  /\ \A i \in Len(a) + 1 .. Len(c) : c[i].by = x

\* It has, if the tokens are.
LEMMA LongerIs ==
  ASSUME NEW a \in Seq(Tokens), NEW c \in Seq(Tokens), NEW x, Len(a) < Len(c),
         \A k \in 1 .. Len(a) : c[k] = a[k], \A k \in Len(a) + 1 .. Len(c) : c[k].by = x
  PROVE  Longer(a, c, x)
<1> DEFINE n == Len(a)
           b == SubSeq(c, 1, n)
<1>1. n \in Nat /\ Len(c) \in Nat /\ \A i \in 1 .. Len(c) : c[i] \in Tokens
  BY LenProperties, ElementOfSeq
<1>2. \A i \in 1 .. n : c[i] \in Tokens
  BY <1>1
<1>3. b \in Seq(Tokens) /\ Len(b) = (IF 1 <= n THEN n - 1 + 1 ELSE 0) /\ \A i \in 1 .. n - 1 + 1 : b[i] = c[1 + i - 1]
  <2> HIDE DEF n
  <2> QED BY <1>1, <1>2, SubSeqProperties
<1> HIDE DEF b
<1>4. Len(b) = n /\ \A i \in 1 .. n : b[i] = c[i]
  <2> HIDE DEF n
  <2> QED BY <1>1, <1>3
<1>5. b = a
  <2>1. Len(a) = Len(b) /\ \A i \in 1 .. Len(a) : a[i] = b[i]
    BY <1>4
  <2> QED BY <1>3, <2>1, SeqEqual
<1>6. SubSeq(a, 1, n) = a
  BY SubSeqFull
<1>7. Len(c) > Len(a) /\ Len(a) <= Len(c)
  BY <1>1
<1>8. IsPrefix(a, c)
  BY <1>5, <1>6, <1>7 DEF IsPrefix, b
<1> QED BY <1>7, <1>8 DEF Longer

\* The last message of the model in s has a call.
CallAtEnd(s) == \E i, j \in 1 .. Len(s) :
  /\ i < j /\ s[i].text = "<" /\ s[j].text = ">"
  /\ \A k \in i .. Len(s) : s[k].by = "model"

\* Tools answer a message with a call, an interaction one without, if there is one.
Turned(t) ==
  /\ state[t] \in {"tools", "interacting"} => response[t] # << >> /\ response[t][Len(response[t])].by = "model"
  /\ state[t] = "interacting" => Interaction
  /\ state[t] = "tools" => CallAtEnd(response[t])

\* All trajectories.
TurnsInv == \A t \in Trajectories : Turned(t)

\* At the start nobody answers.
LEMMA TurnedInit == Init => TurnsInv
BY DEF Init, TurnsInv, Turned

\* What a step of another trajectory or of the synchroniser leaves alone.
Silent(t) == response'[t] = response[t] /\ state'[t] = state[t]

\* Such a step keeps the turns.
LEMMA TurnedKept ==
  ASSUME NEW t \in Trajectories, Silent(t), Turned(t)
  PROVE  Turned(t)'
BY DEF Silent, Turned

\* A message: complete, and what follows it.
LEMMA MessageIs ==
  ASSUME TypeOK, NEW t \in Trajectories, Sample(t), HandleMessage(t)
  PROVE  /\ state[t] = "generating" /\ reqOutput[t] # << >> /\ state'[t] = NextState(t)
         /\ response'[t] # << >> /\ response'[t][Len(response'[t])].by = "model"
         /\ state'[t] = "tools" => CallAtEnd(response'[t])
         /\ state'[t] = "interacting" => Interaction
         /\ state'[t] # "terminated" => ~(Len(response'[t]) >= ResponseLength)
<1> DEFINE s == response'[t]
           q == reqOutput[t]
           m == Len(response[t])
           n == Len(s)
<1>1. /\ Extend(t, q, TRUE) /\ q \in Seq(Tokens) /\ q # << >> /\ state[t] = "generating"
      /\ \A k \in 1 .. Len(q) : q[k].by = "model"
      /\ state'[t] = NextState(t)
  BY DEF HandleMessage, Becomes, TypeOK, AgentType, ServerType, Sample, InState, Request
<1>2. TRUE \in BOOLEAN /\ \A k \in 1 .. Len(q) : q[k].by = "model" <=> TRUE
  BY <1>1
<1>3. /\ m \in Nat /\ Len(q) \in Nat /\ n = m + Len(q)
      /\ \A k \in m + 1 .. n : k - m \in 1 .. Len(q) /\ s[k] = q[k - m]
      /\ Marked(s, mask'[t], logprobs'[t])
  BY <1>1, <1>2, ExtendType DEF Sample, Tokenwise
<1>4. n >= 1 /\ Len(q) >= 1 /\ s[n] = q[Len(q)]
  BY <1>1, LastToken
<1>5. DOMAIN q = 1 .. Len(q)
  BY <1>1, LenProperties
<1>6. Len(mask'[t]) = n
  BY <1>3 DEF Marked
<1>7. s # << >>
  BY <1>4
<1> HIDE DEF s, q, m, n
<1>8. s[n].by = "model"
  <2>1. Len(q) \in 1 .. Len(q)
    BY <1>3, <1>4
  <2> QED BY <1>1, <1>4, <2>1
<1>9. ASSUME CallsIn(q) PROVE CallAtEnd(s)
  <2>1. PICK i \in 1 .. Len(q), j \in 1 .. Len(q) : i < j /\ q[i].text = "<" /\ q[j].text = ">"
    BY <1>5, <1>9 DEF CallsIn
  <2>2. /\ m + i \in m + 1 .. n /\ m + j \in m + 1 .. n /\ m + i < m + j
        /\ (m + i) - m = i /\ (m + j) - m = j /\ m + i \in 1 .. n /\ m + j \in 1 .. n
    BY <1>3, <2>1
  <2>3. s[m + i].text = "<" /\ s[m + j].text = ">"
    BY <1>3, <2>1, <2>2
  <2>4. ASSUME NEW k \in m + i .. n PROVE s[k].by = "model"
    <3>1. k \in m + 1 .. n
      BY <1>3, <2>1
    <3> QED BY <1>1, <1>3, <3>1
  <2> QED BY <2>2, <2>3, <2>4 DEF CallAtEnd, n
<1>10. state'[t] = "tools" => CallsIn(q)
  BY <1>1 DEF NextState, q
<1>11. state'[t] = "interacting" => Interaction
  BY <1>1 DEF NextState
<1>12. state'[t] # "terminated" => ~(n >= ResponseLength)
  BY <1>1, <1>6 DEF NextState, Full
<1> QED BY <1>1, <1>7, <1>8, <1>9, <1>10, <1>11, <1>12 DEF s, q, n

\* Every step keeps them.
LEMMA TurnedStep == TypeOK /\ Samples /\ TurnsInv /\ [Next]_vars => TurnsInv'
<1> SUFFICES ASSUME TypeOK, Samples, TurnsInv, [Next]_vars, NEW u \in Trajectories PROVE Turned(u)'
  BY DEF TurnsInv
<1>1. Turned(u) /\ Sample(u)
  BY DEF TurnsInv, Samples
<1>2. CASE \E t \in Trajectories : Start(t) \/ Run(t)
  <2>1. PICK t \in Trajectories : Start(t) \/ Run(t)
    BY <1>2
  <2>2. CASE u # t
    <3>1. Silent(u)
      BY <2>1, <2>2, OneActs DEF Same, Own, Silent
    <3> QED BY <1>1, <3>1, TurnedKept
  <2>3. CASE u = t
    <3>1. CASE Interrupt(t) \/ Await(t) \/ Accept(t) \/ EngineStep(t) \/ Replied(t) \/ Complete(t)
      <4>1. Silent(t)
        BY <3>1 DEF Interrupt, Await, Accept, EngineStep, Replied, Complete, agent, Silent
      <4> QED BY <1>1, <2>3, <4>1, TurnedKept
    <3>2. CASE Start(t)
      <4>1. response' = response /\ (state'[t] = "pending" \/ state'[t] = state[t])
        BY <3>2 DEF Start, Becomes, TypeOK, AgentType
      <4> QED BY <1>1, <2>3, <4>1 DEF Turned
    <3>3. CASE Pending(t)
      <4>1. state'[t] = "generating"
        BY <3>3 DEF Pending, Becomes, TypeOK, AgentType
      <4> QED BY <2>3, <4>1 DEF Turned
    <3>4. CASE HandleFragment(t) \/ ToolsAnswer(t) \/ InteractionAnswers(t)
      <4>1. CASE HandleFragment(t)
        <5>1. state[t] = "generating"
          BY <1>1, <2>3, <4>1 DEF HandleFragment, Sample, InState
        <5>2. state'[t] \in {"generating", "terminated"}
          BY <4>1, <5>1 DEF HandleFragment, Becomes, TypeOK, AgentType
        <5> QED BY <2>3, <5>2 DEF Turned
      <4>2. CASE ToolsAnswer(t)
        <5>1. state'[t] \in {"generating", "terminated"}
          BY <4>2 DEF ToolsAnswer, Becomes, TypeOK, AgentType
        <5> QED BY <2>3, <5>1 DEF Turned
      <4>3. CASE InteractionAnswers(t)
        <5>1. state'[t] \in {"generating", "terminated"}
          BY <4>3 DEF InteractionAnswers, Becomes, TypeOK, AgentType
        <5> QED BY <2>3, <5>1 DEF Turned
      <4> QED BY <3>4, <4>1, <4>2, <4>3
    <3>5. CASE HandleMessage(t)
      BY <1>1, <2>3, <3>5, MessageIs DEF Turned
    <3> QED BY <2>1, <3>1, <3>2, <3>3, <3>4, <3>5 DEF Run
  <2> QED BY <2>2, <2>3
<1>3. CASE Pause \/ Synchroniser
  <2>1. Silent(u)
    BY <1>3, ControlStepType DEF agent, Silent
  <2> QED BY <1>1, <2>1, TurnedKept
<1>4. CASE UNCHANGED vars
  <2>1. Silent(u)
    BY <1>4 DEF vars, agent, Silent
  <2> QED BY <1>1, <2>1, TurnedKept
<1> QED BY <1>2, <1>3, <1>4 DEF Next

\* The refinement mapping in terms of Whole.
LEMMA WholeTurnsIs ==
  \A t \in Trajectories :
    /\ WholeTurns(t) = IF state[t] # "generating" THEN response[t] ELSE Whole(response[t])
    /\ WholeTurns(t)' = IF state'[t] # "generating" THEN response'[t] ELSE Whole(response'[t])
<1>1. ASSUME NEW t \in Trajectories
      PROVE  WholeTurns(t) = IF state[t] # "generating" THEN response[t] ELSE Whole(response[t])
  BY DEF WholeTurns, Whole, Others
<1>2. ASSUME NEW t \in Trajectories
      PROVE  WholeTurns(t)' = IF state'[t] # "generating" THEN response'[t] ELSE Whole(response'[t])
  BY DEF WholeTurns, Whole, Others
<1> QED BY <1>1, <1>2

\* The trajectory has terminated.
Over(t) == state[t] = "terminated"

\* It is the model's turn after s.
Open(s) == s = << >> \/ s[Len(s)].by # "model"

\* No turn of t.
Nothing(t) == WholeTurns(t)' = WholeTurns(t) /\ (Over(t)' <=> Over(t))

\* The whole turns of t grow by tokens of x.
Adds(t, x) == Longer(WholeTurns(t), WholeTurns(t)', x)

\* A turn of the model, ...
ModelSays(t) ==
  /\ Open(WholeTurns(t))
  /\ \/ Adds(t, "model") /\ Over(t)'
     \/ Adds(t, "model") /\ ~(Len(WholeTurns(t)') >= ResponseLength) /\ ~Over(t)'
     \/ WholeTurns(t)' = WholeTurns(t) /\ Len(WholeTurns(t)) >= ResponseLength /\ Over(t)'

\* ... of the tools, ...
ToolSays(t) ==
  /\ ~Open(WholeTurns(t)) /\ CallAtEnd(WholeTurns(t))
  /\ \/ Adds(t, "tool") /\ ~(Len(WholeTurns(t)') >= ResponseLength) /\ ~Over(t)'
     \/ WholeTurns(t)' = WholeTurns(t) /\ Over(t)'

\* ... and of the user, as steps of ToolAgentLoop.
UserSays(t) == ~Open(WholeTurns(t)) /\ Interaction /\ Adds(t, "user")

\* A step that changes neither response nor state is no turn.
LEMMA SilentNothing ==
  ASSUME NEW t \in Trajectories, Silent(t)
  PROVE  Nothing(t)
<1>1. WholeTurns(t)' = WholeTurns(t)
  BY WholeTurnsIs DEF Silent
<1> QED BY <1>1 DEF Nothing, Over, Silent

\* Neither is the start of a trajectory.
LEMMA BeginNothing ==
  ASSUME TypeOK, NEW t \in Trajectories, Sample(t), Start(t) \/ Pending(t)
  PROVE  Nothing(t)
<1>1. response'[t] = response[t]
  BY DEF Start, Pending
<1>2. CASE Start(t)
  <2>1. state'[t] = state[t] \/ (state[t] = "new" /\ state'[t] = "pending")
    BY <1>2 DEF Start, Becomes, TypeOK, AgentType
  <2>2. WholeTurns(t)' = WholeTurns(t)
    BY <1>1, <2>1, WholeTurnsIs
  <2> QED BY <2>1, <2>2 DEF Nothing, Over
<1>3. CASE Pending(t)
  <2>1. state[t] = "pending" /\ state'[t] = "generating"
    BY <1>3 DEF Pending, Enters, Becomes, TypeOK, AgentType
  <2>2. response[t] = << >>
    BY <2>1 DEF Sample, Started
  <2>3. WholeTurns(t)' = WholeTurns(t)
    BY <1>1, <2>1, <2>2, WholeTurnsIs, WholeEmpty
  <2> QED BY <2>1, <2>3 DEF Nothing, Over
<1> QED BY <1>2, <1>3

\* After whole turns it is the model's turn, as its unfinished message is left out.
LEMMA WholeIsOpen ==
  ASSUME NEW s \in Seq(Tokens)
  PROVE  Open(Whole(s))
<1> DEFINE w == Whole(s)
<1>1. /\ w \in Seq(Tokens) /\ Len(w) \in Nat /\ \A k \in 1 .. Len(w) : w[k] = s[k]
      /\ Len(w) # 0 => s[Len(w)].by # "model"
  BY WholeIs
<1> HIDE DEF w
<1>2. CASE Len(w) = 0
  BY <1>1, <1>2, EmptySeq DEF Open, w
<1>3. CASE Len(w) # 0
  <2>1. Len(w) \in 1 .. Len(w)
    BY <1>1, <1>3
  <2> QED BY <1>1, <1>3, <2>1 DEF Open, w
<1> QED BY <1>2, <1>3

\* The model's tokens join a response that is still generated: as long as the message
\* goes on the whole turns stay what they were, when it ends they gain all of it.
LEMMA ModelExtends ==
  ASSUME TypeOK, NEW t \in Trajectories, Sample(t), Extend(t, reqOutput[t], TRUE), state[t] = "generating"
  PROVE  /\ Whole(response'[t]) = Whole(response[t])
         /\ Len(mask'[t]) = Len(response'[t]) /\ response'[t] \in Seq(Tokens)
         /\ Len(Whole(response[t])) < Len(response'[t]) => Longer(Whole(response[t]), response'[t], "model")
         /\ ~(Len(Whole(response[t])) < Len(response'[t])) => Whole(response[t]) = response'[t]
<1> DEFINE r == response[t]
           s == response'[t]
           q == reqOutput[t]
           w == Whole(r)
<1>1. /\ q \in Seq(Tokens) /\ r \in Seq(Tokens) /\ TRUE \in BOOLEAN
      /\ \A k \in 1 .. Len(q) : q[k].by = "model"
      /\ \A k \in 1 .. Len(q) : q[k].by = "model" <=> TRUE
      /\ Marked(r, mask[t], logprobs[t])
  BY DEF TypeOK, AgentType, ServerType, Sample, Request, Tokenwise
<1>2. /\ Len(r) \in Nat /\ Len(q) \in Nat /\ Len(s) = Len(r) + Len(q)
      /\ \A k \in 1 .. Len(r) : s[k] = r[k]
      /\ \A k \in Len(r) + 1 .. Len(s) : k - Len(r) \in 1 .. Len(q) /\ s[k] = q[k - Len(r)]
      /\ Marked(s, mask'[t], logprobs'[t])
      /\ s \in Seq(Tokens)
  BY <1>1, ExtendType
<1>3. Len(mask'[t]) = Len(s)
  BY <1>2 DEF Marked
<1>4. /\ w \in Seq(Tokens) /\ Len(w) \in 0 .. Len(r) /\ Len(w) \in Nat
      /\ \A k \in 1 .. Len(w) : w[k] = r[k]
      /\ \A k \in Len(w) + 1 .. Len(r) : r[k].by = "model"
  BY <1>1, WholeIs
<1> HIDE DEF r, s, q, w
<1>5. Len(r) <= Len(s) /\ \A k \in Len(r) + 1 .. Len(s) : s[k].by = "model"
  BY <1>1, <1>2
<1>6. Whole(s) = Whole(r)
  BY <1>1, <1>2, <1>5, WholeKept
<1>7. \A k \in 1 .. Len(w) : s[k] = w[k]
  <2>1. \A k \in 1 .. Len(w) : k \in 1 .. Len(r)
    BY <1>2, <1>4
  <2> QED BY <1>2, <1>4, <2>1
<1>8. ASSUME NEW k \in Len(w) + 1 .. Len(s) PROVE s[k].by = "model"
  <2>1. CASE k \in Len(r) + 1 .. Len(s)
    BY <1>5, <2>1
  <2>2. CASE k \notin Len(r) + 1 .. Len(s)
    <3>1. k \in Len(w) + 1 .. Len(r) /\ k \in 1 .. Len(r)
      BY <1>2, <1>4, <2>2
    <3> QED BY <1>2, <1>4, <3>1
  <2> QED BY <2>1, <2>2
<1>9. Len(w) < Len(s) => Longer(w, s, "model")
  BY <1>2, <1>4, <1>7, <1>8, LongerIs
<1>10. ASSUME ~(Len(w) < Len(s)) PROVE w = s
  <2>1. Len(w) = Len(s)
    BY <1>2, <1>4, <1>10
  <2>2. \A k \in 1 .. Len(w) : w[k] = s[k]
    BY <1>7
  <2> QED BY <1>2, <1>4, <2>1, <2>2, SeqEqual
<1> QED BY <1>2, <1>3, <1>6, <1>9, <1>10 DEF r, s, w

\* An interrupted message is no turn, or the last one when it fills the response.
LEMMA FragmentTurn ==
  ASSUME TypeOK, NEW t \in Trajectories, Sample(t), HandleFragment(t)
  PROVE  ~Over(t) /\ (Nothing(t) \/ ModelSays(t))
<1> DEFINE w == Whole(response[t])
           s == response'[t]
<1>1. Extend(t, reqOutput[t], TRUE) /\ state[t] = "generating"
  BY DEF HandleFragment, Sample, InState
<1>2. /\ Whole(s) = w /\ Len(mask'[t]) = Len(s)
      /\ Len(w) < Len(s) => Longer(w, s, "model")
      /\ ~(Len(w) < Len(s)) => w = s
  BY <1>1, ModelExtends
<1>3. WholeTurns(t) = w
  BY <1>1, WholeTurnsIs
<1>4. Open(w)
  BY WholeIsOpen DEF TypeOK, AgentType
<1>5. CASE Full(t)
  <2>1. state'[t] = "terminated" /\ Len(s) >= ResponseLength
    BY <1>2, <1>5 DEF HandleFragment, Becomes, Full, TypeOK, AgentType
  <2>2. WholeTurns(t)' = s
    BY <2>1, WholeTurnsIs
  <2> HIDE DEF w, s
  <2>3. CASE Len(w) < Len(s)
    BY <1>1, <1>2, <1>3, <1>4, <2>1, <2>2, <2>3 DEF ModelSays, Adds, Over
  <2>4. CASE ~(Len(w) < Len(s))
    <3>1. w = s
      BY <1>2, <2>4
    <3> QED BY <1>1, <1>3, <1>4, <2>1, <2>2, <3>1 DEF ModelSays, Over
  <2> QED BY <2>3, <2>4
<1>6. CASE ~Full(t)
  <2>1. state'[t] = "generating"
    BY <1>1, <1>6 DEF HandleFragment
  <2>2. WholeTurns(t)' = w
    BY <1>2, <2>1, WholeTurnsIs
  <2> QED BY <1>1, <1>3, <2>1, <2>2 DEF Nothing, Over
<1> QED BY <1>5, <1>6

\* A complete message is a turn.
LEMMA MessageTurn ==
  ASSUME TypeOK, NEW t \in Trajectories, Sample(t), HandleMessage(t)
  PROVE  ~Over(t) /\ ModelSays(t)
<1> DEFINE w == Whole(response[t])
           s == response'[t]
<1>1. Extend(t, reqOutput[t], TRUE) /\ state[t] = "generating"
  BY DEF HandleMessage, Sample, InState
<1>2. /\ Whole(s) = w /\ s \in Seq(Tokens)
      /\ Len(w) < Len(s) => Longer(w, s, "model")
      /\ ~(Len(w) < Len(s)) => w = s
  BY <1>1, ModelExtends
<1>3. /\ s # << >> /\ s[Len(s)].by = "model" /\ state'[t] = NextState(t)
      /\ state'[t] # "terminated" => ~(Len(s) >= ResponseLength)
  BY MessageIs
<1>4. state'[t] # "generating"
  BY <1>3 DEF NextState
<1>5. WholeTurns(t) = w /\ WholeTurns(t)' = s
  BY <1>1, <1>4, WholeTurnsIs
<1>6. Open(w)
  BY WholeIsOpen DEF TypeOK, AgentType
<1> HIDE DEF w, s
<1>7. Len(w) < Len(s)
  <2>1. w # s
    BY <1>3, <1>6 DEF Open
  <2> QED BY <1>2, <2>1
<1>8. Longer(w, s, "model")
  BY <1>2, <1>7
<1> QED BY <1>1, <1>3, <1>5, <1>6, <1>8 DEF ModelSays, Adds, Over, s

\* An answer joins a response: the turns are the whole response before and after.
LEMMA AnswerAdds ==
  ASSUME TypeOK, NEW t \in Trajectories, Sample(t), NEW x \in {"tool", "user"}, NEW ids \in Seq(Tokens), ids # << >>,
         \A i \in 1 .. Len(ids) : ids[i].by = x, Extend(t, ids, FALSE), state[t] # "generating"
  PROVE  Adds(t, x) /\ WholeTurns(t)' = response'[t] /\ Len(mask[t]) = Len(response[t])
         /\ Len(response'[t]) = Len(mask[t]) + Len(ids)
<1> DEFINE r == response[t]
           s == response'[t]
<1>1. FALSE \in BOOLEAN /\ r \in Seq(Tokens) /\ Marked(r, mask[t], logprobs[t])
  BY DEF TypeOK, AgentType, Sample, Tokenwise
<1>2. /\ Len(r) \in Nat /\ Len(ids) \in Nat /\ Len(s) = Len(r) + Len(ids) /\ s \in Seq(Tokens)
      /\ \A k \in 1 .. Len(r) : s[k] = r[k]
      /\ \A k \in Len(r) + 1 .. Len(s) : k - Len(r) \in 1 .. Len(ids) /\ s[k] = ids[k - Len(r)]
  BY <1>1, ExtendType
<1>3. Len(s) >= 1 /\ Len(ids) >= 1 /\ s[Len(s)] = ids[Len(ids)]
  BY <1>1, LastToken
<1>4. Len(mask[t]) = Len(r)
  BY <1>1 DEF Marked
<1> HIDE DEF r, s
<1>5. \A k \in Len(r) + 1 .. Len(s) : s[k].by = x
  BY <1>2
<1>6. Longer(r, s, x)
  <2>1. Len(r) < Len(s)
    BY <1>2, <1>3
  <2> QED BY <1>1, <1>2, <1>5, <2>1, LongerIs
<1>7. Whole(s) = s
  <2>1. Len(ids) \in 1 .. Len(ids)
    BY <1>2, <1>3
  <2>2. s[Len(s)].by = x /\ x # "model"
    BY <1>3, <2>1
  <2>3. s # << >>
    BY <1>3
  <2> QED BY <1>2, <2>2, <2>3, WholeAll
<1>8. WholeTurns(t) = r /\ WholeTurns(t)' = s
  BY <1>7, WholeTurnsIs DEF r, s
<1> QED BY <1>2, <1>4, <1>6, <1>8 DEF Adds, r, s

\* The tools' turn.
LEMMA ToolTurns ==
  ASSUME TypeOK, NEW t \in Trajectories, Sample(t), Turned(t), ToolsAnswer(t)
  PROVE  ~Over(t) /\ ToolSays(t)
<1>1. state[t] = "tools"
  BY DEF ToolsAnswer, Sample, InState
<1>2. WholeTurns(t) = response[t]
  BY <1>1, WholeTurnsIs
<1>3. ~Open(WholeTurns(t)) /\ CallAtEnd(WholeTurns(t))
  BY <1>1, <1>2 DEF Turned, Open
<1>4. PICK texts \in ToolTexts :
         IF Len(mask[t]) + Len(texts) >= ResponseLength
         THEN Becomes(t, "terminated") /\ UNCHANGED << response, mask, logprobs, images, userTurns >>
         ELSE Extend(t, Says("tool", texts), FALSE) /\ Becomes(t, "generating")
  BY DEF ToolsAnswer
<1>5. CASE Len(mask[t]) + Len(texts) >= ResponseLength
  <2>1. state'[t] = "terminated" /\ response' = response
    BY <1>4, <1>5 DEF Becomes, TypeOK, AgentType
  <2>2. WholeTurns(t)' = WholeTurns(t)
    BY <1>2, <2>1, WholeTurnsIs
  <2> QED BY <1>1, <1>3, <2>1, <2>2 DEF ToolSays, Over
<1>6. CASE ~(Len(mask[t]) + Len(texts) >= ResponseLength)
  <2> DEFINE ids == Says("tool", texts)
  <2>1. Extend(t, ids, FALSE) /\ state'[t] = "generating"
    BY <1>4, <1>6 DEF Becomes, TypeOK, AgentType
  <2>2. ids \in Seq(Tokens) /\ Len(ids) = Len(texts) /\ ids # << >> /\ \A i \in 1 .. Len(ids) : ids[i].by = "tool"
    BY TokenType, SaysFacts
  <2> HIDE DEF ids
  <2>3. Adds(t, "tool") /\ WholeTurns(t)' = response'[t] /\ Len(response'[t]) = Len(mask[t]) + Len(ids)
    BY <1>1, <2>1, <2>2, AnswerAdds
  <2>4. ~(Len(WholeTurns(t)') >= ResponseLength)
    BY <1>6, <2>2, <2>3
  <2> QED BY <1>1, <1>3, <2>1, <2>3, <2>4 DEF ToolSays, Over
<1> QED BY <1>5, <1>6

\* The user's turn.
LEMMA UserTurns ==
  ASSUME TypeOK, NEW t \in Trajectories, Sample(t), Turned(t), InteractionAnswers(t)
  PROVE  ~Over(t) /\ UserSays(t)
<1>1. state[t] = "interacting"
  BY DEF InteractionAnswers, Sample, InState
<1>2. WholeTurns(t) = response[t]
  BY <1>1, WholeTurnsIs
<1>3. ~Open(WholeTurns(t)) /\ Interaction
  BY <1>1, <1>2 DEF Turned, Open
<1>4. PICK texts \in UserTexts : Extend(t, Says("user", texts), FALSE)
  BY DEF InteractionAnswers
<1> DEFINE ids == Says("user", texts)
<1>5. ids \in Seq(Tokens) /\ ids # << >> /\ \A i \in 1 .. Len(ids) : ids[i].by = "user"
  BY TokenType, SaysFacts
<1>6. Extend(t, ids, FALSE)
  BY <1>4
<1> HIDE DEF ids
<1>7. Adds(t, "user")
  BY <1>1, <1>5, <1>6, AnswerAdds
<1> QED BY <1>1, <1>3, <1>7 DEF UserSays, Over

\* AgentTurns' operators under the refinement mapping: whose turn it is, ...
LEMMA TurnOfIs ==
  ASSUME NEW t \in Trajectories
  PROVE  (Rollout!TurnOf(t) # "model" <=> Open(WholeTurns(t))) 
<1> DEFINE w == WholeTurns(t)
<1>1. Rollout!TurnOf(t) = IF w = << >> THEN "prompt" ELSE w[Len(w)].by
  BY DEF Rollout!TurnOf, Rollout!Last
<1> HIDE DEF w
<1>2. (Rollout!TurnOf(t) # "model" <=> Open(w))
  BY <1>1 DEF Open
<1> QED BY <1>2 DEF w

\* ... what a turn adds, ...
LEMMA GainsIs ==
  ASSUME NEW t \in Trajectories, NEW x, Adds(t, x)
  PROVE  Rollout!Gains(t, x)
BY DEF Adds, Longer, Rollout!Gains, Rollout!IsPrefix, IsPrefix

\* ... and the calls of the last message.
LEMMA CallsIs ==
  ASSUME NEW t \in Trajectories, WholeTurns(t) \in Seq(Tokens), CallAtEnd(WholeTurns(t))
  PROVE  Rollout!Calls(t)
<1> DEFINE w == WholeTurns(t)
<1>1. w \in Seq(Tokens) /\ CallAtEnd(w)
  OBVIOUS
<1>2. Rollout!Calls(t) <=> \E i, j \in DOMAIN w :
        /\ i < j /\ w[i].text = "<" /\ w[j].text = ">"
        /\ \A k \in i .. Len(w) : w[k].by = "model"
  BY DEF Rollout!Calls
<1> HIDE DEF w
<1>3. DOMAIN w = 1 .. Len(w)
  BY <1>1, LenProperties
<1> QED BY <1>1, <1>2, <1>3 DEF CallAtEnd

\* A turn of ToolAgentLoop is one of AgentTurns.
LEMMA MoveIsTurn ==
  ASSUME NEW t \in Trajectories, WholeTurns(t) \in Seq(Tokens), ~Over(t),
         \A u \in Trajectories : u # t => Nothing(u),
         ModelSays(t) \/ ToolSays(t) \/ UserSays(t)
  PROVE  Rollout!Turn(t)
<1> DEFINE Talk == [u \in Trajectories |-> WholeTurns(u)]
           Ended == {u \in Trajectories : state[u] = "terminated"}
<1>1. t \notin Ended
  BY DEF Over
<1>2. \A u \in Trajectories \ {t} : Talk'[u] = Talk[u]
  BY DEF Nothing
<1>3. Over(t)' => Rollout!Ends(t)
  BY DEF Nothing, Over, Rollout!Ends
<1>4. ~Over(t)' => Rollout!GoesOn(t)
  BY DEF Nothing, Over, Rollout!GoesOn
<1>5. WholeTurns(t)' = WholeTurns(t) => Talk' = Talk
  BY DEF Nothing
<1>6. (Rollout!TurnOf(t) # "model" <=> Open(WholeTurns(t)))
  BY TurnOfIs
<1>7. CASE ModelSays(t)
  <2>1. Rollout!TurnOf(t) # "model"
    BY <1>6, <1>7 DEF ModelSays
  <2>2. CASE Adds(t, "model") /\ Over(t)'
    <3>1. Rollout!Gains(t, "model") /\ Rollout!Ends(t)
      BY <1>3, <2>2, GainsIs
    <3>2. Rollout!ModelTurn(t)
      BY <2>1, <3>1 DEF Rollout!ModelTurn
    <3> QED BY <1>1, <1>2, <3>2 DEF Rollout!Turn
  <2>3. CASE Adds(t, "model") /\ ~(Len(WholeTurns(t)') >= ResponseLength) /\ ~Over(t)'
    <3>1. Rollout!Gains(t, "model") /\ Rollout!GoesOn(t)
      BY <1>4, <2>3, GainsIs
    <3>2. ~Rollout!Full(Talk'[t])
      BY <2>3 DEF Rollout!Full
    <3>3. Rollout!ModelTurn(t)
      BY <2>1, <3>1, <3>2 DEF Rollout!ModelTurn
    <3> QED BY <1>1, <1>2, <3>3 DEF Rollout!Turn
  <2>4. CASE WholeTurns(t)' = WholeTurns(t) /\ Len(WholeTurns(t)) >= ResponseLength /\ Over(t)'
    <3>1. Talk' = Talk /\ Rollout!Ends(t)
      BY <1>3, <1>5, <2>4
    <3>2. Rollout!Full(Talk[t])
      BY <2>4 DEF Rollout!Full
    <3>3. Rollout!ModelTurn(t)
      BY <2>1, <3>1, <3>2 DEF Rollout!ModelTurn
    <3> QED BY <1>1, <1>2, <3>3 DEF Rollout!Turn
  <2> QED BY <1>7, <2>2, <2>3, <2>4 DEF ModelSays
<1>8. CASE ToolSays(t)
  <2>1. Rollout!TurnOf(t) = "model" /\ Rollout!Calls(t)
    BY <1>6, <1>8, CallsIs DEF ToolSays
  <2>2. CASE Adds(t, "tool") /\ ~(Len(WholeTurns(t)') >= ResponseLength) /\ ~Over(t)'
    <3>1. Rollout!Gains(t, "tool") /\ Rollout!GoesOn(t)
      BY <1>4, <2>2, GainsIs
    <3>2. ~Rollout!Full(Talk'[t])
      BY <2>2 DEF Rollout!Full
    <3>3. Rollout!ToolTurn(t)
      BY <2>1, <3>1, <3>2 DEF Rollout!ToolTurn
    <3> QED BY <1>1, <1>2, <3>3 DEF Rollout!Turn
  <2>3. CASE WholeTurns(t)' = WholeTurns(t) /\ Over(t)'
    <3>1. Talk' = Talk /\ Rollout!Ends(t)
      BY <1>3, <1>5, <2>3
    <3>2. Rollout!ToolTurn(t)
      BY <2>1, <3>1 DEF Rollout!ToolTurn
    <3> QED BY <1>1, <1>2, <3>2 DEF Rollout!Turn
  <2> QED BY <1>8, <2>2, <2>3 DEF ToolSays
<1>9. CASE UserSays(t)
  <2>1. Rollout!TurnOf(t) = "model" /\ Interaction /\ Rollout!Gains(t, "user")
    BY <1>6, <1>9, GainsIs DEF UserSays
  <2>2. Rollout!Ends(t) \/ Rollout!GoesOn(t)
    BY <1>3, <1>4
  <2>3. Rollout!UserTurn(t)
    BY <2>1, <2>2 DEF Rollout!UserTurn
  <2> QED BY <1>1, <1>2, <2>3 DEF Rollout!Turn
<1> QED BY <1>7, <1>8, <1>9

\* Without a turn nothing happens there.
LEMMA NothingStutters ==
  ASSUME \A u \in Trajectories : Nothing(u)
  PROVE  UNCHANGED Rollout!turnVars
<1>1. [u \in Trajectories |-> WholeTurns(u)]' = [u \in Trajectories |-> WholeTurns(u)]
  BY DEF Nothing
<1>2. {u \in Trajectories : state[u] = "terminated"}' = {u \in Trajectories : state[u] = "terminated"}
  BY DEF Nothing, Over
<1> QED BY <1>1, <1>2 DEF Rollout!turnVars

\* The turns are tokens.
LEMMA WholeTurnsType == TypeOK => \A t \in Trajectories : WholeTurns(t) \in Seq(Tokens)
<1> SUFFICES ASSUME TypeOK, NEW t \in Trajectories PROVE WholeTurns(t) \in Seq(Tokens)
  OBVIOUS
<1>1. response[t] \in Seq(Tokens)
  BY DEF TypeOK, AgentType
<1>2. Whole(response[t]) \in Seq(Tokens)
  BY <1>1, WholeIs
<1> QED BY <1>1, <1>2, WholeTurnsIs

\* No trajectory has a turn at the start.
LEMMA TurnsInit == Init => Rollout!TInit
<1> SUFFICES ASSUME Init PROVE Rollout!TInit
  OBVIOUS
<1>1. \A t \in Trajectories : state[t] = "new" /\ response[t] = << >>
  BY DEF Init
<1>2. \A t \in Trajectories : WholeTurns(t) = << >>
  BY <1>1, WholeTurnsIs
<1>3. {u \in Trajectories : state[u] = "terminated"} = {}
  BY <1>1
<1> QED BY <1>2, <1>3 DEF Rollout!TInit

\* Every step is a turn of one trajectory or a stutter.
LEMMA TurnsStep ==
  TypeOK /\ Samples /\ TurnsInv /\ [Next]_vars => [Rollout!TNext]_(Rollout!turnVars)
<1> SUFFICES ASSUME TypeOK, Samples, TurnsInv, [Next]_vars PROVE [Rollout!TNext]_(Rollout!turnVars)
  OBVIOUS
<1>1. CASE \E t \in Trajectories : Start(t) \/ Run(t)
  <2>1. PICK t \in Trajectories : Start(t) \/ Run(t)
    BY <1>1
  <2>2. \A u \in Trajectories : u # t => Nothing(u)
    <3>1. \A u \in Trajectories : u # t => Silent(u)
      BY <2>1, OneActs DEF Same, Own, Silent
    <3> QED BY <3>1, SilentNothing
  <2>3. Sample(t) /\ Turned(t)
    BY DEF Samples, TurnsInv
  <2>4. CASE Nothing(t)
    <3>1. \A u \in Trajectories : Nothing(u)
      BY <2>2, <2>4
    <3> QED BY <3>1, NothingStutters
  <2>5. CASE ~Over(t) /\ (ModelSays(t) \/ ToolSays(t) \/ UserSays(t))
    <3>1. Rollout!Turn(t)
      BY <2>2, <2>5, MoveIsTurn, WholeTurnsType
    <3> QED BY <3>1 DEF Rollout!TNext
  <2>6. CASE Interrupt(t) \/ Await(t) \/ Accept(t) \/ EngineStep(t) \/ Replied(t) \/ Complete(t)
    <3>1. Silent(t)
      BY <2>6 DEF Interrupt, Await, Accept, EngineStep, Replied, Complete, agent, Silent
    <3> QED BY <2>4, <3>1, SilentNothing
  <2>7. CASE Start(t) \/ Pending(t)
    BY <2>3, <2>4, <2>7, BeginNothing
  <2>8. CASE HandleFragment(t) \/ HandleMessage(t)
    BY <2>3, <2>4, <2>5, <2>8, FragmentTurn, MessageTurn
  <2>9. CASE ToolsAnswer(t) \/ InteractionAnswers(t)
    BY <2>3, <2>5, <2>9, ToolTurns, UserTurns
  <2> QED BY <2>1, <2>6, <2>7, <2>8, <2>9 DEF Run
<1>2. CASE Pause \/ Synchroniser
  <2>1. \A u \in Trajectories : Silent(u)
    BY <1>2, ControlStepType DEF agent, Silent
  <2> QED BY <2>1, SilentNothing, NothingStutters
<1>3. CASE UNCHANGED vars
  <2>1. \A u \in Trajectories : Silent(u)
    BY <1>3 DEF vars, agent, Silent
  <2> QED BY <2>1, SilentNothing, NothingStutters
<1> QED BY <1>1, <1>2, <1>3 DEF Next

\* The interruptible loop implements AgentTurns, the loop that is never interrupted, for
\* any number of trajectories and versions and any limits: messages and answers
\* alternate, only a message with a call is answered by tools, what tools answer fits,
\* and a full response ends.
THEOREM TurnsImplemented == Spec => ImplementsAgentTurns
<1>1. Init => TypeOK /\ Samples /\ TurnsInv
  BY TypeInit, SampleInit, TurnedInit DEF Samples
<1>2. TypeOK /\ Samples /\ TurnsInv /\ [Next]_vars => TypeOK' /\ Samples' /\ TurnsInv'
  BY SampleStep, TurnedStep
<1>3. Init => Rollout!TInit
  BY TurnsInit
<1>4. TypeOK /\ Samples /\ TurnsInv /\ [Next]_vars => [Rollout!TNext]_(Rollout!turnVars)
  BY TurnsStep
<1> QED BY <1>1, <1>2, <1>3, <1>4, PTL DEF Spec, ImplementsAgentTurns, Rollout!TSpec
===============================================================================
