------------------------------ MODULE AgentTurns ------------------------------
(* What a multi-turn rollout promises of a response, whoever interrupts it:    *)
(* whole messages of the model alternate with answers of tools or of a user,   *)
(* a tool answers only a message with a call in it, an answer of a tool fits   *)
(* into the response, and a full response ends.                                *)
EXTENDS Naturals, Sequences, SequencesExt

CONSTANTS Trajectories, ResponseLength, Interaction

VARIABLES talk,     \* talk[t]: the tokens of complete turns, with who wrote them
          ended     \* trajectories that are over

turnVars == <<talk, ended>>

TurnOf(t) == IF talk[t] = <<>> THEN "prompt" ELSE Last(talk[t]).by
Full(s) == Len(s) >= ResponseLength

\* Trajectory t gains tokens, all of them written by one side.
Gains(t, by) ==
    /\ Len(talk'[t]) > Len(talk[t]) /\ IsPrefix(talk[t], talk'[t])
    /\ \A i \in Len(talk[t]) + 1 .. Len(talk'[t]) : talk'[t][i].by = by

\* The last message of the model opens a call and closes one after it.
Calls(t) == \E i, j \in DOMAIN talk[t] :
    /\ i < j /\ talk[t][i].text = "<" /\ talk[t][j].text = ">"
    /\ \A k \in i .. Len(talk[t]) : talk[t][k].by = "model"

Ends(t) == ended' = ended \cup {t}
GoesOn(t) == UNCHANGED ended

\* A response that a user's answer has filled already may end without a message:
\* what the model would say is cut off.
ModelTurn(t) ==
    /\ TurnOf(t) # "model"
    /\ \/ Gains(t, "model") /\ Ends(t)
       \/ Gains(t, "model") /\ ~Full(talk'[t]) /\ GoesOn(t)
       \/ UNCHANGED talk /\ Full(talk[t]) /\ Ends(t)

ToolTurn(t) ==
    /\ TurnOf(t) = "model" /\ Calls(t)
    /\ \/ Gains(t, "tool") /\ ~Full(talk'[t]) /\ GoesOn(t)
       \/ UNCHANGED talk /\ Ends(t)

UserTurn(t) ==
    /\ TurnOf(t) = "model" /\ Interaction /\ Gains(t, "user")
    /\ Ends(t) \/ GoesOn(t)

Turn(t) ==
    /\ t \notin ended
    /\ ModelTurn(t) \/ ToolTurn(t) \/ UserTurn(t)
    /\ \A u \in Trajectories \ {t} : talk'[u] = talk[u]

TInit == talk = [t \in Trajectories |-> <<>>] /\ ended = {}
TNext == \E t \in Trajectories : Turn(t)
TSpec == TInit /\ [][TNext]_turnVars
===============================================================================
