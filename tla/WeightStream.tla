----------------------------- MODULE WeightStream -----------------------------
(* What a weight transfer promises to the rollout workers: each of them is     *)
(* handed every tensor of the model, intact and in the order in which the      *)
(* trainer produced them, and none waits for ever.                             *)
EXTENDS Naturals, Sequences

CONSTANTS
    Receivers,  \* rollout workers
    Tensors     \* number of tensors of the model

VARIABLE handed   \* handed[r]: the tensors r has copied out, 0 for a garbled one

SInit == handed = [r \in Receivers |-> <<>>]

Hand(r) ==
    /\ Len(handed[r]) < Tensors
    /\ handed' = [handed EXCEPT ![r] = Append(@, Len(@) + 1)]

SNext == \E r \in Receivers : Hand(r)

SSpec == SInit /\ [][SNext]_handed /\ \A r \in Receivers : WF_handed(Hand(r))
===============================================================================
