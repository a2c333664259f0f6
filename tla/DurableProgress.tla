---------------------------- MODULE DurableProgress ----------------------------
(* What saving checkpoints promises: a run counts steps up to T, persists the  *)
(* step it has reached from time to time, and after a crash continues at the   *)
(* persisted step, so that the persisted step never moves backwards and no     *)
(* run continues anywhere else.                                                *)
EXTENDS Integers

CONSTANT T    \* the last step, a positive number

Down == -1

VARIABLES
    at,        \* the step of the running process, or Down
    durable    \* the step a restart continues at
vars == <<at, durable>>

Init == at = Down /\ durable = 0

Resume == at = Down /\ at' = durable /\ UNCHANGED durable

Train == at # Down /\ at < T /\ at' = at + 1 /\ UNCHANGED durable

Persist == at # Down /\ at > durable /\ durable' = at /\ UNCHANGED at

Crash == at # Down /\ at' = Down /\ UNCHANGED durable

Next == Resume \/ Train \/ Persist \/ Crash

Spec == Init /\ [][Next]_vars
================================================================================
