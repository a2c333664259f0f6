----------------------------- MODULE MCCheckpoint -----------------------------
EXTENDS Checkpoint
CONSTANTS r1, r2
ActorCritic == <<"actor", "critic">>
ActorOnly == <<"actor">>
KeepTwoThree == <<2, 3>>
KeepOne == <<1>>
===============================================================================
