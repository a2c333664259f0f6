------------------------------ MODULE SampleFlow ------------------------------
(* What the fully asynchronous pipeline promises about its samples: they are   *)
(* taken from the dataset in order, at most Limit of them are under way at a   *)
(* time, the trainer receives each at most once and trains on full batches     *)
(* only, and after Trigger batches the parameter version grows by one.         *)
EXTENDS Integers, FiniteSets

CONSTANTS
    Total,     \* samples of the run
    Required,  \* samples of a training batch
    Trigger,   \* batches between two parameter versions
    Limit      \* samples under way at a time

VARIABLES
    taken,     \* samples 1..taken have left the dataset
    underWay,  \* taken and neither delivered nor lost
    batch,     \* delivered to the trainer, not yet trained on
    batches,   \* batches trained on
    pversion   \* parameter version of the trainer

fvars == <<taken, underWay, batch, batches, pversion>>

FInit == taken = 0 /\ underWay = {} /\ batch = {} /\ batches = 0 /\ pversion = 0

Take ==
    /\ taken < Total /\ Cardinality(underWay) < Limit
    /\ taken' = taken + 1
    /\ underWay' = underWay \cup {taken + 1}
    /\ UNCHANGED <<batch, batches, pversion>>

\* A sample reaches the trainer; the oldest one may be lost instead.
Deliver == \E s \in underWay :
    /\ Cardinality(batch) < Required
    /\ underWay' = underWay \ {s}
    /\ batch' = batch \cup {s}
    /\ UNCHANGED <<taken, batches, pversion>>

Lose == \E s \in underWay :
    /\ underWay' = underWay \ {s}
    /\ UNCHANGED <<taken, batch, batches, pversion>>

Train ==
    /\ Cardinality(batch) = Required
    /\ batch' = {}
    /\ batches' = batches + 1
    /\ pversion' = (batches + 1) \div Trigger
    /\ UNCHANGED <<taken, underWay>>

FNext == Take \/ Deliver \/ Lose \/ Train
FlowSpec == FInit /\ [][FNext]_fvars
===============================================================================
