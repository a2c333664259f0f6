---------------------------- MODULE MCTrainingData ----------------------------
(***************************************************************************)
(* TLC checks TrainingData over every task of a few iterations.            *)
(***************************************************************************)
EXTENDS TrainingData
=============================================================================
