----------------------------- MODULE MCNixlChain ------------------------------
(* A chain of three rollout ranks and a model of seven tensors: a bucket with a *)
(* gap, two that are full and a partial last one.                              *)
EXTENDS NixlChain

MCSizes == <<1, 1, 2, 1, 2, 1, 1>>
===============================================================================
