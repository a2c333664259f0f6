--------------------------- MODULE MCNcclBroadcast ----------------------------
(* Three rollout ranks, two updates; a bucket filled exactly, one with a gap,  *)
(* one with a single tensor and a partial last one.                            *)
EXTENDS NcclBroadcast

MCSizes == <<1, 1, 1, 2, 1, 1, 1>>
===============================================================================
