---------------------------- MODULE MCToolAgentLoop ----------------------------
(* A trajectory of a few tokens and two pauses. Trajectories share the two     *)
(* flags, which none of them writes, so one of them meets every case.          *)
EXTENDS ToolAgentLoop
CONSTANT t1
===============================================================================
