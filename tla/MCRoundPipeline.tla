---------------------------- MODULE MCRoundPipeline ----------------------------
(* The round scripts with a few rounds and crashes.                            *)
EXTENDS RoundPipeline
===============================================================================
