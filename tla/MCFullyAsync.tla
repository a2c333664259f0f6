----------------------------- MODULE MCFullyAsync -----------------------------
(* Small instances of the fully asynchronous pipeline.                         *)
EXTENDS FullyAsync
===============================================================================
