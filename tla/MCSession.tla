----------------------------- MODULE MCSession -----------------------------
(* One session; Session has no other parameters than what may fail. *)
EXTENDS Session
============================================================================
