------------------------------ MODULE MCWindow ------------------------------
(* One native session; the .cfg files choose the bounds. *)
EXTENDS Window
============================================================================
