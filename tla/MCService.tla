----------------------------- MODULE MCService -----------------------------
(* Two calls at a time and three service processes, one after the other. *)
EXTENDS Service, TLC

CONSTANTS c1, c2, s1, s2, s3

MCCallers == {c1, c2}
MCServices == {s1, s2, s3}

CallSymmetry == Permutations(MCCallers) \cup Permutations(MCServices)
=============================================================================
