----------------------------- MODULE MCChannel -----------------------------
(* The channel with four requests, so that two decisions are acknowledged    *)
(* in a row, and a request budget of three that the fourth exceeds.       *)
EXTENDS Channel, TLC

CONSTANTS r1, r2, r3, r4, c1, c2, w1, w2, w3, p1, p2, t1, t2

MCRequests == {r1, r2, r3, r4}
MCCalls    == {c1, c2}
MCPollers  == {w1, w2, w3}
MCPrompts  == {p1, p2}
MCTools    == {t1, t2}

\* The sets are used only as sets of interchangeable names.
Symmetry == Permutations(MCRequests) \cup Permutations(MCCalls)
              \cup Permutations(MCPollers) \cup Permutations(MCPrompts)
              \cup Permutations(MCTools)
=============================================================================
