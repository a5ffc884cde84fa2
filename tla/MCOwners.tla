------------------------------ MODULE MCOwners ------------------------------
(* Requests, keys, bodies and leases for the runs of Owners: the .cfg files    *)
(* choose among these sets.                                                   *)
EXTENDS Owners, TLC

CONSTANTS r1, r2, logical, plain, fresh, fresher, c1, c2, l1

OneKey == {logical}
PlainKey == {plain}
FreshKeys == {fresh}
LogicalAndFresh == {logical, fresh, fresher}
TwoFresh == {fresh, fresher}
MixedKeys == {plain, fresh}
TwoRequests == {r1, r2}
OneContent == {c1}
TwoContents == {c1, c2}
OneLease == {l1}
Streaming == {TRUE}
Whole == {FALSE}

\* No request is admitted after a shutdown: what follows it is left to other runs.
InService == ~down

PairSymmetry == Permutations(TwoRequests) \cup Permutations(TwoContents)
FreshSymmetry == PairSymmetry \cup Permutations(TwoFresh)
=============================================================================
