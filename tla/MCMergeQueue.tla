----------------------------- MODULE MCMergeQueue -----------------------------
(* Two implementers whose branches touch the same file.                    *)
EXTENDS MergeQueue, TLC

CONSTANTS b1, b2, q1, q2

TwoSame == {<<b1, b2>>, <<b2, b1>>}
Symmetry == Permutations(Branches) \cup Permutations(Requeuers)

=============================================================================
