---------------------------- MODULE MCIssueClaim ----------------------------
(* Instances of IssueClaim for TLC. *)
EXTENDS IssueClaim, TLC

Symmetry == Permutations(Sessions)
=============================================================================
