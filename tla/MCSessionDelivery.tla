-------------------------- MODULE MCSessionDelivery -------------------------
(* Instances of SessionDelivery for TLC. *)
EXTENDS SessionDelivery, TLC

CONSTANTS k1, k2, e1, e2

OneKey == e1 :> k1 @@ e2 :> k1

SessionObjects == Permutations(Sids)

=============================================================================
