-------------------------- MODULE MCSessionManager --------------------------
(* Instances of SessionManager for TLC. *)
EXTENDS SessionManager, TLC

CONSTANTS k1, k2, e1, e2, e3

(* Which key each event of a behaviour belongs to. *)
OneKey    == e1 :> k1 @@ e2 :> k1
TwoKeys   == e1 :> k1 @@ e2 :> k2
ThreeFold == e1 :> k1 @@ e2 :> k1 @@ e3 :> k2

SessionObjects == Permutations(Sids)

(* Objects nobody refers to are alike: Open overwrites every field of one  *)
(* before anything reads it.                                               *)
View ==
  <<procVars, pending, bus, lock, threadVars, sessions, older, diskVars, interrupted,
    [s \in Sids |-> IF Free(s) THEN <<>>
                    ELSE <<spc[s], skey[s], queue[s], cur[s], ctx[s], recovery[s]>>]>>

=============================================================================
