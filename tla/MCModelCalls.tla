---------------------------- MODULE MCModelCalls ----------------------------
(* Instances of ModelCalls for TLC. *)
EXTENDS ModelCalls, TLC

CONSTANTS s1, s2, s3, k1, k2

(* An evicted session and its heir, and a session of another key.          *)
HeirAndOther == s1 :> k1 @@ s2 :> k1 @@ s3 :> k2

=============================================================================
