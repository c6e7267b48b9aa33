------------------------------ MODULE MCCascade ------------------------------
(* Instances of Cascade. 1 is an issue of a project manager, or a scaffold, *)
(* 2 a task made from it by the tool; 8 and 9 are pull requests.            *)
EXTENDS Cascade, TLC

MCTexts == {1 :> {2, 8, 9} @@ 2 :> {8}}
MCPriority == 1 :> 2 @@ 2 :> 1
MCParent == 2 :> 1
MCMentions == {<<2, 9>>}

Symmetry == Permutations(Passes)
=============================================================================
