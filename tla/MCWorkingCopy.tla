--------------------------- MODULE MCWorkingCopy ----------------------------
(* An instance of WorkingCopy for TLC: one line of the agent's and one of  *)
(* other people's, so that a merge and a rebase have two sides.            *)
EXTENDS WorkingCopy, TLC

=============================================================================
