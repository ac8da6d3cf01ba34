----------------------------- MODULE MCGoalLoop -----------------------------
(* Small instances of GoalLoop for TLC. *)
EXTENDS GoalLoopClaims, TLC

\* No client has anything of its own.
AnyClient == Permutations(Clients)
=============================================================================
