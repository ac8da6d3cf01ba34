---------------------------- MODULE GoalLoopClaims ----------------------------
(***************************************************************************)
(* What comments in the code and docs/specs/goal-loop.md say of the Goal    *)
(* Loop and the code does not do.  Each definition is refuted by a run of   *)
(* its own; README.md tells the shortest story of each.                     *)
(***************************************************************************)
EXTENDS GoalLoop

InFlightPrompts(l) ==
    (IF turn.busy /\ turn.loop = l THEN 1 ELSE 0)
    + Cardinality({p \in late : p.loop = l})
    + (IF sched.pc = "posting" /\ sched.post = "wire" /\ sched.id = l THEN 1 ELSE 0)

\* I1: one loop has at most one prompt in flight.
OnePromptInFlight == \A l \in LoopIds : InFlightPrompts(l) <= 1

\* "The row is already stopped, so a late result cannot apply": a stored reply
\* answers a prompt of the loop that stores it.
OwnReplies ==
    \A l \in LoopIds : \A i \in DOMAIN rows[l].progress : rows[l].progress[i].loop = l
=============================================================================
