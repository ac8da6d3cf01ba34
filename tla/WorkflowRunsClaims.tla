------------------------- MODULE WorkflowRunsClaims -------------------------
(***************************************************************************)
(* What docs/specs/node-workflow-mode.md says of a run and the code does    *)
(* not do.  The definition is refuted by a run of its own; README.md tells  *)
(* the story.                                                               *)
(***************************************************************************)
EXTENDS WorkflowRuns

\* Section 9: when the reviewers are done, both have looked at the same review
\* subject.  A run completes on reviews of one and the same implement attempt.
CompletedOnOneSubject ==
    [][run.status # "completed" /\ run'.status = "completed" =>
          att[LatestOf("code_review")].of = att[LatestOf("visual_judge")].of]_vars
=============================================================================
