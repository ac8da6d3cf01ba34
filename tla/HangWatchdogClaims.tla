------------------------ MODULE HangWatchdogClaims -------------------------
(***************************************************************************)
(* What the comments of the code say of the hang watchdog, as properties   *)
(* of HangWatchdog.                                                        *)
(***************************************************************************)
EXTENDS HangWatchdog

\* Once the user has stopped the turn, no prompt is sent again before the user sends
\* one: opencode-proxy/session.ts:29, "An explicit user abort must cancel recovery for
\* the stopped turn."
AbortCancelsRecovery ==
    [][\A s \in Sends : resumes'[s] > resumes[s] => ~stopped]_vars

=============================================================================
