------------------------ MODULE BrowserBridgeClaims ------------------------
(***************************************************************************)
(* What docs/specs/browser-bridge-stale-tab-cleanup.md says of the browser  *)
(* bridge and the code does not do.  The definition is refuted by a run of  *)
(* its own; README.md tells the story.                                      *)
(***************************************************************************)
EXTENDS BrowserBridge

\* Acceptance 2: a tab that still exists is announced again after a reconnect,
\* and can be used at once.  The broker lists a tab it is told of again.
ReannouncedTabsAreListed ==
    [][\A s \in Sockets :
          Takes(s, "tab_entry") /\ IsConnection(s) /\ TabShared(s) =>
             Arg(s) \in broker'.tabs]_vars
=============================================================================
