---------------------------- MODULE WorkflowTable ----------------------------
(***************************************************************************)
(* What Workflow Mode promises of a run: the statuses a run and its         *)
(* attempts go through, and which of these steps belong together, whoever   *)
(* asks and whatever is in flight.  It follows the tables of                *)
(* docs/specs/node-workflow-mode.md, section 10.3, as far as the code keeps *)
(* them; sessions, prompts, verdicts and the tick do not appear.            *)
(***************************************************************************)
EXTENDS Integers

CONSTANTS Nodes, Reviewers

VARIABLES
    status,   \* of the run
    attempt   \* the status of each attempt, by node and number

vars == <<status, attempt>>

InFlight == {"dispatching", "running"}
Quiet(as) == \A a \in DOMAIN as : as[a] \notin InFlight
Numbers(n) == {a[2] : a \in {b \in DOMAIN attempt : b[1] = n}}
Newest(n) == CHOOSE a \in DOMAIN attempt :
                a[1] = n /\ \A k \in Numbers(n) : k <= a[2]

Init == status = "none" /\ attempt = [a \in {} |-> "ready"]

Goes(a, from, to) ==
    a \in DOMAIN attempt /\ attempt[a] = from /\ attempt' = [attempt EXCEPT ![a] = to]

\* An attempt takes the next number of its node; those before it stay.
Adds(n, new) ==
    \E k \in {1} \cup {i + 1 : i \in Numbers(n)} :
       /\ \A i \in Numbers(n) : i < k
       /\ attempt' = [a \in DOMAIN attempt \cup {<<n, k>>} |->
                        IF a = <<n, k>> THEN new ELSE attempt[a]]

\* A requested pause takes effect in the step that leaves nothing in flight, or
\* in a later one.
Settles ==
    \/ status' = status
    \/ /\ status = "pause_requested" /\ Quiet(attempt')
       /\ status' = "paused"

\* The scheduler, a manual send or a restart pauses a live run.
PausesIfLive ==
    status' = IF status \in {"running", "pause_requested"} THEN "paused" ELSE status

-----------------------------------------------------------------------------
(* The run *)

Create == status = "none" /\ status' = "ready" /\ Adds("implement_ui", "ready")
Start == status = "ready" /\ status' = "running" /\ UNCHANGED attempt
Resume == status = "paused" /\ status' = "running" /\ UNCHANGED attempt

\* Nothing is in flight in a run that a user has paused.
Pause ==
    /\ status \in {"ready", "running"}
    /\ status' = IF Quiet(attempt) THEN "paused" ELSE "pause_requested"
    /\ UNCHANGED attempt

SafetyPause ==
    /\ status \in {"ready", "running", "pause_requested"}
    /\ status' = "paused"
    /\ UNCHANGED attempt

\* Both newest reviews have succeeded.
Complete ==
    /\ status = "running"
    /\ \A n \in Reviewers : Numbers(n) # {} /\ attempt[Newest(n)] = "succeeded"
    /\ status' = "completed"
    /\ UNCHANGED attempt

\* A stop takes every attempt in flight with it.
Stop ==
    /\ status \notin {"none", "completed", "stopped", "detached"}
    /\ status' = "stopped"
    /\ attempt' = [a \in DOMAIN attempt |->
                     IF attempt[a] \in InFlight THEN "stopped" ELSE attempt[a]]

Detach ==
    /\ status \in {"paused", "completed", "stopped"} /\ Quiet(attempt)
    /\ status' = "detached"
    /\ UNCHANGED attempt

Reattach == status = "detached" /\ status' = "paused" /\ UNCHANGED attempt

-----------------------------------------------------------------------------
(* The attempts *)

\* New work may be added to any run, even to one that is paused or has ended.
Add(n) ==
    \/ Adds(n, "ready") /\ Settles
    \/ Adds(n, "skipped") /\ UNCHANGED status

\* Only a running run has its ready attempts dispatched.
Dispatch(a) ==
    status = "running" /\ Goes(a, "ready", "dispatching") /\ UNCHANGED status

Refuse(a) == Goes(a, "ready", "failed") /\ PausesIfLive
Accept(a) == Goes(a, "dispatching", "running") /\ UNCHANGED status
GiveUp(a) == Goes(a, "dispatching", "failed") /\ PausesIfLive
Finish(a) == Goes(a, "running", "succeeded") /\ UNCHANGED status

Settle == Settles /\ UNCHANGED attempt

Next ==
    \/ Create \/ Start \/ Resume \/ Pause \/ SafetyPause \/ Complete \/ Stop
    \/ Detach \/ Reattach \/ Settle
    \/ \E n \in Nodes : Add(n)
    \/ \E a \in DOMAIN attempt :
          Dispatch(a) \/ Refuse(a) \/ Accept(a) \/ GiveUp(a) \/ Finish(a)

Spec == Init /\ [][Next]_vars
=============================================================================
