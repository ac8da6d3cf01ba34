---------------------------- MODULE WorkflowRuns ----------------------------
(***************************************************************************)
(* Workflow Mode for one run of the fixed template: the rows of             *)
(* workflow_runs, workflow_node_runs and workflow_node_attempts, the        *)
(* scheduler's tick from await to await (web/src/lib/workflow-scheduler.ts) *)
(* and the requests of the user (web/src/lib/workflow-service.ts).          *)
(*                                                                         *)
(* Every request carries the revision its sender saw and is refused when    *)
(* the row has moved on, so an accepted request acts on the current row:    *)
(* the revisions are left out.  JavaScript runs to completion: requests     *)
(* and answers take their step only while the tick waits for something.     *)
(***************************************************************************)
EXTENDS Integers, FiniteSets

CONSTANTS
    Optional,      \* the nodes whose config says gate.optional
    MaxCycles,     \* workflow_runs.max_cycles
    AttemptLimit,  \* IMPLEMENT_ATTEMPT_LIMIT
    MaxAttempts,   \* bound: no implement attempt after this one completes
    MaxManual,     \* bound on the attempts made by a retry or a skip
    MaxRestarts    \* bound on restarts of the server

Reviewers == {"code_review", "visual_judge"}
Nodes == {"implement_ui"} \cup Reviewers

ASSUME OptionalAssumption == Optional \subseteq Nodes
ASSUME LimitsAssumption == /\ MaxCycles \in Nat /\ AttemptLimit \in Nat
                           /\ MaxAttempts \in Nat /\ MaxManual \in Nat /\ MaxRestarts \in Nat

VARIABLES
    run,       \* the row of workflow_runs
    latest,    \* latest_attempt_no of each node
    att,       \* the attempts, by node and attempt_no
    subject,   \* how the tree relates to the latest implement attempt's fingerprint
    creating,  \* POSTs of reviewer sessions nobody has answered yet
    sched,     \* the tick in progress
    restarts   \* restarts so far

vars == <<run, latest, att, subject, creating, sched, restarts>>

Ids == Nodes \X (Nat \ {0})
Node(a) == a[1]
No(a) == a[2]

RunStatuses == {"none", "ready", "running", "pause_requested", "paused",
                "completed", "stopped", "detached"}
Ended == {"completed", "stopped", "detached"}
InFlight == {"dispatching", "running"}   \* creating_session is written by no code

\* Pause reasons: the user's, and those of the scheduler and of a manual send.
Reasons == {"", "user", "safety"}

AttemptStatuses == InFlight \cup {"ready", "succeeded", "failed", "skipped", "stopped"}
\* A review by what the gate makes of it: blocking findings are needs_changes, a
\* skipped verdict is pass or blocked as the node's config has it.
Verdicts == {"pass", "needs_changes", "blocked"}
\* Unreadable is no column: the reply holds no result that parses, the message the
\* attempt begins after is gone, or the reply never ends.
Outcomes == {"none", "unreadable", "completed", "unfinished"} \cup Verdicts
Attempt == [status: AttemptStatuses,
            session: BOOLEAN,     \* whether opencode_session_id is set
            outcome: Outcomes,    \* unfinished: progress or blocked
            sent: Nat,            \* prompts of this attempt the engine has got
            of: Nat]              \* history: the implement attempt it follows

NewAttempt(session, of) ==
    [status |-> "ready", session |-> session, outcome |-> "none", sent |-> 0, of |-> of]

Subjects == {"none", "same", "drifted"}
SubjectMatches == subject = "same"

Nobody == <<"implement_ui", 0>>
Idle == [pc |-> "idle", todo |-> {}, ready |-> {}, cur |-> Nobody,
         result |-> "none", matches |-> FALSE]

Init ==
    /\ run = [status |-> "none", reason |-> "", cycle |-> 0]
    /\ latest = [n \in Nodes |-> 0]
    /\ att = [a \in {} |-> NewAttempt(FALSE, 0)]
    /\ subject = "none"
    /\ creating = {}
    /\ sched = Idle
    /\ restarts = 0

-----------------------------------------------------------------------------
(* Rows *)

\* Seeded bug: the attempt is inserted and the node's latest_attempt_no is not updated.
InsertKeepsLatest(a, attempt) ==
    /\ att' = [b \in DOMAIN att \cup {a} |-> IF b = a THEN attempt ELSE att[b]]
    /\ latest' = latest

\* INSERT of an attempt whose number becomes the node's latest.
Insert(a, attempt) ==
    /\ att' = [b \in DOMAIN att \cup {a} |-> IF b = a THEN attempt ELSE att[b]]
    /\ latest' = [latest EXCEPT ![Node(a)] = No(a)]

NextId(n) == <<n, latest[n] + 1>>
IsLatest(a) == No(a) = latest[Node(a)]

Moved(a, status) == [att EXCEPT ![a].status = status]

WithStatus(status) == {a \in DOMAIN att : att[a].status = status}
SomeInFlight == \E a \in DOMAIN att : att[a].status \in InFlight

SetRun(status, reason) == run' = [run EXCEPT !.status = status, !.reason = reason]

\* The run's part of pauseWorkflowForAttempt.
SafetyPause ==
    IF run.status \in {"running", "pause_requested"}
    THEN SetRun("paused", "safety")
    ELSE run' = run

\* Seeded bug: the run pauses and the attempt stays dispatching.
PauseForAttemptRunOnly(a) == att' = att /\ SafetyPause

\* pauseWorkflowForAttempt: a dispatching attempt fails, a live run pauses.
PauseForAttempt(a) ==
    /\ att' = IF att[a].status = "dispatching" THEN Moved(a, "failed") ELSE att
    /\ SafetyPause

\* Seeded bug: the pause takes effect whatever is in flight.
FinalizedAtOnce(r, attempts) ==
    IF r.status = "pause_requested" THEN [r EXCEPT !.status = "paused"] ELSE r

\* Seeded bug: a tick never looks for requested pauses.
FinalizedNever(r, attempts) == r

\* finalizePauseRequestedIfIdle, on the rows a step leaves.
Finalized(r, attempts) ==
    IF r.status = "pause_requested"
       /\ \A a \in DOMAIN attempts : attempts[a].status \notin InFlight
    THEN [r EXCEPT !.status = "paused"]
    ELSE r

-----------------------------------------------------------------------------
(* The tick: results first, then the ready attempts *)

AtAwait == sched.pc \notin {"results", "saved", "claims"}
Goto(pc) == sched' = [sched EXCEPT !.pc = pc]

\* The tick is done with the attempt it was at.
Back(pc) == sched' = [Idle EXCEPT !.pc = pc, !.todo = sched.todo, !.ready = sched.ready]

\* The ready attempts are listed before any result is looked at.
TickStart ==
    /\ sched.pc = "idle"
    /\ sched' = [Idle EXCEPT
          !.pc = "results",
          !.todo = IF run.status \in {"running", "pause_requested"}
                   THEN WithStatus("running") ELSE {},
          !.ready = IF run.status = "running" THEN WithStatus("ready") ELSE {}]
    /\ UNCHANGED <<run, latest, att, subject, creating, restarts>>

\* With the feature switched off a tick pauses every run that has not ended.
TickDisabled ==
    /\ sched.pc = "idle"
    /\ run.status \in {"ready", "running", "pause_requested"}
    /\ SetRun("paused", "safety")
    /\ UNCHANGED <<latest, att, subject, creating, sched, restarts>>

\* processRunningAttempt fetches the attempt's messages.
FetchMessages ==
    /\ sched.pc = "results"
    /\ \E a \in sched.todo :
          sched' = [sched EXCEPT !.pc = "reading", !.cur = a, !.todo = @ \ {a}]
    /\ UNCHANGED <<run, latest, att, subject, creating, restarts>>

\* No result yet, none that can be read, or a failed fetch.
NoResult ==
    /\ sched.pc = "reading"
    /\ Back("results")
    /\ UNCHANGED <<run, latest, att, subject, creating, restarts>>

\* What the engine may answer to a prompt for node n.
Answers(n) ==
    IF n \in Reviewers THEN Verdicts
    ELSE {r \in {"completed", "unfinished"} :
            r = "completed" => latest["implement_ui"] <= MaxAttempts}

\* A result has been parsed; for a reviewer the workspace is compared with the
\* subject and the verdict of that comparison is kept across the await.
ReadResult ==
    /\ sched.pc = "reading"
    /\ att[sched.cur].sent > 0
    /\ att[sched.cur].outcome # "unreadable"
    /\ \E r \in Answers(Node(sched.cur)) :
          sched' = [sched EXCEPT !.pc = "saving", !.result = r, !.matches = SubjectMatches]
    /\ UNCHANGED <<run, latest, att, subject, creating, restarts>>

\* A reviewer's result from a drifted workspace pauses the run and is dropped;
\* its attempt stays running.
DropDrifted ==
    /\ sched.pc = "saving"
    /\ Node(sched.cur) \in Reviewers /\ ~sched.matches
    /\ PauseForAttempt(sched.cur)
    /\ Back("results")
    /\ UNCHANGED <<latest, subject, creating, restarts>>

\* The result is saved while the attempt still runs.
SaveResult ==
    LET a == sched.cur IN
    /\ sched.pc = "saving"
    /\ Node(a) \in Reviewers => sched.matches
    /\ IF att[a].status = "running"
       THEN /\ att' = [att EXCEPT ![a].status = "succeeded", ![a].outcome = sched.result]
            /\ subject' = IF Node(a) = "implement_ui" /\ IsLatest(a) THEN "same" ELSE subject
            /\ Goto("saved")
       ELSE /\ Back("results")
            /\ UNCHANGED <<att, subject>>
    /\ UNCHANGED <<run, latest, creating, restarts>>

\* Only completed activates the reviewers; any other result ends here.
OtherResult ==
    /\ sched.pc = "saved"
    /\ sched.result = "unfinished"
    /\ run' = Finalized(run, att)
    /\ Back("results")
    /\ UNCHANGED <<latest, att, subject, creating, restarts>>

\* activateReviewers: both nodes are read, then a session is asked for each.
ActivateReviewers ==
    /\ sched.pc = "saved"
    /\ sched.result = "completed"
    /\ creating' = creating \cup
          {[id |-> NextId(n), mine |-> TRUE, of |-> No(sched.cur)] : n \in Reviewers}
    /\ Back("activating")
    /\ UNCHANGED <<run, latest, att, subject, restarts>>

\* Seeded bug: the tick goes on waiting for a creation that has failed.
AbandonWaits(c) ==
    /\ creating' = {[d EXCEPT !.mine = FALSE] : d \in creating \ {c}}
    /\ SafetyPause
    /\ UNCHANGED sched

\* The first failure rejects the Promise.all: the tick goes on, and what the
\* other creation brings is nobody's business any more.
Abandon(c) ==
    /\ creating' = {[d EXCEPT !.mine = FALSE] : d \in creating \ {c}}
    /\ SafetyPause
    /\ Back("results")

\* A session was created.  Its attempt takes the number read before the await:
\* when a retry or skip has taken it, the INSERT throws.
SessionCreated(c) ==
    /\ AtAwait
    /\ LET a == c.id
           free == a \notin DOMAIN att
           rest == creating \ {c}
           attempts == [b \in DOMAIN att \cup {a} |->
                          IF b = a THEN NewAttempt(TRUE, c.of) ELSE att[b]]
       IN  /\ IF free
              THEN Insert(a, NewAttempt(TRUE, c.of))
              ELSE UNCHANGED <<att, latest>>
           /\ IF c.mine /\ ~free
              THEN Abandon(c)
              ELSE /\ creating' = rest
                   /\ IF c.mine /\ \A d \in rest : ~d.mine
                      THEN /\ Back("results")
                           /\ run' = Finalized(run, attempts)
                      ELSE UNCHANGED <<run, sched>>
    /\ UNCHANGED <<subject, restarts>>

\* The POST failed or timed out.
SessionFailed(c) ==
    /\ AtAwait
    /\ IF c.mine THEN Abandon(c)
       ELSE creating' = creating \ {c} /\ UNCHANGED <<run, sched>>
    /\ UNCHANGED <<latest, att, subject, restarts>>

-----------------------------------------------------------------------------
(* The review gate *)

LatestOf(n) == <<n, latest[n]>>
Outcome(n) == att[LatestOf(n)].outcome

\* Seeded bug: the gate opens while a review is still to come.
GateOpenEarly == \A n \in Reviewers : LatestOf(n) \in DOMAIN att

GateOpen == \A n \in Reviewers :
                LatestOf(n) \in DOMAIN att /\ att[LatestOf(n)].status = "succeeded"

\* executeReviewGate over the two verdicts.
GateDecision ==
    IF \E n \in Reviewers : Outcome(n) = "blocked" THEN "pause"
    ELSE IF \E n \in Reviewers : Outcome(n) = "needs_changes" THEN "return_to_implement"
    ELSE "pass"

\* Seeded bug: the gate's UPDATE without its WHERE status = 'running'.
WhileAny(r) == r

WhileRunning(r) == IF run.status = "running" THEN r ELSE run

\* advanceReviewGate.  The next implement attempt is inserted whatever the run's
\* status; the cycle counts only while the run is running.
AdvanceReviewGate ==
    /\ sched.pc = "saved"
    /\ sched.result \in Verdicts
    /\ \/ /\ ~GateOpen
          /\ run' = Finalized(run, att)
          /\ UNCHANGED <<latest, att, subject>>
       \/ /\ GateOpen /\ GateDecision = "pause"
          /\ run' = Finalized(
                WhileRunning([run EXCEPT !.status = "paused", !.reason = "safety"]), att)
          /\ UNCHANGED <<latest, att, subject>>
       \/ /\ GateOpen /\ GateDecision = "pass"
          /\ run' = Finalized(WhileRunning([run EXCEPT !.status = "completed"]), att)
          /\ UNCHANGED <<latest, att, subject>>
       \/ /\ GateOpen /\ GateDecision = "return_to_implement"
          /\ run.cycle >= MaxCycles
          /\ run' = Finalized(
                WhileRunning([run EXCEPT !.status = "paused", !.reason = "safety"]), att)
          /\ UNCHANGED <<latest, att, subject>>
       \/ /\ GateOpen /\ GateDecision = "return_to_implement"
          /\ run.cycle < MaxCycles
          /\ Insert(NextId("implement_ui"), NewAttempt(TRUE, latest["implement_ui"]))
          /\ subject' = "none"
          /\ run' = Finalized(WhileRunning([run EXCEPT !.cycle = @ + 1]), att)
    /\ Back("results")
    /\ UNCHANGED <<creating, restarts>>

-----------------------------------------------------------------------------
(* The tick: dispatch *)

ResultsDone ==
    /\ sched.pc = "results"
    /\ sched.todo = {}
    /\ run' = Finalized(run, att)
    /\ Back("claims")
    /\ UNCHANGED <<latest, att, subject, creating, restarts>>

Taken(a) == [sched EXCEPT !.ready = @ \ {a}]

\* Seeded bug: the run is not asked again after the results.
DispatchableAnyRun(a) ==
    att[a].session /\ (Node(a) = "implement_ui" => No(a) <= AttemptLimit)

Dispatchable(a) ==
    /\ run.status = "running"
    /\ att[a].session
    /\ Node(a) = "implement_ui" => No(a) <= AttemptLimit

\* claimAttempt and the checks before dispatchAttempt's first await.  The visual
\* judge is also refused when no screenshot is registered.  Nobody but the tick
\* moves a ready attempt, so what it has listed it can claim.
Claim ==
    /\ sched.pc = "claims"
    /\ \E a \in sched.ready :
          /\ att[a].status = "ready"
          /\ \/ /\ Dispatchable(a)
                /\ att' = Moved(a, "dispatching")
                /\ sched' = [Taken(a) EXCEPT !.pc = "preparing", !.cur = a]
                /\ run' = run
             \/ /\ ~Dispatchable(a) \/ Node(a) = "visual_judge"
                /\ att' = Moved(a, "failed")
                /\ sched' = Taken(a)
                /\ SafetyPause
    /\ UNCHANGED <<latest, subject, creating, restarts>>

\* The workspace drifted, or the boundary, the snapshot or the prompt failed.
PrepareFails ==
    /\ sched.pc = "preparing"
    /\ PauseForAttempt(sched.cur)
    /\ Back("claims")
    /\ UNCHANGED <<latest, subject, creating, restarts>>

\* The prompt is saved while the attempt is still dispatching; the snapshot of
\* an implement attempt is the fingerprint later workspaces are compared with.
SavePrompt ==
    LET a == sched.cur IN
    /\ sched.pc = "preparing"
    /\ Node(a) \in Reviewers => SubjectMatches
    /\ IF att[a].status = "dispatching"
       THEN /\ Goto("sending")
            /\ subject' = IF Node(a) = "implement_ui" /\ IsLatest(a) THEN "same" ELSE subject
       ELSE Back("claims") /\ UNCHANGED subject
    /\ UNCHANGED <<run, latest, att, creating, restarts>>

\* The POST reaches the engine.
Deliver ==
    /\ sched.pc = "sending"
    /\ att' = [att EXCEPT ![sched.cur].sent = @ + 1]
    /\ Goto("sent")
    /\ UNCHANGED <<run, latest, subject, creating, restarts>>

\* Seeded bug: the UPDATE without its WHERE.
AcceptedAlways(a) == Moved(a, "running")

\* UPDATE ... SET status = 'running' WHERE status = 'dispatching'.
Accepted(a) == IF att[a].status = "dispatching" THEN Moved(a, "running") ELSE att

\* The engine answers the POST.
SendAnswered ==
    /\ sched.pc = "sent"
    /\ att' = Accepted(sched.cur)
    /\ Back("claims")
    /\ UNCHANGED <<run, latest, subject, creating, restarts>>

\* A failed permission update, a refused POST or no answer in time.
SendFails ==
    /\ sched.pc \in {"sending", "sent"}
    /\ PauseForAttempt(sched.cur)
    /\ Back("claims")
    /\ UNCHANGED <<latest, subject, creating, restarts>>

TickDone ==
    /\ sched.pc = "claims"
    /\ sched.ready = {}
    /\ sched' = Idle
    /\ UNCHANGED <<run, latest, att, subject, creating, restarts>>

\* Seeded bug: an interrupted dispatch is done again.
InterruptedIsRedone == "ready"

\* What becomes of an attempt whose dispatch a restart cut short.
Interrupted == "failed"

\* The server stops at any point and starts again: recoverInterruptedAttempts.
Restart ==
    /\ restarts < MaxRestarts
    /\ restarts' = restarts + 1
    /\ att' = [a \in DOMAIN att |->
                 IF att[a].status = "dispatching"
                 THEN [att[a] EXCEPT !.status = Interrupted] ELSE att[a]]
    /\ IF WithStatus("dispatching") # {} THEN SafetyPause ELSE run' = run
    /\ creating' = {}
    /\ sched' = Idle
    /\ UNCHANGED <<latest, subject>>

-----------------------------------------------------------------------------
(* Requests *)

\* createWorkflow: the task enters Workflow Mode.
Create ==
    /\ AtAwait
    /\ run.status = "none"
    /\ SetRun("ready", "")
    /\ Insert(NextId("implement_ui"), NewAttempt(TRUE, 0))
    /\ UNCHANGED <<subject, creating, sched, restarts>>

Start ==
    /\ AtAwait
    /\ run.status = "ready"
    /\ SetRun("running", run.reason)
    /\ UNCHANGED <<latest, att, subject, creating, sched, restarts>>

Resume ==
    /\ AtAwait
    /\ run.status = "paused"
    /\ SetRun("running", "")
    /\ UNCHANGED <<latest, att, subject, creating, sched, restarts>>

\* A pause waits for the attempts in flight.
Pause ==
    /\ AtAwait
    /\ run.status \in {"ready", "running"}
    /\ SetRun(IF SomeInFlight THEN "pause_requested" ELSE "paused", "user")
    /\ UNCHANGED <<latest, att, subject, creating, sched, restarts>>

Active == run.status \notin Ended \cup {"none"}

\* A stop, the user's or an archive's.
Stop ==
    /\ AtAwait
    /\ Active
    /\ SetRun("stopped", run.reason)
    /\ att' = [a \in DOMAIN att |->
                 IF att[a].status \in InFlight
                 THEN [att[a] EXCEPT !.status = "stopped"] ELSE att[a]]
    /\ UNCHANGED <<latest, subject, creating, sched, restarts>>

\* Back to a standard task.
Detach ==
    /\ AtAwait
    /\ run.status \in {"paused", "completed", "stopped"}
    /\ ~SomeInFlight
    /\ SetRun("detached", run.reason)
    /\ UNCHANGED <<latest, att, subject, creating, sched, restarts>>

Reattach ==
    /\ AtAwait
    /\ run.status = "detached"
    /\ SetRun("paused", "user")
    /\ UNCHANGED <<latest, att, subject, creating, sched, restarts>>

NodeInFlight(n) == \E a \in DOMAIN att : Node(a) = n /\ att[a].status \in InFlight

\* Attempts made on request have no session.
MayAdd == Cardinality({a \in DOMAIN att : ~att[a].session}) < MaxManual

\* nextAttempt: the new attempt is inserted without a session.
Retry(n) ==
    /\ AtAwait
    /\ Active
    /\ MayAdd
    /\ ~NodeInFlight(n)
    /\ Insert(NextId(n), NewAttempt(FALSE, latest["implement_ui"]))
    /\ subject' = IF n = "implement_ui" THEN "none" ELSE subject
    /\ UNCHANGED <<run, creating, sched, restarts>>

\* A skip is an attempt of its own; the gate is not asked.
Skip(n) ==
    /\ AtAwait
    /\ Active
    /\ MayAdd
    /\ n \in Optional
    /\ ~NodeInFlight(n)
    /\ Insert(NextId(n),
          [NewAttempt(FALSE, latest["implement_ui"]) EXCEPT !.status = "skipped"])
    /\ subject' = IF n = "implement_ui" THEN "none" ELSE subject
    /\ UNCHANGED <<run, creating, sched, restarts>>

\* pauseWorkflowForManualInput: the user typed into a session of the run.
ManualInput ==
    /\ AtAwait
    /\ run.status = "running"
    /\ WithStatus("running") # {}
    /\ SetRun("paused", "safety")
    /\ UNCHANGED <<latest, att, subject, creating, sched, restarts>>

\* Somebody edits files, or undoes an edit.  An edit `git status` does not show
\* leaves the fingerprint, and so this state, as it was.
Edit ==
    /\ AtAwait
    /\ subject # "none"
    /\ subject' \in Subjects \ {"none", subject}
    /\ UNCHANGED <<run, latest, att, creating, sched, restarts>>

Unreadable(a) ==
    a \in DOMAIN att /\ att[a].status = "running" /\ att[a].outcome = "unreadable"

\* The engine spoils the reply of an attempt, or a human gets a proper one from it.
\* The code tells neither from a reply that is still to come.
ReplySpoilt(a) ==
    /\ AtAwait
    /\ att[a].status = "running" /\ att[a].sent > 0
    /\ att' = [att EXCEPT ![a].outcome = IF Unreadable(a) THEN "none" ELSE "unreadable"]
    /\ UNCHANGED <<run, latest, subject, creating, sched, restarts>>

-----------------------------------------------------------------------------

TickStep ==
    \/ TickStart \/ TickDisabled \/ FetchMessages \/ NoResult \/ ReadResult
    \/ DropDrifted \/ SaveResult \/ OtherResult \/ ActivateReviewers
    \/ AdvanceReviewGate \/ ResultsDone \/ Claim \/ PrepareFails
    \/ SavePrompt \/ Deliver \/ SendAnswered \/ SendFails \/ TickDone

Creations == \E c \in creating : SessionCreated(c) \/ SessionFailed(c)

Requests ==
    \/ Create \/ Start \/ Resume \/ Pause \/ Stop \/ Detach \/ Reattach
    \/ \E n \in Nodes : Retry(n) \/ Skip(n)
    \/ ManualInput

Environment == Edit \/ \E a \in DOMAIN att : ReplySpoilt(a)

Next == TickStep \/ Creations \/ Requests \/ Environment \/ Restart

Spec == Init /\ [][Next]_vars

\* The interval keeps ticking, and every request the tick waits for is answered or
\* times out.  Of the fetches made while a reply can be read some get through, after
\* the reply is complete; nothing says that a reply can be read.
LiveSpec == /\ Spec
            /\ WF_vars(TickStep) /\ WF_vars(Creations)
            /\ SF_vars(ReadResult)

-----------------------------------------------------------------------------
(* Properties *)

Creation == [id: Ids, mine: BOOLEAN, of: Nat]
PCs == {"idle", "results", "reading", "saving", "saved", "activating", "claims",
        "preparing", "sending", "sent"}
AtAttempt == {"reading", "saving", "saved", "preparing", "sending", "sent"}

\* Types, and: no attempt has a number above its node's latest, and what the tick
\* has listed or is at exists.
TypeOK ==
    /\ run \in [status: RunStatuses, reason: Reasons, cycle: Nat]
    /\ latest \in [Nodes -> Nat]
    /\ DOMAIN att \subseteq Ids
    /\ att \in [DOMAIN att -> Attempt]
    /\ \A a \in DOMAIN att : No(a) <= latest[Node(a)]
    /\ subject \in Subjects
    /\ creating \subseteq Creation
    /\ sched \in [pc: PCs, todo: SUBSET Ids, ready: SUBSET Ids, cur: Nodes \X Nat,
                  result: Outcomes, matches: BOOLEAN]
    /\ sched.todo \cup sched.ready \subseteq DOMAIN att
    /\ sched.pc \in AtAttempt => sched.cur \in DOMAIN att
    /\ restarts \in Nat

\* W8: no prompt is sent twice, whatever is paused, stopped, retried, restarted
\* or unanswered in between.
SentOnce == \A a \in DOMAIN att : att[a].sent <= 1

\* An attempt in dispatching is the one the tick is sending: none is left behind
\* in a state only a restart would end.
DispatchHasOwner ==
    \A a \in DOMAIN att : att[a].status = "dispatching" =>
        sched.pc \in {"preparing", "sending", "sent"} /\ sched.cur = a

\* W2: a node has at most one attempt in flight.
OneInFlightPerNode ==
    \A a, b \in DOMAIN att :
        Node(a) = Node(b) /\ {att[a].status, att[b].status} \subseteq InFlight => a = b

\* A run the user paused is quiet: no attempt is in flight until the resume.
UserPauseIsQuiet ==
    run.status = "paused" /\ run.reason = "user" => ~SomeInFlight

\* W7: an attempt that has ended keeps its status and result, however late the
\* answer to its POST or the read of its result comes.
EndedAttemptIsFinal ==
    [][\A a \in DOMAIN att :
          att[a].status \notin InFlight \cup {"ready"} =>
             a \in DOMAIN att' /\ att'[a].status = att[a].status
                               /\ att'[a].outcome = att[a].outcome]_vars

\* A run that is paused or has ended changes its status by a request only: no
\* late result, gate decision, session or restart revives or completes it.
OnlyRequestsRevive ==
    [][run.status \in Ended \cup {"paused"} /\ run'.status # run.status =>
          UNCHANGED <<sched, creating, latest>>]_vars

\* A tick comes to its end: while one is in progress no other starts
\* (schedulerTicking), so one that hung would stop every workflow.
TickEnds == sched.pc # "idle" ~> sched.pc = "idle"

\* A requested pause comes into effect once every reply in flight can be read.  A
\* reply that cannot holds the pause up for ever: its attempt stays running.
PauseCompletes ==
    <>[](\A a \in DOMAIN att : ~Unreadable(a)) =>
        (run.status = "pause_requested" ~> run.status # "pause_requested")

-----------------------------------------------------------------------------
(* What a run promises *)

Table == INSTANCE WorkflowTable WITH
            status <- run.status,
            attempt <- [a \in DOMAIN att |-> att[a].status]

\* Every step of the tick, of a creation, a request or a restart is one of the
\* table's.
KeepsTable == Table!Spec
=============================================================================
