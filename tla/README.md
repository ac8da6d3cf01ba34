# LeafCode: models, checks and proofs

LeafCode is a desktop front end for the OpenCode agent engine. This directory
holds TLA+ models of its concurrent parts, the TLC configurations that check
them on small instances, and theorems checked by TLAPS. Paths below are
relative to the repository root.

## 1. The system

Three programs run on the user's machine, next to the OpenCode engine itself.

| Program | What it keeps | What it does |
| --- | --- | --- |
| `web/` (Next.js UI and BFF) | a SQLite database (`web/src/lib/db.ts`, `db-schema.ts`), in-memory caches | serves the UI, proxies the engine's HTTP API, runs four background loops on timers (Goal Loop, Workflow, hang watchdog, memory sweep) |
| `host/` (tray process) | child processes, lock file, log | starts, supervises, restarts and upgrades the engine, the web server and Caddy |
| `browser-bridge/` | a broker inside the host process, a browser extension | lets the agent drive a browser tab the user has shared |

They interact through HTTP calls (every call may time out after having been
accepted), through rows of the database that several handlers update by
compare-and-set on a `revision` column, and through timers. JavaScript runs one
handler at a time between two `await`s; all races are between handlers that are
suspended in an `await`.

### Inventory

| Component | Source | State | Hard behaviours | What makes it correct | Status |
| --- | --- | --- | --- | --- | --- |
| Goal Loop | `web/src/lib/goal-*.ts`, `api/tasks/[id]/goal-loop` | `goal_loops` rows: status, turn kind, pause reason, counters, read boundary, revision | a tick races pause/resume/stop/create/manual sends over several awaits; prompts that may or may not have been delivered; transcripts rewritten by reverts and compactions; restarts | turns are counted, a reply is applied once and to the turn it answers, completion needs a verification, an ended loop stays ended, a turn ends | modelled |
| Hang watchdog | `hang-watchdog.ts`, its hooks in the proxy and `api/tasks` | `session_hang_watches`: one row per session | a tick works on a copy of the row while the session is re-armed, disarmed or aborted | one resume per send, none after its reply, no row stranded by a crash | modelled |
| Workflow Mode | `workflow-scheduler.ts`, `workflow-service.ts`, `workflow-control*.ts` | `workflow_runs`, `workflow_node_runs`, `workflow_node_attempts` | two reviewer sessions created in parallel, one of them failing; pause, stop and retry during a dispatch or a read; restart between claim and POST | a prompt goes out once, a pause takes effect and is quiet, ended runs and attempts stay ended, the gate decides on succeeded reviews | modelled, graphs and the Goal Loop exclusion apart (section 4) |
| Workflow graphs | `workflow-graph-runtime.ts`, `-validation.ts`, `-repository.ts` | graph, snapshot | readiness with joins and failed dependencies; optimistic revision | readiness agrees with its definition, a ready node exists unless blocked or done | planned (1) |
| Compaction lock, title refresh | `db.ts:1299-1339`, `goal-state.ts:1-61`, `session-title-refresh.ts` | lock rows with a TTL | holder slower than the TTL, lost answers | one compaction per session; expiry never strands the lock | planned (2) |
| Host supervisor | `host/src/index.js`, `lock-file.js`, `process-stop.js`, `opencode-upgrade.js` | child processes, lock file | two hosts starting together, stale lock take-over, crash during an upgrade | one host; an upgrade ends with the new or the old version running | planned (3) |
| Browser bridge | `browser-bridge/broker/server.mjs`, `extension/background.mjs` | the broker's maps, the service worker's variables, the sockets between them | replaced, rejected and half-closed sockets; answers that come after their timer, decisions after their approval; tabs unshared while an operation waits; a worker killed at any time | one connection, nothing waits on a tab that is not shared or without a connection, an operation runs once, the connection comes back | modelled, caches and the MCP front apart (section 5) |
| Client caches | `stale-cache.ts`, `client.ts` | entries | a refresh that started before an invalidation | an invalidated value does not come back | planned (4) |
| Interactive terminal | `pty-session.ts`, `pty-relay.ts` | session table | limits, disconnects | bounded sessions, no orphan | later |
| Memory layer, session stream, project sync | `memory*.ts`, `useSessionStream.ts`, `project-session-*.ts` | rows, view state | sweeps against edits, SSE reconnection | see PROJECT.json | later |
| Not to be modelled | auth and request guards, settings, model ranking, git and file I/O, UI components, sync scripts, vendored proxies | | sequential or stateless, or pure I/O | | no |

`PROJECT.json` lists every component with its sources, and under `hazards`
every place of this code that a test would hardly reach.

## 2. The Goal Loop

A user gives a session a goal; the scheduler (`goal-scheduler.ts`, every 2.5 s)
prompts the engine turn after turn, reads the result block of each reply, asks
for an independent verification when the agent claims completion, and parks the
loop (`paused`, with a reason) whenever it needs the user. API handlers
(`goal-db.ts`) pause, resume, stop and replace the loop, and the proxy pauses
it before it forwards a prompt the user types himself.

### Modules

| Module | Models |
| --- | --- |
| `GoalRules` | what happens between two awaits: reading a transcript (`goal-util.ts`) and each `UPDATE` of the row (`goal-state.ts`, `goal-db.ts`), as operators from row to row. An `UPDATE` whose `WHERE` clause does not hold returns the row unchanged. |
| `GoalLoop` | who runs when: the tick (one at a time, `schedulerTicking`), the requests of several clients, the engine, crashes. One action is the code from one `await` to the next; what a handler holds across an `await` is in its record (`dto`, the row it read; `view`, the transcript it received). |
| `GoalLoopTable` | the abstract promise: the transition table of `docs/specs/goal-loop.md`, corrected where the code differs (see 2.4). |
| `GoalLoopClaims` | sentences of the code's comments and of the specification that the code does not keep. |
| `GoalRulesProofs`, `GoalLoopProofs`, `GoalWritesProofs` | the theorems: about the rules, about types and ended loops, and about everything that is written. |
| `MCGoalLoop` | the root module of the runs. |

The operators marked "Seeded bug" are not part of any specification: each is a
definition with a plausible mistake, and a property is worth keeping only when
putting the mistake in makes TLC find the property violated. `PROJECT.json`
pairs them under `mutants`.

State and code:

| Variable | Code |
| --- | --- |
| `rows` | the `goal_loops` table of one workspace; loop ids in order of `created_at`, so `getGoalLoop` is the greatest existing id |
| `transcript`, `nextMsg`, `turn` | the engine's session: its messages, and the prompt it is working on (`busy`) |
| `late` | prompts whose HTTP client gave up, still on their way |
| `sched` | a tick: `listed` -> `status` -> `messages` -> `decide` -> (`compact` -> `compacted`) -> claim -> `context` -> `posting` |
| `op` | one request per client: `read` -> `act` -> `abort` -> `forward` |
| `requests`, `faults` | the bounds MaxRequests and MaxFaults |

A message keeps its author, whether an assistant message was completed, and
its result; `loop` and `kind` say which prompt it belongs to and are read by
properties only. Progress entries keep the message they were read from.
`promptAt` is `fresh` or `old` (`TURN_TIMEOUT_MS` gone by). `full` is
`force_full_run`.

Abstractions and assumptions: one workspace with one bound session; request
bodies are valid; the columns that only hold text (`summary`, `evidence`,
`error`, ...) and the cut of `progress` to its last 50 entries are left out;
`pause_requested` is never set to 1 by any code and is left out; HTTP requests
to the engine arrive in the order they were sent and are given up long before
`TURN_TIMEOUT_MS` (two minutes against thirty); the engine answers `SessionBusy`
to a prompt while it works (the code relies on it, `goal-db.ts:448-451`); a
compaction either replaces the transcript by its summary or appends it. A
transcript that was quiet for `STRUCTURED_GRACE_MS` is a choice: a reply
without a result may or may not have been quiet for so long.

### 2.1 Runs that pass

All use the root module `MCGoalLoop`; the bounds are in the `.cfg` files.

| Run | Requests and faults | Checks |
| --- | --- | --- |
| `goal_loop_turns` | one loop, one client: create, pause, resume, manual send, revert; one fault; normal and full runs; one turn, one rejected claim | `TypeOK`; `GoalTurnsAccounted`: `turn_count` never falls behind the goal prompts sent; `CompletedOnlyVerified`; `AppliedOnce`; `FullRunIgnoresClaims`; `ClaimAwaitsCheck`: a claim is not forgotten; `UnknownDeliveryHolds`; `BoundaryMovesForward`; `KeepsTable`: every write is a transition of `GoalLoopTable` |
| `goal_loop_replaced` | two loops, two clients: create, pause, resume, stop/finish, manual send, maxTurns, revert; one fault | `OpenLoopIsLatest`; `CopiesAgree`: a copy whose revision is still the row's is the row; `TerminalIsFinal`; `OnlyResumeRevives` |
| `goal_loop_progress` | create, manual send, resume; one fault, auto-compaction | liveness: `TurnEnds`, and `LoopSettles`: once nothing fails any more, no cycle of turns and verifications goes on forever |

Why the bounds are enough. Three requests are a creation and two more that can
each be at any await while a tick is at any of its own; a race of this code
needs one handler holding an old copy and one or two writers. One fault is an
ambiguous delivery, a refusal, a lost abort, a failed read or a crash. A single
goal turn with one rejected claim already meets both caps in one reply. The
clients have nothing of their own, so `goal_loop_replaced` takes them up to
symmetry; no liveness is checked there. Message ids (16) are never exhausted in
these instances. What the bounds cut off is covered by the theorems of 2.3, which
hold for any number of turns, requests, faults and loops.

`AppliedOnce` and `BoundaryMovesForward` speak of a loop as long as it has
replaced no other (`Unreplaced`), and that is all the code gives: the
`UPDATE` of the manual-send pause (`goal-db.ts:430-440`) names the workspace, the
session and the revision and not the loop, and revisions restart at 0 with every
loop. A send that read the old loop's row and transcript can therefore pause the new
loop and give it a boundary from before.

Deadlock is not checked: a loop that has ended or is paused, with the requests
of the bound used up, rightly does nothing.

### 2.2 Fairness

`LiveSpec` gives weak fairness to the steps of the tick that need no fault, to
the arrival of requests on the wire and to the passing of `TURN_TIMEOUT_MS`:
`setInterval` restarts the tick, every HTTP call has a timeout, and a handler
whose answer is there goes on. The engine gets none: it may stay busy forever,
and `TurnEnds` holds all the same, because the tick looks at the clock before
it looks at the engine. API requests get no fairness: users owe nothing.

`LoopSettles` states its own two assumptions: the engine finishes its turns
(`[]<>~turn.busy`), and failures come to an end (`FaultsEnd`). In the run
`MaxFaults` ends them after the first; in the code nothing does, and the property
fails without the assumption. A refused prompt gives its turn back and queues the loop
again (`goal-state.ts:442-456`), so with an engine that answers every prompt with
a 4xx the loop is claimed, refused and queued for ever, its budget untouched, and
never waits for its user. The bound `maxTurns + MAX_REJECTED_CLAIMS + 1` on the prompts
of a loop (`docs/specs/goal-loop.md:146`) therefore counts those the engine takes, and
not the calls of `prompt_async`.

### 2.3 Proofs

`GoalLoopProofs` proves, for every value of the constants (any number of
loops, clients, turns, requests, faults and messages):

* `TypeCorrect`: `Spec => []TypeOK`. `TypeOK` is inductive. Besides the types
  it says what the code relies on silently: a tick that holds a row holds an
  existing id, a tick on its way to a compaction holds a row between turns, and
  a tick about to send a goal prompt has counted its turn. The last one is why
  the rollback of a refused prompt (`turn_count - 1`) cannot go below zero.
* `EndedIsFinal`: `Spec => TerminalIsFinal`. Every operator that writes a row is
  shown to leave the status of an ended row alone (`EndedUntouched` in
  `GoalRulesProofs`), then every action.
* `OneOpenLoop`: `Spec => []OpenLoopIsLatest`, which is inductive given
  `TypeOK`: only `CreateCommit` adds a row, and it closes every other one.

`GoalWritesProofs` proves every other safety property of the runs, on top of these.

* `CopiesAreRows`: `Spec => []CopiesAgree`. A handler works on a copy of the row and
  writes under the condition that the revision is still the copy's. Every rule that
  changes a row raises its revision, except the age of its turn, so the copy is then
  the row. This is what makes each compare-and-set one atomic step: `NextWrites`
  shows that each action of the module, whichever copy it started from, applies
  one rule to the row as it is (`Write`), and `WriteEffect` says of each rule what it
  leaves alone. The next theorems then go rule by rule, not handler by handler.
* `RowsAreSound`: `Sound` strengthens `CompletedOnlyVerified` and
  `FullRunIgnoresClaims`, the first of which is not inductive. A row that waits for a
  verification has a claim as its newest stored reply, a queued row asks for a goal
  turn, and a full run never leaves the goal kind; so the reply that completes a loop
  comes right after its claim (`CompletedTwice`), and no claim gets a full run out of
  its turns (`FullRunsOn`).
* `ClaimsAreChecked`, `UnknownDeliveryIsHeld`, `ResumeRevives`: the action properties
  `ClaimAwaitsCheck`, `UnknownDeliveryHolds` and `OnlyResumeRevives`.
* `KeepsItsTable`: `Spec => KeepsTable`, the refinement. Every write of a row maps to a
  transition of `GoalLoopTable` or to a stutter, under the mapping that forgets the
  transcript, the boundary and the revision. `Sound` gives what the table's guards ask
  of the turn kind.
* `TurnsAreCounted`: `Spec => []GoalTurnsAccounted`. The property says nothing of the
  turn that has been claimed and not yet posted, nor of the one whose prompt was
  refused and not yet rolled back. The inductive `Accounted` counts both, and says
  thereby that a roll-back only takes back a turn that no prompt has used.
* `ReadInOrder`: `Spec => []Reading`, and from it `ReadOnce` (`AppliedOnce`) and
  `BoundaryAdvances` (`BoundaryMovesForward`). `Reading` says that message ids rise
  along the transcript and along every copy of it that is held, and, for a loop that
  replaced no other, that a stored reply that is still in the transcript is not past
  the boundary, in the transcript and in every copy that can still be written from.
  A copy stops being one to write from when its row's revision moves on; a revert or
  a compaction takes messages away and never puts an old one past the boundary, since
  new messages have new ids.

The assumptions are those stated in `GoalRules` and `GoalLoop`
(`LoopIdsAssumption`, `MsgIdsAssumption`, `TurnLimitsAssumption`, ...); TLC evaluates
them in every run. Only the liveness properties, `TurnEnds` and `LoopSettles`, are
model-checked alone.

### 2.4 Where the code and its documents disagree

Two runs end, as they should, with a counterexample.

* `claim_one_prompt_in_flight` refutes I1 of `docs/specs/goal-loop.md` ("at most
  one prompt in flight"). The tick claims a turn and posts the prompt; the user
  pauses; the POST gets no answer. `pauseAfterUnknownPromptDelivery` finds the
  row changed and does nothing, so the reason stays `user`; the user resumes;
  the next tick sees an idle engine and sends a second prompt while the first
  may still be taken. The transitions 16 and 21, meant to exclude this, only see
  pauses whose reason is `unknown_delivery`.
* `claim_own_replies` refutes the comment of `createGoalLoop` ("a late result
  cannot apply"). The new loop takes its boundary before the old loop's prompt
  and reply arrive, is paused and resumed before its first turn, and the resume
  recovers the reply to the other loop's prompt: the marker in a prompt does not
  name its loop.

Four more places where the model follows the code and not its documents. A manual
send that finds no live loop is let through, and while the proxy still prepares it
(`proxy.ts:334-352`) a loop may be created, claim its turn and prompt the session; the
user's prompt is answered last, and the tick takes the reply for its turn's result,
although the comment says that the send cannot interleave with a loop turn. A reply
that lands between two ticks is lost when the user then sends a prompt of his own:
the pause re-anchors the boundary at the tail, behind the reply, and the resume
finds nothing (transition 20 says it is recovered). A completion claim on the last
turn goes on to its verification (transition 12 says `turn_limit`). And a last turn
whose claim is rejected pauses with `turn_limit`, so that a resume does not reset
the counter of rejected claims. The last two are visible in `GoalLoopTable`.

## 3. The hang watchdog

The proxy stores each prompt the user sends as the session's watch
(`session_hang_watches`, one row per session) before it forwards it. Every 15 s a
tick (`hang-watchdog.ts`) looks at each armed row: a turn that has shown nothing
new for the `hang-timeout` setting is stopped, and its prompt is sent again, once.
A send overwrites the row, an answer or an abort deletes it, and each of them
names the session only. The tick works on the copy of the row it listed.

| Module | Models |
| --- | --- |
| `HangWatchdog` | one session: its row, the tick from `await` to `await`, the proxy's sends and aborts, the engine |
| `HangWatchdogClaims` | a comment of the code that the code does not keep |
| `HangWatchdogProofs` | the theorems |

| Variable | Code |
| --- | --- |
| `row` | the session's row; `send` stands for the stored body, `print` for `progress_fingerprint` (0 is the empty one), `allowed` for `resume_allowed` |
| `tick` | `pc`: `status` -> `messages` -> `decide` -> `pending` -> `abort` -> `waiting`; `row` and `view` are what it holds across its awaits |
| `reqs` | the proxy's handler of each send: on the `wire`, `running` (a command that blocks until its turn is over), `refused` |
| `wire` | prompts whose HTTP client has gone, still on their way, and the resumed prompt, for which nobody waits |
| `turn`, `transcript` | the engine's newest turn, and what it shows of it; every change of the transcript gives it a new `size`, as `progressFingerprint` tells |
| `ended`, `stopped`, `resumes`, `tick.over` | history, read by properties only |

A unit of the clock is the 30 s of the confirmation grace. The skew allowance
(5 s) and the time-outs of the tick's own reads are below it, and two ticks may
fall into one unit. The time does not pass while the tick reads the transcript
and judges it; it does pass during the abort, the idle wait and the other reads.
Requests reach the engine in the order they were sent, and a busy engine refuses
a prompt. Whether the session belongs to a subagent is read, or that read fails
and it counts as a user's. A question to the user may be pending whenever the
turn is busy. The abort of the user reaches the engine with the deletion of the
row: the proxy forwards it at once.

`hang_watch` (`MaxSends = 2`, `Timeout = Grace = 1`, `MaxNow = 4`,
`MaxSize = 2`, `MaxFaults = 1`) checks

* `TypeOK`, in which a row that exists holds a prompt: an update of a row that was
  deleted meanwhile must not bring it back;
* `ResumedOnce`: I2 of `docs/specs/hang-watchdog-server-side.md`, for a prompt and
  not only for a row;
* `ResolvingHasOwner`: a row in `resolving`, which no tick lists, has a tick that
  will move it on, also after a crash;
* `NeverRestartsFinished`: a prompt whose reply was the newest turn when the tick
  read the transcript is not sent again.

Four units are enough for a turn to hang, to be stopped, resumed and to hang
again; two sends for a row that is overwritten while a tick holds its first
content; one of the two blocks, so that its answer deletes the row of the other.
`MaxSize` bounds the steps an agent shows before its reply (a prompt taken, a stop
and a reply are not bounded): one is enough to tell a silent turn from one that
moved, with or without a tool left running.
The fault is a failed call, a crash, a stop by the user or a prompt that the
proxy does not see. Deadlock is not checked: all sends may be over. No liveness
is stated: the watchdog promises only to try, and gives up after six looks.

`HangWatchdogProofs` proves for every value of the constants

* `BudgetHolds`: `Spec => []ResumedOnce`;
* `ResolvingIsOwned`: `Spec => []ResolvingHasOwner`;
* `TypeCorrect`: `Spec => []TypeOK`, every row that exists holding a prompt;
* `FinishedLeftAlone`: `Spec => NeverRestartsFinished`.

`ResumedOnce` is not inductive. The invariant `IInv` adds that a prompt that was
sent again is in no row, and in no tick's copy, that has its budget left, and
that rows and copies only hold prompts that were sent, so that no later send
gives it a new budget. `NeverRestartsFinished` needs `FinishedInv`: a prompt that was
not sent again goes to the engine once, so while its turn is the newest its reply is
what the transcript ends with; the row began before that turn, so the verdict
`Finished` cannot take the turn for an older one; and a tick that has read such a reply
has come to no other verdict when it decides, and is past no decision to resume.

`claim_abort_cancels_recovery` refutes `opencode-proxy/session.ts:29` ("An
explicit user abort must cancel recovery for the stopped turn"). The tick marks
the row `resolving`; the user stops the turn, which deletes the row; the tick
finds the engine idle, its `UPDATE` finds no row, and it sends the prompt of its
copy again.

Not modelled: a stored body that does not parse, several sessions in one tick
(their rows are independent, the tick takes them one after the other), and the
UI that reads the retry marker.

## 4. Workflow Mode

A task in Workflow Mode has a run of the fixed template: `implement_ui`, then
`code_review` and `visual_judge` side by side, then a gate that completes the run
or sends the work back for another attempt. Every few seconds a tick
(`workflow-scheduler.ts`) first reads the results of the attempts that run, then
dispatches those that were ready when it began. The user's requests
(`workflow-service.ts`) start, pause, resume, stop, detach and reattach the run,
and retry or skip a node, at any await of the tick.

| Module | Models |
| --- | --- |
| `WorkflowRuns` | the rows of one run, the tick from `await` to `await`, the creation of the two reviewer sessions, the requests, the restart of the server |
| `WorkflowTable` | the abstract promise: the statuses of a run and of its attempts and the steps between them, after section 10.3 of `docs/specs/node-workflow-mode.md` |
| `WorkflowRunsClaims` | a sentence of that document that the code does not keep |
| `WorkflowRunsProofs`, `WorkflowTableProofs` | the theorems |

| Variable | Code |
| --- | --- |
| `run` | the row of `workflow_runs`; all pause reasons but the user's own are `safety` |
| `latest` | `latest_attempt_no` of the three nodes |
| `att` | `workflow_node_attempts`; an attempt is named by its node and number, as the table's UNIQUE clause does; `sent` and `of` are history |
| `subject` | whether the workspace is as the latest implement attempt left it, as far as its fingerprint tells: `none` while the attempt has no fingerprint |
| `creating` | POSTs of reviewer sessions on their way; `mine` while `activateReviewers` still waits for them |
| `sched` | the tick: `results` -> `reading` -> `saving` -> `saved` (-> `activating`) -> `results` ... -> `claims` -> `preparing` -> `sending` -> `sent` -> `claims` ... |
| `restarts` | bound |

Requests carry the revision their sender saw, inside a transaction; one that is
refused changes nothing, so the revisions are left out and an accepted request acts
on the row as it is. The gate's verdicts stand for what `evaluateReviewGate` makes
of a review. The gate's own audit attempt is left out: nothing reads it. A
`creating_session` attempt is written by no code. Two transactions at the same
moment are not possible: one process, one synchronous SQLite connection.

### 4.1 Runs

* `workflow_runs` (`MaxCycles = MaxAttempts = MaxManual = MaxRestarts = 1`; the
  visual judge may be skipped) checks `TypeOK`, in which an attempt's number never
  exceeds its node's latest and the tick only works on attempts that exist;
  `SentOnce` (W8); `DispatchHasOwner`: an attempt in `dispatching`, which nothing but
  a restart would ever look at, is the one the tick is sending; `UserPauseIsQuiet`: no
  attempt is in flight while the run rests at the user's pause;
  `EndedAttemptIsFinal` (W7); and under `LiveSpec` the liveness properties
  `TickEnds` and `PauseCompletes`.
* `workflow_rework` (`AttemptLimit = MaxAttempts = 2`, one cycle) lets the gate send
  the work back and checks `OneInFlightPerNode` (W2); `OnlyRequestsRevive`; and
  `KeepsTable`, that the module implements `WorkflowTable`.

One cycle and two implement attempts reach every decision of the gate, the cycle
cap and the attempt cap; one retry or skip is enough to take the number that a
session under creation was going to use; one restart falls into every await of
the tick. Ready attempts are listed before the results are read, so a single run
has all the interleavings of the code: other runs only make the tick longer.
Deadlock is not checked: a run that has ended rightly does nothing.

`LiveSpec` assumes that the tick goes on (`setInterval`; every request it waits for
has a time-out), that a POST of a session is answered or fails, and, strongly, that of
the fetches made again and again while a reply can be read some get through after it is
complete. It does not assume that a reply can be read: the environment may spoil one at
any time and for good (`ReplySpoilt`: it holds no result that parses, the message the
attempt begins after is gone, or it never ends), and mend it when a human talks to the
session. The code tells neither from a reply that is still to come
(`workflow-scheduler.ts:376-379` returns), so such an attempt keeps `running`, is
prompted no more, and the requested pause waits for it: `PauseCompletes` therefore
speaks of behaviours in which every unreadable reply is mended in the end (its premise
is `<>[](\A a \in DOMAIN att : ~Unreadable(a))`). Without that premise TLC refutes it in
five steps of the tick that repeat for ever.

A paused or detached run has no attempt in flight; that is about rows. After a send
whose fate is unknown the row has failed and the engine may still be working.

### 4.2 Proofs

`WorkflowRunsProofs` proves `TypeCorrect`, `PromptsSentOnce`, `DispatchIsOwned`,
`PausedIsQuiet`, `EndedStays` and `RequestsRevive` for every value of the
constants. All but the last rest on one inductive invariant:

    IInv == TypeOK /\ Numbered /\ SentOnce /\ Unsent /\ DispatchHasOwner /\ Waiting /\ Quiet

`SentOnce` alone is not inductive: a step from `sending` would send again an
attempt that had been sent. `Unsent` excludes it (an attempt that is ready, or that
the tick is preparing, has had no prompt), and needs in turn that only the tick
moves an attempt out of `ready`, and that numbers are never reused: `Numbered`
says the attempts of a node are numbered without gaps, so an INSERT either takes a
fresh number or fails. `Quiet` extends the user's pause to `detached` runs, since a
reattach gives back a run that the user is told is paused.

`WorkflowTableProofs` proves `ImplementsTable`: `Spec => KeepsTable`. Each action is
mapped to the transition it takes or to a stutter; `Numbered` gives that the number
an INSERT takes is the table's next one, and that the gate reads the newest reviews.
Liveness is model-checked only.

`OneAtATime` (`OneInFlightPerNode`, W2) rests on a second invariant, `Turns`, over
`IInv`. Two attempts of a node can only meet if the second is made while the first is
live, so `InTurn` follows who may make one: implementation and review take turns, a
live implement attempt is alone, a reviewer is live or its session is being created but
not both, and while the tick decides on a saved result nothing is being created. An
attempt made by a retry or a skip has no session and is never sent (`NeedsSession`); the
rest says which attempt is the newest and which result a node can have.

### 4.3 Where the code and its documents disagree

`claim_one_review_subject` refutes line 464 of `docs/specs/node-workflow-mode.md`
(both reviewers have looked at the same review subject). Round one: the code review
passes, the visual judge wants changes, the second implement attempt completes. Now
the code review's session cannot be created, the visual judge's can: the run pauses,
and the judge's second attempt is inserted. The user resumes, the judge passes, and
the gate takes the code review's latest attempt, which is about the first
implementation: the run completes with code nobody has reviewed.

Seen while modelling, and followed by the model without a run of their own:

* the fingerprint is HEAD and `git status --porcelain`, not the content the document
  describes (line 466): an edit of a file that is already changed is no drift;
* a `progress` or `blocked` result of an implement attempt ends it and does nothing
  else: no next attempt is made (line 512) and no pause (line 462); the run stays
  `running` without work;
* a result that does not parse and a boundary message that is gone fail no attempt and
  pause no run, as lines 422 and 541 say they do: the attempt stays `running`, without a
  time-out, until the run is stopped, and a pause requested meanwhile stays requested;
* a rework that is decided while the run is not `running` inserts its attempt and
  does not count its cycle, so the cap of line 468 can be passed by pausing;
* a stop between the saving of the prompt and its POST does not hold the POST back.

### 4.4 Not modelled

Graph runs (`workflow-execution-v2`: readiness over a graph), edits of a node's
config, the permissions and the text of a prompt, screenshots (their absence is a
choice in `Claim`), and the exclusion between a workflow and a Goal Loop, which the
code checks before its awaits and does not lock.

## 5. The browser bridge

A broker in the host process (`browser-bridge/broker/server.mjs`) listens on the
loopback interface. The extension's service worker (`extension/background.mjs`)
connects to it by WebSocket, is paired by a human's decision in the WebUI, and
announces the tabs the user shares. The agent asks the broker for operations on a
tab; a human allows each of them; the extension carries it out and reports.

| Module | Models |
| --- | --- |
| `BrowserBridge` | both programs and the sockets between them |
| `BrowserBridgeClaims` | a sentence of `docs/specs/browser-bridge-stale-tab-cleanup.md` that the code does not keep |
| `BrowserSocketsProofs` | theorems about types and about the sockets |
| `BrowserBridgeProofs` | over it, theorems about the broker's maps, the extension's timers, the listed tabs and what is carried out |

| Variable | Code |
| --- | --- |
| `broker` | `extensionSocket`, `connectionGeneration` (`gen`), `deviceKey` (`key`), `sharedTabs`, `pendingApprovals`, `dispatchedCommands` (with their generation), `pendingSnapshots` (`snaps`), `pendingPairingRequests` |
| `decisions` | HTTP handlers of decisions that have looked their request up and await the body |
| `ext` | the worker's `socket`, `connectionGeneration`, `state` (`key`, `tabs`), `handledCommandIds`, the reconnect timer (`armed`), calls of `connect` that await the storage (`retrying`, `replacing`), and handlers under way (`running`, `snapping`, `announcing`); `stale` are shared tabs that no longer exist |
| `sock` | each WebSocket: its two ends (`e`, `b`), whether it has authenticated, and the messages under way in both directions |
| `asked`, `executed` | the tab of each operation; the generations under which it was carried out (history) |
| `snapshots`, `disturbed` | bounds |

A tab goes to the broker in one of three forms (`TabForms`): with its id, title and
`https:` origin; the same with an `http:` origin of this machine, which the extension
shares too; or, when it is announced again after an authentication, as its entry in
`chrome.storage`, which has the key `browserTabId` besides. The broker takes the first
and refuses the others (`validSharedTab`), and a refusal closes the connection with
`NOT_PAIRED`, upon which the extension forgets its key.

A socket closes in two halves: the extension hears nothing more on one that it has
closed, the broker still gets what was under way. Keys are numbers, 0 is none. The
reconnect timer, the approval, command, snapshot and pairing timers fire at any
time, with two exceptions that the intervals justify: the back-off (500 ms and more)
is longer than a close or a `chrome.tabs.get` takes, and the heartbeat (20 s) finds
nothing under way on its socket. `chrome.storage` answers at once, except in
`connect`, which looks at its socket again after that await. A broker that has died
leaves its peer a `close`.

### 5.1 The runs

`browser_bridge` has one tab, two sockets alive at once, one operation with two
windows deciding on it, one snapshot, and one disturbance: a restart of either side, a
revocation at either side, a new URL or a connection that fails. It checks

* `ApprovalsOnSharedTabs`, `DisconnectCancels`: what ends a share or a connection
  ends what waits on it;
* `OneConnection`, and `SharedTabsAreListed`: on a connection that lasts the broker
  lists every tab the extension shares, however the close of the connection before
  it was delayed. The connections that last are those with nothing under way and no
  close on its way; one on which a tab was announced again or shared under `http:` is
  not among them, since the broker closes it;
* `ExecutedOncePerConnection`: two decisions on one approval both dispatch it, and
  only the extension's `handledCommandIds` stands between them and two clicks;
* `DisconnectedHasRetry` and, under `LiveSpec`, `PairedReconnects`: a paired extension
  that has no tab to announce gets a connection that lasts. With such a tab there is
  none to get, see 5.3;
* `TypeOK`, in which only the socket that the extension holds is open at its end.

Two sockets are a connection and its successor, which is what every race of this code
is about; a third would need the old one to be still closing after a back-off. One
disturbance after pairing, sharing, an approval and its execution meets every
intermediate state of them. Deadlock is checked: something can always happen.
An extension with a tab to announce reconnects without end; `MaxGenerations` (2, one
connection and one more) stops its timer after that until the tab is no longer shared. An
extension without shared tabs is not bound by it: of the behaviours that
`PairedReconnects` speaks of only those with more than two futile reconnects before the
tab is unshared are cut.

`LiveSpec` is weakly fair to what happens by itself: messages arrive, connections
open, timers and the storage answer, and so does `chrome.tabs`, upon which the shared
tabs are announced. Nothing is assumed of the user or the agent.

`claim_reannounced_tabs` has one tab, shared when the worker starts, and one socket.

### 5.2 Proofs

For every number of sockets, tabs, operations, decisions and disturbances:
`ApprovalsAreShared`, `DisconnectLeavesNothing` and `NeverStuck` in
`BrowserBridgeProofs`, `TypeCorrect` and `ConnectionIsOne` in
`BrowserSocketsProofs`. The first two need that approvals are about operations that
were asked for (`MapsInv`: otherwise the next operation could be born approved on
another tab), the third needs nothing but the worker's own counters (`RetryInv`).
`OneConnection` and `TypeOK` need to know what the sockets carry: `IInv` types the
messages in both directions, says that only a socket open at the extension's end
carries messages down, that only one that the extension has left carries its close,
that one the broker has authenticated is not still connecting, and that whatever is
open at the extension is the socket it holds.

The other two follow what is under way in the queues, over `IInv`.

* `SharesAreListed` (`SharedTabsAreListed`), by `Listed`: no `tab_unshared` of a shared
  tab is on its way, on any socket; and once the extension is through with its
  announcement, each tab it shares is listed or in a message on its way, in whatever
  form, on a connection that is open at both ends and of whose opening it has heard. A
  message the broker refuses takes the connection with it (`StillRefused`), so where
  nothing is under way any more everything shared is listed. The first part
  is why the old messages of a replaced socket, which the broker still takes, do no harm.
* `CarriedOutOnce` (`ExecutedOncePerConnection`), by `OnceInv`. A command may be
  dispatched any number of times, so the property lives from what the extension knows
  when it takes one: it has heard of the connection that the command was sent on (a
  queue tells of a connection before it orders anything: `Early`, `Meets`), and then
  `handledCommandIds` holds whatever it carried out on it (`Safe`). The set is emptied by
  a new connection and by a restart of the worker: the generation of a new connection
  is above those under which anything that may still be dispatched was carried out
  (`History`), and a worker that restarts leaves no socket open that could carry an
  order. The broker's generation starts again when the host restarts, but then no
  decision that was under way is left.

Liveness (`PairedReconnects`) is model-checked only.

### 5.3 Where the code and its documents disagree

`claim_reannounced_tabs` refutes the acceptance criterion at
`docs/specs/browser-bridge-stale-tab-cleanup.md:203-204` (a tab that exists is announced
again and can be used at once; `docs/browser-bridge-setup.md:90` says the same of a restart
of the host). The paired extension authenticates, finds its tab alive and sends the
entry it has stored (`background.mjs:184`), which has a key that `validSharedTab`
(`server.mjs:590-598`) does not know. The broker lists nothing, answers `NOT_PAIRED` and
closes. The extension forgets its key, connects after the back-off, asks for a pairing,
is given the key of its origin without a human, authenticates, and announces the same
entry: for as long as the tab is shared there is no connection that lasts.

In these places too the model follows the code; no run is about them.

* A page of `http://localhost` or `http://127.0.0.1` can be shared in the extension
  (`background.mjs:17-28`, `docs/browser-bridge-setup.md:92`), and the broker answers
  with the same refusal.
* A pairing request lives until the first heartbeat, 20 s, which an unauthenticated
  socket answers with a rejection, and not until a decision or the TTL of five
  minutes (comment at `server.mjs:96`).
* A decision acts on the approval it found before it read its body: one that has
  expired, was withdrawn with its tab and shared anew, or was decided by another
  window meanwhile is dispatched all the same. The extension drops the second
  one on a connection.
* A tab that is unshared while the successor of its connection is still opening stays
  listed at the broker: the successor does not clear the maps, and
  `tab_unshared` had no socket to go on.
* A `snapshot` of a tab that was unshared meanwhile, a `tab_shared` before the
  authentication and a `result` from before a replacement make the broker reject the
  socket; the extension then forgets its key, and gets it again at once.
* A revocation in the popup while disconnected does not reach the broker, and one
  in the WebUI leaves the callers of a snapshot to their timer.

### 5.4 Not modelled

Cached snapshots and screenshots, the audit log, what only the popup shows, the
classification of operations in `policy.mjs` (every operation asks), several
extension origins, the MCP server in front of the broker. `broker/state.mjs` is used
by tests only.

## 6. Plan and what is not modelled

1. `WorkflowGraph`: readiness as a recursive function against a reference
   definition; the repository's revision check.
2. `CompactionLock`: owners with a TTL; composed with `GoalLoop`'s compaction.
3. `HostLock`, `HostUpgrade`: two hosts and a stale lock; an upgrade that crashes.
4. `StaleCache`: a refresh against an invalidation.

Every safety property that a passing run checks, state or action, is a theorem for every
value of the constants; so are the two refinements (`GoalLoopTable`, `WorkflowTable`).
The proofs rest on the named assumptions about constants and on nothing else. Liveness
under fairness is out of reach of the provers, and so model-checked only: `TurnEnds`,
`LoopSettles`, `TickEnds`, `PauseCompletes`, `PairedReconnects`.

Most of the repository by size is not modelled and will not be: React components and
the hook that feeds them (view state over an event stream), thin route handlers,
settings, model ranking, git and file I/O, synchronisation scripts and vendored
proxies keep no concurrent state of their own that a model would tell more about than
a test. `PROJECT.json` gives the reason for each component.

## 7. Running

    tlc -workers 2 -config goal_loop_turns.cfg MCGoalLoop
    tlc -workers 2 -config hang_watch.cfg HangWatchdog
    tlc -workers 2 -config workflow_runs.cfg WorkflowRuns
    tlc -workers 2 -config claim_one_review_subject.cfg WorkflowRunsClaims
    tlc -workers 2 -config browser_bridge.cfg BrowserBridge
    tlc -workers 2 -config claim_reannounced_tabs.cfg BrowserBridgeClaims
    tlapm GoalLoopProofs.tla
    tlapm GoalWritesProofs.tla
    tlapm HangWatchdogProofs.tla
    tlapm WorkflowTableProofs.tla
    tlapm BrowserSocketsProofs.tla
    tlapm BrowserBridgeProofs.tla
