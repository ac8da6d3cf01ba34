------------------------------- MODULE GoalLoop -------------------------------
(***************************************************************************)
(* The Goal Loop: the scheduler (goal-scheduler.ts), the API handlers      *)
(* (goal-db.ts), the manual-send hook of the OpenCode proxy, and the       *)
(* OpenCode engine they all talk to over HTTP, on one workspace with one   *)
(* session.                                                                *)
(*                                                                         *)
(* JavaScript runs a handler without interruption between two awaits, so   *)
(* one action is the code from one await to the next.  What a handler      *)
(* keeps across an await is in its record: "dto", the copy of the row it    *)
(* read, and "view", the transcript the engine returned.                   *)
(***************************************************************************)
EXTENDS GoalRules

CONSTANTS
    Clients,        \* concurrent API requests the server may be serving
    Requests,       \* the kinds of request the clients issue
    AgentResults,   \* what the agent's reply to a loop prompt may carry
    ManualResults,  \* what its reply to a manual prompt may carry
    FullRun,        \* values of the forceFullRun option
    AutoCompact,    \* whether token-saving mode is "auto"
    MaxRequests,    \* bound: requests issued in a behaviour
    MaxFaults       \* bound: failed calls, refusals, crashes in a behaviour

ASSUME AgentAssumption == AgentResults \cup ManualResults \subseteq Results \cup {"none"}
ASSUME BudgetAssumption == MaxRequests \in Nat /\ MaxFaults \in Nat
ASSUME FlagAssumption == AutoCompact \in BOOLEAN /\ FullRun \subseteq BOOLEAN

VARIABLES
    rows,        \* the goal_loops table: one row per loop id
    transcript,  \* the session's messages, held by the engine
    nextMsg,     \* the id the engine gives the next message
    turn,        \* the prompt the engine is working on
    late,        \* loop prompts whose sender gave up but which may still arrive
    sched,       \* the scheduler's tick
    op,          \* the API request each client has in progress
    requests,    \* requests issued so far
    faults       \* faults so far

vars == <<rows, transcript, nextMsg, turn, late, sched, op, requests, faults>>

NoTurn == [busy |-> FALSE, loop |-> 0, kind |-> "goal"]
NoTick == [pc |-> "idle", id |-> 0, dto |-> NoRow, view |-> <<>>, post |-> "none"]
NoOp   == [pc |-> "idle", req |-> "none", id |-> 0, dto |-> NoRow,
           view |-> <<>>, readable |-> TRUE]

Init ==
    /\ rows = [l \in LoopIds |-> NoRow]
    /\ transcript = <<>>
    /\ nextMsg = 1
    /\ turn = NoTurn
    /\ late = {}
    /\ sched = NoTick
    /\ op = [c \in Clients |-> NoOp]
    /\ requests = 0
    /\ faults = 0

Fault == faults < MaxFaults /\ faults' = faults + 1

Existing == {l \in LoopIds : rows[l].status # "absent"}

\* getGoalLoop: the workspace's newest row.
IsLatest(l) == l \in Existing /\ \A k \in Existing : k <= l

SetRow(l, row) == rows' = [rows EXCEPT ![l] = row]

engine == <<transcript, nextMsg, turn>>

-----------------------------------------------------------------------------
(* The engine *)

Msg(from, loop, kind, res) ==
    [id |-> nextMsg, from |-> from, loop |-> loop, kind |-> kind, res |-> res]

AppendMsg(from, loop, kind, res) ==
    /\ nextMsg \in MsgIds
    /\ transcript' = Append(transcript, Msg(from, loop, kind, res))
    /\ nextMsg' = nextMsg + 1

\* An idle engine takes a prompt and starts working on it.
Take(from, loop, kind) ==
    /\ ~turn.busy
    /\ AppendMsg(from, loop, kind, "none")
    /\ turn' = [busy |-> TRUE, loop |-> loop, kind |-> kind]

\* A step of the agent that carries no result; one per turn is enough to have
\* a completed assistant message that is not the turn's last.
EngineStep ==
    /\ turn.busy
    /\ transcript # <<>> /\ IsUserMessage(transcript[Len(transcript)])
    /\ AppendMsg("assistant", turn.loop, turn.kind, "none")
    /\ UNCHANGED <<turn, rows, late, sched, op, requests, faults>>

EngineReply ==
    /\ turn.busy
    /\ \E res \in IF turn.loop = 0 THEN ManualResults ELSE AgentResults :
          AppendMsg("assistant", turn.loop, turn.kind, res)
    /\ turn' = NoTurn
    /\ UNCHANGED <<rows, late, sched, op, requests, faults>>

\* The agent's turn dies without a reply.
EngineDropsTurn ==
    /\ turn.busy
    /\ Fault
    /\ turn' = NoTurn
    /\ UNCHANGED <<transcript, nextMsg, rows, late, sched, op, requests>>

\* An abort: the turn ends at once, its message cut short.
Interrupt ==
    /\ turn' = NoTurn
    /\ IF turn.busy THEN AppendMsg("partial", turn.loop, turn.kind, "none")
       ELSE UNCHANGED <<transcript, nextMsg>>

\* The prompt the scheduler is posting reaches the engine, which takes it or
\* answers SessionBusy.  Requests reach it in the order they were sent.
EngineAnswersPost ==
    /\ sched.pc = "posting" /\ sched.post = "wire" /\ late = {}
    /\ \/ /\ Take("prompt", sched.id, sched.dto.turnKind)
          /\ sched' = [sched EXCEPT !.post = "accepted"]
       \/ /\ turn.busy
          /\ sched' = [sched EXCEPT !.post = "busy"]
          /\ UNCHANGED engine
    /\ UNCHANGED <<rows, late, op, requests, faults>>

\* ... or refuses with another 4xx.
EngineRefusesPost ==
    /\ sched.pc = "posting" /\ sched.post = "wire"
    /\ Fault
    /\ sched' = [sched EXCEPT !.post = "refused"]
    /\ UNCHANGED <<engine, rows, late, op, requests>>

\* A prompt whose sender no longer waits is taken after all, or never is.
LatePrompt ==
    \E p \in late :
        /\ late' = late \ {p}
        /\ \/ Take("prompt", p.loop, p.kind)
           \/ UNCHANGED engine
        /\ UNCHANGED <<rows, sched, op, requests, faults>>

-----------------------------------------------------------------------------
(* The scheduler: runGoalLoopSchedulerTick and processLoop.  A tick starts   *)
(* by the timer or by an API handler; schedulerTicking lets one run at a     *)
(* time.                                                                     *)

EndTick == sched' = NoTick

\* listRunnableGoalLoops: the tick takes a copy of every runnable row, and
\* comes to this one after the loops of other workspaces.
TickStart ==
    \E l \in LoopIds :
        /\ sched.pc = "idle"
        /\ rows[l].status \in Live
        /\ sched' = [NoTick EXCEPT !.pc = "listed", !.id = l, !.dto = rows[l]]
        /\ UNCHANGED <<rows, engine, late, op, requests, faults>>

\* Before it looks at the engine, a tick ends a turn that is too old.  Seeded bug:
\* only once the engine is found idle.
ExpireFirst_NotYet(row, dto) == row

ExpireFirst(row, dto) ==
    IF dto.status = "running" THEN ExpireStalledTurn(row, dto) ELSE row

SchedExpire ==
    /\ sched.pc = "listed"
    /\ SetRow(sched.id, ExpireFirst(rows[sched.id], sched.dto))
    /\ sched' = [sched EXCEPT !.pc = "status"]
    /\ UNCHANGED <<engine, late, op, requests, faults>>

SchedStatus ==
    /\ sched.pc = "status"
    /\ IF turn.busy THEN EndTick ELSE sched' = [sched EXCEPT !.pc = "messages"]
    /\ UNCHANGED <<rows, engine, late, op, requests, faults>>

SchedMessages ==
    /\ sched.pc = "messages"
    /\ sched' = [sched EXCEPT !.pc = "decide", !.view = transcript]
    /\ UNCHANGED <<rows, engine, late, op, requests, faults>>

\* An unreachable engine ends the tick and leaves the row alone.
SchedReadFails ==
    /\ sched.pc \in {"status", "messages"}
    /\ Fault
    /\ EndTick
    /\ UNCHANGED <<rows, engine, late, op, requests>>

\* The catch-all of the tick: a status or compaction call failed for good, or
\* the activity table could not be written after the prompt was accepted.
SchedulerError ==
    /\ \/ sched.pc \in {"status", "compact", "compacted"}
       \/ sched.pc = "posting" /\ sched.post = "accepted"
    /\ Fault
    /\ SetRow(sched.id, CatchAll(rows[sched.id]))
    /\ EndTick
    /\ UNCHANGED <<engine, late, op, requests>>

\* A running turn: read its reply, if it has one.
SchedReadsReply ==
    LET row == rows[sched.id]
        dto == sched.dto
        t == sched.view
        final == HasFinalAssistant(t, dto.boundary)
    IN  /\ sched.pc = "decide" /\ dto.status = "running"
        /\ \/ /\ BoundaryLost(t, dto.boundary)
              /\ SetRow(sched.id, PauseForLostBoundary(row, dto))
           \/ /\ final /\ t[Len(t)].res # "none"
              /\ SetRow(sched.id, ApplyResult(row, dto, t[Len(t)]))
           \/ /\ final /\ t[Len(t)].res = "none"    \* quiet for STRUCTURED_GRACE_MS
              /\ SetRow(sched.id, ApplyUnreadable(row, dto, t[Len(t)]))
           \/ /\ ~BoundaryLost(t, dto.boundary)
              /\ final => t[Len(t)].res = "none"    \* or not quiet for so long
              /\ SetRow(sched.id, ExpireStalledTurn(row, dto))
        /\ EndTick
        /\ UNCHANGED <<engine, late, op, requests, faults>>

\* Seeded bug: a loop that has used up its turns is left to the claim.
OutOfTurns_Never(row) == FALSE

OutOfTurns(row) == row.status = "queued" /\ row.turnCount >= row.maxTurns

SchedTurnLimit ==
    /\ sched.pc = "decide" /\ sched.dto.status = "queued"
    /\ OutOfTurns(rows[sched.id])
    /\ SetRow(sched.id, PauseRow(rows[sched.id], "turn_limit"))
    /\ EndTick
    /\ UNCHANGED <<engine, late, op, requests, faults>>

\* A loop between turns: the prompt may go out, after a compaction if the
\* context is too full for one.
BetweenTurns ==
    /\ sched.pc = "decide" /\ sched.dto.status \in {"queued", "verifying_completed"}
    /\ sched.dto.status = "queued" => ~OutOfTurns(rows[sched.id])

SchedCompacts ==
    /\ AutoCompact
    /\ \/ /\ BetweenTurns
          /\ sched' = [sched EXCEPT !.pc = "compact"]
          /\ UNCHANGED engine
       \/ \* the engine writes its summary, over the messages or after them
          /\ sched.pc = "compact" /\ ~turn.busy /\ nextMsg \in MsgIds
          /\ \E kept \in {<<>>, transcript} :
                transcript' = Append(kept, Msg("assistant", 0, "goal", "none"))
          /\ nextMsg' = nextMsg + 1
          /\ sched' = [sched EXCEPT !.pc = "compacted"]
          /\ UNCHANGED turn
    /\ UNCHANGED <<rows, late, op, requests, faults>>

\* Another owner holds the compaction lock, or the providers could not be read.
SchedCompactConflict ==
    /\ sched.pc = "compact"
    /\ Fault
    /\ EndTick
    /\ UNCHANGED <<rows, engine, late, op, requests>>

\* The compare-and-set that takes the turn.  The boundary is the tail of the
\* transcript read before any compaction.
SchedClaim ==
    LET row == rows[sched.id]
        claimed == Claimed(row, LatestMessageId(sched.view))
    IN  /\ BetweenTurns \/ sched.pc \in {"compact", "compacted"}
        /\ IF CanClaim(row, sched.dto)
           THEN /\ SetRow(sched.id, claimed)
                /\ sched' = [sched EXCEPT !.pc = "context", !.dto = claimed, !.view = <<>>]
           ELSE EndTick /\ UNCHANGED rows
        /\ UNCHANGED <<engine, late, op, requests, faults>>

\* The collaboration context has been fetched; the prompt is posted.
SchedSend ==
    /\ sched.pc = "context"
    /\ sched' = [sched EXCEPT !.pc = "posting", !.post = "wire"]
    /\ UNCHANGED <<rows, engine, late, op, requests, faults>>

SchedPosted ==
    /\ sched.pc = "posting"
    /\ \/ sched.post = "accepted" /\ UNCHANGED rows
       \/ /\ sched.post = "refused"
          /\ SetRow(sched.id, RecoverAfterRejectedPrompt(rows[sched.id], sched.dto))
       \/ /\ sched.post = "busy"
          /\ SetRow(sched.id, PauseAfterUnknownPromptDelivery(rows[sched.id], sched.dto))
    /\ EndTick
    /\ UNCHANGED <<engine, late, op, requests, faults>>

\* What was on the wire when its sender gave up may still arrive.
Abandon ==
    \/ late' = late
    \/ /\ sched.pc = "posting" /\ sched.post = "wire"
       /\ late' = late \cup {[loop |-> sched.id, kind |-> sched.dto.turnKind]}

\* No answer within PROMPT_TIMEOUT_MS, or a 5xx.
SchedPostTimeout ==
    /\ sched.pc = "posting"
    /\ Fault
    /\ SetRow(sched.id, PauseAfterUnknownPromptDelivery(rows[sched.id], sched.dto))
    /\ Abandon
    /\ EndTick
    /\ UNCHANGED <<engine, op, requests>>

\* TURN_TIMEOUT_MS goes by.  Every HTTP call is given up long before that.
TurnTimeout ==
    \E l \in LoopIds :
        /\ rows[l].status = "running" /\ rows[l].promptAt = "fresh"
        /\ ~(sched.id = l /\ sched.pc \in {"context", "posting"})
        /\ \A p \in late : p.loop # l
        /\ SetRow(l, [rows[l] EXCEPT !.promptAt = "old"])
        /\ UNCHANGED <<engine, late, sched, op, requests, faults>>

\* The server process dies and is started again; the engine lives on.
Crash ==
    /\ Fault
    /\ Abandon
    /\ EndTick
    /\ op' = [c \in Clients |-> NoOp]
    /\ UNCHANGED <<rows, engine, requests>>

-----------------------------------------------------------------------------
(* The API: route.ts of tasks/[id]/goal-loop, goal-db.ts, and the manual     *)
(* sends that the OpenCode proxy forwards.                                   *)

\* A client starts a request of kind req.
Issue(c, req) ==
    /\ op[c].pc = "idle" /\ req \in Requests
    /\ requests < MaxRequests /\ requests' = requests + 1

SetOp(c, rec) == op' = [op EXCEPT ![c] = rec]

InFlight(row) == row.status \in {"running", "verifying_completed"}

\* After its write, a handler asks the engine to abort the turn it ended.
AbortNext(c, req, needed) ==
    SetOp(c, IF needed THEN [NoOp EXCEPT !.pc = "abort", !.req = req] ELSE NoOp)

Pause ==
    \E c \in Clients, l \in LoopIds :
        /\ Issue(c, "pause")
        /\ IsLatest(l) /\ rows[l].status \in Live
        /\ SetRow(l, PauseByUser(rows[l]))
        /\ AbortNext(c, "pause", InFlight(rows[l]))
        /\ UNCHANGED <<engine, late, sched, faults>>

\* stop, and finish, which also closes the panel.
Stop ==
    \E c \in Clients, l \in LoopIds, dismiss \in BOOLEAN :
        /\ Issue(c, "stop")
        /\ IsLatest(l) /\ rows[l].status \notin Terminal
        /\ SetRow(l, Stopped(rows[l], dismiss))
        /\ AbortNext(c, "stop", TRUE)
        /\ UNCHANGED <<engine, late, sched, faults>>

\* finish on a loop that has ended by itself.
Dismiss ==
    \E c \in Clients, l \in LoopIds :
        /\ Issue(c, "stop")
        /\ IsLatest(l) /\ rows[l].status \in Terminal /\ ~rows[l].dismissed
        /\ SetRow(l, [Bump(rows[l]) EXCEPT !.dismissed = TRUE])
        /\ UNCHANGED <<engine, late, sched, op, faults>>

UpdateMaxTurns ==
    \E c \in Clients, l \in LoopIds, n \in TurnLimits :
        /\ Issue(c, "maxTurns")
        /\ IsLatest(l) /\ rows[l].status = "paused"
        /\ SetRow(l, [Bump(rows[l]) EXCEPT !.maxTurns = n])
        /\ UNCHANGED <<engine, late, sched, op, faults>>

\* Resume, and a manual send while a loop is live, first read the transcript.
\* (A resume of a loop that is not paused never writes.)
ReadFirst ==
    \E c \in Clients, l \in LoopIds :
        /\ IsLatest(l)
        /\ \/ Issue(c, "resume") /\ rows[l].status = "paused"
              /\ SetOp(c, [NoOp EXCEPT !.pc = "read", !.req = "resume",
                                       !.id = l, !.dto = rows[l]])
           \/ Issue(c, "manual") /\ rows[l].status \in Live
              /\ SetOp(c, [NoOp EXCEPT !.pc = "read", !.req = "manual",
                                       !.id = l, !.dto = rows[l]])
        /\ UNCHANGED <<rows, engine, late, sched, faults>>

\* With no live loop there is nothing to pause.
ManualSendNoLoop ==
    \E c \in Clients :
        /\ Issue(c, "manual")
        /\ \A l \in LoopIds : IsLatest(l) => rows[l].status \notin Live
        /\ SetOp(c, [NoOp EXCEPT !.pc = "forward", !.req = "manual"])
        /\ UNCHANGED <<rows, engine, late, sched, faults>>

CreateStart ==
    \E c \in Clients :
        /\ Issue(c, "create")
        /\ SetOp(c, [NoOp EXCEPT !.pc = "read", !.req = "create"])
        /\ UNCHANGED <<rows, engine, late, sched, faults>>

OpReads ==
    \E c \in Clients :
        /\ op[c].pc = "read"
        /\ SetOp(c, [op[c] EXCEPT !.pc = "act", !.view = transcript])
        /\ UNCHANGED <<rows, engine, late, sched, requests, faults>>

OpReadFails ==
    \E c \in Clients :
        /\ op[c].pc = "read"
        /\ Fault
        /\ SetOp(c, [op[c] EXCEPT !.pc = "act", !.readable = FALSE])
        /\ UNCHANGED <<rows, engine, late, sched, requests>>

\* Seeded bug: a paused loop survives its replacement.
Replaceable_Live == Live

\* The transaction of createGoalLoop: every loop that has not ended is
\* stopped, and the new row takes its place.
Replaceable == Live \cup {"paused"}

Insert(l, row) ==
    rows' = [k \in LoopIds |->
               IF k = l THEN row
               ELSE IF rows[k].status \in Replaceable THEN Stopped(rows[k], FALSE)
               ELSE rows[k]]

CreateCommit ==
    \E c \in Clients, l \in LoopIds, n \in TurnLimits, full \in FullRun :
        /\ op[c].pc = "act" /\ op[c].req = "create"
        /\ \A k \in Existing : k < l
        /\ Insert(l, NewRow(op[c].readable, LatestMessageId(op[c].view), n, full))
        /\ AbortNext(c, "create", \E k \in LoopIds : IsLatest(k) /\ InFlight(rows[k]))
        /\ UNCHANGED <<engine, late, sched, requests, faults>>

ResumeCommit ==
    \E c \in Clients :
        LET o == op[c]
            row == rows[o.id]
        IN  /\ o.pc = "act" /\ o.req = "resume"
            /\ SetRow(o.id, IF o.readable THEN ResumeRow(row, o.dto, o.view)
                            ELSE ResumeUnreadable(row, o.dto))
            /\ SetOp(c, NoOp)
            /\ UNCHANGED <<engine, late, sched, requests, faults>>

\* pauseGoalLoopForManualSend after its read.  The UPDATE names the workspace,
\* the session and the revision, not the row.
ManualTargets(o) == {l \in LoopIds : rows[l].status \in Live
                                     /\ rows[l].revision = o.dto.revision}

ManualTail(o) == IF o.readable THEN LatestMessageId(o.view) ELSE o.dto.boundary

ManualPauses(o) == [l \in LoopIds |-> IF l \in ManualTargets(o)
                                      THEN PauseForManualSend(rows[l], ManualTail(o))
                                      ELSE rows[l]]

ManualCommit ==
    \E c \in Clients :
        LET o == op[c]
            conflict == \E l \in LoopIds : IsLatest(l) /\ ManualPauses(o)[l].status \in Live
        IN  /\ o.pc = "act" /\ o.req = "manual"
            /\ rows' = ManualPauses(o)
            /\ SetOp(c, IF conflict THEN NoOp
                        ELSE [NoOp EXCEPT !.req = "manual",
                                !.pc = IF InFlight(o.dto) THEN "abort" ELSE "forward"])
            /\ UNCHANGED <<engine, late, sched, requests, faults>>

AfterAbort(c) ==
    SetOp(c, IF op[c].req = "manual" THEN [op[c] EXCEPT !.pc = "forward"] ELSE NoOp)

AbortArrives ==
    \E c \in Clients :
        /\ op[c].pc = "abort"
        /\ Interrupt
        /\ AfterAbort(c)
        /\ UNCHANGED <<rows, late, sched, requests, faults>>

AbortLost ==
    \E c \in Clients :
        /\ op[c].pc = "abort"
        /\ Fault
        /\ AfterAbort(c)
        /\ UNCHANGED <<rows, engine, late, sched, requests>>

\* The manual prompt reaches the engine, which takes it or answers SessionBusy.
ForwardManual ==
    \E c \in Clients :
        /\ op[c].pc = "forward" /\ late = {}
        /\ \/ Take("user", 0, "goal")
           \/ turn.busy /\ UNCHANGED engine
        /\ SetOp(c, NoOp)
        /\ UNCHANGED <<rows, late, sched, requests, faults>>

\* The user reverts the session: its last messages are removed.
Revert ==
    \E c \in Clients, n \in 0 .. Len(transcript) :
        /\ Issue(c, "revert")
        /\ ~turn.busy /\ n < Len(transcript)
        /\ transcript' = SubSeq(transcript, 1, n)
        /\ UNCHANGED <<rows, nextMsg, turn, late, sched, op, faults>>

-----------------------------------------------------------------------------

Engine == EngineStep \/ EngineReply \/ EngineDropsTurn \/ EngineAnswersPost
          \/ EngineRefusesPost \/ LatePrompt

Scheduler == TickStart \/ SchedExpire \/ SchedStatus \/ SchedMessages \/ SchedReadFails
             \/ SchedulerError \/ SchedReadsReply \/ SchedTurnLimit \/ SchedCompacts
             \/ SchedCompactConflict \/ SchedClaim \/ SchedSend \/ SchedPosted
             \/ SchedPostTimeout

Api == Pause \/ Stop \/ Dismiss \/ UpdateMaxTurns \/ ReadFirst \/ ManualSendNoLoop
       \/ CreateStart \/ OpReads \/ OpReadFails \/ CreateCommit \/ ResumeCommit
       \/ ManualCommit \/ AbortArrives \/ AbortLost \/ ForwardManual \/ Revert

Next == Engine \/ Scheduler \/ Api \/ TurnTimeout \/ Crash

Spec == Init /\ [][Next]_vars

\* What the host gives: its timers fire, its HTTP calls are answered or given
\* up, a handler that has its answer goes on.
Progress ==
    /\ WF_vars(TickStart) /\ WF_vars(SchedExpire)
    /\ WF_vars(SchedStatus) /\ WF_vars(SchedMessages)
    /\ WF_vars(SchedReadsReply) /\ WF_vars(SchedTurnLimit) /\ WF_vars(SchedCompacts)
    /\ WF_vars(SchedClaim) /\ WF_vars(SchedSend) /\ WF_vars(SchedPosted)
    /\ WF_vars(EngineAnswersPost) /\ WF_vars(LatePrompt) /\ WF_vars(TurnTimeout)

\* The engine may stay in a turn forever.  It may also refuse a prompt, which gives
\* the turn back, as often as MaxFaults allows and in the code without any bound:
\* what needs an end of that says so (FaultsEnd).
LiveSpec == Spec /\ Progress

-----------------------------------------------------------------------------
(* Types *)

Prompts == [loop : LoopIds \cup {0}, kind : Kinds]

Turns == [busy : BOOLEAN, loop : LoopIds \cup {0}, kind : Kinds]

Ticks == [pc : {"idle", "listed", "status", "messages", "decide", "compact", "compacted",
                "context", "posting"},
          id : LoopIds \cup {0}, dto : Row, view : Seq(Message),
          post : {"none", "wire", "accepted", "busy", "refused"}]

Ops == [pc : {"idle", "read", "act", "abort", "forward"},
        req : {"none", "pause", "stop", "resume", "manual", "create"},
        id : LoopIds \cup {0}, dto : Row, view : Seq(Message), readable : BOOLEAN]

EngineTypeOK ==
    /\ transcript \in Seq(Message)
    /\ nextMsg \in Nat
    /\ turn \in Turns
    /\ late \subseteq Prompts

TickTypeOK ==
    /\ sched \in Ticks
    /\ sched.pc # "idle" => sched.id \in LoopIds
    /\ sched.pc \in {"compact", "compacted"} =>
          sched.dto.status \in {"queued", "verifying_completed"}
    /\ sched.pc \in {"context", "posting"} /\ sched.dto.turnKind = "goal" =>
          sched.dto.turnCount > 0

OpTypeOK ==
    /\ op \in [Clients -> Ops]
    /\ \A c \in Clients :
          op[c].req \in {"resume", "manual"} /\ op[c].pc \in {"read", "act"}
          => op[c].id \in LoopIds

\* Every variable stays in its type; a tick or a request that holds a row holds
\* one of a loop id; a tick on its way to a prompt was between turns, and has
\* counted the turn once the prompt is a goal prompt.
TypeOK ==
    /\ rows \in [LoopIds -> Row]
    /\ EngineTypeOK
    /\ TickTypeOK
    /\ OpTypeOK
    /\ requests \in Nat /\ faults \in Nat

-----------------------------------------------------------------------------
(* Safety *)

\* A loop that has not ended is the workspace's newest, hence the only one: no
\* loop keeps prompting the session where no API call can reach it.
OpenLoopIsLatest ==
    \A l \in LoopIds : rows[l].status \in Live \cup {"paused"} => IsLatest(l)

\* A loop is completed by two replies: one that claims it, and the one to the
\* verification turn after it, which confirms the claim.
CompletedOnlyVerified ==
    \A l \in LoopIds : rows[l].status = "completed" =>
        LET p == rows[l].progress
        IN  /\ Len(p) >= 2
            /\ p[Len(p)].res = "verified_completed"
            /\ p[Len(p) - 1].res = "completed"

GoalPromptsOf(l) ==
    Cardinality({i \in DOMAIN transcript :
                    /\ transcript[i].from = "prompt"
                    /\ transcript[i].loop = l
                    /\ transcript[i].kind = "goal"})
    + (IF [loop |-> l, kind |-> "goal"] \in late THEN 1 ELSE 0)
    + (IF sched.pc = "posting" /\ sched.post = "wire" /\ sched.id = l
          /\ sched.dto.turnKind = "goal" THEN 1 ELSE 0)

\* turn_count never falls behind the goal prompts that were sent: an ambiguous
\* delivery is not rolled back, a pause during the send does not lose a turn.
GoalTurnsAccounted == \A l \in LoopIds : GoalPromptsOf(l) <= rows[l].turnCount

\* The workspace has had no other loop.
Unreplaced(l) == \A k \in Existing : k = l

\* A reply is stored as a result once at most, as long as no loop was replaced.
AppliedOnce ==
    \A l \in LoopIds : Unreplaced(l) =>
        \A i, j \in DOMAIN rows[l].progress :
            rows[l].progress[i].id = rows[l].progress[j].id => i = j

\* A full run takes all its turns: no claim of the agent, not even one found by a
\* resume, sends it to a verification or ends it as completed.
FullRunIgnoresClaims ==
    \A l \in LoopIds :
        rows[l].full => rows[l].turnKind = "goal" /\ rows[l].status # "completed"

ResultStored(l) == Len(rows'[l].progress) > Len(rows[l].progress)

\* A completion claim is not forgotten by a pause, a resume, a refused or an
\* unanswered prompt: only a reply to its verification makes the next turn a goal
\* turn again.
ClaimAwaitsCheck ==
    [][\A l \in LoopIds :
          rows[l].turnKind = "verification" /\ rows'[l].turnKind = "goal"
          => ResultStored(l)]_vars

\* A loop that has ended stays ended, whatever was in flight when it did.
TerminalIsFinal ==
    [][\A l \in LoopIds : rows[l].status \in Terminal =>
          rows'[l].status = rows[l].status]_vars

\* Only a resume request brings a paused loop back.
OnlyResumeRevives ==
    [][\A l \in LoopIds :
          rows[l].status = "paused" /\ rows'[l].status \notin {"paused", "stopped"} =>
             \E c \in Clients : /\ op[c].pc = "act" /\ op[c].req = "resume"
                                /\ op[c].id = l /\ op'[c].pc = "idle"]_vars

\* A loop paused because its prompt may have been delivered is never prompted
\* again until the reply has been found.
UnknownDeliveryHolds ==
    [][\A l \in LoopIds :
          /\ rows[l].status = "paused" /\ rows[l].pauseReason = "unknown_delivery"
          /\ rows'[l].status # "stopped"
          /\ ~ResultStored(l)
          => /\ rows'[l].status = "paused"
             /\ rows'[l].pauseReason = "unknown_delivery"]_vars

\* The read boundary only moves forward, unless its message was removed, as long
\* as no loop was replaced.
BoundaryMovesForward ==
    [][\A l \in LoopIds : Unreplaced(l) =>
          \/ rows'[l].boundary >= rows[l].boundary
          \/ BoundaryLost(transcript, rows[l].boundary)]_vars

\* The copy of a row that a handler kept across its awaits is the row, but for the
\* time passed, whenever its revision still is.
Agrees(dto, row) ==
    /\ dto.revision <= row.revision
    /\ dto.revision = row.revision => dto = [row EXCEPT !.promptAt = dto.promptAt]

CopiesAgree ==
    /\ sched.pc # "idle" => Agrees(sched.dto, rows[sched.id])
    /\ \A c \in Clients :
          op[c].req \in {"resume", "manual"} /\ op[c].pc \in {"read", "act"}
          => Agrees(op[c].dto, rows[op[c].id])

-----------------------------------------------------------------------------
(* Liveness *)

\* No turn stays open: even an engine that is busy forever cannot keep a loop
\* in running.
TurnEnds == \A l \in LoopIds : rows[l].status = "running" ~> rows[l].status # "running"

\* Calls fail, prompts are refused and the server stops only so often.
FaultsEnd == <>[][FALSE]_faults

\* With an engine that finishes every turn, and once nothing fails any more, a loop
\* that its user leaves alone ends or waits for its user: no cycle of turns and
\* verifications goes on forever.  Nothing is promised while the engine fails: the
\* turn of a refused prompt is given back and the prompt sent again, however often.
LoopSettles ==
    []<>~turn.busy /\ FaultsEnd =>
        \A l \in LoopIds : rows[l].status \in Live ~> rows[l].status \notin Live

-----------------------------------------------------------------------------
(* The transition table the loop keeps *)

TableState(row) ==
    [status |-> row.status, kind |-> row.turnKind, reason |-> row.pauseReason,
     turns |-> row.turnCount, max |-> row.maxTurns, rejected |-> row.rejected]

Table == INSTANCE GoalLoopTable WITH loop <- [l \in LoopIds |-> TableState(rows[l])]

\* Every write of every handler is a transition of the table.
KeepsTable == Table!Spec
=============================================================================
