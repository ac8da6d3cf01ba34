---------------------------- MODULE HangWatchdog ----------------------------
(***************************************************************************)
(* The server-side hang watchdog (web/src/lib/hang-watchdog.ts) for one    *)
(* session: its row in session_hang_watches, the tick from await to await, *)
(* the requests that arm and disarm the row in the OpenCode proxy          *)
(* (opencode-proxy/proxy.ts), and the engine they are sent to.             *)
(*                                                                         *)
(* The row belongs to a session, not to a turn: a send overwrites it, and  *)
(* whoever drops or updates it names the session only.  The tick works on  *)
(* a copy of the row across up to a dozen awaits.                          *)
(*                                                                         *)
(* A unit of the clock is the 30 s of the confirmation grace; the clock    *)
(* skew allowance (5 s) and the time-outs of the tick's reads (20 s) are   *)
(* below it.                                                               *)
(***************************************************************************)
EXTENDS Integers, FiniteSets

CONSTANTS
    MaxSends,    \* the user's prompts are 1 .. MaxSends
    Sync,        \* the sends that block until their turn is over
    Stored,      \* the sends whose body is small enough for the row
    Timeout,     \* the hang-timeout setting, in units of the clock
    Grace,       \* HANG_CONFIRM_GRACE_MS and SILENT_RESPONSE_GRACE_MS
    MaxNow,      \* bound on the clock
    MaxSize,     \* bound on the steps the agent shows in the transcript
    MaxFaults    \* bound on failed calls, crashes, aborts of the user and foreign
                 \* prompts: those of a goal loop, a workflow or the TUI, sent to
                 \* the same session without arming the watchdog

ASSUME SendsAssumption == /\ MaxSends \in Nat \ {0}
                          /\ Sync \subseteq 1 .. MaxSends /\ Stored \subseteq 1 .. MaxSends
ASSUME TimesAssumption == /\ Grace \in Nat \ {0} /\ Timeout \in Nat \ {0}
                          /\ MaxNow \in Nat
ASSUME BoundsAssumption == MaxSize \in Nat /\ MaxFaults \in Nat

VARIABLES
    now,        \* the clock
    session,    \* whether the session was deleted, whether it is a subagent's
    turn,       \* the newest turn of the session; send 0 is a foreign prompt
    transcript, \* what the engine shows of its newest turn
    row,        \* the session's row
    tick,       \* the tick in progress
    reqs,       \* the sends, as far as their handlers have come
    wire,       \* prompts on their way to the engine that nobody waits for
    faults,     \* failed calls, crashes, aborts and foreign prompts so far
    ended,      \* sends whose turn has come to its reply
    stopped,    \* whether the user has stopped the session and sent nothing since
    resumes     \* how often the watchdog has sent each prompt again

vars == <<now, session, turn, transcript, row, tick, reqs, wire, faults, ended,
          stopped, resumes>>
history == <<ended, stopped, resumes>>
engine == <<session, turn, transcript>>

Sends == 1 .. MaxSends
NoTurn == [busy |-> FALSE, send |-> 0]
NoRow == [state |-> "none", send |-> 0, startedAt |-> 0, progressAt |-> 0,
          print |-> 0, retryUsed |-> FALSE, allowed |-> FALSE]
Empty == [userAt |-> 0, assistant |-> FALSE, tool |-> FALSE, activeAt |-> 0,
          size |-> 0]
NoTick == [pc |-> "idle", row |-> NoRow, view |-> Empty, over |-> FALSE]

Init ==
    /\ now = 0
    /\ session \in [gone : {FALSE}, child : BOOLEAN]
    /\ turn = NoTurn
    /\ transcript = Empty
    /\ row = NoRow
    /\ tick = NoTick
    /\ reqs = [s \in Sends |-> "new"]
    /\ wire = {}
    /\ faults = 0
    /\ ended = {} /\ stopped = FALSE
    /\ resumes = [s \in Sends |-> 0]

Fault == faults < MaxFaults /\ faults' = faults + 1

\* Time passes, from the first send on, but not while the tick reads the transcript
\* and judges it.
Advance ==
    /\ now < MaxNow /\ reqs[1] # "new" /\ tick.pc \notin {"messages", "decide", "pending"}
    /\ now' = now + 1
    /\ UNCHANGED <<engine, row, tick, reqs, wire, faults, history>>

-----------------------------------------------------------------------------
(* The engine *)

\* progressFingerprint tells any two transcripts apart: size stands for it.
Shows(v) == transcript' = [v EXCEPT !.size = transcript.size + 1]

Over(t) == [t EXCEPT !.busy = FALSE]

\* An idle engine takes a prompt.
Take(s) ==
    /\ ~turn.busy /\ ~session.gone
    /\ turn' = [busy |-> TRUE, send |-> s]
    /\ Shows([transcript EXCEPT !.userAt = now, !.activeAt = now,
                                !.assistant = FALSE, !.tool = FALSE])
    /\ UNCHANGED session

\* The agent's turn goes on: text that streams in carries no new time stamp.
EngineMoves ==
    /\ turn.busy /\ transcript.size < MaxSize
    /\ \E tool \in BOOLEAN, at \in {transcript.activeAt, now} :
          Shows([transcript EXCEPT !.assistant = TRUE, !.tool = tool, !.activeAt = at])
    /\ UNCHANGED <<now, session, turn, row, tick, reqs, wire, faults, history>>

EngineReplies ==
    /\ turn.busy
    /\ turn' = Over(turn)
    /\ Shows([transcript EXCEPT !.assistant = TRUE, !.tool = FALSE, !.activeAt = now])
    /\ ended' = ended \cup ({turn.send} \cap Sends)
    /\ UNCHANGED <<now, session, row, tick, reqs, wire, faults, stopped, resumes>>

\* The engine is restarted: its turn is gone, a running tool stays as it was.
EngineDropsTurn ==
    /\ turn.busy
    /\ Fault
    /\ turn' = Over(turn)
    /\ UNCHANGED <<now, session, transcript, row, tick, reqs, wire, history>>

\* The engine stops the turn; a running tool is closed with it.
Interrupt ==
    /\ turn' = Over(turn)
    /\ IF turn.busy /\ transcript.assistant
       THEN Shows([transcript EXCEPT !.tool = FALSE, !.activeAt = now])
       ELSE UNCHANGED transcript
    /\ UNCHANGED session

-----------------------------------------------------------------------------
(* The requests that go through the proxy *)

Armed(s) ==
    [state |-> "armed", send |-> s, startedAt |-> now, progressAt |-> now,
     print |-> 0, retryUsed |-> FALSE, allowed |-> s \in Stored]

\* disarmHangWatch: DELETE by session.
Disarm == row' = NoRow

SetReq(s, pc) == reqs' = [reqs EXCEPT ![s] = pc]

\* armHangWatch, then the request goes out.  A body too large to store is
\* watched, and not sent again.
Send ==
    \E s \in Sends :
        /\ reqs[s] = "new" /\ \A r \in Sends : r < s => reqs[r] # "new"
        /\ row' = Armed(s)
        /\ SetReq(s, "wire")
        /\ stopped' = FALSE
        /\ UNCHANGED <<now, engine, tick, wire, faults, ended, resumes>>

\* Requests reach the engine in the order they were sent.
First(s) == \A r \in Sends : r < s => reqs[r] # "wire" /\ r \notin wire

\* The engine takes a prompt, or refuses it with an error status.
EngineAnswers ==
    \E s \in Sends :
        /\ reqs[s] = "wire" /\ First(s)
        /\ \/ /\ Take(s)
              /\ SetReq(s, IF s \in Sync THEN "running" ELSE "done")
           \/ /\ turn.busy \/ session.gone
              /\ SetReq(s, "refused")
              /\ UNCHANGED engine
        /\ UNCHANGED <<now, row, tick, wire, faults, history>>

\* The handler sees an error status, or the answer of a command that blocks
\* until its turn is over.
RequestAnswered ==
    \E s \in Sends :
        /\ \/ reqs[s] = "refused"
           \/ reqs[s] = "running" /\ ~(turn.busy /\ turn.send = s)
        /\ Disarm
        /\ SetReq(s, "done")
        /\ UNCHANGED <<now, engine, tick, wire, faults, history>>

\* A request its handler has given up may be on its way still.
Abandon(s) ==
    \/ wire' = wire
    \/ reqs[s] = "wire" /\ wire' = wire \cup {s}

\* The connection breaks, or the client that waits for the answer goes away.
RequestBreaks ==
    \E s \in Sends :
        /\ reqs[s] \in {"wire", "running", "refused"}
        /\ Fault
        /\ Disarm
        /\ SetReq(s, "done")
        /\ Abandon(s)
        /\ UNCHANGED <<now, engine, tick, history>>

\* The handler's own time-out leaves the row: the engine keeps running the turn.
RequestTimesOut ==
    \E s \in Sends :
        /\ reqs[s] \in {"wire", "running"}
        /\ SetReq(s, "done")
        /\ Abandon(s)
        /\ UNCHANGED <<now, engine, row, tick, faults, history>>

\* The user stops the turn that is watched, or the one that is running; the abort is
\* forwarded once the row is gone.
UserStops ==
    /\ Fault
    /\ Disarm
    /\ Interrupt
    /\ stopped' = TRUE
    /\ UNCHANGED <<now, tick, reqs, wire, ended, resumes>>

\* The session is deleted; nothing disarms its row but the tick.
DeleteSession ==
    /\ ~session.gone
    /\ session' = [session EXCEPT !.gone = TRUE]
    /\ turn' = NoTurn /\ transcript' = Empty
    /\ UNCHANGED <<now, row, tick, reqs, wire, faults, history>>

\* A prompt the proxy does not see.
ForeignPrompt ==
    /\ Fault
    /\ Take(0)
    /\ UNCHANGED <<now, row, tick, reqs, wire, history>>

\* A prompt that nobody waits for is taken, or not.
PromptArrives ==
    \E s \in wire :
        /\ First(s)
        /\ Take(s) \/ UNCHANGED engine
        /\ wire' = wire \ {s}
        /\ UNCHANGED <<now, row, tick, reqs, faults, history>>

-----------------------------------------------------------------------------
(* The tick: runHangWatchdogTick, evaluateWatch and resolveHang.             *)

EndTick == tick' = NoTick

Later(a, b) == IF a >= b THEN a ELSE b

\* watchedUserIndex found a user message for this row.
Bound(v, r) == v.size > 0 /\ v.userAt >= r.startedAt

\* hasWatchedTurnAssistantActivity, which hasAssistantResponse implies.
HasActivity(v, r) == Bound(v, r) /\ v.assistant

\* Seeded bug: INSERT OR REPLACE in place of the UPDATE.
RecordProgress_Upsert(at, print) ==
    row' = [row EXCEPT !.progressAt = at, !.print = print, !.state = "armed"]

\* recordProgress: UPDATE by session.
RecordProgress(at, print) ==
    row' = IF row.state = "none" THEN row
           ELSE [row EXCEPT !.progressAt = at, !.print = print]

\* listArmedHangWatches.
TickStart ==
    /\ tick.pc = "idle" /\ row.state = "armed"
    /\ tick' = [NoTick EXCEPT !.pc = "status", !.row = row]
    /\ UNCHANGED <<now, engine, row, reqs, wire, faults, history>>

\* The status of the engine, and whether the session is a subagent's: that is left
\* to its parent, but taken for a user's if the engine does not say.  A busy session
\* is looked at after the time-out only.
TickStatus ==
    /\ tick.pc = "status"
    /\ \/ session.child /\ Disarm /\ EndTick /\ UNCHANGED faults
       \/ /\ IF session.child THEN Fault ELSE UNCHANGED faults
          /\ IF turn.busy /\ now - tick.row.progressAt < Timeout THEN EndTick
             ELSE tick' = [tick EXCEPT !.pc = "messages"]
          /\ UNCHANGED row
    /\ UNCHANGED <<now, engine, reqs, wire, history>>

\* An unreachable engine ends the tick and leaves the row alone.
TickReadFails ==
    /\ tick.pc \in {"status", "messages"}
    /\ Fault
    /\ EndTick
    /\ UNCHANGED <<now, engine, row, reqs, wire, history>>

\* The transcript; 404 for a session that was deleted.
TickMessages ==
    /\ tick.pc = "messages"
    /\ \/ session.gone /\ Disarm /\ EndTick
       \/ /\ ~session.gone /\ transcript.size = 0
          /\ EndTick /\ UNCHANGED row
       \/ /\ ~session.gone /\ transcript.size > 0
          /\ tick' = [tick EXCEPT !.pc = "decide", !.view = transcript,
                              !.over = turn.send \in ended /\ turn.send = tick.row.send]
          /\ UNCHANGED row
    /\ UNCHANGED <<now, engine, reqs, wire, faults, history>>

\* The turn has moved since the row was last updated.
Progressed(v, r) == \/ r.print # 0 /\ r.print # v.size
                    \/ Later(v.activeAt, r.startedAt) > r.progressAt

\* Seeded bug: the transcript is not asked again past the threshold.
Finished_Late(v, r) == ~v.tool /\ HasActivity(v, r) /\ now - r.startedAt < Timeout

\* Any step of the agent after the prompt and no running tool: the turn is over.
Finished(v, r) == ~v.tool /\ HasActivity(v, r)

TickDecides ==
    LET r == tick.row
        v == tick.view
        activityAt == Later(v.activeAt, r.startedAt)
        grown == r.print # 0 /\ r.print # v.size
        silent == ~Finished(v, r) /\ now - r.progressAt >= Timeout
    IN  /\ tick.pc = "decide"
        /\ \/ Finished(v, r) /\ Disarm /\ EndTick
           \/ /\ ~Finished(v, r) /\ ~silent
              /\ EndTick /\ UNCHANGED row
           \/ /\ silent /\ Progressed(v, r)
              /\ RecordProgress(IF grown THEN Later(activityAt, now) ELSE activityAt,
                                v.size)
              /\ EndTick
           \/ /\ silent /\ ~Progressed(v, r) /\ r.print = 0
              /\ RecordProgress(now - Timeout + Grace, v.size)
              /\ EndTick
           \/ /\ silent /\ ~Progressed(v, r) /\ r.print # 0
              /\ IF now - activityAt < Timeout THEN EndTick
                 ELSE tick' = [tick EXCEPT !.pc = "pending"]
              /\ UNCHANGED row
        /\ UNCHANGED <<now, engine, reqs, wire, faults, history>>

\* hasPendingUserInput: the turn that runs may have put a question to the user, and a
\* list that cannot be read counts as empty.  Then markResolving, and the abort goes
\* out.
TickAsksPending ==
    /\ tick.pc = "pending"
    /\ \/ /\ turn.busy
          /\ RecordProgress(now, tick.view.size)
          /\ EndTick
       \/ IF row.state = "armed"
          THEN /\ row' = [row EXCEPT !.state = "resolving"]
               /\ tick' = [tick EXCEPT !.pc = "abort", !.view = Empty]
          ELSE EndTick /\ UNCHANGED row
    /\ UNCHANGED <<now, engine, reqs, wire, faults, history>>

TickAborts ==
    /\ tick.pc = "abort"
    /\ \/ Interrupt /\ UNCHANGED faults
       \/ Fault /\ UNCHANGED engine
    /\ tick' = [tick EXCEPT !.pc = "waiting"]
    /\ UNCHANGED <<now, row, reqs, wire, history>>

\* waitForIdle gives up: the engine is busy at every look, or unreachable.
TickGivesUp ==
    /\ tick.pc = "waiting"
    /\ IF turn.busy THEN UNCHANGED faults ELSE Fault
    /\ row' = IF row.state = "none" THEN row ELSE [row EXCEPT !.state = "armed"]
    /\ EndTick
    /\ UNCHANGED <<now, engine, reqs, wire, history>>

\* Seeded bug: the budget is not spent before the prompt is sent again.
Resumed_Unspent(r) ==
    [r EXCEPT !.startedAt = now, !.progressAt = now, !.print = 0, !.state = "armed"]

\* The UPDATE before a prompt is sent again, by session.
Resumed(r) ==
    IF r.state = "none" THEN r
    ELSE [r EXCEPT !.retryUsed = TRUE, !.startedAt = now, !.progressAt = now,
                   !.print = 0, !.state = "armed"]

\* The engine is idle: the prompt of the tick's copy is sent again, unless it
\* was before or is not stored.  Nobody waits for the answer.
TickResumes ==
    LET r == tick.row
    IN  /\ tick.pc = "waiting" /\ ~turn.busy
        /\ \/ (r.retryUsed \/ ~r.allowed) /\ Disarm /\ UNCHANGED <<wire, resumes>>
           \/ /\ ~r.retryUsed /\ r.allowed
              /\ row' = Resumed(row)
              /\ wire' = wire \cup {r.send}
              /\ resumes' = [resumes EXCEPT ![r.send] = @ + 1]
        /\ EndTick
        /\ UNCHANGED <<now, engine, reqs, faults, ended, stopped>>

\* Seeded bug: nothing is recovered at start.
Recovered_Not(r) == r

\* recoverInterruptedHangWatches.
Recovered(r) == IF r.state = "resolving" THEN [r EXCEPT !.state = "armed"] ELSE r

\* The server dies and is started again; the engine lives on.
Crash ==
    /\ Fault
    /\ row' = Recovered(row)
    /\ EndTick
    /\ reqs' = [s \in Sends |-> IF reqs[s] = "new" THEN "new" ELSE "done"]
    /\ wire' \in SUBSET (wire \cup {s \in Sends : reqs[s] = "wire"})
    /\ UNCHANGED <<now, engine, history>>

-----------------------------------------------------------------------------

Engine == EngineMoves \/ EngineReplies \/ EngineDropsTurn \/ EngineAnswers
          \/ PromptArrives \/ ForeignPrompt \/ DeleteSession

Proxy == Send \/ RequestAnswered \/ RequestBreaks \/ RequestTimesOut \/ UserStops

Watchdog == TickStart \/ TickStatus \/ TickReadFails \/ TickMessages
            \/ TickDecides \/ TickAsksPending \/ TickAborts \/ TickGivesUp \/ TickResumes

Next == Advance \/ Engine \/ Proxy \/ Watchdog \/ Crash

Spec == Init /\ [][Next]_vars

-----------------------------------------------------------------------------
(* Properties *)

Rows == [state : {"none", "armed", "resolving"}, send : 0 .. MaxSends,
         startedAt : Nat, progressAt : Int, print : Nat, retryUsed : BOOLEAN,
         allowed : BOOLEAN]
Views == [userAt : Nat, assistant : BOOLEAN, tool : BOOLEAN, activeAt : Nat,
          size : Nat]

\* Every variable has its type, and a row that exists holds a prompt of the user.
TypeOK ==
    /\ now \in Nat
    /\ session \in [gone : BOOLEAN, child : BOOLEAN]
    /\ turn \in [busy : BOOLEAN, send : 0 .. MaxSends]
    /\ transcript \in Views
    /\ row \in Rows /\ (row.state # "none" => row.send \in Sends)
    /\ tick \in [pc : {"idle", "status", "messages", "decide", "pending", "abort",
                       "waiting"},
                 row : Rows, view : Views, over : BOOLEAN]
    /\ tick.pc # "idle" => tick.row.send \in Sends
    /\ reqs \in [Sends -> {"new", "wire", "running", "refused", "done"}]
    /\ wire \subseteq Sends
    /\ faults \in Nat
    /\ ended \subseteq Sends /\ stopped \in BOOLEAN
    /\ resumes \in [Sends -> Nat]

\* However ticks, crashes, re-arming sends and disarming requests fall, no prompt of
\* the user is sent again twice (I2 of docs/specs/hang-watchdog-server-side.md).
ResumedOnce == \A s \in Sends : resumes[s] <= 1

\* A row leaves the watch for a stop-and-resume only while a tick is about it; one left
\* behind by a crash would be listed by no tick again.
ResolvingHasOwner == row.state = "resolving" => tick.pc \in {"abort", "waiting"}

\* A prompt whose reply was the newest turn of the transcript when the tick read it is
\* never sent again, whatever arms, stops or crashes after that ("Any assistant step
\* ... is finished work -- never re-POST the prompt", evaluateWatch).
NeverRestartsFinished ==
    [][\A s \in Sends : resumes'[s] > resumes[s] => ~tick.over]_vars

=============================================================================
