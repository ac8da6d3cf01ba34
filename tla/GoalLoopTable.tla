---------------------------- MODULE GoalLoopTable ----------------------------
(***************************************************************************)
(* What a Goal Loop promises: the transitions its status, turn kind, pause  *)
(* reason and counters may make, whoever makes them and however many        *)
(* requests, ticks and crashes interleave.  One action per transition; the  *)
(* numbers are the rows of docs/specs/goal-loop.md, "遷移表".               *)
(***************************************************************************)
EXTENDS Integers

CONSTANTS LoopIds, TurnLimits, MaxRejectedClaims

VARIABLE loop   \* [LoopIds -> [status, kind, reason, turns, max, rejected]]

Live == {"queued", "running", "verifying_completed"}
Open == Live \cup {"paused"}
None == [status |-> "absent", kind |-> "goal", reason |-> "",
         turns |-> 0, max |-> 1, rejected |-> 0]

Init == loop = [l \in LoopIds |-> None]

To(l, state) == loop' = [loop EXCEPT ![l] = state]

At(l, status) == loop[l].status = status

Parked(state, reason) == [state EXCEPT !.status = "paused", !.reason = reason]

\* 1, 2: a new loop takes the place of every open one.
Create(l) ==
    /\ At(l, "absent")
    /\ \E n \in TurnLimits, readable \in BOOLEAN :
          loop' = [k \in LoopIds |->
            IF k = l
            THEN [None EXCEPT !.max = n,
                    !.status = IF readable THEN "queued" ELSE "paused",
                    !.reason = IF readable THEN "" ELSE "transcript_unreadable"]
            ELSE IF loop[k].status \in Open THEN [loop[k] EXCEPT !.status = "stopped"]
            ELSE loop[k]]

\* 3: only a goal turn spends a slot of the budget.
StartGoalTurn(l) ==
    /\ At(l, "queued") /\ loop[l].turns < loop[l].max
    /\ To(l, [loop[l] EXCEPT !.status = "running", !.kind = "goal", !.turns = @ + 1])

\* 4
OutOfTurns(l) ==
    /\ At(l, "queued") /\ loop[l].turns >= loop[l].max
    /\ To(l, Parked(loop[l], "turn_limit"))

\* 5
StartVerification(l) ==
    /\ At(l, "verifying_completed")
    /\ To(l, [loop[l] EXCEPT !.status = "running", !.kind = "verification"])

\* 6 to 12: what the reply to a turn makes of the loop.  A goal turn that says
\* anything but completed or blocked counts as progress.
Progressed(s)   == [s EXCEPT !.status = "queued", !.kind = "goal", !.reason = ""]
Claimed(s)      == [s EXCEPT !.status = "verifying_completed", !.kind = "verification",
                             !.reason = ""]
Blocked(s)      == [s EXCEPT !.status = "blocked", !.kind = "goal", !.reason = ""]
Confirmed(s)    == [s EXCEPT !.status = "completed", !.kind = "goal", !.reason = "",
                             !.rejected = 0]
Rejected(s) ==
    LET once == [s EXCEPT !.kind = "goal", !.rejected = @ + 1]
    IN  IF once.rejected >= MaxRejectedClaims THEN Parked(once, "verification_rejected")
        ELSE [once EXCEPT !.status = "queued", !.reason = ""]

Limited(s, next) ==
    IF next.status \in {"queued", "paused"} /\ s.turns >= s.max
    THEN Parked(next, "turn_limit") ELSE next

Outcomes(s) ==
    {Limited(s, next) : next \in
        IF s.kind = "goal" THEN {Progressed(s), Claimed(s), Blocked(s)}
        ELSE {Confirmed(s), Blocked(s), Rejected(s)}}

Reply(l) == At(l, "running") /\ \E s \in Outcomes(loop[l]) : To(l, s)

\* 13, 14, 16, 17
TurnFails(l) ==
    /\ At(l, "running")
    /\ \E why \in {"unreadable_result", "turn_timeout", "unknown_delivery", "boundary_lost"} :
          To(l, Parked(loop[l], why))

\* 15: a prompt the engine refused was never sent.
PromptRefused(l) ==
    /\ At(l, "running")
    /\ To(l, IF loop[l].kind = "goal"
             THEN [loop[l] EXCEPT !.status = "queued", !.turns = @ - 1]
             ELSE [loop[l] EXCEPT !.status = "verifying_completed"])

\* 18, 19, and the catch-all of the scheduler
Interrupted(l) ==
    /\ loop[l].status \in Live
    /\ \/ \E why \in {"user", "manual_send"} :
             To(l, [Parked(loop[l], why) EXCEPT
                      !.kind = IF At(l, "verifying_completed") THEN "verification" ELSE @])
       \/ To(l, Parked(loop[l], "scheduler_error"))

\* 20: a reply that nobody applied before the pause.
ResumeWithReply(l) ==
    /\ At(l, "paused") /\ loop[l].reason \in {"unknown_delivery", "user", "manual_send"}
    /\ \E s \in Outcomes(loop[l]) : To(l, s)

\* 22: never out of unknown_delivery (21); 23 changes nothing.
Resume(l) ==
    /\ At(l, "paused") /\ loop[l].reason # "unknown_delivery"
    /\ To(l, [loop[l] EXCEPT
                !.status = IF loop[l].kind = "verification"
                           THEN "verifying_completed" ELSE "queued",
                !.reason = "",
                !.rejected = IF loop[l].reason = "verification_rejected" THEN 0 ELSE @])

\* 24
Stop(l) ==
    loop[l].status \in Open /\ To(l, [loop[l] EXCEPT !.status = "stopped"])

SetMaxTurns(l) ==
    At(l, "paused") /\ \E n \in TurnLimits : To(l, [loop[l] EXCEPT !.max = n])

Next ==
    \E l \in LoopIds :
        \/ Create(l) \/ StartGoalTurn(l) \/ OutOfTurns(l) \/ StartVerification(l)
        \/ Reply(l) \/ TurnFails(l) \/ PromptRefused(l) \/ Interrupted(l)
        \/ ResumeWithReply(l) \/ Resume(l) \/ Stop(l) \/ SetMaxTurns(l)

Spec == Init /\ [][Next]_loop
=============================================================================
