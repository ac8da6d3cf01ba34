------------------------------ MODULE GoalRules ------------------------------
(***************************************************************************)
(* What the Goal Loop of web/src/lib/goal-*.ts reads and writes without     *)
(* waiting for anybody: how a turn's reply is found in a transcript, and    *)
(* what a reply does to the loop's row in the goal_loops table.             *)
(*                                                                          *)
(* A transcript is a sequence of messages.  A message keeps what the code   *)
(* tells apart: its id, who wrote it, and, for an assistant message, the    *)
(* result block that extractGoalResult finds in it ("none" when there is    *)
(* no readable one).  "loop" and "kind" remember the prompt a message       *)
(* belongs to; the code cannot see them, only the properties can.           *)
(***************************************************************************)
EXTENDS Integers, Sequences, FiniteSetsExt

CONSTANTS
    LoopIds,             \* ids of the rows, in order of creation
    MsgIds,              \* ids of the messages, in order of arrival
    TurnLimits,          \* the values a user may give maxTurns
    MaxRejectedClaims    \* goal-util.ts:414

ASSUME LoopIdsAssumption == LoopIds \subseteq Nat \ {0}
ASSUME MsgIdsAssumption == MsgIds \subseteq Nat \ {0}
ASSUME TurnLimitsAssumption == TurnLimits \subseteq 1 .. 100
ASSUME RejectedAssumption == MaxRejectedClaims \in Nat

-----------------------------------------------------------------------------
(* The row *)

Live     == {"queued", "running", "verifying_completed"}
Terminal == {"completed", "blocked", "stopped"}
Statuses == Live \cup Terminal \cup {"paused"}
Kinds    == {"goal", "verification"}
Reasons  == {"", "user", "manual_send", "turn_limit", "unreadable_result",
             "turn_timeout", "unknown_delivery", "transcript_unreadable",
             "boundary_lost", "verification_rejected", "scheduler_error"}
Results  == {"progress", "completed", "blocked", "verified_completed"}

\* "assistant" is a completed message, "partial" one cut off by an abort,
\* "prompt" a user message with the loop's marker, "user" any other one.
Message == [id : MsgIds,
            from : {"prompt", "user", "assistant", "partial"},
            loop : LoopIds \cup {0},
            kind : Kinds,
            res : Results \cup {"none"}]

\* boundary is last_message_id (0 is NULL); progress keeps, for each stored
\* result, the message it was read from; promptAt is last_prompt_at, "old"
\* once TURN_TIMEOUT_MS has gone by.
Row == [status : Statuses \cup {"absent"},
        turnKind : Kinds,
        pauseReason : Reasons,
        turnCount : Nat,
        maxTurns : Nat,
        rejected : Nat,
        boundary : MsgIds \cup {0},
        promptAt : {"null", "fresh", "old"},
        full : BOOLEAN,
        dismissed : BOOLEAN,
        progress : Seq(Message),
        revision : Nat]

NoRow == [status |-> "absent", turnKind |-> "goal", pauseReason |-> "",
          turnCount |-> 0, maxTurns |-> 1, rejected |-> 0, boundary |-> 0,
          promptAt |-> "null", full |-> FALSE, dismissed |-> FALSE,
          progress |-> <<>>, revision |-> 0]

\* The UPDATE of a compare-and-set on the revision column.
Bump(row) == [row EXCEPT !.revision = @ + 1]

PauseRow(row, reason) ==
    [Bump(row) EXCEPT !.status = "paused", !.pauseReason = reason]

-----------------------------------------------------------------------------
(* Reading a transcript *)

LatestMessageId(t) == IF t = <<>> THEN 0 ELSE t[Len(t)].id

BoundaryLost(t, boundary) ==
    boundary # 0 /\ \A i \in DOMAIN t : t[i].id # boundary

\* The positions past the read boundary; none when the boundary is lost.
AfterBoundary(t, boundary) ==
    {i \in DOMAIN t :
        boundary = 0 \/ \E j \in DOMAIN t : t[j].id = boundary /\ j < i}

\* The turn's reply is the last message, and only once it is completed.
HasFinalAssistant(t, boundary) ==
    Len(t) \in AfterBoundary(t, boundary) /\ t[Len(t)].from = "assistant"

IsUserMessage(m) == m.from \in {"prompt", "user"}

\* The replies a resume may recover: those of the last marked prompt past the
\* boundary, before the next user message, that carry a result.
Recoverable(t, boundary) ==
    LET prompts == {i \in AfterBoundary(t, boundary) : t[i].from = "prompt"}
    IN  {i \in DOMAIN t :
            /\ prompts # {}
            /\ i > Max(prompts)
            /\ \A j \in Max(prompts) + 1 .. i : ~IsUserMessage(t[j])
            /\ t[i].from = "assistant"
            /\ t[i].res # "none"}

Recovered(t, boundary) == t[Max(Recoverable(t, boundary))]

-----------------------------------------------------------------------------
(* Applying a reply.  dto is the copy of the row the caller has been working *)
(* on since before its awaits, row is the row now: the UPDATE is a no-op     *)
(* unless the row is still the one the reply belongs to.                     *)

\* Seeded bug: the row may have been written since.
SameTurn_AnyRow(row, dto) == row.boundary = dto.boundary

SameTurn(row, dto) ==
    /\ row.status = "running"
    /\ row.revision = dto.revision
    /\ row.boundary = dto.boundary

IsVerificationReply(dto) == dto.turnKind = "verification"

\* Seeded bug: a full run stops at the first completion claim.
EffectiveResult_Any(dto, m) == m.res

EffectiveResult(dto, m) ==
    IF dto.full /\ ~IsVerificationReply(dto) /\ m.res = "completed"
    THEN "progress" ELSE m.res

Rejects(dto, m) ==
    /\ IsVerificationReply(dto)
    /\ EffectiveResult(dto, m) \notin {"verified_completed", "blocked"}

RejectedClaims(dto, m) ==
    CASE Rejects(dto, m) -> dto.rejected + 1
      [] IsVerificationReply(dto) /\ m.res = "verified_completed" -> 0
      [] OTHER -> dto.rejected

\* Seeded bug: any turn may confirm the completion.
NextStatus_AnyTurn(dto, m) ==
    CASE EffectiveResult(dto, m) = "blocked" -> "blocked"
      [] EffectiveResult(dto, m) = "verified_completed" -> "completed"
      [] EffectiveResult(dto, m) = "completed" /\ ~IsVerificationReply(dto) ->
            "verifying_completed"
      [] OTHER -> "queued"

NextStatus(dto, m) ==
    LET res == EffectiveResult(dto, m)
        verification == IsVerificationReply(dto)
        capped == RejectedClaims(dto, m) >= MaxRejectedClaims
    IN  CASE res = "blocked" -> "blocked"
          [] verification /\ res = "verified_completed" -> "completed"
          [] Rejects(dto, m) /\ capped -> "paused"
          [] ~verification /\ res = "completed" -> "verifying_completed"
          [] OTHER -> "queued"

ReachedTurnLimit(dto, m) ==
    /\ NextStatus(dto, m) \in {"queued", "paused"}
    /\ dto.turnCount >= dto.maxTurns

NextTurnKind(dto, m) ==
    IF NextStatus(dto, m) = "verifying_completed" THEN "verification" ELSE "goal"

\* Seeded bug: the read boundary does not follow the reply that was read.
ReadUpTo_Kept(dto, m) == dto.boundary

ReadUpTo(dto, m) == m.id

\* applyAssistantResult with a result.
ApplyResult(row, dto, m) ==
    IF ~SameTurn(row, dto) THEN row ELSE
    [Bump(row) EXCEPT
        !.status = IF ReachedTurnLimit(dto, m) THEN "paused"
                   ELSE NextStatus(dto, m),
        !.turnKind = NextTurnKind(dto, m),
        !.pauseReason =
            IF ReachedTurnLimit(dto, m) THEN "turn_limit"
            ELSE IF NextStatus(dto, m) = "paused" THEN "verification_rejected"
            ELSE "",
        !.rejected = RejectedClaims(dto, m),
        !.boundary = ReadUpTo(dto, m),
        !.progress = Append(dto.progress, [m EXCEPT !.res = EffectiveResult(dto, m)])]

\* applyAssistantResult without one: the turn ended and left no result block.
ApplyUnreadable(row, dto, m) ==
    IF ~SameTurn(row, dto) THEN row ELSE
    [PauseRow(row, "unreadable_result") EXCEPT !.boundary = m.id]

\* expireStalledTurn.  dto's last_prompt_at is the row's while the revision is.
ExpireStalledTurn(row, dto) ==
    IF row.status = "running" /\ row.promptAt = "old" /\ row.revision = dto.revision
    THEN PauseRow(row, "turn_timeout") ELSE row

\* Seeded bug: an ambiguous delivery gives the turn back.
PauseAfterUnknownPromptDelivery_RollsBack(row, dto) ==
    IF SameTurn(row, dto)
    THEN [PauseRow(row, "unknown_delivery") EXCEPT !.turnCount = @ - 1] ELSE row

PauseAfterUnknownPromptDelivery(row, dto) ==
    IF SameTurn(row, dto) THEN PauseRow(row, "unknown_delivery") ELSE row

PauseForLostBoundary(row, dto) ==
    IF SameTurn(row, dto) THEN PauseRow(row, "boundary_lost") ELSE row

\* The scheduler's catch-all.  Seeded bug: whatever the row's status.
CatchAll_AnyStatus(row) == PauseRow(row, "scheduler_error")

CatchAll(row) ==
    IF row.status \in Live THEN PauseRow(row, "scheduler_error") ELSE row

\* The engine refused the prompt, so the turn was never taken.
RecoverAfterRejectedPrompt(row, dto) ==
    IF ~SameTurn(row, dto) THEN row
    ELSE IF dto.turnKind = "verification"
    THEN [Bump(row) EXCEPT !.status = "verifying_completed", !.promptAt = "null"]
    ELSE IF row.turnCount = dto.turnCount
    THEN [Bump(row) EXCEPT !.status = "queued", !.promptAt = "null",
                           !.turnCount = dto.turnCount - 1]
    ELSE row

-----------------------------------------------------------------------------
(* The writes of the API handlers and of the scheduler's claims *)

\* Seeded bug: a pause forgets the completion check.
ParkedKind_Goal(row) == "goal"

\* A loop caught between turns of a completion check must come back to it.
ParkedKind(row) ==
    IF row.status = "verifying_completed" THEN "verification" ELSE row.turnKind

\* Seeded bug: the UPDATE leaves the revision as it is.
PauseByUser_KeepsRevision(row) ==
    [row EXCEPT !.status = "paused", !.pauseReason = "user", !.turnKind = ParkedKind(row)]

PauseByUser(row) == [PauseRow(row, "user") EXCEPT !.turnKind = ParkedKind(row)]

PauseForManualSend(row, tail) ==
    [PauseRow(row, "manual_send") EXCEPT !.turnKind = ParkedKind(row), !.boundary = tail]

Stopped(row, dismiss) ==
    [Bump(row) EXCEPT !.status = "stopped", !.dismissed = @ \/ dismiss]

NewRow(readable, tail, maxTurns, full) ==
    [NoRow EXCEPT !.status = IF readable THEN "queued" ELSE "paused",
                  !.pauseReason = IF readable THEN "" ELSE "transcript_unreadable",
                  !.boundary = tail, !.maxTurns = maxTurns, !.full = full]

MayRecover(dto) == dto.pauseReason \in {"unknown_delivery", "user", "manual_send"}

\* A resume that could not read the transcript changes nothing but the error.
ResumeUnreadable(row, dto) ==
    IF row.status = "paused" /\ row.revision = dto.revision THEN Bump(row) ELSE row

\* Seeded bug: the reason is not looked at.
MustHold_Never(dto) == FALSE

MustHold(dto) == dto.pauseReason = "unknown_delivery"

\* Seeded bug: a resume always asks for a goal turn.
ResumeStatus_Queued(dto) == "queued"

ResumeStatus(dto) ==
    IF dto.turnKind = "verification" THEN "verifying_completed" ELSE "queued"

\* A resume with a fresh transcript: apply the reply nobody applied; or stay
\* paused while a prompt may still be on its way; or start the next turn.
ResumeRow(row, dto, view) ==
    IF ~(row.status = "paused" /\ row.revision = dto.revision) THEN row
    ELSE IF MayRecover(dto) /\ Recoverable(view, dto.boundary) # {}
    THEN LET running(r) == [Bump(r) EXCEPT !.status = "running", !.pauseReason = ""]
         IN  ApplyResult(running(row), running(dto), Recovered(view, dto.boundary))
    ELSE IF MustHold(dto) THEN Bump(row)
    ELSE [Bump(row) EXCEPT
            !.status = ResumeStatus(dto),
            !.pauseReason = "",
            !.rejected = IF dto.pauseReason = "verification_rejected" THEN 0 ELSE dto.rejected,
            !.boundary = LatestMessageId(view)]

\* Seeded bug: a claim with an outdated copy of the row.
CanClaim_NoRevision(row, dto) ==
    /\ row.status = dto.status
    /\ row.status = "queued" => row.turnCount < row.maxTurns

CanClaim(row, dto) ==
    /\ row.status = dto.status
    /\ row.revision = dto.revision
    /\ row.status = "queued" => row.turnCount < row.maxTurns

\* Seeded bug: the goal turn is not counted.
TurnsAfterClaim_Kept(row) == row.turnCount

TurnsAfterClaim(row) ==
    IF row.status = "queued" THEN row.turnCount + 1 ELSE row.turnCount

\* The scheduler takes the turn: the reply to the prompt it is about to send
\* will be looked for past the transcript's tail.
Claimed(row, tail) ==
    [Bump(row) EXCEPT
        !.status = "running",
        !.turnKind = IF row.status = "queued" THEN "goal" ELSE "verification",
        !.turnCount = TurnsAfterClaim(row),
        !.boundary = tail,
        !.promptAt = "fresh"]
=============================================================================
