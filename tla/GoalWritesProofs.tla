--------------------------- MODULE GoalWritesProofs ---------------------------
(***************************************************************************)
(* The writes of the goal_loops table, for any number of loops, clients,    *)
(* messages and faults.  Every write is one rule of GoalRules applied to    *)
(* the row as it is, although the handler that makes it has been working    *)
(* on a copy since before its awaits; what holds of the rules then holds of *)
(* the loop, whatever interleaves.                                          *)
(***************************************************************************)
EXTENDS GoalLoopProofs, FiniteSetTheorems

-----------------------------------------------------------------------------
(* One write of one row, in terms of the row alone *)

\* The turn ends with a reply.
ReadsReply(row, new) ==
    /\ row.status = "running"
    /\ \E m \in Message : \/ m.res # "none" /\ new = ApplyResult(row, row, m)
                          \/ new = ApplyUnreadable(row, row, m)

\* The turn is given up.
GivesUp(row, new) ==
    /\ row.status = "running"
    /\ \E why \in {"turn_timeout", "unknown_delivery", "boundary_lost"} :
          new = PauseRow(row, why)

\* The prompt was refused.
TakesBack(row, new) ==
    row.status = "running" /\ new = RecoverAfterRejectedPrompt(row, row)

\* The turn grows old.
Ages(row, new) == row.status = "running" /\ new = [row EXCEPT !.promptAt = "old"]

\* A tick takes the next turn, or finds the budget spent.
StartsTurn(row, new) ==
    /\ row.status \in {"queued", "verifying_completed"}
    /\ row.status = "queued" => row.turnCount < row.maxTurns
    /\ \E tail \in MsgIds \cup {0} : new = Claimed(row, tail)

SpendsBudget(row, new) == OutOfTurns(row) /\ new = PauseRow(row, "turn_limit")

\* A request, or an error of the scheduler's, interrupts a live loop.
IsInterrupted(row, new) ==
    /\ row.status \in Live
    /\ \/ new = PauseByUser(row)
       \/ \E tail \in MsgIds \cup {0} : new = PauseForManualSend(row, tail)
       \/ new = PauseRow(row, "scheduler_error")

\* A stop, a finish, a replacement; the closing of the panel; a new budget.
IsStopped(row, new) ==
    row.status \in Replaceable /\ \E dismiss \in BOOLEAN : new = Stopped(row, dismiss)

IsDismissed(row, new) ==
    row.status \in Terminal /\ new = [Bump(row) EXCEPT !.dismissed = TRUE]

IsRebudgeted(row, new) ==
    row.status = "paused" /\ \E n \in TurnLimits : new = [Bump(row) EXCEPT !.maxTurns = n]

\* A resume, with the transcript or without.
IsResumed(row, new) ==
    /\ row.status = "paused"
    /\ \/ \E view \in Seq(Message) : new = ResumeRow(row, row, view)
       \/ new = Bump(row)

\* The writes that leave a paused loop paused, and those of a resume.
Settled(row, new) ==
    \/ ReadsReply(row, new) \/ GivesUp(row, new) \/ TakesBack(row, new) \/ Ages(row, new)
    \/ StartsTurn(row, new) \/ SpendsBudget(row, new) \/ IsInterrupted(row, new)
    \/ IsStopped(row, new) \/ IsDismissed(row, new) \/ IsRebudgeted(row, new)

Write(row, new) == Settled(row, new) \/ IsResumed(row, new)

-----------------------------------------------------------------------------
(* A rule applied to a copy is the rule applied to the row *)

\* A copy of the same revision has the row's fields.
LEMMA CopyFields ==
    ASSUME NEW row \in Row, NEW dto \in Row, Agrees(dto, row), dto.revision = row.revision
    PROVE  /\ dto.status = row.status /\ dto.turnKind = row.turnKind
           /\ dto.pauseReason = row.pauseReason /\ dto.turnCount = row.turnCount
           /\ dto.maxTurns = row.maxTurns /\ dto.rejected = row.rejected
           /\ dto.boundary = row.boundary /\ dto.full = row.full
           /\ dto.dismissed = row.dismissed /\ dto.progress = row.progress
BY DEF Agrees, Row

\* What a reply means depends on the copy's turn kind, options and counters only.
LEMMA CopyJudges ==
    ASSUME NEW row \in Row, NEW dto \in Row, NEW m,
           dto.turnKind = row.turnKind, dto.full = row.full, dto.rejected = row.rejected,
           dto.turnCount = row.turnCount, dto.maxTurns = row.maxTurns
    PROVE  /\ EffectiveResult(dto, m) = EffectiveResult(row, m)
           /\ NextStatus(dto, m) = NextStatus(row, m)
           /\ NextTurnKind(dto, m) = NextTurnKind(row, m)
           /\ RejectedClaims(dto, m) = RejectedClaims(row, m)
           /\ ReachedTurnLimit(dto, m) <=> ReachedTurnLimit(row, m)
<1>1. IsVerificationReply(dto) <=> IsVerificationReply(row)
  BY DEF IsVerificationReply
<1>2. EffectiveResult(dto, m) = EffectiveResult(row, m)
  BY <1>1 DEF EffectiveResult
<1>3. Rejects(dto, m) <=> Rejects(row, m)
  BY <1>1, <1>2 DEF Rejects
<1>4. RejectedClaims(dto, m) = RejectedClaims(row, m)
  BY <1>1, <1>3 DEF RejectedClaims
<1>5. NextStatus(dto, m) = NextStatus(row, m)
  BY <1>1, <1>2, <1>3, <1>4 DEF NextStatus
<1> QED BY <1>2, <1>4, <1>5 DEF NextTurnKind, ReachedTurnLimit

\* A reply is applied to the row, whatever copy the reader kept.
LEMMA CopyApplies ==
    ASSUME NEW row \in Row, NEW dto \in Row, Agrees(dto, row), NEW m
    PROVE  ApplyResult(row, dto, m) = IF SameTurn(row, dto) THEN ApplyResult(row, row, m)
                                      ELSE row
<1>1. CASE ~SameTurn(row, dto)
  BY <1>1 DEF ApplyResult
<1>2. CASE SameTurn(row, dto)
  <2>1. /\ dto.turnKind = row.turnKind /\ dto.full = row.full /\ dto.rejected = row.rejected
        /\ dto.turnCount = row.turnCount /\ dto.maxTurns = row.maxTurns
        /\ dto.progress = row.progress
    BY <1>2, CopyFields DEF SameTurn
  <2>2. SameTurn(row, row)
    BY <1>2 DEF SameTurn
  <2>3. /\ EffectiveResult(dto, m) = EffectiveResult(row, m)
        /\ NextStatus(dto, m) = NextStatus(row, m)
        /\ NextTurnKind(dto, m) = NextTurnKind(row, m)
        /\ RejectedClaims(dto, m) = RejectedClaims(row, m)
        /\ ReachedTurnLimit(dto, m) <=> ReachedTurnLimit(row, m)
    BY <2>1, CopyJudges
  <2>4. ReadUpTo(dto, m) = ReadUpTo(row, m)
    BY DEF ReadUpTo
  <2> QED BY <1>2, <2>1, <2>2, <2>3, <2>4 DEF ApplyResult
<1> QED BY <1>1, <1>2

\* A refused prompt takes the row's turn back.
LEMMA CopyTakesBack ==
    ASSUME NEW row \in Row, NEW dto \in Row, Agrees(dto, row)
    PROVE  RecoverAfterRejectedPrompt(row, dto) =
              IF SameTurn(row, dto) THEN RecoverAfterRejectedPrompt(row, row) ELSE row
<1>1. CASE ~SameTurn(row, dto)
  BY <1>1 DEF RecoverAfterRejectedPrompt
<1>2. CASE SameTurn(row, dto)
  <2>1. dto.turnKind = row.turnKind /\ dto.turnCount = row.turnCount
    BY <1>2, CopyFields DEF SameTurn
  <2>2. SameTurn(row, row)
    BY <1>2 DEF SameTurn
  <2> QED BY <1>2, <2>1, <2>2 DEF RecoverAfterRejectedPrompt
<1> QED BY <1>1, <1>2

\* A resume acts on the row, whatever copy the handler kept.
LEMMA CopyResumes ==
    ASSUME NEW row \in Row, NEW dto \in Row, Agrees(dto, row), NEW view
    PROVE  ResumeRow(row, dto, view) =
              IF row.status = "paused" /\ row.revision = dto.revision
              THEN ResumeRow(row, row, view) ELSE row
<1> DEFINE running(r) == [Bump(r) EXCEPT !.status = "running", !.pauseReason = ""]
           m == Recovered(view, row.boundary)
<1>1. CASE ~(row.status = "paused" /\ row.revision = dto.revision)
  BY <1>1 DEF ResumeRow
<1>2. CASE row.status = "paused" /\ row.revision = dto.revision
  <2>1. /\ dto.turnKind = row.turnKind /\ dto.pauseReason = row.pauseReason
        /\ dto.rejected = row.rejected /\ dto.boundary = row.boundary
    BY <1>2, CopyFields
  <2>2. running(row) \in Row /\ running(dto) \in Row
    <3>1. ASSUME NEW r \in Row PROVE running(r) \in Row
      <4>1. Bump(r) \in Row
        BY BumpTyped
      <4> QED BY <4>1 DEF Row, Statuses, Live, Reasons
    <3> QED BY <3>1
  <2>3. /\ running(row).status = "running"
        /\ running(row).revision = row.revision + 1 /\ running(dto).revision = row.revision + 1
        /\ running(row).boundary = row.boundary /\ running(dto).boundary = row.boundary
    BY <1>2, <2>1 DEF Bump, Row
  <2>4. Agrees(running(dto), running(row))
    <3>1. dto = [row EXCEPT !.promptAt = dto.promptAt] /\ row.revision \in Nat
      BY <1>2 DEF Agrees, Row
    <3>2. running(dto) = [running(row) EXCEPT !.promptAt = dto.promptAt]
      BY <3>1 DEF Bump, Row
    <3>3. running(dto).promptAt = dto.promptAt
      BY <3>1 DEF Bump, Row
    <3>4. running(dto) = [running(row) EXCEPT !.promptAt = running(dto).promptAt]
      BY <3>2, <3>3
    <3>5. running(dto).revision <= running(row).revision
      BY <2>3, <3>1
    <3> HIDE DEF running
    <3> QED BY <3>4, <3>5 DEF Agrees
  <2>5. ApplyResult(running(row), running(dto), m) = ApplyResult(running(row), running(row), m)
    <3> HIDE DEF running, m
    <3>1. SameTurn(running(row), running(dto))
      BY <2>3 DEF SameTurn
    <3> QED BY <2>2, <2>4, <3>1, CopyApplies
  <2>6. MayRecover(dto) <=> MayRecover(row)
    BY <2>1 DEF MayRecover
  <2>7. MustHold(dto) <=> MustHold(row)
    BY <2>1 DEF MustHold
  <2>8. ResumeStatus(dto) = ResumeStatus(row)
    BY <2>1 DEF ResumeStatus
  <2> QED BY <1>2, <2>1, <2>5, <2>6, <2>7, <2>8 DEF ResumeRow
<1> QED BY <1>1, <1>2

-----------------------------------------------------------------------------
(* Every write of every handler is one of them *)

\* The copies that are held are copies of rows that exist.
HeldExist ==
    /\ sched.pc # "idle" => sched.id \in Existing
    /\ \A c \in Clients :
          op[c].req \in {"resume", "manual"} /\ op[c].pc \in {"read", "act"}
          => op[c].id \in Existing

\* The step writes one row at most, and keeps to the rules.
OneWrite == \/ UNCHANGED rows
            \/ \E l \in LoopIds, new \in Row : Settled(rows[l], new) /\ SetRow(l, new)

\* An UPDATE whose compare-and-set fails writes nothing.
LEMMA SetSame ==
    ASSUME TypeOK, NEW l \in LoopIds, SetRow(l, rows[l])
    PROVE  UNCHANGED rows
BY DEF TypeOK, SetRow

\* The writes of the scheduler.
LEMMA SchedulerWrites == ASSUME TypeOK, CopiesAgree, Scheduler PROVE OneWrite
<1>0. \A l \in LoopIds : rows[l] \in Row
  BY DEF TypeOK
<1>1. sched.pc # "idle" => /\ sched.id \in LoopIds /\ sched.dto \in Row
                           /\ rows[sched.id] \in Row /\ sched.view \in Seq(Message)
                           /\ Agrees(sched.dto, rows[sched.id])
  BY <1>0 DEF TypeOK, TickTypeOK, Ticks, CopiesAgree
<1> DEFINE row == rows[sched.id]
           dto == sched.dto
<1>2. ASSUME sched.pc # "idle", NEW new \in Row, SetRow(sched.id, new),
             new = row \/ Settled(row, new)
      PROVE  OneWrite
  BY <1>1, <1>2, SetSame DEF OneWrite
<1>3. CASE SchedExpire
  <2>1. SetRow(sched.id, ExpireFirst(row, dto)) /\ sched.pc # "idle"
    BY <1>3 DEF SchedExpire
  <2>2. ExpireFirst(row, dto) = row \/ Settled(row, ExpireFirst(row, dto))
    BY DEF ExpireFirst, ExpireStalledTurn, Settled, GivesUp
  <2>3. ExpireFirst(row, dto) \in Row
    BY <1>1, <2>1, TurnEndsTyped DEF ExpireFirst
  <2> QED BY <1>2, <2>1, <2>2, <2>3
<1>4. CASE SchedulerError
  <2>1. SetRow(sched.id, CatchAll(row)) /\ sched.pc # "idle"
    BY <1>4 DEF SchedulerError
  <2>2. CatchAll(row) = row \/ Settled(row, CatchAll(row))
    BY DEF CatchAll, Settled, IsInterrupted
  <2>3. CatchAll(row) \in Row
    BY <1>1, <2>1, TurnEndsTyped
  <2> QED BY <1>2, <2>1, <2>2, <2>3
<1>5. CASE SchedReadsReply
  <2> DEFINE m == sched.view[Len(sched.view)]
  <2>1. /\ sched.pc # "idle"
        /\ \/ SetRow(sched.id, PauseForLostBoundary(row, dto))
           \/ /\ HasFinalAssistant(sched.view, dto.boundary)
              /\ \/ m.res # "none" /\ SetRow(sched.id, ApplyResult(row, dto, m))
                 \/ SetRow(sched.id, ApplyUnreadable(row, dto, m))
           \/ SetRow(sched.id, ExpireStalledTurn(row, dto))
    BY <1>5 DEF SchedReadsReply
  <2>2. PauseForLostBoundary(row, dto) \in Row /\ ExpireStalledTurn(row, dto) \in Row
    BY <1>1, <2>1, TurnEndsTyped
  <2>3. CASE SetRow(sched.id, PauseForLostBoundary(row, dto))
    <3>1. PauseForLostBoundary(row, dto) = row \/ Settled(row, PauseForLostBoundary(row, dto))
      BY DEF PauseForLostBoundary, SameTurn, Settled, GivesUp
    <3> QED BY <1>2, <2>1, <2>2, <2>3, <3>1
  <2>4. CASE SetRow(sched.id, ExpireStalledTurn(row, dto))
    <3>1. ExpireStalledTurn(row, dto) = row \/ Settled(row, ExpireStalledTurn(row, dto))
      BY DEF ExpireStalledTurn, Settled, GivesUp
    <3> QED BY <1>2, <2>1, <2>2, <2>4, <3>1
  <2>5. ASSUME HasFinalAssistant(sched.view, dto.boundary), m.res # "none",
               SetRow(sched.id, ApplyResult(row, dto, m))
        PROVE  OneWrite
    <3>1. m \in Message
      BY <1>1, <2>1, <2>5, FinalTyped
    <3>2. ApplyResult(row, dto, m) \in Row
      BY <1>1, <2>1, <3>1, ApplyResultTyped
    <3>3. CASE ~SameTurn(row, dto)
      <4>1. ApplyResult(row, dto, m) = row
        BY <3>3 DEF ApplyResult
      <4> QED BY <1>2, <2>1, <2>5, <3>2, <4>1
    <3>4. CASE SameTurn(row, dto)
      <4>1. ApplyResult(row, dto, m) = ApplyResult(row, row, m)
        <5> HIDE DEF row, dto, m
        <5> QED BY <1>1, <2>1, <3>4, CopyApplies DEF row, dto
      <4>2. row.status = "running"
        BY <3>4 DEF SameTurn
      <4>3. Settled(row, ApplyResult(row, dto, m))
        BY <2>5, <3>1, <4>1, <4>2 DEF Settled, ReadsReply
      <4> QED BY <1>2, <2>1, <2>5, <3>2, <4>3
    <3> QED BY <3>3, <3>4
  <2>6. ASSUME HasFinalAssistant(sched.view, dto.boundary),
               SetRow(sched.id, ApplyUnreadable(row, dto, m))
        PROVE  OneWrite
    <3>1. m \in Message
      BY <1>1, <2>1, <2>6, FinalTyped
    <3>2. ApplyUnreadable(row, dto, m) \in Row
      BY <1>1, <2>1, <3>1, ApplyUnreadableTyped
    <3>3. \/ ApplyUnreadable(row, dto, m) = row
          \/ /\ row.status = "running"
             /\ ApplyUnreadable(row, dto, m) = ApplyUnreadable(row, row, m)
      <4> HIDE DEF row, dto, m
      <4> QED BY DEF ApplyUnreadable, SameTurn
    <3> QED BY <1>2, <2>1, <2>6, <3>1, <3>2, <3>3 DEF Settled, ReadsReply
  <2> QED BY <2>1, <2>3, <2>4, <2>5, <2>6
<1>6. CASE SchedTurnLimit
  <2>1. SetRow(sched.id, PauseRow(row, "turn_limit")) /\ sched.pc # "idle" /\ OutOfTurns(row)
    BY <1>6 DEF SchedTurnLimit
  <2>2. PauseRow(row, "turn_limit") \in Row
    BY <1>1, <2>1, TurnEndsTyped
  <2> QED BY <1>2, <2>1, <2>2 DEF Settled, SpendsBudget
<1>7. CASE SchedClaim
  <2> DEFINE tail == LatestMessageId(sched.view)
  <2>1. /\ sched.pc # "idle" /\ sched.dto.status \in {"queued", "verifying_completed"}
        /\ \/ UNCHANGED rows
           \/ CanClaim(row, dto) /\ SetRow(sched.id, Claimed(row, tail))
    <3>1. sched.pc # "idle" /\ sched.dto.status \in {"queued", "verifying_completed"}
      BY <1>7 DEF SchedClaim, BetweenTurns, TypeOK, TickTypeOK
    <3>2. \/ UNCHANGED rows
          \/ CanClaim(row, dto) /\ SetRow(sched.id, Claimed(row, tail))
      BY <1>7 DEF SchedClaim
    <3> QED BY <3>1, <3>2
  <2>2. tail \in MsgIds \cup {0}
    BY <1>1, <2>1, TailTyped
  <2>3. Claimed(row, tail) \in Row
    BY <1>1, <2>1, <2>2, ClaimTyped
  <2>4. CanClaim(row, dto) => Settled(row, Claimed(row, tail))
    BY <2>1, <2>2 DEF CanClaim, Settled, StartsTurn
  <2> QED BY <1>2, <2>1, <2>3, <2>4 DEF OneWrite
<1>8. CASE SchedPosted
  <2>1. /\ sched.pc = "posting"
        /\ \/ UNCHANGED rows
           \/ SetRow(sched.id, RecoverAfterRejectedPrompt(row, dto))
           \/ SetRow(sched.id, PauseAfterUnknownPromptDelivery(row, dto))
    BY <1>8 DEF SchedPosted
  <2>2. /\ RecoverAfterRejectedPrompt(row, dto) \in Row
        /\ PauseAfterUnknownPromptDelivery(row, dto) \in Row
    BY <1>1, <2>1, RecoverTyped, TurnEndsTyped DEF TypeOK, TickTypeOK
  <2>3. RecoverAfterRejectedPrompt(row, dto) = row
        \/ Settled(row, RecoverAfterRejectedPrompt(row, dto))
    <3>1. \/ RecoverAfterRejectedPrompt(row, dto) = row
          \/ /\ RecoverAfterRejectedPrompt(row, dto) = RecoverAfterRejectedPrompt(row, row)
             /\ row.status = "running"
      <4>1. row \in Row /\ dto \in Row /\ Agrees(dto, row)
        BY <1>1, <2>1
      <4> HIDE DEF row, dto
      <4>2. RecoverAfterRejectedPrompt(row, dto) =
               IF SameTurn(row, dto) THEN RecoverAfterRejectedPrompt(row, row) ELSE row
        BY <4>1, CopyTakesBack
      <4>3. SameTurn(row, dto) => row.status = "running"
        BY DEF SameTurn
      <4> QED BY <4>2, <4>3
    <3> QED BY <3>1 DEF Settled, TakesBack
  <2>4. PauseAfterUnknownPromptDelivery(row, dto) = row
        \/ Settled(row, PauseAfterUnknownPromptDelivery(row, dto))
    BY DEF PauseAfterUnknownPromptDelivery, SameTurn, Settled, GivesUp
  <2> QED BY <1>2, <2>1, <2>2, <2>3, <2>4 DEF OneWrite
<1>9. CASE SchedPostTimeout
  <2>1. /\ sched.pc = "posting"
        /\ SetRow(sched.id, PauseAfterUnknownPromptDelivery(row, dto))
    BY <1>9 DEF SchedPostTimeout
  <2>2. PauseAfterUnknownPromptDelivery(row, dto) \in Row
    BY <1>1, <2>1, TurnEndsTyped
  <2>3. PauseAfterUnknownPromptDelivery(row, dto) = row
        \/ Settled(row, PauseAfterUnknownPromptDelivery(row, dto))
    BY DEF PauseAfterUnknownPromptDelivery, SameTurn, Settled, GivesUp
  <2> QED BY <1>2, <2>1, <2>2, <2>3
<1>10. CASE TickStart \/ SchedStatus \/ SchedMessages \/ SchedReadFails \/ SchedCompacts
            \/ SchedCompactConflict \/ SchedSend
  BY <1>10 DEF OneWrite, TickStart, SchedStatus, SchedMessages, SchedReadFails, SchedCompacts,
               SchedCompactConflict, SchedSend
<1> QED BY <1>3, <1>4, <1>5, <1>6, <1>7, <1>8, <1>9, <1>10 DEF Scheduler

\* The writes of the API, but for a create's and a resume's.
LEMMA ApiWrites ==
    ASSUME TypeOK, OpenLoopIsLatest, Api, ~CreateCommit, ~ResumeCommit
    PROVE  OneWrite
<1>1. \A l \in LoopIds : rows[l] \in Row
  BY DEF TypeOK
<1>2. CASE Pause
  <2>1. PICK l \in LoopIds : rows[l].status \in Live /\ SetRow(l, PauseByUser(rows[l]))
    BY <1>2 DEF Pause
  <2>2. PauseByUser(rows[l]) \in Row
    BY <1>1, RequestsTyped
  <2> QED BY <2>1, <2>2 DEF OneWrite, Settled, IsInterrupted
<1>3. CASE Stop
  <2>1. PICK l \in LoopIds, dismiss \in BOOLEAN :
          /\ rows[l].status \notin Ended
          /\ SetRow(l, Stopped(rows[l], dismiss))
    BY <1>3 DEF Stop, IsLatest, Existing, Ended
  <2>2. Stopped(rows[l], dismiss) \in Row
    BY <1>1, RequestsTyped
  <2>3. rows[l].status \in Replaceable
    BY <1>1, <2>1 DEF Row, Replaceable, Statuses, Ended
  <2> QED BY <2>1, <2>2, <2>3 DEF OneWrite, Settled, IsStopped
<1>4. CASE Dismiss
  <2>1. PICK l \in LoopIds : /\ rows[l].status \in Terminal
                             /\ SetRow(l, [Bump(rows[l]) EXCEPT !.dismissed = TRUE])
    BY <1>4 DEF Dismiss
  <2>2. [Bump(rows[l]) EXCEPT !.dismissed = TRUE] \in Row
    BY <1>1, RequestsTyped
  <2>3. Settled(rows[l], [Bump(rows[l]) EXCEPT !.dismissed = TRUE])
    BY <2>1 DEF Settled, IsDismissed
  <2> QED BY <2>1, <2>2, <2>3 DEF OneWrite
<1>5. CASE UpdateMaxTurns
  <2>1. PICK l \in LoopIds, n \in TurnLimits :
          /\ rows[l].status = "paused"
          /\ SetRow(l, [Bump(rows[l]) EXCEPT !.maxTurns = n])
    BY <1>5 DEF UpdateMaxTurns
  <2>2. [Bump(rows[l]) EXCEPT !.maxTurns = n] \in Row
    BY <1>1, RequestsTyped
  <2>3. Settled(rows[l], [Bump(rows[l]) EXCEPT !.maxTurns = n])
    BY <2>1 DEF Settled, IsRebudgeted
  <2> QED BY <2>1, <2>2, <2>3 DEF OneWrite
<1>6. CASE ManualCommit
  <2>1. PICK c \in Clients : rows' = ManualPauses(op[c])
    BY <1>6 DEF ManualCommit
  <2> DEFINE T == ManualTargets(op[c])
             tail == ManualTail(op[c])
  <2>2. tail \in MsgIds \cup {0}
    <3>1. op[c] \in Ops
      BY DEF TypeOK, OpTypeOK
    <3> QED BY <3>1, TailTyped DEF ManualTail, Ops, Row
  <2>3. \A l \in T : l \in LoopIds /\ rows[l].status \in Live
    BY DEF ManualTargets
  <2>4. CASE T = {}
    <3>1. rows' = rows
      BY <2>1, <2>4 DEF ManualPauses, TypeOK
    <3> QED BY <3>1 DEF OneWrite
  <2>5. ASSUME NEW l \in T PROVE OneWrite
    <3>1. l \in LoopIds /\ rows[l].status \in Live
      BY <2>3, <2>5
    <3>2. \A k \in T : k = l
      <4> SUFFICES ASSUME NEW k \in T PROVE k = l
        OBVIOUS
      <4>1. k \in LoopIds /\ IsLatest(k) /\ IsLatest(l)
        BY <2>3, <3>1 DEF OpenLoopIsLatest
      <4>2. k <= l /\ l <= k
        BY <4>1 DEF IsLatest
      <4> QED BY <3>1, <4>1, <4>2, LoopIdsAssumption
    <3>3. PauseForManualSend(rows[l], tail) \in Row
      BY <1>1, <2>2, <3>1, RequestsTyped
    <3>4. SetRow(l, PauseForManualSend(rows[l], tail))
      <4> HIDE DEF T, tail
      <4> QED BY <2>1, <2>5, <3>1, <3>2 DEF ManualPauses, SetRow, TypeOK, T, tail
    <3>5. Settled(rows[l], PauseForManualSend(rows[l], tail))
      BY <2>2, <3>1 DEF Settled, IsInterrupted
    <3> QED BY <3>1, <3>3, <3>4, <3>5 DEF OneWrite
  <2> QED BY <2>4, <2>5
<1>7. CASE ReadFirst \/ ManualSendNoLoop \/ CreateStart \/ OpReads \/ OpReadFails
           \/ AbortArrives \/ AbortLost \/ ForwardManual \/ Revert
  BY <1>7 DEF OneWrite, ReadFirst, ManualSendNoLoop, CreateStart, OpReads, OpReadFails,
              AbortArrives, AbortLost, ForwardManual, Revert
<1> QED BY <1>2, <1>3, <1>4, <1>5, <1>6, <1>7 DEF Api

\* The write of a resume.
ResumeWrites ==
    \E c \in Clients :
        /\ op[c].pc = "act" /\ op[c].req = "resume" /\ op[c].id \in LoopIds
        /\ op'[c].pc = "idle"
        /\ \/ UNCHANGED rows
           \/ \E new \in Row : IsResumed(rows[op[c].id], new) /\ SetRow(op[c].id, new)

\* What a resume writes is a resumed row.
LEMMA ResumeCommitWrites ==
    ASSUME TypeOK, CopiesAgree, ResumeCommit PROVE ResumeWrites
<1>1. PICK c \in Clients :
        /\ op[c].pc = "act" /\ op[c].req = "resume"
        /\ SetRow(op[c].id, IF op[c].readable
                            THEN ResumeRow(rows[op[c].id], op[c].dto, op[c].view)
                            ELSE ResumeUnreadable(rows[op[c].id], op[c].dto))
        /\ SetOp(c, NoOp)
  BY DEF ResumeCommit
<1> DEFINE l == op[c].id
           row == rows[l]
           dto == op[c].dto
           view == op[c].view
           new == IF op[c].readable THEN ResumeRow(row, dto, view)
                  ELSE ResumeUnreadable(row, dto)
<1>2. /\ l \in LoopIds /\ row \in Row /\ dto \in Row /\ view \in Seq(Message)
      /\ Agrees(dto, row)
  BY <1>1 DEF TypeOK, OpTypeOK, Ops, CopiesAgree
<1>3. op'[c].pc = "idle"
  BY <1>1 DEF SetOp, NoOp, TypeOK, OpTypeOK
<1>4. new \in Row
  BY <1>2, ResumeTyped
<1>5. new = row \/ IsResumed(row, new)
  <2>1. \/ ResumeRow(row, dto, view) = row
        \/ row.status = "paused" /\ ResumeRow(row, dto, view) = ResumeRow(row, row, view)
    <3> HIDE DEF row, dto, view
    <3> QED BY <1>2, CopyResumes
  <2>2. \/ ResumeUnreadable(row, dto) = row
        \/ row.status = "paused" /\ ResumeUnreadable(row, dto) = Bump(row)
    BY DEF ResumeUnreadable
  <2> HIDE DEF row, dto, view
  <2> QED BY <1>2, <2>1, <2>2 DEF IsResumed
<1>6. SetRow(l, new)
  BY <1>1
<1>7. UNCHANGED rows \/ (IsResumed(row, new) /\ SetRow(l, new))
  <2> HIDE DEF new
  <2> QED BY <1>2, <1>5, <1>6, SetSame
<1> QED
  <2> HIDE DEF new
  <2> QED BY <1>1, <1>2, <1>3, <1>4, <1>7 DEF ResumeWrites

\* Every step but the transaction of a create makes one write at most.
LEMMA NextWrites ==
    ASSUME TypeOK, OpenLoopIsLatest, CopiesAgree, [Next]_vars, ~CreateCommit
    PROVE  OneWrite \/ (ResumeCommit /\ ResumeWrites)
<1>1. CASE UNCHANGED vars
  BY <1>1 DEF vars, OneWrite
<1>2. CASE Engine \/ Crash
  BY <1>2 DEF OneWrite, Engine, EngineStep, EngineReply, EngineDropsTurn,
              EngineAnswersPost, EngineRefusesPost, LatePrompt, Crash
<1>3. CASE TurnTimeout
  <2>1. PICK l \in LoopIds : /\ rows[l].status = "running"
                             /\ SetRow(l, [rows[l] EXCEPT !.promptAt = "old"])
    BY <1>3 DEF TurnTimeout
  <2>2. [rows[l] EXCEPT !.promptAt = "old"] \in Row
    <3>1. rows[l] \in Row
      BY DEF TypeOK
    <3> QED BY <3>1 DEF Row
  <2>3. Settled(rows[l], [rows[l] EXCEPT !.promptAt = "old"])
    BY <2>1 DEF Settled, Ages
  <2> QED BY <2>1, <2>2, <2>3 DEF OneWrite
<1> QED BY <1>1, <1>2, <1>3, SchedulerWrites, ApiWrites, ResumeCommitWrites DEF Next

\* The same, row by row.
LEMMA RowsWritten ==
    ASSUME TypeOK, OpenLoopIsLatest, CopiesAgree, [Next]_vars, ~CreateCommit, NEW l \in LoopIds
    PROVE  \/ rows'[l] = rows[l]
           \/ rows'[l] \in Row /\ Write(rows[l], rows'[l])
<1>1. OneWrite \/ ResumeWrites
  BY NextWrites
<1>2. rows \in [LoopIds -> Row]
  BY DEF TypeOK
<1>3. ASSUME NEW k \in LoopIds, NEW new \in Row, SetRow(k, new)
      PROVE  rows'[l] = IF l = k THEN new ELSE rows[l]
  BY <1>2, <1>3 DEF SetRow
<1>4. CASE OneWrite
  BY <1>3, <1>4 DEF OneWrite, Write
<1>5. CASE ResumeWrites
  BY <1>3, <1>5 DEF ResumeWrites, Write
<1> QED BY <1>1, <1>4, <1>5

\* The transaction of a create, row by row.
LEMMA RowsReplaced ==
    ASSUME TypeOK, CreateCommit
    PROVE  \E n \in LoopIds :
              /\ n \notin Existing
              /\ \E readable \in BOOLEAN, tail \in MsgIds \cup {0}, max \in TurnLimits,
                    full \in FullRun : rows'[n] = NewRow(readable, tail, max, full)
              /\ \A k \in LoopIds \ {n} :
                    rows'[k] = IF rows[k].status \in Replaceable THEN Stopped(rows[k], FALSE)
                               ELSE rows[k]
<1>1. PICK c \in Clients, n \in LoopIds, max \in TurnLimits, full \in FullRun :
        /\ \A k \in Existing : k < n
        /\ Insert(n, NewRow(op[c].readable, LatestMessageId(op[c].view), max, full))
  BY DEF CreateCommit
<1>2. op[c].readable \in BOOLEAN /\ LatestMessageId(op[c].view) \in MsgIds \cup {0}
  <2>1. op[c] \in Ops
    BY DEF TypeOK, OpTypeOK
  <2> QED BY <2>1, TailTyped DEF Ops
<1>3. n \notin Existing
  <2>1. ~(n < n)
    BY LoopIdsAssumption
  <2> QED BY <1>1, <2>1
<1>4. rows'[n] = NewRow(op[c].readable, LatestMessageId(op[c].view), max, full)
  BY <1>1 DEF Insert
<1>5. \A k \in LoopIds \ {n} :
         rows'[k] = IF rows[k].status \in Replaceable THEN Stopped(rows[k], FALSE) ELSE rows[k]
  BY <1>1 DEF Insert
<1> QED BY <1>2, <1>3, <1>4, <1>5

-----------------------------------------------------------------------------
(* What the writes leave behind *)

\* A reply that is applied to a running row.
LEMMA AppliedFields ==
    ASSUME NEW row \in Row, NEW m \in Message, row.status = "running"
    PROVE  LET new == ApplyResult(row, row, m)
           IN  /\ new.status = IF ReachedTurnLimit(row, m) THEN "paused" ELSE NextStatus(row, m)
               /\ new.pauseReason = IF ReachedTurnLimit(row, m) THEN "turn_limit"
                                    ELSE IF NextStatus(row, m) = "paused"
                                    THEN "verification_rejected" ELSE ""
               /\ new.turnKind = NextTurnKind(row, m)
               /\ new.rejected = RejectedClaims(row, m)
               /\ new.progress = Append(row.progress,
                                        [m EXCEPT !.res = EffectiveResult(row, m)])
               /\ new.turnCount = row.turnCount /\ new.maxTurns = row.maxTurns
               /\ new.full = row.full /\ new.revision = row.revision + 1
               /\ new.boundary = m.id
<1>1. SameTurn(row, row)
  BY DEF SameTurn
<1>2. ReadUpTo(row, m) = m.id
  BY DEF ReadUpTo
<1>3. Bump(row) \in Row /\ Bump(row).revision = row.revision + 1
      /\ Bump(row).turnCount = row.turnCount /\ Bump(row).maxTurns = row.maxTurns
      /\ Bump(row).full = row.full
  BY BumpTyped DEF Bump, Row
<1> QED BY <1>1, <1>2, <1>3 DEF ApplyResult, Row

\* The row a resume applies a reply to.
Reopened(row) == [Bump(row) EXCEPT !.status = "running", !.pauseReason = ""]

\* The row a resume starts the next turn from.
Restarted(row, tail) ==
    [Bump(row) EXCEPT
        !.status = ResumeStatus(row), !.pauseReason = "",
        !.rejected = IF row.pauseReason = "verification_rejected" THEN 0 ELSE row.rejected,
        !.boundary = tail]

\* What a resume changes before it looks at a reply, and what it keeps.
LEMMA ReopenedFields ==
    ASSUME NEW row \in Row
    PROVE  /\ Reopened(row) \in Row
           /\ Reopened(row).status = "running"
           /\ Reopened(row).turnKind = row.turnKind /\ Reopened(row).full = row.full
           /\ Reopened(row).turnCount = row.turnCount /\ Reopened(row).maxTurns = row.maxTurns
           /\ Reopened(row).rejected = row.rejected /\ Reopened(row).progress = row.progress
           /\ Reopened(row).boundary = row.boundary
           /\ Reopened(row).revision = row.revision + 1
<1>1. Bump(row) \in Row
  BY BumpTyped
<1>2. Reopened(row) \in Row
  BY <1>1 DEF Reopened, Row, Statuses, Live, Reasons
<1> QED BY <1>2 DEF Reopened, Bump, Row

\* A resume applies a reply, or holds the loop, or starts its next turn.
LEMMA ResumeCases ==
    ASSUME NEW row \in Row, NEW new, IsResumed(row, new)
    PROVE  \/ /\ MayRecover(row)
              /\ \E m \in Message : m.res # "none" /\ new = ApplyResult(Reopened(row), Reopened(row), m)
           \/ new = Bump(row)
           \/ ~MustHold(row) /\ \E tail \in MsgIds \cup {0} : new = Restarted(row, tail)
<1>1. CASE new = Bump(row)
  BY <1>1
<1>2. ASSUME NEW view \in Seq(Message), new = ResumeRow(row, row, view)
      PROVE  \/ /\ MayRecover(row)
                /\ \E m \in Message : /\ m.res # "none"
                                      /\ new = ApplyResult(Reopened(row), Reopened(row), m)
             \/ new = Bump(row)
             \/ ~MustHold(row) /\ \E tail \in MsgIds \cup {0} : new = Restarted(row, tail)
  <2>1. row.status = "paused"
    BY DEF IsResumed
  <2>2. CASE MayRecover(row) /\ Recoverable(view, row.boundary) # {}
    <3> DEFINE m == Recovered(view, row.boundary)
    <3>1. m \in Message
      BY <2>2, RecoveredTyped
    <3>2. m.res # "none"
      <4>1. Recoverable(view, row.boundary) \in SUBSET (1 .. Len(view))
        BY LenProperties DEF Recoverable
      <4>2. Max(Recoverable(view, row.boundary)) \in Recoverable(view, row.boundary)
        BY <2>2, <4>1, LastPosition, LenProperties
      <4> QED BY <4>2 DEF Recovered, Recoverable
    <3>3. new = ApplyResult(Reopened(row), Reopened(row), m)
      BY <1>2, <2>1, <2>2 DEF ResumeRow, Reopened
    <3> HIDE DEF m
    <3> QED BY <2>2, <3>1, <3>2, <3>3
  <2>3. CASE ~(MayRecover(row) /\ Recoverable(view, row.boundary) # {}) /\ MustHold(row)
    BY <1>2, <2>1, <2>3 DEF ResumeRow
  <2>4. CASE ~(MayRecover(row) /\ Recoverable(view, row.boundary) # {}) /\ ~MustHold(row)
    <3>1. new = Restarted(row, LatestMessageId(view))
      BY <1>2, <2>1, <2>4 DEF ResumeRow, Restarted
    <3> QED BY <2>4, <3>1, TailTyped
  <2> QED BY <2>2, <2>3, <2>4
<1> QED BY <1>1, <1>2 DEF IsResumed

\* Every write moves the revision on, but for the passing of time, and no write
\* removes a row.
LEMMA WriteMovesOn ==
    ASSUME NEW row \in Row, NEW new \in Row, Write(row, new)
    PROVE  /\ row.status # "absent" /\ new.status # "absent"
           /\ new.revision > row.revision \/ new = [row EXCEPT !.promptAt = "old"]
<1> USE DEF Live, Terminal, Statuses
<1>0. /\ row.revision \in Nat /\ Bump(row).revision = row.revision + 1
      /\ Bump(row).status = row.status /\ Bump(row) \in Row
      /\ \A why : PauseRow(row, why).status = "paused"
                  /\ PauseRow(row, why).revision = row.revision + 1
  BY BumpTyped DEF Bump, PauseRow, Row
<1>1. ASSUME NEW r \in Row, NEW m \in Message, r.status = "running", new = ApplyResult(r, r, m)
      PROVE  new.revision = r.revision + 1 /\ new.status # "absent"
  <2>1. /\ new.revision = r.revision + 1
        /\ new.status = IF ReachedTurnLimit(r, m) THEN "paused" ELSE NextStatus(r, m)
    BY <1>1, AppliedFields
  <2>2. NextStatus(r, m) # "absent"
    BY DEF NextStatus
  <2> QED BY <2>1, <2>2
<1>2. CASE ReadsReply(row, new)
  <2>1. PICK m \in Message : new = ApplyResult(row, row, m) \/ new = ApplyUnreadable(row, row, m)
    BY <1>2 DEF ReadsReply
  <2>2. row.status = "running"
    BY <1>2 DEF ReadsReply
  <2>3. CASE new = ApplyResult(row, row, m)
    BY <1>0, <1>1, <2>2, <2>3
  <2>4. CASE new = ApplyUnreadable(row, row, m)
    BY <1>0, <2>2, <2>4 DEF ApplyUnreadable, SameTurn, PauseRow, Bump, Row
  <2> QED BY <2>1, <2>3, <2>4
<1>3. CASE GivesUp(row, new) \/ SpendsBudget(row, new)
  BY <1>0, <1>3 DEF GivesUp, SpendsBudget, OutOfTurns
<1>4. CASE TakesBack(row, new)
  <2>1. row.status = "running" /\ SameTurn(row, row)
    BY <1>4 DEF TakesBack, SameTurn
  <2>2. \/ new = [Bump(row) EXCEPT !.status = "verifying_completed", !.promptAt = "null"]
        \/ new = [Bump(row) EXCEPT !.status = "queued", !.promptAt = "null",
                                   !.turnCount = row.turnCount - 1]
    BY <1>4, <2>1 DEF TakesBack, RecoverAfterRejectedPrompt
  <2>3. new.revision = Bump(row).revision /\ new.status \in {"verifying_completed", "queued"}
    BY <1>0, <2>2 DEF Row
  <2> QED BY <1>0, <2>1, <2>3
<1>5. CASE Ages(row, new)
  BY <1>5 DEF Ages, Row
<1>6. CASE StartsTurn(row, new)
  BY <1>0, <1>6 DEF StartsTurn, Claimed, Bump, Row
<1>7. CASE IsInterrupted(row, new)
  <2>1. row.status \in Live
    BY <1>7 DEF IsInterrupted
  <2>2. \/ \E why : new = PauseRow(row, why)
        \/ \E why, kind : new = [PauseRow(row, why) EXCEPT !.turnKind = kind]
        \/ \E why, kind, tail :
              new = [PauseRow(row, why) EXCEPT !.turnKind = kind, !.boundary = tail]
    BY <1>7 DEF IsInterrupted, PauseByUser, PauseForManualSend
  <2>3. new.status = "paused" /\ new.revision = row.revision + 1
    BY <2>2 DEF PauseRow, Bump, Row
  <2> QED BY <1>0, <2>1, <2>3
<1>8. CASE IsStopped(row, new) \/ IsDismissed(row, new) \/ IsRebudgeted(row, new)
  <2>1. row.status # "absent"
    BY <1>8 DEF IsStopped, IsDismissed, IsRebudgeted, Replaceable
  <2>2. CASE IsStopped(row, new)
    <3>1. PICK dismiss \in BOOLEAN : new = Stopped(row, dismiss)
      BY <2>2 DEF IsStopped
    <3>2. new.revision = Bump(row).revision /\ new.status = "stopped"
      BY <1>0, <3>1 DEF Stopped, Row
    <3> QED BY <1>0, <2>1, <3>2
  <2>3. CASE IsDismissed(row, new)
    <3>1. new.revision = Bump(row).revision /\ new.status = row.status
      BY <1>0, <2>3 DEF IsDismissed, Row
    <3> QED BY <1>0, <2>1, <3>1
  <2>4. CASE IsRebudgeted(row, new)
    <3>1. new.revision = Bump(row).revision /\ new.status = row.status
      BY <1>0, <2>4 DEF IsRebudgeted, Row
    <3> QED BY <1>0, <2>1, <3>1
  <2> QED BY <1>8, <2>2, <2>3, <2>4
<1>9. CASE IsResumed(row, new)
  <2>1. row.status = "paused"
    BY <1>9 DEF IsResumed
  <2>2. \/ \E m \in Message : new = ApplyResult(Reopened(row), Reopened(row), m)
        \/ new = Bump(row)
        \/ \E tail \in MsgIds \cup {0} : new = Restarted(row, tail)
    BY <1>9, ResumeCases
  <2>3. ASSUME NEW m \in Message, new = ApplyResult(Reopened(row), Reopened(row), m)
        PROVE  new.revision > row.revision /\ new.status # "absent"
    BY <1>0, <1>1, <2>3, ReopenedFields
  <2>4. ASSUME NEW tail, new = Restarted(row, tail)
        PROVE  new.revision > row.revision /\ new.status # "absent"
    BY <1>0, <2>4 DEF Restarted, ResumeStatus, Bump, Row
  <2> QED BY <1>0, <2>1, <2>2, <2>3, <2>4
<1> QED BY <1>2, <1>3, <1>4, <1>5, <1>6, <1>7, <1>8, <1>9 DEF Write, Settled

-----------------------------------------------------------------------------
(* A copy of the row's revision is the row *)

\* A row is a copy of itself.
LEMMA CopyOfItself == ASSUME NEW row \in Row PROVE Agrees(row, row)
<1>1. row = [row EXCEPT !.promptAt = row.promptAt] /\ row.revision \in Nat
  BY DEF Row
<1> QED BY <1>1 DEF Agrees

\* A write outdates every copy, or leaves it a copy.
LEMMA CopyKept ==
    ASSUME NEW row \in Row, NEW dto \in Row, NEW new \in Row, Agrees(dto, row),
           new = row \/ Write(row, new)
    PROVE  Agrees(dto, new)
<1>0. dto.revision \in Nat /\ row.revision \in Nat /\ new.revision \in Nat
  BY DEF Row
<1>1. CASE new = row
  BY <1>1
<1>2. CASE new.revision > row.revision
  <2>1. dto.revision <= new.revision /\ dto.revision # new.revision
    BY <1>0, <1>2 DEF Agrees
  <2> QED BY <2>1 DEF Agrees
<1>3. CASE new = [row EXCEPT !.promptAt = "old"]
  <2>1. new.revision = row.revision
    BY <1>3 DEF Row
  <2>2. [new EXCEPT !.promptAt = dto.promptAt] = [row EXCEPT !.promptAt = dto.promptAt]
    BY <1>3 DEF Row
  <2> QED BY <2>1, <2>2 DEF Agrees
<1> QED BY <1>1, <1>2, <1>3, WriteMovesOn

\* A row that exists is left alone or written, by a create too.
LEMMA ExistingWritten ==
    ASSUME TypeOK, OpenLoopIsLatest, CopiesAgree, [Next]_vars, NEW l \in Existing
    PROVE  /\ l \in Existing'
           /\ \/ rows'[l] = rows[l]
              \/ rows'[l] \in Row /\ Write(rows[l], rows'[l])
<1>1. l \in LoopIds /\ rows[l] \in Row /\ rows[l].status # "absent"
  BY DEF TypeOK, Existing
<1>2. CASE CreateCommit
  <2>1. PICK n \in LoopIds :
          /\ n \notin Existing
          /\ \A k \in LoopIds \ {n} :
                rows'[k] = IF rows[k].status \in Replaceable THEN Stopped(rows[k], FALSE)
                           ELSE rows[k]
    BY <1>2, RowsReplaced
  <2>2. rows'[l] = IF rows[l].status \in Replaceable THEN Stopped(rows[l], FALSE) ELSE rows[l]
    BY <1>1, <2>1
  <2>3. Stopped(rows[l], FALSE) \in Row
    BY <1>1, RequestsTyped
  <2>4. rows'[l] = rows[l] \/ (rows'[l] \in Row /\ Write(rows[l], rows'[l]))
    BY <2>2, <2>3 DEF Write, Settled, IsStopped
  <2>5. rows'[l].status # "absent"
    BY <1>1, <2>4, WriteMovesOn
  <2> QED BY <1>1, <2>4, <2>5 DEF Existing
<1>3. CASE ~CreateCommit
  <2>1. rows'[l] = rows[l] \/ (rows'[l] \in Row /\ Write(rows[l], rows'[l]))
    BY <1>1, <1>3, RowsWritten
  <2>2. rows'[l].status # "absent"
    BY <1>1, <2>1, WriteMovesOn
  <2> QED BY <1>1, <2>1, <2>2 DEF Existing
<1> QED BY <1>2, <1>3

\* The tick keeps its copy, takes a new one, or ends.
LEMMA TickCopies ==
    ASSUME TypeOK, [Next]_vars
    PROVE  \/ sched'.pc = "idle"
           \/ sched.pc # "idle" /\ sched'.id = sched.id /\ sched'.dto = sched.dto
           \/ sched'.id \in Existing' /\ sched'.dto = rows'[sched'.id]
<1>1. sched \in Ticks /\ (sched.pc # "idle" => sched.id \in LoopIds)
  BY DEF TypeOK, TickTypeOK
<1>2. ASSUME EndTick PROVE sched'.pc = "idle"
  BY <1>2 DEF EndTick, NoTick
<1>3. CASE TickStart
  <2>1. PICK l \in LoopIds :
          /\ rows[l].status \in Live
          /\ sched' = [NoTick EXCEPT !.pc = "listed", !.id = l, !.dto = rows[l]]
          /\ UNCHANGED rows
    BY <1>3 DEF TickStart
  <2>2. sched'.id = l /\ sched'.dto = rows'[l]
    BY <2>1 DEF NoTick
  <2>3. l \in Existing'
    BY <2>1 DEF Existing, Live
  <2> QED BY <2>2, <2>3
<1>4. CASE SchedClaim
  <2> DEFINE claimed == Claimed(rows[sched.id], LatestMessageId(sched.view))
  <2>1. CASE CanClaim(rows[sched.id], sched.dto)
    <3>1. SetRow(sched.id, claimed) /\ sched.id \in LoopIds
      BY <1>1, <1>4, <2>1 DEF SchedClaim, BetweenTurns
    <3>2. sched'.id = sched.id /\ sched'.dto = claimed
      BY <1>1, <1>4, <2>1 DEF SchedClaim, Ticks
    <3>3. claimed.status = "running"
      BY <3>1 DEF Claimed, Bump, TypeOK, Row
    <3> HIDE DEF claimed
    <3>4. rows'[sched.id] = claimed
      BY <3>1 DEF SetRow, TypeOK
    <3> QED BY <3>1, <3>2, <3>3, <3>4 DEF Existing
  <2>2. CASE ~CanClaim(rows[sched.id], sched.dto)
    BY <1>2, <1>4, <2>2 DEF SchedClaim
  <2> QED BY <2>1, <2>2
<1>5. CASE SchedReadFails \/ SchedulerError \/ SchedReadsReply \/ SchedTurnLimit
           \/ SchedCompactConflict \/ SchedPosted \/ SchedPostTimeout \/ Crash
  BY <1>2, <1>5 DEF SchedReadFails, SchedulerError, SchedReadsReply, SchedTurnLimit,
                    SchedCompactConflict, SchedPosted, SchedPostTimeout, Crash
<1>6. CASE SchedExpire \/ SchedStatus \/ SchedMessages \/ SchedCompacts \/ SchedSend
           \/ EngineAnswersPost \/ EngineRefusesPost
  <2>1. \/ EndTick
        \/ /\ sched.pc # "idle"
           /\ \/ \E pc : sched' = [sched EXCEPT !.pc = pc]
              \/ \E pc, view : sched' = [sched EXCEPT !.pc = pc, !.view = view]
              \/ \E pc, post : sched' = [sched EXCEPT !.pc = pc, !.post = post]
              \/ \E post : sched' = [sched EXCEPT !.post = post]
    BY <1>6 DEF SchedExpire, SchedStatus, SchedMessages, SchedCompacts, SchedSend,
                EngineAnswersPost, EngineRefusesPost, BetweenTurns
  <2> QED BY <1>1, <1>2, <2>1 DEF Ticks
<1>7. ASSUME UNCHANGED sched
      PROVE  \/ sched'.pc = "idle"
             \/ sched.pc # "idle" /\ sched'.id = sched.id /\ sched'.dto = sched.dto
  BY <1>7
<1>8. CASE UNCHANGED vars \/ EngineStep \/ EngineReply \/ EngineDropsTurn \/ LatePrompt
           \/ Api \/ TurnTimeout
  <2>1. CASE Api
    BY <2>1 DEF Api, Pause, Stop, Dismiss, UpdateMaxTurns, ReadFirst, ManualSendNoLoop,
                CreateStart, OpReads, OpReadFails, CreateCommit, ResumeCommit, ManualCommit,
                AbortArrives, AbortLost, ForwardManual, Revert
  <2>2. CASE UNCHANGED vars \/ EngineStep \/ EngineReply \/ EngineDropsTurn \/ LatePrompt
             \/ TurnTimeout
    BY <2>2 DEF vars, EngineStep, EngineReply, EngineDropsTurn, LatePrompt, TurnTimeout
  <2> QED BY <1>8, <2>1, <2>2
<1> QED BY <1>3, <1>4, <1>5, <1>6, <1>8 DEF Next, Engine, Scheduler

\* A request that works on a copy.
Works(o) == o.req \in {"resume", "manual"} /\ o.pc \in {"read", "act"}

\* A request keeps its copy, takes a new one, or is done with it.
LEMMA OpCopies ==
    ASSUME TypeOK, [Next]_vars, NEW c \in Clients, Works(op'[c])
    PROVE  \/ Works(op[c]) /\ op'[c].id = op[c].id /\ op'[c].dto = op[c].dto
           \/ op'[c].id \in Existing' /\ op'[c].dto = rows'[op'[c].id]
<1>0. op \in [Clients -> Ops]
  BY DEF TypeOK, OpTypeOK
<1>1. ASSUME NEW d \in Clients, NEW rec, SetOp(d, rec)
      PROVE  op'[c] = IF c = d THEN rec ELSE op[c]
  BY <1>0, <1>1 DEF SetOp
<1>2. ~Works(NoOp)
  BY DEF Works, NoOp
<1>3. ASSUME UNCHANGED op
      PROVE  Works(op[c]) /\ op'[c].id = op[c].id /\ op'[c].dto = op[c].dto
  BY <1>3
<1>4. ASSUME NEW d \in Clients, NEW rec, SetOp(d, rec), ~Works(rec)
      PROVE  Works(op[c]) /\ op'[c].id = op[c].id /\ op'[c].dto = op[c].dto
  BY <1>1, <1>4
<1>5. ASSUME NEW d \in Clients, NEW needed, NEW req, AbortNext(d, req, needed)
      PROVE  Works(op[c]) /\ op'[c].id = op[c].id /\ op'[c].dto = op[c].dto
  <2>1. PICK rec : SetOp(d, rec) /\ ~Works(rec)
    BY <1>2, <1>5 DEF AbortNext, NoOp, Works
  <2> QED BY <1>4, <2>1
<1>6. CASE ReadFirst
  <2>1. PICK d \in Clients, l \in LoopIds :
          /\ l \in Existing
          /\ \E req : SetOp(d, [NoOp EXCEPT !.pc = "read", !.req = req,
                                            !.id = l, !.dto = rows[l]])
          /\ UNCHANGED rows
    BY <1>6 DEF ReadFirst, IsLatest
  <2>2. PICK req : SetOp(d, [NoOp EXCEPT !.pc = "read", !.req = req,
                                         !.id = l, !.dto = rows[l]])
    BY <2>1
  <2> DEFINE rec == [NoOp EXCEPT !.pc = "read", !.req = req, !.id = l, !.dto = rows[l]]
  <2>3. rec.id = l /\ rec.dto = rows[l]
    BY DEF NoOp
  <2>4. op'[c] = IF c = d THEN rec ELSE op[c]
    BY <1>1, <2>2
  <2>5. l \in Existing'
    BY <2>1 DEF Existing
  <2> HIDE DEF rec
  <2> QED BY <2>1, <2>3, <2>4, <2>5
<1>7. CASE OpReads \/ OpReadFails
  <2>1. PICK e \in Clients :
          /\ op[e].pc = "read"
          /\ \/ SetOp(e, [op[e] EXCEPT !.pc = "act", !.view = transcript])
             \/ SetOp(e, [op[e] EXCEPT !.pc = "act", !.readable = FALSE])
    BY <1>7 DEF OpReads, OpReadFails
  <2>2. CASE c # e
    <3>1. op'[c] = op[c]
      BY <1>1, <2>1, <2>2
    <3> QED BY <3>1
  <2>3. CASE c = e
    <3>1. \/ op'[c] = [op[c] EXCEPT !.pc = "act", !.view = transcript]
          \/ op'[c] = [op[c] EXCEPT !.pc = "act", !.readable = FALSE]
      BY <1>1, <2>1, <2>3
    <3>2. op[c] \in Ops
      BY <1>0
    <3> QED BY <2>1, <2>3, <3>1, <3>2 DEF Ops, Works
  <2> QED BY <2>2, <2>3
<1>8. CASE Pause \/ Stop \/ CreateCommit
  BY <1>5, <1>8 DEF Pause, Stop, CreateCommit
<1>9. CASE ManualSendNoLoop
  <2>1. ~Works([NoOp EXCEPT !.pc = "forward", !.req = "manual"])
    BY DEF NoOp, Works
  <2> QED BY <1>4, <1>9, <2>1 DEF ManualSendNoLoop
<1>10. CASE CreateStart
  <2>1. ~Works([NoOp EXCEPT !.pc = "read", !.req = "create"])
    BY DEF NoOp, Works
  <2> QED BY <1>4, <1>10, <2>1 DEF CreateStart
<1>11. CASE ResumeCommit \/ ForwardManual
  BY <1>2, <1>4, <1>11 DEF ResumeCommit, ForwardManual
<1>12. CASE ManualCommit
  <2>1. PICK d \in Clients :
          \/ SetOp(d, NoOp)
          \/ \E pc \in {"abort", "forward"} :
                SetOp(d, [NoOp EXCEPT !.req = "manual", !.pc = pc])
    BY <1>12 DEF ManualCommit
  <2>2. \A pc \in {"abort", "forward"} : ~Works([NoOp EXCEPT !.req = "manual", !.pc = pc])
    BY DEF NoOp, Works
  <2> QED BY <1>2, <1>4, <2>1, <2>2
<1>13. CASE AbortArrives \/ AbortLost
  <2>1. PICK d \in Clients : AfterAbort(d)
    BY <1>13 DEF AbortArrives, AbortLost
  <2>2. op[d] \in Ops
    BY <1>0
  <2>3. ~Works([op[d] EXCEPT !.pc = "forward"])
    BY <2>2 DEF Ops, Works
  <2> QED BY <1>2, <1>4, <2>1, <2>3 DEF AfterAbort
<1>14. CASE Crash
  BY <1>2, <1>14 DEF Crash
<1>15. CASE UNCHANGED vars \/ Dismiss \/ UpdateMaxTurns \/ Revert \/ TurnTimeout
  BY <1>3, <1>15 DEF vars, Dismiss, UpdateMaxTurns, Revert, TurnTimeout
<1>16. CASE Engine
  BY <1>3, <1>16 DEF Engine, EngineStep, EngineReply, EngineDropsTurn, EngineAnswersPost,
                     EngineRefusesPost, LatePrompt
<1>17. CASE Scheduler
  BY <1>3, <1>17 DEF Scheduler, TickStart, SchedExpire, SchedStatus, SchedMessages,
                     SchedReadFails, SchedulerError, SchedReadsReply, SchedTurnLimit,
                     SchedCompacts, SchedCompactConflict, SchedClaim, SchedSend, SchedPosted,
                     SchedPostTimeout
<1> QED BY <1>6, <1>7, <1>8, <1>9, <1>10, <1>11, <1>12, <1>13, <1>14, <1>15, <1>16, <1>17
        DEF Next, Api

\* The copies are copies of rows that exist, and agree with them.
Copies == CopiesAgree /\ HeldExist

\* Every step keeps the copies copies.
LEMMA CopiesStep ==
    ASSUME TypeOK, TypeOK', OpenLoopIsLatest, Copies, [Next]_vars
    PROVE  Copies'
<1>1. \A l \in Existing : /\ l \in Existing'
                          /\ \/ rows'[l] = rows[l]
                             \/ rows'[l] \in Row /\ Write(rows[l], rows'[l])
  BY ExistingWritten DEF Copies
<1>2. ASSUME NEW l \in Existing, NEW dto \in Row, Agrees(dto, rows[l])
      PROVE  Agrees(dto, rows'[l])
  <2>1. rows[l] \in Row /\ rows'[l] \in Row
    BY <1>1 DEF TypeOK, Existing
  <2> QED BY <1>1, <1>2, <2>1, CopyKept
<1>3. ASSUME NEW l \in Existing' PROVE Agrees(rows'[l], rows'[l])
  <2>1. rows'[l] \in Row
    BY DEF TypeOK, Existing
  <2> QED BY <2>1, CopyOfItself
<1>4. ASSUME sched'.pc # "idle"
      PROVE  sched'.id \in Existing' /\ Agrees(sched'.dto, rows'[sched'.id])
  <2>1. CASE sched.pc # "idle" /\ sched'.id = sched.id /\ sched'.dto = sched.dto
    <3>1. sched.dto \in Row /\ sched.id \in Existing /\ Agrees(sched.dto, rows[sched.id])
      BY <2>1 DEF TypeOK, TickTypeOK, Ticks, Copies, CopiesAgree, HeldExist
    <3> QED BY <1>1, <1>2, <2>1, <3>1
  <2>2. CASE sched'.id \in Existing' /\ sched'.dto = rows'[sched'.id]
    BY <1>3, <2>2
  <2> QED BY <1>4, <2>1, <2>2, TickCopies
<1>5. ASSUME NEW c \in Clients, Works(op'[c])
      PROVE  op'[c].id \in Existing' /\ Agrees(op'[c].dto, rows'[op'[c].id])
  <2>1. CASE Works(op[c]) /\ op'[c].id = op[c].id /\ op'[c].dto = op[c].dto
    <3>1. op[c].dto \in Row
      BY DEF TypeOK, OpTypeOK, Ops
    <3>2. op[c].id \in Existing /\ Agrees(op[c].dto, rows[op[c].id])
      BY <2>1 DEF Works, Copies, CopiesAgree, HeldExist
    <3> QED BY <1>1, <1>2, <2>1, <3>1, <3>2
  <2>2. CASE op'[c].id \in Existing' /\ op'[c].dto = rows'[op'[c].id]
    BY <1>3, <2>2
  <2> QED BY <1>5, <2>1, <2>2, OpCopies
<1>6. CopiesAgree'
  BY <1>4, <1>5 DEF CopiesAgree, Works
<1>7. HeldExist'
  BY <1>4, <1>5 DEF HeldExist, Works
<1> QED BY <1>6, <1>7 DEF Copies

\* At any time every copy that is held is one of a row that exists, and agrees
\* with it.
THEOREM CopiesHold == Spec => []Copies
<1>1. Init => Copies
  BY DEF Init, NoTick, NoOp, Copies, CopiesAgree, HeldExist
<1>2. TypeOK /\ TypeOK' /\ OpenLoopIsLatest /\ Copies /\ [Next]_vars => Copies'
  BY CopiesStep
<1> QED BY <1>1, <1>2, TypeCorrect, OneOpenLoop, PTL DEF Spec

\* Every compare-and-set on the revision is one on the whole row: a tick or a
\* request whose copy still has the row's revision has the row, but for the age of
\* its turn.
THEOREM CopiesAreRows == Spec => []CopiesAgree
<1>1. Copies => CopiesAgree
  BY DEF Copies
<1> QED BY <1>1, CopiesHold, PTL

-----------------------------------------------------------------------------
(* What each write does to the fields *)

\* What the writes that are no reply leave alone.
SameWork(row, new) ==
    /\ new.turnKind = row.turnKind /\ new.turnCount = row.turnCount
    /\ new.maxTurns = row.maxTurns /\ new.rejected = row.rejected
    /\ new.full = row.full /\ new.progress = row.progress

\* A reply is judged by the row's turn kind and stored.
Answered(row, new) ==
    /\ row.status = "running" \/ (row.status = "paused" /\ MayRecover(row))
    /\ \E m \in Message :
          /\ m.res # "none"
          /\ new.status = IF ReachedTurnLimit(row, m) THEN "paused" ELSE NextStatus(row, m)
          /\ new.pauseReason = IF ReachedTurnLimit(row, m) THEN "turn_limit"
                               ELSE IF NextStatus(row, m) = "paused"
                               THEN "verification_rejected" ELSE ""
          /\ new.turnKind = NextTurnKind(row, m)
          /\ new.rejected = RejectedClaims(row, m)
          /\ new.progress = Append(row.progress, [m EXCEPT !.res = EffectiveResult(row, m)])
    /\ new.turnCount = row.turnCount /\ new.maxTurns = row.maxTurns /\ new.full = row.full

Parked(row, new, why) ==
    new.status = "paused" /\ new.pauseReason = why /\ SameWork(row, new)

Failed(row, new) ==
    /\ row.status = "running"
    /\ \E why \in {"unreadable_result", "turn_timeout", "unknown_delivery", "boundary_lost"} :
          Parked(row, new, why)

TookBack(row, new) ==
    /\ row.status = "running" /\ new.pauseReason = row.pauseReason
    /\ \/ /\ row.turnKind = "verification" /\ new.status = "verifying_completed"
          /\ SameWork(row, new)
       \/ /\ row.turnKind = "goal" /\ new.status = "queued"
          /\ new.turnKind = "goal" /\ new.turnCount = row.turnCount - 1
          /\ new.maxTurns = row.maxTurns /\ new.rejected = row.rejected
          /\ new.full = row.full /\ new.progress = row.progress

LeftAlone(row, new) ==
    new.status = row.status /\ new.pauseReason = row.pauseReason /\ SameWork(row, new)

Started(row, new) ==
    /\ new.status = "running" /\ new.pauseReason = row.pauseReason
    /\ new.maxTurns = row.maxTurns /\ new.rejected = row.rejected
    /\ new.full = row.full /\ new.progress = row.progress
    /\ \/ /\ row.status = "queued" /\ row.turnCount < row.maxTurns
          /\ new.turnKind = "goal" /\ new.turnCount = row.turnCount + 1
       \/ /\ row.status = "verifying_completed"
          /\ new.turnKind = "verification" /\ new.turnCount = row.turnCount

OutOfBudget(row, new) == OutOfTurns(row) /\ Parked(row, new, "turn_limit")

Interrupted(row, new) ==
    /\ row.status \in Live
    /\ \/ Parked(row, new, "scheduler_error")
       \/ /\ new.status = "paused" /\ new.pauseReason \in {"user", "manual_send"}
          /\ new.turnKind = ParkedKind(row) /\ new.turnCount = row.turnCount
          /\ new.maxTurns = row.maxTurns /\ new.rejected = row.rejected
          /\ new.full = row.full /\ new.progress = row.progress

WasStopped(row, new) ==
    /\ row.status \in Replaceable
    /\ new.status = "stopped" /\ new.pauseReason = row.pauseReason /\ SameWork(row, new)

Rebudgeted(row, new) ==
    /\ row.status = "paused" /\ new.status = "paused" /\ new.pauseReason = row.pauseReason
    /\ new.maxTurns \in TurnLimits
    /\ new.turnKind = row.turnKind /\ new.turnCount = row.turnCount
    /\ new.rejected = row.rejected /\ new.full = row.full /\ new.progress = row.progress

StartedAgain(row, new) ==
    /\ row.status = "paused" /\ ~MustHold(row)
    /\ new.status = ResumeStatus(row) /\ new.pauseReason = ""
    /\ new.rejected = IF row.pauseReason = "verification_rejected" THEN 0 ELSE row.rejected
    /\ new.turnKind = row.turnKind /\ new.turnCount = row.turnCount
    /\ new.maxTurns = row.maxTurns /\ new.full = row.full /\ new.progress = row.progress

Effect(row, new) ==
    \/ Answered(row, new) \/ Failed(row, new) \/ TookBack(row, new) \/ LeftAlone(row, new)
    \/ Started(row, new) \/ OutOfBudget(row, new) \/ Interrupted(row, new)
    \/ WasStopped(row, new) \/ Rebudgeted(row, new) \/ StartedAgain(row, new)

\* A pause changes the status and its reason.
LEMMA PauseFields ==
    ASSUME NEW row \in Row, NEW why
    PROVE  Parked(row, PauseRow(row, why), why)
BY DEF Parked, SameWork, PauseRow, Bump, Row

\* The revision alone changes nothing else.
LEMMA BumpFields == ASSUME NEW row \in Row PROVE LeftAlone(row, Bump(row))
BY DEF LeftAlone, SameWork, Bump, Row

\* Each write has the effect its name says, on every field but the boundary, the
\* age, the panel and the revision.
LEMMA WriteEffect ==
    ASSUME NEW row \in Row, NEW new \in Row, Write(row, new)
    PROVE  Effect(row, new)
<1>1. CASE ReadsReply(row, new)
  <2>1. PICK m \in Message : \/ m.res # "none" /\ new = ApplyResult(row, row, m)
                             \/ new = ApplyUnreadable(row, row, m)
    BY <1>1 DEF ReadsReply
  <2>2. row.status = "running"
    BY <1>1 DEF ReadsReply
  <2>3. CASE m.res # "none" /\ new = ApplyResult(row, row, m)
    BY <2>2, <2>3, AppliedFields DEF Effect, Answered
  <2>4. CASE new = ApplyUnreadable(row, row, m)
    <3>1. new = [PauseRow(row, "unreadable_result") EXCEPT !.boundary = m.id]
      BY <2>2, <2>4 DEF ApplyUnreadable, SameTurn
    <3>2. Parked(row, new, "unreadable_result")
      BY <3>1 DEF Parked, SameWork, PauseRow, Bump, Row
    <3> QED BY <2>2, <3>2 DEF Effect, Failed
  <2> QED BY <2>1, <2>3, <2>4
<1>2. CASE GivesUp(row, new)
  BY <1>2, PauseFields DEF GivesUp, Effect, Failed
<1>3. CASE TakesBack(row, new)
  <2>1. row.status = "running" /\ SameTurn(row, row) /\ row.turnKind \in Kinds
    BY <1>3 DEF TakesBack, SameTurn, Row
  <2>2. CASE row.turnKind = "verification"
    <3>1. new = [Bump(row) EXCEPT !.status = "verifying_completed", !.promptAt = "null"]
      BY <1>3, <2>1, <2>2 DEF TakesBack, RecoverAfterRejectedPrompt
    <3>2. new.pauseReason = row.pauseReason /\ new.status = "verifying_completed"
          /\ SameWork(row, new)
      BY <3>1 DEF SameWork, Bump, Row
    <3> QED BY <2>1, <2>2, <3>2 DEF Effect, TookBack
  <2>3. CASE row.turnKind = "goal"
    <3>1. new = [Bump(row) EXCEPT !.status = "queued", !.promptAt = "null",
                                  !.turnCount = row.turnCount - 1]
      BY <1>3, <2>1, <2>3 DEF TakesBack, RecoverAfterRejectedPrompt
    <3>2. /\ new.pauseReason = row.pauseReason /\ new.status = "queued"
          /\ new.turnKind = "goal" /\ new.turnCount = row.turnCount - 1
          /\ new.maxTurns = row.maxTurns /\ new.rejected = row.rejected
          /\ new.full = row.full /\ new.progress = row.progress
      BY <2>3, <3>1 DEF Bump, Row
    <3> QED BY <2>1, <2>3, <3>2 DEF Effect, TookBack
  <2> QED BY <2>1, <2>2, <2>3 DEF Kinds
<1>4. CASE Ages(row, new)
  <2>1. LeftAlone(row, new)
    BY <1>4 DEF Ages, LeftAlone, SameWork, Row
  <2> QED BY <2>1 DEF Effect
<1>5. CASE StartsTurn(row, new)
  <2>1. PICK tail \in MsgIds \cup {0} : new = Claimed(row, tail)
    BY <1>5 DEF StartsTurn
  <2>2. /\ new.status = "running" /\ new.pauseReason = row.pauseReason
        /\ new.maxTurns = row.maxTurns /\ new.rejected = row.rejected
        /\ new.full = row.full /\ new.progress = row.progress
        /\ new.turnKind = IF row.status = "queued" THEN "goal" ELSE "verification"
        /\ new.turnCount = IF row.status = "queued" THEN row.turnCount + 1 ELSE row.turnCount
    BY <2>1 DEF Claimed, TurnsAfterClaim, Bump, Row
  <2>3. row.status \in {"queued", "verifying_completed"}
        /\ (row.status = "queued" => row.turnCount < row.maxTurns)
    BY <1>5 DEF StartsTurn
  <2> QED BY <2>2, <2>3 DEF Effect, Started
<1>6. CASE SpendsBudget(row, new)
  BY <1>6, PauseFields DEF SpendsBudget, Effect, OutOfBudget
<1>7. CASE IsInterrupted(row, new)
  <2>1. row.status \in Live
    BY <1>7 DEF IsInterrupted
  <2>2. CASE new = PauseRow(row, "scheduler_error")
    BY <2>1, <2>2, PauseFields DEF Effect, Interrupted
  <2>3. CASE new # PauseRow(row, "scheduler_error")
    <3>1. \/ new = [PauseRow(row, "user") EXCEPT !.turnKind = ParkedKind(row)]
          \/ \E tail : new = [PauseRow(row, "manual_send") EXCEPT !.turnKind = ParkedKind(row),
                                                                  !.boundary = tail]
      BY <1>7, <2>3 DEF IsInterrupted, PauseByUser, PauseForManualSend
    <3>2. /\ new.status = "paused" /\ new.pauseReason \in {"user", "manual_send"}
          /\ new.turnKind = ParkedKind(row) /\ new.turnCount = row.turnCount
          /\ new.maxTurns = row.maxTurns /\ new.rejected = row.rejected
          /\ new.full = row.full /\ new.progress = row.progress
      BY <3>1 DEF PauseRow, Bump, Row
    <3> QED BY <2>1, <3>2 DEF Effect, Interrupted
  <2> QED BY <2>2, <2>3
<1>8. CASE IsStopped(row, new)
  <2>1. new.status = "stopped" /\ new.pauseReason = row.pauseReason /\ SameWork(row, new)
    BY <1>8 DEF IsStopped, Stopped, SameWork, Bump, Row
  <2> QED BY <1>8, <2>1 DEF IsStopped, Effect, WasStopped
<1>9. CASE IsDismissed(row, new)
  <2>1. LeftAlone(row, new)
    BY <1>9 DEF IsDismissed, LeftAlone, SameWork, Bump, Row
  <2> QED BY <2>1 DEF Effect
<1>10. CASE IsRebudgeted(row, new)
  <2>1. Rebudgeted(row, new)
    BY <1>10 DEF IsRebudgeted, Rebudgeted, Bump, Row
  <2> QED BY <2>1 DEF Effect
<1>11. CASE IsResumed(row, new)
  <2>1. row.status = "paused"
    BY <1>11 DEF IsResumed
  <2>2. CASE new = Bump(row)
    BY <2>2, BumpFields DEF Effect
  <2>3. ASSUME ~MustHold(row), NEW tail, new = Restarted(row, tail)
        PROVE  StartedAgain(row, new)
    BY <2>1, <2>3 DEF StartedAgain, Restarted, Bump, Row
  <2>4. ASSUME MayRecover(row), NEW m \in Message, m.res # "none",
               new = ApplyResult(Reopened(row), Reopened(row), m)
        PROVE  Answered(row, new)
    <3>1. /\ EffectiveResult(Reopened(row), m) = EffectiveResult(row, m)
          /\ NextStatus(Reopened(row), m) = NextStatus(row, m)
          /\ NextTurnKind(Reopened(row), m) = NextTurnKind(row, m)
          /\ RejectedClaims(Reopened(row), m) = RejectedClaims(row, m)
          /\ ReachedTurnLimit(Reopened(row), m) <=> ReachedTurnLimit(row, m)
      BY ReopenedFields, CopyJudges
    <3> DEFINE r == Reopened(row)
    <3>2. /\ r \in Row /\ r.status = "running" /\ r.progress = row.progress
          /\ r.turnCount = row.turnCount /\ r.maxTurns = row.maxTurns /\ r.full = row.full
      BY ReopenedFields
    <3> HIDE DEF r
    <3>3. /\ new.status = IF ReachedTurnLimit(r, m) THEN "paused" ELSE NextStatus(r, m)
          /\ new.pauseReason = IF ReachedTurnLimit(r, m) THEN "turn_limit"
                               ELSE IF NextStatus(r, m) = "paused"
                               THEN "verification_rejected" ELSE ""
          /\ new.turnKind = NextTurnKind(r, m) /\ new.rejected = RejectedClaims(r, m)
          /\ new.progress = Append(r.progress, [m EXCEPT !.res = EffectiveResult(r, m)])
          /\ new.turnCount = r.turnCount /\ new.maxTurns = r.maxTurns /\ new.full = r.full
      BY <2>4, <3>2, AppliedFields DEF r
    <3>4. /\ EffectiveResult(r, m) = EffectiveResult(row, m)
          /\ NextStatus(r, m) = NextStatus(row, m)
          /\ NextTurnKind(r, m) = NextTurnKind(row, m)
          /\ RejectedClaims(r, m) = RejectedClaims(row, m)
          /\ ReachedTurnLimit(r, m) <=> ReachedTurnLimit(row, m)
      BY <3>1 DEF r
    <3> QED BY <2>1, <2>4, <3>2, <3>3, <3>4 DEF Answered
  <2> QED BY <1>11, <2>2, <2>3, <2>4, ResumeCases DEF Effect
<1> QED BY <1>1, <1>2, <1>3, <1>4, <1>5, <1>6, <1>7, <1>8, <1>9, <1>10, <1>11
        DEF Write, Settled

-----------------------------------------------------------------------------
(* The completion check *)

\* The turn kind of a row is the one its status asks for, and a row that waits
\* for a verification holds the claim to verify.
KindFits(row) ==
    /\ row.status = "queued" => row.turnKind = "goal"
    /\ row.status = "verifying_completed" => row.turnKind = "verification"

HoldsClaim(row) ==
    row.turnKind = "verification" =>
        row.progress # <<>> /\ row.progress[Len(row.progress)].res = "completed"

EndsVerified(row) ==
    row.status = "completed" =>
        LET p == row.progress
        IN  /\ Len(p) >= 2
            /\ p[Len(p)].res = "verified_completed"
            /\ p[Len(p) - 1].res = "completed"

RunsFull(row) == row.full => row.turnKind = "goal" /\ row.status # "completed"

\* A row that does not exist has never been written.
Unwritten(row) == row.status = "absent" => row = NoRow

SoundRow(row) == /\ KindFits(row) /\ HoldsClaim(row) /\ EndsVerified(row) /\ RunsFull(row)
                 /\ Unwritten(row)

\* What a reply can lead to.
LEMMA ReplyLeadsTo ==
    ASSUME NEW row \in Row, NEW m \in Message
    PROVE  /\ NextStatus(row, m) \in {"blocked", "completed", "paused", "verifying_completed",
                                      "queued"}
           /\ NextStatus(row, m) = "completed" =>
                 row.turnKind = "verification" /\ EffectiveResult(row, m) = "verified_completed"
           /\ NextStatus(row, m) = "verifying_completed" =>
                 EffectiveResult(row, m) = "completed" /\ (row.full => row.turnKind = "verification")
           /\ NextTurnKind(row, m) = IF NextStatus(row, m) = "verifying_completed"
                                     THEN "verification" ELSE "goal"
BY DEF NextStatus, NextTurnKind, EffectiveResult, IsVerificationReply

\* The reply that is stored is the last, and what was the last is the one before.
LEMMA StoredLast ==
    ASSUME NEW p \in Seq(Message), NEW m \in Message
    PROVE  LET q == Append(p, m)
           IN  /\ q # <<>> /\ Len(q) = Len(p) + 1 /\ q[Len(q)] = m
               /\ p # <<>> => Len(q) >= 2 /\ q[Len(q) - 1] = p[Len(p)]
<1>1. Len(p) \in Nat /\ (p # <<>> => Len(p) >= 1)
  BY LenProperties, EmptySeq
<1>2. Append(p, m) \in Seq(Message) /\ Len(Append(p, m)) = Len(p) + 1
      /\ Append(p, m)[Len(p) + 1] = m
      /\ \A i \in 1 .. Len(p) : Append(p, m)[i] = p[i]
  BY AppendProperties
<1> DEFINE q == Append(p, m)
<1>3. q # <<>>
  BY <1>1, <1>2, EmptySeq
<1> HIDE DEF q
<1>4. q # <<>> /\ Len(q) = Len(p) + 1 /\ q[Len(q)] = m
      /\ (Len(p) >= 1 => Len(q) >= 2 /\ q[Len(q) - 1] = p[Len(p)])
  BY <1>1, <1>2, <1>3 DEF q
<1> QED BY <1>1, <1>4 DEF q

\* Every write keeps a row sound.
LEMMA SoundWrite ==
    ASSUME NEW row \in Row, NEW new \in Row, Write(row, new), SoundRow(row)
    PROVE  SoundRow(new)
<1> DEFINE Rest(r) == KindFits(r) /\ HoldsClaim(r) /\ EndsVerified(r) /\ RunsFull(r)
<1> SUFFICES Rest(new)
  BY WriteMovesOn DEF SoundRow, Unwritten
<1>r. Rest(row)
  BY DEF SoundRow
<1>0. row.turnKind \in Kinds /\ new.turnKind \in Kinds /\ row.progress \in Seq(Message)
  BY DEF Row
<1>1. CASE Answered(row, new)
  <2>1. PICK m \in Message :
          /\ new.status = IF ReachedTurnLimit(row, m) THEN "paused" ELSE NextStatus(row, m)
          /\ new.turnKind = NextTurnKind(row, m)
          /\ new.progress = Append(row.progress, [m EXCEPT !.res = EffectiveResult(row, m)])
    BY <1>1 DEF Answered
  <2>2. new.full = row.full
    BY <1>1 DEF Answered
  <2> DEFINE stored == [m EXCEPT !.res = EffectiveResult(row, m)]
  <2>3. stored \in Message /\ stored.res = EffectiveResult(row, m)
    <3>1. EffectiveResult(row, m) \in Results \cup {"none"}
      BY DEF EffectiveResult, Message, Results
    <3> QED BY <3>1 DEF Message
  <2> HIDE DEF stored
  <2>4. /\ new.progress # <<>> /\ new.progress[Len(new.progress)] = stored
        /\ row.progress # <<>> => /\ Len(new.progress) >= 2
                                  /\ new.progress[Len(new.progress) - 1]
                                        = row.progress[Len(row.progress)]
    BY <1>0, <2>1, <2>3, StoredLast DEF stored
  <2>5. /\ new.status = "completed" => NextStatus(row, m) = "completed"
        /\ new.status = "queued" => NextStatus(row, m) = "queued"
        /\ new.status = "verifying_completed" => NextStatus(row, m) = "verifying_completed"
    BY <2>1
  <2>6. KindFits(new)
    BY <2>1, <2>5, ReplyLeadsTo DEF KindFits
  <2>7. HoldsClaim(new)
    BY <2>1, <2>3, <2>4, ReplyLeadsTo DEF HoldsClaim
  <2>8. EndsVerified(new)
    BY <1>r, <2>3, <2>4, <2>5, ReplyLeadsTo DEF EndsVerified, HoldsClaim
  <2>9. RunsFull(new)
    BY <1>r, <2>1, <2>2, <2>5, ReplyLeadsTo DEF RunsFull
  <2> QED BY <2>6, <2>7, <2>8, <2>9
<1>2. ASSUME NEW why, Parked(row, new, why) PROVE Rest(new)
  BY <1>r, <1>2 DEF Parked, SameWork, KindFits, HoldsClaim, EndsVerified, RunsFull
<1>3. CASE Failed(row, new) \/ OutOfBudget(row, new)
  BY <1>2, <1>3 DEF Failed, OutOfBudget
<1>4. CASE TookBack(row, new)
  BY <1>r, <1>4 DEF TookBack, SameWork, KindFits, HoldsClaim, EndsVerified, RunsFull
<1>5. CASE LeftAlone(row, new) \/ WasStopped(row, new)
  BY <1>r, <1>5 DEF LeftAlone, WasStopped, SameWork, KindFits, HoldsClaim, EndsVerified, RunsFull
<1>6. CASE Started(row, new)
  BY <1>r, <1>6 DEF Started, KindFits, HoldsClaim, EndsVerified, RunsFull
<1>7. CASE Interrupted(row, new)
  <2>1. ParkedKind(row) = row.turnKind
    BY <1>r DEF ParkedKind, KindFits
  <2>2. CASE Parked(row, new, "scheduler_error")
    BY <1>2, <2>2
  <2> QED BY <1>r, <1>7, <2>1, <2>2
          DEF Interrupted, KindFits, HoldsClaim, EndsVerified, RunsFull
<1>8. CASE Rebudgeted(row, new)
  BY <1>r, <1>8 DEF Rebudgeted, KindFits, HoldsClaim, EndsVerified, RunsFull
<1>9. CASE StartedAgain(row, new)
  BY <1>r, <1>0, <1>9 DEF StartedAgain, ResumeStatus, KindFits, HoldsClaim, EndsVerified, RunsFull, Kinds
<1> QED BY <1>1, <1>3, <1>4, <1>5, <1>6, <1>7, <1>8, <1>9, WriteEffect DEF Effect

\* A row that a create inserts is sound, and so is one that does not exist.
LEMMA SoundStart ==
    ASSUME NEW readable \in BOOLEAN, NEW tail, NEW max, NEW full
    PROVE  SoundRow(NoRow) /\ SoundRow(NewRow(readable, tail, max, full))
BY DEF SoundRow, KindFits, HoldsClaim, EndsVerified, RunsFull, Unwritten, NoRow, NewRow

Sound == \A l \in LoopIds : SoundRow(rows[l])

\* Every step keeps the rows sound.
LEMMA SoundStep ==
    ASSUME TypeOK, OpenLoopIsLatest, CopiesAgree, Sound, [Next]_vars
    PROVE  Sound'
<1> SUFFICES ASSUME NEW l \in LoopIds PROVE SoundRow(rows'[l])
  BY DEF Sound
<1>1. rows[l] \in Row /\ SoundRow(rows[l])
  BY DEF TypeOK, Sound
<1>2. CASE CreateCommit
  <2>1. PICK n \in LoopIds :
          /\ \E readable \in BOOLEAN, tail \in MsgIds \cup {0}, max \in TurnLimits,
                full \in FullRun : rows'[n] = NewRow(readable, tail, max, full)
          /\ \A k \in LoopIds \ {n} :
                rows'[k] = IF rows[k].status \in Replaceable THEN Stopped(rows[k], FALSE)
                           ELSE rows[k]
    BY <1>2, RowsReplaced
  <2>2. CASE l = n
    BY <2>1, <2>2, SoundStart
  <2>3. CASE l # n
    <3>1. rows'[l] = rows[l] \/ (rows[l].status \in Replaceable /\ rows'[l] = Stopped(rows[l], FALSE))
      BY <2>1, <2>3
    <3>2. Stopped(rows[l], FALSE) \in Row
      BY <1>1, RequestsTyped
    <3>3. rows[l].status \in Replaceable => Write(rows[l], Stopped(rows[l], FALSE))
      BY DEF Write, Settled, IsStopped
    <3> QED BY <1>1, <3>1, <3>2, <3>3, SoundWrite
  <2> QED BY <2>2, <2>3
<1>3. CASE ~CreateCommit
  BY <1>1, <1>3, RowsWritten, SoundWrite
<1> QED BY <1>2, <1>3

\* In every row the turn kind is the one its status asks for, a pending
\* verification has a claim, a completion has its two replies, and a full run has
\* neither.
THEOREM RowsAreSound == Spec => []Sound
<1>1. Init => Sound
  BY SoundStart DEF Init, Sound
<1>2. TypeOK /\ OpenLoopIsLatest /\ CopiesAgree /\ Sound /\ [Next]_vars => Sound'
  BY SoundStep
<1> QED BY <1>1, <1>2, TypeCorrect, OneOpenLoop, CopiesAreRows, PTL DEF Spec

\* A loop is completed by two replies, a claim and the answer to the verification
\* after it, whatever was paused, resumed, refused or lost in between.
THEOREM CompletedTwice == Spec => []CompletedOnlyVerified
<1>1. Sound => CompletedOnlyVerified
  BY DEF Sound, SoundRow, EndsVerified, CompletedOnlyVerified
<1> QED BY <1>1, RowsAreSound, PTL

\* No claim sends a full run to a verification or ends it.
THEOREM FullRunsOn == Spec => []FullRunIgnoresClaims
<1>1. Sound => FullRunIgnoresClaims
  BY DEF Sound, SoundRow, RunsFull, FullRunIgnoresClaims
<1> QED BY <1>1, RowsAreSound, PTL

-----------------------------------------------------------------------------
(* What no write may do *)

\* A reply is stored after those before it.
LEMMA AnsweredStores ==
    ASSUME NEW row \in Row, NEW new, Answered(row, new)
    PROVE  Len(new.progress) > Len(row.progress)
<1>1. PICK m \in Message :
        new.progress = Append(row.progress, [m EXCEPT !.res = EffectiveResult(row, m)])
  BY DEF Answered
<1>2. [m EXCEPT !.res = EffectiveResult(row, m)] \in Message
  <2>1. EffectiveResult(row, m) \in Results \cup {"none"}
    BY DEF EffectiveResult, Message, Results
  <2> QED BY <2>1 DEF Message
<1>3. Len(row.progress) \in Nat /\ Len(new.progress) = Len(row.progress) + 1
  BY <1>1, <1>2, AppendProperties, LenProperties DEF Row
<1> QED BY <1>3

\* A row that a create inserts has no claim, and a replaced one keeps its own.
LEMMA ReplacedKeeps ==
    ASSUME TypeOK, Sound, CreateCommit, NEW l \in LoopIds
    PROVE  \/ rows[l].status = "absent" /\ rows[l].turnKind = "goal"
           \/ /\ rows'[l].turnKind = rows[l].turnKind
              /\ rows'[l].status \in {rows[l].status, "stopped"}
              /\ rows'[l].pauseReason = rows[l].pauseReason
<1>1. PICK n \in LoopIds :
        /\ n \notin Existing
        /\ \A k \in LoopIds \ {n} :
              rows'[k] = IF rows[k].status \in Replaceable THEN Stopped(rows[k], FALSE)
                         ELSE rows[k]
  BY RowsReplaced
<1>2. CASE l = n
  <2>1. rows[l].status = "absent"
    BY <1>1, <1>2 DEF Existing
  <2>2. Unwritten(rows[l])
    BY DEF Sound, SoundRow
  <2>3. rows[l] = NoRow
    BY <2>1, <2>2 DEF Unwritten
  <2>4. NoRow.turnKind = "goal"
    BY DEF NoRow
  <2> QED BY <2>1, <2>3, <2>4
<1>3. CASE l # n
  <2>1. rows'[l] = rows[l] \/ rows'[l] = Stopped(rows[l], FALSE)
    BY <1>1, <1>3
  <2>2. rows[l] \in Row
    BY DEF TypeOK
  <2> QED BY <2>1, <2>2 DEF Stopped, Bump, Row
<1> QED BY <1>2, <1>3

\* A write that makes the next turn a goal turn has stored a reply.
LEMMA WriteKeepsClaim ==
    ASSUME NEW row \in Row, NEW new \in Row, Write(row, new), SoundRow(row),
           row.turnKind = "verification", new.turnKind = "goal"
    PROVE  Len(new.progress) > Len(row.progress)
<1>1. KindFits(row)
  BY DEF SoundRow
<1>2. ParkedKind(row) = row.turnKind
  BY <1>1 DEF ParkedKind, KindFits
<1>3. Answered(row, new)
  BY <1>1, <1>2, WriteEffect
  DEF Effect, Failed, TookBack, LeftAlone, Started, OutOfBudget, Interrupted, WasStopped,
      Rebudgeted, StartedAgain, Parked, SameWork, KindFits
<1> QED BY <1>3, AnsweredStores

\* A claim is not forgotten: whatever pauses, resumes, refuses or interrupts the
\* loop, its next turn is the verification until a reply to it is stored.
THEOREM ClaimsAreChecked == Spec => ClaimAwaitsCheck
<1> DEFINE Kept == \A l \in LoopIds :
                      rows[l].turnKind = "verification" /\ rows'[l].turnKind = "goal"
                      => ResultStored(l)
<1>1. TypeOK /\ OpenLoopIsLatest /\ CopiesAgree /\ Sound /\ [Next]_vars => [Kept]_vars
  <2> SUFFICES ASSUME TypeOK, OpenLoopIsLatest, CopiesAgree, Sound, [Next]_vars,
                      NEW l \in LoopIds, rows[l].turnKind = "verification",
                      rows'[l].turnKind = "goal"
               PROVE  ResultStored(l)
    OBVIOUS
  <2>1. rows[l] \in Row /\ SoundRow(rows[l])
    BY DEF TypeOK, Sound
  <2>2. CASE CreateCommit
    BY <2>2, ReplacedKeeps
  <2>3. CASE ~CreateCommit
    <3>1. rows'[l] \in Row /\ Write(rows[l], rows'[l])
      BY <2>3, RowsWritten
    <3> QED BY <2>1, <3>1, WriteKeepsClaim DEF ResultStored
  <2> QED BY <2>2, <2>3
<1> QED BY <1>1, TypeCorrect, OneOpenLoop, CopiesAreRows, RowsAreSound, PTL
        DEF Spec, ClaimAwaitsCheck

\* A write to a loop that waits for an unknown delivery stops it, stores the reply
\* or leaves it waiting.
LEMMA WriteHolds ==
    ASSUME NEW row \in Row, NEW new \in Row, Write(row, new),
           row.status = "paused", row.pauseReason = "unknown_delivery",
           new.status # "stopped", ~(Len(new.progress) > Len(row.progress))
    PROVE  new.status = "paused" /\ new.pauseReason = "unknown_delivery"
<1>1. ~Answered(row, new)
  BY AnsweredStores
<1>2. MustHold(row) /\ ~OutOfTurns(row)
  BY DEF MustHold, OutOfTurns
<1> QED BY <1>1, <1>2, WriteEffect
        DEF Effect, Failed, TookBack, LeftAlone, Started, OutOfBudget, Interrupted, WasStopped,
            Rebudgeted, StartedAgain, Live

\* A loop whose prompt may have been delivered is never prompted again before its
\* reply is found: no resume, refusal or late tick gets past the pause.
THEOREM UnknownDeliveryIsHeld == Spec => UnknownDeliveryHolds
<1> DEFINE Held == \A l \in LoopIds :
                      /\ rows[l].status = "paused" /\ rows[l].pauseReason = "unknown_delivery"
                      /\ rows'[l].status # "stopped"
                      /\ ~ResultStored(l)
                      => /\ rows'[l].status = "paused"
                         /\ rows'[l].pauseReason = "unknown_delivery"
<1>1. TypeOK /\ OpenLoopIsLatest /\ CopiesAgree /\ Sound /\ [Next]_vars => [Held]_vars
  <2> SUFFICES ASSUME TypeOK, OpenLoopIsLatest, CopiesAgree, Sound, [Next]_vars,
                      NEW l \in LoopIds,
                      rows[l].status = "paused", rows[l].pauseReason = "unknown_delivery",
                      rows'[l].status # "stopped", ~ResultStored(l)
               PROVE  rows'[l].status = "paused" /\ rows'[l].pauseReason = "unknown_delivery"
    OBVIOUS
  <2>1. rows[l] \in Row
    BY DEF TypeOK
  <2>2. CASE CreateCommit
    BY <2>2, ReplacedKeeps
  <2>3. CASE ~CreateCommit
    <3>1. rows'[l] = rows[l] \/ (rows'[l] \in Row /\ Write(rows[l], rows'[l]))
      BY <2>3, RowsWritten
    <3> QED BY <2>1, <3>1, WriteHolds DEF ResultStored
  <2> QED BY <2>2, <2>3
<1> QED BY <1>1, TypeCorrect, OneOpenLoop, CopiesAreRows, RowsAreSound, PTL
        DEF Spec, UnknownDeliveryHolds

\* A write that is not a resume's leaves a paused loop paused, or stops it.
LEMMA SettledStays ==
    ASSUME NEW row \in Row, NEW new, Settled(row, new), row.status = "paused"
    PROVE  new.status \in {"paused", "stopped"}
<1>1. IsStopped(row, new) \/ IsRebudgeted(row, new)
  BY DEF Settled, ReadsReply, GivesUp, TakesBack, Ages, StartsTurn, SpendsBudget, OutOfTurns,
         IsInterrupted, IsDismissed, Live, Terminal
<1> QED BY <1>1 DEF IsStopped, IsRebudgeted, Stopped, Bump, Row

\* A paused loop is brought back by a resume request for it, and by nothing that
\* was in flight when it was paused.
THEOREM ResumeRevives == Spec => OnlyResumeRevives
<1> DEFINE Revived == \A l \in LoopIds :
              rows[l].status = "paused" /\ rows'[l].status \notin {"paused", "stopped"} =>
                 \E c \in Clients : /\ op[c].pc = "act" /\ op[c].req = "resume"
                                    /\ op[c].id = l /\ op'[c].pc = "idle"
<1>1. TypeOK /\ OpenLoopIsLatest /\ CopiesAgree /\ Sound /\ [Next]_vars => [Revived]_vars
  <2> SUFFICES ASSUME TypeOK, OpenLoopIsLatest, CopiesAgree, Sound, [Next]_vars,
                      NEW l \in LoopIds, rows[l].status = "paused",
                      rows'[l].status \notin {"paused", "stopped"}
               PROVE  \E c \in Clients : /\ op[c].pc = "act" /\ op[c].req = "resume"
                                         /\ op[c].id = l /\ op'[c].pc = "idle"
    OBVIOUS
  <2>0. rows \in [LoopIds -> Row] /\ rows[l] \in Row
    BY DEF TypeOK
  <2>1. ASSUME NEW k \in LoopIds, NEW new \in Row, SetRow(k, new)
        PROVE  k = l /\ rows'[l] = new
    BY <2>0, <2>1 DEF SetRow
  <2>2. ~UNCHANGED rows
    OBVIOUS
  <2>3. ~CreateCommit
    BY ReplacedKeeps
  <2>4. ~OneWrite
    BY <2>0, <2>1, <2>2, SettledStays DEF OneWrite
  <2>5. ResumeWrites
    BY <2>3, <2>4, NextWrites
  <2> QED BY <2>1, <2>2, <2>5 DEF ResumeWrites
<1> QED BY <1>1, TypeCorrect, OneOpenLoop, CopiesAreRows, RowsAreSound, PTL
        DEF Spec, OnlyResumeRevives

-----------------------------------------------------------------------------
(* The loop keeps its transition table *)

\* What the table sees of the rows.
Shown == [l \in LoopIds |-> TableState(rows[l])]

\* A step that changes one row shows one change, or none.
TableStep == Table!Next \/ UNCHANGED Shown

\* What a reply makes of the status, the kind and the rejected claims, by the turn
\* it answers.
LEMMA ReplyToGoal ==
    ASSUME NEW row \in Row, NEW m \in Message, row.turnKind = "goal"
    PROVE  /\ RejectedClaims(row, m) = row.rejected
           /\ NextStatus(row, m) \in {"blocked", "verifying_completed", "queued"}
           /\ NextTurnKind(row, m) =
                 IF NextStatus(row, m) = "verifying_completed" THEN "verification" ELSE "goal"
<1>1. ~IsVerificationReply(row)
  BY DEF IsVerificationReply
<1>2. ~Rejects(row, m)
  BY <1>1 DEF Rejects
<1>3. RejectedClaims(row, m) = row.rejected
  BY <1>1, <1>2 DEF RejectedClaims
<1>4. NextStatus(row, m) \in {"blocked", "verifying_completed", "queued"}
  BY <1>1, <1>2 DEF NextStatus
<1> QED BY <1>3, <1>4 DEF NextTurnKind

\* A reply to a verification turn confirms the claim, rejects it or stops the loop.
LEMMA ReplyToVerification ==
    ASSUME NEW row \in Row, NEW m \in Message, row.turnKind = "verification"
    PROVE  /\ NextTurnKind(row, m) = "goal"
           /\ \/ NextStatus(row, m) = "completed" /\ RejectedClaims(row, m) = 0
              \/ NextStatus(row, m) = "blocked" /\ RejectedClaims(row, m) = row.rejected
              \/ /\ RejectedClaims(row, m) = row.rejected + 1
                 /\ NextStatus(row, m) = IF row.rejected + 1 >= MaxRejectedClaims THEN "paused"
                                         ELSE "queued"
<1>1. IsVerificationReply(row) /\ EffectiveResult(row, m) = m.res
  BY DEF IsVerificationReply, EffectiveResult
<1>2. CASE m.res = "verified_completed"
  <2>1. NextStatus(row, m) = "completed"
    BY <1>1, <1>2 DEF NextStatus, Rejects
  <2>2. RejectedClaims(row, m) = 0
    BY <1>1, <1>2 DEF RejectedClaims, Rejects
  <2> QED BY <2>1, <2>2 DEF NextTurnKind
<1>3. CASE m.res = "blocked"
  <2>1. NextStatus(row, m) = "blocked"
    BY <1>1, <1>3 DEF NextStatus, Rejects
  <2>2. RejectedClaims(row, m) = row.rejected
    BY <1>1, <1>3 DEF RejectedClaims, Rejects
  <2> QED BY <2>1, <2>2 DEF NextTurnKind
<1>4. CASE m.res \notin {"verified_completed", "blocked"}
  <2>1. Rejects(row, m)
    BY <1>1, <1>4 DEF Rejects
  <2>2. RejectedClaims(row, m) = row.rejected + 1
    BY <1>1, <1>4, <2>1 DEF RejectedClaims
  <2>3. NextStatus(row, m) = IF row.rejected + 1 >= MaxRejectedClaims THEN "paused" ELSE "queued"
    BY <1>1, <1>4, <2>1, <2>2 DEF NextStatus
  <2>4. NextTurnKind(row, m) = "goal"
    BY <2>3 DEF NextTurnKind
  <2> QED BY <2>2, <2>3, <2>4
<1> QED BY <1>2, <1>3, <1>4

\* The table lists the outcome of a reply, before the turn limit is looked at.
Candidates(s) ==
    IF s.kind = "goal" THEN {Table!Progressed(s), Table!Claimed(s), Table!Blocked(s)}
    ELSE {Table!Confirmed(s), Table!Blocked(s), Table!Rejected(s)}

Judged(row, status, kind, why, rejected) ==
    [status |-> status, kind |-> kind, reason |-> why,
     turns |-> row.turnCount, max |-> row.maxTurns, rejected |-> rejected]

Why(status) == IF status = "paused" THEN "verification_rejected" ELSE ""

\* Updates of a record of the table's.
Moved(s, status, kind, why) == [s EXCEPT !.status = status, !.kind = kind, !.reason = why]

Reset(s, status, kind, why, rejected) ==
    [s EXCEPT !.status = status, !.kind = kind, !.reason = why, !.rejected = rejected]

Counted(s, kind, rejected) == [s EXCEPT !.kind = kind, !.rejected = rejected]

Turned(s, status, why) == [s EXCEPT !.status = status, !.reason = why]

\* The updates the table makes of what it saw.
LEMMA MovedIs ==
    ASSUME NEW row \in Row, NEW status, NEW kind, NEW why
    PROVE  Moved(TableState(row), status, kind, why)
              = Judged(row, status, kind, why, row.rejected)
<1> DEFINE s == TableState(row)
           r == Moved(s, status, kind, why)
<1>1. s = [status |-> row.status, kind |-> row.turnKind, reason |-> row.pauseReason,
           turns |-> row.turnCount, max |-> row.maxTurns, rejected |-> row.rejected]
  BY DEF TableState
<1> HIDE DEF s
<1>2. r = Moved(s, status, kind, why)
  OBVIOUS
<1> HIDE DEF r
<1>3. r = Judged(row, status, kind, why, row.rejected)
  BY <1>1, <1>2 DEF Judged, Moved
<1> QED BY <1>3 DEF r, s

\* The outcome of a reply that makes the next turn a goal turn and forgets rejections.
LEMMA ResetIs ==
    ASSUME NEW row \in Row, NEW status, NEW kind, NEW why, NEW rejected
    PROVE  Reset(TableState(row), status, kind, why, rejected)
              = Judged(row, status, kind, why, rejected)
<1> DEFINE s == TableState(row)
           r == Reset(s, status, kind, why, rejected)
<1>1. s = [status |-> row.status, kind |-> row.turnKind, reason |-> row.pauseReason,
           turns |-> row.turnCount, max |-> row.maxTurns, rejected |-> row.rejected]
  BY DEF TableState
<1> HIDE DEF s
<1>2. r = Reset(s, status, kind, why, rejected)
  OBVIOUS
<1> HIDE DEF r
<1>3. r = Judged(row, status, kind, why, rejected)
  BY <1>1, <1>2 DEF Judged, Reset
<1> QED BY <1>3 DEF r, s

\* The outcome of a reply that counts one more rejected claim.
LEMMA CountedIs ==
    ASSUME NEW row \in Row, NEW status, NEW kind, NEW why, NEW rejected
    PROVE  LET once == Counted(TableState(row), kind, rejected)
           IN  /\ once.rejected = rejected
               /\ Turned(once, status, why) = Judged(row, status, kind, why, rejected)
<1> DEFINE s == TableState(row)
           once == Counted(s, kind, rejected)
           r == Turned(once, status, why)
<1>1. s = [status |-> row.status, kind |-> row.turnKind, reason |-> row.pauseReason,
           turns |-> row.turnCount, max |-> row.maxTurns, rejected |-> row.rejected]
  BY DEF TableState
<1> HIDE DEF s
<1>2. once = Counted(s, kind, rejected)
  OBVIOUS
<1> HIDE DEF once
<1>3. once = Judged(row, row.status, kind, row.pauseReason, rejected)
  BY <1>1, <1>2 DEF Judged, Counted
<1>4. once.rejected = rejected
  BY <1>3 DEF Judged
<1>5. r = Turned(once, status, why)
  OBVIOUS
<1> HIDE DEF r
<1>6. r = Judged(row, status, kind, why, rejected)
  BY <1>3, <1>5 DEF Judged, Turned
<1> QED BY <1>4, <1>6 DEF r, once, s

\* The transitions the table gives a reply, one by one.
LEMMA OutcomesOf ==
    ASSUME NEW row \in Row
    PROVE  LET s == TableState(row)
               next == row.rejected + 1
           IN  /\ Table!Progressed(s) = Judged(row, "queued", "goal", "", row.rejected)
               /\ Table!Claimed(s) =
                     Judged(row, "verifying_completed", "verification", "", row.rejected)
               /\ Table!Blocked(s) = Judged(row, "blocked", "goal", "", row.rejected)
               /\ Table!Confirmed(s) = Judged(row, "completed", "goal", "", 0)
               /\ Table!Rejected(s) =
                     IF next >= MaxRejectedClaims
                     THEN Judged(row, "paused", "goal", "verification_rejected", next)
                     ELSE Judged(row, "queued", "goal", "", next)
<1> DEFINE s == TableState(row)
           none == ""
           next == row.rejected + 1
           once == Counted(s, "goal", next)
<1>1. /\ Table!Progressed(s) = Moved(s, "queued", "goal", none)
      /\ Table!Claimed(s) = Moved(s, "verifying_completed", "verification", none)
      /\ Table!Blocked(s) = Moved(s, "blocked", "goal", none)
      /\ Table!Confirmed(s) = Reset(s, "completed", "goal", none, 0)
  BY Zenon DEF Table!Progressed, Table!Claimed, Table!Blocked, Table!Confirmed, Moved, Reset
<1>2. s.rejected = row.rejected
  BY DEF TableState
<1>3. Table!Rejected(s) = IF once.rejected >= MaxRejectedClaims
                          THEN Turned(once, "paused", "verification_rejected")
                          ELSE Turned(once, "queued", none)
  BY <1>2, Zenon DEF Table!Rejected, Table!Parked, Counted, Turned
<1> HIDE DEF next, none
<1>4. /\ Moved(s, "queued", "goal", none) = Judged(row, "queued", "goal", none, row.rejected)
      /\ Moved(s, "verifying_completed", "verification", none) =
            Judged(row, "verifying_completed", "verification", none, row.rejected)
      /\ Moved(s, "blocked", "goal", none) = Judged(row, "blocked", "goal", none, row.rejected)
      /\ Reset(s, "completed", "goal", none, 0) = Judged(row, "completed", "goal", none, 0)
  BY MovedIs, ResetIs
<1>5. once.rejected = next
  BY CountedIs
<1>6. /\ Turned(once, "paused", "verification_rejected")
            = Judged(row, "paused", "goal", "verification_rejected", next)
      /\ Turned(once, "queued", none) = Judged(row, "queued", "goal", none, next)
  BY CountedIs
<1> HIDE DEF once, s
<1>7. Table!Rejected(s) = IF next >= MaxRejectedClaims
                          THEN Judged(row, "paused", "goal", "verification_rejected", next)
                          ELSE Judged(row, "queued", "goal", none, next)
  BY <1>3, <1>5, <1>6
<1>8. /\ Table!Progressed(s) = Judged(row, "queued", "goal", none, row.rejected)
      /\ Table!Claimed(s) =
            Judged(row, "verifying_completed", "verification", none, row.rejected)
      /\ Table!Blocked(s) = Judged(row, "blocked", "goal", none, row.rejected)
      /\ Table!Confirmed(s) = Judged(row, "completed", "goal", none, 0)
  BY <1>1, <1>4
<1> QED BY <1>7, <1>8, Zenon DEF s, next, none

\* What the rules make of a reply is one of them.
LEMMA JudgedIsListed ==
    ASSUME NEW row \in Row, NEW m \in Message
    PROVE  Judged(row, NextStatus(row, m), NextTurnKind(row, m), Why(NextStatus(row, m)),
                  RejectedClaims(row, m)) \in Candidates(TableState(row))
<1> DEFINE s == TableState(row)
           none == ""
<1>1. row.turnKind \in Kinds /\ row.rejected \in Nat /\ s.kind = row.turnKind
  BY DEF Row, TableState
<1>2. /\ Why("queued") = none /\ Why("verifying_completed") = none /\ Why("blocked") = none
      /\ Why("completed") = none /\ Why("paused") = "verification_rejected"
  BY Zenon DEF Why
<1>3. /\ Table!Progressed(s) = Judged(row, "queued", "goal", none, row.rejected)
      /\ Table!Claimed(s) =
            Judged(row, "verifying_completed", "verification", none, row.rejected)
      /\ Table!Blocked(s) = Judged(row, "blocked", "goal", none, row.rejected)
      /\ Table!Confirmed(s) = Judged(row, "completed", "goal", none, 0)
      /\ Table!Rejected(s) =
            IF row.rejected + 1 >= MaxRejectedClaims
            THEN Judged(row, "paused", "goal", "verification_rejected", row.rejected + 1)
            ELSE Judged(row, "queued", "goal", none, row.rejected + 1)
  BY OutcomesOf, Zenon
<1> HIDE DEF none, s
<1>4. CASE row.turnKind = "goal"
  <2>1. Candidates(s) = {Table!Progressed(s), Table!Claimed(s), Table!Blocked(s)}
    BY <1>1, <1>4 DEF Candidates
  <2> QED BY <1>2, <1>3, <1>4, <2>1, ReplyToGoal DEF s
<1>5. CASE row.turnKind = "verification"
  <2>1. Candidates(s) = {Table!Confirmed(s), Table!Blocked(s), Table!Rejected(s)}
    BY <1>1, <1>5 DEF Candidates
  <2> QED BY <1>2, <1>3, <1>5, <2>1, ReplyToVerification DEF s
<1> QED BY <1>1, <1>4, <1>5 DEF Kinds

\* The outcome of a reply is one of those the table lists.
LEMMA ReplyIsOutcome ==
    ASSUME NEW row \in Row, NEW new \in Row, Answered(row, new)
    PROVE  TableState(new) \in Table!Outcomes(TableState(row))
<1>1. PICK m \in Message :
        /\ new.status = IF ReachedTurnLimit(row, m) THEN "paused" ELSE NextStatus(row, m)
        /\ new.pauseReason = IF ReachedTurnLimit(row, m) THEN "turn_limit"
                             ELSE IF NextStatus(row, m) = "paused"
                             THEN "verification_rejected" ELSE ""
        /\ new.turnKind = NextTurnKind(row, m)
        /\ new.rejected = RejectedClaims(row, m)
  BY DEF Answered
<1>2. new.turnCount = row.turnCount /\ new.maxTurns = row.maxTurns
  BY DEF Answered
<1> DEFINE s == TableState(row)
           status == NextStatus(row, m)
           next == Judged(row, status, NextTurnKind(row, m), Why(status),
                          RejectedClaims(row, m))
<1>3. next \in Candidates(s)
  BY JudgedIsListed
<1>4. s.turns = row.turnCount /\ s.max = row.maxTurns
  BY DEF TableState
<1>5. next = [status |-> status, kind |-> new.turnKind,
              reason |-> Why(status), turns |-> new.turnCount,
              max |-> new.maxTurns, rejected |-> new.rejected]
  BY <1>1, <1>2 DEF Judged
<1>6. ReachedTurnLimit(row, m) <=> status \in {"queued", "paused"} /\ s.turns >= s.max
  BY <1>4 DEF ReachedTurnLimit
<1>7. TableState(new) = [status |-> new.status, kind |-> new.turnKind,
                         reason |-> new.pauseReason, turns |-> new.turnCount,
                         max |-> new.maxTurns, rejected |-> new.rejected]
  BY DEF TableState
<1> HIDE DEF next, s, status
<1>8. next.status = status
  BY <1>5
<1>9. TableState(new) = Table!Limited(s, next)
  <2>1. CASE ReachedTurnLimit(row, m)
    <3>1. new.status = "paused" /\ new.pauseReason = "turn_limit"
      BY <1>1, <2>1
    <3>2. Table!Limited(s, next) = Table!Parked(next, "turn_limit")
      BY <1>6, <1>8, <2>1 DEF Table!Limited
    <3> QED BY <1>5, <1>7, <3>1, <3>2 DEF Table!Parked
  <2>2. CASE ~ReachedTurnLimit(row, m)
    <3>1. /\ new.status = status
          /\ new.pauseReason = Why(status)
      BY <1>1, <2>2 DEF status, Why
    <3>2. Table!Limited(s, next) = next
      BY <1>6, <1>8, <2>2 DEF Table!Limited
    <3> QED BY <1>5, <1>7, <3>1, <3>2
  <2> QED BY <2>1, <2>2
<1> QED BY <1>3, <1>9 DEF Table!Outcomes, Candidates, s

\* An UPDATE of one row is a step of the table at its loop.
LEMMA UpdateShown ==
    ASSUME TypeOK, NEW l \in LoopIds, NEW new, SetRow(l, new)
    PROVE  /\ Shown[l] = TableState(rows[l])
           /\ Shown' = [Shown EXCEPT ![l] = TableState(new)]
<1>1. Shown[l] = TableState(rows[l])
  BY DEF Shown
<1>2. Shown' = [k \in LoopIds |-> TableState(rows'[k])]
  BY DEF Shown
<1>3. \A k \in LoopIds : rows'[k] = IF k = l THEN new ELSE rows[k]
  BY DEF SetRow, TypeOK
<1>4. [Shown EXCEPT ![l] = TableState(new)]
         = [k \in LoopIds |-> IF k = l THEN TableState(new) ELSE TableState(rows[k])]
  BY DEF Shown
<1>5. \A k \in LoopIds : TableState(rows'[k]) = IF k = l THEN TableState(new)
                                                ELSE TableState(rows[k])
  BY <1>3
<1> QED BY <1>1, <1>2, <1>4, <1>5

\* Every write the rules allow is a step of the table, or none that it sees.
LEMMA WriteIsStep ==
    ASSUME TypeOK, Sound, NEW l \in LoopIds, NEW new \in Row, Write(rows[l], new), SetRow(l, new)
    PROVE  TableStep
<1> DEFINE row == rows[l]
           s == TableState(row)
           t == TableState(new)
<1>1. row \in Row /\ KindFits(row) /\ Effect(row, new)
  BY WriteEffect DEF TypeOK, Sound, SoundRow
<1>2. Shown[l] = s /\ Shown' = [Shown EXCEPT ![l] = t]
  BY UpdateShown
<1>3. s = [status |-> row.status, kind |-> row.turnKind, reason |-> row.pauseReason,
           turns |-> row.turnCount, max |-> row.maxTurns, rejected |-> row.rejected]
  BY DEF TableState
<1>4. t = [status |-> new.status, kind |-> new.turnKind, reason |-> new.pauseReason,
           turns |-> new.turnCount, max |-> new.maxTurns, rejected |-> new.rejected]
  BY DEF TableState
<1>5. row.turnKind \in Kinds
  BY <1>1 DEF Row
<1>6. ASSUME Answered(row, new) PROVE t \in Table!Outcomes(s)
  BY <1>1, <1>6, ReplyIsOutcome
<1> HIDE DEF s, t, row
<1>t. Table!To(l, t)
  BY <1>2 DEF Table!To, Shown
<1>7. CASE Answered(row, new)
  <2>1. t \in Table!Outcomes(Shown[l])
    BY <1>2, <1>6, <1>7
  <2>2. CASE row.status = "running"
    <3>1. Table!Reply(l)
      <4>1. Table!At(l, "running")
        BY <1>2, <1>3, <2>2 DEF Table!At, Shown
      <4> QED BY <1>t, <2>1, <4>1 DEF Table!Reply, Shown
    <3> QED BY <3>1 DEF TableStep, Table!Next
  <2>3. CASE row.status = "paused" /\ MayRecover(row)
    <3>1. s.status = "paused" /\ s.reason \in {"unknown_delivery", "user", "manual_send"}
      BY <1>3, <2>3 DEF MayRecover
    <3>2. Table!ResumeWithReply(l)
      <4>1. /\ Table!At(l, "paused")
            /\ Shown[l].reason \in {"unknown_delivery", "user", "manual_send"}
        BY <1>2, <3>1 DEF Table!At, Shown
      <4> QED BY <1>t, <2>1, <4>1 DEF Table!ResumeWithReply, Shown
    <3> QED BY <3>2 DEF TableStep, Table!Next
  <2> QED BY <1>7, <2>2, <2>3 DEF Answered
<1>8. ASSUME NEW why, Parked(row, new, why) PROVE t = Table!Parked(s, why)
  <2> DEFINE u == Table!Parked(s, why)
  <2>1. u = [s EXCEPT !.status = "paused", !.reason = why]
    BY DEF Table!Parked
  <2> HIDE DEF u
  <2>2. u = [status |-> "paused", kind |-> row.turnKind, reason |-> why,
             turns |-> row.turnCount, max |-> row.maxTurns, rejected |-> row.rejected]
    BY <1>3, <2>1
  <2>3. u = t
    BY <1>4, <1>8, <2>2 DEF Parked, SameWork
  <2> QED BY <2>3 DEF u
<1>9. CASE Failed(row, new)
  <2>1. PICK why \in {"unreadable_result", "turn_timeout", "unknown_delivery", "boundary_lost"} :
           Parked(row, new, why)
    BY <1>9 DEF Failed
  <2>2. t = Table!Parked(Shown[l], why)
    BY <1>2, <1>8, <2>1
  <2>3. Table!TurnFails(l)
    <3>1. Table!At(l, "running")
      BY <1>2, <1>3, <1>9 DEF Failed, Table!At, Shown
    <3>2. Table!To(l, Table!Parked(Shown[l], why))
      BY <1>t, <2>2
    <3> QED BY <3>1, <3>2 DEF Table!TurnFails, Shown
  <2> QED BY <2>3 DEF TableStep, Table!Next
<1>10. CASE TookBack(row, new)
  <2>1. t = IF s.kind = "goal" THEN [s EXCEPT !.status = "queued", !.turns = @ - 1]
            ELSE [s EXCEPT !.status = "verifying_completed"]
    BY <1>3, <1>4, <1>10 DEF TookBack, SameWork
  <2>2. s.status = "running"
    BY <1>3, <1>10 DEF TookBack
  <2>3. Table!PromptRefused(l)
    BY <1>2, <2>1, <2>2 DEF Table!PromptRefused, Table!At, Table!To, Shown
  <2> QED BY <2>3 DEF TableStep, Table!Next
<1>11. CASE LeftAlone(row, new)
  <2>1. t = s
    BY <1>3, <1>4, <1>11 DEF LeftAlone, SameWork
  <2>2. Shown' = Shown
    BY <1>2, <2>1 DEF Shown
  <2> QED BY <2>2 DEF TableStep
<1>12. CASE Started(row, new)
  <2>1. CASE row.status = "queued"
    <3> DEFINE u == [s EXCEPT !.status = "running", !.kind = "goal", !.turns = @ + 1]
    <3>1. t = u
      <4>1. u = [s EXCEPT !.status = "running", !.kind = "goal", !.turns = @ + 1]
        OBVIOUS
      <4> HIDE DEF u
      <4>2. u = [status |-> "running", kind |-> "goal", reason |-> row.pauseReason,
                 turns |-> row.turnCount + 1, max |-> row.maxTurns, rejected |-> row.rejected]
        BY <1>3, <4>1
      <4> QED BY <1>4, <1>12, <2>1, <4>2 DEF Started
    <3>2. s.status = "queued" /\ s.turns < s.max
      BY <1>3, <1>12, <2>1 DEF Started
    <3>3. Table!StartGoalTurn(l)
      BY <1>2, <3>1, <3>2 DEF Table!StartGoalTurn, Table!At, Table!To, Shown
    <3> QED BY <3>3 DEF TableStep, Table!Next
  <2>2. CASE row.status = "verifying_completed"
    <3> DEFINE u == [s EXCEPT !.status = "running", !.kind = "verification"]
    <3>1. t = u
      <4>1. u = [s EXCEPT !.status = "running", !.kind = "verification"]
        OBVIOUS
      <4> HIDE DEF u
      <4>2. u = [status |-> "running", kind |-> "verification", reason |-> row.pauseReason,
                 turns |-> row.turnCount, max |-> row.maxTurns, rejected |-> row.rejected]
        BY <1>3, <4>1
      <4> QED BY <1>4, <1>12, <2>2, <4>2 DEF Started
    <3>2. s.status = "verifying_completed"
      BY <1>3, <2>2
    <3>3. Table!StartVerification(l)
      BY <1>2, <3>1, <3>2 DEF Table!StartVerification, Table!At, Table!To, Shown
    <3> QED BY <3>3 DEF TableStep, Table!Next
  <2> QED BY <1>12, <2>1, <2>2 DEF Started
<1>13. CASE OutOfBudget(row, new)
  <2>1. t = Table!Parked(Shown[l], "turn_limit")
    BY <1>2, <1>8, <1>13 DEF OutOfBudget
  <2>2. s.status = "queued" /\ s.turns >= s.max
    BY <1>3, <1>13 DEF OutOfBudget, OutOfTurns
  <2>3. Table!OutOfTurns(l)
    BY <1>2, <2>1, <2>2 DEF Table!OutOfTurns, Table!At, Table!To, Shown
  <2> QED BY <2>3 DEF TableStep, Table!Next
<1>14. CASE Interrupted(row, new)
  <2>1. s.status \in Table!Live
    BY <1>3, <1>14 DEF Interrupted, Live, Table!Live
  <2>2. CASE Parked(row, new, "scheduler_error")
    <3>1. t = Table!Parked(Shown[l], "scheduler_error")
      BY <1>2, <1>8, <2>2
    <3>2. Table!Interrupted(l)
      BY <1>2, <2>1, <3>1 DEF Table!Interrupted, Table!To, Shown
    <3> QED BY <3>2 DEF TableStep, Table!Next
  <2>3. CASE ~Parked(row, new, "scheduler_error")
    <3>1. /\ new.status = "paused" /\ new.pauseReason \in {"user", "manual_send"}
          /\ new.turnKind = ParkedKind(row) /\ new.turnCount = row.turnCount
          /\ new.maxTurns = row.maxTurns /\ new.rejected = row.rejected
      BY <1>14, <2>3 DEF Interrupted
    <3> DEFINE p == Table!Parked(s, new.pauseReason)
    <3>2. p = [status |-> "paused", kind |-> row.turnKind, reason |-> new.pauseReason,
               turns |-> row.turnCount, max |-> row.maxTurns, rejected |-> row.rejected]
      <4>1. p = [s EXCEPT !.status = "paused", !.reason = new.pauseReason]
        BY DEF Table!Parked
      <4> HIDE DEF p
      <4> QED BY <1>3, <4>1
    <3> HIDE DEF p
    <3>3. t = [p EXCEPT !.kind = IF s.status = "verifying_completed" THEN "verification" ELSE @]
      BY <1>3, <1>4, <3>1, <3>2 DEF ParkedKind
    <3>4. t = [Table!Parked(Shown[l], new.pauseReason) EXCEPT
                 !.kind = IF Shown[l].status = "verifying_completed" THEN "verification" ELSE @]
      BY <1>2, <3>3 DEF p
    <3>5. Table!Interrupted(l)
      BY <1>2, <2>1, <3>1, <3>4 DEF Table!Interrupted, Table!At, Table!To, Shown
    <3> QED BY <3>5 DEF TableStep, Table!Next
  <2> QED BY <2>2, <2>3
<1>15. CASE WasStopped(row, new)
  <2>1. t = [s EXCEPT !.status = "stopped"]
    BY <1>3, <1>4, <1>15 DEF WasStopped, SameWork
  <2>2. s.status \in Table!Open
    BY <1>3, <1>15 DEF WasStopped, Replaceable, Live, Table!Open, Table!Live
  <2>3. Table!Stop(l)
    BY <1>2, <2>1, <2>2 DEF Table!Stop, Table!To, Shown
  <2> QED BY <2>3 DEF TableStep, Table!Next
<1>16. CASE Rebudgeted(row, new)
  <2>1. t = [s EXCEPT !.max = new.maxTurns] /\ new.maxTurns \in TurnLimits
    BY <1>3, <1>4, <1>16 DEF Rebudgeted
  <2>2. s.status = "paused"
    BY <1>3, <1>16 DEF Rebudgeted
  <2>3. Table!SetMaxTurns(l)
    BY <1>2, <2>1, <2>2 DEF Table!SetMaxTurns, Table!At, Table!To, Shown
  <2> QED BY <2>3 DEF TableStep, Table!Next
<1>17. CASE StartedAgain(row, new)
  <2> DEFINE none == ""
             status == IF s.kind = "verification" THEN "verifying_completed" ELSE "queued"
             rejected == IF s.reason = "verification_rejected" THEN 0 ELSE s.rejected
  <2>1. /\ row.status = "paused" /\ row.pauseReason # "unknown_delivery"
        /\ new.status = ResumeStatus(row) /\ new.pauseReason = none
        /\ new.rejected = IF row.pauseReason = "verification_rejected" THEN 0 ELSE row.rejected
        /\ new.turnKind = row.turnKind /\ new.turnCount = row.turnCount
        /\ new.maxTurns = row.maxTurns
    BY <1>17, Zenon DEF StartedAgain, MustHold
  <2> HIDE DEF none
  <2>2. new.status = status /\ new.rejected = rejected
    BY <1>3, <2>1 DEF ResumeStatus
  <2> DEFINE u == [s EXCEPT !.status = status, !.reason = none, !.rejected = rejected]
  <2>3. t = u
    <3>1. u = [s EXCEPT !.status = status, !.reason = none, !.rejected = rejected]
      OBVIOUS
    <3> HIDE DEF status, rejected, u
    <3>2. u = [status |-> status, kind |-> row.turnKind, reason |-> none,
               turns |-> row.turnCount, max |-> row.maxTurns, rejected |-> rejected]
      BY <1>3, <3>1
    <3> QED BY <1>4, <2>1, <2>2, <3>2
  <2>4. s.status = "paused" /\ s.reason # "unknown_delivery"
    BY <1>3, <2>1
  <2>5. Table!Resume(l)
    <3>1. Shown' = [Shown EXCEPT ![l] =
                      [Shown[l] EXCEPT
                        !.status = IF Shown[l].kind = "verification"
                                   THEN "verifying_completed" ELSE "queued",
                        !.reason = none,
                        !.rejected = IF Shown[l].reason = "verification_rejected" THEN 0 ELSE @]]
      BY <1>2, <2>3
    <3>2. Shown[l].status = "paused" /\ Shown[l].reason # "unknown_delivery"
      BY <1>2, <2>4
    <3> QED BY <3>1, <3>2, Zenon DEF Table!Resume, Table!At, Table!To, Shown, none
  <2> QED BY <2>5 DEF TableStep, Table!Next
<1> QED BY <1>1, <1>7, <1>9, <1>10, <1>11, <1>12, <1>13, <1>14, <1>15, <1>16, <1>17 DEF Effect

\* What the table sees of a row that does not exist, and of one a create inserts.
LEMMA NoneIs == TableState(NoRow) = Table!None
<1> DEFINE none == ""
<1>1. NoRow.pauseReason = none
  BY Zenon DEF NoRow
<1>2. NoRow.status = "absent"
  BY Zenon DEF NoRow
<1>3. NoRow.turnKind = "goal"
  BY Zenon DEF NoRow
<1>4. NoRow.turnCount = 0
  BY Zenon DEF NoRow
<1>5. NoRow.maxTurns = 1
  BY Zenon DEF NoRow
<1>6. NoRow.rejected = 0
  BY Zenon DEF NoRow
<1> QED BY <1>1, <1>2, <1>3, <1>4, <1>5, <1>6, Zenon DEF TableState, Table!None

Inserted(readable, max) ==
    [Table!None EXCEPT !.max = max, !.status = IF readable THEN "queued" ELSE "paused",
                       !.reason = IF readable THEN "" ELSE "transcript_unreadable"]

\* A new row is a new loop of the table.
LEMMA CreatedIs ==
    ASSUME NEW readable \in BOOLEAN, NEW tail, NEW max, NEW full
    PROVE  TableState(NewRow(readable, tail, max, full)) = Inserted(readable, max)
<1> DEFINE none == ""
           status == IF readable THEN "queued" ELSE "paused"
           reason == IF readable THEN none ELSE "transcript_unreadable"
           absent == NoRow
           s == TableState(absent)
           new == [absent EXCEPT !.status = status, !.pauseReason = reason,
                                 !.boundary = tail, !.maxTurns = max, !.full = full]
           u == [s EXCEPT !.max = max, !.status = status, !.reason = reason]
<1>1. new = NewRow(readable, tail, max, full)
  BY Zenon DEF NewRow
<1>2. /\ u = [s EXCEPT !.max = max, !.status = status, !.reason = reason]
      /\ new = [absent EXCEPT !.status = status, !.pauseReason = reason,
                              !.boundary = tail, !.maxTurns = max, !.full = full]
  OBVIOUS
<1>3. absent = [status |-> absent.status, turnKind |-> absent.turnKind,
                pauseReason |-> absent.pauseReason, turnCount |-> absent.turnCount,
                maxTurns |-> absent.maxTurns, rejected |-> absent.rejected,
                boundary |-> absent.boundary, promptAt |-> absent.promptAt,
                full |-> absent.full, dismissed |-> absent.dismissed,
                progress |-> absent.progress, revision |-> absent.revision]
  <2>1. absent \in Row
    BY NoRowTyped
  <2> HIDE DEF absent
  <2> QED BY <2>1 DEF Row
<1>4. u = [Table!None EXCEPT !.max = max, !.status = status, !.reason = reason]
  BY NoneIs, Zenon
<1> HIDE DEF none, status, reason, absent
<1>5. s = [status |-> absent.status, kind |-> absent.turnKind, reason |-> absent.pauseReason,
           turns |-> absent.turnCount, max |-> absent.maxTurns, rejected |-> absent.rejected]
  BY DEF TableState
<1> HIDE DEF s
<1> HIDE DEF new, u
<1>6. u = [status |-> status, kind |-> absent.turnKind, reason |-> reason,
           turns |-> absent.turnCount, max |-> max, rejected |-> absent.rejected]
  BY <1>2, <1>5
<1>7. /\ new.status = status /\ new.turnKind = absent.turnKind /\ new.pauseReason = reason
      /\ new.turnCount = absent.turnCount /\ new.maxTurns = max
      /\ new.rejected = absent.rejected
  BY <1>2, <1>3
<1>8. TableState(new) = u
  BY <1>6, <1>7 DEF TableState
<1> QED BY <1>1, <1>4, <1>8, Zenon DEF Inserted, none, status, reason

\* A create is the table's: the new loop appears, the open ones are stopped.
LEMMA CreateIsStep ==
    ASSUME TypeOK, Sound, CreateCommit
    PROVE  TableStep
<1>1. PICK n \in LoopIds :
        /\ n \notin Existing
        /\ \E readable \in BOOLEAN, tail \in MsgIds \cup {0}, max \in TurnLimits,
              full \in FullRun : rows'[n] = NewRow(readable, tail, max, full)
        /\ \A k \in LoopIds \ {n} :
              rows'[k] = IF rows[k].status \in Replaceable THEN Stopped(rows[k], FALSE)
                         ELSE rows[k]
  BY RowsReplaced
<1>2. PICK readable \in BOOLEAN, tail \in MsgIds \cup {0}, max \in TurnLimits, full \in FullRun :
        rows'[n] = NewRow(readable, tail, max, full)
  BY <1>1
<1> DEFINE ended(s) == [s EXCEPT !.status = "stopped"]
<1>3. TableState(rows'[n]) = Inserted(readable, max)
  BY <1>2, CreatedIs
<1>4. Shown[n].status = "absent"
  BY <1>1 DEF Shown, TableState, Existing
<1>5. ASSUME NEW k \in LoopIds
      PROVE  Shown[k] = TableState(rows[k]) /\ Shown[k].status = rows[k].status
  BY DEF Shown, TableState
<1>6. ASSUME NEW row \in Row PROVE TableState(Stopped(row, FALSE)) = ended(TableState(row))
  <2> DEFINE s == TableState(row)
             u == ended(s)
  <2>1. s = [status |-> row.status, kind |-> row.turnKind, reason |-> row.pauseReason,
             turns |-> row.turnCount, max |-> row.maxTurns, rejected |-> row.rejected]
    BY DEF TableState
  <2> HIDE DEF s
  <2>2. u = [status |-> "stopped", kind |-> row.turnKind, reason |-> row.pauseReason,
             turns |-> row.turnCount, max |-> row.maxTurns, rejected |-> row.rejected]
    BY <2>1
  <2> HIDE DEF u
  <2> DEFINE new == Stopped(row, FALSE)
  <2>3. /\ new.status = "stopped" /\ new.turnKind = row.turnKind
        /\ new.pauseReason = row.pauseReason /\ new.turnCount = row.turnCount
        /\ new.maxTurns = row.maxTurns /\ new.rejected = row.rejected
    BY DEF Stopped, Bump, Row
  <2> HIDE DEF new
  <2>4. TableState(new) = u
    BY <2>2, <2>3 DEF TableState
  <2> QED BY <2>4 DEF u, s, new
<1>7. ASSUME NEW k \in LoopIds \ {n}
      PROVE  TableState(rows'[k]) = IF Shown[k].status \in Table!Open THEN ended(Shown[k])
                                    ELSE Shown[k]
  <2>1. Replaceable = Table!Open
    BY DEF Replaceable, Live, Table!Open, Table!Live
  <2>2. rows[k] \in Row
    BY DEF TypeOK
  <2> HIDE DEF ended
  <2> QED BY <1>1, <1>5, <1>6, <2>1, <2>2
<1>8. Shown' = [k \in LoopIds |-> IF k = n THEN Inserted(readable, max)
                                  ELSE IF Shown[k].status \in Table!Open THEN ended(Shown[k])
                                  ELSE Shown[k]]
  <2>1. Shown' = [k \in LoopIds |-> TableState(rows'[k])]
    BY DEF Shown
  <2> HIDE DEF ended
  <2> QED BY <1>3, <1>7, <2>1
<1>9. Table!Create(n)
  <2>1. Table!At(n, "absent")
    BY <1>4 DEF Table!At, Shown
  <2> QED BY <1>8, <2>1, Zenon DEF Table!Create, Inserted, Shown
<1> QED BY <1>9 DEF TableStep, Table!Next

\* Every step of the system is a step of the table.
LEMMA NextIsStep ==
    ASSUME TypeOK, OpenLoopIsLatest, CopiesAgree, Sound, [Next]_vars
    PROVE  TableStep
<1>1. CASE CreateCommit
  BY <1>1, CreateIsStep
<1>2. CASE UNCHANGED rows
  BY <1>2 DEF TableStep, Shown
<1>3. CASE OneWrite /\ ~UNCHANGED rows
  <2>1. PICK l \in LoopIds, new \in Row : Settled(rows[l], new) /\ SetRow(l, new)
    BY <1>3 DEF OneWrite
  <2>2. Write(rows[l], new)
    BY <2>1 DEF Write
  <2> QED BY <2>1, <2>2, WriteIsStep
<1>4. CASE ResumeWrites /\ ~UNCHANGED rows
  <2>1. PICK l \in LoopIds, new \in Row : IsResumed(rows[l], new) /\ SetRow(l, new)
    BY <1>4 DEF ResumeWrites
  <2>2. Write(rows[l], new)
    BY <2>1 DEF Write
  <2> QED BY <2>1, <2>2, WriteIsStep
<1> QED BY <1>1, <1>2, <1>3, <1>4, NextWrites

\* The Goal Loop implements the transition table of its specification: whatever
\* ticks, requests, late replies and crashes interleave, every write of a row is
\* one of the table's transitions.
THEOREM KeepsItsTable == Spec => KeepsTable
<1>1. Init => Table!Init
  <2> SUFFICES ASSUME Init PROVE Shown = [l \in LoopIds |-> Table!None]
    BY DEF Table!Init, Shown
  <2> QED BY NoneIs DEF Init, Shown
<1>2. TypeOK /\ OpenLoopIsLatest /\ CopiesAgree /\ Sound /\ [Next]_vars
      => [Table!Next]_([l \in LoopIds |-> TableState(rows[l])])
  BY NextIsStep DEF TableStep, Shown
<1> QED BY <1>1, <1>2, TypeCorrect, OneOpenLoop, CopiesAreRows, RowsAreSound, PTL
        DEF Spec, KeepsTable, Table!Spec

-----------------------------------------------------------------------------
(* The turns that were asked for *)

\* A goal prompt of the loop's.
Asks(m, l) == m.from = "prompt" /\ m.loop = l /\ m.kind = "goal"

Asked(t, l) == {i \in DOMAIN t : Asks(t[i], l)}

\* A goal prompt of the loop's that is not in the transcript yet: one whose sender
\* gave up, and the one the tick has taken the turn for, until the engine's answer.
Straying(l) == [loop |-> l, kind |-> "goal"] \in late

Underway(l) ==
    /\ sched.id = l /\ sched.dto.turnKind = "goal"
    /\ \/ sched.pc = "context"
       \/ sched.pc = "posting" /\ sched.post \in {"wire", "refused"}

One(b) == IF b THEN 1 ELSE 0

\* Every goal prompt that was sent, and the one to be sent, has its turn counted.
Accounted ==
    \A l \in LoopIds :
        Cardinality(Asked(transcript, l)) + One(Straying(l)) + One(Underway(l))
           <= rows[l].turnCount

\* The prompts that were asked can be counted.
LEMMA AskedFinite ==
    ASSUME NEW t \in Seq(Message), NEW l
    PROVE  IsFiniteSet(Asked(t, l)) /\ Cardinality(Asked(t, l)) \in Nat
<1>1. IsFiniteSet(1 .. Len(t))
  BY LenProperties, FS_Interval
<1>2. Asked(t, l) \subseteq 1 .. Len(t)
  BY LenProperties DEF Asked
<1> QED BY <1>1, <1>2, FS_Subset, FS_CardinalityType

\* One more message, and some less.
LEMMA AskedMore ==
    ASSUME NEW t \in Seq(Message), NEW m \in Message, NEW l
    PROVE  Cardinality(Asked(Append(t, m), l)) = Cardinality(Asked(t, l)) + One(Asks(m, l))
<1> DEFINE n == Len(t) + 1
<1>1. Len(t) \in Nat /\ DOMAIN t = 1 .. Len(t)
  BY LenProperties
<1>2. /\ DOMAIN Append(t, m) = 1 .. n /\ Append(t, m)[n] = m
      /\ \A i \in 1 .. Len(t) : Append(t, m)[i] = t[i]
  BY <1>1, AppendProperties, LenProperties
<1>3. n \notin Asked(t, l)
  BY <1>1 DEF Asked
<1>4. CASE Asks(m, l)
  <2>1. Asked(Append(t, m), l) = Asked(t, l) \cup {n}
    BY <1>1, <1>2, <1>4 DEF Asked
  <2> QED BY <1>3, <1>4, <2>1, AskedFinite, FS_AddElement DEF One
<1>5. CASE ~Asks(m, l)
  <2>1. Asked(Append(t, m), l) = Asked(t, l)
    BY <1>1, <1>2, <1>5 DEF Asked
  <2> QED BY <1>5, <2>1, AskedFinite DEF One
<1> QED BY <1>4, <1>5

\* A transcript that is cut has no more prompts.
LEMMA AskedLess ==
    ASSUME NEW t \in Seq(Message), NEW n \in 0 .. Len(t), NEW l
    PROVE  Cardinality(Asked(SubSeq(t, 1, n), l)) <= Cardinality(Asked(t, l))
<1>1. Len(t) \in Nat /\ DOMAIN t = 1 .. Len(t)
  BY LenProperties
<1>2. /\ DOMAIN SubSeq(t, 1, n) = 1 .. n
      /\ \A i \in 1 .. n : SubSeq(t, 1, n)[i] = t[i]
  BY <1>1
<1>3. Asked(SubSeq(t, 1, n), l) \subseteq Asked(t, l)
  BY <1>1, <1>2 DEF Asked
<1> QED BY <1>3, AskedFinite, FS_Subset

\* An empty one has none.
LEMMA AskedNone == ASSUME NEW l PROVE Cardinality(Asked(<<>>, l)) = 0
<1>1. Asked(<<>>, l) = {}
  BY DEF Asked
<1> QED BY <1>1, FS_EmptySet

\* The rules that neither take a turn nor give one back leave the count alone.
LEMMA RulesKeepCount ==
    ASSUME NEW row \in Row, NEW dto, NEW m
    PROVE  /\ ApplyResult(row, dto, m).turnCount = row.turnCount
           /\ ApplyUnreadable(row, dto, m).turnCount = row.turnCount
           /\ ExpireFirst(row, dto).turnCount = row.turnCount
           /\ ExpireStalledTurn(row, dto).turnCount = row.turnCount
           /\ PauseAfterUnknownPromptDelivery(row, dto).turnCount = row.turnCount
           /\ PauseForLostBoundary(row, dto).turnCount = row.turnCount
           /\ CatchAll(row).turnCount = row.turnCount
<1>1. ASSUME NEW why PROVE PauseRow(row, why).turnCount = row.turnCount
  BY DEF PauseRow, Bump, Row
<1>2. ApplyResult(row, dto, m).turnCount = row.turnCount
  BY DEF ApplyResult, Bump, Row
<1>3. ApplyUnreadable(row, dto, m).turnCount = row.turnCount
  BY DEF ApplyUnreadable, PauseRow, Bump, Row
<1> QED BY <1>1, <1>2, <1>3 DEF ExpireFirst, ExpireStalledTurn, PauseForLostBoundary,
               PauseAfterUnknownPromptDelivery, CatchAll

\* Nor do the requests lower the turn count.
LEMMA RequestsKeepCount ==
    ASSUME NEW row \in Row, NEW dto, NEW m
    PROVE  /\ PauseByUser(row).turnCount = row.turnCount
           /\ PauseForManualSend(row, m).turnCount = row.turnCount
           /\ Stopped(row, m).turnCount = row.turnCount
           /\ [Bump(row) EXCEPT !.dismissed = TRUE].turnCount = row.turnCount
           /\ [Bump(row) EXCEPT !.maxTurns = m].turnCount = row.turnCount
           /\ ResumeUnreadable(row, dto).turnCount = row.turnCount
           /\ ResumeRow(row, dto, m).turnCount = row.turnCount
<1>1. PauseByUser(row).turnCount = row.turnCount
  BY DEF PauseByUser, PauseRow, Bump, Row
<1>2. PauseForManualSend(row, m).turnCount = row.turnCount
  BY DEF PauseForManualSend, PauseRow, Bump, Row
<1>3. /\ Stopped(row, m).turnCount = row.turnCount
      /\ [Bump(row) EXCEPT !.dismissed = TRUE].turnCount = row.turnCount
      /\ [Bump(row) EXCEPT !.maxTurns = m].turnCount = row.turnCount
      /\ ResumeUnreadable(row, dto).turnCount = row.turnCount
  BY DEF Stopped, ResumeUnreadable, Bump, Row
<1>4. ResumeRow(row, dto, m).turnCount = row.turnCount
  <2> DEFINE reply == Recovered(m, dto.boundary)
             rest == [Bump(row) EXCEPT
                        !.status = ResumeStatus(dto), !.pauseReason = "",
                        !.rejected = IF dto.pauseReason = "verification_rejected" THEN 0
                                     ELSE dto.rejected,
                        !.boundary = LatestMessageId(m)]
  <2>1. /\ Reopened(row) \in Row /\ Reopened(row).turnCount = row.turnCount
        /\ Bump(row).turnCount = row.turnCount /\ rest.turnCount = row.turnCount
    BY ReopenedFields DEF Bump, Row
  <2>2. ApplyResult(Reopened(row), Reopened(dto), reply).turnCount = row.turnCount
    BY <2>1, RulesKeepCount
  <2>3. \/ ResumeRow(row, dto, m) = row
        \/ ResumeRow(row, dto, m) = ApplyResult(Reopened(row), Reopened(dto), reply)
        \/ ResumeRow(row, dto, m) = Bump(row)
        \/ ResumeRow(row, dto, m) = rest
    BY Zenon DEF ResumeRow, Reopened
  <2> HIDE DEF rest, reply
  <2> QED BY <2>1, <2>2, <2>3
<1> QED BY <1>1, <1>2, <1>3, <1>4

\* Only a refused prompt gives a turn back, and only its own.
LEMMA TurnsKept ==
    ASSUME TypeOK, Sound, [Next]_vars, NEW l \in LoopIds
    PROVE  \/ rows'[l].turnCount >= rows[l].turnCount
           \/ /\ SchedPosted /\ sched.post = "refused" /\ sched.id = l
              /\ sched.dto.turnKind = "goal"
              /\ rows'[l].turnCount = rows[l].turnCount - 1
<1> DEFINE n == rows[l].turnCount
<1>0. rows \in [LoopIds -> Row] /\ n \in Nat
  BY DEF TypeOK, Row
<1>1. \A k \in LoopIds : rows[k] \in Row
  BY <1>0
<1>2. sched.pc # "idle" => sched.id \in LoopIds
  BY DEF TypeOK, TickTypeOK
<1>3. ASSUME NEW k \in LoopIds, NEW new, SetRow(k, new), new.turnCount >= rows[k].turnCount
      PROVE  rows'[l].turnCount >= n
  BY <1>0, <1>3 DEF SetRow
<1>4. ASSUME NEW k \in LoopIds, NEW new, SetRow(k, new), new.turnCount = rows[k].turnCount
      PROVE  rows'[l].turnCount >= n
  <2>1. rows[k].turnCount \in Nat
    BY <1>1 DEF Row
  <2> QED BY <1>3, <1>4, <2>1
<1>5. CASE UNCHANGED rows
  BY <1>0, <1>5
<1> HIDE DEF n
<1>6. CASE SchedExpire \/ SchedulerError \/ SchedPostTimeout
  <2>1. /\ sched.pc # "idle"
        /\ \/ SetRow(sched.id, ExpireFirst(rows[sched.id], sched.dto))
           \/ SetRow(sched.id, CatchAll(rows[sched.id]))
           \/ SetRow(sched.id, PauseAfterUnknownPromptDelivery(rows[sched.id], sched.dto))
    BY <1>6 DEF SchedExpire, SchedulerError, SchedPostTimeout
  <2> QED BY <1>1, <1>2, <1>4, <2>1, RulesKeepCount DEF n
<1>7. CASE SchedReadsReply
  <2>1. sched.pc # "idle"
    BY <1>7 DEF SchedReadsReply
  <2>2. \E m : \/ SetRow(sched.id, PauseForLostBoundary(rows[sched.id], sched.dto))
               \/ SetRow(sched.id, ApplyResult(rows[sched.id], sched.dto, m))
               \/ SetRow(sched.id, ApplyUnreadable(rows[sched.id], sched.dto, m))
               \/ SetRow(sched.id, ExpireStalledTurn(rows[sched.id], sched.dto))
    BY <1>7 DEF SchedReadsReply
  <2> QED BY <1>1, <1>2, <1>4, <2>1, <2>2, RulesKeepCount DEF n
<1>8. CASE SchedTurnLimit
  <2>1. sched.pc # "idle" /\ SetRow(sched.id, PauseRow(rows[sched.id], "turn_limit"))
    BY <1>8 DEF SchedTurnLimit
  <2>2. ASSUME NEW row \in Row PROVE PauseRow(row, "turn_limit").turnCount = row.turnCount
    BY DEF PauseRow, Bump, Row
  <2> QED BY <1>1, <1>2, <1>4, <2>1, <2>2 DEF n
<1>9. CASE SchedClaim
  <2>1. CASE CanClaim(rows[sched.id], sched.dto)
    <3>1. /\ sched.pc # "idle"
          /\ SetRow(sched.id, Claimed(rows[sched.id], LatestMessageId(sched.view)))
      BY <1>9, <2>1 DEF SchedClaim, BetweenTurns
    <3>2. ASSUME NEW row \in Row, NEW tail PROVE Claimed(row, tail).turnCount >= row.turnCount
      BY DEF Claimed, TurnsAfterClaim, Bump, Row
    <3> QED BY <1>1, <1>2, <1>3, <3>1, <3>2 DEF n
  <2>2. CASE ~CanClaim(rows[sched.id], sched.dto)
    BY <1>5, <1>9, <2>2 DEF SchedClaim
  <2> QED BY <2>1, <2>2
<1>10. CASE SchedPosted
  <2>1. sched.pc # "idle"
    BY <1>10 DEF SchedPosted
  <2>2. CASE SetRow(sched.id, PauseAfterUnknownPromptDelivery(rows[sched.id], sched.dto))
    BY <1>1, <1>2, <1>4, <2>1, <2>2, RulesKeepCount DEF n
  <2>3. CASE /\ sched.post = "refused"
             /\ SetRow(sched.id, RecoverAfterRejectedPrompt(rows[sched.id], sched.dto))
    <3> DEFINE row == rows[sched.id]
               new == RecoverAfterRejectedPrompt(row, sched.dto)
    <3>1. row \in Row
      BY <1>1, <1>2, <2>1
    <3>2. \/ new.turnCount = row.turnCount
          \/ sched.dto.turnKind # "verification" /\ new.turnCount = row.turnCount - 1
      BY <3>1 DEF RecoverAfterRejectedPrompt, Bump, Row
    <3>3. sched.dto.turnKind \in Kinds
      BY DEF TypeOK, TickTypeOK, Ticks, Row
    <3>4. CASE new.turnCount = row.turnCount
      BY <1>2, <1>4, <2>1, <2>3, <3>4 DEF n
    <3>5. CASE sched.dto.turnKind = "goal" /\ new.turnCount = row.turnCount - 1
      <4>1. CASE l = sched.id
        <5>1. rows'[l] = new
          BY <1>0, <2>3, <4>1 DEF SetRow
        <5> QED BY <1>10, <2>3, <3>5, <4>1, <5>1
      <4>2. CASE l # sched.id
        <5>1. rows'[l] = rows[l]
          BY <1>0, <2>3, <4>2 DEF SetRow
        <5> QED BY <1>0, <5>1 DEF n
      <4> QED BY <4>1, <4>2
    <3> QED BY <3>2, <3>3, <3>4, <3>5 DEF Kinds
  <2> QED BY <1>5, <1>10, <2>2, <2>3 DEF SchedPosted
<1>11. CASE TurnTimeout
  <2>1. PICK k \in LoopIds : SetRow(k, [rows[k] EXCEPT !.promptAt = "old"])
    BY <1>11 DEF TurnTimeout
  <2>2. [rows[k] EXCEPT !.promptAt = "old"].turnCount = rows[k].turnCount
    BY <1>1 DEF Row
  <2> QED BY <1>4, <2>1, <2>2 DEF n
<1>12. CASE Pause \/ Stop \/ Dismiss \/ UpdateMaxTurns
  <2>1. PICK k, m :
           /\ k \in LoopIds
           /\ \/ SetRow(k, PauseByUser(rows[k]))
              \/ SetRow(k, Stopped(rows[k], m))
              \/ SetRow(k, [Bump(rows[k]) EXCEPT !.dismissed = TRUE])
              \/ SetRow(k, [Bump(rows[k]) EXCEPT !.maxTurns = m])
    BY <1>12 DEF Pause, Stop, Dismiss, UpdateMaxTurns
  <2>2. /\ PauseByUser(rows[k]).turnCount = rows[k].turnCount
        /\ Stopped(rows[k], m).turnCount = rows[k].turnCount
        /\ [Bump(rows[k]) EXCEPT !.dismissed = TRUE].turnCount = rows[k].turnCount
        /\ [Bump(rows[k]) EXCEPT !.maxTurns = m].turnCount = rows[k].turnCount
    BY <1>1, <2>1, RequestsKeepCount
  <2> QED BY <1>4, <2>1, <2>2 DEF n
<1>13. CASE CreateCommit
  <2>1. PICK k \in LoopIds :
          /\ k \notin Existing
          /\ \E readable \in BOOLEAN, tail \in MsgIds \cup {0}, max \in TurnLimits,
                full \in FullRun : rows'[k] = NewRow(readable, tail, max, full)
          /\ \A j \in LoopIds \ {k} :
                rows'[j] = IF rows[j].status \in Replaceable THEN Stopped(rows[j], FALSE)
                           ELSE rows[j]
    BY <1>13, RowsReplaced
  <2>2. CASE l = k
    <3>1. rows[l] = NoRow
      BY <2>1, <2>2 DEF Sound, SoundRow, Unwritten, Existing
    <3>2. ASSUME NEW readable, NEW tail, NEW max, NEW full
          PROVE  NewRow(readable, tail, max, full).turnCount = 0
      BY DEF NewRow, NoRow
    <3>3. n = 0
      <4>1. NoRow.turnCount = 0
        BY Zenon DEF NoRow
      <4> QED BY <3>1, <4>1 DEF n
    <3> QED BY <2>1, <2>2, <3>2, <3>3 DEF n
  <2>3. CASE l # k
    <3>1. rows'[l] \in {rows[l], Stopped(rows[l], FALSE)}
      BY <2>1, <2>3
    <3>2. Stopped(rows[l], FALSE).turnCount = rows[l].turnCount
      BY <1>1, RequestsKeepCount
    <3>3. rows'[l].turnCount = rows[l].turnCount
      BY <3>1, <3>2
    <3> QED BY <1>0, <3>3 DEF n
  <2> QED BY <2>2, <2>3
<1>14. CASE ResumeCommit
  <2>1. PICK c \in Clients :
          /\ op[c].pc = "act" /\ op[c].req = "resume"
          /\ \/ SetRow(op[c].id, ResumeRow(rows[op[c].id], op[c].dto, op[c].view))
             \/ SetRow(op[c].id, ResumeUnreadable(rows[op[c].id], op[c].dto))
    BY <1>14 DEF ResumeCommit
  <2>2. op[c].id \in LoopIds
    BY <2>1 DEF TypeOK, OpTypeOK
  <2> QED BY <1>1, <1>4, <2>1, <2>2, RequestsKeepCount DEF n
<1>15. CASE ManualCommit
  <2>1. \E m : rows'[l] \in {rows[l], PauseForManualSend(rows[l], m)}
    BY <1>15 DEF ManualCommit, ManualPauses
  <2> QED BY <1>0, <1>1, <2>1, RequestsKeepCount DEF n
<1>16. CASE UNCHANGED vars \/ Engine \/ Crash
  BY <1>5, <1>16 DEF vars, Engine, EngineStep, EngineReply, EngineDropsTurn,
                     EngineAnswersPost, EngineRefusesPost, LatePrompt, Crash
<1>17. CASE TickStart \/ SchedStatus \/ SchedMessages \/ SchedReadFails \/ SchedCompacts
            \/ SchedCompactConflict \/ SchedSend
  BY <1>5, <1>17 DEF TickStart, SchedStatus, SchedMessages, SchedReadFails, SchedCompacts,
                     SchedCompactConflict, SchedSend
<1>18. CASE ReadFirst \/ ManualSendNoLoop \/ CreateStart \/ OpReads \/ OpReadFails
            \/ AbortArrives \/ AbortLost \/ ForwardManual \/ Revert
  BY <1>5, <1>18 DEF ReadFirst, ManualSendNoLoop, CreateStart, OpReads, OpReadFails,
                     AbortArrives, AbortLost, ForwardManual, Revert
<1> QED BY <1>6, <1>7, <1>8, <1>9, <1>10, <1>11, <1>12, <1>13, <1>14, <1>15, <1>16, <1>17,
           <1>18 DEF Next, Scheduler, Api, n

\* The engine's next message is counted if it is a goal prompt of the loop's.
LEMMA Answers ==
    ASSUME TypeOK, NEW l, NEW from, NEW loop, NEW kind, NEW res,
           AppendMsg(from, loop, kind, res), TypeOK'
    PROVE  Cardinality(Asked(transcript', l)) =
              Cardinality(Asked(transcript, l))
              + One(from = "prompt" /\ loop = l /\ kind = "goal")
<1> DEFINE m == Msg(from, loop, kind, res)
<1>1. transcript \in Seq(Message) /\ transcript' = Append(transcript, m)
  BY DEF TypeOK, EngineTypeOK, AppendMsg
<1>2. m \in Message
  <2>1. Len(transcript) \in Nat /\ DOMAIN transcript = 1 .. Len(transcript)
    BY <1>1, LenProperties
  <2>2. transcript' \in Seq(Message)
    BY DEF TypeOK, EngineTypeOK
  <2>3. transcript'[Len(transcript) + 1] = m /\ Len(transcript') = Len(transcript) + 1
    <3> HIDE DEF m
    <3> QED BY <1>1, <2>1
  <2> HIDE DEF m
  <2> QED BY <2>1, <2>2, <2>3
<1>3. Asks(m, l) <=> from = "prompt" /\ loop = l /\ kind = "goal"
  BY DEF Asks, Msg
<1> HIDE DEF m
<1> QED BY <1>1, <1>2, <1>3, AskedMore DEF One

\* A prompt that is taken is one that was counted already, under way or late.
LEMMA AccountedStep ==
    ASSUME TypeOK, TypeOK', Sound, Accounted, [Next]_vars
    PROVE  Accounted'
<1> SUFFICES ASSUME NEW l \in LoopIds
             PROVE  Cardinality(Asked(transcript', l)) + One(Straying(l)') + One(Underway(l)')
                       <= rows'[l].turnCount
  BY DEF Accounted, One
<1> DEFINE a == Cardinality(Asked(transcript, l))
           b == Cardinality(Asked(transcript', l))
           m == rows[l].turnCount
           n == rows'[l].turnCount
<1>0. /\ a \in Nat /\ b \in Nat /\ m \in Nat /\ n \in Nat
      /\ One(Straying(l)) \in {0, 1} /\ One(Straying(l)') \in {0, 1}
      /\ One(Underway(l)) \in {0, 1} /\ One(Underway(l)') \in {0, 1}
  BY AskedFinite DEF TypeOK, EngineTypeOK, Row, One
<1>1. a + One(Straying(l)) + One(Underway(l)) <= m
  BY DEF Accounted
<1>2. sched \in Ticks /\ late \subseteq Prompts /\ transcript \in Seq(Message)
  BY DEF TypeOK, TickTypeOK, EngineTypeOK
<1>3. ASSUME NEW p, NEW q, p => q PROVE One(p) <= One(q)
  BY <1>3 DEF One
<1> SUFFICES b + One(Straying(l)') + One(Underway(l)') <= n
  OBVIOUS
<1>4. \/ n >= m
      \/ /\ SchedPosted /\ sched.post = "refused" /\ sched.id = l
         /\ sched.dto.turnKind = "goal" /\ n = m - 1
  BY TurnsKept
<1>5. ASSUME UNCHANGED transcript PROVE b = a
  BY <1>5
<1>6. ASSUME UNCHANGED late PROVE One(Straying(l)') = One(Straying(l))
  BY <1>6 DEF Straying, One
<1>7. ASSUME sched'.pc \notin {"context", "posting"} PROVE One(Underway(l)') = 0
  BY <1>7 DEF Underway, One
<1>8. ASSUME EndTick PROVE sched'.pc = "idle"
  BY <1>8 DEF EndTick, NoTick
<1>9. ASSUME NEW from \in {"assistant", "user", "partial"}, NEW loop, NEW kind, NEW res,
             AppendMsg(from, loop, kind, res)
      PROVE  b = a
  <2>1. One(from = "prompt" /\ loop = l /\ kind = "goal") = 0
    BY DEF One
  <2> QED BY <1>0, <1>9, <2>1, Answers
<1> HIDE DEF a, b, m, n
<1>10. CASE SchedPosted
  <2>1. UNCHANGED <<transcript, late>> /\ EndTick /\ sched.pc = "posting"
    BY <1>10 DEF SchedPosted, engine
  <2>2. n >= m - 1 /\ (n < m => One(Underway(l)) = 1)
    BY <1>0, <1>4, <2>1 DEF Underway, One
  <2>3. One(Underway(l)') = 0 /\ b = a /\ One(Straying(l)') = One(Straying(l))
    BY <1>5, <1>6, <1>7, <1>8, <2>1
  <2> QED BY <1>0, <1>1, <2>2, <2>3
<1>11. CASE SchedClaim
  <2> DEFINE claimed == Claimed(rows[sched.id], LatestMessageId(sched.view))
  <2>1. UNCHANGED <<transcript, late>> /\ sched.pc \in {"decide", "compact", "compacted"}
    BY <1>11 DEF SchedClaim, BetweenTurns, engine
  <2>2. b = a /\ One(Straying(l)') = One(Straying(l)) /\ One(Underway(l)) = 0
    BY <1>5, <1>6, <2>1 DEF Underway, One
  <2>3. CASE EndTick /\ UNCHANGED rows
    BY <1>0, <1>1, <1>7, <1>8, <2>2, <2>3 DEF m, n
  <2>4. CASE /\ SetRow(sched.id, claimed)
             /\ sched' = [sched EXCEPT !.pc = "context", !.dto = claimed, !.view = <<>>]
    <3>1. CASE sched.id = l
      <4>1. rows[l] \in Row /\ rows'[l] = claimed
        BY <2>4, <3>1 DEF SetRow, TypeOK
      <4>2. claimed.turnKind = "goal" => claimed.turnCount = m + 1
        BY <3>1, <4>1 DEF Claimed, TurnsAfterClaim, Bump, Row, m
      <4>3. sched'.dto = claimed
        BY <1>2, <2>4 DEF Ticks
      <4>4. Underway(l)' => n = m + 1
        BY <4>1, <4>2, <4>3 DEF Underway, n
      <4>5. n >= m
        BY <1>4, <2>1 DEF SchedPosted
      <4> QED BY <1>0, <1>1, <2>2, <4>4, <4>5 DEF One
    <3>2. CASE sched.id # l
      <4>1. sched'.id # l
        BY <1>2, <2>4, <3>2 DEF Ticks
      <4>2. One(Underway(l)') = 0
        BY <4>1 DEF Underway, One
      <4>3. n >= m
        BY <1>4, <3>2
      <4> QED BY <1>0, <1>1, <2>2, <4>2, <4>3
    <3> QED BY <3>1, <3>2
  <2> QED BY <1>11, <2>3, <2>4 DEF SchedClaim
<1>12. CASE ~SchedPosted /\ ~SchedClaim
  <2>0. n >= m
    BY <1>4, <1>12
  <2> SUFFICES b + One(Straying(l)') + One(Underway(l)')
                  <= a + One(Straying(l)) + One(Underway(l))
    BY <1>0, <1>1, <2>0
  <2>1. ASSUME UNCHANGED <<late, sched>>
        PROVE  One(Straying(l)') = One(Straying(l)) /\ One(Underway(l)') = One(Underway(l))
    BY <2>1 DEF Straying, Underway, One
  <2>2. CASE EngineStep \/ EngineReply \/ EngineDropsTurn \/ AbortArrives \/ ForwardManual
    <3>1. UNCHANGED <<late, sched>>
      BY <2>2 DEF EngineStep, EngineReply, EngineDropsTurn, AbortArrives, ForwardManual
    <3>2. \/ UNCHANGED transcript
          \/ \E from \in {"assistant", "user", "partial"} : \E loop, kind, res :
                AppendMsg(from, loop, kind, res)
      BY <2>2 DEF EngineStep, EngineReply, EngineDropsTurn, AbortArrives, Interrupt,
                  ForwardManual, Take, engine
    <3>3. b = a
      BY <1>5, <1>9, <3>2
    <3> QED BY <1>0, <2>1, <3>1, <3>3
  <2>3. CASE EngineAnswersPost
    <3>1. /\ UNCHANGED late /\ sched.pc = "posting" /\ sched.post = "wire"
          /\ \/ /\ AppendMsg("prompt", sched.id, sched.dto.turnKind, "none")
                /\ sched' = [sched EXCEPT !.post = "accepted"]
             \/ sched' = [sched EXCEPT !.post = "busy"] /\ UNCHANGED transcript
      BY <2>3 DEF EngineAnswersPost, Take, engine
    <3>2. One(Underway(l)') = 0
      BY <1>2, <3>1 DEF Ticks, Underway, One
    <3>3. One(Straying(l)') = One(Straying(l))
      BY <1>6, <3>1
    <3>4. b <= a + One(Underway(l))
      <4>1. CASE UNCHANGED transcript
        BY <1>0, <1>5, <4>1
      <4>2. CASE AppendMsg("prompt", sched.id, sched.dto.turnKind, "none")
        <5>1. b = a + One("prompt" = "prompt" /\ sched.id = l /\ sched.dto.turnKind = "goal")
          BY <4>2, Answers DEF a, b
        <5> QED BY <1>0, <3>1, <5>1 DEF Underway, One
      <4> QED BY <3>1, <4>1, <4>2
    <3> QED BY <1>0, <3>2, <3>3, <3>4
  <2>4. CASE EngineRefusesPost \/ SchedSend
    <3>1. /\ UNCHANGED <<transcript, late>>
          /\ \/ /\ sched.pc = "posting" /\ sched.post = "wire"
                /\ sched' = [sched EXCEPT !.post = "refused"]
             \/ /\ sched.pc = "context"
                /\ sched' = [sched EXCEPT !.pc = "posting", !.post = "wire"]
      BY <2>4 DEF EngineRefusesPost, SchedSend, engine
    <3>2. Underway(l)' => Underway(l)
      BY <1>2, <3>1 DEF Ticks, Underway
    <3> QED BY <1>0, <1>3, <1>5, <1>6, <3>1, <3>2
  <2>5. CASE LatePrompt
    <3>1. PICK p \in late :
            /\ late' = late \ {p} /\ UNCHANGED sched
            /\ \/ AppendMsg("prompt", p.loop, p.kind, "none")
               \/ UNCHANGED transcript
      BY <2>5 DEF LatePrompt, Take, engine
    <3>2. p = [loop |-> l, kind |-> "goal"] <=> p.loop = l /\ p.kind = "goal"
      BY <1>2 DEF Prompts
    <3>3. One(Underway(l)') = One(Underway(l))
      BY <3>1 DEF Underway, One
    <3>4. b <= a + One(p.loop = l /\ p.kind = "goal")
      <4>1. CASE UNCHANGED transcript
        BY <1>0, <1>5, <4>1 DEF One
      <4>2. CASE AppendMsg("prompt", p.loop, p.kind, "none")
        <5>1. b = a + One("prompt" = "prompt" /\ p.loop = l /\ p.kind = "goal")
          BY <4>2, Answers DEF a, b
        <5> QED BY <1>0, <5>1 DEF One
      <4> QED BY <3>1, <4>1, <4>2
    <3>5. One(Straying(l)') + One(p.loop = l /\ p.kind = "goal") <= One(Straying(l))
      BY <3>1, <3>2 DEF Straying, One
    <3>6. One(p.loop = l /\ p.kind = "goal") \in {0, 1}
      BY DEF One
    <3> HIDE DEF a, b
    <3> QED BY <1>0, <3>3, <3>4, <3>5, <3>6
  <2>6. CASE TickStart \/ SchedExpire \/ SchedStatus \/ SchedMessages \/ SchedReadFails
             \/ SchedulerError \/ SchedReadsReply \/ SchedTurnLimit \/ SchedCompactConflict
    <3>1. UNCHANGED <<transcript, late>>
      BY <2>6 DEF TickStart, SchedExpire, SchedStatus, SchedMessages, SchedReadFails,
                  SchedulerError, SchedReadsReply, SchedTurnLimit, SchedCompactConflict, engine
    <3>2. sched'.pc \notin {"context", "posting"}
      BY <1>2, <1>8, <2>6 DEF TickStart, SchedExpire, SchedStatus, SchedMessages, SchedReadFails,
                  SchedulerError, SchedReadsReply, SchedTurnLimit, SchedCompactConflict,
                  NoTick, Ticks
    <3> QED BY <1>0, <1>5, <1>6, <1>7, <3>1, <3>2
  <2>7. CASE SchedCompacts
    <3>1. UNCHANGED late /\ sched'.pc \in {"compact", "compacted"}
      BY <1>2, <2>7 DEF SchedCompacts, Ticks
    <3>2. b <= a
      <4>1. CASE UNCHANGED transcript
        BY <1>0, <1>5, <4>1
      <4>2. CASE ~UNCHANGED transcript
        <5>1. nextMsg \in MsgIds
          BY <2>7, <4>2 DEF SchedCompacts, engine
        <5>2. Msg("assistant", 0, "goal", "none") \in Message
          BY <5>1 DEF Msg, Message, Kinds
        <5>3. PICK kept \in {<<>>, transcript} :
                 transcript' = Append(kept, Msg("assistant", 0, "goal", "none"))
          BY <2>7, <4>2 DEF SchedCompacts, engine
        <5>4. kept \in Seq(Message) /\ Cardinality(Asked(kept, l)) <= a
          <6>1. CASE kept = <<>>
            BY <1>0, <6>1, AskedNone
          <6>2. CASE kept = transcript
            BY <1>0, <1>2, <6>2 DEF a
          <6> QED BY <6>1, <6>2
        <5>5. One(Asks(Msg("assistant", 0, "goal", "none"), l)) = 0
          BY DEF Asks, Msg, One
        <5> HIDE DEF a
        <5>6. b = Cardinality(Asked(kept, l))
                    + One(Asks(Msg("assistant", 0, "goal", "none"), l))
          BY <5>2, <5>3, <5>4, AskedMore DEF b
        <5>7. Cardinality(Asked(kept, l)) \in Nat
          BY <5>4, AskedFinite
        <5> QED BY <1>0, <5>4, <5>5, <5>6, <5>7
      <4> QED BY <4>1, <4>2
    <3> QED BY <1>0, <1>6, <1>7, <3>1, <3>2
  <2>8. CASE SchedPostTimeout \/ Crash
    <3>1. UNCHANGED transcript /\ Abandon /\ EndTick
      BY <2>8 DEF SchedPostTimeout, Crash, engine
    <3>2. One(Underway(l)') = 0 /\ b = a
      BY <1>5, <1>7, <1>8, <3>1
    <3>3. One(Straying(l)') <= One(Straying(l)) + One(Underway(l))
      BY <3>1 DEF Abandon, Straying, Underway, One
    <3> QED BY <1>0, <3>2, <3>3
  <2>9. CASE Revert
    <3>1. PICK k \in 0 .. Len(transcript) : transcript' = SubSeq(transcript, 1, k)
      BY <2>9 DEF Revert
    <3>2. UNCHANGED <<late, sched>>
      BY <2>9 DEF Revert
    <3>3. b <= a
      BY <1>2, <3>1, AskedLess DEF a, b
    <3> QED BY <1>0, <2>1, <3>2, <3>3
  <2>10. CASE UNCHANGED vars \/ TurnTimeout \/ Pause \/ Stop \/ Dismiss \/ UpdateMaxTurns
              \/ ReadFirst \/ ManualSendNoLoop \/ CreateStart \/ OpReads \/ OpReadFails
              \/ CreateCommit \/ ResumeCommit \/ ManualCommit \/ AbortLost
    <3>1. UNCHANGED <<transcript, late, sched>>
      BY <2>10 DEF vars, TurnTimeout, Pause, Stop, Dismiss, UpdateMaxTurns, ReadFirst,
                   ManualSendNoLoop, CreateStart, OpReads, OpReadFails, CreateCommit,
                   ResumeCommit, ManualCommit, AbortLost, engine
    <3> QED BY <1>0, <1>5, <2>1, <3>1
  <2> QED BY <1>12, <2>2, <2>3, <2>4, <2>5, <2>6, <2>7, <2>8, <2>9, <2>10
          DEF Next, Engine, Scheduler, Api
<1> QED BY <1>10, <1>11, <1>12

\* Every goal prompt that was sent or is on its way spends one turn of the budget:
\* no pause during a send, no ambiguous delivery and no crash lets the agent work
\* for more turns than are counted.
THEOREM TurnsAreCounted == Spec => []GoalTurnsAccounted
<1>1. Init => Accounted
  <2> SUFFICES ASSUME Init, NEW l \in LoopIds
               PROVE  Cardinality(Asked(transcript, l)) + One(Straying(l)) + One(Underway(l))
                         <= rows[l].turnCount
    BY DEF Accounted
  <2>1. transcript = <<>> /\ late = {} /\ rows[l] = NoRow
    BY DEF Init
  <2>2. sched.pc = "idle"
    BY DEF Init, NoTick
  <2>3. NoRow.turnCount = 0
    BY Zenon DEF NoRow
  <2> QED BY <2>1, <2>2, <2>3, AskedNone DEF Straying, Underway, One
<1>2. TypeOK /\ TypeOK' /\ Sound /\ Accounted /\ [Next]_vars => Accounted'
  BY AccountedStep
<1>3. TypeOK /\ Accounted => GoalTurnsAccounted
  <2> SUFFICES ASSUME TypeOK, Accounted, NEW l \in LoopIds
               PROVE  GoalPromptsOf(l) <= rows[l].turnCount
    BY DEF GoalTurnsAccounted
  <2>1. /\ Cardinality(Asked(transcript, l)) \in Nat /\ rows[l].turnCount \in Nat
        /\ One(Straying(l)) \in {0, 1} /\ One(Underway(l)) \in {0, 1}
    BY AskedFinite DEF TypeOK, EngineTypeOK, Row, One
  <2> DEFINE onWire == sched.pc = "posting" /\ sched.post = "wire" /\ sched.id = l
                       /\ sched.dto.turnKind = "goal"
  <2>2. One(onWire) <= One(Underway(l)) /\ One(onWire) \in {0, 1}
    BY DEF Underway, One
  <2>3. GoalPromptsOf(l) = Cardinality(Asked(transcript, l)) + One(Straying(l)) + One(onWire)
    BY DEF GoalPromptsOf, Asked, Asks, Straying, One
  <2>4. Cardinality(Asked(transcript, l)) + One(Straying(l)) + One(Underway(l))
           <= rows[l].turnCount
    BY DEF Accounted
  <2> HIDE DEF onWire
  <2> QED BY <2>1, <2>2, <2>3, <2>4
<1> QED BY <1>1, <1>2, <1>3, TypeCorrect, RowsAreSound, PTL DEF Spec

-----------------------------------------------------------------------------
(* A loop that was never replaced reads its session's transcript once *)

Ids(t) == {t[i].id : i \in DOMAIN t}

\* The ids of a transcript rise, and the engine gives the next one.
Rising(t) == \A i, j \in DOMAIN t : i < j => t[i].id < t[j].id

Below(t) == \A id \in Ids(t) : id < nextMsg

Ordered(t) == Rising(t) /\ Below(t)

\* The messages a row has read: its results' and the one at its boundary.
Stored(row) == Ids(row.progress)

Written(row) == Stored(row) \cup {row.boundary}

\* No result of the row's is past its boundary in the transcript, so none can be
\* read again.
Past(row, t) == \A id \in Stored(row) : id \in Ids(t) => id <= row.boundary

Once(row) == \A i, j \in DOMAIN row.progress :
                row.progress[i].id = row.progress[j].id => i = j

ReadsOnce(row) ==
    /\ Past(row, transcript) /\ Once(row)
    /\ \A id \in Written(row) : id < nextMsg

\* A transcript that is still good to read the row's reply from: what the row has
\* read is behind its boundary, or was there, or is gone by now.
Fits(row, view) ==
    /\ Past(row, view)
    /\ \A id \in Written(row) : id \in Ids(transcript) => id \in Ids(view)

\* The tick or the request has read the transcript for the row as it is.
TickHolds(l, view) ==
    /\ sched.pc \in {"decide", "compact", "compacted"} /\ sched.view = view
    /\ sched.id = l /\ sched.dto.revision = rows[l].revision

OpHolds(c, l, view) ==
    /\ op[c].pc = "act" /\ op[c].req \in {"resume", "manual"} /\ op[c].readable
    /\ op[c].view = view /\ op[c].id = l /\ op[c].dto.revision = rows[l].revision

Holds(l, view) == TickHolds(l, view) \/ \E c \in Clients : OpHolds(c, l, view)

Views == {sched.view} \cup {op[c].view : c \in Clients}

Reading ==
    /\ nextMsg > 0 /\ Ordered(transcript)
    /\ \A view \in Views : Ordered(view)
    /\ \A l \in LoopIds : Unreplaced(l) =>
          /\ ReadsOnce(rows[l])
          /\ \A view \in Views : Holds(l, view) => Fits(rows[l], view)

\* A message past the boundary has a higher id.
LEMMA PastBoundary ==
    ASSUME NEW t \in Seq(Message), Rising(t), NEW boundary \in Nat,
           NEW i \in AfterBoundary(t, boundary)
    PROVE  i \in DOMAIN t /\ t[i] \in Message /\ boundary < t[i].id /\ t[i].id \in Ids(t)
<1>1. i \in DOMAIN t /\ t[i] \in Message
  BY LenProperties, ElementOfSeq DEF AfterBoundary
<1>2. t[i].id \in Nat \ {0} /\ t[i].id \in Ids(t)
  BY <1>1, MsgIdsAssumption DEF Message, Ids
<1>3. CASE boundary = 0
  BY <1>1, <1>2, <1>3
<1>4. CASE boundary # 0
  BY <1>1, <1>2, <1>4 DEF AfterBoundary, Rising
<1> QED BY <1>1, <1>2, <1>3, <1>4

\* The reply a resume recovers is past the boundary.
LEMMA RecoveredPast ==
    ASSUME NEW t \in Seq(Message), NEW boundary, Recoverable(t, boundary) # {}
    PROVE  \E i \in AfterBoundary(t, boundary) : Recovered(t, boundary) = t[i]
<1> DEFINE prompts == {i \in AfterBoundary(t, boundary) : t[i].from = "prompt"}
           i == Max(Recoverable(t, boundary))
<1>1. Len(t) \in Nat /\ DOMAIN t = 1 .. Len(t)
  BY LenProperties
<1>2. Recoverable(t, boundary) \in SUBSET (1 .. Len(t))
  BY <1>1 DEF Recoverable
<1>3. i \in Recoverable(t, boundary)
  BY <1>1, <1>2, LastPosition
<1>4. prompts # {} /\ i > Max(prompts) /\ i \in DOMAIN t
  BY <1>3 DEF Recoverable
<1>5. prompts \in SUBSET (1 .. Len(t))
  BY <1>1 DEF AfterBoundary
<1>6. Max(prompts) \in prompts
  BY <1>1, <1>4, <1>5, LastPosition
<1> HIDE DEF i
<1>7. i \in AfterBoundary(t, boundary)
  <2> DEFINE last == Max(prompts)
  <2>1. last \in AfterBoundary(t, boundary) /\ last \in 1 .. Len(t) /\ i \in 1 .. Len(t) /\ i > last
    BY <1>1, <1>4, <1>5, <1>6
  <2> HIDE DEF last, prompts
  <2> QED BY <1>1, <2>1 DEF AfterBoundary
<1> QED BY <1>7 DEF Recovered, i

\* The tail is the highest.
LEMMA TailIsHighest ==
    ASSUME NEW t \in Seq(Message), Rising(t)
    PROVE  /\ LatestMessageId(t) \in Ids(t) \cup {0}
           /\ \A id \in Ids(t) : id <= LatestMessageId(t)
<1>1. Len(t) \in Nat /\ DOMAIN t = 1 .. Len(t)
  BY LenProperties
<1>2. CASE t = <<>>
  <2>1. Ids(t) = {}
    BY <1>2 DEF Ids
  <2> QED BY <1>2, <2>1 DEF LatestMessageId
<1>3. CASE t # <<>>
  <2>1. Len(t) \in DOMAIN t
    BY <1>1, <1>3, EmptySeq
  <2>2. LatestMessageId(t) = t[Len(t)].id /\ t[Len(t)].id \in Ids(t)
    BY <1>3, <2>1 DEF LatestMessageId, Ids
  <2>3. ASSUME NEW i \in DOMAIN t PROVE t[i].id <= t[Len(t)].id
    <3>1. t[i].id \in Nat /\ t[Len(t)].id \in Nat
      <4>1. t[i] \in Message /\ t[Len(t)] \in Message
        BY <2>1, <2>3, <1>1, ElementOfSeq
      <4> QED BY <4>1, MsgIdsAssumption DEF Message
    <3> QED BY <1>1, <2>1, <2>3, <3>1 DEF Rising
  <2> QED BY <2>2, <2>3 DEF Ids
<1> QED BY <1>2, <1>3

\* What a step does to a row's boundary and results: nothing, or the row appears,
\* or it moves to the tail of a transcript read for it, or to a reply past its
\* boundary there, which may become a result.
Kept(row, new) == new.boundary = row.boundary /\ new.progress = row.progress

Appears(row, new) ==
    /\ row = NoRow /\ new.progress = <<>>
    /\ \E view \in Views : new.boundary = LatestMessageId(view)

Skips(row, new, view) ==
    /\ new.boundary = LatestMessageId(view) /\ new.progress = row.progress
    /\ new.revision > row.revision

TakesIn(row, new, view) ==
    /\ \E i \in AfterBoundary(view, row.boundary) :
          /\ new.boundary = view[i].id
          /\ \/ new.progress = row.progress
             \/ \E res : new.progress = Append(row.progress, [view[i] EXCEPT !.res = res])
    /\ new.revision > row.revision

\* The rules that do not touch what was read.
LEMMA RulesKeepPlace ==
    ASSUME NEW row \in Row, NEW dto, NEW m
    PROVE  /\ Kept(row, ExpireFirst(row, dto)) /\ Kept(row, ExpireStalledTurn(row, dto))
           /\ Kept(row, PauseAfterUnknownPromptDelivery(row, dto))
           /\ Kept(row, PauseForLostBoundary(row, dto)) /\ Kept(row, CatchAll(row))
           /\ Kept(row, PauseRow(row, m)) /\ Kept(row, RecoverAfterRejectedPrompt(row, dto))
           /\ Kept(row, PauseByUser(row)) /\ Kept(row, Stopped(row, m))
           /\ Kept(row, [Bump(row) EXCEPT !.dismissed = TRUE])
           /\ Kept(row, [Bump(row) EXCEPT !.maxTurns = m])
           /\ Kept(row, ResumeUnreadable(row, dto))
           /\ Kept(row, [row EXCEPT !.promptAt = "old"])
<1>1. ASSUME NEW why PROVE Kept(row, PauseRow(row, why))
  BY DEF Kept, PauseRow, Bump, Row
<1>2. Kept(row, row)
  BY DEF Kept
<1>3. Kept(row, RecoverAfterRejectedPrompt(row, dto))
  BY <1>2 DEF Kept, RecoverAfterRejectedPrompt, Bump, Row
<1>4. Kept(row, PauseByUser(row))
  BY DEF Kept, PauseByUser, PauseRow, Bump, Row
<1>5. /\ Kept(row, Stopped(row, m)) /\ Kept(row, [Bump(row) EXCEPT !.dismissed = TRUE])
      /\ Kept(row, [Bump(row) EXCEPT !.maxTurns = m])
      /\ Kept(row, [row EXCEPT !.promptAt = "old"]) /\ Kept(row, Bump(row))
  BY DEF Kept, Stopped, Bump, Row
<1> QED BY <1>1, <1>2, <1>3, <1>4, <1>5
        DEF ExpireFirst, ExpireStalledTurn, PauseAfterUnknownPromptDelivery,
            PauseForLostBoundary, CatchAll, ResumeUnreadable

\* A reply that is applied is past the row's boundary in what its reader read.
LEMMA ReplyTakesIn ==
    ASSUME NEW row \in Row, NEW dto \in Row, Agrees(dto, row), NEW view,
           NEW i \in AfterBoundary(view, dto.boundary)
    PROVE  /\ \/ ApplyResult(row, dto, view[i]) = row
              \/ /\ dto.revision = row.revision
                 /\ TakesIn(row, ApplyResult(row, dto, view[i]), view)
           /\ \/ ApplyUnreadable(row, dto, view[i]) = row
              \/ /\ dto.revision = row.revision
                 /\ TakesIn(row, ApplyUnreadable(row, dto, view[i]), view)
<1> DEFINE m == view[i]
           stored == [m EXCEPT !.res = EffectiveResult(dto, m)]
<1>1. CASE ~SameTurn(row, dto)
  BY <1>1 DEF ApplyResult, ApplyUnreadable
<1>2. CASE SameTurn(row, dto)
  <2>1. /\ dto.revision = row.revision /\ dto.boundary = row.boundary
        /\ dto.progress = row.progress
    BY <1>2, CopyFields DEF SameTurn
  <2>2. Bump(row) \in Row /\ Bump(row).revision = row.revision + 1 /\ row.revision \in Nat
        /\ Bump(row).progress = row.progress
    BY BumpTyped DEF Bump, Row
  <2> HIDE DEF m
  <2>3. /\ ApplyResult(row, dto, m).boundary = m.id
        /\ ApplyResult(row, dto, m).progress = Append(row.progress, stored)
        /\ ApplyResult(row, dto, m).revision = row.revision + 1
    BY <1>2, <2>1, <2>2 DEF ApplyResult, ReadUpTo, Row
  <2>4. /\ ApplyUnreadable(row, dto, m).boundary = m.id
        /\ ApplyUnreadable(row, dto, m).progress = row.progress
        /\ ApplyUnreadable(row, dto, m).revision = row.revision + 1
    BY <1>2, <2>2 DEF ApplyUnreadable, PauseRow, Row
  <2>5. TakesIn(row, ApplyResult(row, dto, m), view)
    <3> DEFINE new == ApplyResult(row, dto, m)
    <3>1. new.revision > row.revision
      BY <2>2, <2>3
    <3>2. \E res : new.progress = Append(row.progress, [view[i] EXCEPT !.res = res])
      BY <2>3, Zenon DEF m
    <3>3. new.boundary = view[i].id
      BY <2>3 DEF m
    <3>4. i \in AfterBoundary(view, row.boundary)
      BY <2>1
    <3> HIDE DEF new
    <3>5. TakesIn(row, new, view)
      BY <3>1, <3>2, <3>3, <3>4, Zenon DEF TakesIn
    <3> QED BY <3>5 DEF new
  <2>6. TakesIn(row, ApplyUnreadable(row, dto, m), view)
    BY <2>1, <2>2, <2>4 DEF TakesIn, m
  <2> QED BY <2>1, <2>5, <2>6 DEF m
<1> QED BY <1>1, <1>2

\* A resume reads past the boundary, or starts from the tail, or keeps its place.
LEMMA ResumePlaces ==
    ASSUME NEW row \in Row, NEW dto \in Row, Agrees(dto, row), NEW view \in Seq(Message)
    PROVE  LET new == ResumeRow(row, dto, view)
           IN  \/ Kept(row, new)
               \/ /\ dto.revision = row.revision
                  /\ Skips(row, new, view) \/ TakesIn(row, new, view)
<1> DEFINE new == ResumeRow(row, dto, view)
           place == dto.boundary
           m == Recovered(view, place)
<1>1. CASE ~(row.status = "paused" /\ row.revision = dto.revision)
  BY <1>1 DEF ResumeRow, Kept
<1>2. CASE row.status = "paused" /\ row.revision = dto.revision
  <2>1. dto.boundary = row.boundary /\ dto.progress = row.progress
    BY <1>2, CopyFields
  <2>2. CASE MayRecover(dto) /\ Recoverable(view, place) # {}
    <3>1. PICK i \in AfterBoundary(view, place) : m = view[i]
      BY <2>2, RecoveredPast
    <3>2. new = ApplyResult(Reopened(row), Reopened(dto), m)
      BY <1>2, <2>2, Zenon DEF ResumeRow, Reopened
    <3> DEFINE a == Reopened(row)
               b == Reopened(dto)
    <3>3. /\ a \in Row /\ b \in Row /\ a.status = "running"
          /\ a.revision = row.revision + 1 /\ b.revision = row.revision + 1
          /\ a.boundary = row.boundary /\ b.boundary = row.boundary
          /\ a.progress = row.progress /\ b.progress = row.progress
      BY <1>2, <2>1, ReopenedFields
    <3> HIDE DEF a, b
    <3>4. SameTurn(a, b)
      BY <3>3 DEF SameTurn
    <3>5. row.revision \in Nat
      BY DEF Row
    <3> HIDE DEF m
    <3>6. /\ ApplyResult(a, b, m).boundary = m.id
          /\ ApplyResult(a, b, m).progress
                = Append(row.progress, [m EXCEPT !.res = EffectiveResult(b, m)])
          /\ ApplyResult(a, b, m).revision = row.revision + 2
      <4>1. Bump(a) \in Row /\ Bump(a).revision = row.revision + 2
        <5>1. Bump(a) \in Row
          BY <3>3, BumpTyped
        <5>2. Bump(a).revision = a.revision + 1
          BY <3>3 DEF Bump, Row
        <5> QED BY <3>3, <3>5, <5>1, <5>2
      <4> QED BY <3>3, <3>4, <4>1 DEF ApplyResult, ReadUpTo, Row
    <3>7. TakesIn(row, ApplyResult(a, b, m), view)
      <4> DEFINE end == ApplyResult(a, b, m)
      <4>1. end.revision > row.revision
        BY <3>5, <3>6
      <4>2. \E res : end.progress = Append(row.progress, [view[i] EXCEPT !.res = res])
        BY <3>1, <3>6, Zenon
      <4>3. end.boundary = view[i].id
        BY <3>1, <3>6
      <4>4. i \in AfterBoundary(view, row.boundary)
        BY <2>1, <3>1
      <4> HIDE DEF end
      <4>5. TakesIn(row, end, view)
        BY <4>1, <4>2, <4>3, <4>4, Zenon DEF TakesIn
      <4> QED BY <4>5 DEF end
    <3> QED BY <1>2, <3>2, <3>7 DEF a, b
  <2>3. CASE ~(MayRecover(dto) /\ Recoverable(view, place) # {}) /\ MustHold(dto)
    <3>1. new = Bump(row)
      BY <1>2, <2>3 DEF ResumeRow
    <3> QED BY <3>1 DEF Kept, Bump, Row
  <2>4. CASE ~(MayRecover(dto) /\ Recoverable(view, place) # {}) /\ ~MustHold(dto)
    <3> DEFINE none == ""
    <3>1. new = [Bump(row) EXCEPT
                   !.status = ResumeStatus(dto), !.pauseReason = none,
                   !.rejected = IF dto.pauseReason = "verification_rejected" THEN 0
                                ELSE dto.rejected,
                   !.boundary = LatestMessageId(view)]
      BY <1>2, <2>4, Zenon DEF ResumeRow
    <3> HIDE DEF none, new
    <3>2. /\ new.boundary = LatestMessageId(view) /\ new.progress = row.progress
          /\ new.revision = row.revision + 1 /\ row.revision \in Nat
      BY <3>1 DEF Bump, Row
    <3> QED BY <1>2, <3>2 DEF Skips, new
  <2> QED BY <2>2, <2>3, <2>4
<1> QED BY <1>1, <1>2

\* A row that exists is never taken back to an earlier revision.
LEMMA RevisionGrows ==
    ASSUME TypeOK, OpenLoopIsLatest, CopiesAgree, [Next]_vars, NEW l \in Existing
    PROVE  rows'[l].revision >= rows[l].revision
<1>1. \/ rows'[l] = rows[l]
      \/ rows'[l] \in Row /\ Write(rows[l], rows'[l])
  BY ExistingWritten
<1>2. rows[l] \in Row /\ rows[l].revision \in Nat
  BY DEF TypeOK, Existing, Row
<1>3. ASSUME rows'[l] \in Row, Write(rows[l], rows'[l])
      PROVE  rows'[l].revision >= rows[l].revision
  <2>1. rows'[l].revision \in Nat
    BY <1>3 DEF Row
  <2>2. rows'[l].revision > rows[l].revision \/ rows'[l] = [rows[l] EXCEPT !.promptAt = "old"]
    BY <1>2, <1>3, WriteMovesOn
  <2> DEFINE m == rows[l].revision
             n == rows'[l].revision
             aged == [rows[l] EXCEPT !.promptAt = "old"]
  <2>3. aged.revision = m
    BY <1>2 DEF Row
  <2>4. n > m \/ n = aged.revision
    BY <2>2
  <2>5. m \in Nat /\ n \in Nat
    BY <1>2, <2>1
  <2> HIDE DEF m, n, aged
  <2>6. n >= m
    BY <2>3, <2>4, <2>5
  <2> QED BY <2>6 DEF m, n
<1> QED BY <1>1, <1>2, <1>3

\* What the scheduler writes to the row it works on.
LEMMA TickMoves ==
    ASSUME TypeOK, CopiesAgree, Scheduler, NEW l \in LoopIds
    PROVE  \/ Kept(rows[l], rows'[l])
           \/ \E view \in Views :
                 /\ Holds(l, view)
                 /\ Skips(rows[l], rows'[l], view) \/ TakesIn(rows[l], rows'[l], view)
<1> DEFINE id == sched.id
           row == rows[id]
           dto == sched.dto
           view == sched.view
<1>0. rows \in [LoopIds -> Row] /\ rows[l] \in Row
  BY DEF TypeOK
<1>1. sched.pc # "idle" => /\ id \in LoopIds /\ dto \in Row /\ row \in Row
                           /\ view \in Seq(Message) /\ Agrees(dto, row)
  BY <1>0 DEF TypeOK, TickTypeOK, Ticks, CopiesAgree
<1>2. Kept(rows[l], rows[l])
  BY DEF Kept
<1>3. ASSUME NEW new, SetRow(id, new), id \in LoopIds
      PROVE  rows'[l] = IF l = id THEN new ELSE rows[l]
  BY <1>0, <1>3 DEF SetRow
<1>4. ASSUME NEW new, SetRow(id, new), id \in LoopIds, Kept(row, new)
      PROVE  Kept(rows[l], rows'[l])
  BY <1>2, <1>3, <1>4
<1>5. view \in Views
  BY DEF Views
<1>6. CASE SchedReadsReply
  <2> DEFINE i == Len(view)
  <2>1. /\ sched.pc = "decide"
        /\ \/ SetRow(id, PauseForLostBoundary(row, dto))
           \/ SetRow(id, ExpireStalledTurn(row, dto))
           \/ /\ HasFinalAssistant(view, dto.boundary)
              /\ \/ SetRow(id, ApplyResult(row, dto, view[i]))
                 \/ SetRow(id, ApplyUnreadable(row, dto, view[i]))
    BY <1>6 DEF SchedReadsReply
  <2>2. id \in LoopIds /\ dto \in Row /\ row \in Row /\ Agrees(dto, row)
    BY <1>1, <2>1
  <2>3. CASE SetRow(id, PauseForLostBoundary(row, dto)) \/ SetRow(id, ExpireStalledTurn(row, dto))
    BY <1>4, <2>2, <2>3, RulesKeepPlace
  <2>4. ASSUME NEW new, SetRow(id, new), HasFinalAssistant(view, dto.boundary),
               \/ new = row
               \/ dto.revision = row.revision /\ TakesIn(row, new, view)
        PROVE  \/ Kept(rows[l], rows'[l])
               \/ Holds(l, view) /\ TakesIn(rows[l], rows'[l], view)
    <3>1. rows'[l] = IF l = id THEN new ELSE rows[l]
      BY <1>3, <2>2, <2>4
    <3>2. CASE l = id /\ dto.revision = row.revision /\ TakesIn(row, new, view)
      <4>1. Holds(l, view)
        BY <2>1, <3>2 DEF Holds, TickHolds
      <4> QED BY <3>1, <3>2, <4>1
    <3>3. CASE l # id \/ new = row
      BY <1>2, <3>1, <3>3
    <3> QED BY <2>4, <3>2, <3>3
  <2>5. CASE /\ HasFinalAssistant(view, dto.boundary)
             /\ \/ SetRow(id, ApplyResult(row, dto, view[i]))
                \/ SetRow(id, ApplyUnreadable(row, dto, view[i]))
    <3>1. i \in AfterBoundary(view, dto.boundary)
      BY <2>5 DEF HasFinalAssistant
    <3>2. /\ \/ ApplyResult(row, dto, view[i]) = row
             \/ /\ dto.revision = row.revision
                /\ TakesIn(row, ApplyResult(row, dto, view[i]), view)
          /\ \/ ApplyUnreadable(row, dto, view[i]) = row
             \/ /\ dto.revision = row.revision
                /\ TakesIn(row, ApplyUnreadable(row, dto, view[i]), view)
      <4> HIDE DEF i, row, dto, view
      <4> QED BY <2>2, <3>1, ReplyTakesIn
    <3> HIDE DEF i, row, dto, view
    <3>3. CASE SetRow(id, ApplyResult(row, dto, view[i]))
      BY <1>5, <2>4, <2>5, <3>2, <3>3
    <3>4. CASE SetRow(id, ApplyUnreadable(row, dto, view[i]))
      BY <1>5, <2>4, <2>5, <3>2, <3>4
    <3> QED BY <2>5, <3>3, <3>4
  <2> QED BY <2>1, <2>3, <2>5
<1>7. CASE SchedClaim
  <2> DEFINE claimed == Claimed(row, LatestMessageId(view))
  <2>1. sched.pc \in {"decide", "compact", "compacted"}
    BY <1>7 DEF SchedClaim, BetweenTurns
  <2>2. id \in LoopIds /\ row \in Row
    BY <1>1, <2>1
  <2>3. CASE CanClaim(row, dto) /\ SetRow(id, claimed)
    <3>1. rows'[l] = IF l = id THEN claimed ELSE rows[l]
      BY <1>3, <2>2, <2>3
    <3>2. CASE l = id
      <4>1. /\ claimed.boundary = LatestMessageId(view) /\ claimed.progress = row.progress
            /\ claimed.revision = row.revision + 1 /\ row.revision \in Nat
        BY <2>2 DEF Claimed, Bump, Row
      <4>2. dto.revision = row.revision
        BY <2>3 DEF CanClaim
      <4>3. Holds(l, view)
        BY <2>1, <3>2, <4>2 DEF Holds, TickHolds
      <4> HIDE DEF claimed
      <4>4. claimed.revision > row.revision
        BY <4>1
      <4>5. Skips(rows[l], rows'[l], view)
        BY <3>1, <3>2, <4>1, <4>4 DEF Skips
      <4> QED BY <1>5, <4>3, <4>5
    <3>3. CASE l # id
      BY <1>2, <3>1, <3>3
    <3> QED BY <3>2, <3>3
  <2>4. CASE UNCHANGED rows
    BY <1>2, <2>4
  <2> QED BY <1>7, <2>3, <2>4 DEF SchedClaim
<1>8. CASE SchedExpire \/ SchedulerError \/ SchedTurnLimit \/ SchedPosted \/ SchedPostTimeout
  <2>1. /\ sched.pc # "idle"
        /\ \/ UNCHANGED rows
           \/ SetRow(id, ExpireFirst(row, dto))
           \/ SetRow(id, CatchAll(row))
           \/ SetRow(id, PauseRow(row, "turn_limit"))
           \/ SetRow(id, RecoverAfterRejectedPrompt(row, dto))
           \/ SetRow(id, PauseAfterUnknownPromptDelivery(row, dto))
    BY <1>8 DEF SchedExpire, SchedulerError, SchedTurnLimit, SchedPosted, SchedPostTimeout
  <2>2. id \in LoopIds /\ row \in Row
    BY <1>1, <2>1
  <2>3. /\ Kept(row, ExpireFirst(row, dto)) /\ Kept(row, CatchAll(row))
        /\ Kept(row, PauseRow(row, "turn_limit"))
        /\ Kept(row, RecoverAfterRejectedPrompt(row, dto))
        /\ Kept(row, PauseAfterUnknownPromptDelivery(row, dto))
    BY <2>2, RulesKeepPlace
  <2> QED BY <1>2, <1>4, <2>1, <2>2, <2>3
<1>9. CASE TickStart \/ SchedStatus \/ SchedMessages \/ SchedReadFails \/ SchedCompacts
           \/ SchedCompactConflict \/ SchedSend
  BY <1>2, <1>9 DEF TickStart, SchedStatus, SchedMessages, SchedReadFails, SchedCompacts,
                    SchedCompactConflict, SchedSend
<1> QED BY <1>6, <1>7, <1>8, <1>9 DEF Scheduler

\* What a request writes to the row of a loop that was never replaced.
LEMMA RequestMoves ==
    ASSUME TypeOK, Sound, Copies, Api, NEW l \in LoopIds, Unreplaced(l)
    PROVE  \/ Kept(rows[l], rows'[l])
           \/ Appears(rows[l], rows'[l])
           \/ \E view \in Views :
                 /\ Holds(l, view)
                 /\ Skips(rows[l], rows'[l], view) \/ TakesIn(rows[l], rows'[l], view)
<1>0. rows \in [LoopIds -> Row] /\ op \in [Clients -> Ops] /\ rows[l] \in Row
  BY DEF TypeOK, OpTypeOK
<1>1. Kept(rows[l], rows[l])
  BY DEF Kept
<1>2. ASSUME NEW k \in LoopIds, NEW new, SetRow(k, new)
      PROVE  rows'[l] = IF l = k THEN new ELSE rows[l]
  BY <1>0, <1>2 DEF SetRow
<1>3. \A k \in LoopIds : rows[k] \in Row
  BY <1>0
<1>4. CASE Pause \/ Stop \/ Dismiss \/ UpdateMaxTurns
  <2>1. PICK k, m :
           /\ k \in LoopIds
           /\ \/ SetRow(k, PauseByUser(rows[k]))
              \/ SetRow(k, Stopped(rows[k], m))
              \/ SetRow(k, [Bump(rows[k]) EXCEPT !.dismissed = TRUE])
              \/ SetRow(k, [Bump(rows[k]) EXCEPT !.maxTurns = m])
    BY <1>4 DEF Pause, Stop, Dismiss, UpdateMaxTurns
  <2>2. /\ Kept(rows[k], PauseByUser(rows[k])) /\ Kept(rows[k], Stopped(rows[k], m))
        /\ Kept(rows[k], [Bump(rows[k]) EXCEPT !.dismissed = TRUE])
        /\ Kept(rows[k], [Bump(rows[k]) EXCEPT !.maxTurns = m])
    BY <1>3, <2>1, RulesKeepPlace
  <2> QED BY <1>1, <1>2, <2>1, <2>2
<1>5. CASE CreateCommit
  <2>1. PICK c \in Clients, n \in LoopIds, max \in TurnLimits, full \in FullRun :
          /\ \A k \in Existing : k < n
          /\ Insert(n, NewRow(op[c].readable, LatestMessageId(op[c].view), max, full))
    BY <1>5 DEF CreateCommit
  <2>2. CASE l = n
    <3>1. n \notin Existing
      <4>1. ~(n < n)
        BY LoopIdsAssumption
      <4> QED BY <2>1, <4>1
    <3>2. rows[l] = NoRow
      BY <2>2, <3>1 DEF Sound, SoundRow, Unwritten, Existing
    <3>3. rows'[l] = NewRow(op[c].readable, LatestMessageId(op[c].view), max, full)
      BY <2>1, <2>2 DEF Insert
    <3>4. ASSUME NEW readable, NEW tail
          PROVE  /\ NewRow(readable, tail, max, full).progress = <<>>
                 /\ NewRow(readable, tail, max, full).boundary = tail
      <4> DEFINE absent == NoRow
                 none == ""
                 status == IF readable THEN "queued" ELSE "paused"
                 reason == IF readable THEN none ELSE "transcript_unreadable"
                 new == [absent EXCEPT !.status = status, !.pauseReason = reason,
                                       !.boundary = tail, !.maxTurns = max, !.full = full]
      <4>1. new = NewRow(readable, tail, max, full)
        BY Zenon DEF NewRow
      <4>2. absent \in Row /\ absent.progress = <<>>
        <5>1. NoRow.progress = <<>>
          BY Zenon DEF NoRow
        <5> QED BY <5>1, NoRowTyped
      <4> HIDE DEF absent, none, status, reason
      <4>3. new.progress = <<>> /\ new.boundary = tail
        BY <4>2 DEF Row
      <4> HIDE DEF new
      <4> QED BY <4>1, <4>3
    <3>5. op[c].view \in Views
      BY DEF Views
    <3> QED BY <3>2, <3>3, <3>4, <3>5 DEF Appears
  <2>3. CASE l # n
    <3>1. rows'[l] \in {rows[l], Stopped(rows[l], FALSE)}
      BY <2>1, <2>3 DEF Insert
    <3>2. Kept(rows[l], Stopped(rows[l], FALSE))
      BY <1>0, RulesKeepPlace
    <3> QED BY <1>1, <3>1, <3>2
  <2> QED BY <2>2, <2>3
<1>6. CASE ResumeCommit
  <2>1. PICK c \in Clients :
          /\ op[c].pc = "act" /\ op[c].req = "resume"
          /\ SetRow(op[c].id, IF op[c].readable
                              THEN ResumeRow(rows[op[c].id], op[c].dto, op[c].view)
                              ELSE ResumeUnreadable(rows[op[c].id], op[c].dto))
    BY <1>6 DEF ResumeCommit
  <2> DEFINE id == op[c].id
             row == rows[id]
             dto == op[c].dto
             view == op[c].view
             new == IF op[c].readable THEN ResumeRow(row, dto, view)
                    ELSE ResumeUnreadable(row, dto)
  <2>2. /\ id \in LoopIds /\ row \in Row /\ dto \in Row /\ view \in Seq(Message)
        /\ Agrees(dto, row) /\ op[c].readable \in BOOLEAN
    BY <1>0, <2>1 DEF TypeOK, OpTypeOK, Ops, Copies, CopiesAgree
  <2>3. rows'[l] = IF l = id THEN new ELSE rows[l]
    BY <1>2, <2>1, <2>2
  <2>4. view \in Views
    BY DEF Views
  <2>5. CASE l # id
    BY <1>1, <2>3, <2>5
  <2>6. CASE l = id /\ ~op[c].readable
    BY <2>2, <2>3, <2>6, RulesKeepPlace
  <2>7. CASE l = id /\ op[c].readable
    <3>1. \/ Kept(row, ResumeRow(row, dto, view))
          \/ /\ dto.revision = row.revision
             /\ \/ Skips(row, ResumeRow(row, dto, view), view)
                \/ TakesIn(row, ResumeRow(row, dto, view), view)
      <4> HIDE DEF row, dto, view
      <4> QED BY <2>2, ResumePlaces
    <3>2. rows'[l] = ResumeRow(row, dto, view)
      BY <2>3, <2>7
    <3>3. dto.revision = row.revision => Holds(l, view)
      BY <2>1, <2>7 DEF Holds, OpHolds
    <3> QED BY <2>4, <2>7, <3>1, <3>2, <3>3
  <2> QED BY <2>5, <2>6, <2>7
<1>7. CASE ManualCommit
  <2>1. PICK c \in Clients :
          op[c].pc = "act" /\ op[c].req = "manual" /\ rows' = ManualPauses(op[c])
    BY <1>7 DEF ManualCommit
  <2> DEFINE dto == op[c].dto
             view == op[c].view
             tail == ManualTail(op[c])
             new == PauseForManualSend(rows[l], tail)
  <2>2. CASE l \notin ManualTargets(op[c])
    <3>1. rows'[l] = rows[l]
      BY <2>1, <2>2 DEF ManualPauses
    <3> QED BY <1>1, <3>1
  <2>3. CASE l \in ManualTargets(op[c])
    <3>1. rows'[l] = new
      BY <2>1, <2>3 DEF ManualPauses
    <3>2. rows[l].revision = dto.revision
      BY <2>3 DEF ManualTargets
    <3>3. op[c].id = l
      <4>1. op[c].id \in Existing
        BY <2>1 DEF Copies, HeldExist
      <4> QED BY <4>1 DEF Unreplaced
    <3>4. Agrees(dto, rows[l]) /\ dto \in Row /\ op[c].readable \in BOOLEAN
      BY <1>0, <2>1, <3>3 DEF Ops, Copies, CopiesAgree
    <3>5. /\ new.boundary = tail /\ new.progress = rows[l].progress
          /\ new.revision = rows[l].revision + 1 /\ rows[l].revision \in Nat
      <4>1. PauseRow(rows[l], "manual_send") \in Row
            /\ PauseRow(rows[l], "manual_send").progress = rows[l].progress
            /\ PauseRow(rows[l], "manual_send").revision = rows[l].revision + 1
        <5>1. PauseRow(rows[l], "manual_send") \in Row
          BY <1>0, PauseRowTyped DEF Reasons
        <5> QED BY <1>0, <5>1 DEF PauseRow, Bump, Row
      <4>2. rows[l].revision \in Nat
        BY <1>0 DEF Row
      <4> HIDE DEF tail
      <4> QED BY <4>1, <4>2 DEF PauseForManualSend, Row
    <3> HIDE DEF new
    <3>6. CASE op[c].readable
      <4>1. tail = LatestMessageId(view)
        BY <3>6 DEF ManualTail
      <4>2. Holds(l, view)
        BY <2>1, <3>2, <3>3, <3>6 DEF Holds, OpHolds
      <4>3. new.revision > rows[l].revision
        BY <3>5
      <4>4. Skips(rows[l], rows'[l], view)
        BY <3>1, <3>5, <4>1, <4>3 DEF Skips
      <4>5. view \in Views
        BY DEF Views
      <4> QED BY <4>2, <4>4, <4>5
    <3>7. CASE ~op[c].readable
      <4>1. tail = dto.boundary
        BY <3>7 DEF ManualTail
      <4>2. dto.boundary = rows[l].boundary
        BY <1>0, <3>2, <3>4, CopyFields
      <4> QED BY <3>1, <3>5, <4>1, <4>2 DEF Kept
    <3> QED BY <3>6, <3>7
  <2> QED BY <2>2, <2>3
<1>8. CASE ReadFirst \/ ManualSendNoLoop \/ CreateStart \/ OpReads \/ OpReadFails
           \/ AbortArrives \/ AbortLost \/ ForwardManual \/ Revert
  BY <1>1, <1>8 DEF ReadFirst, ManualSendNoLoop, CreateStart, OpReads, OpReadFails,
                    AbortArrives, AbortLost, ForwardManual, Revert
<1> QED BY <1>4, <1>5, <1>6, <1>7, <1>8 DEF Api

\* The same of every step.
LEMMA RowMoves ==
    ASSUME TypeOK, Sound, Copies, [Next]_vars, NEW l \in LoopIds, Unreplaced(l)
    PROVE  \/ Kept(rows[l], rows'[l])
           \/ Appears(rows[l], rows'[l])
           \/ \E view \in Views :
                 /\ Holds(l, view)
                 /\ Skips(rows[l], rows'[l], view) \/ TakesIn(rows[l], rows'[l], view)
<1>1. CASE UNCHANGED rows
  BY <1>1 DEF Kept
<1>2. CASE TurnTimeout
  <2>1. PICK k \in LoopIds : SetRow(k, [rows[k] EXCEPT !.promptAt = "old"])
    BY <1>2 DEF TurnTimeout
  <2>2. rows \in [LoopIds -> Row]
    BY DEF TypeOK
  <2>3. Kept(rows[k], [rows[k] EXCEPT !.promptAt = "old"]) /\ Kept(rows[l], rows[l])
    BY <2>2, RulesKeepPlace DEF Kept
  <2>4. rows'[l] = IF l = k THEN [rows[k] EXCEPT !.promptAt = "old"] ELSE rows[l]
    BY <2>1, <2>2 DEF SetRow
  <2> QED BY <2>3, <2>4
<1>3. CASE UNCHANGED vars \/ Engine \/ Crash
  BY <1>1, <1>3 DEF vars, Engine, EngineStep, EngineReply, EngineDropsTurn,
                    EngineAnswersPost, EngineRefusesPost, LatePrompt, Crash
<1>4. CASE Scheduler
  BY <1>4, TickMoves DEF Copies
<1>5. CASE Api
  BY <1>5, RequestMoves
<1> QED BY <1>2, <1>3, <1>4, <1>5 DEF Next

\* What is read is the transcript, and kept until the reader is done.
LEMMA ViewsKept ==
    ASSUME TypeOK, [Next]_vars, NEW view \in Views'
    PROVE  view \in Views \cup {transcript, <<>>}
<1>1. sched \in Ticks /\ op \in [Clients -> Ops]
  BY DEF TypeOK, TickTypeOK, OpTypeOK
<1>2. sched'.view \in {sched.view, transcript, <<>>}
  <2>1. \/ UNCHANGED sched
        \/ \E tick : sched' = tick /\ tick.view = <<>>
        \/ \E pc : sched' = [sched EXCEPT !.pc = pc]
        \/ \E pc : sched' = [sched EXCEPT !.pc = pc, !.view = transcript]
        \/ \E pc, dto : sched' = [sched EXCEPT !.pc = pc, !.dto = dto, !.view = <<>>]
        \/ \E pc, post : sched' = [sched EXCEPT !.pc = pc, !.post = post]
        \/ \E post : sched' = [sched EXCEPT !.post = post]
    <3>1. NoTick.view = <<>>
      BY DEF NoTick
    <3>2. \A l \in LoopIds : [NoTick EXCEPT !.pc = "listed", !.id = l, !.dto = rows[l]].view = <<>>
      BY DEF NoTick
    <3>3. EndTick => \E tick : sched' = tick /\ tick.view = <<>>
      BY <3>1 DEF EndTick
    <3>4. CASE UNCHANGED vars \/ TurnTimeout \/ Api \/ EngineStep \/ EngineReply
               \/ EngineDropsTurn \/ LatePrompt
      <4>1. UNCHANGED sched
        BY <3>4 DEF vars, TurnTimeout, Api, EngineStep, EngineReply, EngineDropsTurn,
                    LatePrompt, Pause, Stop, Dismiss, UpdateMaxTurns, ReadFirst,
                    ManualSendNoLoop, CreateStart, OpReads, OpReadFails, CreateCommit,
                    ResumeCommit, ManualCommit, AbortArrives, AbortLost, ForwardManual, Revert
      <4> QED BY <4>1
    <3>5. CASE EngineAnswersPost \/ EngineRefusesPost
      BY <3>5 DEF EngineAnswersPost, EngineRefusesPost
    <3>6. CASE TickStart
      BY <3>2, <3>6 DEF TickStart
    <3>7. CASE SchedMessages \/ SchedSend \/ SchedExpire \/ SchedCompacts
      BY <3>7 DEF SchedMessages, SchedSend, SchedExpire, SchedCompacts
    <3>8. CASE SchedClaim \/ SchedStatus
      BY <3>3, <3>8 DEF SchedClaim, SchedStatus
    <3>9. CASE SchedReadFails \/ SchedulerError \/ SchedReadsReply \/ SchedTurnLimit
               \/ SchedCompactConflict \/ SchedPosted \/ SchedPostTimeout \/ Crash
      BY <3>3, <3>9 DEF SchedReadFails, SchedulerError, SchedReadsReply, SchedTurnLimit,
                        SchedCompactConflict, SchedPosted, SchedPostTimeout, Crash
    <3> QED BY <3>4, <3>5, <3>6, <3>7, <3>8, <3>9 DEF Next, Engine, Scheduler
  <2> QED BY <1>1, <2>1 DEF Ticks
<1>3. ASSUME NEW c \in Clients PROVE op'[c].view \in {op[c].view, transcript, <<>>}
  <2>1. ASSUME NEW d \in Clients, NEW rec, SetOp(d, rec)
        PROVE  op'[c] = IF c = d THEN rec ELSE op[c]
    BY <1>1, <2>1 DEF SetOp
  <2>2. NoOp.view = <<>>
    BY DEF NoOp
  <2>3. /\ \A pc, req : [NoOp EXCEPT !.pc = pc, !.req = req].view = <<>>
        /\ \A req, pc : [NoOp EXCEPT !.req = req, !.pc = pc].view = <<>>
        /\ \A pc, req, id, dto :
              [NoOp EXCEPT !.pc = pc, !.req = req, !.id = id, !.dto = dto].view = <<>>
    BY DEF NoOp
  <2>4. ASSUME NEW d \in Clients, NEW rec, SetOp(d, rec),
               rec.view \in {op[d].view, transcript, <<>>}
        PROVE  op'[c].view \in {op[c].view, transcript, <<>>}
    BY <2>1, <2>4
  <2>5. ASSUME NEW d \in Clients
        PROVE  /\ [op[d] EXCEPT !.pc = "act", !.view = transcript].view = transcript
               /\ [op[d] EXCEPT !.pc = "act", !.readable = FALSE].view = op[d].view
               /\ [op[d] EXCEPT !.pc = "forward"].view = op[d].view
    BY <1>1 DEF Ops
  <2>6. CASE UNCHANGED op
    BY <2>6
  <2>7. CASE Pause \/ Stop \/ CreateCommit
    <3>1. \E d \in Clients : \E req, needed : AbortNext(d, req, needed)
      BY <2>7 DEF Pause, Stop, CreateCommit
    <3>2. PICK d, req, needed : d \in Clients /\ AbortNext(d, req, needed)
      BY <3>1
    <3> QED BY <2>2, <2>3, <2>4, <3>2 DEF AbortNext
  <2>8. CASE ReadFirst
    <3>1. \E d \in Clients : \E req, l :
             SetOp(d, [NoOp EXCEPT !.pc = "read", !.req = req, !.id = l, !.dto = rows[l]])
      BY <2>8 DEF ReadFirst
    <3>2. PICK d, req, l :
             /\ d \in Clients
             /\ SetOp(d, [NoOp EXCEPT !.pc = "read", !.req = req, !.id = l, !.dto = rows[l]])
      BY <3>1
    <3> DEFINE rec == [NoOp EXCEPT !.pc = "read", !.req = req, !.id = l, !.dto = rows[l]]
    <3>3. rec.view = <<>>
      BY DEF NoOp
    <3> HIDE DEF rec
    <3>4. d \in Clients /\ SetOp(d, rec)
      BY <3>2 DEF rec
    <3> QED BY <2>4, <3>3, <3>4
  <2>9. CASE ManualSendNoLoop \/ CreateStart \/ ResumeCommit \/ ForwardManual
    <3>1. \E d \in Clients : \E pc, req :
             \/ SetOp(d, [NoOp EXCEPT !.pc = pc, !.req = req])
             \/ SetOp(d, NoOp)
      BY <2>9 DEF ManualSendNoLoop, CreateStart, ResumeCommit, ForwardManual
    <3>2. PICK d, pc, req :
             /\ d \in Clients
             /\ \/ SetOp(d, [NoOp EXCEPT !.pc = pc, !.req = req])
                \/ SetOp(d, NoOp)
      BY <3>1
    <3> QED BY <2>2, <2>3, <2>4, <3>2
  <2>10. CASE ManualCommit
    <3>1. \E d \in Clients : \E pc :
             \/ SetOp(d, [NoOp EXCEPT !.req = "manual", !.pc = pc])
             \/ SetOp(d, NoOp)
      BY <2>10 DEF ManualCommit
    <3>2. PICK d, pc :
             /\ d \in Clients
             /\ \/ SetOp(d, [NoOp EXCEPT !.req = "manual", !.pc = pc])
                \/ SetOp(d, NoOp)
      BY <3>1
    <3> QED BY <2>2, <2>3, <2>4, <3>2
  <2>11. CASE OpReads \/ OpReadFails
    <3>1. PICK d \in Clients : \/ SetOp(d, [op[d] EXCEPT !.pc = "act", !.view = transcript])
                               \/ SetOp(d, [op[d] EXCEPT !.pc = "act", !.readable = FALSE])
      BY <2>11 DEF OpReads, OpReadFails
    <3> QED BY <2>4, <2>5, <3>1
  <2>12. CASE AbortArrives \/ AbortLost
    <3>1. PICK d \in Clients : AfterAbort(d)
      BY <2>12 DEF AbortArrives, AbortLost
    <3> QED BY <2>2, <2>4, <2>5, <3>1 DEF AfterAbort
  <2>13. CASE Crash
    BY <2>2, <2>13 DEF Crash
  <2>14. CASE UNCHANGED vars \/ TurnTimeout \/ Dismiss \/ UpdateMaxTurns \/ Revert
    BY <2>6, <2>14 DEF vars, TurnTimeout, Dismiss, UpdateMaxTurns, Revert
  <2>15. CASE Engine
    BY <2>6, <2>15 DEF Engine, EngineStep, EngineReply, EngineDropsTurn, EngineAnswersPost,
                       EngineRefusesPost, LatePrompt
  <2>16. CASE Scheduler
    BY <2>6, <2>16 DEF Scheduler, TickStart, SchedExpire, SchedStatus, SchedMessages,
                       SchedReadFails, SchedulerError, SchedReadsReply, SchedTurnLimit,
                       SchedCompacts, SchedCompactConflict, SchedClaim, SchedSend, SchedPosted,
                       SchedPostTimeout
  <2> QED BY <2>7, <2>8, <2>9, <2>10, <2>11, <2>12, <2>13, <2>14, <2>15, <2>16 DEF Next, Api
<1> QED BY <1>2, <1>3 DEF Views

Deciding == {"decide", "compact", "compacted"}

\* A tick that is deciding went on with what it had, or has just read.
LEMMA TickReads ==
    ASSUME TypeOK, [Next]_vars, sched'.pc \in Deciding
    PROVE  \/ /\ sched.pc \in Deciding /\ sched'.view = sched.view
              /\ sched'.id = sched.id /\ sched'.dto = sched.dto
           \/ sched'.view = transcript /\ UNCHANGED <<rows, transcript>>
<1>1. sched \in Ticks
  BY DEF TypeOK, TickTypeOK
<1>2. ~EndTick
  BY DEF EndTick, NoTick, Deciding
<1>3. CASE UNCHANGED sched
  BY <1>3
<1>4. CASE SchedMessages
  <2>1. sched' = [sched EXCEPT !.pc = "decide", !.view = transcript]
    BY <1>4 DEF SchedMessages
  <2>2. sched'.view = transcript
    BY <1>1, <2>1 DEF Ticks
  <2> QED BY <1>4, <2>2 DEF SchedMessages, engine
<1>5. CASE SchedCompacts
  <2>1. \E pc : sched' = [sched EXCEPT !.pc = pc]
    BY <1>5 DEF SchedCompacts
  <2>2. sched.pc \in Deciding
    BY <1>5 DEF SchedCompacts, BetweenTurns, Deciding
  <2> QED BY <1>1, <2>1, <2>2 DEF Ticks
<1>6. CASE EngineAnswersPost \/ EngineRefusesPost
  <2>1. sched.pc = "posting" /\ \E post : sched' = [sched EXCEPT !.post = post]
    BY <1>6 DEF EngineAnswersPost, EngineRefusesPost
  <2>2. sched'.pc = "posting"
    BY <1>1, <2>1 DEF Ticks
  <2> QED BY <2>2 DEF Deciding
<1>7. CASE TickStart \/ SchedExpire \/ SchedStatus \/ SchedClaim \/ SchedSend
  <2>1. \/ \E l \in LoopIds :
              sched' = [NoTick EXCEPT !.pc = "listed", !.id = l, !.dto = rows[l]]
        \/ \E pc \in {"status", "messages"} : sched' = [sched EXCEPT !.pc = pc]
        \/ \E dto : sched' = [sched EXCEPT !.pc = "context", !.dto = dto, !.view = <<>>]
        \/ sched' = [sched EXCEPT !.pc = "posting", !.post = "wire"]
    BY <1>2, <1>7 DEF TickStart, SchedExpire, SchedStatus, SchedClaim, SchedSend
  <2>2. \A l \in LoopIds :
           [NoTick EXCEPT !.pc = "listed", !.id = l, !.dto = rows[l]].pc = "listed"
    BY DEF NoTick
  <2>3. sched'.pc \in {"listed", "status", "messages", "context", "posting"}
    BY <1>1, <2>1, <2>2 DEF Ticks
  <2> QED BY <2>3 DEF Deciding
<1>8. CASE SchedReadFails \/ SchedulerError \/ SchedReadsReply \/ SchedTurnLimit
           \/ SchedCompactConflict \/ SchedPosted \/ SchedPostTimeout \/ Crash
  BY <1>2, <1>8 DEF SchedReadFails, SchedulerError, SchedReadsReply, SchedTurnLimit,
                    SchedCompactConflict, SchedPosted, SchedPostTimeout, Crash
<1>9. CASE UNCHANGED vars \/ TurnTimeout \/ Api \/ EngineStep \/ EngineReply
           \/ EngineDropsTurn \/ LatePrompt
  <2>1. UNCHANGED sched
    BY <1>9 DEF vars, TurnTimeout, Api, EngineStep, EngineReply, EngineDropsTurn,
                LatePrompt, Pause, Stop, Dismiss, UpdateMaxTurns, ReadFirst,
                ManualSendNoLoop, CreateStart, OpReads, OpReadFails, CreateCommit,
                ResumeCommit, ManualCommit, AbortArrives, AbortLost, ForwardManual, Revert
  <2> QED BY <1>3, <2>1
<1> QED BY <1>4, <1>5, <1>6, <1>7, <1>8, <1>9 DEF Next, Engine, Scheduler

\* So did a request that is about to write by what it read.
LEMMA RequestReads ==
    ASSUME TypeOK, [Next]_vars, NEW c \in Clients, op'[c].pc = "act", op'[c].readable
    PROVE  \/ op'[c] = op[c]
           \/ op'[c].view = transcript /\ UNCHANGED <<rows, transcript>>
<1>1. op \in [Clients -> Ops]
  BY DEF TypeOK, OpTypeOK
<1>2. ASSUME NEW d \in Clients, NEW rec, SetOp(d, rec), rec.pc # "act"
      PROVE  op'[c] = op[c]
  BY <1>1, <1>2 DEF SetOp
<1>3. NoOp.pc # "act"
  BY DEF NoOp
<1>4. CASE UNCHANGED op
  BY <1>4
<1>5. CASE Pause \/ Stop \/ CreateCommit
  <2>1. PICK d, req, needed : d \in Clients /\ AbortNext(d, req, needed)
    BY <1>5 DEF Pause, Stop, CreateCommit
  <2> DEFINE rec == IF needed THEN [NoOp EXCEPT !.pc = "abort", !.req = req] ELSE NoOp
  <2>2. rec.pc # "act"
    BY DEF NoOp
  <2>3. d \in Clients /\ SetOp(d, rec)
    BY <2>1 DEF AbortNext
  <2> HIDE DEF rec
  <2> QED BY <1>2, <2>2, <2>3
<1>6. CASE ReadFirst
  <2>1. PICK d, req, l :
           /\ d \in Clients
           /\ SetOp(d, [NoOp EXCEPT !.pc = "read", !.req = req, !.id = l, !.dto = rows[l]])
    BY <1>6 DEF ReadFirst
  <2> DEFINE rec == [NoOp EXCEPT !.pc = "read", !.req = req, !.id = l, !.dto = rows[l]]
  <2>2. rec.pc # "act"
    BY DEF NoOp
  <2> HIDE DEF rec
  <2>3. d \in Clients /\ SetOp(d, rec)
    BY <2>1 DEF rec
  <2> QED BY <1>2, <2>2, <2>3
<1>7. CASE ManualSendNoLoop \/ CreateStart \/ ResumeCommit \/ ForwardManual \/ ManualCommit
  <2>1. PICK d, pc, req :
           /\ d \in Clients
           /\ pc \in {"forward", "read", "abort"}
           /\ \/ SetOp(d, [NoOp EXCEPT !.pc = pc, !.req = req])
              \/ SetOp(d, [NoOp EXCEPT !.req = req, !.pc = pc])
              \/ SetOp(d, NoOp)
    BY <1>7 DEF ManualSendNoLoop, CreateStart, ResumeCommit, ForwardManual, ManualCommit
  <2> DEFINE a == [NoOp EXCEPT !.pc = pc, !.req = req]
             b == [NoOp EXCEPT !.req = req, !.pc = pc]
  <2>2. a.pc # "act" /\ b.pc # "act"
    BY <2>1 DEF NoOp
  <2>3. d \in Clients /\ (SetOp(d, a) \/ SetOp(d, b) \/ SetOp(d, NoOp))
    BY <2>1
  <2> HIDE DEF a, b
  <2> QED BY <1>2, <1>3, <2>2, <2>3
<1>8. CASE OpReads
  <2>1. PICK d \in Clients : SetOp(d, [op[d] EXCEPT !.pc = "act", !.view = transcript])
    BY <1>8 DEF OpReads
  <2>2. UNCHANGED <<rows, transcript>>
    BY <1>8 DEF OpReads, engine
  <2>3. CASE c = d
    <3>1. op'[c] = [op[c] EXCEPT !.pc = "act", !.view = transcript]
      BY <1>1, <2>1, <2>3 DEF SetOp
    <3> QED BY <1>1, <2>2, <3>1 DEF Ops
  <2>4. CASE c # d
    BY <1>1, <2>1, <2>4 DEF SetOp
  <2> QED BY <2>3, <2>4
<1>9. CASE OpReadFails
  <2>1. PICK d \in Clients : SetOp(d, [op[d] EXCEPT !.pc = "act", !.readable = FALSE])
    BY <1>9 DEF OpReadFails
  <2>2. c # d
    <3>1. ASSUME c = d PROVE FALSE
      <4>1. op'[c] = [op[c] EXCEPT !.pc = "act", !.readable = FALSE]
        BY <1>1, <2>1, <3>1 DEF SetOp
      <4> QED BY <1>1, <4>1 DEF Ops
    <3> QED BY <3>1
  <2> QED BY <1>1, <2>1, <2>2 DEF SetOp
<1>10. CASE AbortArrives \/ AbortLost
  <2>1. PICK d \in Clients : AfterAbort(d)
    BY <1>10 DEF AbortArrives, AbortLost
  <2> DEFINE rec == IF op[d].req = "manual" THEN [op[d] EXCEPT !.pc = "forward"] ELSE NoOp
  <2>2. rec.pc # "act"
    BY <1>1, <1>3 DEF Ops
  <2>3. SetOp(d, rec)
    BY <2>1 DEF AfterAbort
  <2> HIDE DEF rec
  <2> QED BY <1>2, <2>2, <2>3
<1>11. CASE Crash
  BY <1>3, <1>11 DEF Crash
<1>12. CASE UNCHANGED vars \/ TurnTimeout \/ Dismiss \/ UpdateMaxTurns \/ Revert
  BY <1>4, <1>12 DEF vars, TurnTimeout, Dismiss, UpdateMaxTurns, Revert
<1>13. CASE Engine
  BY <1>4, <1>13 DEF Engine, EngineStep, EngineReply, EngineDropsTurn, EngineAnswersPost,
                     EngineRefusesPost, LatePrompt
<1>14. CASE Scheduler
  BY <1>4, <1>14 DEF Scheduler, TickStart, SchedExpire, SchedStatus, SchedMessages,
                     SchedReadFails, SchedulerError, SchedReadsReply, SchedTurnLimit,
                     SchedCompacts, SchedCompactConflict, SchedClaim, SchedSend, SchedPosted,
                     SchedPostTimeout
<1> QED BY <1>5, <1>6, <1>7, <1>8, <1>9, <1>10, <1>11, <1>12, <1>13, <1>14 DEF Next, Api

\* Who holds what was read for a row held it for the row as it was, or has just
\* read it.
LEMMA HeldOn ==
    ASSUME TypeOK, OpenLoopIsLatest, Copies, [Next]_vars,
           NEW l \in LoopIds, NEW view, Holds(l, view)'
    PROVE  \/ /\ Holds(l, view) /\ l \in Existing
              /\ rows'[l].revision = rows[l].revision
           \/ view = transcript /\ UNCHANGED <<rows, transcript>>
<1>1. ASSUME NEW dto \in Row, l \in Existing, Agrees(dto, rows[l]),
             dto.revision = rows'[l].revision
      PROVE  dto.revision = rows[l].revision
  <2>1. rows'[l].revision >= rows[l].revision
    BY <1>1, RevisionGrows DEF Copies
  <2>2. dto.revision \in Nat /\ rows[l].revision \in Nat /\ dto.revision <= rows[l].revision
    BY <1>1 DEF Agrees, Row, TypeOK, Existing
  <2> DEFINE x == dto.revision
             y == rows[l].revision
             z == rows'[l].revision
  <2>3. x \in Nat /\ y \in Nat /\ x <= y /\ z >= y /\ x = z
    BY <1>1, <2>1, <2>2
  <2> HIDE DEF x, y, z
  <2>4. x = y
    BY <2>3
  <2> QED BY <2>4 DEF x, y
<1>2. CASE TickHolds(l, view)'
  <2>1. /\ sched'.pc \in Deciding /\ sched'.view = view /\ sched'.id = l
        /\ sched'.dto.revision = rows'[l].revision
    BY <1>2 DEF TickHolds, Deciding
  <2>2. CASE /\ sched.pc \in Deciding /\ sched'.view = sched.view
             /\ sched'.id = sched.id /\ sched'.dto = sched.dto
    <3>1. l \in Existing /\ sched.dto \in Row /\ Agrees(sched.dto, rows[l])
      BY <2>1, <2>2 DEF Deciding, TypeOK, TickTypeOK, Ticks, Copies, CopiesAgree, HeldExist
    <3>2. sched.dto.revision = rows[l].revision
      BY <1>1, <2>1, <2>2, <3>1
    <3> QED BY <2>1, <2>2, <3>1, <3>2 DEF Holds, TickHolds, Deciding
  <2> QED BY <2>1, <2>2, TickReads
<1>3. ASSUME NEW c \in Clients, OpHolds(c, l, view)'
      PROVE  \/ /\ Holds(l, view) /\ l \in Existing
                /\ rows'[l].revision = rows[l].revision
             \/ view = transcript /\ UNCHANGED <<rows, transcript>>
  <2>1. /\ op'[c].pc = "act" /\ op'[c].req \in {"resume", "manual"} /\ op'[c].readable
        /\ op'[c].view = view /\ op'[c].id = l /\ op'[c].dto.revision = rows'[l].revision
    BY <1>3 DEF OpHolds
  <2>2. CASE op'[c] = op[c]
    <3>1. l \in Existing /\ op[c].dto \in Row /\ Agrees(op[c].dto, rows[l])
      BY <2>1, <2>2 DEF TypeOK, OpTypeOK, Ops, Copies, CopiesAgree, HeldExist
    <3>2. op[c].dto.revision = rows[l].revision
      BY <1>1, <2>1, <2>2, <3>1
    <3> QED BY <2>1, <2>2, <3>1, <3>2 DEF Holds, OpHolds
  <2> QED BY <2>1, <2>2, RequestReads
<1> QED BY <1>2, <1>3 DEF Holds

\* A new message has the highest id; a cut leaves the ids in order.
LEMMA AppendRises ==
    ASSUME NEW t \in Seq(Message), NEW n \in MsgIds, NEW m, m.id = n,
           Rising(t), \A id \in Ids(t) : id < n
    PROVE  Rising(Append(t, m)) /\ Ids(Append(t, m)) = Ids(t) \cup {n}
<1> DEFINE u == Append(t, m)
           len == Len(t)
<1>1. len \in Nat /\ DOMAIN t = 1 .. len
  BY LenProperties
<1>2. DOMAIN u = 1 .. len + 1 /\ u[len + 1] = m /\ \A i \in 1 .. len : u[i] = t[i]
  OBVIOUS
<1>3. \A i \in 1 .. len : t[i].id < n
  BY <1>1 DEF Ids
<1> HIDE DEF u, len
<1>4. Rising(u)
  BY <1>1, <1>2, <1>3 DEF Rising
<1>5. Ids(u) = Ids(t) \cup {n}
  BY <1>1, <1>2 DEF Ids
<1> QED BY <1>4, <1>5 DEF u

\* A transcript that is cut stays in order.
LEMMA PrefixRises ==
    ASSUME NEW t \in Seq(Message), NEW n \in 0 .. Len(t), Rising(t)
    PROVE  Rising(SubSeq(t, 1, n)) /\ Ids(SubSeq(t, 1, n)) \subseteq Ids(t)
<1> DEFINE u == SubSeq(t, 1, n)
           len == Len(t)
<1>1. len \in Nat /\ DOMAIN t = 1 .. len
  BY LenProperties
<1>2. DOMAIN u = 1 .. n /\ \A i \in 1 .. n : u[i] = t[i]
  OBVIOUS
<1>3. n \in 0 .. len
  OBVIOUS
<1> HIDE DEF u, len
<1>4. Rising(u) /\ Ids(u) \subseteq Ids(t)
  BY <1>1, <1>2, <1>3 DEF Rising, Ids
<1> QED BY <1>4 DEF u

\* The session's transcript stays in order, and gets no old message back.
LEMMA TranscriptMoves ==
    ASSUME TypeOK, nextMsg > 0, Ordered(transcript), [Next]_vars
    PROVE  /\ Rising(transcript') /\ \A id \in Ids(transcript') : id < nextMsg'
           /\ Ids(transcript') \subseteq Ids(transcript) \cup {nextMsg}
           /\ nextMsg' \in Nat /\ nextMsg' >= nextMsg
<1>1. transcript \in Seq(Message) /\ nextMsg \in Nat /\ Ids(transcript) \subseteq Nat
  <2>1. transcript \in Seq(Message) /\ nextMsg \in Nat
    BY DEF TypeOK, EngineTypeOK
  <2>2. ASSUME NEW i \in DOMAIN transcript PROVE transcript[i].id \in Nat
    <3>1. transcript[i] \in Message
      BY <2>1, <2>2, LenProperties, ElementOfSeq
    <3> QED BY <3>1, MsgIdsAssumption DEF Message
  <2> QED BY <2>1, <2>2 DEF Ids
<1>2. CASE UNCHANGED <<transcript, nextMsg>>
  BY <1>1, <1>2 DEF Ordered, Below
<1>3. ASSUME NEW kept \in {<<>>, transcript}, NEW m, m.id = nextMsg, nextMsg \in MsgIds,
             transcript' = Append(kept, m), nextMsg' = nextMsg + 1
      PROVE  /\ Rising(transcript') /\ \A id \in Ids(transcript') : id < nextMsg'
             /\ Ids(transcript') \subseteq Ids(transcript) \cup {nextMsg}
             /\ nextMsg' \in Nat /\ nextMsg' >= nextMsg
  <2>1. kept \in Seq(Message) /\ Rising(kept) /\ Ids(kept) \subseteq Ids(transcript)
    <3>1. CASE kept = <<>>
      BY <3>1, EmptySeq DEF Rising, Ids
    <3>2. CASE kept = transcript
      BY <1>1, <3>2 DEF Ordered
    <3> QED BY <1>3, <3>1, <3>2
  <2>2. \A id \in Ids(kept) : id < nextMsg
    BY <2>1 DEF Ordered, Below
  <2>3. Rising(Append(kept, m)) /\ Ids(Append(kept, m)) = Ids(kept) \cup {nextMsg}
    BY <1>3, <2>1, <2>2, AppendRises
  <2> QED BY <1>1, <1>3, <2>1, <2>2, <2>3
<1>4. ASSUME NEW from, NEW loop, NEW kind, NEW res
      PROVE  Msg(from, loop, kind, res).id = nextMsg
  BY DEF Msg
<1>5. CASE EngineStep \/ EngineReply \/ EngineAnswersPost \/ LatePrompt \/ AbortArrives
           \/ ForwardManual
  <2>1. \/ UNCHANGED <<transcript, nextMsg>>
        \/ \E from, loop, kind, res : AppendMsg(from, loop, kind, res)
    BY <1>5 DEF EngineStep, EngineReply, EngineAnswersPost, LatePrompt, AbortArrives,
                ForwardManual, Take, Interrupt, engine
  <2>2. ASSUME NEW from, NEW loop, NEW kind, NEW res, AppendMsg(from, loop, kind, res)
        PROVE  \E m : /\ m.id = nextMsg /\ nextMsg \in MsgIds
                      /\ transcript' = Append(transcript, m) /\ nextMsg' = nextMsg + 1
    BY <1>4, <2>2 DEF AppendMsg
  <2> QED BY <1>2, <1>3, <2>1, <2>2
<1>6. CASE SchedCompacts
  <2>1. \/ UNCHANGED <<transcript, nextMsg>>
        \/ \E kept \in {<<>>, transcript} :
              /\ transcript' = Append(kept, Msg("assistant", 0, "goal", "none"))
              /\ nextMsg \in MsgIds /\ nextMsg' = nextMsg + 1
    BY <1>6 DEF SchedCompacts, engine
  <2> QED BY <1>2, <1>3, <1>4, <2>1
<1>7. CASE Revert
  <2>1. PICK n \in 0 .. Len(transcript) : transcript' = SubSeq(transcript, 1, n)
    BY <1>7 DEF Revert
  <2>2. nextMsg' = nextMsg
    BY <1>7 DEF Revert
  <2>3. Rising(transcript') /\ Ids(transcript') \subseteq Ids(transcript)
    BY <1>1, <2>1, PrefixRises DEF Ordered
  <2> QED BY <1>1, <2>2, <2>3 DEF Ordered, Below
<1>8. CASE UNCHANGED vars \/ TurnTimeout \/ Crash \/ EngineDropsTurn \/ EngineRefusesPost
  BY <1>2, <1>8 DEF vars, TurnTimeout, Crash, EngineDropsTurn, EngineRefusesPost, engine
<1>9. CASE Scheduler /\ ~SchedCompacts
  BY <1>2, <1>9 DEF Scheduler, TickStart, SchedExpire, SchedStatus, SchedMessages,
                    SchedReadFails, SchedulerError, SchedReadsReply, SchedTurnLimit,
                    SchedCompactConflict, SchedClaim, SchedSend, SchedPosted,
                    SchedPostTimeout, engine
<1>10. CASE Pause \/ Stop \/ Dismiss \/ UpdateMaxTurns \/ ReadFirst \/ ManualSendNoLoop
            \/ CreateStart \/ OpReads \/ OpReadFails \/ CreateCommit \/ ResumeCommit
            \/ ManualCommit \/ AbortLost
  BY <1>2, <1>10 DEF Pause, Stop, Dismiss, UpdateMaxTurns, ReadFirst, ManualSendNoLoop,
                     CreateStart, OpReads, OpReadFails, CreateCommit, ResumeCommit,
                     ManualCommit, AbortLost, engine
<1> QED BY <1>5, <1>6, <1>7, <1>8, <1>9, <1>10 DEF Next, Engine, Api

\* A row's boundary is a number, its results are messages.
LEMMA PlaceTyped ==
    ASSUME NEW row \in Row
    PROVE  row.boundary \in Nat /\ row.progress \in Seq(Message)
<1>1. row.boundary \in MsgIds \cup {0} /\ row.progress \in Seq(Message)
  BY DEF Row
<1> DEFINE place == row.boundary
<1>2. place \in Nat
  <2>1. place \in MsgIds \/ place = 0
    BY <1>1
  <2>2. \A id \in MsgIds : id \in Nat
    BY MsgIdsAssumption
  <2> HIDE DEF place
  <2> QED BY <2>1, <2>2
<1> QED BY <1>1, <1>2

\* What was read has numbers for ids, and so has what a row has read.
LEMMA IdsAreNumbers ==
    ASSUME TypeOK
    PROVE  /\ \A view \in Views \cup {transcript} :
                 view \in Seq(Message) /\ Ids(view) \subseteq Nat \ {0}
           /\ \A row \in Row : Stored(row) \subseteq Nat \ {0} /\ Written(row) \subseteq Nat
<1>1. ASSUME NEW t \in Seq(Message) PROVE Ids(t) \subseteq Nat \ {0}
  <2>1. ASSUME NEW i \in DOMAIN t PROVE t[i].id \in Nat \ {0}
    <3>1. t[i] \in Message
      BY <2>1, LenProperties, ElementOfSeq
    <3> QED BY <3>1, MsgIdsAssumption DEF Message
  <2> QED BY <2>1 DEF Ids
<1>2. \A view \in Views \cup {transcript} : view \in Seq(Message)
  BY DEF TypeOK, EngineTypeOK, TickTypeOK, Ticks, OpTypeOK, Ops, Views
<1>3. ASSUME NEW row \in Row
      PROVE  Stored(row) \subseteq Nat \ {0} /\ Written(row) \subseteq Nat
  <2>1. row.progress \in Seq(Message) /\ row.boundary \in Nat
    BY PlaceTyped
  <2> QED BY <1>1, <2>1 DEF Stored, Written
<1> QED BY <1>1, <1>2, <1>3

\* A reply taken in from a good transcript was not a result yet.
LEMMA TakenOnce ==
    ASSUME NEW row \in Row, NEW new \in Row, NEW view \in Seq(Message),
           Rising(view), Past(row, view), Once(row), TakesIn(row, new, view)
    PROVE  /\ Once(new) /\ new.boundary \in Ids(view) /\ row.boundary < new.boundary
           /\ Stored(new) \subseteq Stored(row) \cup {new.boundary}
<1>1. PICK i \in AfterBoundary(view, row.boundary) :
         /\ new.boundary = view[i].id
         /\ \/ new.progress = row.progress
            \/ \E res : new.progress = Append(row.progress, [view[i] EXCEPT !.res = res])
  BY DEF TakesIn
<1>2. row.boundary \in Nat /\ row.progress \in Seq(Message)
  BY PlaceTyped
<1>3. /\ i \in DOMAIN view /\ view[i] \in Message
      /\ row.boundary < view[i].id /\ view[i].id \in Ids(view)
  BY <1>2, PastBoundary
<1>4. CASE new.progress = row.progress
  BY <1>1, <1>3, <1>4 DEF Once, Stored
<1>5. ASSUME NEW res, new.progress = Append(row.progress, [view[i] EXCEPT !.res = res])
      PROVE  Once(new) /\ Stored(new) \subseteq Stored(row) \cup {new.boundary}
  <2> DEFINE m == [view[i] EXCEPT !.res = res]
             p == row.progress
             q == new.progress
             n == Len(p)
  <2>1. m.id = new.boundary
    BY <1>1, <1>3 DEF Message
  <2>2. n \in Nat /\ DOMAIN p = 1 .. n
    BY <1>2, LenProperties
  <2> HIDE DEF m
  <2>3. DOMAIN q = 1 .. n + 1 /\ q[n + 1] = m /\ \A k \in 1 .. n : q[k] = p[k]
    <3>1. q = Append(p, m)
      BY <1>5 DEF m
    <3> QED BY <1>2, <3>1
  <2>4. new.boundary \notin Stored(row)
    <3> DEFINE id == view[i].id
               place == row.boundary
    <3>1. id \in Nat
      <4>1. id \in MsgIds
        BY <1>3 DEF Message
      <4> QED BY <4>1, MsgIdsAssumption
    <3>2. place < id /\ place \in Nat /\ (id \in Stored(row) => id <= place)
      BY <1>2, <1>3 DEF Past
    <3> HIDE DEF id, place
    <3>3. id \notin Stored(row)
      BY <3>1, <3>2
    <3> QED BY <1>1, <3>3 DEF id
  <2>5. \A k \in 1 .. n : p[k].id # new.boundary
    BY <2>2, <2>4 DEF Stored, Ids
  <2>6. Once(new)
    <3>1. \A j, k \in 1 .. n : p[j].id = p[k].id => j = k
      BY <2>2 DEF Once
    <3> HIDE DEF p, q, n
    <3>2. \A j, k \in DOMAIN q : q[j].id = q[k].id => j = k
      BY <2>1, <2>2, <2>3, <2>5, <3>1
    <3> QED BY <3>2 DEF Once, q
  <2>7. \A k \in DOMAIN q : q[k].id = new.boundary \/ \E j \in DOMAIN p : q[k].id = p[j].id
    <3> HIDE DEF p, q, n
    <3> QED BY <2>1, <2>2, <2>3
  <2> QED BY <2>6, <2>7 DEF Stored, Ids
<1> QED BY <1>1, <1>3, <1>4, <1>5

\* A row that is not there has read nothing.
LEMMA NothingThere == NoRow.status = "absent" /\ NoRow.progress = <<>> /\ NoRow.boundary = 0
BY Zenon DEF NoRow

\* The step keeps what the row has read behind its boundary.
LEMMA ReadsOnceStep ==
    ASSUME TypeOK, TypeOK', Sound, Copies, Reading, [Next]_vars,
           NEW l \in LoopIds, Unreplaced(l)
    PROVE  ReadsOnce(rows[l])'
<1> DEFINE row == rows[l]
           new == rows'[l]
<1>1. row \in Row /\ new \in Row
  BY DEF TypeOK
<1>2. ReadsOnce(row) /\ \A view \in Views : Ordered(view) /\ (Holds(l, view) => Fits(row, view))
  BY DEF Reading
<1>3. /\ \A id \in Ids(transcript') : id < nextMsg'
      /\ Ids(transcript') \subseteq Ids(transcript) \cup {nextMsg}
      /\ nextMsg \in Nat /\ nextMsg' \in Nat /\ nextMsg' >= nextMsg
  BY TranscriptMoves DEF Reading, TypeOK, EngineTypeOK
<1>4. /\ \A view \in Views : view \in Seq(Message) /\ Ids(view) \subseteq Nat
      /\ Stored(row) \subseteq Nat /\ Written(row) \subseteq Nat /\ Written(new) \subseteq Nat
  BY <1>1, IdsAreNumbers
<1>5. row.boundary \in Nat /\ new.boundary \in Nat
  BY <1>1, PlaceTyped
<1>6. \/ Kept(row, new) \/ Appears(row, new)
      \/ \E view \in Views : /\ Holds(l, view)
                             /\ Skips(row, new, view) \/ TakesIn(row, new, view)
  BY RowMoves
<1> HIDE DEF row, new
<1>7. SUFFICES /\ Past(new, transcript') /\ Once(new)
               /\ \A id \in Written(new) : id < nextMsg'
  BY DEF ReadsOnce, new
\* What the row had read is still behind the boundary it had.
<1>8. \A id \in Stored(row) : id \in Ids(transcript') => id <= row.boundary /\ id \in Ids(transcript)
  BY <1>2, <1>3, <1>4 DEF ReadsOnce, Past, Written
<1>9. \A id \in Written(row) : id < nextMsg'
  BY <1>2, <1>3, <1>4 DEF ReadsOnce
<1>10. CASE Kept(row, new)
  <2>1. Stored(new) = Stored(row) /\ Written(new) = Written(row) /\ new.boundary = row.boundary
    BY <1>10 DEF Kept, Stored, Written
  <2>2. Once(new)
    BY <1>2, <1>10 DEF Kept, Once, ReadsOnce
  <2> QED BY <1>8, <1>9, <2>1, <2>2 DEF Past
<1>11. ASSUME NEW view \in Views, new.boundary = LatestMessageId(view)
       PROVE  new.boundary < nextMsg' /\ \A id \in Ids(view) : id <= new.boundary
  <2>1. view \in Seq(Message) /\ Rising(view) /\ \A id \in Ids(view) : id < nextMsg
    BY <1>2, <1>4 DEF Ordered, Below
  <2>2. /\ new.boundary \in Ids(view) \cup {0}
        /\ \A id \in Ids(view) : id <= new.boundary
    BY <1>11, <2>1, TailIsHighest
  <2>3. nextMsg > 0
    BY DEF Reading
  <2> QED BY <1>3, <1>5, <2>1, <2>2, <2>3
<1>12. CASE Appears(row, new)
  <2>1. Stored(new) = {} /\ Once(new)
    BY <1>12 DEF Appears, Stored, Ids, Once
  <2>2. new.boundary < nextMsg'
    BY <1>11, <1>12 DEF Appears
  <2> QED BY <2>1, <2>2 DEF Past, Written
<1>13. ASSUME NEW view \in Views, Holds(l, view), Skips(row, new, view)
       PROVE  /\ Past(new, transcript') /\ Once(new)
              /\ \A id \in Written(new) : id < nextMsg'
  <2>1. Stored(new) = Stored(row) /\ Once(new)
    BY <1>2, <1>13 DEF Skips, Stored, Once, ReadsOnce
  <2>2. new.boundary < nextMsg' /\ \A id \in Ids(view) : id <= new.boundary
    BY <1>11, <1>13 DEF Skips
  <2>3. \A id \in Stored(row) : id \in Ids(transcript) => id \in Ids(view)
    BY <1>2, <1>13 DEF Fits, Written
  <2> QED BY <1>8, <1>9, <2>1, <2>2, <2>3 DEF Past, Written
<1>14. ASSUME NEW view \in Views, Holds(l, view), TakesIn(row, new, view)
       PROVE  /\ Past(new, transcript') /\ Once(new)
              /\ \A id \in Written(new) : id < nextMsg'
  <2>1. /\ view \in Seq(Message) /\ Rising(view) /\ Past(row, view) /\ Once(row)
        /\ \A id \in Ids(view) : id < nextMsg
    BY <1>2, <1>4, <1>14 DEF Ordered, Below, Fits, ReadsOnce
  <2>2. /\ Once(new) /\ new.boundary \in Ids(view) /\ row.boundary < new.boundary
        /\ Stored(new) \subseteq Stored(row) \cup {new.boundary}
    BY <1>1, <1>14, <2>1, TakenOnce
  <2>3. new.boundary < nextMsg'
    BY <1>3, <1>5, <2>1, <2>2
  <2>4. \A id \in Stored(new) : id \in Ids(transcript') => id <= new.boundary
    BY <1>4, <1>5, <1>8, <2>2
  <2> QED BY <1>9, <2>2, <2>3, <2>4 DEF Past, Written
<1> QED BY <1>6, <1>10, <1>12, <1>13, <1>14

\* Every step keeps the loop's reading in order.
LEMMA ReadingStep ==
    ASSUME TypeOK, TypeOK', OpenLoopIsLatest, Sound, Copies, Reading, [Next]_vars
    PROVE  Reading'
<1>1. /\ Rising(transcript') /\ \A id \in Ids(transcript') : id < nextMsg'
      /\ Ids(transcript') \subseteq Ids(transcript) \cup {nextMsg}
      /\ nextMsg \in Nat /\ nextMsg' \in Nat /\ nextMsg' >= nextMsg
  BY TranscriptMoves DEF Reading, TypeOK, EngineTypeOK
<1>2. nextMsg' > 0
  BY <1>1 DEF Reading
<1>3. ASSUME NEW view \in Views' PROVE Rising(view) /\ \A id \in Ids(view) : id < nextMsg'
  <2>1. view \in Views \cup {transcript, <<>>}
    BY <1>3, ViewsKept
  <2>2. CASE view = <<>>
    BY <2>2 DEF Rising, Ids
  <2>3. CASE view \in Views \cup {transcript}
    <3>1. Rising(view) /\ \A id \in Ids(view) : id < nextMsg
      BY <2>3 DEF Reading, Ordered, Below
    <3>2. Ids(view) \subseteq Nat
      BY <2>3, IdsAreNumbers
    <3> QED BY <1>1, <3>1, <3>2
  <2> QED BY <2>1, <2>2, <2>3
<1>4. ASSUME NEW l \in LoopIds, Unreplaced(l)'
      PROVE  /\ ReadsOnce(rows[l])'
             /\ \A view \in Views' : Holds(l, view)' => Fits(rows[l], view)'
  <2> DEFINE row == rows[l]
             new == rows'[l]
  <2>1. Unreplaced(l)
    <3>1. \A k \in Existing : k \in Existing'
      BY ExistingWritten DEF Copies
    <3> QED BY <1>4, <3>1 DEF Unreplaced
  <2>2. ReadsOnce(rows[l])'
    BY <2>1, ReadsOnceStep
  <2>3. /\ Past(new, transcript')
        /\ \A id \in Written(row) : id < nextMsg
        /\ \A view \in Views : Holds(l, view) => Fits(row, view)
    BY <2>1, <2>2 DEF Reading, ReadsOnce
  <2>4. row \in Row /\ new \in Row /\ Written(row) \subseteq Nat /\ row.revision \in Nat
    <3>1. row \in Row /\ new \in Row
      BY DEF TypeOK
    <3> QED BY <3>1, IdsAreNumbers DEF Row
  <2>5. ASSUME NEW view \in Views', Holds(l, view)'
        PROVE  Past(new, view) /\ \A id \in Written(new) : id \in Ids(transcript') => id \in Ids(view)
    <3>1. CASE view = transcript /\ UNCHANGED <<rows, transcript>>
      BY <2>3, <3>1
    <3>2. CASE /\ Holds(l, view) /\ l \in Existing /\ new.revision = row.revision
      <4>1. Kept(row, new)
        <5>1. ~Appears(row, new)
          BY <3>2, NothingThere DEF Appears, Existing
        <5>2. \A v \in Views : ~Skips(row, new, v) /\ ~TakesIn(row, new, v)
          <6>1. ~(new.revision > row.revision)
            BY <2>4, <3>2
          <6> HIDE DEF row, new
          <6> QED BY <6>1 DEF Skips, TakesIn
        <5>3. \/ Kept(row, new) \/ Appears(row, new)
              \/ \E v \in Views : Skips(row, new, v) \/ TakesIn(row, new, v)
          BY <2>1, RowMoves
        <5> QED BY <5>1, <5>2, <5>3
      <4>2. view \in Views
        BY <3>2 DEF Holds, TickHolds, OpHolds, Views
      <4>3. Fits(row, view)
        BY <2>3, <3>2, <4>2
      <4> HIDE DEF row, new
      <4>4. Stored(new) = Stored(row) /\ Written(new) = Written(row) /\ new.boundary = row.boundary
        BY <4>1 DEF Kept, Stored, Written
      <4>5. \A id \in Written(row) : id \in Ids(transcript') => id \in Ids(transcript)
        BY <1>1, <2>3, <2>4
      <4> QED BY <4>3, <4>4, <4>5 DEF Fits, Past
    <3> QED BY <2>5, <3>1, <3>2, HeldOn
  <2> QED BY <2>2, <2>5 DEF Fits
<1> QED BY <1>1, <1>2, <1>3, <1>4 DEF Reading, Ordered, Below

\* It is in order at the start.
LEMMA ReadingFirst == Init => Reading
<1> SUFFICES ASSUME Init PROVE Reading
  OBVIOUS
<1>1. transcript = <<>> /\ nextMsg = 1 /\ \A view \in Views : view = <<>>
  BY DEF Init, Views, NoTick, NoOp
<1>2. Ids(<<>>) = {} /\ Rising(<<>>)
  BY DEF Ids, Rising
<1>3. ASSUME NEW l \in LoopIds
      PROVE  /\ ReadsOnce(rows[l]) /\ \A view \in Views : Fits(rows[l], view)
  <2>1. rows[l] = NoRow
    BY DEF Init
  <2>2. Stored(NoRow) = {} /\ Written(NoRow) = {0} /\ Once(NoRow)
    BY <1>2, NothingThere DEF Stored, Written, Once
  <2> QED BY <1>1, <1>2, <2>1, <2>2 DEF ReadsOnce, Fits, Past
<1> QED BY <1>1, <1>2, <1>3 DEF Reading, Ordered, Below

\* A session whose loop was never replaced is read in order: what the loop has read
\* is behind its boundary, in the transcript and in every copy of it that a tick or a
\* request can still write from.
THEOREM ReadInOrder == Spec => []Reading
<1>1. TypeOK /\ TypeOK' /\ OpenLoopIsLatest /\ Sound /\ Copies /\ Reading /\ [Next]_vars
      => Reading'
  BY ReadingStep
<1> QED BY <1>1, ReadingFirst, TypeCorrect, OneOpenLoop, RowsAreSound, CopiesHold, PTL DEF Spec

\* No reply is stored as a result twice, whatever is paused, resumed, reverted,
\* compacted or sent by hand, and whatever fails, while the loop is read: no other
\* loop was created over it.
THEOREM ReadOnce == Spec => []AppliedOnce
<1>1. Reading => AppliedOnce
  BY DEF Reading, ReadsOnce, Once, AppliedOnce
<1> QED BY <1>1, ReadInOrder, PTL

\* A reader that waited never moves the boundary back over what another has read,
\* unless the message it stood at is gone.
THEOREM BoundaryAdvances == Spec => BoundaryMovesForward
<1>1. ASSUME TypeOK, TypeOK', Sound, Copies, Reading, [Next]_vars
      PROVE  [\A l \in LoopIds : Unreplaced(l) =>
                 \/ rows'[l].boundary >= rows[l].boundary
                 \/ BoundaryLost(transcript, rows[l].boundary)]_vars
  <2> SUFFICES ASSUME NEW l \in LoopIds, Unreplaced(l),
                      ~BoundaryLost(transcript, rows[l].boundary)
               PROVE  rows'[l].boundary >= rows[l].boundary
    OBVIOUS
  <2> DEFINE row == rows[l]
             new == rows'[l]
  <2>1. row \in Row /\ new \in Row
    BY <1>1 DEF TypeOK
  <2>2. row.boundary \in Nat /\ new.boundary \in Nat
    BY <2>1, PlaceTyped
  <2>3. /\ Once(row)
        /\ \A view \in Views : Ordered(view) /\ (Holds(l, view) => Fits(row, view))
    BY <1>1 DEF Reading, ReadsOnce
  <2>4. \A view \in Views : view \in Seq(Message)
    BY <1>1, IdsAreNumbers
  <2>5. \/ Kept(row, new) \/ Appears(row, new)
        \/ \E view \in Views : /\ Holds(l, view)
                               /\ Skips(row, new, view) \/ TakesIn(row, new, view)
    BY <1>1, RowMoves
  <2>6. row.boundary = 0 \/ row.boundary \in Ids(transcript)
    BY DEF BoundaryLost, Ids
  <2> HIDE DEF row, new
  <2>7. CASE Kept(row, new)
    BY <2>2, <2>7 DEF Kept, row, new
  <2>8. CASE Appears(row, new)
    BY <2>2, <2>8, NothingThere DEF Appears, row, new
  <2>9. ASSUME NEW view \in Views, Holds(l, view), Skips(row, new, view)
        PROVE  new.boundary >= row.boundary
    <3>1. /\ new.boundary \in Ids(view) \cup {0}
          /\ \A id \in Ids(view) : id <= new.boundary
      BY <2>3, <2>4, <2>9, TailIsHighest DEF Skips, Ordered
    <3>2. row.boundary = 0 \/ row.boundary \in Ids(view)
      BY <2>3, <2>6, <2>9 DEF Fits, Written
    <3> QED BY <2>2, <3>1, <3>2
  <2>10. ASSUME NEW view \in Views, Holds(l, view), TakesIn(row, new, view)
         PROVE  new.boundary >= row.boundary
    BY <2>1, <2>2, <2>3, <2>4, <2>10, TakenOnce DEF Fits, Ordered
  <2> QED BY <2>5, <2>7, <2>8, <2>9, <2>10 DEF row, new
<1> QED BY <1>1, ReadInOrder, TypeCorrect, RowsAreSound, CopiesHold, PTL
        DEF Spec, BoundaryMovesForward

=============================================================================
