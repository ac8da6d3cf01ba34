--------------------------- MODULE GoalRulesProofs ---------------------------
(***************************************************************************)
(* What the rules of GoalRules return, for every transcript, every row and  *)
(* every value of the constants.                                            *)
(***************************************************************************)
EXTENDS GoalRules, WellFoundedInduction, SequenceTheorems, TLAPS

USE LoopIdsAssumption, MsgIdsAssumption, TurnLimitsAssumption, RejectedAssumption

-----------------------------------------------------------------------------

\* A non-empty set of positions has a last one, which Max returns: the code's
\* loops from the end of the transcript find what they look for.
LEMMA LastPosition ==
    ASSUME NEW n \in Nat, NEW S \in SUBSET (1 .. n), S # {}
    PROVE  Max(S) \in S /\ \A i \in S : i <= Max(S)
<1> DEFINE Gaps == {n - i : i \in S}
<1>1. Gaps \subseteq Nat /\ Gaps # {}
  <2>1. \A i \in S : n - i \in Nat
    OBVIOUS
  <2>2. PICK i \in S : TRUE
    OBVIOUS
  <2>3. n - i \in Gaps
    BY <2>2
  <2> QED BY <2>1, <2>3
<1>2. PICK g \in Gaps : \A h \in Gaps : ~(<<h, g>> \in OpToRel(<, Nat))
  <2> HIDE DEF Gaps
  <2> QED BY <1>1, NatLessThanWellFounded, WFMin
<1>3. \A h \in Gaps : ~(h < g)
  BY <1>1, <1>2 DEF OpToRel
<1>4. PICK m \in S : g = n - m
  BY <1>2
<1>5. \A i \in S : m >= i
  <2> SUFFICES ASSUME NEW i \in S PROVE m >= i
    OBVIOUS
  <2>1. ~(n - i < n - m)
    BY <1>3, <1>4
  <2> QED BY <2>1
<1> QED BY <1>4, <1>5 DEF Max

-----------------------------------------------------------------------------
(* Reading a transcript *)

\* The tail of a transcript is one of its messages, or 0 when there is none.
LEMMA TailTyped ==
    ASSUME NEW t \in Seq(Message)
    PROVE  LatestMessageId(t) \in MsgIds \cup {0}
<1>1. CASE t = <<>>
  BY <1>1 DEF LatestMessageId
<1>2. CASE t # <<>>
  <2>1. t[Len(t)] \in Message
    BY <1>2, ElementOfSeq, LenProperties, EmptySeq
  <2> QED BY <1>2, <2>1 DEF LatestMessageId, Message
<1> QED BY <1>1, <1>2

\* A resume that finds replies to recover reads one of them.
LEMMA RecoveredTyped ==
    ASSUME NEW t \in Seq(Message), NEW boundary, Recoverable(t, boundary) # {}
    PROVE  Recovered(t, boundary) \in Message
<1>1. Recoverable(t, boundary) \in SUBSET (1 .. Len(t))
  BY LenProperties DEF Recoverable
<1>2. Max(Recoverable(t, boundary)) \in 1 .. Len(t)
  BY <1>1, LastPosition, LenProperties
<1> QED BY <1>2, ElementOfSeq DEF Recovered

\* A turn that has its final reply has it as the transcript's last message.
LEMMA FinalTyped ==
    ASSUME NEW t \in Seq(Message), NEW boundary, HasFinalAssistant(t, boundary)
    PROVE  t[Len(t)] \in Message
<1>1. Len(t) \in 1 .. Len(t)
  BY LenProperties DEF HasFinalAssistant, AfterBoundary
<1> QED BY <1>1, ElementOfSeq

-----------------------------------------------------------------------------
(* Rows stay rows *)

\* The row of a loop that does not exist yet is well typed.
LEMMA NoRowTyped == NoRow \in Row
<1>1. <<>> \in Seq(Message)
  BY EmptySeq
<1> QED BY <1>1 DEF NoRow, Row, Kinds, Reasons

\* The revision bump of a compare-and-set keeps a row well typed.
LEMMA BumpTyped == ASSUME NEW row \in Row PROVE Bump(row) \in Row
BY DEF Bump, Row

\* Pausing keeps a row well typed, for every reason the code gives.
LEMMA PauseRowTyped ==
    ASSUME NEW row \in Row, NEW reason \in Reasons
    PROVE  PauseRow(row, reason) \in Row
<1>1. Bump(row) \in Row
  BY BumpTyped
<1> QED BY <1>1 DEF PauseRow, Row, Statuses

\* A reply that counts is stored with a result a reply may have, and leaves the
\* loop in a status a reply may leave it in.
LEMMA ReplyTyped ==
    ASSUME NEW dto \in Row, NEW m \in Message
    PROVE  /\ [m EXCEPT !.res = EffectiveResult(dto, m)] \in Message
           /\ NextStatus(dto, m) \in Statuses
           /\ NextTurnKind(dto, m) \in Kinds
           /\ RejectedClaims(dto, m) \in Nat
<1>1. EffectiveResult(dto, m) \in Results \cup {"none"}
  BY DEF EffectiveResult, Message, Results
<1>2. [m EXCEPT !.res = EffectiveResult(dto, m)] \in Message
  BY <1>1 DEF Message
<1>3. NextStatus(dto, m) \in Statuses
  BY DEF NextStatus, Statuses, Live, Terminal
<1>4. NextTurnKind(dto, m) \in Kinds
  BY DEF NextTurnKind, Kinds
<1>5. RejectedClaims(dto, m) \in Nat
  <2>1. dto.rejected \in Nat
    BY DEF Row
  <2> QED BY <2>1 DEF RejectedClaims
<1> QED BY <1>2, <1>3, <1>4, <1>5

\* Storing a reply (applyAssistantResult) keeps a row well typed.
LEMMA ApplyResultTyped ==
    ASSUME NEW row \in Row, NEW dto \in Row, NEW m \in Message
    PROVE  ApplyResult(row, dto, m) \in Row
<1> DEFINE stored == [m EXCEPT !.res = EffectiveResult(dto, m)]
           status == IF ReachedTurnLimit(dto, m) THEN "paused" ELSE NextStatus(dto, m)
           reason == IF ReachedTurnLimit(dto, m) THEN "turn_limit"
                     ELSE IF NextStatus(dto, m) = "paused" THEN "verification_rejected"
                     ELSE ""
           next == [Bump(row) EXCEPT
                      !.status = status, !.turnKind = NextTurnKind(dto, m),
                      !.pauseReason = reason, !.rejected = RejectedClaims(dto, m),
                      !.boundary = ReadUpTo(dto, m),
                      !.progress = Append(dto.progress, stored)]
<1>1. status \in Statuses /\ reason \in Reasons
  BY ReplyTyped DEF Statuses, Reasons
<1>2. Append(dto.progress, stored) \in Seq(Message)
  <2>1. dto.progress \in Seq(Message)
    BY DEF Row
  <2> HIDE DEF stored
  <2> QED BY <2>1, ReplyTyped, AppendProperties DEF stored
<1>3. ReadUpTo(dto, m) \in MsgIds \cup {0}
  BY DEF ReadUpTo, Message
<1>4. next \in Row
  <2> HIDE DEF status, reason, stored
  <2>1. NextTurnKind(dto, m) \in Kinds /\ RejectedClaims(dto, m) \in Nat
    BY ReplyTyped
  <2> QED BY <1>1, <1>2, <1>3, <2>1, BumpTyped DEF Row
<1> QED BY <1>4 DEF ApplyResult

\* So does the pause for a reply without a result block.
LEMMA ApplyUnreadableTyped ==
    ASSUME NEW row \in Row, NEW dto \in Row, NEW m \in Message
    PROVE  ApplyUnreadable(row, dto, m) \in Row
<1>1. PauseRow(row, "unreadable_result") \in Row
  BY PauseRowTyped DEF Reasons
<1>2. m.id \in MsgIds
  BY DEF Message
<1>3. [PauseRow(row, "unreadable_result") EXCEPT !.boundary = m.id] \in Row
  BY <1>1, <1>2 DEF Row
<1> QED BY <1>3 DEF ApplyUnreadable

\* Every way the scheduler ends a turn without a reply.
LEMMA TurnEndsTyped ==
    ASSUME NEW row \in Row, NEW dto \in Row
    PROVE  /\ ExpireStalledTurn(row, dto) \in Row
           /\ PauseAfterUnknownPromptDelivery(row, dto) \in Row
           /\ PauseForLostBoundary(row, dto) \in Row
           /\ CatchAll(row) \in Row
           /\ PauseRow(row, "turn_limit") \in Row
<1>1. \A reason \in Reasons : PauseRow(row, reason) \in Row
  BY PauseRowTyped
<1> QED BY <1>1 DEF ExpireStalledTurn, PauseAfterUnknownPromptDelivery,
            PauseForLostBoundary, CatchAll, Reasons

\* A refused goal prompt had been counted, so the counter can be given back.
LEMMA RecoverTyped ==
    ASSUME NEW row \in Row, NEW dto \in Row,
           dto.turnKind = "goal" => dto.turnCount > 0
    PROVE  RecoverAfterRejectedPrompt(row, dto) \in Row
<1>1. Bump(row) \in Row
  BY BumpTyped
<1>2. [Bump(row) EXCEPT !.status = "verifying_completed", !.promptAt = "null"] \in Row
  BY <1>1 DEF Row, Statuses, Live
<1>3. dto.turnKind = "goal" => dto.turnCount - 1 \in Nat
  BY DEF Row
<1>4. dto.turnKind # "verification" => dto.turnKind = "goal"
  BY DEF Row, Kinds
<1>5. dto.turnKind = "goal" =>
        [Bump(row) EXCEPT !.status = "queued", !.promptAt = "null",
                          !.turnCount = dto.turnCount - 1] \in Row
  BY <1>1, <1>3 DEF Row, Statuses, Live
<1> QED BY <1>2, <1>4, <1>5 DEF RecoverAfterRejectedPrompt

\* Every write of an API handler that is not a resume.
LEMMA RequestsTyped ==
    ASSUME NEW row \in Row, NEW tail \in MsgIds \cup {0}
    PROVE  /\ PauseByUser(row) \in Row
           /\ PauseForManualSend(row, tail) \in Row
           /\ \A dismiss \in BOOLEAN : Stopped(row, dismiss) \in Row
           /\ [Bump(row) EXCEPT !.dismissed = TRUE] \in Row
           /\ \A n \in TurnLimits : [Bump(row) EXCEPT !.maxTurns = n] \in Row
<1>1. ParkedKind(row) \in Kinds
  BY DEF ParkedKind, Row, Kinds
<1>2. PauseByUser(row) \in Row
  <2>1. PauseRow(row, "user") \in Row
    BY PauseRowTyped DEF Reasons
  <2> QED BY <1>1, <2>1 DEF PauseByUser, Row
<1>3. PauseForManualSend(row, tail) \in Row
  <2>1. PauseRow(row, "manual_send") \in Row
    BY PauseRowTyped DEF Reasons
  <2> QED BY <1>1, <2>1 DEF PauseForManualSend, Row
<1>4. Bump(row) \in Row
  BY BumpTyped
<1>5. \A dismiss \in BOOLEAN : Stopped(row, dismiss) \in Row
  <2> SUFFICES ASSUME NEW dismiss \in BOOLEAN PROVE Stopped(row, dismiss) \in Row
    OBVIOUS
  <2> DEFINE shut == Bump(row).dismissed \/ dismiss
  <2>1. shut \in BOOLEAN
    OBVIOUS
  <2> HIDE DEF shut
  <2>2. [Bump(row) EXCEPT !.status = "stopped", !.dismissed = shut] \in Row
    BY <1>4, <2>1 DEF Row, Statuses, Terminal
  <2> QED BY <2>2 DEF Stopped, shut
<1>6. [Bump(row) EXCEPT !.dismissed = TRUE] \in Row
  BY <1>4 DEF Row
<1>7. \A n \in TurnLimits : [Bump(row) EXCEPT !.maxTurns = n] \in Row
  <2> SUFFICES ASSUME NEW n \in TurnLimits
               PROVE  [Bump(row) EXCEPT !.maxTurns = n] \in Row
    OBVIOUS
  <2>1. n \in Nat
    OBVIOUS
  <2> QED BY <1>4, <2>1 DEF Row
<1> QED BY <1>2, <1>3, <1>5, <1>6, <1>7

\* The row that createGoalLoop inserts is well typed.
LEMMA NewRowTyped ==
    ASSUME NEW readable \in BOOLEAN, NEW tail \in MsgIds \cup {0},
           NEW n \in TurnLimits, NEW full \in BOOLEAN
    PROVE  NewRow(readable, tail, n, full) \in Row
<1>1. n \in Nat
  OBVIOUS
<1> QED BY <1>1, NoRowTyped DEF NewRow, Row, Statuses, Live, Reasons

\* Every branch of a resume keeps a row well typed.
LEMMA ResumeTyped ==
    ASSUME NEW row \in Row, NEW dto \in Row, NEW view \in Seq(Message)
    PROVE  ResumeRow(row, dto, view) \in Row /\ ResumeUnreadable(row, dto) \in Row
<1> DEFINE running(r) == [Bump(r) EXCEPT !.status = "running", !.pauseReason = ""]
           claims == IF dto.pauseReason = "verification_rejected" THEN 0 ELSE dto.rejected
           again == [Bump(row) EXCEPT
                       !.status = ResumeStatus(dto), !.pauseReason = "",
                       !.rejected = claims, !.boundary = LatestMessageId(view)]
<1>1. \A r \in Row : running(r) \in Row
  <2> SUFFICES ASSUME NEW r \in Row PROVE running(r) \in Row
    OBVIOUS
  <2>1. Bump(r) \in Row
    BY BumpTyped
  <2> QED BY <2>1 DEF Row, Statuses, Live, Reasons
<1>2. Recoverable(view, dto.boundary) # {} =>
        ApplyResult(running(row), running(dto), Recovered(view, dto.boundary)) \in Row
  <2> HIDE DEF running
  <2> QED BY <1>1, RecoveredTyped, ApplyResultTyped
<1>3. again \in Row
  <2>1. ResumeStatus(dto) \in Statuses
    BY DEF ResumeStatus, Statuses, Live
  <2>2. claims \in Nat
    BY DEF Row
  <2>3. "" \in Reasons
    BY DEF Reasons
  <2>4. Bump(row) \in Row /\ LatestMessageId(view) \in MsgIds \cup {0}
    BY BumpTyped, TailTyped
  <2> HIDE DEF claims
  <2> QED BY <2>1, <2>2, <2>3, <2>4 DEF Row
<1>4. ResumeRow(row, dto, view) \in Row
  <2>1. Bump(row) \in Row
    BY BumpTyped
  <2> DEFINE applied == ApplyResult(running(row), running(dto), Recovered(view, dto.boundary))
  <2>2. \/ ResumeRow(row, dto, view) \in {row, Bump(row), again}
        \/ /\ Recoverable(view, dto.boundary) # {}
           /\ ResumeRow(row, dto, view) = applied
    BY DEF ResumeRow
  <2> HIDE DEF again, applied
  <2> QED BY <1>2, <1>3, <2>1, <2>2 DEF applied
<1>5. ResumeUnreadable(row, dto) \in Row
  BY BumpTyped DEF ResumeUnreadable
<1> QED BY <1>4, <1>5

\* A claim counts the turn of a goal prompt.
LEMMA ClaimTyped ==
    ASSUME NEW row \in Row, NEW tail \in MsgIds \cup {0}
    PROVE  /\ Claimed(row, tail) \in Row
           /\ Claimed(row, tail).turnKind = "goal" => Claimed(row, tail).turnCount > 0
<1>1. TurnsAfterClaim(row) \in Nat
  BY DEF TurnsAfterClaim, Row
<1>2. Claimed(row, tail) \in Row
  <2>1. Bump(row) \in Row
    BY BumpTyped
  <2> DEFINE kind == IF row.status = "queued" THEN "goal" ELSE "verification"
  <2>2. kind \in Kinds /\ "running" \in Statuses
    BY DEF Kinds, Statuses, Live
  <2> HIDE DEF kind
  <2>3. [Bump(row) EXCEPT !.status = "running", !.turnKind = kind,
                          !.turnCount = TurnsAfterClaim(row), !.boundary = tail,
                          !.promptAt = "fresh"] \in Row
    BY <1>1, <2>1, <2>2 DEF Row
  <2> QED BY <2>3 DEF Claimed, kind
<1>3. /\ Claimed(row, tail).turnKind = IF row.status = "queued" THEN "goal" ELSE "verification"
      /\ Claimed(row, tail).turnCount = TurnsAfterClaim(row)
  BY DEF Claimed, Bump, Row
<1>4. row.status = "queued" => TurnsAfterClaim(row) > 0
  BY DEF TurnsAfterClaim, Row
<1> QED BY <1>2, <1>3, <1>4

-----------------------------------------------------------------------------
(* A loop that has ended *)

\* Nothing that a reply, a refused prompt, a time-out or a resume does, with any
\* copy of the row, touches a row that has ended or does not exist.
LEMMA EndedUntouched ==
    ASSUME NEW row \in Row, row.status \in Terminal \cup {"absent"}, NEW dto
    PROVE  /\ \A m : ApplyResult(row, dto, m) = row /\ ApplyUnreadable(row, dto, m) = row
           /\ ExpireStalledTurn(row, dto) = row
           /\ PauseAfterUnknownPromptDelivery(row, dto) = row
           /\ PauseForLostBoundary(row, dto) = row
           /\ CatchAll(row) = row
           /\ RecoverAfterRejectedPrompt(row, dto) = row
           /\ \A view : ResumeRow(row, dto, view) = row
           /\ ResumeUnreadable(row, dto) = row
<1>1. row.status # "running" /\ row.status # "paused" /\ row.status \notin Live
  BY DEF Terminal, Live
<1>2. ~SameTurn(row, dto)
  BY <1>1 DEF SameTurn
<1> QED BY <1>1, <1>2
        DEF ApplyResult, ApplyUnreadable, ExpireStalledTurn,
            PauseAfterUnknownPromptDelivery, PauseForLostBoundary, CatchAll,
            RecoverAfterRejectedPrompt, ResumeRow, ResumeUnreadable

=============================================================================
