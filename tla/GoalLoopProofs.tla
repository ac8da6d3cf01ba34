---------------------------- MODULE GoalLoopProofs ----------------------------
(***************************************************************************)
(* Theorems about GoalLoop, for any number of loops, clients, requests,     *)
(* messages and faults.                                                     *)
(***************************************************************************)
EXTENDS GoalLoop, GoalRulesProofs

USE AgentAssumption, BudgetAssumption, FlagAssumption

-----------------------------------------------------------------------------
(* What the shared steps do to the types *)

\* The scheduler at rest is well typed.
LEMMA NoTickTyped == NoTick \in Ticks
<1>1. <<>> \in Seq(Message)
  BY EmptySeq
<1> QED BY <1>1, NoRowTyped DEF NoTick, Ticks

\* A client at rest is well typed.
LEMMA NoOpTyped == NoOp \in Ops
<1>1. <<>> \in Seq(Message)
  BY EmptySeq
<1> QED BY <1>1, NoRowTyped DEF NoOp, Ops

\* A tick that ends leaves nothing behind.
LEMMA EndTickTyped == ASSUME EndTick PROVE TickTypeOK'
BY NoTickTyped DEF EndTick, TickTypeOK, NoTick

\* A tick that moves on keeps the loop it is at, and its row.
LEMMA TickMovesTyped ==
    ASSUME TypeOK, sched.pc # "idle", NEW dto \in Row, NEW view \in Seq(Message),
           NEW pc \in {"listed", "status", "messages", "decide", "compact", "compacted",
                       "context", "posting"},
           NEW post \in {"none", "wire", "accepted", "busy", "refused"},
           sched' = [sched EXCEPT !.pc = pc, !.dto = dto, !.view = view, !.post = post],
           pc \in {"compact", "compacted"} => dto.status \in {"queued", "verifying_completed"},
           pc \in {"context", "posting"} /\ dto.turnKind = "goal" => dto.turnCount > 0
    PROVE  TickTypeOK'
<1>1. sched \in Ticks /\ sched.id \in LoopIds
  BY DEF TypeOK, TickTypeOK
<1>2. sched' \in Ticks /\ sched'.id = sched.id /\ sched'.pc = pc /\ sched'.dto = dto
  BY <1>1 DEF Ticks
<1> QED BY <1>1, <1>2 DEF TickTypeOK

\* An UPDATE that writes a well typed row keeps the table well typed.
LEMMA SetRowTyped ==
    ASSUME TypeOK, NEW l \in LoopIds, NEW row \in Row, SetRow(l, row)
    PROVE  rows' \in [LoopIds -> Row]
BY DEF TypeOK, SetRow

\* A message the engine appends keeps the transcript well typed.
LEMMA AppendMsgTyped ==
    ASSUME TypeOK, NEW from \in {"prompt", "user", "assistant", "partial"},
           NEW l \in LoopIds \cup {0}, NEW kind \in Kinds,
           NEW res \in Results \cup {"none"}, AppendMsg(from, l, kind, res)
    PROVE  transcript' \in Seq(Message) /\ nextMsg' \in Nat
<1>1. Msg(from, l, kind, res) \in Message
  BY DEF Msg, Message, AppendMsg
<1> QED BY <1>1, AppendProperties DEF AppendMsg, TypeOK, EngineTypeOK

\* So does a prompt the engine takes.
LEMMA TakeTyped ==
    ASSUME TypeOK, NEW from \in {"prompt", "user"},
           NEW l \in LoopIds \cup {0}, NEW kind \in Kinds, Take(from, l, kind)
    PROVE  transcript' \in Seq(Message) /\ nextMsg' \in Nat /\ turn' \in Turns
<1>1. transcript' \in Seq(Message) /\ nextMsg' \in Nat
  BY AppendMsgTyped DEF Take
<1> QED BY <1>1 DEF Take, Turns

\* The fault counter stays a number.
LEMMA FaultTyped == ASSUME TypeOK, Fault PROVE faults' \in Nat
BY DEF TypeOK, Fault

-----------------------------------------------------------------------------
(* Type correctness, action by action *)

\* The program starts in a well typed state.
LEMMA InitTyped == ASSUME Init PROVE TypeOK
<1>1. rows \in [LoopIds -> Row]
  BY NoRowTyped DEF Init
<1>2. EngineTypeOK
  BY EmptySeq DEF Init, EngineTypeOK, Turns, NoTurn, Kinds
<1>3. TickTypeOK
  BY NoTickTyped DEF Init, TickTypeOK, NoTick
<1>4. OpTypeOK
  BY NoOpTyped DEF Init, OpTypeOK, NoOp
<1> QED BY <1>1, <1>2, <1>3, <1>4 DEF Init, TypeOK

\* Steps of the engine keep every type.
LEMMA EngineTyped == ASSUME TypeOK, Engine PROVE TypeOK'
<1> USE DEF TypeOK
<1>1. CASE EngineStep
  <2>1. turn.loop \in LoopIds \cup {0} /\ turn.kind \in Kinds
    BY DEF EngineTypeOK, Turns
  <2>2. EngineTypeOK'
    BY <1>1, <2>1, AppendMsgTyped DEF EngineStep, EngineTypeOK
  <2> QED BY <1>1, <2>2 DEF EngineStep, TickTypeOK, OpTypeOK
<1>2. CASE EngineReply
  <2>1. turn.loop \in LoopIds \cup {0} /\ turn.kind \in Kinds
    BY DEF EngineTypeOK, Turns
  <2>2. PICK res \in Results \cup {"none"} : AppendMsg("assistant", turn.loop, turn.kind, res)
    BY <1>2 DEF EngineReply
  <2>3. NoTurn \in Turns
    BY DEF NoTurn, Turns, Kinds
  <2>4. EngineTypeOK'
    BY <1>2, <2>1, <2>2, <2>3, AppendMsgTyped DEF EngineReply, EngineTypeOK
  <2> QED BY <1>2, <2>4 DEF EngineReply, TickTypeOK, OpTypeOK
<1>3. CASE EngineDropsTurn
  <2>1. NoTurn \in Turns
    BY DEF NoTurn, Turns, Kinds
  <2> QED BY <1>3, <2>1, FaultTyped DEF EngineDropsTurn, EngineTypeOK, TickTypeOK, OpTypeOK
<1>4. CASE EngineAnswersPost
  <2> USE <1>4 DEF EngineAnswersPost
  <2>1. sched.id \in LoopIds /\ sched.dto.turnKind \in Kinds
    BY DEF TickTypeOK, Ticks, Row
  <2>2. EngineTypeOK'
    BY <2>1, TakeTyped DEF EngineTypeOK, engine
  <2>3. TickTypeOK'
    BY DEF TickTypeOK, Ticks
  <2> QED BY <2>2, <2>3 DEF OpTypeOK
<1>5. CASE EngineRefusesPost
  <2>1. TickTypeOK'
    BY <1>5 DEF EngineRefusesPost, TickTypeOK, Ticks
  <2> QED BY <1>5, <2>1, FaultTyped DEF EngineRefusesPost, engine, EngineTypeOK, OpTypeOK
<1>6. CASE LatePrompt
  <2>1. PICK p \in late : /\ late' = late \ {p}
                          /\ Take("prompt", p.loop, p.kind) \/ UNCHANGED engine
    BY <1>6 DEF LatePrompt
  <2>2. p.loop \in LoopIds \cup {0} /\ p.kind \in Kinds
    BY DEF EngineTypeOK, Prompts
  <2>3. EngineTypeOK'
    BY <2>1, <2>2, TakeTyped DEF EngineTypeOK, engine
  <2> QED BY <1>6, <2>3 DEF LatePrompt, TickTypeOK, OpTypeOK
<1> QED BY <1>1, <1>2, <1>3, <1>4, <1>5, <1>6 DEF Engine

\* The scheduler writes rows and its own tick, and nothing of the engine's but
\* the summary of a compaction.
LEMMA SchedulerTyped == ASSUME TypeOK, Scheduler PROVE TypeOK'
<1> USE DEF TypeOK
<1> DEFINE others == EngineTypeOK' /\ OpTypeOK' /\ requests' \in Nat /\ faults' \in Nat
<1>0. sched.pc # "idle" => /\ sched.id \in LoopIds /\ sched.dto \in Row
                           /\ rows[sched.id] \in Row /\ sched.view \in Seq(Message)
                           /\ sched.post \in {"none", "wire", "accepted", "busy", "refused"}
  BY DEF TickTypeOK, Ticks
<1>1. CASE TickStart
  <2>1. TickTypeOK'
    BY <1>1, NoTickTyped DEF TickStart, TickTypeOK, Ticks, NoTick
  <2> QED BY <1>1, <2>1 DEF TickStart, engine, EngineTypeOK, OpTypeOK
<1>14. CASE SchedExpire
  <2>1. SetRow(sched.id, ExpireFirst(rows[sched.id], sched.dto))
    BY <1>14 DEF SchedExpire
  <2>2. ExpireFirst(rows[sched.id], sched.dto) \in Row
    BY <1>0, <1>14, TurnEndsTyped DEF SchedExpire, ExpireFirst
  <2>3. TickTypeOK'
    BY <1>0, <1>14 DEF SchedExpire, TickTypeOK, Ticks
  <2>4. others
    BY <1>14 DEF SchedExpire, engine, EngineTypeOK, OpTypeOK
  <2> QED BY <1>0, <1>14, <2>1, <2>2, <2>3, <2>4, SetRowTyped DEF SchedExpire
<1>2. CASE SchedStatus
  <2>1. TickTypeOK'
    BY <1>2, <1>0, EndTickTyped DEF SchedStatus, TickTypeOK, Ticks
  <2> QED BY <1>2, <2>1 DEF SchedStatus, engine, EngineTypeOK, OpTypeOK
<1>3. CASE SchedMessages
  <2>1. TickTypeOK'
    BY <1>3, <1>0 DEF SchedMessages, TickTypeOK, Ticks, EngineTypeOK
  <2> QED BY <1>3, <2>1 DEF SchedMessages, engine, EngineTypeOK, OpTypeOK
<1>4. CASE SchedReadFails
  <2> QED BY <1>4, EndTickTyped, FaultTyped
          DEF SchedReadFails, engine, EngineTypeOK, OpTypeOK
<1>5. CASE SchedulerError
  <2> USE <1>5 DEF SchedulerError
  <2>1. rows' \in [LoopIds -> Row]
    BY <1>0, TurnEndsTyped, SetRowTyped
  <2> QED BY <2>1, EndTickTyped, FaultTyped DEF engine, EngineTypeOK, OpTypeOK
<1>6. CASE SchedReadsReply
  <2> USE <1>6 DEF SchedReadsReply
  <2> DEFINE row == rows[sched.id]
             t == sched.view
  <2>1. \/ SetRow(sched.id, PauseForLostBoundary(row, sched.dto))
        \/ /\ HasFinalAssistant(t, sched.dto.boundary)
           /\ \/ SetRow(sched.id, ApplyResult(row, sched.dto, t[Len(t)]))
              \/ SetRow(sched.id, ApplyUnreadable(row, sched.dto, t[Len(t)]))
        \/ SetRow(sched.id, ExpireStalledTurn(row, sched.dto))
    OBVIOUS
  <2>2. HasFinalAssistant(t, sched.dto.boundary) =>
          /\ ApplyResult(row, sched.dto, t[Len(t)]) \in Row
          /\ ApplyUnreadable(row, sched.dto, t[Len(t)]) \in Row
    BY <1>0, FinalTyped, ApplyResultTyped, ApplyUnreadableTyped
  <2>3. /\ PauseForLostBoundary(row, sched.dto) \in Row
        /\ ExpireStalledTurn(row, sched.dto) \in Row
    BY <1>0, TurnEndsTyped
  <2>4. rows' \in [LoopIds -> Row]
    BY <1>0, <2>1, <2>2, <2>3, SetRowTyped
  <2>5. others
    BY DEF engine, EngineTypeOK, OpTypeOK
  <2> QED BY <2>4, <2>5, EndTickTyped
<1>7. CASE SchedTurnLimit
  <2> USE <1>7 DEF SchedTurnLimit
  <2>1. rows' \in [LoopIds -> Row]
    BY <1>0, TurnEndsTyped, SetRowTyped
  <2> QED BY <2>1, EndTickTyped DEF engine, EngineTypeOK, OpTypeOK
<1>8. CASE SchedCompacts
  <2> USE <1>8 DEF SchedCompacts
  <2>1. TickTypeOK'
    BY <1>0 DEF BetweenTurns, TickTypeOK, Ticks
  <2>2. ASSUME nextMsg \in MsgIds, NEW kept \in {<<>>, transcript},
               transcript' = Append(kept, Msg("assistant", 0, "goal", "none"))
        PROVE  transcript' \in Seq(Message)
    <3>1. Msg("assistant", 0, "goal", "none") \in Message
      BY <2>2 DEF Msg, Message, Kinds
    <3>2. kept \in Seq(Message)
      BY EmptySeq DEF EngineTypeOK
    <3> QED BY <2>2, <3>1, <3>2, AppendProperties
  <2>3. transcript' \in Seq(Message) /\ nextMsg' \in Nat
    BY <2>2 DEF engine, EngineTypeOK
  <2> QED BY <2>1, <2>3 DEF engine, EngineTypeOK, OpTypeOK
<1>9. CASE SchedCompactConflict
  <2> QED BY <1>9, EndTickTyped, FaultTyped
          DEF SchedCompactConflict, engine, EngineTypeOK, OpTypeOK
<1>10. CASE SchedClaim
  <2> USE <1>10 DEF SchedClaim
  <2> DEFINE claimed == Claimed(rows[sched.id], LatestMessageId(sched.view))
  <2>1. sched.pc # "idle"
    BY DEF BetweenTurns
  <2>2. claimed \in Row /\ (claimed.turnKind = "goal" => claimed.turnCount > 0)
    BY <1>0, <2>1, TailTyped, ClaimTyped
  <2>3. CASE CanClaim(rows[sched.id], sched.dto)
    <3> HIDE DEF claimed
    <3>1. SetRow(sched.id, claimed)
          /\ sched' = [sched EXCEPT !.pc = "context", !.dto = claimed, !.view = <<>>]
      BY <2>3 DEF claimed
    <3>2. <<>> \in Seq(Message)
      BY EmptySeq
    <3>3. TickTypeOK'
      BY <1>0, <2>1, <2>2, <3>1, <3>2 DEF TickTypeOK, Ticks
    <3> QED BY <1>0, <2>1, <2>2, <3>1, <3>3, SetRowTyped DEF engine, EngineTypeOK, OpTypeOK
  <2>4. CASE ~CanClaim(rows[sched.id], sched.dto)
    <3> QED BY <2>4, EndTickTyped DEF engine, EngineTypeOK, OpTypeOK
  <2> QED BY <2>3, <2>4
<1>11. CASE SchedSend
  <2>1. TickTypeOK'
    BY <1>11, <1>0 DEF SchedSend, TickTypeOK, Ticks
  <2> QED BY <1>11, <2>1 DEF SchedSend, engine, EngineTypeOK, OpTypeOK
<1>12. CASE SchedPosted
  <2> USE <1>12 DEF SchedPosted
  <2>1. /\ RecoverAfterRejectedPrompt(rows[sched.id], sched.dto) \in Row
        /\ PauseAfterUnknownPromptDelivery(rows[sched.id], sched.dto) \in Row
    BY <1>0, RecoverTyped, TurnEndsTyped DEF TickTypeOK
  <2>2. rows' \in [LoopIds -> Row]
    BY <1>0, <2>1, SetRowTyped
  <2> QED BY <2>2, EndTickTyped DEF engine, EngineTypeOK, OpTypeOK
<1>13. CASE SchedPostTimeout
  <2> USE <1>13 DEF SchedPostTimeout
  <2>1. rows' \in [LoopIds -> Row]
    BY <1>0, TurnEndsTyped, SetRowTyped
  <2>2. late' \subseteq Prompts
    BY <1>0 DEF Abandon, Prompts, EngineTypeOK, Row
  <2> QED BY <2>1, <2>2, EndTickTyped, FaultTyped DEF engine, EngineTypeOK, OpTypeOK
<1> QED BY <1>1, <1>2, <1>3, <1>4, <1>5, <1>6, <1>7, <1>8, <1>9, <1>10, <1>11, <1>12,
           <1>13, <1>14 DEF Scheduler

\* The handlers write rows, their own record, and what an abort, a manual prompt
\* or a revert does to the transcript.
LEMMA ApiTyped == ASSUME TypeOK, Api PROVE TypeOK'
<1> USE DEF TypeOK
<1>0. \A c \in Clients : op[c] \in Ops
  BY DEF OpTypeOK
<1>1. ASSUME NEW c \in Clients, NEW rec \in Ops, SetOp(c, rec),
             rec.req \in {"resume", "manual"} /\ rec.pc \in {"read", "act"} =>
                rec.id \in LoopIds
      PROVE  OpTypeOK'
  BY <1>1 DEF SetOp, OpTypeOK
<1>2. ASSUME NEW c \in Clients, NEW needed \in BOOLEAN,
             NEW req \in {"pause", "stop", "create"}, AbortNext(c, req, needed)
      PROVE  OpTypeOK'
  <2> DEFINE rec == IF needed THEN [NoOp EXCEPT !.pc = "abort", !.req = req] ELSE NoOp
  <2>1. rec \in Ops /\ rec.pc \notin {"read", "act"}
    BY NoOpTyped DEF Ops, NoOp
  <2> HIDE DEF rec
  <2> QED BY <1>1, <1>2, <2>1 DEF AbortNext, rec
<1>3. ASSUME NEW c \in Clients, NEW req, Issue(c, req)
      PROVE  requests' \in Nat
  BY <1>3 DEF Issue
<1>4. \A l \in LoopIds : rows[l] \in Row
  OBVIOUS
<1>5. CASE Pause
  <2>1. PICK c \in Clients, l \in LoopIds :
          /\ Issue(c, "pause") /\ SetRow(l, PauseByUser(rows[l]))
          /\ AbortNext(c, "pause", InFlight(rows[l]))
          /\ UNCHANGED <<engine, late, sched, faults>>
    BY <1>5 DEF Pause
  <2>2. rows' \in [LoopIds -> Row]
    BY <1>4, <2>1, RequestsTyped, SetRowTyped
  <2>3. OpTypeOK'
    <3>1. InFlight(rows[l]) \in BOOLEAN
      BY DEF InFlight
    <3> QED BY <1>2, <2>1, <3>1
  <2> QED BY <1>3, <2>1, <2>2, <2>3 DEF engine, EngineTypeOK, TickTypeOK
<1>6. CASE Stop
  <2>1. PICK c \in Clients, l \in LoopIds, dismiss \in BOOLEAN :
          /\ Issue(c, "stop") /\ SetRow(l, Stopped(rows[l], dismiss))
          /\ AbortNext(c, "stop", TRUE)
          /\ UNCHANGED <<engine, late, sched, faults>>
    BY <1>6 DEF Stop
  <2>2. rows' \in [LoopIds -> Row]
    BY <1>4, <2>1, RequestsTyped, SetRowTyped
  <2>3. OpTypeOK'
    BY <1>2, <2>1
  <2> QED BY <1>3, <2>1, <2>2, <2>3 DEF engine, EngineTypeOK, TickTypeOK
<1>7. CASE Dismiss
  <2>1. PICK c \in Clients, l \in LoopIds :
          /\ Issue(c, "stop") /\ SetRow(l, [Bump(rows[l]) EXCEPT !.dismissed = TRUE])
          /\ UNCHANGED <<engine, late, sched, op, faults>>
    BY <1>7 DEF Dismiss
  <2>2. rows' \in [LoopIds -> Row]
    BY <1>4, <2>1, RequestsTyped, SetRowTyped
  <2> QED BY <1>3, <2>1, <2>2 DEF engine, EngineTypeOK, TickTypeOK, OpTypeOK
<1>8. CASE UpdateMaxTurns
  <2>1. PICK c \in Clients, l \in LoopIds, n \in TurnLimits :
          /\ Issue(c, "maxTurns") /\ SetRow(l, [Bump(rows[l]) EXCEPT !.maxTurns = n])
          /\ UNCHANGED <<engine, late, sched, op, faults>>
    BY <1>8 DEF UpdateMaxTurns
  <2>2. rows' \in [LoopIds -> Row]
    BY <1>4, <2>1, RequestsTyped, SetRowTyped
  <2> QED BY <1>3, <2>1, <2>2 DEF engine, EngineTypeOK, TickTypeOK, OpTypeOK
<1>9. CASE ReadFirst
  <2>1. PICK c \in Clients, l \in LoopIds, req \in {"resume", "manual"} :
          /\ Issue(c, req)
          /\ SetOp(c, [NoOp EXCEPT !.pc = "read", !.req = req, !.id = l, !.dto = rows[l]])
          /\ UNCHANGED <<rows, engine, late, sched, faults>>
    BY <1>9 DEF ReadFirst
  <2> DEFINE rec == [NoOp EXCEPT !.pc = "read", !.req = req, !.id = l, !.dto = rows[l]]
  <2>2. rec \in Ops /\ rec.id = l
    BY NoOpTyped DEF Ops, NoOp
  <2>3. OpTypeOK'
    <3> HIDE DEF rec
    <3>1. SetOp(c, rec)
      BY <2>1 DEF rec
    <3> QED BY <1>1, <2>2, <3>1
  <2> QED BY <1>3, <2>1, <2>3 DEF engine, EngineTypeOK, TickTypeOK
<1>10. CASE ManualSendNoLoop
  <2>1. PICK c \in Clients :
          /\ Issue(c, "manual")
          /\ SetOp(c, [NoOp EXCEPT !.pc = "forward", !.req = "manual"])
          /\ UNCHANGED <<rows, engine, late, sched, faults>>
    BY <1>10 DEF ManualSendNoLoop
  <2> DEFINE rec == [NoOp EXCEPT !.pc = "forward", !.req = "manual"]
  <2>2. rec \in Ops /\ rec.pc \notin {"read", "act"}
    BY NoOpTyped DEF Ops, NoOp
  <2>3. OpTypeOK'
    <3> HIDE DEF rec
    <3>1. SetOp(c, rec)
      BY <2>1 DEF rec
    <3> QED BY <1>1, <2>2, <3>1
  <2> QED BY <1>3, <2>1, <2>3 DEF engine, EngineTypeOK, TickTypeOK
<1>11. CASE CreateStart
  <2>1. PICK c \in Clients :
          /\ Issue(c, "create")
          /\ SetOp(c, [NoOp EXCEPT !.pc = "read", !.req = "create"])
          /\ UNCHANGED <<rows, engine, late, sched, faults>>
    BY <1>11 DEF CreateStart
  <2> DEFINE rec == [NoOp EXCEPT !.pc = "read", !.req = "create"]
  <2>2. rec \in Ops /\ rec.req \notin {"resume", "manual"}
    BY NoOpTyped DEF Ops, NoOp
  <2>3. OpTypeOK'
    <3> HIDE DEF rec
    <3>1. SetOp(c, rec)
      BY <2>1 DEF rec
    <3> QED BY <1>1, <2>2, <3>1
  <2> QED BY <1>3, <2>1, <2>3 DEF engine, EngineTypeOK, TickTypeOK
<1>12. CASE OpReads
  <2>1. PICK c \in Clients :
          /\ op[c].pc = "read" /\ SetOp(c, [op[c] EXCEPT !.pc = "act", !.view = transcript])
          /\ UNCHANGED <<rows, engine, late, sched, requests, faults>>
    BY <1>12 DEF OpReads
  <2> DEFINE rec == [op[c] EXCEPT !.pc = "act", !.view = transcript]
  <2>2. rec \in Ops /\ rec.id = op[c].id /\ rec.req = op[c].req
    BY <1>0 DEF Ops, EngineTypeOK
  <2>3. OpTypeOK'
    <3> HIDE DEF rec
    <3>1. SetOp(c, rec)
      BY <2>1 DEF rec
    <3> QED BY <1>1, <2>1, <2>2, <3>1 DEF OpTypeOK
  <2> QED BY <2>1, <2>3 DEF engine, EngineTypeOK, TickTypeOK
<1>13. CASE OpReadFails
  <2>1. PICK c \in Clients :
          /\ op[c].pc = "read" /\ Fault
          /\ SetOp(c, [op[c] EXCEPT !.pc = "act", !.readable = FALSE])
          /\ UNCHANGED <<rows, engine, late, sched, requests>>
    BY <1>13 DEF OpReadFails
  <2> DEFINE rec == [op[c] EXCEPT !.pc = "act", !.readable = FALSE]
  <2>2. rec \in Ops /\ rec.id = op[c].id /\ rec.req = op[c].req
    BY <1>0 DEF Ops
  <2>3. OpTypeOK'
    <3> HIDE DEF rec
    <3>1. SetOp(c, rec)
      BY <2>1 DEF rec
    <3> QED BY <1>1, <2>1, <2>2, <3>1 DEF OpTypeOK
  <2> QED BY <2>1, <2>3, FaultTyped DEF engine, EngineTypeOK, TickTypeOK
<1>14. CASE CreateCommit
  <2>1. PICK c \in Clients, l \in LoopIds, n \in TurnLimits, full \in FullRun :
          /\ Insert(l, NewRow(op[c].readable, LatestMessageId(op[c].view), n, full))
          /\ AbortNext(c, "create", \E k \in LoopIds : IsLatest(k) /\ InFlight(rows[k]))
          /\ UNCHANGED <<engine, late, sched, requests, faults>>
    BY <1>14 DEF CreateCommit
  <2>2. NewRow(op[c].readable, LatestMessageId(op[c].view), n, full) \in Row
    <3>1. op[c].view \in Seq(Message) /\ op[c].readable \in BOOLEAN
      BY <1>0 DEF Ops
    <3> QED BY <3>1, TailTyped, NewRowTyped
  <2>3. \A k \in LoopIds : Stopped(rows[k], FALSE) \in Row
    BY <1>4, RequestsTyped
  <2>4. rows' \in [LoopIds -> Row]
    BY <1>4, <2>1, <2>2, <2>3 DEF Insert
  <2>5. OpTypeOK'
    <3>1. (\E k \in LoopIds : IsLatest(k) /\ InFlight(rows[k])) \in BOOLEAN
      OBVIOUS
    <3> QED BY <1>2, <2>1, <3>1
  <2> QED BY <2>1, <2>4, <2>5 DEF engine, EngineTypeOK, TickTypeOK
<1>15. CASE ResumeCommit
  <2>1. PICK c \in Clients :
          /\ op[c].pc = "act" /\ op[c].req = "resume"
          /\ SetRow(op[c].id, IF op[c].readable
                              THEN ResumeRow(rows[op[c].id], op[c].dto, op[c].view)
                              ELSE ResumeUnreadable(rows[op[c].id], op[c].dto))
          /\ SetOp(c, NoOp)
          /\ UNCHANGED <<engine, late, sched, requests, faults>>
    BY <1>15 DEF ResumeCommit
  <2>2. op[c].id \in LoopIds /\ op[c].dto \in Row /\ op[c].view \in Seq(Message)
    BY <1>0, <2>1 DEF OpTypeOK, Ops
  <2>3. rows' \in [LoopIds -> Row]
    BY <1>4, <2>1, <2>2, ResumeTyped, SetRowTyped
  <2>4. OpTypeOK'
    BY <1>1, <2>1, NoOpTyped DEF NoOp
  <2> QED BY <2>1, <2>3, <2>4 DEF engine, EngineTypeOK, TickTypeOK
<1>16. CASE ManualCommit
  <2>1. PICK c \in Clients :
          /\ rows' = ManualPauses(op[c])
          /\ \/ SetOp(c, NoOp)
             \/ \E pc \in {"abort", "forward"} :
                   SetOp(c, [NoOp EXCEPT !.req = "manual", !.pc = pc])
          /\ UNCHANGED <<engine, late, sched, requests, faults>>
    BY <1>16 DEF ManualCommit
  <2>2. rows' \in [LoopIds -> Row]
    <3>1. ManualTail(op[c]) \in MsgIds \cup {0}
      BY <1>0, TailTyped DEF ManualTail, Ops, Row
    <3> QED BY <1>4, <2>1, <3>1, RequestsTyped DEF ManualPauses
  <2>3. \A pc \in {"abort", "forward"} :
           LET rec == [NoOp EXCEPT !.req = "manual", !.pc = pc]
           IN  rec \in Ops /\ rec.pc \notin {"read", "act"}
    BY NoOpTyped DEF Ops, NoOp
  <2>4. OpTypeOK'
    BY <1>1, <2>1, <2>3, NoOpTyped DEF NoOp
  <2> QED BY <2>1, <2>2, <2>4 DEF engine, EngineTypeOK, TickTypeOK
<1>17. ASSUME NEW c \in Clients, AfterAbort(c) PROVE OpTypeOK'
  <2> DEFINE rec == IF op[c].req = "manual" THEN [op[c] EXCEPT !.pc = "forward"] ELSE NoOp
  <2>1. rec \in Ops /\ rec.pc \notin {"read", "act"}
    BY <1>0, NoOpTyped DEF Ops, NoOp
  <2> HIDE DEF rec
  <2> QED BY <1>1, <1>17, <2>1 DEF AfterAbort, rec
<1>18. CASE AbortArrives
  <2>1. PICK c \in Clients : Interrupt /\ AfterAbort(c)
                             /\ UNCHANGED <<rows, late, sched, requests, faults>>
    BY <1>18 DEF AbortArrives
  <2>2. turn.loop \in LoopIds \cup {0} /\ turn.kind \in Kinds /\ NoTurn \in Turns
    BY DEF EngineTypeOK, Turns, NoTurn, Kinds
  <2>3. EngineTypeOK'
    BY <2>1, <2>2, AppendMsgTyped DEF Interrupt, EngineTypeOK
  <2> QED BY <1>17, <2>1, <2>3 DEF TickTypeOK
<1>19. CASE AbortLost
  <2>1. PICK c \in Clients : Fault /\ AfterAbort(c)
                             /\ UNCHANGED <<rows, engine, late, sched, requests>>
    BY <1>19 DEF AbortLost
  <2> QED BY <1>17, <2>1, FaultTyped DEF engine, EngineTypeOK, TickTypeOK
<1>20. CASE ForwardManual
  <2>1. PICK c \in Clients : /\ Take("user", 0, "goal") \/ UNCHANGED engine
                             /\ SetOp(c, NoOp)
                             /\ UNCHANGED <<rows, late, sched, requests, faults>>
    BY <1>20 DEF ForwardManual
  <2>2. EngineTypeOK'
    BY <2>1, TakeTyped DEF engine, EngineTypeOK, Kinds
  <2>3. OpTypeOK'
    BY <1>1, <2>1, NoOpTyped DEF NoOp
  <2> QED BY <2>1, <2>2, <2>3 DEF TickTypeOK
<1>21. CASE Revert
  <2>1. PICK c \in Clients, n \in 0 .. Len(transcript) :
          /\ Issue(c, "revert") /\ n < Len(transcript)
          /\ transcript' = SubSeq(transcript, 1, n)
          /\ UNCHANGED <<rows, nextMsg, turn, late, sched, op, faults>>
    BY <1>21 DEF Revert
  <2>2. \A i \in 1 .. n : transcript[i] \in Message
    BY <2>1, LenProperties, ElementOfSeq DEF EngineTypeOK
  <2>3. transcript' \in Seq(Message)
    BY <2>1, <2>2, SubSeqProperties, LenProperties DEF EngineTypeOK
  <2> QED BY <1>3, <2>1, <2>3 DEF EngineTypeOK, TickTypeOK, OpTypeOK
<1> QED BY <1>5, <1>6, <1>7, <1>8, <1>9, <1>10, <1>11, <1>12, <1>13, <1>14, <1>15, <1>16,
           <1>18, <1>19, <1>20, <1>21 DEF Api

\* A turn growing old keeps every type.
LEMMA TurnTimeoutTyped == ASSUME TypeOK, TurnTimeout PROVE TypeOK'
<1>1. PICK l \in LoopIds : /\ SetRow(l, [rows[l] EXCEPT !.promptAt = "old"])
                           /\ UNCHANGED <<engine, late, sched, op, requests, faults>>
  BY DEF TurnTimeout
<1>2. [rows[l] EXCEPT !.promptAt = "old"] \in Row
  <2>1. rows[l] \in Row
    BY DEF TypeOK
  <2> QED BY <2>1 DEF Row
<1> QED BY <1>1, <1>2, SetRowTyped
        DEF TypeOK, engine, EngineTypeOK, TickTypeOK, OpTypeOK

\* A crash and restart of the server keeps every type.
LEMMA CrashTyped == ASSUME TypeOK, Crash PROVE TypeOK'
<1> USE DEF Crash, TypeOK
<1>1. late' \subseteq Prompts
  BY DEF Abandon, Prompts, EngineTypeOK, TickTypeOK, Ticks, Row
<1>2. OpTypeOK'
  BY NoOpTyped DEF OpTypeOK, NoOp
<1> QED BY <1>1, <1>2, EndTickTyped, FaultTyped DEF engine, EngineTypeOK

\* Every step keeps every variable in its type: what a handler or a tick writes
\* after an await, from whatever it read before, is a row, a message or a record.
THEOREM TypeCorrect == Spec => []TypeOK
<1>1. Init => TypeOK
  BY InitTyped
<1>2. TypeOK /\ [Next]_vars => TypeOK'
  <2> SUFFICES ASSUME TypeOK, [Next]_vars PROVE TypeOK'
    OBVIOUS
  <2>1. CASE UNCHANGED vars
    BY <2>1 DEF vars, TypeOK, EngineTypeOK, TickTypeOK, OpTypeOK
  <2> QED BY <2>1, EngineTyped, SchedulerTyped, ApiTyped, TurnTimeoutTyped, CrashTyped
          DEF Next
<1> QED BY <1>1, <1>2, PTL DEF Spec

-----------------------------------------------------------------------------
(* A loop that has ended stays ended *)

Ended == Terminal \cup {"absent"}

\* The step leaves a loop that has ended, or does not exist, in its status.
EndedStays == \A l \in LoopIds : rows[l].status \in Ended => rows'[l].status = rows[l].status

\* An UPDATE that leaves an ended row ended leaves every ended loop ended.
LEMMA SetRowEnded ==
    ASSUME TypeOK, NEW l \in LoopIds, NEW row, SetRow(l, row),
           rows[l].status \in Ended => row.status = rows[l].status
    PROVE  EndedStays
BY DEF EndedStays, SetRow, TypeOK

\* A row in a live status or paused has not ended.
LEMMA OpenNotEnded == \A status \in Live \cup {"paused"} : status \notin Ended
BY DEF Live, Ended, Terminal

\* No scheduler step touches the status of an ended loop.
LEMMA SchedulerEnded == ASSUME TypeOK, Scheduler PROVE EndedStays
<1>1. \A l \in LoopIds : rows[l] \in Row
  BY DEF TypeOK
<1>2. sched.pc # "idle" => sched.id \in LoopIds
  BY DEF TypeOK, TickTypeOK
<1>3. ASSUME UNCHANGED rows PROVE EndedStays
  BY <1>3 DEF EndedStays
<1>4. CASE SchedExpire
  <2>1. SetRow(sched.id, ExpireFirst(rows[sched.id], sched.dto)) /\ sched.id \in LoopIds
    BY <1>2, <1>4 DEF SchedExpire
  <2> QED BY <1>1, <2>1, EndedUntouched, SetRowEnded DEF ExpireFirst, Ended
<1>5. CASE SchedulerError
  <2>1. SetRow(sched.id, CatchAll(rows[sched.id])) /\ sched.id \in LoopIds
    BY <1>2, <1>5 DEF SchedulerError
  <2> QED BY <1>1, <2>1, EndedUntouched, SetRowEnded DEF Ended
<1>6. CASE SchedReadsReply
  <2> DEFINE row == rows[sched.id]
             last == sched.view[Len(sched.view)]
  <2>1. /\ sched.id \in LoopIds
        /\ \/ SetRow(sched.id, PauseForLostBoundary(row, sched.dto))
           \/ SetRow(sched.id, ApplyResult(row, sched.dto, last))
           \/ SetRow(sched.id, ApplyUnreadable(row, sched.dto, last))
           \/ SetRow(sched.id, ExpireStalledTurn(row, sched.dto))
    BY <1>2, <1>6 DEF SchedReadsReply
  <2>2. row.status \in Ended =>
          /\ PauseForLostBoundary(row, sched.dto) = row
          /\ ApplyResult(row, sched.dto, last) = row
          /\ ApplyUnreadable(row, sched.dto, last) = row
          /\ ExpireStalledTurn(row, sched.dto) = row
    <3>1. row \in Row
      BY <1>1, <2>1
    <3> HIDE DEF row, last
    <3> QED BY <3>1, EndedUntouched DEF Ended
  <2> QED BY <2>1, <2>2, SetRowEnded
<1>7. CASE SchedTurnLimit
  <2>1. /\ sched.id \in LoopIds
        /\ SetRow(sched.id, PauseRow(rows[sched.id], "turn_limit"))
        /\ rows[sched.id].status = "queued"
    BY <1>2, <1>7 DEF SchedTurnLimit, OutOfTurns
  <2> QED BY <2>1, SetRowEnded, OpenNotEnded DEF Live
<1>8. CASE SchedClaim
  <2> DEFINE row == rows[sched.id]
             claimed == Claimed(row, LatestMessageId(sched.view))
  <2>1. sched.id \in LoopIds /\ sched.dto.status \in {"queued", "verifying_completed"}
    BY <1>2, <1>8 DEF SchedClaim, BetweenTurns, TypeOK, TickTypeOK
  <2>2. CanClaim(row, sched.dto) => row.status \notin Ended
    BY <2>1, OpenNotEnded DEF CanClaim, Live
  <2>3. \/ CanClaim(row, sched.dto) /\ SetRow(sched.id, claimed)
        \/ UNCHANGED rows
    BY <1>8 DEF SchedClaim
  <2> QED BY <1>3, <2>1, <2>2, <2>3, SetRowEnded
<1>9. CASE SchedPosted
  <2>1. /\ sched.id \in LoopIds
        /\ \/ UNCHANGED rows
           \/ SetRow(sched.id, RecoverAfterRejectedPrompt(rows[sched.id], sched.dto))
           \/ SetRow(sched.id, PauseAfterUnknownPromptDelivery(rows[sched.id], sched.dto))
    BY <1>2, <1>9 DEF SchedPosted
  <2> QED BY <1>1, <1>3, <2>1, EndedUntouched, SetRowEnded DEF Ended
<1>10. CASE SchedPostTimeout
  <2>1. /\ sched.id \in LoopIds
        /\ SetRow(sched.id, PauseAfterUnknownPromptDelivery(rows[sched.id], sched.dto))
    BY <1>2, <1>10 DEF SchedPostTimeout
  <2> QED BY <1>1, <2>1, EndedUntouched, SetRowEnded DEF Ended
<1>11. CASE TickStart \/ SchedStatus \/ SchedMessages \/ SchedReadFails \/ SchedCompacts
            \/ SchedCompactConflict \/ SchedSend
  BY <1>3, <1>11 DEF TickStart, SchedStatus, SchedMessages, SchedReadFails, SchedCompacts,
                     SchedCompactConflict, SchedSend
<1> QED BY <1>4, <1>5, <1>6, <1>7, <1>8, <1>9, <1>10, <1>11 DEF Scheduler

\* No API handler does either.
LEMMA ApiEnded == ASSUME TypeOK, Api, ~CreateCommit PROVE EndedStays
<1>1. \A l \in LoopIds : rows[l] \in Row
  BY DEF TypeOK
<1>2. ASSUME UNCHANGED rows PROVE EndedStays
  BY <1>2 DEF EndedStays
<1>3. CASE Pause
  <2>1. PICK l \in LoopIds : rows[l].status \in Live /\ SetRow(l, PauseByUser(rows[l]))
    BY <1>3 DEF Pause
  <2> QED BY <2>1, OpenNotEnded, SetRowEnded
<1>4. CASE Stop
  <2>1. PICK l \in LoopIds, dismiss \in BOOLEAN :
          rows[l].status \notin Ended /\ SetRow(l, Stopped(rows[l], dismiss))
    BY <1>4 DEF Stop, IsLatest, Existing, Ended
  <2> QED BY <2>1, SetRowEnded
<1>5. CASE Dismiss
  <2>1. PICK l \in LoopIds : SetRow(l, [Bump(rows[l]) EXCEPT !.dismissed = TRUE])
    BY <1>5 DEF Dismiss
  <2>2. [Bump(rows[l]) EXCEPT !.dismissed = TRUE].status = rows[l].status
    BY <1>1 DEF Bump, Row
  <2> QED BY <2>1, <2>2, SetRowEnded
<1>6. CASE UpdateMaxTurns
  <2>1. PICK l \in LoopIds, n \in TurnLimits :
          rows[l].status = "paused" /\ SetRow(l, [Bump(rows[l]) EXCEPT !.maxTurns = n])
    BY <1>6 DEF UpdateMaxTurns
  <2> QED BY <2>1, OpenNotEnded, SetRowEnded
<1>7. CASE ResumeCommit
  <2>1. PICK c \in Clients :
          /\ op[c].pc = "act" /\ op[c].req = "resume"
          /\ \/ SetRow(op[c].id, ResumeRow(rows[op[c].id], op[c].dto, op[c].view))
             \/ SetRow(op[c].id, ResumeUnreadable(rows[op[c].id], op[c].dto))
    BY <1>7 DEF ResumeCommit
  <2>2. op[c].id \in LoopIds
    BY <2>1 DEF TypeOK, OpTypeOK
  <2>3. rows[op[c].id].status \in Ended =>
          /\ ResumeRow(rows[op[c].id], op[c].dto, op[c].view) = rows[op[c].id]
          /\ ResumeUnreadable(rows[op[c].id], op[c].dto) = rows[op[c].id]
    BY <1>1, <2>2, EndedUntouched DEF Ended
  <2> QED BY <2>1, <2>2, <2>3, SetRowEnded
<1>8. CASE ManualCommit
  <2>1. PICK c \in Clients : rows' = ManualPauses(op[c])
    BY <1>8 DEF ManualCommit
  <2>2. \A l \in ManualTargets(op[c]) : rows[l].status \notin Ended
    BY OpenNotEnded DEF ManualTargets
  <2> QED BY <2>1, <2>2 DEF EndedStays, ManualPauses
<1>9. CASE ReadFirst \/ ManualSendNoLoop \/ CreateStart \/ OpReads \/ OpReadFails
           \/ AbortArrives \/ AbortLost \/ ForwardManual \/ Revert
  BY <1>2, <1>9 DEF ReadFirst, ManualSendNoLoop, CreateStart, OpReads, OpReadFails,
                    AbortArrives, AbortLost, ForwardManual, Revert
<1> QED BY <1>3, <1>4, <1>5, <1>6, <1>7, <1>8, <1>9 DEF Api

\* Only the transaction of a create changes the status of a row that has ended,
\* and only by inserting one that did not exist.
LEMMA NextEnded == ASSUME TypeOK, [Next]_vars, ~CreateCommit PROVE EndedStays
<1>1. CASE UNCHANGED vars
  BY <1>1 DEF vars, EndedStays
<1>2. CASE Engine \/ Crash
  BY <1>2 DEF EndedStays, Engine, EngineStep, EngineReply, EngineDropsTurn,
              EngineAnswersPost, EngineRefusesPost, LatePrompt, Crash
<1>3. CASE TurnTimeout
  <2>1. PICK l \in LoopIds : /\ rows[l].status = "running"
                             /\ SetRow(l, [rows[l] EXCEPT !.promptAt = "old"])
    BY <1>3 DEF TurnTimeout
  <2> QED BY <2>1, SetRowEnded, OpenNotEnded DEF Live
<1> QED BY <1>1, <1>2, <1>3, SchedulerEnded, ApiEnded DEF Next

\* What an Insert makes of each row.
LEMMA InsertedRows ==
    ASSUME TypeOK, CreateCommit
    PROVE  \E l \in LoopIds :
              /\ \A k \in Existing : k < l
              /\ \A k \in LoopIds \ {l} :
                    rows'[k].status = IF rows[k].status \in Ended THEN rows[k].status
                                      ELSE "stopped"
<1>0. PICK l \in LoopIds : /\ \A k \in Existing : k < l
                          /\ \E row : Insert(l, row)
  BY DEF CreateCommit
<1>1. PICK row : /\ \A k \in Existing : k < l
                 /\ Insert(l, row)
  BY <1>0
<1>2. ASSUME NEW k \in LoopIds, k # l
      PROVE  rows'[k].status = IF rows[k].status \in Ended THEN rows[k].status ELSE "stopped"
  <2>1. rows'[k] = IF rows[k].status \in Replaceable THEN Stopped(rows[k], FALSE)
                   ELSE rows[k]
    BY <1>1, <1>2 DEF Insert
  <2>2. Stopped(rows[k], FALSE).status = "stopped"
    BY DEF TypeOK, Stopped, Bump, Row
  <2>3. rows[k].status \in Replaceable <=> rows[k].status \notin Ended
    BY DEF TypeOK, Row, Replaceable, Statuses, Live, Terminal, Ended
  <2> QED BY <2>1, <2>2, <2>3
<1> QED BY <1>1, <1>2

\* A loop that has ended stays ended, whatever reply, refusal, time-out or resume
\* was in flight when it did.
THEOREM EndedIsFinal == Spec => TerminalIsFinal
<1>1. TypeOK /\ [Next]_vars =>
        [\A l \in LoopIds : rows[l].status \in Terminal => rows'[l].status = rows[l].status]_vars
  <2> SUFFICES ASSUME TypeOK, [Next]_vars, NEW l \in LoopIds, rows[l].status \in Terminal
               PROVE  rows'[l].status = rows[l].status
    OBVIOUS
  <2>1. CASE ~CreateCommit
    BY <2>1, NextEnded DEF EndedStays, Ended
  <2>2. CASE CreateCommit
    <3>1. PICK n \in LoopIds :
            /\ \A k \in Existing : k < n
            /\ \A k \in LoopIds \ {n} :
                  rows'[k].status = IF rows[k].status \in Ended THEN rows[k].status
                                    ELSE "stopped"
      BY <2>2, InsertedRows
    <3>2. l \in Existing
      BY DEF Existing, Terminal
    <3>3. l # n
      BY <3>1, <3>2, LoopIdsAssumption
    <3> QED BY <3>1, <3>3 DEF Ended
  <2> QED BY <2>1, <2>2
<1> QED BY <1>1, TypeCorrect, PTL DEF Spec, TerminalIsFinal

-----------------------------------------------------------------------------
(* One open loop *)

\* A create stops every open loop before its row is the newest, and nothing
\* else opens a loop: no loop goes on prompting the session out of the API's reach.
THEOREM OneOpenLoop == Spec => []OpenLoopIsLatest
<1>1. Init => OpenLoopIsLatest
  <2> SUFFICES ASSUME Init, NEW l \in LoopIds PROVE rows[l].status \notin Live \cup {"paused"}
    BY DEF OpenLoopIsLatest
  <2>1. rows[l] = NoRow
    BY DEF Init
  <2>2. NoRow.status = "absent"
    BY DEF NoRow
  <2> QED BY <2>1, <2>2 DEF Live
<1>2. TypeOK /\ OpenLoopIsLatest /\ [Next]_vars => OpenLoopIsLatest'
  <2> SUFFICES ASSUME TypeOK, OpenLoopIsLatest, [Next]_vars, NEW l \in LoopIds,
                      rows'[l].status \in Live \cup {"paused"}
               PROVE  IsLatest(l)'
    BY DEF OpenLoopIsLatest
  <2>1. l \in Existing'
    BY DEF Existing, Live
  <2>2. CASE ~CreateCommit
    <3>1. EndedStays
      BY <2>2, NextEnded
    <3>2. rows[l].status \notin Ended
      BY <3>1, OpenNotEnded DEF EndedStays
    <3>3. rows[l].status \in Live \cup {"paused"}
      BY <3>2 DEF TypeOK, Row, Statuses, Ended
    <3>4. \A k \in Existing : k <= l
      BY <3>3 DEF OpenLoopIsLatest, IsLatest
    <3>5. Existing' \subseteq Existing
      BY <3>1 DEF EndedStays, Ended, Existing
    <3> QED BY <2>1, <3>4, <3>5 DEF IsLatest
  <2>3. CASE CreateCommit
    <3>1. PICK n \in LoopIds :
            /\ \A k \in Existing : k < n
            /\ \A k \in LoopIds \ {n} :
                  rows'[k].status = IF rows[k].status \in Ended THEN rows[k].status
                                    ELSE "stopped"
      BY <2>3, InsertedRows
    <3>2. l = n
      BY <3>1, OpenNotEnded DEF Ended, Terminal
    <3>3. \A k \in Existing' : k = n \/ k \in Existing
      BY <3>1 DEF Existing, Ended
    <3>4. \A k \in Existing' : k <= n
      BY <3>1, <3>3, LoopIdsAssumption DEF Existing
    <3> QED BY <2>1, <3>2, <3>4 DEF IsLatest
  <2> QED BY <2>2, <2>3
<1> QED BY <1>1, <1>2, TypeCorrect, PTL DEF Spec

=============================================================================
