------------------------- MODULE HangWatchdogProofs -------------------------
(***************************************************************************)
(* Theorems about HangWatchdog, for every number of sends, every time-out  *)
(* and every bound.                                                        *)
(***************************************************************************)
EXTENDS HangWatchdog, TLAPS

-----------------------------------------------------------------------------
(* The row, the tick and the budget of a prompt                            *)

\* A row, and a tick's copy of one, is about a prompt that was sent.
RowsAreSent ==
    /\ row.state # "none" => row.send \in Sends /\ reqs[row.send] # "new"
    /\ tick.pc # "idle" => tick.row.send \in Sends /\ reqs[tick.row.send] # "new"

\* A prompt that was sent again is in no row, and in no tick's copy, that would send it
\* once more.  No later send brings it back: it is not new.
Spent(s) ==
    /\ reqs[s] # "new"
    /\ row.state # "none" /\ row.send = s => row.retryUsed
    /\ tick.pc # "idle" /\ tick.row.send = s => tick.row.retryUsed

Budget == \A s \in Sends : resumes[s] = 0 \/ (resumes[s] = 1 /\ Spent(s))

Shape ==
    /\ reqs \in [Sends -> {"new", "wire", "running", "refused", "done"}]
    /\ resumes \in [Sends -> Nat]

IInv == Shape /\ ResolvingHasOwner /\ RowsAreSent /\ Budget

\* No prompt was sent, and there is no row: the inductive invariant holds at first.
THEOREM IInvInit == Init => IInv
  BY DEF Init, IInv, Shape, ResolvingHasOwner, RowsAreSent, Budget, NoRow, NoTick, Sends

\* Steps that leave the row, the tick and the counts alone and make no send new again.
LEMMA QuietStep ==
    ASSUME IInv, UNCHANGED <<row, tick, resumes>>,
           reqs' \in [Sends -> {"new", "wire", "running", "refused", "done"}],
           \A s \in Sends : reqs[s] # "new" => reqs'[s] # "new"
    PROVE  IInv'
  BY DEF IInv, Shape, ResolvingHasOwner, RowsAreSent, Budget, Spent

\* A step that drops the row, with or without the end of the tick.
LEMMA DisarmStep ==
    ASSUME IInv, Disarm, UNCHANGED resumes,
           tick' = tick \/ EndTick,
           reqs' \in [Sends -> {"new", "wire", "running", "refused", "done"}],
           \A s \in Sends : reqs[s] # "new" => reqs'[s] # "new"
    PROVE  IInv'
  BY DEF IInv, Shape, ResolvingHasOwner, RowsAreSent, Budget, Spent, Disarm, NoRow,
         EndTick, NoTick

\* A step of the tick that keeps its copy, or ends it, and leaves the row's prompt and
\* its budget as they are.
LEMMA TickStep ==
    ASSUME IInv, UNCHANGED <<reqs, resumes>>,
           tick'.pc # "idle" => tick.pc # "idle" /\ tick'.row = tick.row,
           row'.state # "none" => /\ row.state # "none" /\ row'.send = row.send
                                  /\ row'.retryUsed = row.retryUsed,
           row'.state = "resolving" => tick'.pc \in {"abort", "waiting"}
    PROVE  IInv'
  BY DEF IInv, Shape, ResolvingHasOwner, RowsAreSent, Budget, Spent

\* armHangWatch gives a new budget, to a prompt that was never sent.
LEMMA SendStep == IInv /\ Send => IInv'
<1> SUFFICES ASSUME IInv, Send PROVE IInv'
  OBVIOUS
<1>1. PICK s \in Sends : /\ reqs[s] = "new"
                         /\ row' = Armed(s)
                         /\ reqs' = [reqs EXCEPT ![s] = "wire"]
  BY DEF Send, SetReq
<1>2. UNCHANGED <<tick, resumes>>
  BY DEF Send
<1>3. row'.state = "armed" /\ row'.send = s
  BY <1>1 DEF Armed
<1>4. resumes[s] = 0
  BY <1>1 DEF IInv, Budget, Spent
<1>5. QED
  BY <1>1, <1>2, <1>3, <1>4 DEF IInv, Shape, ResolvingHasOwner, RowsAreSent, Budget, Spent

\* listArmedHangWatches copies the row with its budget, spent or not.
LEMMA StartStep == IInv /\ TickStart => IInv'
  BY DEF TickStart, NoTick, history, engine, IInv, Shape, ResolvingHasOwner, RowsAreSent,
         Budget, Spent

\* The one step that counts: the copy has its budget, so the prompt was not sent again,
\* and the row of the same prompt loses its budget in the same step.
LEMMA ResumesStep == IInv /\ TickResumes => IInv'
<1> SUFFICES ASSUME IInv, TickResumes PROVE IInv'
  OBVIOUS
<1> DEFINE r == tick.row
<1>1. UNCHANGED reqs /\ EndTick /\ tick.pc # "idle"
  BY DEF TickResumes
<1>2. CASE Disarm /\ UNCHANGED resumes
  BY <1>1, <1>2, DisarmStep DEF IInv, Shape
<1>3. CASE /\ ~r.retryUsed
           /\ row' = Resumed(row)
           /\ resumes' = [resumes EXCEPT ![r.send] = @ + 1]
  <2>1. r.send \in Sends /\ reqs[r.send] # "new"
    BY <1>1 DEF IInv, RowsAreSent
  <2>2. resumes[r.send] = 0
    BY <1>1, <1>3, <2>1 DEF IInv, Budget, Spent
  <2>3. resumes' \in [Sends -> Nat] /\ resumes'[r.send] = 1
        /\ \A s \in Sends \ {r.send} : resumes'[s] = resumes[s]
    BY <1>3, <2>1, <2>2 DEF IInv, Shape
  <2>4. tick'.pc = "idle"
    BY <1>1 DEF EndTick, NoTick
  <2>5. /\ row'.state # "resolving"
        /\ row'.state # "none" => /\ row.state # "none" /\ row'.send = row.send
                                  /\ row'.retryUsed
    <3>1. CASE row.state = "none"
      BY <1>3, <3>1 DEF Resumed
    <3>2. CASE row.state # "none"
      <4> DEFINE q == [row EXCEPT !.retryUsed = TRUE, !.startedAt = now, !.progressAt = now,
                                  !.print = 0, !.state = "armed"]
      <4>1. row' = q
        BY <1>3, <3>2 DEF Resumed
      <4>2. QED
        BY <3>2, <4>1
    <3>3. QED
      BY <3>1, <3>2
  <2>6. QED
    BY <1>1, <2>1, <2>3, <2>4, <2>5
    DEF IInv, Shape, ResolvingHasOwner, RowsAreSent, Budget, Spent
<1>4. QED
  BY <1>2, <1>3 DEF TickResumes

\* From the status to the abort the tick writes no prompt and no budget to the row.
LEMMA TicksStep ==
    IInv /\ (TickStatus \/ TickReadFails \/ TickMessages \/ TickDecides
             \/ TickAsksPending \/ TickAborts \/ TickGivesUp) => IInv'
<1> SUFFICES ASSUME IInv PROVE TickStatus \/ TickReadFails \/ TickMessages \/ TickDecides
                               \/ TickAsksPending \/ TickAborts \/ TickGivesUp => IInv'
  OBVIOUS
<1>t. reqs \in [Sends -> {"new", "wire", "running", "refused", "done"}]
  BY DEF IInv, Shape
<1>o. row.state = "resolving" => tick.pc \in {"abort", "waiting"}
  BY DEF IInv, ResolvingHasOwner
<1>1. CASE TickStatus
  <2>1. UNCHANGED <<reqs, resumes>> /\ tick.pc = "status"
    BY <1>1 DEF TickStatus, history
  <2>2. CASE Disarm /\ EndTick
    BY <1>t, <2>1, <2>2, DisarmStep
  <2>3. CASE UNCHANGED row /\ (EndTick \/ tick' = [tick EXCEPT !.pc = "messages"])
    <3>1. CASE EndTick
      BY <1>o, <2>1, <2>3, <3>1, TickStep DEF EndTick, NoTick
    <3>2. CASE tick' = [tick EXCEPT !.pc = "messages"]
      <4>1. tick'.row = tick.row
        BY <3>2
      <4>2. QED
        BY <1>o, <2>1, <2>3, <4>1, TickStep
    <3>3. QED
      BY <2>3, <3>1, <3>2
  <2>4. QED
    BY <1>1, <2>2, <2>3 DEF TickStatus
<1>2. CASE TickReadFails
  BY <1>2, <1>o, TickStep DEF TickReadFails, EndTick, NoTick, history
<1>3. CASE TickMessages
  <2>1. UNCHANGED <<reqs, resumes>> /\ tick.pc = "messages"
    BY <1>3 DEF TickMessages, history
  <2>2. CASE Disarm /\ EndTick
    BY <1>t, <2>1, <2>2, DisarmStep
  <2>3. CASE UNCHANGED row /\ EndTick
    BY <1>o, <2>1, <2>3, TickStep DEF EndTick, NoTick
  <2>4. CASE /\ UNCHANGED row
             /\ tick' = [tick EXCEPT !.pc = "decide", !.view = transcript,
                              !.over = turn.send \in ended /\ turn.send = tick.row.send]
    <3>1. tick'.row = tick.row
      BY <2>4
    <3>2. QED
      BY <1>o, <2>1, <2>4, <3>1, TickStep
  <2>5. QED
    BY <1>3, <2>2, <2>3, <2>4 DEF TickMessages
<1>4. CASE TickDecides
  <2>1. UNCHANGED <<reqs, resumes>> /\ tick.pc = "decide"
    BY <1>4 DEF TickDecides, history
  <2>2. CASE Disarm /\ EndTick
    BY <1>t, <2>1, <2>2, DisarmStep
  <2>3. CASE UNCHANGED row /\ (EndTick \/ tick' = [tick EXCEPT !.pc = "pending"])
    <3>1. CASE EndTick
      BY <1>o, <2>1, <2>3, <3>1, TickStep DEF EndTick, NoTick
    <3>2. CASE tick' = [tick EXCEPT !.pc = "pending"]
      <4>1. tick'.row = tick.row
        BY <3>2
      <4>2. QED
        BY <1>o, <2>1, <2>3, <4>1, TickStep
    <3>3. QED
      BY <2>3, <3>1, <3>2
  <2>4. CASE EndTick /\ \E at, print : RecordProgress(at, print)
    <3>1. PICK at, print : RecordProgress(at, print)
      BY <2>4
    <3>2. \/ row' = row
          \/ row' = [row EXCEPT !.progressAt = at, !.print = print]
      BY <3>1 DEF RecordProgress
    <3>3. /\ row'.state = row.state
          /\ row'.state # "none" => row'.send = row.send /\ row'.retryUsed = row.retryUsed
      BY <3>1, <3>2 DEF RecordProgress
    <3>4. QED
      BY <1>o, <2>1, <2>4, <3>3, TickStep DEF EndTick, NoTick
  <2>5. QED
    BY <1>4, <2>2, <2>3, <2>4 DEF TickDecides
<1>5. CASE TickAsksPending
  <2>1. UNCHANGED <<reqs, resumes>> /\ tick.pc = "pending"
    BY <1>5 DEF TickAsksPending, history
  <2>2. CASE RecordProgress(now, tick.view.size) /\ EndTick
    BY <1>o, <2>1, <2>2, TickStep DEF RecordProgress, EndTick, NoTick
  <2>3. CASE UNCHANGED row /\ EndTick
    BY <1>o, <2>1, <2>3, TickStep DEF EndTick, NoTick
  <2>4. CASE /\ row.state = "armed"
             /\ row' = [row EXCEPT !.state = "resolving"]
             /\ tick' = [tick EXCEPT !.pc = "abort", !.view = Empty]
    BY <2>1, <2>4, TickStep
  <2>5. QED
    BY <1>5, <2>2, <2>3, <2>4 DEF TickAsksPending
<1>6. CASE TickAborts
  BY <1>6, TickStep DEF TickAborts, history
<1>7. CASE TickGivesUp
  BY <1>7, TickStep DEF TickGivesUp, EndTick, NoTick, history
<1>8. QED
  BY <1>1, <1>2, <1>3, <1>4, <1>5, <1>6, <1>7

\* recoverInterruptedHangWatches gives no budget back.
LEMMA CrashStep == IInv /\ Crash => IInv'
<1> SUFFICES ASSUME IInv, Crash PROVE IInv'
  OBVIOUS
<1>1. /\ row' = Recovered(row) /\ tick'.pc = "idle" /\ UNCHANGED resumes
      /\ reqs' = [s \in Sends |-> IF reqs[s] = "new" THEN "new" ELSE "done"]
  BY DEF Crash, EndTick, NoTick, history
<1>2. /\ row'.state # "resolving"
      /\ row'.state # "none" => /\ row.state # "none" /\ row'.send = row.send
                                /\ row'.retryUsed = row.retryUsed
  <2>1. CASE row.state = "resolving"
    <3>1. row' = [row EXCEPT !.state = "armed"]
      BY <1>1, <2>1 DEF Recovered
    <3>2. QED
      BY <2>1, <3>1
  <2>2. CASE row.state # "resolving"
    BY <1>1, <2>2 DEF Recovered
  <2>3. QED
    BY <2>1, <2>2
<1>3. QED
  BY <1>1, <1>2 DEF IInv, Shape, ResolvingHasOwner, RowsAreSent, Budget, Spent

\* The handlers of the proxy overwrite or drop the row.
LEMMA ProxyStep == IInv /\ Proxy => IInv'
<1> SUFFICES ASSUME IInv, Proxy PROVE IInv'
  OBVIOUS
<1>t. reqs \in [Sends -> {"new", "wire", "running", "refused", "done"}]
  BY DEF IInv, Shape
<1>1. CASE Send
  BY <1>1, SendStep
<1>2. CASE RequestAnswered
  BY <1>2, <1>t, DisarmStep DEF RequestAnswered, SetReq, history
<1>3. CASE RequestBreaks
  BY <1>3, <1>t, DisarmStep DEF RequestBreaks, SetReq, history
<1>4. CASE RequestTimesOut
  BY <1>4, <1>t, QuietStep DEF RequestTimesOut, SetReq, history
<1>5. CASE UserStops
  BY <1>5, <1>t, DisarmStep DEF UserStops
<1>6. QED
  BY <1>1, <1>2, <1>3, <1>4, <1>5 DEF Proxy

\* The engine's steps do not touch the row.
LEMMA EngineStep == IInv /\ Engine => IInv'
<1> SUFFICES ASSUME IInv, Engine PROVE IInv'
  OBVIOUS
<1>t. reqs \in [Sends -> {"new", "wire", "running", "refused", "done"}]
  BY DEF IInv, Shape
<1>1. CASE EngineAnswers
  BY <1>1, <1>t, QuietStep DEF EngineAnswers, SetReq, history
<1>2. CASE EngineMoves \/ EngineReplies \/ EngineDropsTurn
           \/ PromptArrives \/ ForeignPrompt \/ DeleteSession
  BY <1>2, <1>t, QuietStep
  DEF EngineMoves, EngineReplies, EngineDropsTurn, PromptArrives, ForeignPrompt,
      DeleteSession, history
<1>3. QED
  BY <1>1, <1>2 DEF Engine

\* Every step of the specification keeps the inductive invariant.
THEOREM IInvStep == IInv /\ [Next]_vars => IInv'
<1> SUFFICES ASSUME IInv, [Next]_vars PROVE IInv'
  OBVIOUS
<1>t. reqs \in [Sends -> {"new", "wire", "running", "refused", "done"}]
  BY DEF IInv, Shape
<1>1. CASE Advance
  BY <1>1, <1>t, QuietStep DEF Advance, history
<1>2. CASE Engine
  BY <1>2, EngineStep
<1>3. CASE Proxy
  BY <1>3, ProxyStep
<1>4. CASE Watchdog
  BY <1>4, StartStep, TicksStep, ResumesStep DEF Watchdog
<1>5. CASE Crash
  BY <1>5, CrashStep
<1>6. CASE UNCHANGED vars
  BY <1>6, <1>t, QuietStep DEF vars
<1>7. QED
  BY <1>1, <1>2, <1>3, <1>4, <1>5, <1>6 DEF Next

\* The inductive invariant holds in every state the watchdog can reach.
THEOREM IInvAlways == Spec => []IInv
  BY IInvInit, IInvStep, PTL DEF Spec

-----------------------------------------------------------------------------
(* The properties *)

\* However many prompts are sent, and whatever ticks, crashes, time-outs and aborts
\* fall between them, the watchdog sends none of them again twice.
THEOREM BudgetHolds == Spec => []ResumedOnce
<1>1. IInv => ResumedOnce
  BY DEF IInv, Budget, ResumedOnce
<1>2. QED
  BY <1>1, IInvAlways, PTL

\* At all times a row in the resolving state has the tick that put it there.
THEOREM ResolvingIsOwned == Spec => []ResolvingHasOwner
<1>1. IInv => ResolvingHasOwner
  BY DEF IInv
<1>2. QED
  BY <1>1, IInvAlways, PTL

-----------------------------------------------------------------------------
(* Types                                                                    *)

\* Every row the handlers write is a row.
LEMMA RowsTyped ==
    ASSUME TypeOK
    PROVE  /\ NoRow \in Rows /\ NoRow.state = "none"
           /\ \A s \in Sends : Armed(s) \in Rows /\ Armed(s).send = s
           /\ Resumed(row) \in Rows /\ Resumed(row).send = row.send
           /\ (Resumed(row).state # "none" => row.state # "none")
           /\ Recovered(row) \in Rows /\ Recovered(row).send = row.send
           /\ (Recovered(row).state # "none" => row.state # "none")
<1>1. NoRow \in Rows /\ NoRow.state = "none"
  BY SendsAssumption DEF NoRow, Rows
<1>2. \A s \in Sends : Armed(s) \in Rows /\ Armed(s).send = s
  BY DEF Armed, Rows, Sends, TypeOK
<1>3. /\ Resumed(row) \in Rows /\ Resumed(row).send = row.send
      /\ (Resumed(row).state # "none" => row.state # "none")
  <2>1. row \in Rows /\ now \in Nat
    BY DEF TypeOK
  <2>2. CASE row.state = "none"
    BY <2>1, <2>2 DEF Resumed
  <2>3. CASE row.state # "none"
    <3> DEFINE r == [row EXCEPT !.retryUsed = TRUE, !.startedAt = now, !.progressAt = now,
                                !.print = 0, !.state = "armed"]
    <3>1. Resumed(row) = r
      BY <2>3 DEF Resumed
    <3>2. now \in Int
      BY <2>1
    <3>3. r \in Rows /\ r.send = row.send
      BY <2>1, <3>2 DEF Rows
    <3> QED BY <2>3, <3>1, <3>3
  <2> QED BY <2>2, <2>3
<1>4. /\ Recovered(row) \in Rows /\ Recovered(row).send = row.send
      /\ (Recovered(row).state # "none" => row.state # "none")
  BY DEF TypeOK, Rows, Recovered
<1> QED BY <1>1, <1>2, <1>3, <1>4

EngineTyped == /\ session \in [gone : BOOLEAN, child : BOOLEAN]
               /\ turn \in [busy : BOOLEAN, send : 0 .. MaxSends]
               /\ transcript \in Views

Ticks == [pc : {"idle", "status", "messages", "decide", "pending", "abort", "waiting"},
          row : Rows, view : Views, over : BOOLEAN]

RowTyped  == row \in Rows /\ (row.state # "none" => row.send \in Sends)
TickTyped == tick \in Ticks /\ (tick.pc # "idle" => tick.row.send \in Sends)
RestTyped == /\ reqs \in [Sends -> {"new", "wire", "running", "refused", "done"}]
             /\ wire \subseteq Sends
             /\ faults \in Nat
             /\ ended \subseteq Sends /\ stopped \in BOOLEAN
             /\ resumes \in [Sends -> Nat]

\* The parts of the type invariant.
LEMMA TypeParts ==
    /\ TypeOK <=> now \in Nat /\ EngineTyped /\ RowTyped /\ TickTyped /\ RestTyped
    /\ TypeOK' <=> now' \in Nat /\ EngineTyped' /\ RowTyped' /\ TickTyped' /\ RestTyped'
  BY DEF TypeOK, EngineTyped, RowTyped, TickTyped, RestTyped, Ticks

\* A tick that has ended is well typed.
LEMMA IdleTyped == NoTick \in Ticks /\ NoTick.pc = "idle"
<1>1. NoRow \in Rows /\ Empty \in Views
  BY SendsAssumption DEF NoRow, Rows, Empty, Views
<1> QED BY <1>1 DEF NoTick, Ticks

\* What the agent shows is a transcript.
LEMMA ShowsTyped ==
    ASSUME transcript \in Views, NEW v \in Views, Shows(v) PROVE transcript' \in Views
<1>1. transcript.size + 1 \in Nat
  BY DEF Views
<1> QED BY <1>1 DEF Shows, Views

\* What the agent and an abort do to the engine.
LEMMA EngineOps ==
    ASSUME TypeOK
    PROVE  /\ \A s \in 0 .. MaxSends : Take(s) => EngineTyped'
           /\ Interrupt => EngineTyped'
           /\ UNCHANGED engine => EngineTyped'
<1> USE DEF EngineTyped
<1>0. EngineTyped /\ now \in Nat
  BY TypeParts
<1>1. ASSUME NEW s \in 0 .. MaxSends, Take(s) PROVE EngineTyped'
  <2> DEFINE v == [transcript EXCEPT !.userAt = now, !.activeAt = now,
                                     !.assistant = FALSE, !.tool = FALSE]
  <2>1. v \in Views
    BY <1>0 DEF Views
  <2>2. Shows(v) /\ UNCHANGED session /\ turn' = [busy |-> TRUE, send |-> s]
    BY <1>1 DEF Take
  <2> HIDE DEF v
  <2> QED BY <1>0, <2>1, <2>2, ShowsTyped
<1>2. ASSUME Interrupt PROVE EngineTyped'
  <2>1. session' = session /\ turn' = Over(turn)
    BY <1>2 DEF Interrupt
  <2>2. transcript' \in Views
    <3>1. [transcript EXCEPT !.tool = FALSE, !.activeAt = now] \in Views
      BY <1>0 DEF Views
    <3> QED BY <1>0, <1>2, <3>1, ShowsTyped DEF Interrupt
  <2> QED BY <1>0, <2>1, <2>2 DEF Over
<1>3. ASSUME UNCHANGED engine PROVE EngineTyped'
  BY <1>0, <1>3 DEF engine
<1> QED BY <1>1, <1>2, <1>3

\* Steps of the engine keep every type.
LEMMA EngineStepTyped == TypeOK /\ Engine => TypeOK'
<1> SUFFICES ASSUME TypeOK, Engine PROVE TypeOK'
  OBVIOUS
<1>0. now \in Nat /\ EngineTyped /\ RowTyped /\ TickTyped /\ RestTyped
  BY TypeParts
<1> SUFFICES UNCHANGED <<now, row, tick>> /\ EngineTyped' /\ RestTyped'
  BY <1>0, TypeParts DEF RowTyped, TickTyped
<1>f. faults' = faults \/ faults' = faults + 1
  BY DEF Engine, EngineMoves, EngineReplies, EngineDropsTurn, EngineAnswers, PromptArrives,
         ForeignPrompt, DeleteSession, Fault
<1>1. CASE EngineMoves
  <2>1. EngineTyped'
    <3>1. PICK tool \in BOOLEAN, at \in {transcript.activeAt, now} :
            Shows([transcript EXCEPT !.assistant = TRUE, !.tool = tool, !.activeAt = at])
      BY <1>1 DEF EngineMoves
    <3>2. [transcript EXCEPT !.assistant = TRUE, !.tool = tool, !.activeAt = at] \in Views
      BY <1>0 DEF EngineTyped, Views
    <3>3. transcript' \in Views
      BY <1>0, <3>1, <3>2, ShowsTyped DEF EngineTyped
    <3> QED BY <1>0, <1>1, <3>3 DEF EngineMoves, EngineTyped
  <2> QED BY <1>0, <1>1, <2>1 DEF EngineMoves, RestTyped, history
<1>2. CASE EngineReplies
  <2>1. EngineTyped'
    <3>1. [transcript EXCEPT !.assistant = TRUE, !.tool = FALSE, !.activeAt = now] \in Views
      BY <1>0 DEF EngineTyped, Views
    <3>2. transcript' \in Views
      BY <1>0, <1>2, <3>1, ShowsTyped DEF EngineReplies, EngineTyped
    <3> QED BY <1>0, <1>2, <3>2 DEF EngineReplies, EngineTyped, Over
  <2>2. ended' \subseteq Sends
    BY <1>0, <1>2 DEF EngineReplies, RestTyped
  <2> QED BY <1>0, <1>2, <2>1, <2>2 DEF EngineReplies, RestTyped
<1>3. CASE EngineDropsTurn
  <2>1. EngineTyped'
    BY <1>0, <1>3 DEF EngineDropsTurn, EngineTyped, Over
  <2>2. faults' \in Nat
    BY <1>0, <1>f DEF RestTyped
  <2> QED BY <1>0, <1>3, <2>1, <2>2 DEF EngineDropsTurn, RestTyped, history
<1>4. CASE EngineAnswers
  <2>1. PICK s \in Sends : /\ Take(s) \/ UNCHANGED engine
                           /\ \E pc \in {"running", "done", "refused"} : SetReq(s, pc)
    BY <1>4 DEF EngineAnswers
  <2>2. s \in 0 .. MaxSends
    BY SendsAssumption DEF Sends
  <2>3. EngineTyped'
    BY <2>1, <2>2, EngineOps
  <2>4. reqs' \in [Sends -> {"new", "wire", "running", "refused", "done"}]
    BY <1>0, <2>1 DEF SetReq, RestTyped
  <2> QED BY <1>0, <1>4, <2>3, <2>4 DEF EngineAnswers, RestTyped, history
<1>5. CASE PromptArrives
  <2>1. PICK s \in wire : (Take(s) \/ UNCHANGED engine) /\ wire' = wire \ {s}
    BY <1>5 DEF PromptArrives
  <2>2. s \in 0 .. MaxSends
    BY <1>0, SendsAssumption DEF Sends, RestTyped
  <2>3. EngineTyped'
    BY <2>1, <2>2, EngineOps
  <2> QED BY <1>0, <1>5, <2>1, <2>3 DEF PromptArrives, RestTyped, history
<1>6. CASE ForeignPrompt
  <2>1. EngineTyped'
    BY <1>6, EngineOps, SendsAssumption DEF ForeignPrompt
  <2> QED BY <1>0, <1>6, <1>f, <2>1 DEF ForeignPrompt, RestTyped, history
<1>7. CASE DeleteSession
  <2>1. EngineTyped'
    <3>1. NoTurn \in [busy : BOOLEAN, send : 0 .. MaxSends] /\ Empty \in Views
      BY SendsAssumption DEF NoTurn, Empty, Views
    <3> QED BY <1>0, <1>7, <3>1 DEF DeleteSession, EngineTyped
  <2> QED BY <1>0, <1>7, <2>1 DEF DeleteSession, RestTyped, history
<1> QED BY <1>1, <1>2, <1>3, <1>4, <1>5, <1>6, <1>7 DEF Engine

\* So do the handlers of the proxy.
LEMMA ProxyStepTyped == TypeOK /\ Proxy => TypeOK'
<1> SUFFICES ASSUME TypeOK, Proxy PROVE TypeOK'
  OBVIOUS
<1>0. now \in Nat /\ EngineTyped /\ RowTyped /\ TickTyped /\ RestTyped
  BY TypeParts
<1>n. UNCHANGED <<now, tick>>
  BY DEF Proxy, Send, RequestAnswered, RequestBreaks, RequestTimesOut, UserStops
<1> SUFFICES EngineTyped' /\ RowTyped' /\ RestTyped'
  BY <1>0, <1>n, TypeParts DEF TickTyped
<1>f. faults' \in Nat
  BY <1>0 DEF Proxy, Send, RequestAnswered, RequestBreaks, RequestTimesOut, UserStops, Fault,
              RestTyped
<1>d. Disarm => RowTyped'
  BY RowsTyped DEF Disarm, RowTyped
<1>r. \A s \in Sends, pc \in {"wire", "done"} : SetReq(s, pc) =>
        reqs' \in [Sends -> {"new", "wire", "running", "refused", "done"}]
  BY <1>0 DEF SetReq, RestTyped
<1>a. \A s \in Sends : Abandon(s) => wire' \subseteq Sends
  BY <1>0 DEF Abandon, RestTyped
<1>1. CASE Send
  <2>1. PICK s \in Sends : row' = Armed(s) /\ SetReq(s, "wire")
    BY <1>1 DEF Send
  <2>2. RowTyped'
    BY <2>1, RowsTyped DEF RowTyped
  <2> QED BY <1>0, <1>1, <1>r, <1>f, <2>1, <2>2, EngineOps DEF Send, RestTyped
<1>2. CASE RequestAnswered
  BY <1>0, <1>2, <1>d, <1>r, <1>f, EngineOps DEF RequestAnswered, RestTyped, history
<1>3. CASE RequestBreaks
  BY <1>0, <1>3, <1>d, <1>r, <1>a, <1>f, EngineOps DEF RequestBreaks, RestTyped, history
<1>4. CASE RequestTimesOut
  BY <1>0, <1>4, <1>r, <1>a, <1>f, EngineOps DEF RequestTimesOut, RowTyped, RestTyped, history
<1>5. CASE UserStops
  BY <1>0, <1>5, <1>d, <1>f, EngineOps DEF UserStops, RestTyped
<1> QED BY <1>1, <1>2, <1>3, <1>4, <1>5 DEF Proxy

\* And the tick, whatever the row has become since it copied it.
LEMMA TickStepTyped == TypeOK /\ Watchdog => TypeOK'
<1> SUFFICES ASSUME TypeOK, Watchdog PROVE TypeOK'
  OBVIOUS
<1>0. now \in Nat /\ EngineTyped /\ RowTyped /\ TickTyped /\ RestTyped
  BY TypeParts
<1>n. UNCHANGED <<now, reqs, ended, stopped>>
  BY DEF Watchdog, TickStart, TickStatus, TickReadFails, TickMessages, TickDecides,
         TickAsksPending, TickAborts, TickGivesUp, TickResumes, history
<1>f. faults' \in Nat
  BY <1>0 DEF Watchdog, TickStart, TickStatus, TickReadFails, TickMessages, TickDecides,
              TickAsksPending, TickAborts, TickGivesUp, TickResumes, Fault, RestTyped
<1>u. TickResumes \/ UNCHANGED <<wire, resumes>>
  BY DEF Watchdog, TickStart, TickStatus, TickReadFails, TickMessages, TickDecides,
         TickAsksPending, TickAborts, TickGivesUp, history
<1>e. EngineTyped'
  BY EngineOps DEF Watchdog, TickStart, TickStatus, TickReadFails, TickMessages, TickDecides,
         TickAsksPending, TickAborts, TickGivesUp, TickResumes
<1>r. wire' \subseteq Sends /\ resumes' \in [Sends -> Nat]
  <2>1. CASE UNCHANGED <<wire, resumes>>
    BY <1>0, <2>1 DEF RestTyped
  <2>2. CASE TickResumes
    <3>1. tick.row.send \in Sends
      BY <1>0, <2>2 DEF TickResumes, TickTyped
    <3> QED BY <1>0, <2>2, <3>1 DEF TickResumes, RestTyped
  <2> QED BY <1>u, <2>1, <2>2
<1> SUFFICES RowTyped' /\ TickTyped'
  BY <1>0, <1>n, <1>f, <1>e, <1>r, TypeParts DEF RestTyped
<1>d. Disarm => RowTyped'
  BY RowsTyped DEF Disarm, RowTyped
<1>k. UNCHANGED row => RowTyped'
  BY <1>0 DEF RowTyped
<1>i. EndTick => TickTyped'
  BY IdleTyped DEF EndTick, TickTyped
<1>p. \A at \in Int, print \in Nat : RecordProgress(at, print) => RowTyped'
  BY <1>0 DEF RecordProgress, RowTyped, Rows
<1>c. \A pc \in {"messages", "pending", "waiting"} :
        tick.pc # "idle" /\ tick' = [tick EXCEPT !.pc = pc] => TickTyped'
  BY <1>0 DEF TickTyped, Ticks
<1>s. \A state \in {"armed", "resolving"} :
        row.state # "none" /\ row' = [row EXCEPT !.state = state] => RowTyped'
  BY <1>0 DEF RowTyped, Rows
<1>1. CASE TickStart
  <2>1. TickTyped'
    BY <1>0, <1>1, IdleTyped DEF TickStart, TickTyped, RowTyped, Ticks
  <2> QED BY <1>1, <1>k, <2>1 DEF TickStart
<1>2. CASE TickStatus
  BY <1>2, <1>d, <1>k, <1>i, <1>c DEF TickStatus
<1>3. CASE TickReadFails
  BY <1>3, <1>k, <1>i DEF TickReadFails
<1>4. CASE TickMessages
  <2>1. CASE tick' = [tick EXCEPT !.pc = "decide", !.view = transcript,
                        !.over = turn.send \in ended /\ turn.send = tick.row.send]
    <3>1. (turn.send \in ended /\ turn.send = tick.row.send) \in BOOLEAN
      OBVIOUS
    <3>2. tick.pc # "idle" /\ transcript \in Views
      BY <1>0, <1>4 DEF TickMessages, EngineTyped
    <3>3. TickTyped'
      BY <1>0, <2>1, <3>1, <3>2 DEF TickTyped, Ticks
    <3> QED BY <1>4, <1>k, <1>d, <3>3 DEF TickMessages
  <2> QED BY <1>4, <1>d, <1>k, <1>i, <2>1 DEF TickMessages
<1>5. CASE TickDecides
  <2> DEFINE at == Later(tick.view.activeAt, tick.row.startedAt)
  <2>0. tick.pc # "idle" /\ tick.view.size \in Nat /\ at \in Nat
    BY <1>0, <1>5 DEF TickDecides, TickTyped, Ticks, Views, Rows, Later
  <2>1. /\ Later(at, now) \in Int /\ at \in Int /\ now - Timeout + Grace \in Int
    BY <1>0, <2>0, TimesAssumption DEF Later
  <2> HIDE DEF at
  <2> QED BY <1>5, <1>d, <1>k, <1>i, <1>c, <1>p, <2>0, <2>1 DEF TickDecides, at
<1>6. CASE TickAsksPending
  <2>1. tick.view.size \in Nat /\ now \in Int
    BY <1>0 DEF TickTyped, Ticks, Views
  <2>2. tick.pc # "idle" /\ tick' = [tick EXCEPT !.pc = "abort", !.view = Empty] => TickTyped'
    <3>1. Empty \in Views
      BY DEF Empty, Views
    <3> QED BY <1>0, <3>1 DEF TickTyped, Ticks
  <2>3. tick.pc # "idle"
    BY <1>6 DEF TickAsksPending
  <2> QED BY <1>6, <1>k, <1>i, <1>p, <1>s, <2>1, <2>2, <2>3 DEF TickAsksPending
<1>7. CASE TickAborts
  BY <1>7, <1>k, <1>c DEF TickAborts
<1>8. CASE TickGivesUp
  BY <1>8, <1>k, <1>i, <1>s DEF TickGivesUp
<1>9. CASE TickResumes
  <2>1. row' = Resumed(row) => RowTyped'
    BY <1>0, RowsTyped DEF RowTyped
  <2> QED BY <1>9, <1>d, <1>i, <2>1 DEF TickResumes
<1> QED BY <1>1, <1>2, <1>3, <1>4, <1>5, <1>6, <1>7, <1>8, <1>9 DEF Watchdog

\* Every step, of the engine, a handler, a tick or a crash, keeps every variable in its
\* type: the copy a tick works on, however old, is a row about a prompt of the user, and
\* so is what it writes over the row it finds.
THEOREM TypeCorrect == Spec => []TypeOK
<1>1. Init => TypeOK
  <2> SUFFICES ASSUME Init PROVE TypeOK
    OBVIOUS
  <2>1. RowTyped
    BY SendsAssumption DEF Init, RowTyped, NoRow, Rows
  <2>2. TickTyped
    BY IdleTyped DEF Init, TickTyped
  <2>3. EngineTyped
    <3>1. NoTurn \in [busy : BOOLEAN, send : 0 .. MaxSends] /\ Empty \in Views
      BY SendsAssumption DEF NoTurn, Empty, Views
    <3> QED BY <3>1 DEF Init, EngineTyped
  <2>4. RestTyped
    BY DEF Init, RestTyped
  <2> QED BY <2>1, <2>2, <2>3, <2>4, TypeParts DEF Init
<1>2. TypeOK /\ [Next]_vars => TypeOK'
  <2> SUFFICES ASSUME TypeOK, [Next]_vars PROVE TypeOK'
    OBVIOUS
  <2>0. now \in Nat /\ EngineTyped /\ RowTyped /\ TickTyped /\ RestTyped
    BY TypeParts
  <2>1. CASE Advance
    BY <2>0, <2>1, EngineOps, TypeParts DEF Advance, RowTyped, TickTyped, RestTyped, history
  <2>2. CASE Crash
    <3>1. RowTyped'
      BY <2>0, <2>2, RowsTyped DEF Crash, RowTyped
    <3>2. TickTyped'
      BY <2>2, IdleTyped DEF Crash, EndTick, TickTyped
    <3>3. RestTyped'
      BY <2>0, <2>2 DEF Crash, Fault, RestTyped, history
    <3> QED BY <2>0, <2>2, <3>1, <3>2, <3>3, EngineOps, TypeParts DEF Crash
  <2>3. CASE UNCHANGED vars
    BY <2>0, <2>3, EngineOps, TypeParts DEF vars, engine, RowTyped, TickTyped, RestTyped
  <2> QED BY <2>1, <2>2, <2>3, EngineStepTyped, ProxyStepTyped, TickStepTyped DEF Next
<1> QED BY <1>1, <1>2, PTL DEF Spec

-----------------------------------------------------------------------------
(* A finished turn is left alone                                            *)

\* As long as the watchdog has not sent it again, a prompt goes to the engine once: it
\* is with its handler, on the wire, or it was taken.
TakenOnce ==
    \A s \in Sends : resumes[s] = 0 =>
        /\ reqs[s] \in {"new", "wire"} => s \notin wire
        /\ turn.send = s \/ s \in ended => reqs[s] \notin {"new", "wire"} /\ s \notin wire

\* So the reply of such a prompt, while its turn is the newest, is what the transcript
\* ends with.
RepliedShows ==
    turn.send \in ended /\ resumes[turn.send] = 0 =>
        ~turn.busy /\ transcript.assistant /\ ~transcript.tool

\* A row with its budget began before the engine took its prompt.
Begins(r) ==
    /\ r.startedAt <= now
    /\ r.send \in Sends /\ r.send = turn.send /\ ~r.retryUsed =>
          r.startedAt <= transcript.userAt

Started ==
    /\ row.state # "none" => Begins(row)
    /\ tick.pc # "idle" => Begins(tick.row)

\* A tick that read the reply of its prompt judges the turn finished.
Verdict ==
    tick.over /\ ~tick.row.retryUsed =>
        /\ tick.pc \notin {"pending", "abort", "waiting"}
        /\ tick.pc = "decide" => Finished(tick.view, tick.row)

FinishedInv == TakenOnce /\ RepliedShows /\ Started /\ Verdict

\* The invariants of this section are stated over these.
Basis == TypeOK /\ IInv /\ TypeOK' /\ IInv'

\* No step takes a prompt's count of resumes back to 0.
LEMMA CountsGrow ==
    ASSUME Basis, [Next]_vars, NEW s \in Sends, resumes'[s] = 0
    PROVE  resumes[s] = 0
<1>1. CASE TickResumes
  <2>1. resumes \in [Sends -> Nat] /\ tick.row.send \in Sends
    BY <1>1 DEF Basis, TypeOK, TickResumes
  <2> QED BY <1>1, <2>1 DEF TickResumes
<1>2. CASE ~TickResumes
  BY <1>2 DEF Next, vars, Advance, Engine, Proxy, Watchdog, Crash, EngineMoves, EngineReplies,
     EngineDropsTurn, EngineAnswers, PromptArrives, ForeignPrompt, DeleteSession, Send,
     RequestAnswered, RequestBreaks, RequestTimesOut, UserStops, TickStart, TickStatus,
     TickReadFails, TickMessages, TickDecides, TickAsksPending, TickAborts, TickGivesUp,
     history
<1> QED BY <1>1, <1>2

\* What the three ways of writing the transcript leave in it.
LEMMA Transcripts ==
    ASSUME Basis
    PROVE  /\ \A s : Take(s) => /\ turn' = [busy |-> TRUE, send |-> s]
                                /\ transcript'.userAt = now
           /\ EngineMoves => transcript'.userAt = transcript.userAt
           /\ EngineReplies => /\ transcript'.userAt = transcript.userAt
                               /\ transcript'.assistant /\ ~transcript'.tool
           /\ Interrupt => /\ transcript'.userAt = transcript.userAt
                           /\ ~turn.busy => UNCHANGED transcript
<1>1. transcript \in Views
  BY DEF Basis, TypeOK
<1>2. ASSUME NEW v \in Views, Shows(v)
      PROVE  /\ transcript'.userAt = v.userAt /\ transcript'.assistant = v.assistant
             /\ transcript'.tool = v.tool
  BY <1>2 DEF Shows, Views
<1>3. ASSUME NEW s, Take(s)
      PROVE  turn' = [busy |-> TRUE, send |-> s] /\ transcript'.userAt = now
  <2> DEFINE v == [transcript EXCEPT !.userAt = now, !.activeAt = now,
                                     !.assistant = FALSE, !.tool = FALSE]
  <2>1. v \in Views /\ v.userAt = now
    BY <1>1 DEF Views, Basis, TypeOK
  <2>2. Shows(v) /\ turn' = [busy |-> TRUE, send |-> s]
    BY <1>3 DEF Take
  <2> HIDE DEF v
  <2> QED BY <1>2, <2>1, <2>2
<1>4. ASSUME EngineMoves PROVE transcript'.userAt = transcript.userAt
  <2>1. PICK tool \in BOOLEAN, at \in {transcript.activeAt, now} :
          Shows([transcript EXCEPT !.assistant = TRUE, !.tool = tool, !.activeAt = at])
    BY <1>4 DEF EngineMoves
  <2> DEFINE v == [transcript EXCEPT !.assistant = TRUE, !.tool = tool, !.activeAt = at]
  <2>2. v \in Views /\ v.userAt = transcript.userAt
    BY <1>1 DEF Views, Basis, TypeOK
  <2> HIDE DEF v
  <2>3. Shows(v)
    BY <2>1 DEF v
  <2> QED BY <1>2, <2>2, <2>3
<1>5. ASSUME EngineReplies
      PROVE  /\ transcript'.userAt = transcript.userAt
             /\ transcript'.assistant /\ ~transcript'.tool
  <2> DEFINE v == [transcript EXCEPT !.assistant = TRUE, !.tool = FALSE, !.activeAt = now]
  <2>1. v \in Views /\ v.userAt = transcript.userAt /\ v.assistant = TRUE /\ v.tool = FALSE
    BY <1>1 DEF Views, Basis, TypeOK
  <2>2. Shows(v)
    BY <1>5 DEF EngineReplies
  <2> HIDE DEF v
  <2> QED BY <1>2, <2>1, <2>2
<1>6. ASSUME Interrupt
      PROVE  /\ transcript'.userAt = transcript.userAt
             /\ ~turn.busy => UNCHANGED transcript
  <2> DEFINE v == [transcript EXCEPT !.tool = FALSE, !.activeAt = now]
  <2>1. v \in Views /\ v.userAt = transcript.userAt
    BY <1>1 DEF Views, Basis, TypeOK
  <2>2. Shows(v) \/ UNCHANGED transcript
    BY <1>6 DEF Interrupt
  <2> HIDE DEF v
  <2> QED BY <1>2, <1>6, <2>1, <2>2 DEF Interrupt
<1> QED BY <1>3, <1>4, <1>5, <1>6

\* What a step does to the turn: it is left, its reply comes, it ends without one, or
\* another prompt takes its place.
LEMMA Turns ==
    ASSUME Basis, [Next]_vars
    PROVE  \/ UNCHANGED <<turn, ended>> /\ (UNCHANGED transcript \/ EngineMoves)
           \/ EngineReplies
           \/ /\ turn'.send = turn.send /\ UNCHANGED ended
              /\ EngineDropsTurn \/ Interrupt
           \/ /\ UNCHANGED ended
              /\ \/ \E s \in Sends : /\ Take(s) /\ reqs[s] = "wire" /\ UNCHANGED wire
                                      /\ reqs'[s] \in {"running", "done"}
                 \/ \E s \in wire : Take(s) /\ wire' = wire \ {s} /\ UNCHANGED reqs
                 \/ Take(0) /\ ForeignPrompt
                 \/ DeleteSession
<1>0. turn \in [busy : BOOLEAN, send : 0 .. MaxSends]
  BY DEF Basis, TypeOK
<1>1. Over(turn).send = turn.send
  BY <1>0 DEF Over
<1>2. CASE EngineMoves \/ EngineReplies \/ DeleteSession \/ ForeignPrompt
  BY <1>2 DEF EngineMoves, DeleteSession, ForeignPrompt, history
<1>3. CASE EngineDropsTurn
  BY <1>1, <1>3 DEF EngineDropsTurn, history
<1>4. CASE EngineAnswers
  <2>1. reqs \in [Sends -> {"new", "wire", "running", "refused", "done"}]
    BY DEF Basis, TypeOK
  <2> QED BY <1>4, <2>1 DEF EngineAnswers, SetReq, engine, history
<1>5. CASE PromptArrives
  BY <1>5 DEF PromptArrives, engine, history
<1>6. CASE UserStops \/ TickAborts
  <2>1. Interrupt => turn'.send = turn.send
    BY <1>1 DEF Interrupt
  <2> QED BY <1>6, <2>1 DEF UserStops, TickAborts, engine, history
<1>7. CASE Advance \/ Crash \/ UNCHANGED vars \/ Send \/ RequestAnswered \/ RequestBreaks
           \/ RequestTimesOut \/ TickStart \/ TickStatus \/ TickReadFails \/ TickMessages
           \/ TickDecides \/ TickAsksPending \/ TickGivesUp \/ TickResumes
  BY <1>7 DEF Advance, Crash, vars, Send, RequestAnswered, RequestBreaks, RequestTimesOut,
     TickStart, TickStatus, TickReadFails, TickMessages, TickDecides, TickAsksPending,
     TickGivesUp, TickResumes, engine, history
<1> QED BY <1>2, <1>3, <1>4, <1>5, <1>6, <1>7 DEF Next, Engine, Proxy, Watchdog

\* What a step does to a prompt that the watchdog has not sent again: nothing, or it is
\* sent for the first time, or its handler is done with it and it may be on the wire.
LEMMA Requests ==
    ASSUME Basis, [Next]_vars, NEW s \in Sends, resumes'[s] = 0
    PROVE  \/ reqs'[s] = reqs[s] /\ (s \in wire' => s \in wire)
           \/ reqs[s] = "new" /\ reqs'[s] = "wire" /\ UNCHANGED <<wire, turn, ended>>
           \/ /\ reqs'[s] \notin {"new", "wire"}
              /\ s \in wire' => s \in wire \/ reqs[s] = "wire"
<1>0. reqs \in [Sends -> {"new", "wire", "running", "refused", "done"}]
  BY DEF Basis, TypeOK
<1>1. CASE TickResumes
  <2>1. resumes \in [Sends -> Nat] /\ tick.row.send \in Sends
    BY <1>1 DEF Basis, TypeOK, TickResumes
  <2> QED BY <1>1, <2>1 DEF TickResumes
<1>2. CASE Send
  BY <1>0, <1>2 DEF Send, SetReq, engine
<1>3. CASE EngineAnswers
  BY <1>0, <1>3 DEF EngineAnswers, SetReq
<1>4. CASE RequestAnswered
  BY <1>0, <1>4 DEF RequestAnswered, SetReq
<1>5. CASE RequestBreaks
  BY <1>0, <1>5 DEF RequestBreaks, SetReq, Abandon
<1>6. CASE RequestTimesOut
  BY <1>0, <1>6 DEF RequestTimesOut, SetReq, Abandon
<1>7. CASE PromptArrives
  BY <1>7 DEF PromptArrives
<1>8. CASE Crash
  BY <1>0, <1>8 DEF Crash
<1>9. CASE UNCHANGED <<reqs, wire>>
  BY <1>9
<1>10. CASE Advance \/ UNCHANGED vars \/ EngineMoves \/ EngineReplies \/ EngineDropsTurn
            \/ ForeignPrompt \/ DeleteSession \/ UserStops \/ TickStart \/ TickStatus
            \/ TickReadFails \/ TickMessages \/ TickDecides \/ TickAsksPending
            \/ TickAborts \/ TickGivesUp
  BY <1>9, <1>10 DEF Advance, vars, EngineMoves, EngineReplies, EngineDropsTurn,
     ForeignPrompt, DeleteSession, UserStops, TickStart, TickStatus, TickReadFails,
     TickMessages, TickDecides, TickAsksPending, TickAborts, TickGivesUp
<1> QED BY <1>1, <1>2, <1>3, <1>4, <1>5, <1>6, <1>7, <1>8, <1>10
        DEF Next, Engine, Proxy, Watchdog

\* A prompt is taken from the wire or from its handler, and is with neither afterwards.
LEMMA TakenOnceStep ==
    ASSUME Basis, FinishedInv, [Next]_vars
    PROVE  TakenOnce'
<1> SUFFICES ASSUME NEW s \in Sends, resumes'[s] = 0
             PROVE  /\ reqs'[s] \in {"new", "wire"} => s \notin wire'
                    /\ turn'.send = s \/ s \in ended' =>
                          reqs'[s] \notin {"new", "wire"} /\ s \notin wire'
  BY DEF TakenOnce
<1>0. turn \in [busy : BOOLEAN, send : 0 .. MaxSends]
  BY DEF Basis, TypeOK
<1>1. /\ reqs[s] \in {"new", "wire"} => s \notin wire
      /\ turn.send = s \/ s \in ended => reqs[s] \notin {"new", "wire"} /\ s \notin wire
  BY CountsGrow DEF FinishedInv, TakenOnce
<1>2. \/ turn'.send = s \/ s \in ended' => turn.send = s \/ s \in ended
      \/ reqs[s] = "wire" /\ UNCHANGED wire /\ reqs'[s] \in {"running", "done"}
      \/ s \in wire /\ wire' = wire \ {s} /\ UNCHANGED reqs
  <2>1. EngineReplies => turn'.send = turn.send /\ (s \in ended' => s \in ended \/ turn.send = s)
    BY <1>0 DEF EngineReplies, Over
  <2>2. \A x : Take(x) => turn'.send = x
    BY DEF Take
  <2>3. DeleteSession => turn'.send = 0 /\ UNCHANGED ended
    BY DEF DeleteSession, NoTurn, history
  <2>4. s # 0
    BY SendsAssumption DEF Sends
  <2> QED BY <2>1, <2>2, <2>3, <2>4, Turns
<1> QED BY <1>1, <1>2, Requests

\* Neither the agent nor a stop changes what the reply left, and only another prompt
\* takes its place: this one is not taken a second time.
LEMMA RepliedShowsStep ==
    ASSUME Basis, FinishedInv, [Next]_vars
    PROVE  RepliedShows'
<1> SUFFICES ASSUME turn'.send \in ended', resumes'[turn'.send] = 0
             PROVE  ~turn'.busy /\ transcript'.assistant /\ ~transcript'.tool
  BY DEF RepliedShows
<1>0. turn \in [busy : BOOLEAN, send : 0 .. MaxSends] /\ ended \subseteq Sends
      /\ ended' \subseteq Sends
  BY DEF Basis, TypeOK
<1>1. turn'.send \in Sends /\ resumes[turn'.send] = 0
  BY <1>0, CountsGrow
<1>2. ASSUME turn'.send = turn.send, UNCHANGED ended
      PROVE  ~turn.busy /\ transcript.assistant /\ ~transcript.tool
  BY <1>1, <1>2 DEF FinishedInv, RepliedShows
<1>3. CASE UNCHANGED <<turn, ended>> /\ (UNCHANGED transcript \/ EngineMoves)
  BY <1>2, <1>3 DEF EngineMoves
<1>4. CASE EngineReplies
  <2>1. ~turn'.busy
    BY <1>0, <1>4 DEF EngineReplies, Over
  <2> QED BY <1>4, <2>1, Transcripts
<1>5. CASE turn'.send = turn.send /\ UNCHANGED ended /\ (EngineDropsTurn \/ Interrupt)
  <2>1. Interrupt
    BY <1>2, <1>5 DEF EngineDropsTurn
  <2>2. ~turn'.busy
    BY <1>0, <2>1 DEF Interrupt, Over
  <2> QED BY <1>2, <1>5, <2>1, <2>2, Transcripts
<1>6. CASE /\ UNCHANGED ended
           /\ \/ \E s \in Sends : Take(s) /\ reqs[s] = "wire"
              \/ \E s \in wire : Take(s)
              \/ Take(0)
              \/ DeleteSession
  <2>1. DeleteSession => turn'.send = 0
    BY DEF DeleteSession, NoTurn
  <2>2. 0 \notin Sends
    BY SendsAssumption DEF Sends
  <2>3. \A x : Take(x) => turn'.send = x
    BY DEF Take
  <2>4. reqs[turn'.send] # "wire" /\ turn'.send \notin wire
    BY <1>1, <1>6 DEF FinishedInv, TakenOnce
  <2> QED BY <1>1, <1>6, <2>1, <2>2, <2>3, <2>4
<1> QED BY <1>3, <1>4, <1>5, <1>6, Turns

\* A row that began before its prompt was taken still did after any step.
LEMMA BeginsStep ==
    ASSUME Basis, [Next]_vars, NEW r \in Rows, Begins(r)
    PROVE  /\ r.startedAt <= now'
           /\ r.send \in Sends /\ r.send = turn'.send /\ ~r.retryUsed =>
                 r.startedAt <= transcript'.userAt
<1>0. now \in Nat /\ r.startedAt \in Nat /\ transcript.userAt \in Nat
      /\ turn \in [busy : BOOLEAN, send : 0 .. MaxSends]
  BY DEF Basis, TypeOK, Rows, Views
<1>1. r.startedAt <= now /\ (now' = now \/ now' = now + 1)
  BY DEF Next, vars, Advance, Engine, Proxy, Watchdog, Crash, EngineMoves, EngineReplies,
     EngineDropsTurn, EngineAnswers, PromptArrives, ForeignPrompt, DeleteSession, Send,
     RequestAnswered, RequestBreaks, RequestTimesOut, UserStops, TickStart, TickStatus,
     TickReadFails, TickMessages, TickDecides, TickAsksPending, TickAborts, TickGivesUp,
     TickResumes, Begins
<1>2. \/ turn'.send = turn.send /\ transcript'.userAt = transcript.userAt
      \/ transcript'.userAt = now
      \/ turn'.send = 0
  <2>1. EngineReplies => turn'.send = turn.send
    BY <1>0 DEF EngineReplies, Over
  <2>2. EngineDropsTurn => UNCHANGED transcript
    BY DEF EngineDropsTurn
  <2>3. DeleteSession => turn'.send = 0
    BY DEF DeleteSession, NoTurn
  <2> QED BY <2>1, <2>2, <2>3, Turns, Transcripts
<1>3. 0 \notin Sends
  BY SendsAssumption DEF Sends
<1> QED BY <1>0, <1>1, <1>2, <1>3 DEF Begins

\* What a step does to the row: it is left, or changed without the prompt's times, or
\* dropped, or armed for a new prompt, or renewed without its budget.
LEMMA RowWrites ==
    ASSUME Basis, [Next]_vars
    PROVE  \/ /\ row'.startedAt = row.startedAt /\ row'.send = row.send
              /\ row'.retryUsed = row.retryUsed
              /\ row'.state # "none" => row.state # "none"
           \/ row'.state = "none"
           \/ Send
           \/ row'.startedAt = now /\ row'.retryUsed
<1>0. row \in Rows
  BY DEF Basis, TypeOK
<1>1. Disarm => row'.state = "none"
  BY DEF Disarm, NoRow
<1>2. \A at, print : RecordProgress(at, print) =>
        /\ row'.startedAt = row.startedAt /\ row'.send = row.send
        /\ row'.retryUsed = row.retryUsed
        /\ row'.state # "none" => row.state # "none"
  BY <1>0 DEF RecordProgress, Rows
<1>3. CASE TickDecides
  BY <1>1, <1>2, <1>3 DEF TickDecides
<1>4. CASE TickAsksPending
  <2>1. row.state = "armed" /\ row' = [row EXCEPT !.state = "resolving"] =>
          /\ row'.startedAt = row.startedAt /\ row'.send = row.send
          /\ row'.retryUsed = row.retryUsed /\ row.state # "none"
    BY <1>0 DEF Rows
  <2> QED BY <1>2, <1>4, <2>1 DEF TickAsksPending
<1>5. CASE TickResumes
  <2>1. row.state # "none" /\ row' = Resumed(row) =>
          row'.startedAt = now /\ row'.retryUsed
    BY <1>0 DEF Resumed, Rows
  <2>2. row.state = "none" /\ row' = Resumed(row) => row' = row
    BY DEF Resumed
  <2> QED BY <1>1, <1>5, <2>1, <2>2 DEF TickResumes
<1>6. CASE Crash \/ TickGivesUp
  BY <1>0, <1>6 DEF Crash, Recovered, TickGivesUp, Rows
<1>7. CASE TickStatus \/ TickMessages \/ RequestAnswered \/ RequestBreaks \/ UserStops
  BY <1>1, <1>7 DEF TickStatus, TickMessages, RequestAnswered, RequestBreaks, UserStops
<1>8. CASE UNCHANGED row
  BY <1>8
<1>9. CASE Advance \/ Engine \/ RequestTimesOut \/ TickStart \/ TickReadFails \/ TickAborts
           \/ UNCHANGED vars
  BY <1>8, <1>9 DEF Advance, Engine, EngineMoves, EngineReplies, EngineDropsTurn,
     EngineAnswers, PromptArrives, ForeignPrompt, DeleteSession, RequestTimesOut, TickStart,
     TickReadFails, TickAborts, vars
<1> QED BY <1>3, <1>4, <1>5, <1>6, <1>7, <1>9 DEF Next, Proxy, Watchdog

\* And to the tick's copy: it is left, or thrown away, or taken from the row.
LEMMA TickWrites ==
    ASSUME Basis, [Next]_vars
    PROVE  \/ tick' = NoTick
           \/ TickStart
           \/ /\ tick.pc # "idle" /\ tick'.row = tick.row /\ tick'.over = tick.over
              /\ \/ tick'.pc = "messages"
                 \/ TickDecides /\ tick'.pc = "pending" /\ tick.pc = "decide"
                 \/ tick.pc \in {"pending", "abort"}
           \/ TickMessages /\ tick' = [tick EXCEPT !.pc = "decide", !.view = transcript,
                              !.over = turn.send \in ended /\ turn.send = tick.row.send]
           \/ UNCHANGED tick
<1>0. tick \in Ticks
  BY DEF Basis, TypeOK, Ticks
<1>1. \A pc : tick' = [tick EXCEPT !.pc = pc] =>
        tick'.row = tick.row /\ tick'.over = tick.over /\ tick'.pc = pc
  BY <1>0 DEF Ticks
<1>2. CASE TickStatus
  BY <1>1, <1>2 DEF TickStatus, EndTick
<1>3. CASE TickDecides
  BY <1>1, <1>3 DEF TickDecides, EndTick
<1>4. CASE TickAsksPending
  <2>1. tick' = [tick EXCEPT !.pc = "abort", !.view = Empty] =>
          tick'.row = tick.row /\ tick'.over = tick.over
    BY <1>0 DEF Ticks
  <2> QED BY <1>4, <2>1 DEF TickAsksPending, EndTick
<1>5. CASE TickAborts
  BY <1>1, <1>5 DEF TickAborts
<1>6. CASE TickMessages
  BY <1>6 DEF TickMessages, EndTick
<1>7. CASE TickStart \/ TickReadFails \/ TickGivesUp \/ TickResumes \/ Crash
  BY <1>7 DEF TickReadFails, TickGivesUp, TickResumes, Crash, EndTick
<1>8. CASE Advance \/ Engine \/ Proxy \/ UNCHANGED vars
  BY <1>8 DEF Advance, Engine, EngineMoves, EngineReplies, EngineDropsTurn, EngineAnswers,
     PromptArrives, ForeignPrompt, DeleteSession, Proxy, Send, RequestAnswered, RequestBreaks,
     RequestTimesOut, UserStops, vars
<1> QED BY <1>2, <1>3, <1>4, <1>5, <1>6, <1>7, <1>8 DEF Next, Watchdog

\* A send arms the row with a prompt the engine cannot have: it has never been sent.
LEMMA StartedStep ==
    ASSUME Basis, FinishedInv, [Next]_vars
    PROVE  Started'
<1>0. now \in Nat /\ row \in Rows /\ row' \in Rows /\ tick \in Ticks /\ tick' \in Ticks
      /\ now' \in Nat
  BY DEF Basis, TypeOK, Ticks
<1>1. ASSUME row.state # "none"
      PROVE  /\ row.startedAt <= now'
             /\ row.send \in Sends /\ row.send = turn'.send /\ ~row.retryUsed =>
                 row.startedAt <= transcript'.userAt
  BY <1>0, <1>1, BeginsStep DEF FinishedInv, Started
<1>2. ASSUME tick.pc # "idle"
      PROVE  /\ tick.row.startedAt <= now'
             /\ tick.row.send \in Sends /\ tick.row.send = turn'.send /\ ~tick.row.retryUsed =>
                 tick.row.startedAt <= transcript'.userAt
  <2>1. tick.row \in Rows /\ Begins(tick.row)
    BY <1>0, <1>2 DEF Ticks, FinishedInv, Started
  <2> QED BY <2>1, BeginsStep
<1>3. now <= now'
  <2>1. now' = now \/ now' = now + 1
    BY DEF Next, vars, Advance, Engine, Proxy, Watchdog, Crash, EngineMoves, EngineReplies,
     EngineDropsTurn, EngineAnswers, PromptArrives, ForeignPrompt, DeleteSession, Send,
     RequestAnswered, RequestBreaks, RequestTimesOut, UserStops, TickStart, TickStatus,
     TickReadFails, TickMessages, TickDecides, TickAsksPending, TickAborts, TickGivesUp,
     TickResumes
  <2> QED BY <1>0, <2>1
<1>4. row'.state # "none" => Begins(row)'
  <2>1. CASE Send
    <3>1. PICK s \in Sends : reqs[s] = "new" /\ row' = Armed(s) /\ UNCHANGED <<now, turn>>
      BY <2>1 DEF Send, engine
    <3>2. resumes[s] = 0
      BY <3>1 DEF Basis, IInv, Budget, Spent
    <3>3. turn'.send # s
      BY <3>1, <3>2 DEF FinishedInv, TakenOnce
    <3>4. row'.send = s /\ row'.startedAt = now
      BY <3>1 DEF Armed
    <3> QED BY <1>0, <1>3, <3>1, <3>3, <3>4 DEF Begins
  <2> QED BY <1>1, <1>3, <2>1, RowWrites DEF Begins
<1>5. tick'.pc # "idle" => Begins(tick.row)'
  <2>1. CASE TickStart
    <3>1. tick'.row = row /\ row.state # "none"
      BY <2>1 DEF TickStart, NoTick
    <3> QED BY <1>1, <3>1 DEF Begins
  <2>2. CASE tick'.row = tick.row /\ tick.pc # "idle"
    BY <1>2, <2>2 DEF Begins
  <2>3. CASE TickMessages /\ tick' = [tick EXCEPT !.pc = "decide", !.view = transcript,
                              !.over = turn.send \in ended /\ turn.send = tick.row.send]
    <3>1. tick'.row = tick.row /\ tick.pc # "idle"
      BY <1>0, <2>3 DEF Ticks, TickMessages
    <3> QED BY <2>2, <3>1
  <2>4. tick' = NoTick => tick'.pc = "idle"
    BY DEF NoTick
  <2> QED BY <2>1, <2>2, <2>3, <2>4, TickWrites
<1> QED BY <1>4, <1>5 DEF Started

\* The tick reads the transcript and judges it in one go: what it read is Finished, and
\* it goes no further with it.
LEMMA VerdictStep ==
    ASSUME Basis, FinishedInv, [Next]_vars
    PROVE  Verdict'
<1> SUFFICES ASSUME tick'.over, ~tick'.row.retryUsed
             PROVE  /\ tick'.pc \notin {"pending", "abort", "waiting"}
                    /\ tick'.pc = "decide" => Finished(tick'.view, tick'.row)
  BY DEF Verdict, Finished, HasActivity, Bound
<1>0. tick \in Ticks /\ transcript \in Views /\ ended \subseteq Sends
  BY DEF Basis, TypeOK, Ticks
<1>1. tick' # NoTick /\ ~TickStart
  <2>1. ~NoTick.over
    BY DEF NoTick
  <2>2. [NoTick EXCEPT !.pc = "status", !.row = row].over = NoTick.over
    BY DEF NoTick
  <2> QED BY <2>1, <2>2 DEF TickStart
<1>2. CASE /\ tick.pc # "idle" /\ tick'.row = tick.row /\ tick'.over = tick.over
           /\ \/ tick'.pc = "messages"
              \/ TickDecides /\ tick'.pc = "pending" /\ tick.pc = "decide"
              \/ tick.pc \in {"pending", "abort"}
  <2>1. TickDecides /\ tick'.pc = "pending" => ~Finished(tick.view, tick.row)
    BY DEF TickDecides, EndTick, NoTick
  <2> QED BY <1>2, <2>1 DEF FinishedInv, Verdict
<1>3. CASE TickMessages /\ tick' = [tick EXCEPT !.pc = "decide", !.view = transcript,
                              !.over = turn.send \in ended /\ turn.send = tick.row.send]
  <2>1. /\ tick'.pc = "decide" /\ tick'.row = tick.row /\ tick'.view = transcript
        /\ turn.send \in ended /\ turn.send = tick.row.send
    BY <1>0, <1>3 DEF Ticks
  <2>2. tick.pc # "idle" /\ transcript.size > 0
    <3>1. tick.pc = "messages"
      BY <1>3 DEF TickMessages
    <3>2. tick' # NoTick
      BY <1>1
    <3> QED BY <1>3, <3>1, <3>2 DEF TickMessages, EndTick
  <2>3. resumes[turn.send] = 0
    BY <1>0, <2>1, <2>2 DEF Basis, IInv, Budget, Spent
  <2>4. transcript.assistant /\ ~transcript.tool
    BY <2>1, <2>3 DEF FinishedInv, RepliedShows
  <2>5. tick.row.startedAt <= transcript.userAt
    BY <1>0, <2>1, <2>2 DEF FinishedInv, Started, Begins
  <2>6. tick.row.startedAt \in Nat /\ transcript.userAt \in Nat
    BY <1>0 DEF Ticks, Rows, Views
  <2>7. Finished(transcript, tick.row)
    BY <2>2, <2>4, <2>5, <2>6 DEF Finished, HasActivity, Bound
  <2> QED BY <2>1, <2>7
<1>4. CASE UNCHANGED tick
  BY <1>4 DEF FinishedInv, Verdict
<1> QED BY <1>1, <1>2, <1>3, <1>4, TickWrites

\* Whatever re-arms, stops, crashes and late requests come after it: a prompt whose
\* reply the tick found as the newest turn of the transcript is not sent again.
THEOREM FinishedLeftAlone == Spec => NeverRestartsFinished
<1>1. Init /\ TypeOK /\ IInv => FinishedInv
  <2> SUFFICES ASSUME Init PROVE FinishedInv
    OBVIOUS
  <2>1. 0 \notin Sends
    BY SendsAssumption DEF Sends
  <2> QED BY <2>1 DEF Init, FinishedInv, TakenOnce, RepliedShows, Started, Verdict, NoRow,
                     NoTick, NoTurn
<1>2. TypeOK /\ IInv /\ TypeOK' /\ IInv' /\ FinishedInv /\ [Next]_vars => FinishedInv'
  BY TakenOnceStep, RepliedShowsStep, StartedStep, VerdictStep DEF FinishedInv, Basis
<1>3. TypeOK /\ FinishedInv /\ [Next]_vars =>
        [\A s \in Sends : resumes'[s] > resumes[s] => ~tick.over]_vars
  <2> SUFFICES ASSUME TypeOK, FinishedInv, Next, NEW s \in Sends, resumes'[s] > resumes[s]
               PROVE  ~tick.over
    OBVIOUS
  <2>1. resumes \in [Sends -> Nat]
    BY DEF TypeOK
  <2>2. CASE TickResumes
    <3>1. tick.pc = "waiting" /\ ~tick.row.retryUsed
      BY <2>1, <2>2 DEF TickResumes
    <3> QED BY <3>1 DEF FinishedInv, Verdict
  <2>3. ~TickResumes => UNCHANGED resumes
    BY DEF Next, Advance, Engine, Proxy, Watchdog, Crash, EngineMoves, EngineReplies,
     EngineDropsTurn, EngineAnswers, PromptArrives, ForeignPrompt, DeleteSession, Send,
     RequestAnswered, RequestBreaks, RequestTimesOut, UserStops, TickStart, TickStatus,
     TickReadFails, TickMessages, TickDecides, TickAsksPending, TickAborts, TickGivesUp,
     history
  <2> QED BY <2>1, <2>2, <2>3
<1> QED BY <1>1, <1>2, <1>3, TypeCorrect, IInvAlways, PTL DEF Spec, NeverRestartsFinished

=============================================================================
