------------------------- MODULE WorkflowRunsProofs -------------------------
(***************************************************************************)
(* Theorems about WorkflowRuns, for every set of optional nodes, every      *)
(* limit and every bound.                                                   *)
(***************************************************************************)
EXTENDS WorkflowRuns, TLAPS

-----------------------------------------------------------------------------
(* The inductive invariant                                                 *)

Run == [status: RunStatuses, reason: Reasons, cycle: Nat]

\* The attempts of a node are numbered without gaps up to its latest, and a session
\* that is being created is for one of these or for the next.
Numbered ==
    /\ \A a \in Ids : No(a) <= latest[Node(a)] => a \in DOMAIN att
    /\ \A c \in creating : No(c.id) <= latest[Node(c.id)] + 1

\* A prompt is sent from an attempt that has had none: it was ready when the tick
\* claimed it, and no attempt that had one becomes ready again.
Unsent ==
    /\ \A a \in DOMAIN att : att[a].status = "ready" => att[a].sent = 0
    /\ sched.pc \in {"preparing", "sending"} =>
          att[sched.cur].sent = 0 /\ att[sched.cur].status # "ready"

\* What the tick waits for in activateReviewers is its only business.
Waiting == \A c \in creating : c.mine => sched.pc = "activating"

\* A detached run is as quiet as one the user paused: a reattach leaves it so.
MustBeQuiet(r) == r.status = "detached" \/ (r.status = "paused" /\ r.reason = "user")
Quiet == MustBeQuiet(run) => ~SomeInFlight

IInv == TypeOK /\ Numbered /\ SentOnce /\ Unsent /\ DispatchHasOwner /\ Waiting /\ Quiet

\* Nothing exists at first.
THEOREM IInvInit == Init => IInv
<1> SUFFICES ASSUME Init PROVE IInv
  OBVIOUS
<1>1. /\ DOMAIN att = {} /\ creating = {} /\ sched = Idle /\ run.status = "none"
      /\ latest = [n \in Nodes |-> 0]
  BY DEF Init
<1>2. TypeOK
  <2>1. run \in [status: RunStatuses, reason: Reasons, cycle: Nat] /\ subject \in Subjects
        /\ restarts \in Nat
    BY DEF Init, RunStatuses, Reasons, Subjects
  <2>2. att \in [DOMAIN att -> Attempt] /\ latest \in [Nodes -> Nat]
    <3>1. att = [a \in {} |-> NewAttempt(FALSE, 0)]
      BY DEF Init
    <3>2. att \in [{} -> Attempt]
      BY <3>1
    <3>3. QED
      BY <1>1, <3>2
  <2>3. Idle.cur \in Nodes \X Nat
    BY DEF Idle, Nobody, Nodes
  <2>4. sched \in [pc: PCs, todo: SUBSET Ids, ready: SUBSET Ids, cur: Nodes \X Nat,
                   result: Outcomes, matches: BOOLEAN]
    BY <1>1, <2>3 DEF Idle, PCs, Outcomes
  <2>5. QED
    BY <1>1, <2>1, <2>2, <2>4 DEF TypeOK, Idle, AtAttempt
<1>3. Numbered
  BY <1>1 DEF Numbered, Ids, No, Node
<1>4. SentOnce /\ Unsent /\ DispatchHasOwner /\ Waiting /\ Quiet
  BY <1>1 DEF SentOnce, Unsent, DispatchHasOwner, Waiting, Quiet, MustBeQuiet, Idle
<1>5. QED
  BY <1>2, <1>3, <1>4 DEF IInv

-----------------------------------------------------------------------------
(* What a step may do to the run and to the attempts                       *)

Sched == [pc: PCs, todo: SUBSET Ids, ready: SUBSET Ids, cur: Nodes \X Nat,
          result: Outcomes, matches: BOOLEAN]

\* What the tick holds are attempts that exist.
HoldsAttempts ==
    /\ sched.todo \cup sched.ready \subseteq DOMAIN att
    /\ sched.pc \in AtAttempt => sched.cur \in DOMAIN att

\* No attempt goes away and the numbering stays without gaps.
Grows ==
    /\ DOMAIN att \subseteq DOMAIN att' /\ DOMAIN att' \subseteq Ids
    /\ att' \in [DOMAIN att' -> Attempt]
    /\ latest' \in [Nodes -> Nat] /\ \A n \in Nodes : latest[n] <= latest'[n]
    /\ \A a \in DOMAIN att' : No(a) <= latest'[Node(a)]
    /\ \A a \in Ids : No(a) <= latest'[Node(a)] => a \in DOMAIN att'

\* The run is not made to be quiet, or it is.
MayBeQuiet == run' \in Run /\ (MustBeQuiet(run') => MustBeQuiet(run) \/ ~SomeInFlight)

\* A step that leaves the attempts alone: it may move the run, and the tick if that does
\* not drop a dispatch or a creation it waits for.
LEMMA KeepsAttempts ==
    ASSUME IInv, UNCHANGED <<latest, att, creating>>, subject' \in Subjects,
           restarts' \in Nat, MayBeQuiet, sched' \in Sched, HoldsAttempts',
           sched'.pc \in {"preparing", "sending"} =>
              sched.pc \in {"preparing", "sending"} /\ sched'.cur = sched.cur,
           sched.pc \in {"preparing", "sending", "sent"} =>
              sched'.pc \in {"preparing", "sending", "sent"} /\ sched'.cur = sched.cur,
           sched.pc = "activating" => sched'.pc = "activating"
    PROVE  IInv'
<1>1. TypeOK'
  BY DEF IInv, TypeOK, MayBeQuiet, Run, Sched, HoldsAttempts
<1>2. Numbered' /\ SentOnce' /\ Waiting'
  BY DEF IInv, Numbered, SentOnce, Waiting
<1>3. Unsent' /\ DispatchHasOwner'
  BY DEF IInv, Unsent, DispatchHasOwner
<1>4. Quiet'
  BY DEF IInv, Quiet, MayBeQuiet, SomeInFlight
<1>5. QED
  BY <1>1, <1>2, <1>3, <1>4 DEF IInv

\* A request that moves the run only.
LEMMA MovesRun ==
    ASSUME IInv, UNCHANGED <<latest, att, creating, sched, restarts>>,
           subject' \in Subjects, MayBeQuiet
    PROVE  IInv'
<1>1. sched' \in Sched /\ HoldsAttempts' /\ restarts' \in Nat
  BY DEF IInv, TypeOK, Sched, HoldsAttempts
<1>2. QED
  BY <1>1, KeepsAttempts

\* A safety pause owes nobody a quiet run.
LEMMA SafetyPauseKeeps == IInv /\ SafetyPause => MayBeQuiet
<1> SUFFICES ASSUME IInv, SafetyPause PROVE MayBeQuiet
  OBVIOUS
<1>1. run \in Run
  BY DEF IInv, TypeOK, Run
<1>2. CASE run' = run
  BY <1>1, <1>2 DEF MayBeQuiet
<1>3. CASE SetRun("paused", "safety")
  BY <1>1, <1>3 DEF MayBeQuiet, SetRun, Run, MustBeQuiet, RunStatuses, Reasons
<1>4. QED
  BY <1>2, <1>3 DEF SafetyPause

\* Requested pauses take effect when nothing is in flight.
LEMMA FinalizedKeeps ==
    ASSUME IInv, NEW r \in Run, MustBeQuiet(r) => MustBeQuiet(run) \/ ~SomeInFlight,
           NEW attempts, run' = Finalized(r, attempts),
           (\A a \in DOMAIN attempts : attempts[a].status \notin InFlight) => ~SomeInFlight
    PROVE  MayBeQuiet
<1>1. CASE run' = r
  BY <1>1 DEF MayBeQuiet
<1>2. CASE /\ run' = [r EXCEPT !.status = "paused"]
           /\ \A a \in DOMAIN attempts : attempts[a].status \notin InFlight
  BY <1>2 DEF MayBeQuiet, Run, RunStatuses
<1>3. QED
  BY <1>1, <1>2 DEF Finalized

\* The row a step has checked or built from the current one, with nothing in flight
\* touched by it.
LEMMA FinalizedRun ==
    ASSUME IInv, NEW r \in Run, MustBeQuiet(r) => MustBeQuiet(run), run' = Finalized(r, att)
    PROVE  MayBeQuiet
  BY FinalizedKeeps DEF SomeInFlight

\* What the tick holds when it is done with an attempt.
LEMMA BackHolds ==
    ASSUME IInv, NEW pc \in PCs \ AtAttempt, Back(pc),
           DOMAIN att \subseteq DOMAIN att'
    PROVE  /\ sched' \in Sched /\ HoldsAttempts' /\ sched'.pc = pc
           /\ sched'.todo = sched.todo /\ sched'.ready = sched.ready
<1> DEFINE s == [Idle EXCEPT !.pc = pc, !.todo = sched.todo, !.ready = sched.ready]
<1>1. sched' = s
  BY DEF Back
<1>2. Idle \in Sched
  BY DEF Idle, Sched, PCs, Nobody, Nodes, Outcomes
<1>3. sched.todo \subseteq Ids /\ sched.ready \subseteq Ids
  BY DEF IInv, TypeOK
<1>4. sched' \in Sched /\ sched'.pc = pc /\ sched'.todo = sched.todo
      /\ sched'.ready = sched.ready
  BY <1>1, <1>2, <1>3 DEF Sched
<1>5. QED
  BY <1>4 DEF HoldsAttempts, IInv, TypeOK

-----------------------------------------------------------------------------
(* Requests and steps that move the run only                               *)

\* Start, resume, pause, detach, reattach, a manual send, the switch of the feature.
LEMMA RunRequests ==
    IInv /\ (Start \/ Resume \/ Pause \/ Detach \/ Reattach \/ ManualInput \/ TickDisabled)
    => IInv'
<1> SUFFICES ASSUME IInv,
                    Start \/ Resume \/ Pause \/ Detach \/ Reattach \/ ManualInput
                    \/ TickDisabled
             PROVE  IInv'
  OBVIOUS
<1>1. UNCHANGED <<latest, att, creating, sched, restarts, subject>>
  BY DEF Start, Resume, Pause, Detach, Reattach, ManualInput, TickDisabled
<1>2. run \in Run /\ subject' \in Subjects
  BY <1>1 DEF IInv, TypeOK, Run
<1>3. MayBeQuiet
  <2>1. CASE Start
    BY <2>1, <1>2 DEF Start, SetRun, MayBeQuiet, Run, RunStatuses, MustBeQuiet
  <2>2. CASE Resume
    BY <2>2, <1>2 DEF Resume, SetRun, MayBeQuiet, Run, RunStatuses, Reasons, MustBeQuiet
  <2>3. CASE Pause
    BY <2>3, <1>2 DEF Pause, SetRun, MayBeQuiet, Run, RunStatuses, Reasons, MustBeQuiet
  <2>4. CASE Detach
    BY <2>4, <1>2 DEF Detach, SetRun, MayBeQuiet, Run, RunStatuses
  <2>5. CASE Reattach
    BY <2>5, <1>2 DEF Reattach, SetRun, MayBeQuiet, Run, RunStatuses, Reasons, MustBeQuiet
  <2>6. CASE ManualInput
    BY <2>6, <1>2 DEF ManualInput, SetRun, MayBeQuiet, Run, RunStatuses, Reasons,
                      MustBeQuiet
  <2>7. CASE TickDisabled
    BY <2>7, <1>2 DEF TickDisabled, SetRun, MayBeQuiet, Run, RunStatuses, Reasons,
                      MustBeQuiet
  <2>8. QED
    BY <2>1, <2>2, <2>3, <2>4, <2>5, <2>6, <2>7
<1>4. QED
  BY <1>1, <1>2, <1>3, MovesRun

\* An edit of files changes what the tick will see of the tree.
LEMMA EditStep == IInv /\ Edit => IInv'
<1> SUFFICES ASSUME IInv, Edit PROVE IInv'
  OBVIOUS
<1>1. UNCHANGED <<run, latest, att, creating, sched, restarts>> /\ subject' \in Subjects
  BY DEF Edit, Subjects
<1>2. MayBeQuiet
  BY <1>1 DEF MayBeQuiet, IInv, TypeOK, Run
<1>3. QED
  BY <1>1, <1>2, MovesRun

\* A reply that is spoilt or mended is one of a running attempt, and changes nothing but
\* what can be read of it.
LEMMA SpoiltFacts ==
    ASSUME IInv, NEW a \in DOMAIN att, ReplySpoilt(a)
    PROVE  /\ att[a].status = "running"
           /\ UNCHANGED <<run, latest, subject, creating, sched, restarts>>
           /\ \E new \in Attempt :
                 /\ att' = [att EXCEPT ![a] = new]
                 /\ new.status = "running" /\ new.session = att[a].session
                 /\ new.sent = att[a].sent
<1>1. /\ att \in [DOMAIN att -> Attempt] /\ att[a].status = "running"
      /\ UNCHANGED <<run, latest, subject, creating, sched, restarts>>
  BY DEF ReplySpoilt, IInv, TypeOK
<1> DEFINE outcome == IF Unreadable(a) THEN "none" ELSE "unreadable"
           new == [att[a] EXCEPT !.outcome = outcome]
<1>2. outcome \in Outcomes
  BY DEF Outcomes
<1>3. att' = [att EXCEPT ![a] = new]
  BY DEF ReplySpoilt
<1> HIDE DEF outcome
<1>4. /\ new \in Attempt /\ new.status = "running" /\ new.session = att[a].session
      /\ new.sent = att[a].sent
  BY <1>1, <1>2 DEF Attempt
<1> HIDE DEF new
<1>5. QED
  BY <1>1, <1>3, <1>4

\* Neither claims, sends nor ends anything.
LEMMA SpoiltStep == IInv /\ (\E a \in DOMAIN att : ReplySpoilt(a)) => IInv'
<1> SUFFICES ASSUME IInv, NEW a \in DOMAIN att, ReplySpoilt(a) PROVE IInv'
  OBVIOUS
<1>1. /\ att[a].status = "running"
      /\ UNCHANGED <<run, latest, subject, creating, sched, restarts>>
  BY SpoiltFacts
<1>2. PICK new \in Attempt :
         /\ att' = [att EXCEPT ![a] = new]
         /\ new.status = "running" /\ new.sent = att[a].sent
  BY SpoiltFacts
<1>3. /\ DOMAIN att' = DOMAIN att /\ att' \in [DOMAIN att -> Attempt]
      /\ \A b \in DOMAIN att : att'[b].status = att[b].status /\ att'[b].sent = att[b].sent
  BY <1>1, <1>2 DEF IInv, TypeOK
<1>4. TypeOK'
  BY <1>1, <1>3 DEF IInv, TypeOK
<1>5. Numbered' /\ SentOnce' /\ Waiting'
  BY <1>1, <1>3 DEF IInv, Numbered, SentOnce, Waiting
<1>6. Unsent'
  <2>1. sched.pc \in {"preparing", "sending"} => sched.cur \in DOMAIN att
    BY DEF IInv, TypeOK, AtAttempt
  <2>2. QED
    BY <1>1, <1>3, <2>1 DEF IInv, Unsent
<1>7. DispatchHasOwner' /\ Quiet'
  BY <1>1, <1>3 DEF IInv, DispatchHasOwner, Quiet, SomeInFlight, MustBeQuiet
<1>8. QED
  BY <1>4, <1>5, <1>6, <1>7 DEF IInv

-----------------------------------------------------------------------------
(* Steps of the tick between two attempts                                  *)

\* Steps that only move the tick on, and may settle a requested pause.
LEMMA TickMoves ==
    IInv /\ (TickStart \/ FetchMessages \/ NoResult \/ ReadResult \/ OtherResult
             \/ ResultsDone \/ TickDone) => IInv'
<1> SUFFICES ASSUME IInv,
                    TickStart \/ FetchMessages \/ NoResult \/ ReadResult \/ OtherResult
                    \/ ResultsDone \/ TickDone
             PROVE  IInv'
  OBVIOUS
<1>1. UNCHANGED <<latest, att, creating, restarts, subject>>
  BY DEF TickStart, FetchMessages, NoResult, ReadResult, OtherResult, ResultsDone, TickDone
<1>2. /\ run \in Run /\ subject' \in Subjects /\ restarts' \in Nat /\ sched \in Sched
      /\ HoldsAttempts
  BY <1>1 DEF IInv, TypeOK, Run, Sched, HoldsAttempts
<1>3. /\ sched.pc \notin {"preparing", "sending", "sent", "activating"}
      /\ sched' \in Sched /\ HoldsAttempts'
      /\ sched'.pc \notin {"preparing", "sending"}
  <2>i. Idle \in Sched
    BY DEF Idle, Sched, PCs, Nobody, Nodes, Outcomes
  <2>1. CASE TickStart
    <3> DEFINE todo == IF run.status \in {"running", "pause_requested"}
                       THEN WithStatus("running") ELSE {}
               ready == IF run.status = "running" THEN WithStatus("ready") ELSE {}
    <3>1. todo \cup ready \subseteq DOMAIN att
      BY DEF WithStatus
    <3>2. todo \subseteq Ids /\ ready \subseteq Ids
      BY <3>1 DEF IInv, TypeOK
    <3>3. sched' = [Idle EXCEPT !.pc = "results", !.todo = todo, !.ready = ready]
          /\ sched.pc = "idle"
      BY <2>1 DEF TickStart
    <3> HIDE DEF todo, ready
    <3>4. QED
      BY <1>1, <2>i, <3>1, <3>2, <3>3 DEF Sched, PCs, HoldsAttempts, AtAttempt
  <2>2. CASE FetchMessages
    <3>1. PICK a \in sched.todo :
             sched' = [sched EXCEPT !.pc = "reading", !.cur = a, !.todo = @ \ {a}]
      BY <2>2 DEF FetchMessages
    <3>2. a \in DOMAIN att /\ a \in Nodes \X Nat
      BY <1>2 DEF HoldsAttempts, IInv, TypeOK, Ids
    <3>3. sched.pc = "results"
      BY <2>2 DEF FetchMessages
    <3>4. QED
      BY <1>1, <1>2, <3>1, <3>2, <3>3 DEF Sched, PCs, HoldsAttempts
  <2>3. CASE NoResult
    BY <1>1, <2>3, BackHolds DEF NoResult, PCs, AtAttempt
  <2>4. CASE ReadResult
    <3>1. PICK r \in Answers(Node(sched.cur)) :
             sched' = [sched EXCEPT !.pc = "saving", !.result = r,
                                    !.matches = SubjectMatches]
      BY <2>4 DEF ReadResult
    <3>2. r \in Outcomes
      BY DEF Answers, Outcomes
    <3>3. SubjectMatches \in BOOLEAN /\ sched.pc = "reading"
      BY <2>4 DEF ReadResult, SubjectMatches
    <3>4. QED
      BY <1>1, <1>2, <3>1, <3>2, <3>3 DEF Sched, PCs, HoldsAttempts, AtAttempt
  <2>5. CASE OtherResult
    BY <1>1, <2>5, BackHolds DEF OtherResult, PCs, AtAttempt
  <2>6. CASE ResultsDone
    BY <1>1, <2>6, BackHolds DEF ResultsDone, PCs, AtAttempt
  <2>7. CASE TickDone
    BY <1>1, <2>7, <2>i DEF TickDone, Idle, HoldsAttempts, AtAttempt
  <2>8. QED
    BY <2>1, <2>2, <2>3, <2>4, <2>5, <2>6, <2>7
<1>4. MayBeQuiet
  <2>1. CASE run' = run
    BY <1>2, <2>1 DEF MayBeQuiet
  <2>2. CASE run' = Finalized(run, att)
    BY <1>2, <2>2, FinalizedRun
  <2>3. QED
    BY <2>1, <2>2 DEF TickStart, FetchMessages, NoResult, ReadResult, OtherResult,
                      ResultsDone, TickDone
<1>5. QED
  BY <1>1, <1>2, <1>3, <1>4, KeepsAttempts

-----------------------------------------------------------------------------
(* Steps that change one attempt                                           *)

\* Nothing but attempt a changes its row; what is sent, dispatched and in flight is as
\* the hypotheses say for a and as before for the others.
LEMMA ChangesOne ==
    ASSUME IInv, NEW a \in DOMAIN att, UNCHANGED <<latest, creating, restarts>>,
           DOMAIN att' = DOMAIN att, att' \in [DOMAIN att -> Attempt],
           \A b \in DOMAIN att \ {a} : att'[b] = att[b],
           \A b \in DOMAIN att \ {a} : att[b].status # "dispatching",
           subject' \in Subjects, sched' \in Sched, HoldsAttempts',
           sched.pc # "activating",
           att'[a].sent <= 1, att'[a].status = "ready" => att'[a].sent = 0,
           sched'.pc \in {"preparing", "sending"} =>
              sched'.cur = a /\ att'[a].sent = 0 /\ att'[a].status # "ready",
           att'[a].status = "dispatching" =>
              sched'.pc \in {"preparing", "sending", "sent"} /\ sched'.cur = a,
           run' \in Run, MustBeQuiet(run') => MustBeQuiet(run),
           att'[a].status \in InFlight => att[a].status \in InFlight \/ ~MustBeQuiet(run')
    PROVE  IInv'
<1>1. TypeOK'
  BY DEF IInv, TypeOK, Run, Sched, HoldsAttempts
<1>2. Numbered' /\ SentOnce' /\ Waiting'
  BY DEF IInv, Numbered, SentOnce, Waiting
<1>3. Unsent' /\ DispatchHasOwner'
  BY DEF IInv, Unsent, DispatchHasOwner
<1>4. Quiet'
  BY DEF IInv, Quiet, SomeInFlight
<1>5. QED
  BY <1>1, <1>2, <1>3, <1>4 DEF IInv

\* A dispatching attempt and nothing else is failed by a safety pause.
LEMMA PauseForAttemptFacts ==
    ASSUME IInv, NEW a \in DOMAIN att, PauseForAttempt(a)
    PROVE  /\ DOMAIN att' = DOMAIN att /\ att' \in [DOMAIN att -> Attempt]
           /\ \A b \in DOMAIN att \ {a} : att'[b] = att[b]
           /\ att'[a].sent = att[a].sent
           /\ att'[a].status # "dispatching"
           /\ att'[a].status \in {att[a].status, "failed"}
           /\ run' \in Run /\ (MustBeQuiet(run') => MustBeQuiet(run))
<1>1. att \in [DOMAIN att -> Attempt] /\ run \in Run
  BY DEF IInv, TypeOK, Run
<1>2. run' \in Run /\ (MustBeQuiet(run') => MustBeQuiet(run))
  BY <1>1 DEF PauseForAttempt, SafetyPause, SetRun, Run, MustBeQuiet, RunStatuses, Reasons
<1>3. CASE att[a].status = "dispatching"
  <2> DEFINE new == [att[a] EXCEPT !.status = "failed"]
  <2>1. att' = [att EXCEPT ![a] = new]
    BY <1>3 DEF PauseForAttempt, Moved
  <2>2. new \in Attempt /\ new.sent = att[a].sent /\ new.status = "failed"
    BY <1>1 DEF Attempt, AttemptStatuses
  <2>3. QED
    BY <1>1, <1>2, <2>1, <2>2
<1>4. CASE att[a].status # "dispatching"
  BY <1>1, <1>2, <1>4 DEF PauseForAttempt
<1>5. QED
  BY <1>3, <1>4

\* A dropped result, a failed preparation or POST: the tick goes on to the next attempt.
LEMMA FailSteps == IInv /\ (DropDrifted \/ PrepareFails \/ SendFails) => IInv'
<1> SUFFICES ASSUME IInv, DropDrifted \/ PrepareFails \/ SendFails PROVE IInv'
  OBVIOUS
<1> DEFINE a == sched.cur
<1>1. /\ UNCHANGED <<latest, creating, restarts, subject>> /\ PauseForAttempt(a)
      /\ sched.pc \in {"saving", "preparing", "sending", "sent"}
      /\ Back("results") \/ Back("claims")
  BY DEF DropDrifted, PrepareFails, SendFails
<1>2. a \in DOMAIN att /\ subject' \in Subjects
  BY <1>1 DEF IInv, TypeOK, AtAttempt
<1>3. \A b \in DOMAIN att \ {a} : att[b].status # "dispatching"
  BY DEF IInv, DispatchHasOwner
<1>4. /\ DOMAIN att' = DOMAIN att /\ att' \in [DOMAIN att -> Attempt]
      /\ \A b \in DOMAIN att \ {a} : att'[b] = att[b]
      /\ att'[a].sent = att[a].sent
      /\ att'[a].status # "dispatching"
      /\ att'[a].status \in {att[a].status, "failed"}
      /\ run' \in Run /\ (MustBeQuiet(run') => MustBeQuiet(run))
  BY <1>1, <1>2, PauseForAttemptFacts
<1>5. /\ sched' \in Sched /\ HoldsAttempts' /\ sched'.pc \in {"results", "claims"}
  BY <1>1, <1>4, BackHolds DEF PCs, AtAttempt
<1>6. att'[a].sent <= 1 /\ (att'[a].status = "ready" => att'[a].sent = 0)
  BY <1>2, <1>4 DEF IInv, SentOnce, Unsent
<1>7. att'[a].status \in InFlight => att[a].status \in InFlight
  BY <1>4 DEF InFlight
<1> HIDE DEF a
<1>8. QED
  BY <1>1, <1>2, <1>3, <1>4, <1>5, <1>6, <1>7, ChangesOne

\* The result of a running attempt is saved; one that was stopped meanwhile keeps its row.
LEMMA SaveStep == IInv /\ SaveResult => IInv'
<1> SUFFICES ASSUME IInv, SaveResult PROVE IInv'
  OBVIOUS
<1> DEFINE a == sched.cur
<1>1. UNCHANGED <<run, latest, creating, restarts>> /\ sched.pc = "saving"
  BY DEF SaveResult
<1>2. /\ a \in DOMAIN att /\ att \in [DOMAIN att -> Attempt] /\ run \in Run
      /\ sched \in Sched /\ HoldsAttempts /\ subject \in Subjects
  BY <1>1 DEF IInv, TypeOK, AtAttempt, Run, Sched, HoldsAttempts
<1>3. CASE att[a].status = "running"
  <2> DEFINE new == [att[a] EXCEPT !.status = "succeeded", !.outcome = sched.result]
  <2>1. att' = [att EXCEPT ![a] = new] /\ Goto("saved") /\ subject' \in Subjects
    BY <1>2, <1>3 DEF SaveResult, Subjects
  <2>2. new \in Attempt /\ new.sent = att[a].sent /\ new.status = "succeeded"
    BY <1>2 DEF Attempt, AttemptStatuses, Sched
  <2>3. sched' \in Sched /\ sched'.pc = "saved" /\ HoldsAttempts'
    BY <1>2, <2>1 DEF Goto, Sched, PCs, HoldsAttempts, AtAttempt
  <2>4. \A b \in DOMAIN att \ {a} : att[b].status # "dispatching"
    BY DEF IInv, DispatchHasOwner
  <2>5. att[a].sent <= 1
    BY <1>2 DEF IInv, SentOnce
  <2> HIDE DEF a, new
  <2>6. QED
    BY <1>1, <1>2, <2>1, <2>2, <2>3, <2>4, <2>5, ChangesOne DEF InFlight
<1>4. CASE att[a].status # "running"
  <2>1. UNCHANGED <<att, subject>> /\ Back("results")
    BY <1>4 DEF SaveResult
  <2>2. sched' \in Sched /\ HoldsAttempts' /\ sched'.pc = "results"
    BY <2>1, BackHolds DEF PCs, AtAttempt
  <2>3. MayBeQuiet /\ restarts' \in Nat
    BY <1>1, <1>2 DEF MayBeQuiet, IInv, TypeOK
  <2>4. QED
    BY <1>1, <1>2, <2>1, <2>2, <2>3, KeepsAttempts
<1>5. QED
  BY <1>3, <1>4

\* What is claimed was ready, so it has had no prompt, and the run is running.
LEMMA ClaimStep == IInv /\ Claim => IInv'
<1> SUFFICES ASSUME IInv, Claim PROVE IInv'
  OBVIOUS
<1>1. PICK a \in sched.ready :
          /\ att[a].status = "ready"
          /\ \/ /\ Dispatchable(a)
                /\ att' = Moved(a, "dispatching")
                /\ sched' = [Taken(a) EXCEPT !.pc = "preparing", !.cur = a]
                /\ run' = run
             \/ /\ att' = Moved(a, "failed")
                /\ sched' = Taken(a)
                /\ SafetyPause
  BY DEF Claim
<1>2. UNCHANGED <<latest, subject, creating, restarts>> /\ sched.pc = "claims"
  BY DEF Claim
<1>3. /\ a \in DOMAIN att /\ att \in [DOMAIN att -> Attempt] /\ run \in Run
      /\ sched \in Sched /\ HoldsAttempts /\ subject' \in Subjects /\ a \in Nodes \X Nat
  BY <1>2 DEF IInv, TypeOK, Run, Sched, HoldsAttempts, Ids
<1>4. \A b \in DOMAIN att \ {a} : att[b].status # "dispatching"
  BY <1>2 DEF IInv, DispatchHasOwner
<1>5. att[a].sent = 0
  BY <1>1, <1>3 DEF IInv, Unsent
<1>6. CASE /\ Dispatchable(a)
           /\ att' = Moved(a, "dispatching")
           /\ sched' = [Taken(a) EXCEPT !.pc = "preparing", !.cur = a]
           /\ run' = run
  <2> DEFINE new == [att[a] EXCEPT !.status = "dispatching"]
  <2>1. att' = [att EXCEPT ![a] = new]
    BY <1>6 DEF Moved
  <2>2. new \in Attempt /\ new.sent = 0 /\ new.status = "dispatching"
    BY <1>3, <1>5 DEF Attempt, AttemptStatuses, InFlight
  <2>3. sched' \in Sched /\ sched'.pc = "preparing" /\ sched'.cur = a /\ HoldsAttempts'
    BY <1>3, <1>6, <2>1 DEF Taken, Sched, PCs, HoldsAttempts, AtAttempt
  <2>4. ~MustBeQuiet(run)
    BY <1>6 DEF Dispatchable, MustBeQuiet
  <2> HIDE DEF new
  <2>5. QED
    BY <1>2, <1>3, <1>4, <1>6, <2>1, <2>2, <2>3, <2>4, ChangesOne
<1>7. CASE att' = Moved(a, "failed") /\ sched' = Taken(a) /\ SafetyPause
  <2> DEFINE new == [att[a] EXCEPT !.status = "failed"]
  <2>1. att' = [att EXCEPT ![a] = new]
    BY <1>7 DEF Moved
  <2>2. new \in Attempt /\ new.sent = 0 /\ new.status = "failed"
    BY <1>3, <1>5 DEF Attempt, AttemptStatuses
  <2>3. sched' \in Sched /\ sched'.pc = "claims" /\ HoldsAttempts'
    BY <1>2, <1>3, <1>7, <2>1 DEF Taken, Sched, HoldsAttempts, AtAttempt
  <2>4. run' \in Run /\ (MustBeQuiet(run') => MustBeQuiet(run))
    BY <1>3, <1>7 DEF SafetyPause, SetRun, Run, MustBeQuiet, RunStatuses, Reasons
  <2> HIDE DEF new
  <2>5. QED
    BY <1>2, <1>3, <1>4, <2>1, <2>2, <2>3, <2>4, ChangesOne DEF InFlight
<1>8. QED
  BY <1>1, <1>6, <1>7

\* The prompt of a dispatching attempt is saved before it is sent.
LEMMA SavePromptStep == IInv /\ SavePrompt => IInv'
<1> SUFFICES ASSUME IInv, SavePrompt PROVE IInv'
  OBVIOUS
<1> DEFINE a == sched.cur
<1>1. UNCHANGED <<run, latest, att, creating, restarts>> /\ sched.pc = "preparing"
  BY DEF SavePrompt
<1>2. /\ a \in DOMAIN att /\ att \in [DOMAIN att -> Attempt] /\ run \in Run
      /\ sched \in Sched /\ HoldsAttempts /\ subject \in Subjects /\ restarts' \in Nat
      /\ MayBeQuiet
  BY <1>1 DEF IInv, TypeOK, AtAttempt, Run, Sched, HoldsAttempts, MayBeQuiet
<1>3. CASE att[a].status = "dispatching"
  <2>1. Goto("sending") /\ subject' \in Subjects
    BY <1>2, <1>3 DEF SavePrompt, Subjects
  <2>2. sched' \in Sched /\ sched'.pc = "sending" /\ sched'.cur = a /\ HoldsAttempts'
    BY <1>1, <1>2, <2>1 DEF Goto, Sched, PCs, HoldsAttempts
  <2>3. QED
    BY <1>1, <1>2, <2>1, <2>2, KeepsAttempts
<1>4. CASE att[a].status # "dispatching"
  <2>1. UNCHANGED subject /\ Back("claims")
    BY <1>4 DEF SavePrompt
  <2>2. sched' \in Sched /\ HoldsAttempts' /\ sched'.pc = "claims"
    BY <1>1, <2>1, BackHolds DEF PCs, AtAttempt
  <2>3. \A b \in DOMAIN att \ {a} : att[b].status # "dispatching"
    BY DEF IInv, DispatchHasOwner
  <2>4. att[a].sent <= 1 /\ (att[a].status = "ready" => att[a].sent = 0)
    BY <1>2 DEF IInv, SentOnce, Unsent
  <2> HIDE DEF a
  <2>5. QED
    BY <1>1, <1>2, <1>4, <2>1, <2>2, <2>3, <2>4, ChangesOne
<1>5. QED
  BY <1>3, <1>4

\* The only step that counts a prompt: the attempt in sending has had none.
LEMMA DeliverStep == IInv /\ Deliver => IInv'
<1> SUFFICES ASSUME IInv, Deliver PROVE IInv'
  OBVIOUS
<1> DEFINE a == sched.cur
           new == [att[a] EXCEPT !.sent = @ + 1]
<1>1. /\ UNCHANGED <<run, latest, subject, creating, restarts>> /\ sched.pc = "sending"
      /\ att' = [att EXCEPT ![a] = new] /\ Goto("sent")
  BY DEF Deliver
<1>2. /\ a \in DOMAIN att /\ att \in [DOMAIN att -> Attempt] /\ run \in Run
      /\ sched \in Sched /\ HoldsAttempts /\ subject' \in Subjects
  BY <1>1 DEF IInv, TypeOK, AtAttempt, Run, Sched, HoldsAttempts
<1>3. att[a].sent = 0 /\ att[a].status # "ready"
  BY <1>1 DEF IInv, Unsent
<1>4. new \in Attempt /\ new.sent = 1 /\ new.status = att[a].status
  BY <1>2, <1>3 DEF Attempt
<1>5. sched' \in Sched /\ sched'.pc = "sent" /\ sched'.cur = a /\ HoldsAttempts'
  BY <1>1, <1>2 DEF Goto, Sched, PCs, HoldsAttempts
<1>6. \A b \in DOMAIN att \ {a} : att[b].status # "dispatching"
  BY DEF IInv, DispatchHasOwner
<1> HIDE DEF a, new
<1>7. QED
  BY <1>1, <1>2, <1>3, <1>4, <1>5, <1>6, ChangesOne

\* An attempt that was stopped while its POST was under way stays stopped.
LEMMA AnsweredStep == IInv /\ SendAnswered => IInv'
<1> SUFFICES ASSUME IInv, SendAnswered PROVE IInv'
  OBVIOUS
<1> DEFINE a == sched.cur
           new == [att[a] EXCEPT !.status = "running"]
<1>1. /\ UNCHANGED <<run, latest, subject, creating, restarts>> /\ sched.pc = "sent"
      /\ att' = Accepted(a) /\ Back("claims")
  BY DEF SendAnswered
<1>2. /\ a \in DOMAIN att /\ att \in [DOMAIN att -> Attempt] /\ run \in Run
      /\ subject' \in Subjects
  BY <1>1 DEF IInv, TypeOK, AtAttempt, Run
<1>3. new \in Attempt /\ new.sent = att[a].sent /\ new.status = "running"
  BY <1>2 DEF Attempt, AttemptStatuses, InFlight
<1>4. /\ DOMAIN att' = DOMAIN att /\ att' \in [DOMAIN att -> Attempt]
      /\ \A b \in DOMAIN att \ {a} : att'[b] = att[b]
      /\ \/ att[a].status = "dispatching" /\ att'[a] = new
         \/ att[a].status # "dispatching" /\ att'[a] = att[a]
  BY <1>1, <1>2, <1>3 DEF Accepted, Moved
<1>5. sched' \in Sched /\ HoldsAttempts' /\ sched'.pc = "claims"
  BY <1>1, <1>4, BackHolds DEF PCs, AtAttempt
<1>6. \A b \in DOMAIN att \ {a} : att[b].status # "dispatching"
  BY DEF IInv, DispatchHasOwner
<1>7. att'[a].sent <= 1 /\ (att'[a].status = "ready" => att'[a].sent = 0)
  BY <1>2, <1>3, <1>4 DEF IInv, SentOnce, Unsent
<1>8. /\ att'[a].status # "dispatching"
      /\ att'[a].status \in InFlight => att[a].status \in InFlight
  BY <1>3, <1>4 DEF InFlight
<1> HIDE DEF a, new
<1>9. QED
  BY <1>1, <1>2, <1>4, <1>5, <1>6, <1>7, <1>8, ChangesOne

-----------------------------------------------------------------------------
(* Steps that add an attempt                                               *)

\* An attempt with the next number of its node, not in flight and without a prompt.
LEMMA AddsOne ==
    ASSUME IInv, NEW a \in Ids, No(a) = latest[Node(a)] + 1, NEW new \in Attempt,
           new.sent = 0, new.status \notin InFlight, Insert(a, new),
           subject' \in Subjects, restarts' \in Nat, MayBeQuiet,
           creating' \subseteq creating,
           \A c \in creating' : c.mine => sched'.pc = "activating",
           sched' \in Sched, HoldsAttempts',
           sched'.pc \in {"preparing", "sending"} =>
              sched.pc \in {"preparing", "sending"} /\ sched'.cur = sched.cur,
           sched.pc \in {"preparing", "sending", "sent"} =>
              sched'.pc \in {"preparing", "sending", "sent"} /\ sched'.cur = sched.cur
    PROVE  IInv'
<1>t. /\ att \in [DOMAIN att -> Attempt] /\ DOMAIN att \subseteq Ids
      /\ latest \in [Nodes -> Nat]
      /\ \A b \in DOMAIN att : No(b) <= latest[Node(b)]
      /\ \A b \in Ids : No(b) <= latest[Node(b)] => b \in DOMAIN att
      /\ \A b \in Ids : Node(b) \in Nodes /\ No(b) \in Nat /\ b = <<Node(b), No(b)>>
  BY DEF IInv, TypeOK, Numbered, Ids, Node, No
<1>1. a \notin DOMAIN att
  BY <1>t
<1>2. /\ DOMAIN att' = DOMAIN att \cup {a} /\ att' \in [DOMAIN att' -> Attempt]
      /\ att'[a] = new /\ \A b \in DOMAIN att : att'[b] = att[b]
  BY <1>t, <1>1 DEF Insert
<1>3. /\ latest' \in [Nodes -> Nat] /\ latest'[Node(a)] = No(a)
      /\ \A n \in Nodes \ {Node(a)} : latest'[n] = latest[n]
  BY <1>t DEF Insert
<1>4. \A n \in Nodes : latest[n] <= latest'[n]
  BY <1>t, <1>3
<1>5. \A b \in DOMAIN att' : No(b) <= latest'[Node(b)]
  BY <1>t, <1>2, <1>3, <1>4
<1>6. \A b \in Ids : No(b) <= latest'[Node(b)] => b \in DOMAIN att'
  <2> SUFFICES ASSUME NEW b \in Ids, No(b) <= latest'[Node(b)] PROVE b \in DOMAIN att'
    OBVIOUS
  <2>1. CASE Node(b) # Node(a)
    BY <1>t, <1>2, <1>3, <2>1
  <2>2. CASE Node(b) = Node(a) /\ No(b) = No(a)
    BY <1>t, <1>2, <2>2
  <2>3. CASE Node(b) = Node(a) /\ No(b) # No(a)
    BY <1>t, <1>2, <1>3, <2>3
  <2>4. QED
    BY <2>1, <2>2, <2>3
<1>7. TypeOK'
  <2>1. DOMAIN att' \subseteq Ids /\ creating' \subseteq Creation
    BY <1>t, <1>2 DEF IInv, TypeOK
  <2>2. QED
    BY <1>2, <1>3, <1>5, <2>1 DEF TypeOK, MayBeQuiet, Run, Sched, HoldsAttempts
<1>8. Numbered'
  <2>1. \A c \in creating' : c.id \in Ids /\ No(c.id) <= latest[Node(c.id)] + 1
    BY DEF IInv, TypeOK, Creation, Numbered
  <2>2. \A c \in creating' : No(c.id) <= latest'[Node(c.id)] + 1
    BY <1>t, <1>3, <1>4, <2>1
  <2>3. QED
    BY <1>6, <2>2 DEF Numbered
<1>9. SentOnce'
  BY <1>2 DEF IInv, SentOnce
<1>10. Unsent' /\ DispatchHasOwner'
  <2>1. sched.pc \in {"preparing", "sending", "sent"} => sched.cur \in DOMAIN att
    BY DEF IInv, TypeOK, AtAttempt
  <2>2. QED
    BY <1>2, <2>1 DEF IInv, Unsent, DispatchHasOwner, InFlight
<1>11. Waiting'
  BY DEF Waiting
<1>12. Quiet'
  <2>1. SomeInFlight' => SomeInFlight
    BY <1>2 DEF SomeInFlight
  <2>2. QED
    BY <2>1 DEF IInv, Quiet, MayBeQuiet
<1>13. QED
  BY <1>7, <1>8, <1>9, <1>10, <1>11, <1>12 DEF IInv

\* The next number of a node is free.
LEMMA NextIdFacts ==
    ASSUME IInv, NEW n \in Nodes
    PROVE  NextId(n) \in Ids /\ No(NextId(n)) = latest[Node(NextId(n))] + 1
  BY DEF IInv, TypeOK, NextId, Ids, No, Node

\* A new attempt is well typed.
LEMMA NewAttemptFacts ==
    ASSUME NEW session \in BOOLEAN, NEW of \in Nat
    PROVE  /\ NewAttempt(session, of) \in Attempt
           /\ NewAttempt(session, of).sent = 0
           /\ NewAttempt(session, of).status = "ready"
  BY DEF NewAttempt, Attempt, AttemptStatuses, Outcomes

\* createWorkflow, nextAttempt and skipWorkflowNode.
LEMMA AddRequests == IInv /\ (Create \/ \E n \in Nodes : Retry(n) \/ Skip(n)) => IInv'
<1> SUFFICES ASSUME IInv, Create \/ \E n \in Nodes : Retry(n) \/ Skip(n) PROVE IInv'
  OBVIOUS
<1>1. /\ run \in Run /\ sched \in Sched /\ HoldsAttempts /\ latest["implement_ui"] \in Nat
      /\ subject \in Subjects /\ "none" \in Subjects /\ restarts \in Nat
  BY DEF IInv, TypeOK, Run, Sched, HoldsAttempts, Nodes, Subjects
<1>2. UNCHANGED <<creating, sched, restarts>> /\ MayBeQuiet /\ subject' \in Subjects
  <2>1. CASE Create
    BY <1>1, <2>1 DEF Create, SetRun, MayBeQuiet, Run, RunStatuses, Reasons, MustBeQuiet
  <2>2. CASE \E n \in Nodes : Retry(n) \/ Skip(n)
    BY <1>1, <2>2 DEF Retry, Skip, MayBeQuiet
  <2>3. QED
    BY <2>1, <2>2
<1>3. PICK n \in Nodes, new \in Attempt :
         Insert(NextId(n), new) /\ new.sent = 0 /\ new.status \notin InFlight
  <2>1. CASE Create
    <3>1. Insert(NextId("implement_ui"), NewAttempt(TRUE, 0)) /\ "implement_ui" \in Nodes
      BY <2>1 DEF Create, Nodes
    <3>2. QED
      BY <3>1, NewAttemptFacts DEF InFlight
  <2>2. CASE \E n \in Nodes : Retry(n) \/ Skip(n)
    <3>1. PICK n \in Nodes : Retry(n) \/ Skip(n)
      BY <2>2
    <3> DEFINE r == NewAttempt(FALSE, latest["implement_ui"])
               s == [r EXCEPT !.status = "skipped"]
    <3>2. r \in Attempt /\ r.sent = 0 /\ r.status = "ready"
      BY <1>1, NewAttemptFacts
    <3>3. s \in Attempt /\ s.sent = 0 /\ s.status = "skipped"
      BY <3>2 DEF Attempt, AttemptStatuses
    <3>4. Insert(NextId(n), r) \/ Insert(NextId(n), s)
      BY <3>1 DEF Retry, Skip
    <3> HIDE DEF r, s
    <3>5. QED
      BY <3>2, <3>3, <3>4 DEF InFlight
  <2>3. QED
    BY <2>1, <2>2
<1>4. HoldsAttempts'
  BY <1>1, <1>2, <1>3 DEF HoldsAttempts, Insert
<1>5. \A c \in creating' : c.mine => sched'.pc = "activating"
  BY <1>2 DEF IInv, Waiting
<1>6. sched' \in Sched /\ restarts' \in Nat
  BY <1>1, <1>2
<1>7. NextId(n) \in Ids /\ No(NextId(n)) = latest[Node(NextId(n))] + 1
  BY NextIdFacts
<1>8. QED
  BY <1>2, <1>3, <1>4, <1>5, <1>6, <1>7, AddsOne

\* The gate leaves the attempts alone, or adds the next implement attempt.
LEMMA GateStep == IInv /\ AdvanceReviewGate => IInv'
<1> SUFFICES ASSUME IInv, AdvanceReviewGate PROVE IInv'
  OBVIOUS
<1>1. UNCHANGED <<creating, restarts>> /\ Back("results") /\ sched.pc = "saved"
  BY DEF AdvanceReviewGate
<1>2. /\ run \in Run /\ subject \in Subjects /\ "none" \in Subjects /\ restarts' \in Nat
      /\ latest["implement_ui"] \in Nat
  BY <1>1 DEF IInv, TypeOK, Run, Subjects, Nodes
<1> DEFINE asked == [run EXCEPT !.status = "paused", !.reason = "safety"]
           done == [run EXCEPT !.status = "completed"]
           next == [run EXCEPT !.cycle = @ + 1]
<1>3. \A r \in {run, asked, done, next} :
         WhileRunning(r) \in Run /\ (MustBeQuiet(WhileRunning(r)) => MustBeQuiet(run))
  <2>1. asked \in Run /\ ~MustBeQuiet(asked)
    BY <1>2 DEF Run, RunStatuses, Reasons, MustBeQuiet
  <2>2. done \in Run /\ ~MustBeQuiet(done)
    BY <1>2 DEF Run, RunStatuses, MustBeQuiet
  <2>3. next \in Run /\ (MustBeQuiet(next) => MustBeQuiet(run))
    BY <1>2 DEF Run, MustBeQuiet
  <2> HIDE DEF asked, done, next
  <2>4. QED
    BY <1>2, <2>1, <2>2, <2>3 DEF WhileRunning
<1>4. MayBeQuiet
  <2>1. PICK r \in {run, asked, done, next} :
           run' = Finalized(run, att) \/ run' = Finalized(WhileRunning(r), att)
    BY DEF AdvanceReviewGate
  <2>2. CASE run' = Finalized(run, att)
    BY <1>2, <2>2, FinalizedRun
  <2>3. CASE run' = Finalized(WhileRunning(r), att)
    BY <1>3, <2>3, FinalizedRun
  <2>4. QED
    BY <2>1, <2>2, <2>3
<1> HIDE DEF asked, done, next
<1>5. CASE UNCHANGED <<latest, att, subject>>
  <2>1. sched' \in Sched /\ HoldsAttempts' /\ sched'.pc = "results"
    BY <1>1, <1>5, BackHolds DEF PCs, AtAttempt
  <2>2. QED
    BY <1>1, <1>2, <1>4, <1>5, <2>1, KeepsAttempts
<1>6. CASE /\ Insert(NextId("implement_ui"), NewAttempt(TRUE, latest["implement_ui"]))
           /\ subject' = "none"
  <2>1. DOMAIN att \subseteq DOMAIN att'
    BY <1>6 DEF Insert
  <2>2. sched' \in Sched /\ HoldsAttempts' /\ sched'.pc = "results"
    BY <1>1, <2>1, BackHolds DEF PCs, AtAttempt
  <2>3. \A c \in creating' : ~c.mine
    BY <1>1 DEF IInv, Waiting
  <2>4. NextId("implement_ui") \in Ids
        /\ No(NextId("implement_ui")) = latest[Node(NextId("implement_ui"))] + 1
    BY NextIdFacts DEF Nodes
  <2>5. /\ NewAttempt(TRUE, latest["implement_ui"]) \in Attempt
        /\ NewAttempt(TRUE, latest["implement_ui"]).sent = 0
        /\ NewAttempt(TRUE, latest["implement_ui"]).status \notin InFlight
    BY <1>2, NewAttemptFacts DEF InFlight
  <2>6. QED
    BY <1>1, <1>2, <1>4, <1>6, <2>2, <2>3, <2>4, <2>5, AddsOne
<1>7. QED
  BY <1>5, <1>6 DEF AdvanceReviewGate

-----------------------------------------------------------------------------
(* Sessions of the reviewers                                               *)

\* A step that leaves the attempts alone and changes what is being created.
LEMMA ChangesCreations ==
    ASSUME IInv, UNCHANGED <<latest, att, subject, restarts>>, MayBeQuiet,
           creating' \subseteq Creation,
           \A c \in creating' : No(c.id) <= latest[Node(c.id)] + 1,
           \A c \in creating' : c.mine => sched'.pc = "activating",
           sched' \in Sched, HoldsAttempts',
           sched' = sched \/ (/\ sched'.pc \in {"activating", "results"}
                              /\ sched.pc \notin {"preparing", "sending", "sent"})
    PROVE  IInv'
<1>1. TypeOK'
  BY DEF IInv, TypeOK, MayBeQuiet, Run, Sched, HoldsAttempts
<1>2. Numbered' /\ SentOnce' /\ Waiting'
  BY DEF IInv, Numbered, SentOnce, Waiting
<1>3. Unsent' /\ DispatchHasOwner'
  BY DEF IInv, Unsent, DispatchHasOwner
<1>4. Quiet'
  BY DEF IInv, Quiet, MayBeQuiet, SomeInFlight
<1>5. QED
  BY <1>1, <1>2, <1>3, <1>4 DEF IInv

\* Each session is for the next number of its node.
LEMMA ActivateStep == IInv /\ ActivateReviewers => IInv'
<1> SUFFICES ASSUME IInv, ActivateReviewers PROVE IInv'
  OBVIOUS
<1> DEFINE new(n) == [id |-> NextId(n), mine |-> TRUE, of |-> No(sched.cur)]
<1>1. /\ UNCHANGED <<run, latest, att, subject, restarts>> /\ sched.pc = "saved"
      /\ creating' = creating \cup {new(n) : n \in Reviewers} /\ Back("activating")
  BY DEF ActivateReviewers
<1>2. sched' \in Sched /\ HoldsAttempts' /\ sched'.pc = "activating"
  BY <1>1, BackHolds DEF PCs, AtAttempt
<1>3. No(sched.cur) \in Nat /\ Reviewers \subseteq Nodes
  BY DEF IInv, TypeOK, No, Nodes
<1>4. \A n \in Reviewers :
         new(n) \in Creation /\ No(new(n).id) <= latest[Node(new(n).id)] + 1
  <2> SUFFICES ASSUME NEW n \in Reviewers
               PROVE  new(n) \in Creation /\ No(new(n).id) <= latest[Node(new(n).id)] + 1
    OBVIOUS
  <2>1. NextId(n) \in Ids /\ No(NextId(n)) = latest[Node(NextId(n))] + 1
    BY <1>3, NextIdFacts
  <2>2. No(NextId(n)) \in Nat
    BY <2>1 DEF Ids, No
  <2>3. QED
    BY <1>3, <2>1, <2>2 DEF Creation
<1>5. /\ creating' \subseteq Creation
      /\ \A c \in creating' : No(c.id) <= latest[Node(c.id)] + 1
  <2>1. /\ creating \subseteq Creation
        /\ \A c \in creating : No(c.id) <= latest[Node(c.id)] + 1
    BY DEF IInv, TypeOK, Numbered
  <2> HIDE DEF new
  <2>2. QED
    BY <1>1, <1>4, <2>1
<1>6. MayBeQuiet
  BY <1>1 DEF MayBeQuiet, IInv, TypeOK, Run
<1>7. QED
  BY <1>1, <1>2, <1>5, <1>6, ChangesCreations

\* The tick gives up the creations it waits for.
LEMMA AbandonStep ==
    ASSUME IInv, NEW c \in creating, c.mine, Abandon(c),
           UNCHANGED <<latest, att, subject, restarts>>
    PROVE  IInv'
<1>1. sched.pc = "activating"
  BY DEF IInv, Waiting
<1>2. sched' \in Sched /\ HoldsAttempts' /\ sched'.pc = "results"
  BY BackHolds DEF Abandon, PCs, AtAttempt
<1>3. MayBeQuiet
  BY SafetyPauseKeeps DEF Abandon
<1>4. \A d \in creating : /\ [d EXCEPT !.mine = FALSE] \in Creation
                          /\ [d EXCEPT !.mine = FALSE].id = d.id
                          /\ ~[d EXCEPT !.mine = FALSE].mine
  BY DEF IInv, TypeOK, Creation
<1>5. \A e \in creating' : \E d \in creating : e = [d EXCEPT !.mine = FALSE]
  BY DEF Abandon
<1>6. \A e \in creating' : e \in Creation /\ ~e.mine /\ \E d \in creating : e.id = d.id
  BY <1>4, <1>5
<1>7. \A e \in creating' : No(e.id) <= latest[Node(e.id)] + 1
  BY <1>6 DEF IInv, Numbered
<1>8. QED
  BY <1>1, <1>2, <1>3, <1>6, <1>7, ChangesCreations

\* A session brings its attempt, unless a retry or a skip has taken the number.
LEMMA CreatedStep == IInv /\ (\E c \in creating : SessionCreated(c)) => IInv'
<1> SUFFICES ASSUME IInv, NEW c \in creating, SessionCreated(c) PROVE IInv'
  OBVIOUS
<1> DEFINE a == c.id
           new == NewAttempt(TRUE, c.of)
           attempts == [b \in DOMAIN att \cup {a} |-> IF b = a THEN new ELSE att[b]]
           rest == creating \ {c}
<1>1. /\ UNCHANGED <<subject, restarts>>
      /\ IF a \notin DOMAIN att THEN Insert(a, new) ELSE UNCHANGED <<att, latest>>
      /\ IF c.mine /\ a \in DOMAIN att
         THEN Abandon(c)
         ELSE /\ creating' = rest
              /\ \/ /\ \A d \in rest : ~d.mine
                    /\ c.mine /\ Back("results") /\ run' = Finalized(run, attempts)
                 \/ UNCHANGED <<run, sched>>
  BY DEF SessionCreated
<1>2. /\ c \in Creation /\ run \in Run /\ subject \in Subjects /\ restarts' \in Nat
      /\ sched \in Sched /\ HoldsAttempts
      /\ creating' = rest => creating' \subseteq Creation
  BY <1>1 DEF IInv, TypeOK, Run, Sched, HoldsAttempts
<1>3. new \in Attempt /\ new.sent = 0 /\ new.status = "ready" /\ a \in Ids
  BY <1>2, NewAttemptFacts DEF Creation
<1>4. CASE c.mine /\ a \in DOMAIN att
  BY <1>1, <1>4, AbandonStep
<1>5. CASE ~c.mine /\ a \in DOMAIN att
  <2>1. UNCHANGED <<run, sched, att, latest>> /\ creating' = rest
    BY <1>1, <1>5
  <2>2. MayBeQuiet /\ HoldsAttempts'
    BY <1>2, <2>1 DEF MayBeQuiet, HoldsAttempts
  <2>3. \A d \in creating' : /\ No(d.id) <= latest[Node(d.id)] + 1
                             /\ d.mine => sched'.pc = "activating"
    BY <2>1 DEF IInv, Numbered, Waiting
  <2> HIDE DEF a, new, attempts, rest
  <2>4. QED
    BY <1>1, <1>2, <2>1, <2>2, <2>3, ChangesCreations
<1>6. CASE a \notin DOMAIN att
  <2>1. Insert(a, new) /\ creating' = rest
    BY <1>1, <1>6
  <2>2. No(a) = latest[Node(a)] + 1
    <3>1. No(a) <= latest[Node(a)] + 1 /\ ~(No(a) <= latest[Node(a)])
      BY <1>3, <1>6 DEF IInv, Numbered
    <3>2. No(a) \in Nat /\ latest[Node(a)] \in Nat
      BY <1>3 DEF IInv, TypeOK, Ids, No, Node
    <3>3. QED
      BY <3>1, <3>2
  <2>3. DOMAIN att \subseteq DOMAIN att'
    BY <2>1 DEF Insert
  <2>4. CASE UNCHANGED <<run, sched>>
    <3>1. MayBeQuiet /\ HoldsAttempts'
      BY <1>2, <2>3, <2>4 DEF MayBeQuiet, HoldsAttempts
    <3>2. \A d \in creating' : d.mine => sched'.pc = "activating"
      BY <2>1, <2>4 DEF IInv, Waiting
    <3> HIDE DEF a, new, attempts
    <3>3. QED
      BY <1>1, <1>2, <1>3, <2>1, <2>2, <2>4, <3>1, <3>2, AddsOne DEF InFlight
  <2>5. CASE /\ \A d \in rest : ~d.mine
             /\ c.mine /\ Back("results") /\ run' = Finalized(run, attempts)
    <3>1. sched.pc = "activating"
      BY <2>5 DEF IInv, Waiting
    <3>2. sched' \in Sched /\ HoldsAttempts' /\ sched'.pc = "results"
      BY <2>3, <2>5, BackHolds DEF PCs, AtAttempt
    <3>3. (\A b \in DOMAIN attempts : attempts[b].status \notin InFlight) => ~SomeInFlight
      BY <1>6 DEF SomeInFlight
    <3> HIDE DEF attempts
    <3>4. MayBeQuiet
      BY <1>2, <2>5, <3>3, FinalizedKeeps
    <3> HIDE DEF a, new
    <3>5. QED
      BY <1>1, <1>2, <1>3, <2>1, <2>2, <2>5, <3>1, <3>2, <3>4, AddsOne DEF InFlight
  <2>6. QED
    BY <1>1, <1>6, <2>4, <2>5
<1>7. QED
  BY <1>4, <1>5, <1>6

\* A creation that fails leaves the rows alone, or pauses the run.
LEMMA FailedStep == IInv /\ (\E c \in creating : SessionFailed(c)) => IInv'
<1> SUFFICES ASSUME IInv, NEW c \in creating, SessionFailed(c) PROVE IInv'
  OBVIOUS
<1>1. UNCHANGED <<latest, att, subject, restarts>>
  BY DEF SessionFailed
<1>2. CASE c.mine
  BY <1>1, <1>2, AbandonStep DEF SessionFailed
<1>3. CASE ~c.mine
  <2>1. creating' = creating \ {c} /\ UNCHANGED <<run, sched>>
    BY <1>3 DEF SessionFailed
  <2>2. /\ creating' \subseteq Creation /\ sched' \in Sched /\ MayBeQuiet /\ HoldsAttempts'
    BY <1>1, <2>1 DEF IInv, TypeOK, Sched, Run, MayBeQuiet, HoldsAttempts
  <2>3. \A d \in creating' : /\ No(d.id) <= latest[Node(d.id)] + 1
                             /\ d.mine => sched'.pc = "activating"
    BY <2>1 DEF IInv, Numbered, Waiting
  <2>4. QED
    BY <1>1, <2>1, <2>2, <2>3, ChangesCreations
<1>4. QED
  BY <1>2, <1>3

-----------------------------------------------------------------------------
(* Steps that change several attempts                                      *)

\* recoverInterruptedAttempts fails what was being dispatched; a stop takes what was in
\* flight.  Neither makes an attempt ready, nor puts one in flight.
LEMMA AllStep == IInv /\ (Restart \/ Stop) => IInv'
<1> SUFFICES ASSUME IInv, Restart \/ Stop PROVE IInv'
  OBVIOUS
<1>1. /\ att \in [DOMAIN att -> Attempt] /\ run \in Run /\ sched \in Sched /\ HoldsAttempts
      /\ restarts \in Nat /\ UNCHANGED <<latest, subject>>
  BY DEF IInv, TypeOK, Run, Sched, HoldsAttempts, Restart, Stop
<1>2. PICK new \in {Interrupted, "stopped"} : \E hit \in SUBSET DOMAIN att :
         /\ att' = [a \in DOMAIN att |->
                      IF a \in hit THEN [att[a] EXCEPT !.status = new] ELSE att[a]]
         /\ \/ hit = WithStatus("dispatching")
            \/ hit = {a \in DOMAIN att : att[a].status \in InFlight}
  BY DEF Restart, Stop, WithStatus
<1>3. new \in {"failed", "stopped"}
  BY DEF Interrupted
<1>4. /\ DOMAIN att' = DOMAIN att /\ att' \in [DOMAIN att -> Attempt]
      /\ \A a \in DOMAIN att : /\ att'[a].sent = att[a].sent
                               /\ \/ att'[a] = att[a]
                                  \/ att'[a].status \in {"failed", "stopped"}
                               /\ att'[a].status # "dispatching"
  <2>1. \A a \in DOMAIN att : /\ [att[a] EXCEPT !.status = new] \in Attempt
                              /\ [att[a] EXCEPT !.status = new].sent = att[a].sent
                              /\ [att[a] EXCEPT !.status = new].status = new
    BY <1>1, <1>3 DEF Attempt, AttemptStatuses
  <2>2. QED
    BY <1>1, <1>2, <1>3, <2>1 DEF WithStatus, InFlight
<1>5. /\ sched' \in Sched /\ HoldsAttempts' /\ restarts' \in Nat
      /\ creating' \subseteq creating
      /\ (sched' = sched /\ creating' = creating) \/ (sched'.pc = "idle" /\ creating' = {})
  <2>1. CASE Restart
    <3>1. Idle \in Sched
      BY DEF Idle, Sched, PCs, Nobody, Nodes, Outcomes
    <3>2. QED
      BY <1>1, <2>1, <3>1 DEF Restart, HoldsAttempts, Idle, AtAttempt
  <2>2. CASE Stop
    BY <1>1, <1>4, <2>2 DEF Stop, HoldsAttempts
  <2>3. QED
    BY <2>1, <2>2
<1>6. run' \in Run /\ (MustBeQuiet(run') => MustBeQuiet(run))
  <2>1. CASE Restart
    BY <1>1, <2>1 DEF Restart, SafetyPause, SetRun, Run, MustBeQuiet, RunStatuses, Reasons
  <2>2. CASE Stop
    BY <1>1, <2>2 DEF Stop, SetRun, Run, MustBeQuiet, RunStatuses
  <2>3. QED
    BY <2>1, <2>2
<1>7. TypeOK'
  BY <1>1, <1>4, <1>5, <1>6 DEF IInv, TypeOK, Run, Sched, HoldsAttempts
<1>8. Numbered' /\ SentOnce' /\ Waiting'
  BY <1>1, <1>4, <1>5 DEF IInv, Numbered, SentOnce, Waiting
<1>9. Unsent'
  <2>1. sched.pc \in {"preparing", "sending"} => sched.cur \in DOMAIN att
    BY <1>1 DEF HoldsAttempts, AtAttempt
  <2>2. QED
    BY <1>4, <1>5, <2>1 DEF IInv, Unsent
<1>10. DispatchHasOwner'
  BY <1>4 DEF DispatchHasOwner
<1>11. Quiet'
  BY <1>4, <1>6 DEF IInv, Quiet, SomeInFlight, InFlight
<1>12. QED
  BY <1>7, <1>8, <1>9, <1>10, <1>11 DEF IInv

-----------------------------------------------------------------------------
(* The theorems                                                            *)

\* Every step keeps the invariant.
THEOREM IInvStep == IInv /\ [Next]_vars => IInv'
<1> SUFFICES ASSUME IInv, [Next]_vars PROVE IInv'
  OBVIOUS
<1>1. CASE TickStep
  BY <1>1, RunRequests, TickMoves, FailSteps, SaveStep, ActivateStep, GateStep, ClaimStep,
     SavePromptStep, DeliverStep, AnsweredStep DEF TickStep
<1>2. CASE Creations
  BY <1>2, CreatedStep, FailedStep DEF Creations
<1>3. CASE Requests
  BY <1>3, RunRequests, AddRequests, AllStep DEF Requests
<1>4. CASE Environment \/ Restart
  BY <1>4, EditStep, SpoiltStep, AllStep DEF Environment
<1>5. CASE UNCHANGED vars
  BY <1>5 DEF vars, IInv, TypeOK, Numbered, SentOnce, Unsent, DispatchHasOwner, Waiting,
              Quiet, SomeInFlight
<1>6. QED
  BY <1>1, <1>2, <1>3, <1>4, <1>5 DEF Next

\* The invariant holds in every reachable state.
THEOREM IInvAlways == Spec => []IInv
  BY IInvInit, IInvStep, PTL DEF Spec

\* The rows and the tick have their types, numbers and references in every reachable state.
THEOREM TypeCorrect == Spec => []TypeOK
<1>1. IInv => TypeOK
  BY DEF IInv
<1>2. QED
  BY <1>1, IInvAlways, PTL

\* No prompt of an attempt reaches the engine twice.
THEOREM PromptsSentOnce == Spec => []SentOnce
<1>1. IInv => SentOnce
  BY DEF IInv
<1>2. QED
  BY <1>1, IInvAlways, PTL

\* No attempt is stranded in dispatching.
THEOREM DispatchIsOwned == Spec => []DispatchHasOwner
<1>1. IInv => DispatchHasOwner
  BY DEF IInv
<1>2. QED
  BY <1>1, IInvAlways, PTL

\* No attempt is in flight while a run rests at the user's pause.
THEOREM PausedIsQuiet == Spec => []UserPauseIsQuiet
<1>1. IInv => UserPauseIsQuiet
  BY DEF IInv, Quiet, MustBeQuiet, UserPauseIsQuiet
<1>2. QED
  BY <1>1, IInvAlways, PTL

-----------------------------------------------------------------------------
(* Steps                                                                   *)

\* An attempt that has ended keeps its status and its result.
KeepsEnded ==
    \A a \in DOMAIN att : att[a].status \notin InFlight \cup {"ready"} =>
        a \in DOMAIN att' /\ att'[a].status = att[a].status
                          /\ att'[a].outcome = att[a].outcome

\* An INSERT takes a number that is free.
LEMMA InsertKeepsEnded ==
    ASSUME NEW a, a \notin DOMAIN att, NEW new, Insert(a, new)
    PROVE  KeepsEnded
  BY DEF Insert, KeepsEnded

\* The next number is free.
LEMMA NextIdIsFree == ASSUME IInv, NEW n \in Nodes PROVE NextId(n) \notin DOMAIN att
<1>1. \A a \in DOMAIN att : No(a) <= latest[Node(a)] /\ a \in Ids
  BY DEF IInv, TypeOK
<1>2. latest[n] \in Nat
  BY DEF IInv, TypeOK
<1>3. QED
  BY <1>1, <1>2 DEF NextId, No, Node

\* A step that changes attempt a only, which is in flight or ready.
LEMMA OneKeepsEnded ==
    ASSUME NEW a, NEW new, att' = [att EXCEPT ![a] = new],
           \/ att[a].status \in InFlight \cup {"ready"}
           \/ new.status = att[a].status /\ new.outcome = att[a].outcome
    PROVE  KeepsEnded
  BY DEF KeepsEnded

\* The status of an attempt, moved while it is in flight or ready.
LEMMA MovedKeepsEnded ==
    ASSUME NEW a, NEW status, att' = Moved(a, status),
           att[a].status \in InFlight \cup {"ready"}
    PROVE  KeepsEnded
<1>1. att' = [att EXCEPT ![a] = [att[a] EXCEPT !.status = status]]
  BY DEF Moved
<1>2. QED
  BY <1>1, OneKeepsEnded

\* Every step keeps what has ended.
LEMMA StepKeepsEnded == IInv /\ [Next]_vars => KeepsEnded
<1> SUFFICES ASSUME IInv, [Next]_vars PROVE KeepsEnded
  OBVIOUS
<1> DEFINE a == sched.cur
<1>1. CASE UNCHANGED att
  BY <1>1 DEF KeepsEnded
<1>2. CASE PauseForAttempt(a)
  <2>1. CASE att[a].status = "dispatching"
    BY <1>2, <2>1, MovedKeepsEnded DEF PauseForAttempt, InFlight
  <2>2. CASE att[a].status # "dispatching"
    BY <1>1, <1>2, <2>2 DEF PauseForAttempt
  <2>3. QED
    BY <2>1, <2>2
<1>3. CASE SaveResult
  <2>1. CASE att[a].status = "running"
    <3>1. att' = [att EXCEPT ![a] = [att[a] EXCEPT !.status = "succeeded",
                                                   !.outcome = sched.result]]
      BY <1>3, <2>1 DEF SaveResult
    <3>2. QED
      BY <2>1, <3>1, OneKeepsEnded DEF InFlight
  <2>2. CASE att[a].status # "running"
    BY <1>1, <1>3, <2>2 DEF SaveResult
  <2>3. QED
    BY <2>1, <2>2
<1>4. CASE Claim
  BY <1>4, MovedKeepsEnded DEF Claim
<1>5. CASE Deliver
  <2> DEFINE new == [att[a] EXCEPT !.sent = @ + 1]
  <2>1. att' = [att EXCEPT ![a] = new]
    BY <1>5 DEF Deliver
  <2>2. att[a] \in Attempt
    BY <1>5 DEF Deliver, IInv, TypeOK, AtAttempt
  <2>3. new.status = att[a].status /\ new.outcome = att[a].outcome
    BY <2>2 DEF Attempt
  <2> HIDE DEF a, new
  <2>4. QED
    BY <2>1, <2>3, OneKeepsEnded
<1>6. CASE SendAnswered
  <2>1. CASE att[a].status = "dispatching"
    BY <1>6, <2>1, MovedKeepsEnded DEF SendAnswered, Accepted, InFlight
  <2>2. CASE att[a].status # "dispatching"
    BY <1>1, <1>6, <2>2 DEF SendAnswered, Accepted
  <2>3. QED
    BY <2>1, <2>2
<1>7. ASSUME NEW n \in Nodes, NEW new, Insert(NextId(n), new) PROVE KeepsEnded
  BY <1>7, NextIdIsFree, InsertKeepsEnded
<1>8. CASE Restart \/ Stop
  <2>1. att \in [DOMAIN att -> Attempt]
    BY DEF IInv, TypeOK
  <2>2. \A b \in DOMAIN att : att[b].status \notin InFlight => att'[b] = att[b]
    BY <1>8, <2>1 DEF Restart, Stop, InFlight
  <2>3. DOMAIN att' = DOMAIN att
    BY <1>8 DEF Restart, Stop
  <2>4. QED
    BY <2>2, <2>3 DEF KeepsEnded
<1>9. CASE TickStep
  <2>1. CASE AdvanceReviewGate
    BY <1>1, <1>7, <2>1 DEF AdvanceReviewGate, Nodes
  <2>2. CASE ~AdvanceReviewGate
    BY <1>1, <1>2, <1>3, <1>4, <1>5, <1>6, <1>9, <2>2
    DEF TickStep, TickStart, TickDisabled, FetchMessages, NoResult, ReadResult, DropDrifted,
        OtherResult, ActivateReviewers, ResultsDone, PrepareFails, SavePrompt, SendFails,
        TickDone
  <2>3. QED
    BY <2>1, <2>2
<1>10. CASE Creations
  <2>1. PICK c \in creating : SessionCreated(c) \/ SessionFailed(c)
    BY <1>10 DEF Creations
  <2>2. CASE SessionFailed(c)
    BY <1>1, <2>2 DEF SessionFailed
  <2>3. CASE SessionCreated(c)
    <3>1. UNCHANGED att \/ (c.id \notin DOMAIN att /\ Insert(c.id, NewAttempt(TRUE, c.of)))
      BY <2>3 DEF SessionCreated
    <3>2. QED
      BY <1>1, <3>1, InsertKeepsEnded
  <2>4. QED
    BY <2>1, <2>2, <2>3
<1>11. CASE Requests
  <2>1. CASE Create
    BY <1>7, <2>1 DEF Create, Nodes
  <2>2. CASE \E n \in Nodes : Retry(n) \/ Skip(n)
    BY <1>7, <2>2 DEF Retry, Skip
  <2>3. CASE Start \/ Resume \/ Pause \/ Detach \/ Reattach \/ ManualInput
    BY <1>1, <2>3 DEF Start, Resume, Pause, Detach, Reattach, ManualInput
  <2>4. QED
    BY <1>8, <1>11, <2>1, <2>2, <2>3 DEF Requests
<1>12. CASE Edit \/ UNCHANGED vars
  BY <1>1, <1>12 DEF Edit, vars
<1>13. ASSUME NEW b \in DOMAIN att, ReplySpoilt(b) PROVE KeepsEnded
  BY <1>13, SpoiltFacts, OneKeepsEnded DEF InFlight
<1>14. QED
  BY <1>8, <1>9, <1>10, <1>11, <1>12, <1>13 DEF Next, Environment

\* No late answer and no late result changes an attempt that has ended.
THEOREM EndedStays == Spec => EndedAttemptIsFinal
<1>1. IInv /\ [Next]_vars => [KeepsEnded]_vars
  BY StepKeepsEnded
<1>2. Spec => [][KeepsEnded]_vars
  BY <1>1, IInvAlways, PTL DEF Spec
<1>3. QED
  BY <1>2 DEF EndedAttemptIsFinal, KeepsEnded

\* A requested pause, and a safety pause, leave a run that is paused or has ended alone.
LEMMA RestKeepsStatus ==
    ASSUME run.status \in Ended \cup {"paused"},
           \/ SafetyPause
           \/ \E attempts : run' = Finalized(run, attempts)
           \/ \E r, attempts : run' = Finalized(WhileRunning(r), attempts)
    PROVE  run'.status = run.status
  BY DEF SafetyPause, Finalized, WhileRunning, Ended

Revived == run.status \in Ended \cup {"paused"} /\ run'.status # run.status

\* Of the steps that could revive a run, those of the tick, of a creation and of a
\* restart do not, and the others are requests that move nothing else.
LEMMA StepRevives == [Next]_vars => (Revived => UNCHANGED <<sched, creating, latest>>)
<1> SUFFICES ASSUME [Next]_vars, run.status \in Ended \cup {"paused"},
                    ~UNCHANGED <<sched, creating, latest>>
             PROVE  run'.status = run.status
  BY DEF Revived
<1>1. CASE run' = run
  BY <1>1
<1>2. CASE TickStep
  <2>1. CASE AdvanceReviewGate
    BY <2>1, RestKeepsStatus DEF AdvanceReviewGate
  <2>2. CASE ~AdvanceReviewGate
    BY <1>1, <1>2, <2>2, RestKeepsStatus
    DEF TickStep, TickStart, TickDisabled, FetchMessages, NoResult, ReadResult, DropDrifted,
        SaveResult, OtherResult, ActivateReviewers, ResultsDone, Claim, PrepareFails,
        SavePrompt, Deliver, SendAnswered, SendFails, TickDone, PauseForAttempt, Ended
  <2>3. QED
    BY <2>1, <2>2
<1>3. CASE Creations
  BY <1>1, <1>3, RestKeepsStatus DEF Creations, SessionCreated, SessionFailed, Abandon
<1>4. CASE Restart
  BY <1>1, <1>4, RestKeepsStatus DEF Restart
<1>5. CASE Create
  BY <1>5 DEF Create, Ended
<1>6. CASE \E n \in Nodes : Retry(n) \/ Skip(n)
  BY <1>1, <1>6 DEF Retry, Skip
<1>7. CASE Start \/ Resume \/ Pause \/ Stop \/ Detach \/ Reattach \/ ManualInput
  BY <1>7 DEF Start, Resume, Pause, Stop, Detach, Reattach, ManualInput
<1>8. CASE Environment \/ UNCHANGED vars
  BY <1>1, <1>8 DEF Environment, Edit, ReplySpoilt, vars
<1>9. QED
  BY <1>2, <1>3, <1>4, <1>5, <1>6, <1>7, <1>8 DEF Next, Requests

\* Nothing but a request revives, completes or detaches a run that rests.
THEOREM RequestsRevive == Spec => OnlyRequestsRevive
<1>1. [Next]_vars => [Revived => UNCHANGED <<sched, creating, latest>>]_vars
  BY StepRevives
<1>2. Spec => [][Revived => UNCHANGED <<sched, creating, latest>>]_vars
  BY <1>1, PTL DEF Spec
<1>3. QED
  BY <1>2 DEF OnlyRequestsRevive, Revived

-----------------------------------------------------------------------------
(* One attempt of a node at a time                                         *)

\* The attempts that have a session and may still be sent, or are being worked on.
Live == {a \in DOMAIN att : att[a].session /\ att[a].status \in InFlight \cup {"ready"}}

\* Implementation and review take turns: a live implement attempt is alone, a reviewer is
\* live or being created but not both, what a failed activation left behind is alone, and
\* while the tick decides on a result nothing is being created.
InTurn ==
    /\ \A a, b \in Live : Node(a) = Node(b) => a = b
    /\ \A a \in Live : Node(a) = "implement_ui" =>
          Live = {a} /\ creating = {} /\ sched.pc # "saved"
    /\ \A a \in Live, c \in creating : Node(a) # Node(c.id) /\ c.mine
    /\ \A c, d \in creating : /\ Node(c.id) \in Reviewers
                              /\ c # d => c.mine /\ Node(c.id) # Node(d.id)
    /\ sched.pc = "saved" =>
          creating = {} /\ (Node(sched.cur) = "implement_ui" => Live = {})

\* An attempt made by a retry or a skip has no session: it is never sent.
NeedsSession ==
    \A a \in DOMAIN att : ~att[a].session => att[a].status \notin InFlight \cup {"succeeded"}

\* No attempt with a session comes after a live one of its node.
LiveIsNewest ==
    \A a \in Live, b \in DOMAIN att : att[b].session /\ Node(b) = Node(a) => No(b) <= No(a)

\* Nothing happens before the task enters Workflow Mode.
Untouched == run.status = "none" => DOMAIN att = {} /\ creating = {} /\ sched.pc # "saved"

\* Only an implement attempt completes.
ResultFits ==
    sched.pc \in {"saving", "saved"} /\ sched.result = "completed" =>
        Node(sched.cur) = "implement_ui"

Turns == InTurn /\ NeedsSession /\ LiveIsNewest /\ Untouched /\ ResultFits

\* What the steps below start from.
Basis == IInv /\ IInv' /\ Turns

\* Types that are cited again and again.
LEMMA BasisTypes ==
    ASSUME IInv
    PROVE  /\ DOMAIN att \subseteq Ids /\ att \in [DOMAIN att -> Attempt]
           /\ latest \in [Nodes -> Nat] /\ sched \in Sched /\ creating \subseteq Creation
           /\ \A a \in DOMAIN att : /\ Node(a) \in Nodes /\ No(a) \in Nat
                                    /\ No(a) <= latest[Node(a)] /\ a = <<Node(a), No(a)>>
           /\ \A c \in creating : c.id \in Ids /\ Node(c.id) \in Nodes /\ No(c.id) \in Nat
                                  /\ c.id = <<Node(c.id), No(c.id)>>
  BY DEF IInv, TypeOK, Sched, Ids, Creation, Node, No

\* Only a result that is read or saved brings the tick to "saving" or "saved".
LEMMA TickGoes ==
    ASSUME Basis, [Next]_vars
    PROVE  ReadResult \/ SaveResult \/ sched' = sched \/ sched'.pc \notin {"saving", "saved"}
<1>0. sched \in Sched
  BY BasisTypes DEF Basis
<1>1. \A pc : Back(pc) => sched'.pc = pc
  BY DEF Back, Idle
<1>2. \A pc : Goto(pc) => sched'.pc = pc
  BY <1>0 DEF Goto, Sched
<1>3. sched' = Idle => sched'.pc = "idle"
  BY DEF Idle
<1>4. CASE TickStart
  <2>1. \A x, y : [Idle EXCEPT !.pc = "results", !.todo = x, !.ready = y].pc = "results"
    BY DEF Idle
  <2> QED BY <1>4, <2>1 DEF TickStart
<1>5. CASE FetchMessages
  <2>1. \A a : [sched EXCEPT !.pc = "reading", !.cur = a, !.todo = @ \ {a}].pc = "reading"
    BY <1>0 DEF Sched
  <2> QED BY <1>5, <2>1 DEF FetchMessages
<1>6. CASE Claim
  <2>1. sched.pc = "claims"
    BY <1>6 DEF Claim
  <2>2. \A a : Taken(a).pc = "claims" /\ [Taken(a) EXCEPT !.pc = "preparing", !.cur = a].pc = "preparing"
    BY <1>0, <2>1 DEF Sched, Taken
  <2> QED BY <1>6, <2>2 DEF Claim
<1>7. CASE TickStep /\ ~(TickStart \/ FetchMessages \/ Claim \/ ReadResult \/ SaveResult)
  BY <1>1, <1>2, <1>3, <1>7
  DEF TickStep, TickDisabled, NoResult, DropDrifted, OtherResult, ActivateReviewers,
      AdvanceReviewGate, ResultsDone, PrepareFails, SavePrompt, Deliver, SendAnswered,
      SendFails, TickDone
<1>8. CASE Creations
  BY <1>1, <1>8 DEF Creations, SessionCreated, SessionFailed, Abandon
<1>9. CASE Requests \/ Environment \/ Restart \/ UNCHANGED vars
  BY <1>3, <1>9 DEF Requests, Create, Start, Resume, Pause, Stop, Detach, Reattach, Retry, Skip,
     ManualInput, Environment, Edit, ReplySpoilt, Restart, vars
<1> QED BY <1>4, <1>5, <1>6, <1>7, <1>8, <1>9 DEF Next

\* An answer of a reviewer is a verdict, and the tick keeps it with its attempt.
LEMMA ResultFitsStep ==
    ASSUME Basis, [Next]_vars
    PROVE  ResultFits'
<1>0. sched \in Sched
  BY BasisTypes DEF Basis
<1>1. CASE ReadResult
  <2>1. PICK r \in Answers(Node(sched.cur)) :
          sched' = [sched EXCEPT !.pc = "saving", !.result = r, !.matches = SubjectMatches]
    BY <1>1 DEF ReadResult
  <2>2. sched'.result = r /\ sched'.cur = sched.cur
    BY <1>0, <2>1 DEF Sched
  <2>3. r = "completed" => Node(sched.cur) \notin Reviewers
    BY <2>1 DEF Answers, Verdicts
  <2>4. Node(sched.cur) \in Nodes
    BY <1>0 DEF Sched, Node
  <2> QED BY <2>2, <2>3, <2>4 DEF ResultFits, Nodes
<1>2. CASE SaveResult
  <2>1. CASE Goto("saved")
    <3>1. sched'.result = sched.result /\ sched'.cur = sched.cur /\ sched.pc = "saving"
      BY <1>0, <1>2, <2>1 DEF Goto, Sched, SaveResult
    <3> QED BY <3>1 DEF Basis, Turns, ResultFits
  <2>2. CASE Back("results")
    BY <2>2 DEF Back, Idle, ResultFits
  <2> QED BY <1>2, <2>1, <2>2 DEF SaveResult
<1>3. CASE sched' = sched
  BY <1>3 DEF Basis, Turns, ResultFits
<1>4. CASE sched'.pc \notin {"saving", "saved"}
  BY <1>4 DEF ResultFits
<1> QED BY <1>1, <1>2, <1>3, <1>4, TickGoes

\* The task enters Workflow Mode once.
LEMMA RunStarts ==
    ASSUME Basis, [Next]_vars, run'.status = "none"
    PROVE  run.status = "none"
<1>0. run \in Run
  BY DEF Basis, IInv, TypeOK, Run
<1>1. \A status, reason : SetRun(status, reason) => run'.status = status
  BY <1>0 DEF SetRun, Run
<1>2. SafetyPause => run' = run \/ run'.status = "paused"
  BY <1>1 DEF SafetyPause
<1>3. \A r \in Run : \A attempts :
         Finalized(r, attempts) = r \/ Finalized(r, attempts).status = "paused"
  BY DEF Finalized, Run
<1> DEFINE asked == [run EXCEPT !.status = "paused", !.reason = "safety"]
           done == [run EXCEPT !.status = "completed"]
           next == [run EXCEPT !.cycle = @ + 1]
<1>4. CASE AdvanceReviewGate
  <2>1. \A r \in {asked, done, next} :
          WhileRunning(r) \in Run /\ (WhileRunning(r).status = "none" => run.status = "none")
    <3>1. asked \in Run /\ asked.status = "paused"
      BY <1>0 DEF Run, RunStatuses, Reasons
    <3>2. done \in Run /\ done.status = "completed"
      BY <1>0 DEF Run, RunStatuses
    <3>3. next \in Run /\ next.status = run.status
      BY <1>0 DEF Run
    <3> HIDE DEF asked, done, next
    <3> QED BY <1>0, <3>1, <3>2, <3>3 DEF WhileRunning
  <2>2. PICK r \in {asked, done, next} :
           run' = Finalized(run, att) \/ run' = Finalized(WhileRunning(r), att)
    BY <1>4 DEF AdvanceReviewGate
  <2> HIDE DEF asked, done, next
  <2> QED BY <1>0, <1>3, <2>1, <2>2
<1>5. CASE TickStep /\ ~AdvanceReviewGate
  BY <1>0, <1>1, <1>2, <1>3, <1>5
  DEF TickStep, TickStart, TickDisabled, FetchMessages, NoResult, ReadResult, DropDrifted,
      SaveResult, OtherResult, ActivateReviewers, ResultsDone, Claim, PrepareFails,
      SavePrompt, Deliver, SendAnswered, SendFails, TickDone, PauseForAttempt
<1>6. CASE Creations
  BY <1>0, <1>2, <1>3, <1>6 DEF Creations, SessionCreated, SessionFailed, Abandon
<1>7. CASE Requests
  BY <1>1, <1>7 DEF Requests, Create, Start, Resume, Pause, Stop, Detach, Reattach, Retry, Skip,
     ManualInput
<1>8. CASE Environment \/ Restart \/ UNCHANGED vars
  BY <1>2, <1>8 DEF Environment, Edit, ReplySpoilt, Restart, vars
<1> QED BY <1>4, <1>5, <1>6, <1>7, <1>8 DEF Next

\* A step that adds no attempt, makes none live and gives none a status it cannot have.
LEMMA Fewer ==
    ASSUME Basis, [Next]_vars, DOMAIN att' = DOMAIN att, creating' \subseteq creating,
           \A a \in DOMAIN att :
              /\ att'[a].session = att[a].session
              /\ att'[a].status \in InFlight \cup {"ready"} =>
                    att[a].status \in InFlight \cup {"ready"}
              /\ att'[a].status \in InFlight \cup {"succeeded"} => att[a].session,
           sched'.pc = "saved" => sched' = sched
    PROVE  Turns'
<1>1. Live' \subseteq Live
  BY DEF Live
<1>2. InTurn'
  <2>1. ASSUME NEW a \in Live' PROVE a \in Live
    BY <1>1
  <2>2. ASSUME NEW c \in creating' PROVE c \in creating
    OBVIOUS
  <2>3. sched'.pc = "saved" => sched'.cur = sched.cur /\ sched.pc = "saved"
    OBVIOUS
  <2> QED BY <2>1, <2>2, <2>3 DEF Basis, Turns, InTurn
<1>3. NeedsSession'
  BY DEF NeedsSession
<1>4. LiveIsNewest'
  BY <1>1 DEF Basis, Turns, LiveIsNewest
<1>5. Untouched'
  BY RunStarts DEF Basis, Turns, Untouched
<1> QED BY <1>2, <1>3, <1>4, <1>5, ResultFitsStep DEF Turns

\* A step that leaves the attempts alone.
LEMMA SameAttempts ==
    ASSUME Basis, [Next]_vars, UNCHANGED att, creating' \subseteq creating,
           sched'.pc = "saved" => sched' = sched
    PROVE  Turns'
<1>1. \A a \in DOMAIN att : att[a].status \in InFlight \cup {"succeeded"} => att[a].session
  <2>1. \A a \in DOMAIN att : att[a].session \in BOOLEAN
    BY BasisTypes DEF Basis, Attempt
  <2> QED BY <2>1 DEF Basis, Turns, NeedsSession
<1> QED BY <1>1, Fewer

\* A step that changes attempt a's row only.
LEMMA OneRow ==
    ASSUME Basis, [Next]_vars, NEW a \in DOMAIN att, NEW new \in Attempt,
           att' = [att EXCEPT ![a] = new], creating' \subseteq creating,
           new.session = att[a].session,
           new.status \in InFlight \cup {"ready"} => att[a].status \in InFlight \cup {"ready"},
           new.status \in InFlight \cup {"succeeded"} => att[a].session,
           sched'.pc = "saved" => sched' = sched
    PROVE  Turns'
<1>1. \A b \in DOMAIN att : att[b].status \in InFlight \cup {"succeeded"} => att[b].session
  <2>1. \A b \in DOMAIN att : att[b].session \in BOOLEAN
    BY BasisTypes DEF Basis, Attempt
  <2> QED BY <2>1 DEF Basis, Turns, NeedsSession
<1>2. DOMAIN att' = DOMAIN att /\ att'[a] = new /\ \A b \in DOMAIN att \ {a} : att'[b] = att[b]
  BY BasisTypes DEF Basis
<1> QED BY <1>1, <1>2, Fewer

\* Nothing but a saved result brings the tick to "saved".
LEMMA SavedStays ==
    ASSUME Basis, [Next]_vars, ~SaveResult, sched'.pc = "saved"
    PROVE  sched' = sched
<1>1. ReadResult => sched'.pc = "saving"
  BY BasisTypes DEF ReadResult, Sched, Basis
<1> QED BY <1>1, TickGoes

\* Steps of the tick that move the run or the tick only, the requests that move the run,
\* and edits.
LEMMA QuietTurns ==
    ASSUME Basis, [Next]_vars, ~SaveResult,
           \/ TickStart \/ TickDisabled \/ FetchMessages \/ NoResult \/ ReadResult
           \/ OtherResult \/ ResultsDone \/ SavePrompt \/ TickDone
           \/ Start \/ Resume \/ Pause \/ Detach \/ Reattach \/ ManualInput \/ Edit
           \/ UNCHANGED vars
    PROVE  Turns'
<1>1. UNCHANGED <<att, creating>>
  BY DEF TickStart, TickDisabled, FetchMessages, NoResult, ReadResult, OtherResult,
     ResultsDone, SavePrompt, TickDone, Start, Resume, Pause, Detach, Reattach, ManualInput,
     Edit, vars
<1> QED BY <1>1, SavedStays, SameAttempts

\* A reply that is spoilt is one of an attempt that is live, and stays so.
LEMMA SpoiltTurns ==
    ASSUME Basis, [Next]_vars, ~SaveResult, NEW a \in DOMAIN att, ReplySpoilt(a)
    PROVE  Turns'
<1>1. IInv /\ att[a].status = "running" /\ UNCHANGED creating
  BY SpoiltFacts DEF Basis
<1>2. PICK new \in Attempt :
         /\ att' = [att EXCEPT ![a] = new]
         /\ new.status = "running" /\ new.session = att[a].session
  BY <1>1, SpoiltFacts
<1>3. att[a].session
  BY <1>1 DEF Basis, Turns, NeedsSession, InFlight
<1> QED BY <1>1, <1>2, <1>3, SavedStays, OneRow DEF InFlight

\* Steps that change the attempt the tick is at: the prompt goes out from an attempt that
\* has a session, and only that is accepted.
LEMMA AttemptTurns ==
    ASSUME Basis, [Next]_vars, ~SaveResult,
           DropDrifted \/ Claim \/ PrepareFails \/ Deliver \/ SendAnswered \/ SendFails
    PROVE  Turns'
<1>0. /\ att \in [DOMAIN att -> Attempt] /\ sched \in Sched
      /\ sched.todo \cup sched.ready \subseteq DOMAIN att
      /\ sched.pc \in AtAttempt => sched.cur \in DOMAIN att
  BY BasisTypes DEF Basis, IInv, TypeOK
<1>1. UNCHANGED creating
  BY DEF DropDrifted, Claim, PrepareFails, Deliver, SendAnswered, SendFails
<1>2. \A a \in DOMAIN att : att[a].session \/ att[a].status \notin InFlight \cup {"succeeded"}
  BY DEF Basis, Turns, NeedsSession
<1>3. ASSUME NEW a \in DOMAIN att, NEW status \in AttemptStatuses, att' = Moved(a, status),
             status \in InFlight \cup {"ready"} => att[a].status \in InFlight \cup {"ready"},
             status \in InFlight \cup {"succeeded"} => att[a].session
      PROVE  Turns'
  <2> DEFINE new == [att[a] EXCEPT !.status = status]
  <2>1. new \in Attempt /\ new.session = att[a].session /\ new.status = status
    BY <1>0 DEF Attempt
  <2>2. att' = [att EXCEPT ![a] = new]
    BY <1>3 DEF Moved
  <2> HIDE DEF new
  <2> QED BY <1>1, <1>3, <2>1, <2>2, SavedStays, OneRow
<1>4. CASE UNCHANGED att
  BY <1>1, <1>4, SavedStays, SameAttempts
<1>5. CASE DropDrifted \/ PrepareFails \/ SendFails
  <2>1. sched.cur \in DOMAIN att
    BY <1>0, <1>5 DEF DropDrifted, PrepareFails, SendFails, AtAttempt
  <2>2. UNCHANGED att \/ att' = Moved(sched.cur, "failed")
    BY <1>5 DEF DropDrifted, PrepareFails, SendFails, PauseForAttempt
  <2> QED BY <1>3, <1>4, <2>1, <2>2 DEF InFlight, AttemptStatuses
<1>6. CASE Claim
  <2>1. PICK a \in sched.ready :
          /\ att[a].status = "ready"
          /\ \/ att' = Moved(a, "dispatching") /\ Dispatchable(a)
             \/ att' = Moved(a, "failed")
    BY <1>6 DEF Claim
  <2>2. a \in DOMAIN att
    BY <1>0, <2>1
  <2> QED BY <1>3, <2>1, <2>2 DEF InFlight, AttemptStatuses, Dispatchable
<1>7. CASE Deliver
  <2> DEFINE a == sched.cur
             new == [att[a] EXCEPT !.sent = @ + 1]
  <2>1. a \in DOMAIN att
    BY <1>0, <1>7 DEF Deliver, AtAttempt
  <2>2. /\ new \in Attempt /\ new.session = att[a].session /\ new.status = att[a].status
        /\ att' = [att EXCEPT ![a] = new]
    BY <1>0, <1>7, <2>1 DEF Attempt, Deliver
  <2> HIDE DEF new, a
  <2> QED BY <1>1, <1>2, <2>1, <2>2, SavedStays, OneRow
<1>8. CASE SendAnswered
  <2>1. sched.cur \in DOMAIN att
    BY <1>0, <1>8 DEF SendAnswered, AtAttempt
  <2>2. \/ UNCHANGED att
        \/ att[sched.cur].status = "dispatching" /\ att' = Moved(sched.cur, "running")
    BY <1>8 DEF SendAnswered, Accepted
  <2> QED BY <1>2, <1>3, <1>4, <2>1, <2>2 DEF InFlight, AttemptStatuses
<1> QED BY <1>5, <1>6, <1>7, <1>8

\* The user's stop and a restart take attempts from what is live.
LEMMA AllTurns ==
    ASSUME Basis, [Next]_vars, ~SaveResult, Stop \/ Restart
    PROVE  Turns'
<1>0. att \in [DOMAIN att -> Attempt]
  BY BasisTypes DEF Basis
<1>1. creating' \subseteq creating
  BY DEF Stop, Restart
<1>2. \A a \in DOMAIN att : att[a].session \/ att[a].status \notin InFlight \cup {"succeeded"}
  BY DEF Basis, Turns, NeedsSession
<1>3. ASSUME NEW was, NEW is \in {"failed", "stopped"},
             att' = [a \in DOMAIN att |->
                       IF att[a].status \in was THEN [att[a] EXCEPT !.status = is] ELSE att[a]]
      PROVE  Turns'
  <2>1. ASSUME NEW a \in DOMAIN att
        PROVE  /\ att'[a].session = att[a].session
               /\ att'[a].status \in {is, att[a].status}
    BY <1>0, <1>3 DEF Attempt
  <2>2. DOMAIN att' = DOMAIN att
    BY <1>3
  <2>3. is \notin InFlight \cup {"ready", "succeeded"}
    BY DEF InFlight
  <2> QED BY <1>1, <1>2, <2>1, <2>2, <2>3, SavedStays, Fewer
<1>4. CASE Stop
  BY <1>3, <1>4 DEF Stop
<1>5. CASE Restart
  <2>1. att' = [a \in DOMAIN att |->
                  IF att[a].status \in {"dispatching"}
                  THEN [att[a] EXCEPT !.status = "failed"] ELSE att[a]]
    BY <1>5 DEF Restart, Interrupted
  <2> QED BY <1>3, <2>1
<1> QED BY <1>4, <1>5

\* The result of an attempt that still runs is saved: it was live, and is not any more.
LEMMA SaveTurns ==
    ASSUME Basis, [Next]_vars, SaveResult
    PROVE  Turns'
<1> DEFINE a == sched.cur
<1>0. /\ att \in [DOMAIN att -> Attempt] /\ sched \in Sched /\ a \in DOMAIN att
      /\ UNCHANGED creating /\ sched.pc = "saving"
  BY BasisTypes DEF Basis, IInv, TypeOK, SaveResult, AtAttempt
<1>1. CASE UNCHANGED att /\ Back("results")
  <2>1. sched'.pc = "results"
    BY <1>1 DEF Back, Idle
  <2> QED BY <1>0, <1>1, <2>1, SameAttempts
<1>2. CASE /\ att[a].status = "running" /\ Goto("saved")
           /\ att' = [att EXCEPT ![a].status = "succeeded", ![a].outcome = sched.result]
  <2>1. att[a].session /\ a \in Live
    BY <1>0, <1>2 DEF Basis, Turns, NeedsSession, Live, InFlight
  <2>2. /\ DOMAIN att' = DOMAIN att /\ \A b \in DOMAIN att \ {a} : att'[b] = att[b]
        /\ att'[a].status = "succeeded" /\ att'[a].session = att[a].session
    BY <1>0, <1>2 DEF Attempt
  <2>3. Live' = Live \ {a}
    BY <2>2 DEF Live, InFlight
  <2>4. sched'.pc = "saved" /\ sched'.cur = a
    BY <1>0, <1>2 DEF Goto, Sched
  <2>5. creating = {}
    <3>1. \A c \in creating : c.mine
      BY <2>1 DEF Basis, Turns, InTurn
    <3> QED BY <1>0, <3>1 DEF Basis, IInv, Waiting
  <2>6. InTurn'
    <3>1. Node(a) = "implement_ui" => Live = {a}
      BY <2>1 DEF Basis, Turns, InTurn
    <3>2. \A b \in Live' : b \in Live /\ Node(b) # "implement_ui"
      BY <2>1, <2>3 DEF Basis, Turns, InTurn
    <3> QED BY <1>0, <2>3, <2>4, <2>5, <3>1, <3>2 DEF Basis, Turns, InTurn
  <2>7. NeedsSession' /\ LiveIsNewest'
    BY <2>1, <2>2, <2>3 DEF Basis, Turns, NeedsSession, LiveIsNewest
  <2>8. Untouched'
    BY <1>0, <2>2, RunStarts DEF Basis, Turns, Untouched
  <2> QED BY <2>6, <2>7, <2>8, ResultFitsStep DEF Turns
<1> QED BY <1>1, <1>2 DEF SaveResult

\* An attempt is added.  With a session it is live, so nothing else of its node is, it
\* has the highest number, and it keeps the turns.
LEMMA OneMore ==
    ASSUME Basis, [Next]_vars, ~SaveResult, NEW a \in Ids, a \notin DOMAIN att,
           NEW new \in Attempt, Insert(a, new), new.status \in {"ready", "skipped"},
           creating' \subseteq creating, run'.status # "none",
           new.session =>
              /\ \A b \in Live : Node(b) # Node(a) /\ Node(b) # "implement_ui"
              /\ \A c \in creating' : Node(c.id) # Node(a) /\ c.mine
              /\ \A b \in DOMAIN att : Node(b) = Node(a) => No(b) <= No(a)
              /\ sched'.pc # "saved"
              /\ Node(a) = "implement_ui" => Live = {} /\ creating' = {}
    PROVE  Turns'
<1>1. /\ DOMAIN att' = DOMAIN att \cup {a} /\ att'[a] = new
      /\ \A b \in DOMAIN att : att'[b] = att[b]
  BY BasisTypes DEF Basis, Insert
<1>2. new.session \in BOOLEAN /\ No(a) \in Nat
  BY DEF Attempt, Ids, No
<1>3. Live' \subseteq Live \cup {a} /\ (~new.session => Live' \subseteq Live)
  BY <1>1 DEF Live
<1>4. sched'.pc = "saved" => sched'.cur = sched.cur /\ sched.pc = "saved"
  BY SavedStays
<1>5. InTurn'
  <2>1. CASE ~new.session
    <3>1. \A b \in Live' : b \in Live
      BY <1>3, <2>1
    <3>2. \A c \in creating' : c \in creating
      OBVIOUS
    <3> QED BY <1>4, <3>1, <3>2 DEF Basis, Turns, InTurn
  <2>2. CASE new.session
    <3>1. \A b \in Live' : b = a \/ (b \in Live /\ Node(b) # Node(a) /\ Node(b) # "implement_ui")
      BY <1>3, <2>2
    <3>2. \A b, c \in Live' : Node(b) = Node(c) => b = c
      BY <3>1 DEF Basis, Turns, InTurn
    <3>3. \A b \in Live' : Node(b) = "implement_ui" =>
             Live' = {b} /\ creating' = {} /\ sched'.pc # "saved"
      BY <2>2, <3>1
    <3>4. \A b \in Live', c \in creating' : Node(b) # Node(c.id) /\ c.mine
      BY <2>2, <3>1 DEF Basis, Turns, InTurn
    <3>5. \A c, d \in creating' : /\ Node(c.id) \in Reviewers
                                  /\ c # d => c.mine /\ Node(c.id) # Node(d.id)
      BY DEF Basis, Turns, InTurn
    <3> QED BY <2>2, <3>2, <3>3, <3>4, <3>5 DEF InTurn
  <2> QED BY <1>2, <2>1, <2>2
<1>6. NeedsSession'
  BY <1>1 DEF Basis, Turns, NeedsSession, InFlight
<1>7. LiveIsNewest'
  <2> SUFFICES ASSUME NEW b \in Live', NEW c \in DOMAIN att', att'[c].session,
                      Node(c) = Node(b)
               PROVE  No(c) <= No(b)
    BY DEF LiveIsNewest
  <2>1. CASE c = a
    <3>1. b = a
      BY <1>1, <1>3, <2>1
    <3> QED BY <1>2, <2>1, <3>1
  <2>2. CASE c # a /\ b = a
    <3>1. new.session
      BY <1>1, <2>2 DEF Live
    <3> QED BY <1>1, <2>2, <3>1
  <2>3. CASE c # a /\ b # a
    BY <1>1, <1>3, <2>3 DEF Basis, Turns, LiveIsNewest
  <2> QED BY <2>1, <2>2, <2>3
<1>8. Untouched'
  BY DEF Untouched
<1> QED BY <1>5, <1>6, <1>7, <1>8, ResultFitsStep DEF Turns

\* The first attempt, and those of a retry or a skip, which have no session.
LEMMA RequestTurns ==
    ASSUME Basis, [Next]_vars, ~SaveResult, Create \/ \E n \in Nodes : Retry(n) \/ Skip(n)
    PROVE  Turns'
<1>0. latest["implement_ui"] \in Nat /\ run \in Run
  BY DEF Basis, IInv, TypeOK, Nodes, Run
<1>1. CASE Create
  <2> DEFINE a == NextId("implement_ui")
             new == NewAttempt(TRUE, 0)
  <2>1. a \in Ids /\ a \notin DOMAIN att
    BY NextIdFacts, NextIdIsFree DEF Basis, Nodes
  <2>2. new \in Attempt /\ new.status = "ready"
    BY NewAttemptFacts
  <2>3. /\ DOMAIN att = {} /\ creating = {} /\ sched.pc # "saved"
    BY <1>1 DEF Create, Basis, Turns, Untouched
  <2>4. /\ Insert(a, new) /\ run'.status = "ready" /\ UNCHANGED <<creating, sched>>
    BY <1>0, <1>1 DEF Create, SetRun, Run
  <2>5. Live = {}
    BY <2>3 DEF Live
  <2> HIDE DEF a, new
  <2> QED BY <2>1, <2>2, <2>3, <2>4, <2>5, OneMore
<1>2. CASE \E n \in Nodes : Retry(n) \/ Skip(n)
  <2>1. PICK n \in Nodes : Retry(n) \/ Skip(n)
    BY <1>2
  <2> DEFINE a == NextId(n)
             new == NewAttempt(FALSE, latest["implement_ui"])
             skip == [new EXCEPT !.status = "skipped"]
  <2>2. a \in Ids /\ a \notin DOMAIN att
    BY NextIdFacts, NextIdIsFree DEF Basis
  <2>3. new \in Attempt /\ new.status = "ready" /\ new.session = FALSE
    BY <1>0, NewAttemptFacts DEF NewAttempt
  <2>4. skip \in Attempt /\ skip.status = "skipped" /\ skip.session = FALSE
    BY <2>3 DEF Attempt, AttemptStatuses
  <2>5. /\ Insert(a, new) \/ Insert(a, skip)
        /\ UNCHANGED <<run, creating>> /\ Active
    BY <2>1 DEF Retry, Skip
  <2> HIDE DEF a, new, skip
  <2>6. run'.status # "none"
    BY <2>5 DEF Active
  <2> QED BY <2>2, <2>3, <2>4, <2>5, <2>6, OneMore
<1> QED BY <1>1, <1>2

\* When the gate opens both reviews have succeeded, so none is live.
LEMMA OpenGate ==
    ASSUME Basis, sched.pc = "saved", GateOpen
    PROVE  Live = {} /\ creating = {}
<1> SUFFICES ASSUME NEW a \in Live PROVE FALSE
  BY DEF Basis, Turns, InTurn
<1>1. a \in DOMAIN att /\ Node(a) \in Reviewers
  BY BasisTypes DEF Live, Basis, Turns, InTurn, Nodes
<1> DEFINE b == LatestOf(Node(a))
<1>2. b \in DOMAIN att /\ att[b].status = "succeeded"
  BY <1>1 DEF GateOpen
<1>3. Node(b) = Node(a) /\ No(b) = latest[Node(a)]
  BY DEF LatestOf, Node, No
<1>4. att[b].session
  BY <1>2 DEF Basis, Turns, NeedsSession
<1>5. No(b) <= No(a) /\ No(a) <= latest[Node(a)] /\ No(a) \in Nat /\ latest[Node(a)] \in Nat
  BY <1>1, <1>2, <1>3, <1>4, BasisTypes DEF Basis, Turns, LiveIsNewest
<1>6. a = b
  <2>1. No(a) = No(b)
    BY <1>3, <1>5
  <2> QED BY <1>1, <1>2, <1>3, <2>1, BasisTypes DEF Basis
<1> QED BY <1>2, <1>6 DEF Live, InFlight

\* The next implement attempt is inserted when no other is live.
LEMMA GateTurns ==
    ASSUME Basis, [Next]_vars, ~SaveResult, AdvanceReviewGate
    PROVE  Turns'
<1>1. Back("results") /\ sched.pc = "saved" /\ UNCHANGED creating
  BY DEF AdvanceReviewGate
<1>2. sched'.pc = "results"
  BY <1>1 DEF Back, Idle
<1>3. CASE UNCHANGED att
  BY <1>1, <1>2, <1>3, SameAttempts
<1>4. CASE GateOpen /\ Insert(NextId("implement_ui"), NewAttempt(TRUE, latest["implement_ui"]))
  <2> DEFINE a == NextId("implement_ui")
             new == NewAttempt(TRUE, latest["implement_ui"])
  <2>1. a \in Ids /\ a \notin DOMAIN att
    BY NextIdFacts, NextIdIsFree DEF Basis, Nodes
  <2>2. new \in Attempt /\ new.status = "ready"
    BY NewAttemptFacts DEF Basis, IInv, TypeOK, Nodes
  <2>3. Live = {} /\ creating' = {}
    BY <1>1, <1>4, OpenGate
  <2>4. run'.status # "none"
    <3>1. sched.cur \in DOMAIN att
      BY <1>1 DEF Basis, IInv, TypeOK, AtAttempt
    <3> QED BY <3>1, RunStarts DEF Basis, Turns, Untouched
  <2>5. \A b \in DOMAIN att : Node(b) = Node(a) => No(b) <= No(a)
    <3>1. No(a) = latest[Node(a)] + 1
      BY NextIdFacts DEF Basis, Nodes
    <3>2. latest[Node(a)] \in Nat
      BY <2>1, BasisTypes DEF Basis, Ids, Node
    <3> QED BY <3>1, <3>2, BasisTypes DEF Basis
  <2> HIDE DEF a, new
  <2>6. Insert(a, new)
    BY <1>4 DEF a, new
  <2> QED BY <1>1, <1>2, <2>1, <2>2, <2>3, <2>4, <2>5, <2>6, OneMore
<1> QED BY <1>3, <1>4 DEF AdvanceReviewGate

\* Reviewers are activated by an implement attempt, when nothing is live.
LEMMA ActivateTurns ==
    ASSUME Basis, [Next]_vars, ~SaveResult, ActivateReviewers
    PROVE  Turns'
<1>1. /\ UNCHANGED <<att, run>> /\ sched.pc = "saved" /\ sched.result = "completed"
      /\ Back("activating")
      /\ creating' = creating \cup
          {[id |-> NextId(n), mine |-> TRUE, of |-> No(sched.cur)] : n \in Reviewers}
  BY DEF ActivateReviewers
<1>2. sched'.pc = "activating"
  BY <1>1 DEF Back, Idle
<1>3. Live = {} /\ creating = {}
  BY <1>1 DEF Basis, Turns, ResultFits, InTurn
<1>4. Live' = {}
  BY <1>1, <1>3 DEF Live
<1>5. \A c \in creating' : \E n \in Reviewers :
        c = [id |-> NextId(n), mine |-> TRUE, of |-> No(sched.cur)]
  BY <1>1, <1>3
<1>6. \A n \in Reviewers : Node(NextId(n)) = n
  BY DEF NextId, Node
<1>7. InTurn'
  <2>1. \A c, d \in creating' : /\ Node(c.id) \in Reviewers
                                /\ c # d => c.mine /\ Node(c.id) # Node(d.id)
    <3> SUFFICES ASSUME NEW c \in creating', NEW d \in creating'
                 PROVE  /\ Node(c.id) \in Reviewers
                        /\ c # d => c.mine /\ Node(c.id) # Node(d.id)
      OBVIOUS
    <3>1. PICK m \in Reviewers : c = [id |-> NextId(m), mine |-> TRUE, of |-> No(sched.cur)]
      BY <1>5
    <3>2. PICK n \in Reviewers : d = [id |-> NextId(n), mine |-> TRUE, of |-> No(sched.cur)]
      BY <1>5
    <3>3. c.id = NextId(m) /\ c.mine /\ d.id = NextId(n)
      BY <3>1, <3>2
    <3>4. Node(c.id) = m /\ Node(d.id) = n
      BY <1>6, <3>3
    <3>5. m = n => c = d
      BY <3>1, <3>2
    <3> QED BY <3>3, <3>4, <3>5
  <2> QED BY <1>2, <1>4, <2>1 DEF InTurn
<1>8. NeedsSession' /\ LiveIsNewest'
  BY <1>1, <1>4 DEF Basis, Turns, NeedsSession, LiveIsNewest
<1>9. Untouched'
  <2>1. sched.cur \in DOMAIN att
    BY <1>1 DEF Basis, IInv, TypeOK, AtAttempt
  <2> QED BY <1>1, <2>1 DEF Basis, Turns, Untouched
<1> QED BY <1>7, <1>8, <1>9, ResultFitsStep DEF Turns

\* What a failed activation leaves behind is one creation at most, with nothing live.
LEMMA AbandonTurns ==
    ASSUME Basis, [Next]_vars, NEW c \in creating, Abandon(c), UNCHANGED att
    PROVE  Turns'
<1>1. /\ creating' = {[d EXCEPT !.mine = FALSE] : d \in creating \ {c}}
      /\ Back("results")
  BY DEF Abandon
<1>2. sched'.pc = "results"
  BY <1>1 DEF Back, Idle
<1>3. Live' = Live
  BY DEF Live
<1>4. ASSUME NEW e \in creating'
      PROVE  \E d \in creating \ {c} : e.id = d.id /\ e = [d EXCEPT !.mine = FALSE]
  <2>1. PICK d \in creating \ {c} : e = [d EXCEPT !.mine = FALSE]
    BY <1>1
  <2>2. d \in Creation
    BY BasisTypes DEF Basis
  <2> QED BY <2>1, <2>2 DEF Creation
<1>5. \A d, e \in creating \ {c} : d = e
  BY DEF Basis, Turns, InTurn, Reviewers
<1>6. InTurn'
  <2>1. ASSUME NEW a \in Live, creating' # {} PROVE FALSE
    <3>1. PICK d \in creating \ {c} : TRUE
      BY <1>1, <2>1
    <3>2. Node(a) \in Nodes
      BY BasisTypes DEF Live, Basis
    <3> QED BY <2>1, <3>1, <3>2 DEF Basis, Turns, InTurn, Reviewers, Nodes
  <2>2. \A d, e \in creating' : /\ Node(d.id) \in Reviewers
                                /\ d # e => d.mine /\ Node(d.id) # Node(e.id)
    BY <1>4, <1>5 DEF Basis, Turns, InTurn
  <2> QED BY <1>2, <1>3, <2>1, <2>2 DEF Basis, Turns, InTurn
<1>7. NeedsSession' /\ LiveIsNewest'
  BY <1>3 DEF Basis, Turns, NeedsSession, LiveIsNewest
<1>8. Untouched'
  BY RunStarts DEF Basis, Turns, Untouched
<1> QED BY <1>6, <1>7, <1>8, ResultFitsStep DEF Turns

\* A session that is created, late or not, becomes the one live attempt of its node.
LEMMA CreationTurns ==
    ASSUME Basis, [Next]_vars, ~SaveResult, NEW c \in creating,
           SessionCreated(c) \/ SessionFailed(c)
    PROVE  Turns'
<1>0. AtAwait
  BY DEF SessionCreated, SessionFailed
<1>1. CASE Abandon(c) /\ UNCHANGED att
  BY <1>1, AbandonTurns
<1>2. CASE UNCHANGED att /\ creating' = creating \ {c}
  BY <1>2, SavedStays, SameAttempts
<1>3. CASE /\ c.id \notin DOMAIN att /\ Insert(c.id, NewAttempt(TRUE, c.of))
           /\ creating' = creating \ {c}
  <2> DEFINE new == NewAttempt(TRUE, c.of)
  <2>1. c.id \in Ids /\ Node(c.id) \in Reviewers
    BY BasisTypes DEF Basis, Turns, InTurn
  <2>2. new \in Attempt /\ new.status = "ready"
    BY BasisTypes, NewAttemptFacts DEF Basis, Creation
  <2>3. /\ \A b \in Live : Node(b) # Node(c.id) /\ Node(b) # "implement_ui"
        /\ \A d \in creating' : Node(d.id) # Node(c.id) /\ d.mine
    BY <1>3 DEF Basis, Turns, InTurn
  <2>4. \A b \in DOMAIN att : Node(b) = Node(c.id) => No(b) <= No(c.id)
    <3>1. No(c.id) > latest[Node(c.id)]
      BY <1>3, <2>1, BasisTypes DEF Basis, IInv, Numbered
    <3> QED BY <2>1, <3>1, BasisTypes DEF Basis
  <2>5. sched'.pc # "saved" /\ run'.status # "none"
    BY <1>0, SavedStays, RunStarts DEF AtAwait, Basis, Turns, Untouched
  <2>6. Node(c.id) # "implement_ui"
    BY <2>1 DEF Reviewers
  <2> HIDE DEF new
  <2>7. Insert(c.id, new)
    BY <1>3 DEF new
  <2> QED BY <1>3, <2>1, <2>2, <2>3, <2>4, <2>5, <2>6, <2>7, OneMore
<1> QED BY <1>1, <1>2, <1>3 DEF SessionCreated, SessionFailed

\* Every step keeps the turns.
LEMMA TurnsStep ==
    ASSUME Basis, [Next]_vars
    PROVE  Turns'
<1>1. CASE SaveResult
  BY <1>1, SaveTurns
<1>2. CASE ~SaveResult /\ Creations
  BY <1>2, CreationTurns DEF Creations
<1>3. CASE ~SaveResult /\ ~Creations
  BY <1>3, QuietTurns, SpoiltTurns, AttemptTurns, AllTurns, RequestTurns, GateTurns,
     ActivateTurns
  DEF Next, TickStep, Requests, Environment
<1> QED BY <1>1, <1>2, <1>3

\* W2: whatever is retried, skipped, restarted or comes late, no two agents work on the
\* same node of a run.
THEOREM OneAtATime == Spec => []OneInFlightPerNode
<1>1. Init => Turns
  <2> SUFFICES ASSUME Init PROVE Turns
    OBVIOUS
  <2>1. DOMAIN att = {} /\ creating = {} /\ sched.pc = "idle"
    BY DEF Init, Idle
  <2>2. Live = {}
    BY <2>1 DEF Live
  <2> QED BY <2>1, <2>2 DEF Turns, InTurn, NeedsSession, LiveIsNewest, Untouched, ResultFits
<1>2. IInv /\ IInv' /\ Turns /\ [Next]_vars => Turns'
  BY TurnsStep DEF Basis
<1>3. IInv /\ Turns => OneInFlightPerNode
  <2> SUFFICES ASSUME IInv, Turns, NEW a \in DOMAIN att, NEW b \in DOMAIN att,
                      Node(a) = Node(b), {att[a].status, att[b].status} \subseteq InFlight
               PROVE  a = b
    BY DEF OneInFlightPerNode
  <2>1. a \in Live /\ b \in Live
    BY DEF Turns, NeedsSession, Live
  <2> QED BY <2>1 DEF Turns, InTurn
<1> QED BY <1>1, <1>2, <1>3, IInvAlways, PTL DEF Spec
=============================================================================
