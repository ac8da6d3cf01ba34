------------------------ MODULE WorkflowTableProofs ------------------------
(***************************************************************************)
(* WorkflowRuns implements WorkflowTable: whatever the tick, the creations, *)
(* a restart and the requests do to the rows is a step of the table, or     *)
(* leaves the statuses as they are.                                         *)
(***************************************************************************)
EXTENDS WorkflowRunsProofs

\* The table's view of the attempts.
Statuses == [a \in DOMAIN att |-> att[a].status]

-----------------------------------------------------------------------------
(* What a step shows of the attempts                                       *)

\* The statuses change where the rows do.
LEMMA SameStatuses == UNCHANGED att => Statuses' = Statuses
  BY DEF Statuses

\* One attempt goes from a status to another.
LEMMA OneGoes ==
    ASSUME NEW a \in DOMAIN att, NEW new, att' = [att EXCEPT ![a] = new]
    PROVE  Table!Goes(a, att[a].status, new.status)
<1>1. DOMAIN att' = DOMAIN att
  OBVIOUS
<1>2. Statuses' = [Statuses EXCEPT ![a] = new.status]
  BY <1>1 DEF Statuses
<1>3. QED
  BY <1>2 DEF Table!Goes, Statuses

\* The numbers of a node's attempts.
LEMMA NumbersFacts ==
    ASSUME IInv, NEW n \in Nodes
    PROVE  /\ Table!Numbers(n) = 1 .. latest[n]
           /\ latest[n] \in Nat
<1>t. /\ DOMAIN att \subseteq Ids /\ latest[n] \in Nat
      /\ \A a \in DOMAIN att : No(a) <= latest[Node(a)]
      /\ \A a \in Ids : No(a) <= latest[Node(a)] => a \in DOMAIN att
  BY DEF IInv, TypeOK, Numbered
<1>1. \A k \in Table!Numbers(n) : k \in 1 .. latest[n]
  <2> SUFFICES ASSUME NEW a \in DOMAIN att, a[1] = n PROVE a[2] \in 1 .. latest[n]
    BY DEF Table!Numbers
  <2>1. a \in Nodes \X (Nat \ {0}) /\ a[2] <= latest[n]
    BY <1>t DEF Ids, No, Node
  <2>2. QED
    BY <1>t, <2>1
<1>2. \A k \in 1 .. latest[n] : k \in Table!Numbers(n)
  <2> SUFFICES ASSUME NEW k \in 1 .. latest[n] PROVE k \in Table!Numbers(n)
    OBVIOUS
  <2>1. <<n, k>> \in Ids /\ No(<<n, k>>) = k /\ Node(<<n, k>>) = n
    BY <1>t DEF Ids, No, Node
  <2>2. <<n, k>> \in DOMAIN att
    BY <1>t, <2>1
  <2>3. QED
    BY <2>2 DEF Table!Numbers
<1>3. Table!Numbers(n) = 1 .. latest[n]
  BY <1>1, <1>2
<1>4. QED
  BY <1>t, <1>3

\* An INSERT gives the node its next number.
LEMMA InsertAdds ==
    ASSUME IInv, NEW n \in Nodes, NEW new, Insert(NextId(n), new)
    PROVE  Table!Adds(n, new.status)
<1> DEFINE k == latest[n] + 1
<1>1. k \in {1} \cup {i + 1 : i \in Table!Numbers(n)}
  <2>1. CASE latest[n] = 0
    BY <2>1
  <2>2. CASE latest[n] # 0
    <3>1. latest[n] \in Table!Numbers(n)
      BY <2>2, NumbersFacts
    <3>2. QED
      BY <3>1
  <2>3. QED
    BY <2>1, <2>2
<1>2. \A i \in Table!Numbers(n) : i < k
  BY NumbersFacts
<1>3. att' = [b \in DOMAIN att \cup {<<n, k>>} |-> IF b = <<n, k>> THEN new ELSE att[b]]
  BY DEF Insert, NextId
<1>4. Statuses' = [a \in DOMAIN Statuses \cup {<<n, k>>} |->
                      IF a = <<n, k>> THEN new.status ELSE Statuses[a]]
  BY <1>3 DEF Statuses
<1> HIDE DEF k
<1>5. QED
  BY <1>1, <1>2, <1>4 DEF Table!Adds, Statuses

\* The gate looks at the newest attempt of a reviewer.
LEMMA NewestIsLatest ==
    ASSUME IInv, NEW n \in Nodes, LatestOf(n) \in DOMAIN att
    PROVE  Table!Newest(n) = LatestOf(n) /\ Table!Numbers(n) # {}
<1> DEFINE P(a) == a[1] = n /\ \A k \in Table!Numbers(n) : k <= a[2]
<1>t. DOMAIN att \subseteq Ids /\ latest[n] \in Nat /\ \A a \in DOMAIN att : No(a) <= latest[Node(a)]
  BY DEF IInv, TypeOK
<1>1. LatestOf(n) = <<n, latest[n]>> /\ latest[n] \in Nat \ {0}
  BY <1>t DEF LatestOf, Ids
<1>2. Table!Numbers(n) = 1 .. latest[n]
  BY NumbersFacts
<1>3. P(LatestOf(n))
  BY <1>1, <1>2
<1>4. \A a \in DOMAIN att : P(a) => a = LatestOf(n)
  <2> SUFFICES ASSUME NEW a \in DOMAIN att, P(a) PROVE a = LatestOf(n)
    OBVIOUS
  <2>1. a \in Nodes \X (Nat \ {0}) /\ a[1] = n /\ a[2] <= latest[n]
    BY <1>t DEF Ids, No, Node
  <2>2. latest[n] <= a[2]
    BY <1>1, <1>2
  <2>3. QED
    BY <1>1, <2>1, <2>2
<1>5. Table!Newest(n) = CHOOSE a \in DOMAIN att : P(a)
  BY DEF Table!Newest
<1> HIDE DEF P
<1>6. QED
  BY <1>1, <1>2, <1>3, <1>4, <1>5

-----------------------------------------------------------------------------
(* Steps of the table                                                      *)

\* A step of the table, or none.
TableStep == Table!Next \/ UNCHANGED <<run.status, Statuses>>

\* Neither the run's status nor an attempt's changes.
LEMMA Stutters == run'.status = run.status /\ Statuses' = Statuses => TableStep
  BY DEF TableStep

\* The run's part of a pause of the scheduler.
LEMMA SafetyPauseFacts ==
    ASSUME IInv, SafetyPause
    PROVE  run'.status = IF run.status \in {"running", "pause_requested"}
                         THEN "paused" ELSE run.status
<1>1. run \in Run
  BY DEF IInv, TypeOK, Run
<1>2. QED
  BY <1>1 DEF SafetyPause, SetRun, Run

\* The scheduler pauses the run and leaves the attempts alone.
LEMMA PausesOnly == IInv /\ UNCHANGED att /\ SafetyPause => TableStep
<1> SUFFICES ASSUME IInv, UNCHANGED att, SafetyPause PROVE TableStep
  OBVIOUS
<1>1. Statuses' = Statuses
  BY SameStatuses
<1>2. CASE run.status \in {"running", "pause_requested"}
  <2>1. Table!SafetyPause
    BY <1>1, <1>2, SafetyPauseFacts DEF Table!SafetyPause, Statuses
  <2>2. QED
    BY <2>1 DEF TableStep, Table!Next
<1>3. CASE run.status \notin {"running", "pause_requested"}
  BY <1>1, <1>3, SafetyPauseFacts, Stutters
<1>4. QED
  BY <1>2, <1>3

\* A requested pause takes effect, or does not.
LEMMA FinalizedSettles ==
    ASSUME IInv, NEW r \in Run, r.status = run.status, NEW attempts,
           run' = Finalized(r, attempts),
           (\A a \in DOMAIN attempts : attempts[a].status \notin InFlight)
              => \A a \in DOMAIN att' : att'[a].status \notin InFlight
    PROVE  Table!Settles
<1>1. CASE run' = r
  BY <1>1 DEF Table!Settles
<1>2. CASE /\ r.status = "pause_requested"
           /\ \A a \in DOMAIN attempts : attempts[a].status \notin InFlight
           /\ run' = [r EXCEPT !.status = "paused"]
  <2>1. run'.status = "paused" /\ run.status = "pause_requested"
    BY <1>2 DEF Run
  <2>2. \A a \in DOMAIN att' : att'[a].status \notin Table!InFlight
    BY <1>2 DEF InFlight, Table!InFlight
  <2>3. QED
    BY <2>1, <2>2 DEF Table!Settles, Table!Quiet
<1>3. QED
  BY <1>1, <1>2 DEF Finalized

\* A step that only settles.
LEMMA SettlesOnly ==
    ASSUME IInv, UNCHANGED att, NEW r \in Run, r.status = run.status,
           run' = Finalized(r, att)
    PROVE  TableStep
<1>1. Table!Settles
  BY FinalizedSettles
<1>2. Statuses' = Statuses
  BY SameStatuses
<1>3. Table!Settle
  BY <1>1, <1>2 DEF Table!Settle, Statuses
<1>4. QED
  BY <1>3 DEF TableStep, Table!Next

\* An attempt that the tick gives up fails while it is being dispatched, not later.
LEMMA PauseForAttemptIsStep ==
    ASSUME IInv, NEW a \in DOMAIN att, PauseForAttempt(a)
    PROVE  TableStep
<1>1. CASE att[a].status = "dispatching"
  <2> DEFINE new == [att[a] EXCEPT !.status = "failed"]
  <2>1. att' = [att EXCEPT ![a] = new] /\ SafetyPause
    BY <1>1 DEF PauseForAttempt, Moved
  <2>2. att[a] \in Attempt
    BY DEF IInv, TypeOK
  <2>3. new.status = "failed"
    BY <2>2 DEF Attempt
  <2> HIDE DEF new
  <2>4. Table!Goes(a, "dispatching", "failed")
    BY <1>1, <2>1, <2>3, OneGoes
  <2>5. Table!GiveUp(a)
    BY <2>1, <2>4, SafetyPauseFacts DEF Table!GiveUp, Table!PausesIfLive
  <2>6. a \in DOMAIN Statuses
    BY DEF Statuses
  <2>7. QED
    BY <2>5, <2>6 DEF TableStep, Table!Next, Statuses
<1>2. CASE att[a].status # "dispatching"
  BY <1>2, PausesOnly DEF PauseForAttempt
<1>3. QED
  BY <1>1, <1>2

\* Steps of the tick that show nothing, settle or give an attempt up.
LEMMA PlainTickSteps ==
    IInv /\ (TickStart \/ TickDisabled \/ FetchMessages \/ NoResult \/ ReadResult
             \/ DropDrifted \/ OtherResult \/ ActivateReviewers \/ ResultsDone
             \/ PrepareFails \/ SavePrompt \/ SendFails \/ TickDone) => TableStep
<1> SUFFICES ASSUME IInv, TickStart \/ TickDisabled \/ FetchMessages \/ NoResult
                          \/ ReadResult \/ DropDrifted \/ OtherResult \/ ActivateReviewers
                          \/ ResultsDone \/ PrepareFails \/ SavePrompt \/ SendFails
                          \/ TickDone
             PROVE  TableStep
  OBVIOUS
<1>t. run \in Run
  BY DEF IInv, TypeOK, Run
<1>1. CASE UNCHANGED <<run, att>>
  BY <1>1, SameStatuses, Stutters
<1>2. CASE TickDisabled
  <2>1. Statuses' = Statuses
    BY <1>2, SameStatuses DEF TickDisabled
  <2>2. Table!SafetyPause
    BY <1>t, <1>2, <2>1 DEF TickDisabled, SetRun, Run, Table!SafetyPause, Statuses
  <2>3. QED
    BY <2>2 DEF TableStep, Table!Next
<1>3. CASE OtherResult \/ ResultsDone
  BY <1>t, <1>3, SettlesOnly DEF OtherResult, ResultsDone
<1>4. CASE DropDrifted \/ PrepareFails \/ SendFails
  <2>1. sched.cur \in DOMAIN att /\ PauseForAttempt(sched.cur)
    BY <1>4 DEF DropDrifted, PrepareFails, SendFails, IInv, TypeOK, AtAttempt
  <2>2. QED
    BY <2>1, PauseForAttemptIsStep
<1>5. QED
  BY <1>1, <1>2, <1>3, <1>4
  DEF TickStart, FetchMessages, NoResult, ReadResult, ActivateReviewers, SavePrompt, TickDone

\* A result finishes an attempt that runs.
LEMMA SaveIsStep == IInv /\ SaveResult => TableStep
<1> SUFFICES ASSUME IInv, SaveResult PROVE TableStep
  OBVIOUS
<1>c. PICK a : a = sched.cur
  OBVIOUS
<1> DEFINE new == [att[a] EXCEPT !.status = "succeeded", !.outcome = sched.result]
<1>1. UNCHANGED run /\ a \in DOMAIN att /\ att[a] \in Attempt
  BY <1>c DEF SaveResult, IInv, TypeOK, AtAttempt
<1>2. CASE att[a].status = "running"
  <2>1. att' = [att EXCEPT ![a] = new]
    BY <1>c, <1>2 DEF SaveResult
  <2>2. new.status = "succeeded"
    BY <1>1 DEF Attempt
  <2> HIDE DEF new
  <2>3. Table!Finish(a)
    BY <1>1, <1>2, <2>1, <2>2, OneGoes DEF Table!Finish
  <2>4. a \in DOMAIN Statuses
    BY <1>1 DEF Statuses
  <2>5. QED
    BY <2>3, <2>4 DEF TableStep, Table!Next, Statuses
<1>3. CASE att[a].status # "running"
  BY <1>c, <1>1, <1>3, SameStatuses, Stutters DEF SaveResult
<1>4. QED
  BY <1>2, <1>3

\* Only a running run's attempt is dispatched; one that is refused fails.
LEMMA ClaimIsStep == IInv /\ Claim => TableStep
<1> SUFFICES ASSUME IInv, Claim PROVE TableStep
  OBVIOUS
<1>1. PICK a \in sched.ready :
         /\ att[a].status = "ready"
         /\ \/ Dispatchable(a) /\ att' = Moved(a, "dispatching") /\ run' = run
            \/ att' = Moved(a, "failed") /\ SafetyPause
  BY DEF Claim
<1>2. a \in DOMAIN att /\ att[a] \in Attempt /\ a \in DOMAIN Statuses
  BY DEF IInv, TypeOK, Statuses
<1>3. ASSUME NEW s, att' = Moved(a, s) PROVE Table!Goes(a, "ready", s)
  <2> DEFINE new == [att[a] EXCEPT !.status = s]
  <2>1. att' = [att EXCEPT ![a] = new] /\ new.status = s
    BY <1>2, <1>3 DEF Moved, Attempt
  <2> HIDE DEF new
  <2>2. QED
    BY <1>1, <1>2, <2>1, OneGoes
<1>4. CASE Dispatchable(a) /\ att' = Moved(a, "dispatching") /\ run' = run
  <2>1. Table!Dispatch(a)
    BY <1>3, <1>4 DEF Table!Dispatch, Dispatchable
  <2>2. QED
    BY <1>2, <2>1 DEF TableStep, Table!Next, Statuses
<1>5. CASE att' = Moved(a, "failed") /\ SafetyPause
  <2>1. Table!Refuse(a)
    BY <1>3, <1>5, SafetyPauseFacts DEF Table!Refuse, Table!PausesIfLive
  <2>2. QED
    BY <1>2, <2>1 DEF TableStep, Table!Next, Statuses
<1>6. QED
  BY <1>1, <1>4, <1>5

\* The POST and its answer.
LEMMA SendIsStep == IInv /\ (Deliver \/ SendAnswered) => TableStep
<1> SUFFICES ASSUME IInv, Deliver \/ SendAnswered PROVE TableStep
  OBVIOUS
<1>c. PICK a : a = sched.cur
  OBVIOUS
<1>1. UNCHANGED run /\ a \in DOMAIN att /\ att[a] \in Attempt
  BY <1>c DEF Deliver, SendAnswered, IInv, TypeOK, AtAttempt
<1>2. CASE Deliver
  <2> DEFINE new == [att[a] EXCEPT !.sent = @ + 1]
  <2>1. att' = [att EXCEPT ![a] = new]
    BY <1>c, <1>2 DEF Deliver
  <2>2. new.status = att[a].status
    BY <1>1 DEF Attempt
  <2> HIDE DEF new
  <2>3. Statuses' = Statuses
    BY <1>1, <2>1, <2>2 DEF Statuses
  <2>4. QED
    BY <1>1, <2>3, Stutters
<1>3. CASE SendAnswered /\ att[a].status = "dispatching"
  <2> DEFINE new == [att[a] EXCEPT !.status = "running"]
  <2>1. att' = [att EXCEPT ![a] = new] /\ new.status = "running"
    BY <1>c, <1>1, <1>3 DEF SendAnswered, Accepted, Moved, Attempt
  <2> HIDE DEF new
  <2>2. Table!Accept(a)
    BY <1>1, <1>3, <2>1, OneGoes DEF Table!Accept
  <2>3. a \in DOMAIN Statuses
    BY <1>1 DEF Statuses
  <2>4. QED
    BY <2>2, <2>3 DEF TableStep, Table!Next, Statuses
<1>4. CASE SendAnswered /\ att[a].status # "dispatching"
  BY <1>c, <1>1, <1>4, SameStatuses, Stutters DEF SendAnswered, Accepted
<1>5. QED
  BY <1>2, <1>3, <1>4

\* A run completes when the newest review of each reviewer has succeeded.
LEMMA GateIsStep == IInv /\ AdvanceReviewGate => TableStep
<1> SUFFICES ASSUME IInv, AdvanceReviewGate PROVE TableStep
  OBVIOUS
<1>t. run \in Run /\ latest["implement_ui"] \in Nat /\ "implement_ui" \in Nodes
  BY DEF IInv, TypeOK, Run, Nodes
<1> DEFINE asked == [run EXCEPT !.status = "paused", !.reason = "safety"]
           done == [run EXCEPT !.status = "completed"]
           next == [run EXCEPT !.cycle = @ + 1]
<1>1. CASE UNCHANGED att /\ run' = Finalized(run, att)
  BY <1>t, <1>1, SettlesOnly
<1>2. CASE UNCHANGED att /\ run' = Finalized(WhileRunning(asked), att)
  <2>1. CASE run.status = "running"
    <3>1. run'.status = "paused" /\ Statuses' = Statuses
      BY <1>t, <1>2, <2>1, SameStatuses DEF WhileRunning, Finalized, Run
    <3>2. Table!SafetyPause
      BY <2>1, <3>1 DEF Table!SafetyPause, Statuses
    <3>3. QED
      BY <3>2 DEF TableStep, Table!Next
  <2>2. CASE run.status # "running"
    BY <1>1, <1>2, <2>2 DEF WhileRunning
  <2>3. QED
    BY <2>1, <2>2
<1>3. CASE UNCHANGED att /\ GateOpen /\ run' = Finalized(WhileRunning(done), att)
  <2>1. CASE run.status = "running"
    <3>1. run'.status = "completed" /\ Statuses' = Statuses
      BY <1>t, <1>3, <2>1, SameStatuses DEF WhileRunning, Finalized, Run
    <3>2. \A n \in Reviewers : /\ Table!Numbers(n) # {}
                               /\ Statuses[Table!Newest(n)] = "succeeded"
      BY <1>3, NewestIsLatest DEF GateOpen, Statuses, Nodes
    <3>3. Table!Complete
      BY <2>1, <3>1, <3>2 DEF Table!Complete, Statuses
    <3>4. QED
      BY <3>3 DEF TableStep, Table!Next
  <2>2. CASE run.status # "running"
    BY <1>1, <1>3, <2>2 DEF WhileRunning
  <2>3. QED
    BY <2>1, <2>2
<1>4. CASE /\ Insert(NextId("implement_ui"), NewAttempt(TRUE, latest["implement_ui"]))
           /\ run' = Finalized(WhileRunning(next), att)
  <2> DEFINE new == NewAttempt(TRUE, latest["implement_ui"])
  <2>1. new.status = "ready"
    BY <1>t, NewAttemptFacts
  <2>2. WhileRunning(next) \in Run /\ WhileRunning(next).status = run.status
    BY <1>t DEF WhileRunning, Run
  <2> HIDE DEF next, new
  <2>3. Table!Adds("implement_ui", "ready")
    BY <1>t, <1>4, <2>1, InsertAdds DEF new
  <2>4. (\A a \in DOMAIN att : att[a].status \notin InFlight)
           => \A a \in DOMAIN att' : att'[a].status \notin InFlight
    BY <1>4, <2>1 DEF Insert, InFlight, new
  <2>5. Table!Settles
    BY <1>4, <2>2, <2>4, FinalizedSettles
  <2>6. QED
    BY <1>t, <2>3, <2>5 DEF TableStep, Table!Next, Table!Add
<1>5. QED
  BY <1>1, <1>2, <1>3, <1>4 DEF AdvanceReviewGate

\* The creations, one of which may take the tick with it.
LEMMA CreationIsStep == IInv /\ Creations => TableStep
<1> SUFFICES ASSUME IInv, NEW c \in creating, SessionCreated(c) \/ SessionFailed(c)
             PROVE  TableStep
  BY DEF Creations
<1>t. run \in Run /\ c \in Creation
  BY DEF IInv, TypeOK, Run
<1>1. CASE UNCHANGED att /\ (SafetyPause \/ UNCHANGED run)
  BY <1>1, PausesOnly, SameStatuses, Stutters
<1>2. CASE SessionFailed(c)
  BY <1>1, <1>2 DEF SessionFailed, Abandon
<1>3. CASE SessionCreated(c) /\ c.id \in DOMAIN att
  BY <1>1, <1>3 DEF SessionCreated, Abandon
<1>4. CASE SessionCreated(c) /\ c.id \notin DOMAIN att
  <2> DEFINE a == c.id
             new == NewAttempt(TRUE, c.of)
             attempts == [b \in DOMAIN att \cup {a} |-> IF b = a THEN new ELSE att[b]]
  <2>1. Insert(a, new) /\ (UNCHANGED run \/ run' = Finalized(run, attempts))
    BY <1>4 DEF SessionCreated
  <2>2. att' = attempts
    BY <2>1 DEF Insert
  <2>3. new.status = "ready" /\ a \in Ids
    BY <1>t, NewAttemptFacts DEF Creation
  <2> HIDE DEF new, attempts
  <2>4. Node(a) \in Nodes /\ a = NextId(Node(a))
    <3>1. No(a) <= latest[Node(a)] + 1 /\ ~(No(a) <= latest[Node(a)])
      BY <1>4, <2>3 DEF IInv, Numbered
    <3>2. No(a) \in Nat /\ Node(a) \in Nodes /\ latest[Node(a)] \in Nat
          /\ a = <<Node(a), No(a)>>
      BY <2>3 DEF IInv, TypeOK, Ids, No, Node
    <3>3. QED
      BY <3>1, <3>2 DEF NextId
  <2>5. Table!Adds(Node(a), "ready")
    BY <2>1, <2>3, <2>4, InsertAdds
  <2>6. Table!Settles
    <3>1. CASE UNCHANGED run
      BY <3>1 DEF Table!Settles
    <3>2. CASE run' = Finalized(run, attempts)
      BY <1>t, <2>2, <3>2, FinalizedSettles
    <3>3. QED
      BY <2>1, <3>1, <3>2
  <2>7. QED
    BY <2>4, <2>5, <2>6 DEF TableStep, Table!Next, Table!Add
<1>5. QED
  BY <1>2, <1>3, <1>4

\* The requests are steps of the table of the same name.
LEMMA RequestIsStep == IInv /\ Requests => TableStep
<1> SUFFICES ASSUME IInv, Requests PROVE TableStep
  OBVIOUS
<1>t. run \in Run /\ "implement_ui" \in Nodes /\ latest["implement_ui"] \in Nat
      /\ att \in [DOMAIN att -> Attempt]
  BY DEF IInv, TypeOK, Run, Nodes
<1>s. ASSUME NEW status, NEW reason, SetRun(status, reason) PROVE run'.status = status
  BY <1>t, <1>s DEF SetRun, Run
<1>1. CASE Create
  <2>1. Table!Adds("implement_ui", "ready")
    <3> DEFINE new == NewAttempt(TRUE, 0)
    <3>1. new.status = "ready" /\ Insert(NextId("implement_ui"), new)
      BY <1>1, NewAttemptFacts DEF Create
    <3> HIDE DEF new
    <3>2. QED
      BY <1>t, <3>1, InsertAdds
  <2>2. Table!Create
    BY <1>1, <1>s, <2>1 DEF Create, Table!Create
  <2>3. QED
    BY <2>2 DEF TableStep, Table!Next
<1>2. CASE Start \/ Resume \/ Detach \/ Reattach \/ ManualInput
  <2>1. Statuses' = Statuses
    BY <1>2, SameStatuses DEF Start, Resume, Detach, Reattach, ManualInput
  <2>2. (\A a \in DOMAIN att : att[a].status \notin InFlight) => Table!Quiet(Statuses)
    BY DEF Table!Quiet, Table!InFlight, InFlight, Statuses
  <2>3. Table!Start \/ Table!Resume \/ Table!Detach \/ Table!Reattach \/ Table!SafetyPause
    BY <1>2, <1>s, <2>1, <2>2
    DEF Start, Resume, Detach, Reattach, ManualInput, SomeInFlight, Statuses,
        Table!Start, Table!Resume, Table!Detach, Table!Reattach, Table!SafetyPause
  <2>4. QED
    BY <2>3 DEF TableStep, Table!Next
<1>3. CASE Pause
  <2>1. Statuses' = Statuses
    BY <1>3, SameStatuses DEF Pause
  <2>2. Table!Quiet(Statuses) <=> ~SomeInFlight
    BY DEF Table!Quiet, Table!InFlight, InFlight, Statuses, SomeInFlight
  <2>3. Table!Pause
    BY <1>3, <1>s, <2>1, <2>2 DEF Pause, Table!Pause, Statuses
  <2>4. QED
    BY <2>3 DEF TableStep, Table!Next
<1>4. CASE Stop
  <2>1. \A a \in DOMAIN att : [att[a] EXCEPT !.status = "stopped"].status = "stopped"
    BY <1>t DEF Attempt
  <2>2. Statuses' = [a \in DOMAIN Statuses |->
                       IF Statuses[a] \in Table!InFlight THEN "stopped" ELSE Statuses[a]]
    BY <1>4, <2>1 DEF Stop, Statuses, InFlight, Table!InFlight
  <2>3. Table!Stop
    BY <1>4, <1>s, <2>2 DEF Stop, Active, Ended, Table!Stop, Statuses
  <2>4. QED
    BY <2>3 DEF TableStep, Table!Next
<1>5. ASSUME NEW n \in Nodes, Retry(n) \/ Skip(n) PROVE TableStep
  <2> DEFINE r == NewAttempt(FALSE, latest["implement_ui"])
             s == [r EXCEPT !.status = "skipped"]
  <2>1. r.status = "ready" /\ s.status = "skipped"
    <3>1. r \in Attempt /\ r.status = "ready"
      BY <1>t, NewAttemptFacts
    <3> HIDE DEF r
    <3>2. QED
      BY <3>1 DEF Attempt
  <2>2. UNCHANGED run /\ (Insert(NextId(n), r) \/ Insert(NextId(n), s))
    BY <1>5 DEF Retry, Skip
  <2> HIDE DEF r, s
  <2>3. Table!Adds(n, "ready") \/ Table!Adds(n, "skipped")
    BY <2>1, <2>2, InsertAdds
  <2>4. Table!Add(n)
    BY <2>2, <2>3 DEF Table!Add, Table!Settles
  <2>5. QED
    BY <2>4 DEF TableStep, Table!Next
<1>6. QED
  BY <1>1, <1>2, <1>3, <1>4, <1>5 DEF Requests

\* A restart fails the attempt the tick was dispatching: there is no other.
LEMMA RestartIsStep == IInv /\ Restart => TableStep
<1> SUFFICES ASSUME IInv, Restart PROVE TableStep
  OBVIOUS
<1>t. att \in [DOMAIN att -> Attempt]
  BY DEF IInv, TypeOK
<1>1. CASE WithStatus("dispatching") = {}
  <2>1. \A a \in DOMAIN att : att'[a] = att[a]
    BY <1>1 DEF Restart, WithStatus
  <2>2. DOMAIN att' = DOMAIN att /\ run' = run
    BY <1>1 DEF Restart
  <2>3. Statuses' = Statuses
    BY <2>1, <2>2 DEF Statuses
  <2>4. QED
    BY <2>2, <2>3, Stutters
<1>2. ASSUME NEW a \in WithStatus("dispatching") PROVE TableStep
  <2> DEFINE new == [att[a] EXCEPT !.status = "failed"]
  <2>1. a \in DOMAIN att /\ att[a].status = "dispatching"
    BY <1>2 DEF WithStatus
  <2>2. \A b \in DOMAIN att : att[b].status = "dispatching" => b = a
    BY <2>1 DEF IInv, DispatchHasOwner
  <2>3. att' = [att EXCEPT ![a] = new]
    BY <1>t, <2>1, <2>2 DEF Restart, Interrupted
  <2>4. new.status = "failed"
    BY <1>t, <2>1 DEF Attempt
  <2> HIDE DEF new
  <2>5. SafetyPause
    BY <1>2 DEF Restart
  <2>6. Table!GiveUp(a)
    BY <2>1, <2>3, <2>4, <2>5, OneGoes, SafetyPauseFacts
    DEF Table!GiveUp, Table!PausesIfLive
  <2>7. a \in DOMAIN Statuses
    BY <2>1 DEF Statuses
  <2>8. QED
    BY <2>6, <2>7 DEF TableStep, Table!Next, Statuses
<1>3. QED
  BY <1>1, <1>2

\* What can be read of a reply is not in the table.
LEMMA SpoiltIsStep ==
    ASSUME IInv, NEW a \in DOMAIN att, ReplySpoilt(a)
    PROVE  TableStep
<1>1. att[a].status = "running" /\ UNCHANGED run
  BY SpoiltFacts
<1>2. PICK new \in Attempt : att' = [att EXCEPT ![a] = new] /\ new.status = "running"
  BY SpoiltFacts
<1>3. DOMAIN att' = DOMAIN att /\ \A b \in DOMAIN att : att'[b].status = att[b].status
  BY <1>1, <1>2
<1>4. Statuses' = Statuses
  BY <1>3 DEF Statuses
<1>5. QED
  BY <1>1, <1>4, Stutters

-----------------------------------------------------------------------------
(* The theorem                                                             *)

\* Every step is one of the table's, or shows nothing.
LEMMA StepIsTableStep == IInv /\ [Next]_vars => TableStep
<1> SUFFICES ASSUME IInv, [Next]_vars PROVE TableStep
  OBVIOUS
<1>1. CASE TickStep
  BY <1>1, PlainTickSteps, SaveIsStep, ClaimIsStep, SendIsStep, GateIsStep DEF TickStep
<1>2. CASE Edit \/ UNCHANGED vars
  BY <1>2, SameStatuses, Stutters DEF Edit, vars
<1>3. CASE \E a \in DOMAIN att : ReplySpoilt(a)
  BY <1>3, SpoiltIsStep
<1>4. QED
  BY <1>1, <1>2, <1>3, CreationIsStep, RequestIsStep, RestartIsStep DEF Next, Environment

\* The tick, the creations, the restarts and the requests together implement the table.
THEOREM ImplementsTable == Spec => KeepsTable
<1>1. Init => Table!Init
  <2>1. ASSUME Init PROVE run.status = "none" /\ Statuses = [a \in {} |-> "ready"]
    BY <2>1 DEF Init, Statuses
  <2>2. QED
    BY <2>1 DEF Table!Init, Statuses
<1>2. IInv /\ [Next]_vars => [Table!Next]_(Table!vars)
  BY StepIsTableStep DEF TableStep, Table!vars, Statuses
<1>3. QED
  BY <1>1, <1>2, IInvAlways, PTL DEF Spec, KeepsTable, Table!Spec
=============================================================================
