-------------------------- MODULE WorkerRunsProofs --------------------------
(***************************************************************************)
(* The goroutines, the isolations and recovery touch the run ledger only   *)
(* through its operations, and a crash only loses proofs: what is proved   *)
(* of the ledger on its own holds while they drive it.                     *)
(*                                                                         *)
(* That the ledger and the containers agree is proved where operators only *)
(* answer what is still asked (~StaleAnswers), where recovery finds the    *)
(* credentials of a session usable (~RecoveryAuthFails) and where a poll   *)
(* claims reviews only after recovery (~HostPressure); the runs            *)
(* stale_answer, zombie_auth and zombie_review show what happens           *)
(* otherwise.  A step is shown to be safe for the ledger (Safe: no threat  *)
(* loses its ticket, no proof is given beside a threat, no candidate is    *)
(* accepted beside a container), then calm or a move of one goroutine.     *)
(***************************************************************************)
EXTENDS WorkerRuns, RunStoreFencing, RunStoreStability

\* Control and the goroutine of every run are callers.
LEMMA Callers == control \in Caller /\ Gen \subseteq Caller
BY CallerAssumption

\* What a goroutine does is a step of its run, or of a caller, or none.
LEMMA WorkerStepOfTheLedger ==
    ASSUME NEW t \in Ticket, NEW g \in Gen, WorkerStep(t, g)
    PROVE  RunStep(t, g) \/ CallerStep(g, t) \/ UNCHANGED vars
<1>1. CASE \/ Prelaunch(t, g) \/ BeginCreate(t, g) \/ EndCreate(t, g) \/ AdmitStart(t, g)
           \/ ReportContainer(t, g) \/ AgentEnds(t, g) \/ AgentDelivers(t, g)
  BY <1>1 DEF Prelaunch, BeginCreate, EndCreate, AdmitStart, ReportContainer, AgentEnds,
              AgentDelivers, RunStep
<1>2. CASE \/ RefusedBeforeCreate(t, g) \/ DockerCreates(t, g) \/ EndCreateFenced(t, g)
           \/ RejectStart(t, g) \/ DockerStarts(t, g) \/ LoseContainer(t, g)
           \/ ContainerExits(t, g) \/ GiveUp(t, g) \/ OrphanExits(t, g)
  BY <1>2 DEF RefusedBeforeCreate, DockerCreates, EndCreateFenced, RejectStart, DockerStarts,
              LoseContainer, ContainerExits, GiveUp, OrphanExits
<1>3. CASE DeliveryPreflightFails(t, g)
  BY <1>3 DEF DeliveryPreflightFails, CallerStep
<1>4. CASE DeliveryNeverStarted(t, g)
  BY <1>4 DEF DeliveryNeverStarted, CallerStep
<1>5. CASE DeliveryLost(t, g)
  BY <1>5 DEF DeliveryLost, CallerStep
<1>6. CASE DeliveryUnrecorded(t, g)
  BY <1>6 DEF DeliveryUnrecorded, CallerStep
<1>7. CASE DeliveryReports(t, g)
  BY <1>7 DEF DeliveryReports, CallerStep, RunStep
<1> QED BY <1>1, <1>2, <1>3, <1>4, <1>5, <1>6, <1>7 DEF WorkerStep

\* Every step of the composition is a step of the ledger or leaves it alone.
LEMMA StepOfTheLedger ==
    ASSUME TypeOK, [NextWorkers]_allVars
    PROVE  [Next]_vars
<1>1. CASE UNCHANGED allVars
  BY <1>1 DEF allVars, vars
<1>2. ASSUME NEW t \in Ticket, ClaimAndLaunch(t)
      PROVE  Next
  BY <1>2 DEF ClaimAndLaunch, TicketStep, Next
<1>3. ASSUME NEW t \in Ticket, TicketMovesOn(t)
      PROVE  Next
  <2>1. TicketStep(t) \/ \E g \in Gen : RunStep(t, g)
    BY <1>3 DEF TicketMovesOn, TicketStep, RunStep
  <2> QED BY <2>1 DEF Next
<1>4. ASSUME NEW t \in Ticket, ControlStep(t)
      PROVE  Next
  <2>1. CASE ControlEnds(t)
    <3>1. CallerStep(control, t)
      BY <2>1 DEF ControlEnds, CallerStep
    <3> QED BY <3>1, Callers DEF Next
  <2>2. ASSUME NEW g \in Gen, Reconcile(t, g)
        PROVE  Next
    <3>1. CallerStep(control, t)
      BY <2>2 DEF Reconcile, CallerStep
    <3> QED BY <3>1, Callers DEF Next
  <2>3. ASSUME NEW g \in Gen, ReconcileAuthentication(t, g)
        PROVE  Next
    BY <2>3 DEF ReconcileAuthentication, RunStep, Next
  <2> QED BY <1>4, <2>1, <2>2, <2>3 DEF ControlStep
<1>5. ASSUME NEW t \in Ticket, NEW g \in Gen, WorkerStep(t, g)
      PROVE  Next \/ UNCHANGED vars
  BY <1>5, WorkerStepOfTheLedger, Callers DEF Next
<1>6. ASSUME NEW c \in Caller, NEW t \in Ticket, IsolationStep(c, t)
      PROVE  Next \/ UNCHANGED vars
  <2>1. CallerStep(c, t) \/ UNCHANGED vars
    BY <1>6 DEF IsolationStep, BeginIsolation, RemoveContainers, EndIsolation, AbortIsolation,
                CallerStep
  <2> QED BY <2>1 DEF Next
<1>7. CASE Crash
  <2>1. UNCHANGED <<session, run, ticketState, queued, backoff, questions, maintenance>>
    BY <1>7 DEF Crash
  <2>2. proof' = [t \in Ticket |-> {}]
    BY <1>7 DEF Crash
  <2>3. CASE \E t \in Ticket : proof[t] # {}
    BY <2>1, <2>2, <2>3 DEF LoseProofs, Next
  <2>4. CASE ~\E t \in Ticket : proof[t] # {}
    BY <2>1, <2>2, <2>4 DEF vars, TypeOK
  <2> QED BY <2>3, <2>4
<1> QED BY <1>1, <1>2, <1>3, <1>4, <1>5, <1>6, <1>7 DEF NextWorkers

\* Goroutines, containers, isolation, recovery and crashes implement the run
\* ledger's specification.
THEOREM WorkersImplementStore == SpecWorkers => Spec
<1>1. InitWorkers => Init
  BY DEF InitWorkers
<1>2. TypeOK /\ [NextWorkers]_allVars => [Next]_vars
  BY StepOfTheLedger
<1> QED BY <1>1, <1>2, InitType, NextType, PTL DEF SpecWorkers, Spec

\* With them, too, a ticket has at most one live run (OneLiveRun).
THEOREM WorkersKeepOneLiveRun == ASSUME ~StaleAnswers PROVE SpecWorkers => []OneLiveRun
BY WorkersImplementStore, OneLiveRunHolds, PTL

-----------------------------------------------------------------------------
(* What a step of one ticket leaves alone.                                 *)

Bystanders(t) == \A u \in Ticket \ {t} : session'[u] = session[u] /\ run'[u] = run[u]

ProofsShrink == \A t \in Ticket : proof[t] = {} => proof'[t] = {}

AcceptedKept == \A t \in Ticket : session'[t].accepted = session[t].accepted

LeavesAlone(t) == Bystanders(t) /\ ProofsShrink /\ AcceptedKept

LEMMA UpdateLeavesAlone ==
    ASSUME TypeOK, NEW t \in Ticket, NEW s, NEW rs, s.accepted = session[t].accepted,
           session' = [session EXCEPT ![t] = s], run' = [run EXCEPT ![t] = rs],
           DropProofs(t) \/ UNCHANGED proof
    PROVE  LeavesAlone(t)
<1>1. Bystanders(t) /\ AcceptedKept
  BY DEF Bystanders, AcceptedKept, TypeOK
<1>2. ProofsShrink
  BY DEF ProofsShrink, DropProofs, TypeOK
<1> QED BY <1>1, <1>2 DEF LeavesAlone

LEMMA ColumnLeavesAlone ==
    ASSUME TypeOK, NEW t \in Ticket, NEW g \in Gen, NEW r,
           run' = [run EXCEPT ![t][g] = r], UNCHANGED <<session, proof>>
    PROVE  LeavesAlone(t)
<1> DEFINE rs == [run[t] EXCEPT ![g] = r]
<1>1. session' = [session EXCEPT ![t] = session[t]] /\ run' = [run EXCEPT ![t] = rs]
  BY DEF TypeOK
<1> HIDE DEF rs
<1> QED BY <1>1, UpdateLeavesAlone

LEMMA UntouchedLeavesAlone ==
    ASSUME NEW t \in Ticket, UNCHANGED <<session, run, proof>>
    PROVE  LeavesAlone(t)
BY DEF LeavesAlone, Bystanders, ProofsShrink, AcceptedKept

LEMMA IssueLeavesAlone ==
    ASSUME TypeOK, NEW t \in Ticket, NEW s \in SessionRow, NEW rs, NEW kind, NEW revises,
           s.accepted = session[t].accepted, Issue(t, s, rs, kind, revises)
    PROVE  LeavesAlone(t)
<1> DEFINE n == s.gen + 1
           s2 == [s EXCEPT !.state = "running", !.current = n, !.gen = n]
           rs2 == [rs EXCEPT ![n] = [NewRow(kind, "running", s.epoch) EXCEPT !.revises = revises]]
<1>1. /\ session' = [session EXCEPT ![t] = s2] /\ run' = [run EXCEPT ![t] = rs2]
      /\ DropProofs(t)
  BY DEF Issue
<1>2. s2.accepted = session[t].accepted
  BY DEF SessionRow
<1> HIDE DEF s2, rs2
<1> QED BY <1>1, <1>2, UpdateLeavesAlone

LEMMA NeedsAttentionLeavesAlone ==
    ASSUME TypeOK, NEW t \in Ticket, NEW s \in SessionRow, NEW rs,
           s.accepted = session[t].accepted, NEW also, NeedsAttention(t, s, rs, also)
    PROVE  LeavesAlone(t)
<1> DEFINE s2 == [s EXCEPT !.retry = FALSE]
           rs2 == [g \in Gen |-> IF rs[g].state = "running"
                                 THEN Ended(rs[g], "cancelled")
                                 ELSE [rs[g] EXCEPT !.leased = FALSE]]
<1>1. /\ session' = [session EXCEPT ![t] = s2] /\ run' = [run EXCEPT ![t] = rs2]
      /\ DropProofs(t)
  BY DEF NeedsAttention
<1>2. s2.accepted = session[t].accepted
  BY DEF SessionRow
<1> HIDE DEF s2, rs2
<1> QED BY <1>1, <1>2, UpdateLeavesAlone

LEMMA BackToReviewLeavesAlone ==
    ASSUME TypeOK, NEW t \in Ticket, NEW g \in Gen, NEW state, NEW retry,
           BackToReview(t, g, state, retry)
    PROVE  LeavesAlone(t)
<1> DEFINE s == [session[t] EXCEPT !.retry = retry]
<1>1. /\ session' = [session EXCEPT ![t] = s]
      /\ run' = [run EXCEPT ![t] = Finish(t, g, state)]
      /\ DropProofs(t)
  BY DEF BackToReview, Retire
<1>2. s.accepted = session[t].accepted
  BY DEF TypeOK, SessionRow
<1> HIDE DEF s
<1> QED BY <1>1, <1>2, UpdateLeavesAlone

LEMMA RetryOrEscalateLeavesAlone ==
    ASSUME TypeOK, NEW t \in Ticket, NEW g \in Gen, NEW rs, NEW mayEscalate,
           RetryOrEscalate(t, g, rs, mayEscalate)
    PROVE  LeavesAlone(t)
<1>1. session[t] \in SessionRow
  BY DEF TypeOK
<1>2. CASE NeedsAttention(t, session[t], rs, {})
  BY <1>1, <1>2, NeedsAttentionLeavesAlone
<1>3. CASE ~NeedsAttention(t, session[t], rs, {})
  <2> DEFINE s == [session[t] EXCEPT !.retry = TRUE]
  <2>1. /\ session' = [session EXCEPT ![t] = s] /\ run' = [run EXCEPT ![t] = rs]
        /\ DropProofs(t)
    BY <1>3 DEF RetryOrEscalate
  <2>2. s.accepted = session[t].accepted
    BY <1>1 DEF SessionRow
  <2> HIDE DEF s
  <2> QED BY <2>1, <2>2, UpdateLeavesAlone
<1> QED BY <1>2, <1>3

LEMMA RecoverExpiredLeavesAlone ==
    ASSUME TypeOK, NEW t \in Ticket, NEW g \in Gen, RecoverExpired(t, g)
    PROVE  LeavesAlone(t)
<1>1. session[t] \in SessionRow
  BY DEF TypeOK
<1> QED BY <1>1, RetryOrEscalateLeavesAlone, NeedsAttentionLeavesAlone DEF RecoverExpired

LEMMA TicketStepLeavesAlone ==
    ASSUME TypeOK, NEW t \in Ticket, TicketStep(t)
    PROVE  LeavesAlone(t)
<1> DEFINE failed == [session[t] EXCEPT !.failures = Increment(session[t].failures)]
           reviewed == [session[t] EXCEPT !.failures = ReviewFailures(t)]
           claimed == [session[t] EXCEPT !.retry = FALSE]
           skipped == [session[t] EXCEPT !.gen = session[t].gen + 1]
<1>1. /\ session[t] \in SessionRow
      /\ ReviewFailures(t) \in 0..MaxAttempts
      /\ Increment(session[t].failures) \in 0..MaxAttempts
  BY IncrementType, Limits DEF TypeOK, SessionRow, ReviewFailures
<1>2. /\ failed \in SessionRow /\ failed.accepted = session[t].accepted
      /\ reviewed \in SessionRow /\ reviewed.accepted = session[t].accepted
      /\ claimed \in SessionRow /\ claimed.accepted = session[t].accepted
  BY <1>1 DEF SessionRow
<1> HIDE DEF failed, reviewed, claimed
<1>3. CASE ClaimReady(t)
  BY <1>1, <1>3, IssueLeavesAlone DEF ClaimReady
<1>4. CASE ClaimReadyReleasesFeedback(t)
  <2>1. /\ session' = [session EXCEPT ![t] = session[t]]
        /\ run' = [run EXCEPT ![t] = Superseded(t)]
        /\ DropProofs(t)
    BY <1>4 DEF ClaimReadyReleasesFeedback, TypeOK
  <2> QED BY <2>1, UpdateLeavesAlone
<1>5. CASE ClaimReadyExhausted(t)
  <2>1. session[t].gen < MaxGen /\ NeedsAttention(t, skipped, Superseded(t), {})
    BY <1>5 DEF ClaimReadyExhausted
  <2>2. session[t].gen + 1 \in 0..MaxGen
    BY <1>1, <2>1, Limits DEF SessionRow
  <2>3. skipped \in SessionRow /\ skipped.accepted = session[t].accepted
    BY <1>1, <2>2 DEF SessionRow
  <2> HIDE DEF skipped
  <2> QED BY <2>1, <2>3, NeedsAttentionLeavesAlone
<1>6. CASE ClaimReadyAuthenticationLost(t)
  <2>1. \/ NeedsAttention(t, failed, Finish(t, session[t].current, "failed"), {})
        \/ NeedsAttention(t, session[t], run[t], {})
    BY <1>6 DEF ClaimReadyAuthenticationLost, failed
  <2> QED BY <1>1, <1>2, <2>1, NeedsAttentionLeavesAlone
<1>7. CASE ClaimPendingDelivery(t)
  <2>1. Issue(t, claimed, run[t], "delivery", FALSE)
    BY <1>7 DEF ClaimPendingDelivery, claimed
  <2> QED BY <1>2, <2>1, IssueLeavesAlone
<1>8. CASE ClaimQueuedReview(t)
  <2>1. PICK rs : Issue(t, reviewed, rs, "agent", TRUE)
    BY <1>8 DEF ClaimQueuedReview, reviewed
  <2> QED BY <1>2, <2>1, IssueLeavesAlone
<1>9. CASE ClaimQueuedReviewExhausted(t) \/ ClaimQueuedReviewAuthenticationLost(t)
  <2>1. PICK rs, also : NeedsAttention(t, reviewed, rs, also)
    BY <1>9 DEF ClaimQueuedReviewExhausted, ClaimQueuedReviewAuthenticationLost, reviewed
  <2> QED BY <1>2, <2>1, NeedsAttentionLeavesAlone
<1>10. ASSUME NEW s, s.accepted = session[t].accepted, session' = [session EXCEPT ![t] = s],
              UNCHANGED <<run, proof>>
       PROVE  LeavesAlone(t)
  <2>1. run' = [run EXCEPT ![t] = run[t]]
    BY <1>10 DEF TypeOK
  <2> QED BY <1>10, <2>1, UpdateLeavesAlone
<1>11. CASE AnswerNeedsAttention(t) \/ RetryPollFailure(t)
  <2> DEFINE resumed == [session[t] EXCEPT !.failures = 0, !.retry = TRUE]
             restarted == [session[t] EXCEPT !.failures = 0, !.epoch = session[t].epoch + 1]
  <2>1. resumed.accepted = session[t].accepted /\ restarted.accepted = session[t].accepted
    BY <1>1 DEF SessionRow
  <2>2. /\ UNCHANGED <<run, proof>>
        /\ \/ session' = [session EXCEPT ![t] = session[t]]
           \/ session' = [session EXCEPT ![t] = resumed]
           \/ session' = [session EXCEPT ![t] = restarted]
    BY <1>11 DEF AnswerNeedsAttention, RetryPollFailure, RecoverTicket, TypeOK
  <2> HIDE DEF resumed, restarted
  <2> QED BY <1>10, <2>1, <2>2
<1>12. CASE AnswerQualityGate(t)
  <2> DEFINE s == [session[t] EXCEPT !.retry = TRUE]
  <2>1. s.accepted = session[t].accepted
    BY <1>1 DEF SessionRow
  <2>2. session' = [session EXCEPT ![t] = s] /\ UNCHANGED <<run, proof>>
    BY <1>12 DEF AnswerQualityGate
  <2> HIDE DEF s
  <2> QED BY <1>10, <2>1, <2>2
<1>13. CASE RecordReviewFeedback(t) \/ BackoffElapses(t)
  BY <1>13, UntouchedLeavesAlone DEF RecordReviewFeedback, BackoffElapses
<1> QED BY <1>3, <1>4, <1>5, <1>6, <1>7, <1>8, <1>9, <1>11, <1>12, <1>13 DEF TicketStep

\* Only the acceptance of a candidate changes the accepted candidate.
LEMMA RunStepLeavesAlone ==
    ASSUME TypeOK, NEW t \in Ticket, NEW g \in Gen, RunStep(t, g)
    PROVE  \/ LeavesAlone(t)
           \/ /\ AcceptCandidate(t, g)
              /\ Bystanders(t) /\ ProofsShrink
<1> DEFINE failed == [session[t] EXCEPT !.failures = Increment(session[t].failures)]
<1>1. session[t] \in SessionRow /\ Increment(session[t].failures) \in 0..MaxAttempts
  BY IncrementType DEF TypeOK, SessionRow
<1>2. failed \in SessionRow /\ failed.accepted = session[t].accepted
  BY <1>1 DEF SessionRow
<1> HIDE DEF failed
<1>3. CASE \/ ReservePrelaunch(t, g) \/ AcquireCreateFence(t, g) \/ ReleaseCreateFence(t, g)
           \/ ReserveLaunch(t, g) \/ RecordWorkerContainer(t, g)
           \/ BeginWrite(t, g) \/ EndWrite(t, g) \/ Lapse(t, g)
  <2>1. PICK r : run' = [run EXCEPT ![t][g] = r] /\ UNCHANGED <<session, proof>>
    BY <1>3 DEF ReservePrelaunch, AcquireCreateFence, ReleaseCreateFence, ReserveLaunch,
                RecordWorkerContainer, BeginWrite, EndWrite, Lapse
  <2> QED BY <2>1, ColumnLeavesAlone
<1>4. CASE AcceptCandidate(t, g)
  <2>1. PICK s, rs : /\ session' = [session EXCEPT ![t] = s] /\ run' = [run EXCEPT ![t] = rs]
                     /\ DropProofs(t)
    BY <1>4 DEF AcceptCandidate, Issue
  <2> QED BY <1>4, <2>1 DEF Bystanders, ProofsShrink, DropProofs, TypeOK
<1>5. ASSUME NEW infrastructure \in BOOLEAN, RecordRunFailure(t, g, infrastructure)
      PROVE  LeavesAlone(t)
  <2>1. /\ session' = [session EXCEPT ![t] = failed] /\ run' = [run EXCEPT ![t] = Fail(t, g)]
        /\ DropProofs(t)
    BY <1>5 DEF RecordRunFailure, failed
  <2> QED BY <1>2, <2>1, UpdateLeavesAlone
<1>6. CASE RecordRunAuthenticationFailure(t, g) \/ RecoverAuthenticationFailure(t, g)
  <2>1. PICK rs, also : NeedsAttention(t, failed, rs, also)
    BY <1>6 DEF RecordRunAuthenticationFailure, RecoverAuthenticationFailure, failed
  <2> QED BY <1>2, <2>1, NeedsAttentionLeavesAlone
<1>7. CASE CompleteDelivery(t, g)
  BY <1>7, BackToReviewLeavesAlone DEF CompleteDelivery
<1>8. CASE PauseForQualityGate(t, g)
  <2>1. /\ session' = [session EXCEPT ![t] = session[t]]
        /\ run' = [run EXCEPT ![t] = Finish(t, g, "succeeded")]
        /\ DropProofs(t)
    BY <1>8 DEF PauseForQualityGate, Retire, TypeOK
  <2> QED BY <2>1, UpdateLeavesAlone
<1>9. CASE RecoverUnlaunchedDelivery(t, g)
  BY <1>9, RecoverExpiredLeavesAlone DEF RecoverUnlaunchedDelivery
<1> QED BY <1>3, <1>4, <1>5, <1>6, <1>7, <1>8, <1>9 DEF RunStep

\* Only an acknowledgement adds a proof.
LEMMA CallerStepLeavesAlone ==
    ASSUME TypeOK, NEW c \in Caller, NEW t \in Ticket, CallerStep(c, t)
    PROVE  \/ LeavesAlone(t)
           \/ /\ AcknowledgeIsolation(c, t)
              /\ Bystanders(t) /\ AcceptedKept
<1>1. session[t] \in SessionRow
  BY DEF TypeOK
<1>2. CASE FenceIsolation(c, t) \/ AcknowledgeIsolation(c, t)
  <2> DEFINE g == session[t].current
  <2>1. g \in Gen
    BY <1>2 DEF FenceIsolation, AcknowledgeIsolation, IsTarget, Held
  <2>2. CASE FenceIsolation(c, t)
    <3>1. PICK r : run' = [run EXCEPT ![t][g] = r] /\ UNCHANGED <<session, proof>>
      BY <2>2 DEF FenceIsolation
    <3> QED BY <2>1, <3>1, ColumnLeavesAlone
  <2>3. CASE AcknowledgeIsolation(c, t)
    <3>1. PICK r : run' = [run EXCEPT ![t][g] = r] /\ UNCHANGED session
      BY <2>3 DEF AcknowledgeIsolation
    <3> QED BY <2>3, <3>1 DEF Bystanders, AcceptedKept, TypeOK
  <2> QED BY <1>2, <2>2, <2>3
<1>3. CASE MarkDelivered(c, t)
  <2> DEFINE s == [session[t] EXCEPT !.state = "closed"]
  <2>1. PICK rs : /\ session' = [session EXCEPT ![t] = s] /\ run' = [run EXCEPT ![t] = rs]
                  /\ DropProofs(t)
    BY <1>3 DEF MarkDelivered
  <2>2. s.accepted = session[t].accepted
    BY <1>1 DEF SessionRow
  <2> HIDE DEF s
  <2> QED BY <2>1, <2>2, UpdateLeavesAlone
<1>4. CASE \/ Escalate(c, t)
           \/ \E g \in Gen : FinishLapsedDelivery(c, t, g) \/ FailDelivery(c, t, g)
  <2>1. PICK rs, also : NeedsAttention(t, session[t], rs, also)
    BY <1>4 DEF Escalate, FinishLapsedDelivery, FailDelivery
  <2> QED BY <1>1, <2>1, NeedsAttentionLeavesAlone
<1>5. ASSUME NEW g \in Gen, NEW isolated \in BOOLEAN, NEW infrastructure \in BOOLEAN,
             \/ FailDeliveryWithClass(c, t, g, isolated, infrastructure)
             \/ FailDeliveryLaunch(c, t, g, isolated, infrastructure)
      PROVE  LeavesAlone(t)
  <2>1. PICK mayEscalate : RetryOrEscalate(t, g, Fail(t, g), mayEscalate)
    BY <1>5 DEF FailDeliveryWithClass, FailDeliveryLaunch
  <2> QED BY <2>1, RetryOrEscalateLeavesAlone
<1>6. ASSUME NEW g \in Gen, DeferDelivery(c, t, g) \/ RevalidateDelivery(c, t, g)
      PROVE  LeavesAlone(t)
  <2>1. PICK retry : BackToReview(t, g, "superseded", retry)
    BY <1>6 DEF DeferDelivery, RevalidateDelivery
  <2> QED BY <2>1, BackToReviewLeavesAlone
<1>7. ASSUME NEW g \in Gen, ReconcileMissingRun(c, t, g)
      PROVE  LeavesAlone(t)
  <2>1. CASE RecoverExpired(t, g)
    BY <2>1, RecoverExpiredLeavesAlone
  <2>2. CASE Retire(t, g, "superseded") /\ UNCHANGED session
    <3>1. /\ session' = [session EXCEPT ![t] = session[t]]
          /\ run' = [run EXCEPT ![t] = Finish(t, g, "superseded")]
          /\ DropProofs(t)
      BY <2>2 DEF Retire, TypeOK
    <3> QED BY <3>1, UpdateLeavesAlone
  <2> QED BY <1>7, <2>1, <2>2 DEF ReconcileMissingRun
<1> QED BY <1>2, <1>3, <1>4, <1>5, <1>6, <1>7 DEF CallerStep

-----------------------------------------------------------------------------
(* The invariant of goroutines, containers and isolations.                 *)
(*                                                                         *)
(* NoZombie is not inductive: a container may start later than its start   *)
(* was admitted, and an isolation reads the containers before it is        *)
(* acknowledged.  A run is a threat when its container runs or the start   *)
(* of a created one is in flight.  The invariant says that a threat holds  *)
(* its ticket and was launched, that what a goroutine calls certain is no  *)
(* threat, and that neither a proof nor a container already removed by an  *)
(* isolation under way leaves one: an isolating run admits no start.       *)

Threat(t, g) == \/ box[t][g] = "running"
                \/ worker[t][g] = "starting" /\ box[t][g] = "created"

NoThreat(t) == \A g \in Gen : ~Threat(t, g)

\* A run that was not issued, or not prepared, has no container, and a
\* goroutine that is certain of its container is right.
Local(t, g) ==
    /\ run[t][g].state = "none" => worker[t][g] = "none" /\ box[t][g] = "none"
    /\ run[t][g].state = "running" /\ run[t][g].launch = "ready" =>
         box[t][g] = "none" /\ worker[t][g] \in {"none", "preparing"}
    /\ worker[t][g] \in {"preparing", "reserved", "unstarted", "exited", "reported"} =>
         box[t][g] # "running"

Watched(t, g) == Threat(t, g) => Held(t, g) /\ run[t][g].launch = "launched"

Gone(t) == proof[t] # {} => \A g \in Gen : session[t].current = g => ~Threat(t, g)

\* The run that caller c isolates stays fenced until it ends, and once its
\* containers are removed they stay so.
Removing(t, c) ==
    \A g \in Gen : iso[t][c].gen = g =>
        /\ run[t][g].state # "none"
        /\ run[t][g].state = "running" => run[t][g].isolating
        /\ iso[t][c].removed => ~Threat(t, g)

WorkersInv == \A t \in Ticket : /\ \A g \in Gen : Local(t, g) /\ Watched(t, g)
                                /\ Gone(t)
                                /\ \A c \in Caller : Removing(t, c)

WorkerTypes == /\ worker \in [Ticket -> [Gen -> Phase]]
               /\ box \in [Ticket -> [Gen -> {"none", "created", "running"}]]
               /\ iso \in [Ticket -> [Caller -> Isolation]]

-----------------------------------------------------------------------------
(* Steps that end no threat's run.                                         *)

\* Every threat keeps its ticket.
Spares == \A t \in Ticket, g \in Gen :
            Threat(t, g) => Held(t, g)' /\ run'[t][g].launch = "launched"

\* A first proof is of a ticket without a threat.
ProofsHarmless == \A t \in Ticket : proof[t] = {} => proof'[t] = {} \/ NoThreat(t)

AcceptedAlone == \A t \in Ticket : session'[t].accepted # session[t].accepted =>
                   \A g \in Gen : box[t][g] # "running"

Safe == Spares /\ ProofsHarmless /\ AcceptedAlone

\* What leaves proofs and candidates alone is safe once it spares the threats.
LEMMA LeavesAloneSafe ==
    ASSUME Spares, ProofsShrink, AcceptedKept
    PROVE  Safe
BY DEF Safe, ProofsShrink, AcceptedKept, ProofsHarmless, AcceptedAlone

\* A ticket without a threat may be done with as one likes.
LEMMA NoThreatSpares ==
    ASSUME WorkersInv, NEW t \in Ticket, Bystanders(t), NoThreat(t)
    PROVE  Spares
<1> SUFFICES ASSUME NEW u \in Ticket, NEW g \in Gen, Threat(u, g)
             PROVE  Held(u, g)' /\ run'[u][g].launch = "launched"
  BY DEF Spares
<1>1. u # t
  BY DEF NoThreat
<1>2. session'[u] = session[u] /\ run'[u] = run[u]
  BY <1>1 DEF Bystanders
<1>3. Held(u, g) /\ run[u][g].launch = "launched"
  BY DEF WorkersInv, Watched
<1> QED BY <1>2, <1>3 DEF Held

LEMMA UntouchedSpares ==
    ASSUME WorkersInv, run' = run,
           \A t \in Ticket : session'[t].current = session[t].current
    PROVE  Spares
BY DEF Spares, WorkersInv, Watched, Held

LEMMA UntouchedSafe ==
    ASSUME WorkersInv, UNCHANGED vars
    PROVE  Spares /\ ProofsShrink /\ AcceptedKept
BY UntouchedSpares DEF vars, ProofsShrink, AcceptedKept

LEMMA ColumnSpares ==
    ASSUME TypeOK, WorkersInv, NEW t \in Ticket, NEW g \in Gen, NEW r,
           r.state = run[t][g].state, r.leased = run[t][g].leased,
           run[t][g].launch = "launched" => r.launch = "launched",
           run' = [run EXCEPT ![t][g] = r], UNCHANGED session
    PROVE  Spares
<1> SUFFICES ASSUME NEW u \in Ticket, NEW h \in Gen, Threat(u, h)
             PROVE  Held(u, h)' /\ run'[u][h].launch = "launched"
  BY DEF Spares
<1>1. Held(u, h) /\ run[u][h].launch = "launched"
  BY DEF WorkersInv, Watched
<1>2. CASE u = t /\ h = g
  <2>1. run'[u][h] = r
    BY <1>2 DEF TypeOK
  <2> QED BY <1>1, <1>2, <2>1 DEF Held
<1>3. CASE ~(u = t /\ h = g)
  <2>1. run'[u][h] = run[u][h]
    BY <1>3 DEF TypeOK
  <2> QED BY <1>1, <2>1 DEF Held
<1> QED BY <1>2, <1>3

\* An isolated ticket has no threat: a threat is a target.
LEMMA IsolatedNoThreat ==
    ASSUME WorkersInv, NEW c \in Caller, NEW t \in Ticket, Isolated(c, t)
    PROVE  NoThreat(t)
<1> SUFFICES ASSUME NEW g \in Gen, Threat(t, g) PROVE FALSE
  BY DEF NoThreat
<1>1. Held(t, g) /\ run[t][g].launch = "launched"
  BY DEF WorkersInv, Watched
<1>2. IsTarget(t)
  BY <1>1 DEF IsTarget
<1>3. proof[t] # {} /\ session[t].current = g
  BY <1>1, <1>2 DEF Isolated, Held
<1> QED BY <1>3 DEF WorkersInv, Gone

\* Only the run that holds the ticket could be one.
LEMMA HeldNoThreat ==
    ASSUME WorkersInv, NEW t \in Ticket, NEW g \in Gen, Held(t, g), ~Threat(t, g)
    PROVE  NoThreat(t)
BY DEF NoThreat, WorkersInv, Watched, Held

LEMMA UnlaunchedNoThreat ==
    ASSUME WorkersInv, NEW t \in Ticket, \A g \in Gen : Held(t, g) => run[t][g].launch = "ready"
    PROVE  NoThreat(t)
BY DEF NoThreat, WorkersInv, Watched

\* Claims look at the lease, at the container columns and at the state of the
\* ticket before they issue a run or escalate.
LEMMA TicketStepSafe ==
    ASSUME ~HostPressure, StoreInv, WorkersInv, NEW t \in Ticket, TicketStep(t)
    PROVE  Safe
<1> SUFFICES Spares
  BY TicketStepLeavesAlone, LeavesAloneSafe DEF StoreInv, LeavesAlone
<1>1. TypeOK /\ Bystanders(t)
  BY TicketStepLeavesAlone DEF StoreInv, LeavesAlone
<1>2. CASE Claimable(t)
  <2>1. \A g \in Gen : Held(t, g) => run[t][g].launch = "ready"
    BY <1>2 DEF Claimable, Unattended, Held
  <2> QED BY <1>1, <2>1, UnlaunchedNoThreat, NoThreatSpares
<1>3. CASE ClaimPendingDelivery(t)
  <2>1. \A g \in Gen : ~Held(t, g)
    BY <1>3 DEF ClaimPendingDelivery, StoreInv, FencingInv, Fenced, OwnerOnly, Quiet, Held
  <2> QED BY <1>1, <2>1, UnlaunchedNoThreat, NoThreatSpares
<1>4. CASE ReviewClaimable(t)
  <2>1. \A g \in Gen : ~Held(t, g)
    BY <1>4 DEF ReviewClaimable
  <2> QED BY <1>1, <2>1, UnlaunchedNoThreat, NoThreatSpares
<1>5. CASE \/ AnswerNeedsAttention(t) \/ RetryPollFailure(t) \/ AnswerQualityGate(t)
           \/ RecordReviewFeedback(t) \/ BackoffElapses(t)
  <2>1. /\ run' = run
        /\ \/ UNCHANGED session
           \/ \E s : s.current = session[t].current /\ session' = [session EXCEPT ![t] = s]
    BY <1>1, <1>5 DEF AnswerNeedsAttention, RetryPollFailure, RecoverTicket, AnswerQualityGate, RecordReviewFeedback,
                      BackoffElapses, TypeOK, SessionRow
  <2>2. \A u \in Ticket : session'[u].current = session[u].current
    BY <1>1, <2>1 DEF TypeOK
  <2> QED BY <2>1, <2>2, UntouchedSpares
<1> QED BY <1>2, <1>3, <1>4, <1>5
        DEF TicketStep, ClaimReady, ClaimReadyReleasesFeedback, ClaimReadyExhausted,
            ClaimReadyAuthenticationLost, ClaimQueuedReview, ClaimQueuedReviewExhausted,
            ClaimQueuedReviewAuthenticationLost

\* The columns of a launch and of a write do not end a run.
ColumnStep(t, g) == \/ ReservePrelaunch(t, g) \/ AcquireCreateFence(t, g)
                    \/ ReleaseCreateFence(t, g) \/ ReserveLaunch(t, g)
                    \/ RecordWorkerContainer(t, g)
                    \/ BeginWrite(t, g) \/ EndWrite(t, g) \/ Lapse(t, g)

LEMMA ColumnStepSafe ==
    ASSUME TypeOK, WorkersInv, NEW t \in Ticket, NEW g \in Gen, ColumnStep(t, g)
    PROVE  Spares /\ ProofsShrink /\ AcceptedKept
<1>1. run[t][g] \in RunRow
  BY DEF TypeOK
<1>2. PICK r : /\ r.state = run[t][g].state /\ r.leased = run[t][g].leased
               /\ run[t][g].launch = "launched" => r.launch = "launched"
               /\ run' = [run EXCEPT ![t][g] = r]
               /\ UNCHANGED <<session, proof>>
  BY <1>1 DEF ColumnStep, ReservePrelaunch, AcquireCreateFence, ReleaseCreateFence, ReserveLaunch,
              RecordWorkerContainer, BeginWrite, EndWrite, Lapse, RunRow
<1> QED BY <1>2, ColumnSpares DEF ProofsShrink, AcceptedKept

\* The outcome of a run that is no threat, recorded by the one that holds it.
LEMMA OutcomeSafe ==
    ASSUME TypeOK, WorkersInv, NEW t \in Ticket, NEW g \in Gen, RunStep(t, g),
           Held(t, g), ~Threat(t, g)
    PROVE  Safe
<1>1. Bystanders(t) /\ ProofsShrink
  BY RunStepLeavesAlone DEF LeavesAlone
<1>2. NoThreat(t)
  BY HeldNoThreat
<1>3. Spares
  BY <1>1, <1>2, NoThreatSpares
<1>4. AcceptedAlone
  BY <1>1, <1>2 DEF AcceptedAlone, Bystanders, NoThreat, Threat
<1> QED BY <1>1, <1>3, <1>4 DEF Safe, ProofsShrink, ProofsHarmless

LEMMA CallerSafe ==
    ASSUME TypeOK, WorkersInv, NEW c \in Caller, NEW t \in Ticket, CallerStep(c, t), NoThreat(t)
    PROVE  Safe
<1>1. Bystanders(t) /\ AcceptedKept
  BY CallerStepLeavesAlone DEF LeavesAlone
<1>2. Spares
  BY <1>1, NoThreatSpares
<1>3. CASE ProofsShrink
  BY <1>1, <1>2, <1>3, LeavesAloneSafe
<1>4. CASE AcknowledgeIsolation(c, t)
  <2>1. ProofsHarmless
    BY <1>4 DEF ProofsHarmless, AcknowledgeIsolation, TypeOK
  <2> QED BY <1>1, <1>2, <2>1 DEF Safe, AcceptedKept, AcceptedAlone
<1> QED BY <1>3, <1>4, CallerStepLeavesAlone DEF LeavesAlone

-----------------------------------------------------------------------------
(* What is left to show of a step, once it spares the threats.             *)

\* A row keeps its past, unless the step issued it.
RowsStep ==
    \A t \in Ticket, g \in Gen :
        /\ run'[t][g].state = "none" => run[t][g].state = "none"
        /\ run[t][g].state # "none" => Kept(run[t][g], run'[t][g])

LEMMA RowsStepHolds == TypeOK /\ IssuedUpToGen /\ [Next]_vars => RowsStep
<1> SUFFICES ASSUME TypeOK, IssuedUpToGen, [Next]_vars, NEW u \in Ticket, NEW g \in Gen
             PROVE  /\ run'[u][g].state = "none" => run[u][g].state = "none"
                    /\ run[u][g].state # "none" => Kept(run[u][g], run'[u][g])
  BY DEF RowsStep
<1>1. CASE Kept(run[u][g], run'[u][g])
  BY <1>1 DEF Kept
<1>2. CASE IssuesNone
  BY <1>1, <1>2 DEF IssuesNone, RowsKept
<1>3. ASSUME NEW t \in Ticket, NEW n \in Gen, IssuesRun(t, n)
      PROVE  /\ run'[u][g].state = "none" => run[u][g].state = "none"
             /\ run[u][g].state # "none" => Kept(run[u][g], run'[u][g])
  <2>1. CASE u = t /\ g = n
    <3>1. g > session[u].gen
      BY <1>3, <2>1, Limits DEF IssuesRun, TypeOK, SessionRow, Gen
    <3> QED BY <1>3, <2>1, <3>1 DEF IssuesRun, IssuedUpToGen
  <2>2. CASE ~(u = t /\ g = n)
    BY <1>1, <1>3, <2>2 DEF IssuesRun
  <2> QED BY <2>1, <2>2
<1> QED BY <1>2, <1>3, NextIssues DEF IssuesAtMostOne

\* What every step starts from.
Setting == /\ StoreInv /\ WorkerTypes /\ WorkersInv
           /\ RowsStep
           /\ IsolationInv'

\* A step makes no threat but of a run that it admits, which is not isolating.
ThreatsFollow ==
    \A t \in Ticket, g \in Gen : Threat(t, g)' =>
        \/ Threat(t, g)
        \/ Held(t, g)' /\ run'[t][g].launch = "launched" /\ ~run'[t][g].isolating

LEMMA WatchedNext ==
    ASSUME WorkersInv, Spares, ThreatsFollow, NEW t \in Ticket, NEW g \in Gen
    PROVE  Watched(t, g)'
BY DEF WorkersInv, Spares, ThreatsFollow, Watched

LEMMA GoneNext ==
    ASSUME Setting, ThreatsFollow, NEW t \in Ticket, proof[t] = {} => proof'[t] = {}
    PROVE  Gone(t)'
<1> SUFFICES ASSUME proof'[t] # {}, NEW g \in Gen, session'[t].current = g, Threat(t, g)'
             PROVE  FALSE
  BY DEF Gone
<1>1. run'[t][g].isolating
  BY DEF Setting, IsolationInv, Soundness, Sound, Proven
<1>2. Threat(t, g)
  BY <1>1 DEF ThreatsFollow
<1>3. session[t].current = g
  BY <1>2 DEF Setting, WorkersInv, Watched, Held
<1> QED BY <1>2, <1>3 DEF Setting, WorkersInv, Gone

LEMMA RemovingNext ==
    ASSUME Setting, ThreatsFollow, NEW t \in Ticket, NEW c \in Caller,
           iso'[t][c] = iso[t][c] \/ iso'[t][c] = NoIsolation
    PROVE  Removing(t, c)'
<1> SUFFICES ASSUME NEW g \in Gen, iso'[t][c].gen = g
             PROVE  /\ run'[t][g].state # "none"
                    /\ run'[t][g].state = "running" => run'[t][g].isolating
                    /\ iso'[t][c].removed => ~Threat(t, g)'
  BY DEF Removing
<1>1. iso'[t][c] = iso[t][c]
  BY DEF NoIsolation, Gen
<1>2. /\ run[t][g].state # "none"
      /\ run[t][g].state = "running" => run[t][g].isolating
      /\ iso[t][c].removed => ~Threat(t, g)
  BY <1>1 DEF Setting, WorkersInv, Removing
<1>3. Kept(run[t][g], run'[t][g])
  BY <1>2 DEF Setting, RowsStep
<1>4. /\ run'[t][g].state # "none"
      /\ run'[t][g].state = "running" => run'[t][g].isolating
  BY <1>2, <1>3 DEF Kept
<1>5. ASSUME iso'[t][c].removed, Threat(t, g)'
      PROVE  FALSE
  <2>1. Held(t, g)' /\ ~run'[t][g].isolating
    BY <1>1, <1>2, <1>5 DEF ThreatsFollow
  <2> QED BY <1>4, <2>1 DEF Held
<1> QED BY <1>4, <1>5

\* The phase of a goroutine stays, ends, or begins with the run it drives; a
\* container stays or goes.
CalmAt(t, g) ==
    /\ box'[t][g] \in {box[t][g], "none"}
    /\ \/ worker'[t][g] \in {worker[t][g], "none"}
       \/ /\ worker'[t][g] = "preparing"
          /\ run[t][g].state = "none"
          /\ run'[t][g].state # "none"

LEMMA CalmLocal ==
    ASSUME Setting, NEW t \in Ticket, NEW g \in Gen, CalmAt(t, g)
    PROVE  Local(t, g)'
<1>1. /\ Local(t, g)
      /\ run'[t][g].state = "none" => run[t][g].state = "none"
      /\ run[t][g].state # "none" => Kept(run[t][g], run'[t][g])
  BY DEF Setting, WorkersInv, RowsStep
<1>2. CASE run[t][g].state = "none"
  <2>1. worker[t][g] = "none" /\ box[t][g] = "none"
    BY <1>1, <1>2 DEF Local
  <2>2. /\ box'[t][g] = "none"
        /\ worker'[t][g] \in {"none", "preparing"}
        /\ run'[t][g].state = "none" => worker'[t][g] = "none"
    BY <2>1 DEF CalmAt
  <2> QED BY <2>2 DEF Local
<1>3. CASE run[t][g].state # "none"
  <2>1. Kept(run[t][g], run'[t][g])
    BY <1>1, <1>3
  <2>2. worker'[t][g] \in {worker[t][g], "none"} /\ box'[t][g] \in {box[t][g], "none"}
    BY <1>3 DEF CalmAt
  <2> QED BY <1>1, <1>3, <2>1, <2>2 DEF Local, Kept
<1> QED BY <1>2, <1>3

LEMMA CalmThreat ==
    ASSUME NEW t \in Ticket, NEW g \in Gen, CalmAt(t, g), Threat(t, g)'
    PROVE  Threat(t, g)
BY DEF CalmAt, Threat

\* A step that is calm everywhere keeps the invariant.
LEMMA CalmStep ==
    ASSUME Setting, Safe, \A t \in Ticket, g \in Gen : CalmAt(t, g),
           \A t \in Ticket, c \in Caller :
             iso'[t][c] = iso[t][c] \/ iso'[t][c] = NoIsolation \/ Removing(t, c)'
    PROVE  WorkersInv'
<1>1. ThreatsFollow
  BY CalmThreat DEF ThreatsFollow
<1>2. \A t \in Ticket, g \in Gen : Local(t, g)' /\ Watched(t, g)'
  BY <1>1, CalmLocal, WatchedNext DEF Setting, Safe
<1>3. \A t \in Ticket : Gone(t)'
  <2> SUFFICES ASSUME NEW t \in Ticket PROVE Gone(t)'
    OBVIOUS
  <2>1. CASE NoThreat(t)
    BY <2>1, CalmThreat DEF NoThreat, Gone
  <2>2. CASE proof[t] = {} => proof'[t] = {}
    BY <1>1, <2>2, GoneNext
  <2> QED BY <2>1, <2>2 DEF Safe, ProofsHarmless
<1>4. \A t \in Ticket, c \in Caller : Removing(t, c)'
  BY <1>1, RemovingNext
<1> QED BY <1>2, <1>3, <1>4 DEF WorkersInv

\* So does a step of one goroutine whose run stays local and becomes a threat
\* only by its admission.
LEMMA PhaseStep ==
    ASSUME Setting, Spares, ProofsShrink, UNCHANGED iso, NEW t \in Ticket, NEW g \in Gen,
           \A u \in Ticket, h \in Gen : u # t \/ h # g =>
               box'[u][h] = box[u][h] /\ worker'[u][h] = worker[u][h],
           Local(t, g)',
           Threat(t, g)' =>
             \/ Threat(t, g)
             \/ Held(t, g)' /\ run'[t][g].launch = "launched" /\ ~run'[t][g].isolating
    PROVE  WorkersInv'
<1>1. ASSUME NEW u \in Ticket, NEW h \in Gen, u # t \/ h # g
      PROVE  CalmAt(u, h)
  BY <1>1 DEF CalmAt
<1>2. ThreatsFollow
  <2> SUFFICES ASSUME NEW u \in Ticket, NEW h \in Gen, Threat(u, h)'
               PROVE  \/ Threat(u, h)
                      \/ Held(u, h)' /\ run'[u][h].launch = "launched" /\ ~run'[u][h].isolating
    BY DEF ThreatsFollow
  <2>1. CASE u = t /\ h = g
    BY <2>1
  <2>2. CASE u # t \/ h # g
    BY <1>1, <2>2, CalmThreat
  <2> QED BY <2>1, <2>2
<1>3. \A u \in Ticket, h \in Gen : Local(u, h)' /\ Watched(u, h)'
  <2> SUFFICES ASSUME NEW u \in Ticket, NEW h \in Gen PROVE Local(u, h)' /\ Watched(u, h)'
    OBVIOUS
  <2>1. Watched(u, h)'
    BY <1>2, WatchedNext DEF Setting
  <2>2. CASE u = t /\ h = g
    BY <2>1, <2>2
  <2>3. CASE u # t \/ h # g
    BY <1>1, <2>1, <2>3, CalmLocal
  <2> QED BY <2>2, <2>3
<1>4. \A u \in Ticket : Gone(u)'
  BY <1>2, GoneNext DEF ProofsShrink
<1>5. \A u \in Ticket, c \in Caller : Removing(u, c)'
  BY <1>2, RemovingNext
<1> QED BY <1>3, <1>4, <1>5 DEF WorkersInv

-----------------------------------------------------------------------------
(* The steps.                                                              *)

\* What a step keeps of the invariant, and how it accepts candidates.
Upheld == WorkersInv' /\ AcceptedAlone

LEMMA MovesAt ==
    ASSUME WorkerTypes, NEW t \in Ticket, NEW g \in Gen, NEW from, NEW to, Moves(t, g, from, to)
    PROVE  /\ worker[t][g] \in from
           /\ worker'[t][g] = to
           /\ \A u \in Ticket, h \in Gen : u # t \/ h # g => worker'[u][h] = worker[u][h]
BY DEF WorkerTypes, Moves

\* A step that leaves goroutines, containers and isolations alone.
LEMMA LedgerStep ==
    ASSUME Setting, Safe, UNCHANGED workerVars
    PROVE  Upheld
<1>1. UNCHANGED <<worker, box, iso>>
  BY DEF workerVars
<1>2. \A t \in Ticket, g \in Gen : CalmAt(t, g)
  BY <1>1 DEF CalmAt
<1> QED BY <1>1, <1>2, CalmStep DEF Upheld, Safe

\* A step that ends a goroutine.
LEMMA EndStep ==
    ASSUME Setting, Safe, NEW t \in Ticket, NEW g \in Gen, NEW from, Moves(t, g, from, "none"),
           UNCHANGED <<box, iso>>
    PROVE  Upheld
<1>1. \A u \in Ticket, h \in Gen : CalmAt(u, h)
  BY MovesAt DEF CalmAt, Setting
<1> QED BY <1>1, CalmStep DEF Upheld, Safe

\* A claim issues the run whose goroutine it starts.
LEMMA ClaimIssues ==
    ASSUME StoreInv, NEW t \in Ticket, NEW s \in SessionRow, NEW rs \in [Gen -> RunRow], NEW kind,
           NEW revises, s.gen = session[t].gen, Issue(t, s, rs, kind, revises)
    PROVE  /\ session'[t].current \in Gen
           /\ session'[t].current > session[t].gen
           /\ run[t][session'[t].current].state = "none"
           /\ run'[t][session'[t].current].state = "running"
<1> DEFINE n == s.gen + 1
           r == [NewRow(kind, "running", s.epoch) EXCEPT !.revises = revises]
           s2 == [s EXCEPT !.state = "running", !.current = n, !.gen = n]
           rs2 == [rs EXCEPT ![n] = r]
<1>1. /\ n <= MaxGen
      /\ session' = [session EXCEPT ![t] = s2]
      /\ run' = [run EXCEPT ![t] = rs2]
  BY DEF Issue
<1>2. n \in Gen /\ n > session[t].gen
  BY <1>1, Limits DEF Gen, SessionRow
<1>3. s2.current = n
  BY DEF SessionRow
<1>4. rs2[n] = r /\ r.state = "running"
  BY <1>2 DEF NewRow
<1> HIDE DEF n, r, s2, rs2
<1>5. session'[t] = s2 /\ run'[t] = rs2
  BY <1>1 DEF StoreInv, TypeOK
<1>6. run[t][n].state = "none"
  BY <1>2 DEF StoreInv, FencingInv, Fenced, Unissued
<1> QED BY <1>2, <1>3, <1>4, <1>5, <1>6

LEMMA ClaimStep ==
    ASSUME ~HostPressure, Setting, NEW t \in Ticket, ClaimAndLaunch(t)
    PROVE  Upheld
<1> DEFINE n == session'[t].current
           s == [session[t] EXCEPT !.failures = ReviewFailures(t)]
<1>1. StoreInv /\ TypeOK
  BY DEF Setting, StoreInv
<1>2. ClaimReady(t) \/ ClaimQueuedReview(t)
  BY DEF ClaimAndLaunch
<1>3. Safe
  BY <1>1, <1>2, TicketStepSafe DEF Setting, TicketStep
<1>4. session[t] \in SessionRow
  BY <1>1 DEF TypeOK
<1>5. ReviewFailures(t) \in 0..MaxAttempts
  BY <1>4, IncrementType DEF ReviewFailures, SessionRow
<1>6. s \in SessionRow /\ s.gen = session[t].gen
  BY <1>4, <1>5 DEF SessionRow
<1>7. run[t] \in [Gen -> RunRow] /\ Superseded(t) \in [Gen -> RunRow]
  BY <1>1, SupersededType DEF TypeOK
<1>8. /\ n \in Gen
      /\ run[t][n].state = "none"
      /\ run'[t][n].state = "running"
  <2>1. CASE ClaimReady(t)
    BY <1>1, <1>4, <1>7, <2>1, ClaimIssues DEF ClaimReady
  <2>2. CASE ClaimQueuedReview(t)
    <3>1. PICK rs \in [Gen -> RunRow] : Issue(t, s, rs, "agent", TRUE)
      BY <1>7, <2>2 DEF ClaimQueuedReview
    <3> HIDE DEF s
    <3> QED BY <1>1, <1>6, <3>1, ClaimIssues
  <2> QED BY <1>2, <2>1, <2>2
<1>9. /\ worker' = [worker EXCEPT ![t][n] = "preparing"]
      /\ UNCHANGED <<box, iso>>
  BY DEF ClaimAndLaunch
<1>10. ASSUME NEW u \in Ticket, NEW g \in Gen
       PROVE  CalmAt(u, g)
  <2>1. worker'[u][g] = IF u = t /\ g = n THEN "preparing" ELSE worker[u][g]
    BY <1>8, <1>9 DEF Setting, WorkerTypes
  <2> QED BY <1>8, <1>9, <2>1 DEF CalmAt
<1> QED BY <1>3, <1>9, <1>10, CalmStep DEF Upheld, Safe

LEMMA MovesOnStep ==
    ASSUME ~HostPressure, Setting, NEW t \in Ticket, TicketMovesOn(t)
    PROVE  Upheld
<1>1. StoreInv /\ TypeOK /\ WorkersInv
  BY DEF Setting, StoreInv
<1>2. CASE TicketStep(t)
  BY <1>1, <1>2, TicketStepSafe, LedgerStep DEF TicketMovesOn
<1>3. ASSUME NEW g \in Gen, Lapse(t, g) \/ BeginWrite(t, g) \/ EndWrite(t, g)
      PROVE  Upheld
  BY <1>1, <1>3, ColumnStepSafe, LeavesAloneSafe, LedgerStep DEF TicketMovesOn, ColumnStep
<1>4. ASSUME NEW g \in Gen, RecoverUnlaunchedDelivery(t, g)
      PROVE  Upheld
  <2>1. Held(t, g) /\ run[t][g].launch = "ready"
    BY <1>4 DEF RecoverUnlaunchedDelivery, Delivering
  <2>2. ~Threat(t, g)
    BY <1>1, <2>1 DEF WorkersInv, Watched
  <2>3. RunStep(t, g)
    BY <1>4 DEF RunStep
  <2>4. Safe
    BY <1>1, <2>1, <2>2, <2>3, OutcomeSafe
  <2> QED BY <2>4, LedgerStep DEF TicketMovesOn
<1> QED BY <1>2, <1>3, <1>4 DEF TicketMovesOn, TicketStep

LEMMA ControlStepUpheld ==
    ASSUME ~RecoveryAuthFails, Setting, NEW t \in Ticket, ControlStep(t)
    PROVE  Upheld
<1>1. TypeOK /\ WorkersInv
  BY DEF Setting, StoreInv
<1>2. CallerStep(control, t) /\ Isolated(control, t) /\ UNCHANGED workerVars
  BY DEF ControlStep, ControlEnds, Reconcile, ReconcileAuthentication, CallerStep,
         ReconcileMissingRun, Escalate, MarkDelivered, RecoverAuthenticationFailure
<1>3. NoThreat(t)
  BY <1>1, <1>2, Callers, IsolatedNoThreat
<1>4. Safe
  BY <1>1, <1>2, <1>3, Callers, CallerSafe
<1> QED BY <1>2, <1>4, LedgerStep

-----------------------------------------------------------------------------
(* The steps of a goroutine up to the end of its container.                *)

\* The goroutine leaves phase from for phase to, and its container becomes b.
LEMMA MoveStep ==
    ASSUME Setting, Spares, ProofsShrink, AcceptedKept, UNCHANGED iso,
           NEW t \in Ticket, NEW g \in Gen, NEW from, NEW to, NEW b,
           Moves(t, g, from, to), box' = [box EXCEPT ![t][g] = b],
           Local(t, g)',
           b = "running" \/ (to = "starting" /\ b = "created") =>
             \/ Threat(t, g)
             \/ Held(t, g)' /\ run'[t][g].launch = "launched" /\ ~run'[t][g].isolating
    PROVE  Upheld
<1>1. /\ worker'[t][g] = to
      /\ \A u \in Ticket, h \in Gen : u # t \/ h # g => worker'[u][h] = worker[u][h]
  BY MovesAt DEF Setting
<1>2. /\ box'[t][g] = b
      /\ \A u \in Ticket, h \in Gen : u # t \/ h # g => box'[u][h] = box[u][h]
  BY DEF Setting, WorkerTypes
<1>3. Threat(t, g)' =>
        \/ Threat(t, g)
        \/ Held(t, g)' /\ run'[t][g].launch = "launched" /\ ~run'[t][g].isolating
  BY <1>1, <1>2 DEF Threat
<1>4. \A u \in Ticket, h \in Gen : u # t \/ h # g =>
        box'[u][h] = box[u][h] /\ worker'[u][h] = worker[u][h]
  BY <1>1, <1>2
<1>5. WorkersInv'
  BY <1>3, <1>4, PhaseStep
<1> QED BY <1>5 DEF Upheld, AcceptedKept, AcceptedAlone

LEMMA BoxStays ==
    ASSUME WorkerTypes, NEW t \in Ticket, NEW g \in Gen, UNCHANGED box
    PROVE  box' = [box EXCEPT ![t][g] = box[t][g]]
BY DEF WorkerTypes

\* A column of the run changes while its goroutine moves on.
LEMMA ColumnMoves ==
    ASSUME Setting, NEW t \in Ticket, NEW g \in Gen,
           \/ Prelaunch(t, g) \/ BeginCreate(t, g) \/ AdmitStart(t, g) \/ ReportContainer(t, g)
    PROVE  Upheld
<1>1. TypeOK /\ WorkersInv /\ WorkerTypes
  BY DEF Setting, StoreInv
<1>2. ColumnStep(t, g) /\ UNCHANGED <<box, iso>>
  BY DEF Prelaunch, BeginCreate, AdmitStart, ReportContainer, ColumnStep
<1>3. Spares /\ ProofsShrink /\ AcceptedKept
  BY <1>1, <1>2, ColumnStepSafe
<1>4. box' = [box EXCEPT ![t][g] = box[t][g]] /\ box'[t][g] = box[t][g]
  BY <1>1, <1>2, BoxStays
<1>5. Local(t, g) /\ run[t][g] \in RunRow
  BY <1>1 DEF WorkersInv, TypeOK
<1>6. CASE Prelaunch(t, g)
  <2>1. PICK from : Moves(t, g, from, "reserved")
    BY <1>6 DEF Prelaunch
  <2>2. /\ run[t][g].state = "running" /\ run[t][g].launch = "ready"
        /\ run'[t][g].state = "running" /\ run'[t][g].launch = "reserved"
    BY <1>1, <1>5, <1>6 DEF Prelaunch, ReservePrelaunch, Owned, Held, TypeOK, RunRow
  <2>3. worker'[t][g] = "reserved"
    BY <1>1, <2>1, MovesAt
  <2>4. Local(t, g)' /\ box[t][g] = "none"
    BY <1>4, <1>5, <2>2, <2>3 DEF Local
  <2> QED BY <1>2, <1>3, <1>4, <2>1, <2>4, MoveStep
<1>7. CASE BeginCreate(t, g)
  <2>1. Moves(t, g, {"reserved"}, "creating")
    BY <1>7 DEF BeginCreate
  <2>2. run'[t][g].state = "running" /\ run'[t][g].launch = "reserved"
    BY <1>1, <1>5, <1>7 DEF BeginCreate, AcquireCreateFence, Owned, Held, TypeOK, RunRow
  <2>3. worker'[t][g] = "creating"
    BY <1>1, <2>1, MovesAt
  <2>4. Local(t, g)'
    BY <2>2, <2>3 DEF Local
  <2>5. box[t][g] = "running" => Threat(t, g)
    BY DEF Threat
  <2> QED BY <1>2, <1>3, <1>4, <2>1, <2>4, <2>5, MoveStep
<1>8. CASE AdmitStart(t, g)
  <2>1. Moves(t, g, {"admitting"}, "starting")
    BY <1>8 DEF AdmitStart
  <2>2. /\ run'[t][g].state = "running" /\ run'[t][g].launch = "launched"
        /\ Held(t, g)' /\ ~run'[t][g].isolating
    BY <1>1, <1>5, <1>8 DEF AdmitStart, ReserveLaunch, Owned, Held, TypeOK, RunRow
  <2>3. worker'[t][g] = "starting"
    BY <1>1, <2>1, MovesAt
  <2>4. Local(t, g)'
    BY <2>2, <2>3 DEF Local
  <2> QED BY <1>2, <1>3, <1>4, <2>1, <2>2, <2>4, MoveStep
<1>9. CASE ReportContainer(t, g)
  <2>1. Moves(t, g, {"exited"}, "reported")
    BY <1>9 DEF ReportContainer
  <2>2. /\ run'[t][g].state = run[t][g].state /\ run'[t][g].launch = "launched"
    BY <1>1, <1>5, <1>9 DEF ReportContainer, RecordWorkerContainer, TypeOK, RunRow
  <2>3. worker'[t][g] = "reported" /\ worker[t][g] = "exited"
    BY <1>1, <2>1, MovesAt
  <2>4. Local(t, g)' /\ box[t][g] # "running"
    BY <1>4, <1>5, <2>2, <2>3 DEF Local
  <2> QED BY <1>2, <1>3, <1>4, <2>1, <2>4, MoveStep
<1> QED BY <1>6, <1>7, <1>8, <1>9

\* A run that a goroutine past its preparation drives has begun to launch.
LEMMA PhaseLocal ==
    ASSUME NEW t \in Ticket, NEW g \in Gen, Local(t, g), run'[t][g].state = run[t][g].state,
           run'[t][g].launch = run[t][g].launch,
           worker[t][g] \notin {"none", "preparing"}, worker'[t][g] # "none",
           worker'[t][g] \in {"preparing", "reserved", "unstarted", "exited", "reported"} =>
             box'[t][g] # "running"
    PROVE  Local(t, g)'
BY DEF Local

\* The goroutine of run g leaves phase from for phase to, past its start, and
\* the container becomes b: it is left running only where it ran, or where its
\* start was in flight.
Leaves(t, g, from, to, b) ==
    /\ Moves(t, g, from, to)
    /\ box' = [box EXCEPT ![t][g] = b]
    /\ worker[t][g] \notin {"none", "preparing"}
    /\ \/ to \in {"creating", "admitting", "attached", "unclean", "uncertain"}
       \/ to \in {"unstarted", "exited"} /\ b # "running"
    /\ b = "running" => Threat(t, g)

LEMMA LeavesStep ==
    ASSUME Setting, Spares, ProofsShrink, AcceptedKept, UNCHANGED iso,
           NEW t \in Ticket, NEW g \in Gen, NEW from, NEW to, NEW b, Leaves(t, g, from, to, b),
           run'[t][g].state = run[t][g].state, run'[t][g].launch = run[t][g].launch
    PROVE  Upheld
<1>1. Moves(t, g, from, to) /\ box' = [box EXCEPT ![t][g] = b]
  BY DEF Leaves
<1>2. worker'[t][g] = to /\ box'[t][g] = b
  BY <1>1, MovesAt DEF Setting, WorkerTypes
<1>3. Local(t, g)'
  BY <1>2, PhaseLocal DEF Leaves, Setting, WorkersInv
<1>4. b = "running" \/ (to = "starting" /\ b = "created") => Threat(t, g)
  BY DEF Leaves
<1> QED BY <1>1, <1>3, <1>4, MoveStep

LEMMA CleanUpLeaves ==
    ASSUME WorkerTypes, NEW t \in Ticket, NEW g \in Gen, NEW from, CleanUp(t, g, from),
           worker[t][g] \notin {"none", "preparing"}
    PROVE  \E to, b : Leaves(t, g, from, to, b)
<1>1. CASE Moves(t, g, from, "unstarted") /\ box' = [box EXCEPT ![t][g] = "none"]
  <2>1. Leaves(t, g, from, "unstarted", "none")
    BY <1>1 DEF Leaves
  <2> QED BY <2>1
<1>2. CASE Moves(t, g, from, "unclean") /\ UNCHANGED box
  <2>1. box' = [box EXCEPT ![t][g] = box[t][g]]
    BY <1>2, BoxStays
  <2>2. Leaves(t, g, from, "unclean", box[t][g])
    BY <1>2, <2>1 DEF Leaves, Threat
  <2> QED BY <2>2
<1> QED BY <1>1, <1>2 DEF CleanUp

LEMMA EndCreateStep ==
    ASSUME Setting, NEW t \in Ticket, NEW g \in Gen, EndCreate(t, g)
    PROVE  Upheld
<1>1. TypeOK /\ WorkersInv /\ WorkerTypes
  BY DEF Setting, StoreInv
<1>2. ColumnStep(t, g) /\ UNCHANGED iso
  BY DEF EndCreate, ColumnStep
<1>3. Spares /\ ProofsShrink /\ AcceptedKept
  BY <1>1, <1>2, ColumnStepSafe
<1>4. run'[t][g].state = run[t][g].state /\ run'[t][g].launch = run[t][g].launch
  <2>1. run[t][g] \in RunRow
    BY <1>1 DEF TypeOK
  <2> QED BY <1>1, <2>1 DEF EndCreate, ReleaseCreateFence, TypeOK, RunRow
<1>5. worker[t][g] = "creating"
  BY DEF EndCreate, CleanUp, Moves
<1>6. ASSUME NEW from, NEW to, NEW b, Leaves(t, g, from, to, b)
      PROVE  Upheld
  BY <1>2, <1>3, <1>4, <1>6, LeavesStep
<1>7. CASE CleanUp(t, g, {"creating"})
  BY <1>1, <1>5, <1>6, <1>7, CleanUpLeaves
<1>8. CASE box[t][g] = "created" /\ Moves(t, g, {"creating"}, "admitting") /\ UNCHANGED box
  <2>1. box' = [box EXCEPT ![t][g] = box[t][g]]
    BY <1>1, <1>8, BoxStays
  <2>2. Leaves(t, g, {"creating"}, "admitting", box[t][g])
    BY <1>5, <1>8, <2>1 DEF Leaves
  <2> QED BY <1>6, <2>2
<1> QED BY <1>7, <1>8 DEF EndCreate

\* The steps of docker, which the ledger does not see.
LEMMA DockerStep ==
    ASSUME Setting, NEW t \in Ticket, NEW g \in Gen,
           \/ RefusedBeforeCreate(t, g) \/ DockerCreates(t, g) \/ EndCreateFenced(t, g)
           \/ RejectStart(t, g) \/ DockerStarts(t, g) \/ LoseContainer(t, g)
           \/ ContainerExits(t, g)
    PROVE  Upheld
<1>1. WorkersInv /\ WorkerTypes /\ Local(t, g)
  BY DEF Setting, WorkersInv
<1>2. UNCHANGED vars /\ UNCHANGED iso
  BY DEF RefusedBeforeCreate, DockerCreates, EndCreateFenced, RejectStart, DockerStarts,
         LoseContainer, ContainerExits
<1>3. Spares /\ ProofsShrink /\ AcceptedKept
  BY <1>1, <1>2, UntouchedSafe
<1>4. run'[t][g].state = run[t][g].state /\ run'[t][g].launch = run[t][g].launch
  BY <1>2 DEF vars
<1>5. ASSUME NEW from, NEW to, NEW b, Leaves(t, g, from, to, b)
      PROVE  Upheld
  BY <1>2, <1>3, <1>4, <1>5, LeavesStep
<1>6. UNCHANGED box => box' = [box EXCEPT ![t][g] = box[t][g]]
  BY <1>1, BoxStays
<1>7. CASE RefusedBeforeCreate(t, g)
  <2>1. Moves(t, g, {"reserved"}, "unstarted") /\ UNCHANGED box /\ worker[t][g] = "reserved"
    BY <1>7 DEF RefusedBeforeCreate, Moves
  <2>2. Leaves(t, g, {"reserved"}, "unstarted", box[t][g])
    BY <1>1, <1>6, <2>1 DEF Leaves, Local
  <2> QED BY <1>5, <2>2
<1>8. CASE DockerCreates(t, g)
  <2>1. Moves(t, g, {"creating"}, "creating")
    BY <1>1, <1>8 DEF DockerCreates, Moves, WorkerTypes
  <2>2. Leaves(t, g, {"creating"}, "creating", "created")
    BY <1>8, <2>1 DEF DockerCreates, Leaves
  <2> QED BY <1>5, <2>2
<1>9. CASE EndCreateFenced(t, g) \/ RejectStart(t, g)
  <2>1. PICK from : CleanUp(t, g, from) /\ worker[t][g] \in {"creating", "admitting"}
    BY <1>9 DEF EndCreateFenced, RejectStart, CleanUp, Moves
  <2> QED BY <1>1, <1>5, <2>1, CleanUpLeaves
<1>10. CASE DockerStarts(t, g)
  <2>1. Leaves(t, g, {"starting"}, "attached", "running")
    BY <1>10 DEF DockerStarts, Moves, Leaves, Threat
  <2> QED BY <1>5, <2>1
<1>11. CASE LoseContainer(t, g)
  <2> DEFINE from == {"starting", "attached"}
  <2>1. Moves(t, g, from, "uncertain") /\ worker[t][g] \in from
    BY <1>11 DEF LoseContainer, Moves
  <2>2. CASE UNCHANGED box
    <3>1. Leaves(t, g, from, "uncertain", box[t][g])
      BY <1>6, <2>1, <2>2 DEF Leaves, Threat
    <3> QED BY <1>5, <3>1
  <2>3. CASE /\ worker[t][g] = "starting" /\ box[t][g] = "created"
             /\ box' = [box EXCEPT ![t][g] = "running"]
    <3>1. Leaves(t, g, from, "uncertain", "running")
      BY <2>1, <2>3 DEF Leaves, Threat
    <3> QED BY <1>5, <3>1
  <2> QED BY <1>11, <2>2, <2>3 DEF LoseContainer
<1>12. CASE ContainerExits(t, g)
  <2>1. Leaves(t, g, {"attached"}, "exited", "none")
    BY <1>12 DEF ContainerExits, Moves, Leaves
  <2> QED BY <1>5, <2>1
<1> QED BY <1>7, <1>8, <1>9, <1>10, <1>11, <1>12

-----------------------------------------------------------------------------
(* The steps of a goroutine that end it.                                   *)

\* What a goroutine is certain of is no threat.
LEMMA CertainNoThreat ==
    ASSUME WorkersInv, NEW t \in Ticket, NEW g \in Gen, Held(t, g),
           \/ worker[t][g] \in {"preparing", "reserved", "unstarted", "exited", "reported"}
           \/ g \in proof[t]
    PROVE  ~Threat(t, g)
<1>1. Local(t, g) /\ Gone(t)
  BY DEF WorkersInv
<1>2. CASE worker[t][g] \in {"preparing", "reserved", "unstarted", "exited", "reported"}
  BY <1>1, <1>2 DEF Local, Threat
<1>3. CASE g \in proof[t]
  BY <1>1, <1>3 DEF Gone, Held
<1> QED BY <1>2, <1>3

LEMMA AgentEndsStep ==
    ASSUME Setting, NEW t \in Ticket, NEW g \in Gen, AgentEnds(t, g)
    PROVE  Upheld
<1>1. TypeOK /\ WorkersInv
  BY DEF Setting, StoreInv
<1>2. RunStep(t, g) /\ Held(t, g)
  BY DEF AgentEnds, RunStep, RecordRunFailure, RecordRunAuthenticationFailure, Owned
<1>3. ~Threat(t, g)
  BY <1>1, <1>2, CertainNoThreat DEF AgentEnds, Certain
<1>4. Safe
  BY <1>1, <1>2, <1>3, OutcomeSafe
<1> QED BY <1>4, EndStep DEF AgentEnds

\* The goroutine of the agent ends and that of the delivery begins.
LEMMA AgentDeliversStep ==
    ASSUME Setting, NEW t \in Ticket, NEW g \in Gen, AgentDelivers(t, g)
    PROVE  Upheld
<1> DEFINE n == session'[t].current
           s == [session[t] EXCEPT !.accepted = g, !.failures = 0, !.epoch = session[t].epoch + 1]
           rs == Finish(t, g, "succeeded")
<1>1. TypeOK /\ StoreInv /\ WorkersInv /\ WorkerTypes
  BY DEF Setting, StoreInv
<1>2. AcceptCandidate(t, g) /\ worker[t][g] = "reported" /\ UNCHANGED <<box, iso>>
  BY DEF AgentDelivers
<1>3. RunStep(t, g) /\ Held(t, g)
  BY <1>2 DEF RunStep, AcceptCandidate, Owned
<1>4. Safe
  BY <1>1, <1>2, <1>3, CertainNoThreat, OutcomeSafe
<1>5. session[t] \in SessionRow /\ session[t].epoch < MaxEpoch
  BY <1>1, <1>2 DEF TypeOK, AcceptCandidate
<1>6. session[t].epoch + 1 \in 0..MaxEpoch /\ g \in 0..MaxGen /\ 0 \in 0..MaxAttempts
  BY <1>5, Limits DEF SessionRow, Gen
<1>7. s \in SessionRow /\ s.gen = session[t].gen
  BY <1>5, <1>6 DEF SessionRow
<1>8. rs \in [Gen -> RunRow]
  BY <1>1, FinishType DEF Final
<1>9. Issue(t, s, rs, "delivery", FALSE)
  BY <1>2 DEF AcceptCandidate
<1>10. /\ n \in Gen
       /\ run[t][n].state = "none"
       /\ run'[t][n].state = "running"
  <2> HIDE DEF s, rs
  <2> QED BY <1>1, <1>7, <1>8, <1>9, ClaimIssues
<1>11. n # g
  BY <1>3, <1>10 DEF Held
<1>12. ASSUME NEW u \in Ticket, NEW h \in Gen
       PROVE  CalmAt(u, h)
  <2>1. worker' = [worker EXCEPT ![t][g] = "none", ![t][n] = "preparing"]
    BY DEF AgentDelivers
  <2>2. /\ u # t \/ (h # g /\ h # n) => worker'[u][h] = worker[u][h]
        /\ u = t /\ h = g => worker'[u][h] = "none"
        /\ u = t /\ h = n => worker'[u][h] = "preparing"
    BY <1>1, <1>10, <1>11, <2>1 DEF WorkerTypes
  <2> QED BY <1>2, <1>10, <2>2 DEF CalmAt
<1> QED BY <1>2, <1>4, <1>12, CalmStep DEF Upheld, Safe

\* A delivery ends once its container is isolated, or was never a threat.
LEMMA DeliveryEndsStep ==
    ASSUME Setting, NEW t \in Ticket, NEW g \in Gen,
           \/ DeliveryPreflightFails(t, g) \/ DeliveryNeverStarted(t, g) \/ DeliveryLost(t, g)
           \/ DeliveryUnrecorded(t, g) \/ DeliveryReports(t, g)
    PROVE  Upheld
<1>1. TypeOK /\ WorkersInv /\ g \in Caller
  BY Callers DEF Setting, StoreInv
<1>2. PICK from : Moves(t, g, from, "none") /\ UNCHANGED <<box, iso>>
  BY DEF DeliveryPreflightFails, DeliveryNeverStarted, DeliveryLost, DeliveryUnrecorded,
         DeliveryReports
<1>3. CallerStep(g, t) \/ RunStep(t, g)
  BY DEF DeliveryPreflightFails, DeliveryNeverStarted, DeliveryLost, DeliveryUnrecorded,
         DeliveryReports, CallerStep, RunStep
<1>4. Held(t, g)
  BY DEF DeliveryPreflightFails, DeliveryNeverStarted, DeliveryLost, DeliveryUnrecorded,
         DeliveryReports, FailDelivery, FinishLapsedDelivery, FailDeliveryWithClass,
         FailDeliveryLaunch, RevalidateDelivery, DeferDelivery, CompleteDelivery,
         PauseForQualityGate, Delivering
<1>5. \/ worker[t][g] \in {"preparing", "reserved", "unstarted", "exited", "reported"}
      \/ Isolated(g, t)
  BY DEF DeliveryPreflightFails, DeliveryNeverStarted, DeliveryLost, DeliveryUnrecorded,
         DeliveryReports, FinishLapsedDelivery, FailDeliveryWithClass, FailDeliveryLaunch, Moves
<1>6. NoThreat(t)
  <2>1. CASE Isolated(g, t)
    BY <1>1, <2>1, IsolatedNoThreat
  <2>2. CASE worker[t][g] \in {"preparing", "reserved", "unstarted", "exited", "reported"}
    BY <1>1, <1>4, <2>2, CertainNoThreat, HeldNoThreat
  <2> QED BY <1>5, <2>1, <2>2
<1>7. Safe
  BY <1>1, <1>3, <1>4, <1>6, CallerSafe, OutcomeSafe DEF NoThreat
<1> QED BY <1>2, <1>7, EndStep

LEMMA UnrecordedStep ==
    ASSUME Setting, NEW t \in Ticket, NEW g \in Gen, GiveUp(t, g) \/ OrphanExits(t, g)
    PROVE  Upheld
<1>1. WorkersInv /\ WorkerTypes /\ UNCHANGED vars
  BY DEF Setting, GiveUp, OrphanExits
<1>2. Safe
  BY <1>1, UntouchedSafe, LeavesAloneSafe
<1>3. CASE GiveUp(t, g)
  BY <1>2, <1>3, EndStep DEF GiveUp
<1>4. CASE OrphanExits(t, g)
  <2>1. \A u \in Ticket, h \in Gen : CalmAt(u, h)
    BY <1>1, <1>4 DEF OrphanExits, WorkerTypes, CalmAt
  <2> QED BY <1>2, <1>4, <2>1, CalmStep DEF OrphanExits, Upheld, Safe
<1> QED BY <1>3, <1>4

-----------------------------------------------------------------------------
(* Isolations and crashes.                                                 *)

LEMMA BeginIsolationStep ==
    ASSUME Setting, NEW c \in Caller, NEW t \in Ticket, BeginIsolation(c, t)
    PROVE  Upheld
<1> DEFINE g == session[t].current
           r == [run[t][g] EXCEPT !.isolating = TRUE]
<1>1. TypeOK /\ WorkersInv /\ WorkerTypes
  BY DEF Setting, StoreInv
<1>2. /\ FenceIsolation(c, t)
      /\ iso' = [iso EXCEPT ![t][c] = [gen |-> g, removed |-> FALSE]]
      /\ UNCHANGED <<worker, box>>
  BY DEF BeginIsolation
<1>3. g \in Gen /\ run[t][g].state = "running"
  BY <1>2 DEF FenceIsolation, IsTarget, Held
<1>4. /\ run' = [run EXCEPT ![t][g] = r]
      /\ UNCHANGED <<session, proof>>
  BY <1>2 DEF FenceIsolation
<1>5. /\ r.state = run[t][g].state /\ r.leased = run[t][g].leased
      /\ r.launch = run[t][g].launch /\ r.isolating
  BY <1>1, <1>3 DEF TypeOK, RunRow
<1> HIDE DEF r
<1>6. Spares
  <2> HIDE DEF g
  <2> QED BY <1>1, <1>3, <1>4, <1>5, ColumnSpares
<1>7. Safe
  BY <1>4, <1>6, LeavesAloneSafe DEF ProofsShrink, AcceptedKept
<1>8. run'[t][g] = r
  BY <1>1, <1>3, <1>4 DEF TypeOK
<1>9. Removing(t, c)'
  <2>1. iso'[t][c] = [gen |-> g, removed |-> FALSE]
    BY <1>1, <1>2 DEF WorkerTypes
  <2>2. iso'[t][c].gen = g /\ ~iso'[t][c].removed
    BY <2>1
  <2> HIDE DEF g
  <2> QED BY <1>3, <1>5, <1>8, <2>2 DEF Removing
<1>10. \A u \in Ticket, d \in Caller : iso'[u][d] = iso[u][d] \/ Removing(u, d)'
  BY <1>1, <1>2, <1>9 DEF WorkerTypes
<1>11. \A u \in Ticket, h \in Gen : CalmAt(u, h)
  BY <1>2 DEF CalmAt
<1> QED BY <1>7, <1>10, <1>11, CalmStep DEF Upheld, Safe

LEMMA RemoveContainersStep ==
    ASSUME Setting, NEW c \in Caller, NEW t \in Ticket, RemoveContainers(c, t)
    PROVE  Upheld
<1>1. WorkersInv /\ WorkerTypes /\ UNCHANGED vars /\ UNCHANGED worker
  BY DEF Setting, RemoveContainers
<1>2. Safe
  BY <1>1, UntouchedSafe, LeavesAloneSafe
<1>3. PICK g \in Gen : g = iso[t][c].gen
  BY <1>1, Limits DEF RemoveContainers, WorkerTypes, Isolation, Gen
<1>4. box' = [box EXCEPT ![t][g] = "none"]
  BY <1>3 DEF RemoveContainers
<1>5. \/ iso' = [iso EXCEPT ![t][c] = NoIsolation]
      \/ iso' = [iso EXCEPT ![t][c] = [iso[t][c] EXCEPT !.removed = TRUE]]
  BY <1>1 DEF RemoveContainers, WorkerTypes
<1>6. box'[t][g] = "none"
  BY <1>1, <1>3, <1>4 DEF WorkerTypes
<1>7. \A u \in Ticket, h \in Gen : CalmAt(u, h)
  BY <1>1, <1>3, <1>4 DEF WorkerTypes, CalmAt
<1>8. CASE iso' = [iso EXCEPT ![t][c] = [iso[t][c] EXCEPT !.removed = TRUE]]
  <2>1. iso[t][c] \in Isolation
    BY <1>1 DEF WorkerTypes
  <2>2. iso'[t][c] = [iso[t][c] EXCEPT !.removed = TRUE]
    BY <1>1, <1>8 DEF WorkerTypes
  <2>3. iso'[t][c].gen = g
    BY <1>3, <2>1, <2>2 DEF Isolation
  <2>4. ~Threat(t, g)'
    BY <1>6 DEF Threat
  <2>5. Removing(t, c)
    BY <1>1 DEF WorkersInv
  <2>6. Removing(t, c)'
    BY <1>1, <1>3, <2>3, <2>4, <2>5 DEF Removing, vars
  <2>7. \A u \in Ticket, d \in Caller : iso'[u][d] = iso[u][d] \/ Removing(u, d)'
    BY <1>1, <1>8, <2>6 DEF WorkerTypes
  <2> QED BY <1>2, <1>7, <2>7, CalmStep DEF Upheld, Safe
<1>9. CASE iso' = [iso EXCEPT ![t][c] = NoIsolation]
  <2>1. \A u \in Ticket, d \in Caller : iso'[u][d] = iso[u][d] \/ iso'[u][d] = NoIsolation
    BY <1>1, <1>9 DEF WorkerTypes
  <2> QED BY <1>2, <1>7, <2>1, CalmStep DEF Upheld, Safe
<1> QED BY <1>5, <1>8, <1>9

\* The acknowledgement proves what the removal established.
LEMMA EndIsolationStep ==
    ASSUME Setting, NEW c \in Caller, NEW t \in Ticket,
           EndIsolation(c, t) \/ AbortIsolation(c, t)
    PROVE  Upheld
<1>1. TypeOK /\ WorkersInv /\ WorkerTypes
  BY DEF Setting, StoreInv
<1>2. iso' = [iso EXCEPT ![t][c] = NoIsolation] /\ UNCHANGED <<worker, box>>
  BY DEF EndIsolation, AbortIsolation
<1>3. \A u \in Ticket, d \in Caller : iso'[u][d] = iso[u][d] \/ iso'[u][d] = NoIsolation
  BY <1>1, <1>2 DEF WorkerTypes
<1>4. \A u \in Ticket, h \in Gen : CalmAt(u, h)
  BY <1>2 DEF CalmAt
<1>5. CASE EndIsolation(c, t)
  <2>1. /\ iso[t][c].removed /\ iso[t][c].gen = session[t].current
        /\ AcknowledgeIsolation(c, t)
    BY <1>5 DEF EndIsolation
  <2>2. PICK g \in Gen : Held(t, g)
    BY <2>1 DEF AcknowledgeIsolation, IsTarget
  <2>3. ~Threat(t, g)
    BY <1>1, <2>1, <2>2 DEF WorkersInv, Removing, Held
  <2>4. Safe
    <3>1. NoThreat(t)
      BY <1>1, <2>2, <2>3, HeldNoThreat
    <3>2. CallerStep(c, t)
      BY <2>1 DEF CallerStep
    <3> QED BY <1>1, <3>1, <3>2, CallerSafe
  <2> QED BY <1>3, <1>4, <2>4, CalmStep DEF Upheld, Safe
<1>6. CASE AbortIsolation(c, t)
  <2>1. Safe
    BY <1>1, <1>6, UntouchedSafe, LeavesAloneSafe DEF AbortIsolation
  <2> QED BY <1>3, <1>4, <2>1, CalmStep DEF Upheld, Safe
<1> QED BY <1>5, <1>6

\* After a crash a start in flight may still take effect, of a run that holds
\* its ticket; and nobody has a proof any more.
LEMMA CrashStep ==
    ASSUME Setting, Crash
    PROVE  Upheld
<1>1. TypeOK /\ WorkersInv /\ WorkerTypes
  BY DEF Setting, StoreInv
<1>2. UNCHANGED session /\ UNCHANGED run
  BY DEF Crash
<1>3. ASSUME NEW t \in Ticket, NEW g \in Gen
      PROVE  /\ worker'[t][g] = "none"
             /\ \/ box'[t][g] = box[t][g]
                \/ worker[t][g] = "creating" /\ box'[t][g] = "created"
                \/ worker[t][g] = "starting" /\ box[t][g] = "created" /\ box'[t][g] = "running"
  BY DEF Crash
<1>4. \A t \in Ticket, c \in Caller : iso'[t][c] = NoIsolation
  BY DEF Crash
<1>5. \A t \in Ticket : proof'[t] = {}
  BY DEF Crash
<1>6. Spares
  BY <1>1, <1>2, UntouchedSpares
<1>7. ThreatsFollow
  BY <1>3 DEF ThreatsFollow, Threat
<1>8. \A t \in Ticket, g \in Gen : Local(t, g)' /\ Watched(t, g)'
  <2> SUFFICES ASSUME NEW t \in Ticket, NEW g \in Gen PROVE Local(t, g)' /\ Watched(t, g)'
    OBVIOUS
  <2>1. Local(t, g)
    BY <1>1 DEF WorkersInv
  <2>2. Local(t, g)'
    BY <1>2, <1>3, <2>1 DEF Local
  <2> QED BY <1>1, <1>6, <1>7, <2>2, WatchedNext
<1>9. \A t \in Ticket : Gone(t)'
  BY <1>5 DEF Gone
<1>10. \A t \in Ticket, c \in Caller : Removing(t, c)'
  BY <1>4, <1>7, RemovingNext
<1> QED BY <1>2, <1>8, <1>9, <1>10 DEF Upheld, WorkersInv, AcceptedAlone

\* Every step of the composition, outside of what the runs zombie_auth,
\* zombie_review and stale_answer show.
LEMMA NextUpheld ==
    ASSUME ~HostPressure, ~RecoveryAuthFails, Setting, [NextWorkers]_allVars
    PROVE  Upheld
<1>1. CASE UNCHANGED allVars
  <2>1. UNCHANGED vars /\ UNCHANGED workerVars
    BY <1>1 DEF allVars
  <2>2. Safe
    BY <2>1, UntouchedSafe, LeavesAloneSafe DEF Setting
  <2> QED BY <2>1, <2>2, LedgerStep
<1>2. ASSUME NEW t \in Ticket, ClaimAndLaunch(t) \/ TicketMovesOn(t) \/ ControlStep(t)
      PROVE  Upheld
  BY <1>2, ClaimStep, MovesOnStep, ControlStepUpheld
<1>3. ASSUME NEW t \in Ticket, NEW g \in Gen, WorkerStep(t, g)
      PROVE  Upheld
  <2>1. CASE \/ Prelaunch(t, g) \/ BeginCreate(t, g) \/ AdmitStart(t, g)
             \/ ReportContainer(t, g)
    BY <2>1, ColumnMoves
  <2>2. CASE \/ RefusedBeforeCreate(t, g) \/ DockerCreates(t, g) \/ EndCreateFenced(t, g)
             \/ RejectStart(t, g) \/ DockerStarts(t, g) \/ LoseContainer(t, g)
             \/ ContainerExits(t, g)
    BY <2>2, DockerStep
  <2>3. CASE \/ DeliveryPreflightFails(t, g) \/ DeliveryNeverStarted(t, g)
             \/ DeliveryLost(t, g) \/ DeliveryUnrecorded(t, g) \/ DeliveryReports(t, g)
    BY <2>3, DeliveryEndsStep
  <2>4. CASE \/ EndCreate(t, g) \/ AgentEnds(t, g) \/ AgentDelivers(t, g)
             \/ GiveUp(t, g) \/ OrphanExits(t, g)
    BY <2>4, EndCreateStep, AgentEndsStep, AgentDeliversStep, UnrecordedStep
  <2> QED BY <1>3, <2>1, <2>2, <2>3, <2>4 DEF WorkerStep
<1>4. ASSUME NEW c \in Caller, NEW t \in Ticket, IsolationStep(c, t)
      PROVE  Upheld
  BY <1>4, BeginIsolationStep, RemoveContainersStep, EndIsolationStep DEF IsolationStep
<1> QED BY <1>1, <1>2, <1>3, <1>4, CrashStep DEF NextWorkers

-----------------------------------------------------------------------------
(* Types.                                                                  *)

Boxes == {"none", "created", "running"}

LEMMA MovesType ==
    ASSUME WorkerTypes, NEW t \in Ticket, NEW g \in Gen, NEW from, NEW to \in Phase,
           Moves(t, g, from, to)
    PROVE  worker' \in [Ticket -> [Gen -> Phase]]
BY DEF WorkerTypes, Moves

LEMMA BoxType ==
    ASSUME WorkerTypes, NEW t \in Ticket, NEW g \in Gen, NEW b \in Boxes,
           UNCHANGED box \/ box' = [box EXCEPT ![t][g] = b]
    PROVE  box' \in [Ticket -> [Gen -> Boxes]]
<1>1. box \in [Ticket -> [Gen -> Boxes]]
  BY DEF WorkerTypes, Boxes
<1>2. CASE box' = [box EXCEPT ![t][g] = b]
  BY <1>1, <1>2
<1> QED BY <1>1, <1>2

LEMMA CleanUpTypes ==
    ASSUME WorkerTypes, NEW t \in Ticket, NEW g \in Gen, NEW from, CleanUp(t, g, from)
    PROVE  worker' \in [Ticket -> [Gen -> Phase]] /\ box' \in [Ticket -> [Gen -> Boxes]]
<1>1. PICK to \in {"unstarted", "unclean"} : Moves(t, g, from, to)
  BY DEF CleanUp
<1>2. to \in Phase /\ "none" \in Boxes
  BY DEF Phase, Boxes
<1> QED BY <1>1, <1>2, MovesType, BoxType DEF CleanUp

LEMMA WorkerStepTypes ==
    ASSUME WorkerTypes, NEW t \in Ticket, NEW g \in Gen, WorkerStep(t, g)
    PROVE  WorkerTypes' /\ UNCHANGED crashes
<1> SUFFICES /\ worker' \in [Ticket -> [Gen -> Phase]]
             /\ box' \in [Ticket -> [Gen -> Boxes]]
             /\ UNCHANGED <<iso, crashes>>
  BY DEF WorkerTypes, Boxes
<1>2. "none" \in Boxes /\ "created" \in Boxes /\ "running" \in Boxes
  BY DEF Boxes
<1>3. UNCHANGED <<iso, crashes>>
  BY DEF WorkerStep, Prelaunch, BeginCreate, RefusedBeforeCreate, DockerCreates, EndCreate,
         EndCreateFenced, AdmitStart, RejectStart, DockerStarts, LoseContainer, ContainerExits,
         ReportContainer, AgentEnds, AgentDelivers, DeliveryPreflightFails,
         DeliveryNeverStarted, DeliveryLost, DeliveryUnrecorded, DeliveryReports, GiveUp,
         OrphanExits
<1>4. CASE \E from : CleanUp(t, g, from)
  BY <1>3, <1>4, CleanUpTypes
<1>5. CASE \E from : \E to \in Phase : Moves(t, g, from, to) /\ UNCHANGED box
  BY <1>2, <1>3, <1>5, MovesType, BoxType
<1>6. CASE \/ Prelaunch(t, g) \/ BeginCreate(t, g) \/ RefusedBeforeCreate(t, g)
           \/ AdmitStart(t, g) \/ ReportContainer(t, g) \/ AgentEnds(t, g)
  BY <1>5, <1>6 DEF Prelaunch, BeginCreate, RefusedBeforeCreate, AdmitStart, ReportContainer,
                    AgentEnds, Phase
<1>7. CASE \/ DeliveryPreflightFails(t, g) \/ DeliveryNeverStarted(t, g) \/ DeliveryLost(t, g)
           \/ DeliveryUnrecorded(t, g) \/ DeliveryReports(t, g) \/ GiveUp(t, g)
  BY <1>5, <1>7 DEF DeliveryPreflightFails, DeliveryNeverStarted, DeliveryLost,
                    DeliveryUnrecorded, DeliveryReports, GiveUp, Phase
<1>8. CASE EndCreate(t, g) \/ EndCreateFenced(t, g) \/ RejectStart(t, g)
  BY <1>4, <1>5, <1>8 DEF EndCreate, EndCreateFenced, RejectStart, Phase
<1>9. CASE DockerCreates(t, g) \/ OrphanExits(t, g)
  <2>1. worker' = worker
    BY <1>9 DEF DockerCreates, OrphanExits
  <2>2. \E b \in Boxes : box' = [box EXCEPT ![t][g] = b]
    BY <1>2, <1>9 DEF DockerCreates, OrphanExits
  <2> QED BY <1>3, <2>1, <2>2, BoxType DEF WorkerTypes
<1>10. CASE DockerStarts(t, g) \/ LoseContainer(t, g) \/ ContainerExits(t, g)
  <2>1. \E from : \E to \in Phase : Moves(t, g, from, to)
    BY <1>10 DEF DockerStarts, LoseContainer, ContainerExits, Phase
  <2>2. UNCHANGED box \/ \E b \in Boxes : box' = [box EXCEPT ![t][g] = b]
    BY <1>2, <1>10 DEF DockerStarts, LoseContainer, ContainerExits
  <2> QED BY <1>2, <1>3, <2>1, <2>2, MovesType, BoxType
<1>11. CASE AgentDelivers(t, g)
  <2>1. "none" \in Phase /\ "preparing" \in Phase
    BY DEF Phase
  <2>2. worker' \in [Ticket -> [Gen -> Phase]]
    BY <1>11, <2>1 DEF AgentDelivers, WorkerTypes
  <2> QED BY <1>2, <1>3, <1>11, <2>2, BoxType DEF AgentDelivers
<1> QED BY <1>6, <1>7, <1>8, <1>9, <1>10, <1>11 DEF WorkerStep

LEMMA IsolationStepTypes ==
    ASSUME TypeOK, WorkerTypes, NEW c \in Caller, NEW t \in Ticket, IsolationStep(c, t)
    PROVE  WorkerTypes' /\ UNCHANGED crashes
<1>1. iso[t][c] \in Isolation /\ NoIsolation \in Isolation
  BY Limits DEF WorkerTypes, Isolation, NoIsolation
<1>2. session[t].current \in 0..MaxGen
  BY DEF TypeOK, SessionRow
<1>3. [gen |-> session[t].current, removed |-> FALSE] \in Isolation
  BY <1>2 DEF Isolation
<1>4. [iso[t][c] EXCEPT !.removed = TRUE] \in Isolation
  BY <1>1 DEF Isolation
<1>5. \E i \in Isolation : iso' = [iso EXCEPT ![t][c] = i]
  BY <1>1, <1>3, <1>4 DEF IsolationStep, BeginIsolation, RemoveContainers, EndIsolation,
                          AbortIsolation, WorkerTypes
<1>6. iso' \in [Ticket -> [Caller -> Isolation]]
  BY <1>5 DEF WorkerTypes
<1>7. UNCHANGED <<worker, crashes>>
  BY DEF IsolationStep, BeginIsolation, RemoveContainers, EndIsolation, AbortIsolation
<1>8. CASE UNCHANGED box
  BY <1>6, <1>7, <1>8 DEF WorkerTypes
<1>9. CASE RemoveContainers(c, t)
  <2>1. iso[t][c].gen \in Gen
    BY <1>1, <1>9, Limits DEF RemoveContainers, Isolation, Gen
  <2>2. box' \in [Ticket -> [Gen -> Boxes]]
    BY <1>9, <2>1, BoxType DEF RemoveContainers, Boxes
  <2> QED BY <1>6, <1>7, <2>2 DEF WorkerTypes, Boxes
<1> QED BY <1>8, <1>9 DEF IsolationStep, BeginIsolation, EndIsolation, AbortIsolation

LEMMA WorkersNextType ==
    ASSUME WorkersTypeOK, [NextWorkers]_allVars
    PROVE  WorkersTypeOK'
<1>1. TypeOK /\ WorkerTypes /\ crashes \in 0..MaxCrashes
  BY DEF WorkersTypeOK, WorkerTypes
<1>2. TypeOK'
  BY <1>1, StepOfTheLedger, NextType
<1> SUFFICES WorkerTypes' /\ crashes' \in 0..MaxCrashes
  BY <1>2 DEF WorkersTypeOK, WorkerTypes
<1>3. CASE UNCHANGED workerVars
  BY <1>1, <1>3 DEF workerVars, WorkerTypes
<1>4. ASSUME NEW t \in Ticket, ClaimAndLaunch(t)
      PROVE  WorkerTypes' /\ crashes' \in 0..MaxCrashes
  <2>1. "preparing" \in Phase
    BY DEF Phase
  <2>2. worker' \in [Ticket -> [Gen -> Phase]]
    BY <1>1, <1>4, <2>1 DEF ClaimAndLaunch, WorkerTypes
  <2> QED BY <1>1, <1>4, <2>2 DEF ClaimAndLaunch, WorkerTypes
<1>5. ASSUME NEW t \in Ticket, TicketMovesOn(t) \/ ControlStep(t)
      PROVE  UNCHANGED workerVars
  BY <1>5 DEF TicketMovesOn, ControlStep, ControlEnds, Reconcile, ReconcileAuthentication
<1>6. CASE Crash
  <2>1. crashes' \in 0..MaxCrashes
    BY <1>1, <1>6, WorkerAssumption DEF Crash
  <2>2. worker' \in [Ticket -> [Gen -> Phase]] /\ iso' \in [Ticket -> [Caller -> Isolation]]
    BY <1>6, Limits DEF Crash, Phase, Isolation, NoIsolation
  <2>3. PICK late \in BOOLEAN :
          box' = [t \in Ticket |-> [g \in Gen |->
                    CASE late /\ worker[t][g] = "creating" -> "created"
                      [] late /\ worker[t][g] = "starting" /\ box[t][g] = "created" -> "running"
                      [] OTHER -> box[t][g]]]
    BY <1>6 DEF Crash
  <2>4. \A t \in Ticket, g \in Gen :
          box'[t][g] \in {"none", "created", "running"}
    BY <1>1, <2>3 DEF WorkerTypes
  <2>5. box' \in [Ticket -> [Gen -> {"none", "created", "running"}]]
    BY <2>3, <2>4
  <2> QED BY <2>1, <2>2, <2>5 DEF WorkerTypes
<1>7. ASSUME UNCHANGED allVars
      PROVE  UNCHANGED workerVars
  BY <1>7 DEF allVars
<1> QED BY <1>1, <1>3, <1>4, <1>5, <1>6, <1>7, WorkerStepTypes, IsolationStepTypes
        DEF NextWorkers

\* Goroutines, containers and isolations keep their types.
THEOREM WorkersTypesHold == SpecWorkers => []WorkersTypeOK
<1>1. InitWorkers => WorkersTypeOK
  <2> SUFFICES ASSUME InitWorkers PROVE WorkersTypeOK
    OBVIOUS
  <2>1. TypeOK
    BY InitType DEF InitWorkers
  <2>2. "none" \in Phase /\ NoIsolation \in Isolation /\ 0 \in 0..MaxCrashes
    BY Limits, WorkerAssumption DEF Phase, Isolation, NoIsolation
  <2> QED BY <2>1, <2>2 DEF InitWorkers, WorkersTypeOK
<1> QED BY <1>1, WorkersNextType, PTL DEF SpecWorkers

-----------------------------------------------------------------------------
(* The theorems.                                                           *)

LEMMA UpheldNext ==
    ASSUME ~HostPressure, ~RecoveryAuthFails,
           StoreInv, WorkersTypeOK, IsolationInv', IssuedUpToGen, WorkersInv,
           [NextWorkers]_allVars
    PROVE  Upheld
<1>1. WorkerTypes
  BY DEF WorkersTypeOK, WorkerTypes
<1>2. RowsStep
  BY StepOfTheLedger, RowsStepHolds DEF StoreInv
<1> QED BY <1>1, <1>2, NextUpheld DEF Setting

\* The invariant holds where operators only answer what is still asked, where
\* recovery does not fail to authenticate, and where polls follow recovery.
THEOREM WorkersInvHolds ==
    ASSUME ~StaleAnswers, ~RecoveryAuthFails, ~HostPressure
    PROVE  SpecWorkers => []WorkersInv
<1>1. InitWorkers => WorkersInv
  <2> SUFFICES ASSUME InitWorkers PROVE WorkersInv
    OBVIOUS
  <2>1. /\ \A t \in Ticket : proof[t] = {}
        /\ \A t \in Ticket, g \in Gen : worker[t][g] = "none" /\ box[t][g] = "none"
    BY DEF InitWorkers, Init
  <2>2. \A t \in Ticket, c \in Caller, g \in Gen : iso[t][c].gen # g
    BY DEF InitWorkers, NoIsolation, Gen
  <2>3. \A t \in Ticket, g \in Gen : ~Threat(t, g) /\ Local(t, g)
    BY <2>1 DEF Threat, Local
  <2> QED BY <2>1, <2>2, <2>3 DEF WorkersInv, Watched, Gone, Removing
<1>2. /\ StoreInv /\ WorkersTypeOK /\ IsolationInv' /\ IssuedUpToGen
      /\ WorkersInv /\ [NextWorkers]_allVars
      => WorkersInv'
  BY UpheldNext DEF Upheld
<1> QED BY <1>1, <1>2, WorkersImplementStore, WorkersTypesHold, StoreIsFenced,
           IsolationIsSound, IssuedUpToGenHolds, PTL DEF SpecWorkers

\* Only the run that holds its ticket has a running container (NoZombie).
THEOREM NoZombieHolds ==
    ASSUME ~StaleAnswers, ~RecoveryAuthFails, ~HostPressure
    PROVE  SpecWorkers => []NoZombie
<1>1. WorkersInv => NoZombie
  BY DEF WorkersInv, Watched, Threat, NoZombie
<1> QED BY <1>1, WorkersInvHolds, PTL

\* A proof of isolation can be relied on (ProofMeansGone).
THEOREM ProofMeansGoneHolds ==
    ASSUME ~StaleAnswers, ~RecoveryAuthFails, ~HostPressure
    PROVE  SpecWorkers => []ProofMeansGone
<1>1. WorkersInv /\ IsolationInv => ProofMeansGone
  BY DEF WorkersInv, Gone, Threat, IsolationInv, Soundness, Sound, ProofMeansGone
<1> QED BY <1>1, WorkersInvHolds, WorkersImplementStore, IsolationIsSound, PTL

\* No candidate is accepted beside a running container of its ticket
\* (AcceptedAloneInWorkspace).
THEOREM AcceptedAloneHolds ==
    ASSUME ~StaleAnswers, ~RecoveryAuthFails, ~HostPressure
    PROVE  SpecWorkers => AcceptedAloneInWorkspace
<1>1. /\ StoreInv /\ WorkersTypeOK /\ IsolationInv' /\ IssuedUpToGen
      /\ WorkersInv /\ [NextWorkers]_allVars
      => [AcceptedAlone]_allVars
  BY UpheldNext DEF Upheld
<1> QED BY <1>1, WorkersInvHolds, WorkersImplementStore, WorkersTypesHold, StoreIsFenced,
           IsolationIsSound, IssuedUpToGenHolds, PTL
        DEF SpecWorkers, AcceptedAloneInWorkspace, AcceptedAlone

=============================================================================
