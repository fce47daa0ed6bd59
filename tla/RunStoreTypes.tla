---------------------------- MODULE RunStoreTypes ----------------------------
(***************************************************************************)
(* Type correctness of the run ledger, proved for every set of tickets,    *)
(* every limit and every bound: whatever the operations of RunStore write  *)
(* is a row of the schema.  Each helper of the transactions gets a lemma,  *)
(* each kind of step cites them action by action.                          *)
(***************************************************************************)
EXTENDS RunStore, TLAPS

\* The states of a run, of a ticket, and the states a run may end in.
RunState == {"none", "running", "succeeded", "failed", "superseded", "cancelled"}
TicketState == {"queued", "running", "waiting_review", "needs_attention", "delivered"}
Final == {"succeeded", "failed", "superseded", "cancelled"}

\* The limits and bounds are naturals, and a failure is allowed at all.
LEMMA Limits == /\ MaxAttempts \in Nat /\ MaxAttempts > 0
                /\ MaxGen \in Nat
                /\ MaxEpoch \in Nat
BY LimitAssumption, BoundAssumption

\* A row as inserted into worker_runs is a row of the schema.
LEMMA NewRowType ==
    ASSUME NEW kind \in {"agent", "delivery"}, NEW state \in RunState, NEW epoch \in 0..MaxEpoch
    PROVE  NewRow(kind, state, epoch) \in RunRow
BY DEF NewRow, RunRow, RunState

\* So is the row of a run that ended, with or without a recorded failure.
LEMMA EndedType ==
    ASSUME NEW r \in RunRow, NEW state \in Final
    PROVE  /\ Ended(r, state) \in RunRow
           /\ [Ended(r, state) EXCEPT !.failure = TRUE] \in RunRow
<1>1. NewRow(r.kind, state, r.epoch) \in RunRow
  <2>1. /\ r.kind \in {"agent", "delivery"}
        /\ r.epoch \in 0..MaxEpoch
        /\ state \in RunState
    BY DEF RunRow, RunState, Final
  <2> QED BY <2>1, NewRowType
<1>2. ASSUME NEW q \in RunRow, NEW failure \in BOOLEAN, NEW writing \in BOOLEAN
      PROVE  /\ [q EXCEPT !.failure = failure, !.writing = writing] \in RunRow
             /\ [q EXCEPT !.failure = TRUE] \in RunRow
  BY DEF RunRow
<1>3. r.failure \in BOOLEAN /\ r.writing \in BOOLEAN
  BY DEF RunRow
<1> QED BY <1>1, <1>2, <1>3 DEF Ended

\* Finishing or failing one run leaves a ledger of rows.
LEMMA FinishType ==
    ASSUME TypeOK, NEW t \in Ticket, NEW g \in Gen, NEW state \in Final
    PROVE  /\ Finish(t, g, state) \in [Gen -> RunRow]
           /\ Fail(t, g) \in [Gen -> RunRow]
<1>1. run[t] \in [Gen -> RunRow] /\ run[t][g] \in RunRow
  BY DEF TypeOK
<1>2. "failed" \in Final
  BY DEF Final
<1> QED BY <1>1, <1>2, EndedType DEF Finish, Fail

\* The failure counter stays within its limit.
LEMMA IncrementType ==
    ASSUME NEW n \in 0..MaxAttempts
    PROVE  Increment(n) \in 0..MaxAttempts
BY Limits DEF Increment

\* Superseding the current run leaves a ledger of rows.
LEMMA SupersededType ==
    ASSUME TypeOK, NEW t \in Ticket
    PROVE  Superseded(t) \in [Gen -> RunRow]
<1>1. run[t] \in [Gen -> RunRow]
  BY DEF TypeOK
<1>2. "superseded" \in Final
  BY DEF Final
<1> QED BY <1>1, <1>2, EndedType DEF Superseded

\* Issuing the next generation keeps the types: the generation it takes is one
\* of Gen, by its own guard.
LEMMA IssueType ==
    ASSUME TypeOK, NEW t \in Ticket, NEW s \in SessionRow, NEW rs \in [Gen -> RunRow],
           NEW kind \in {"agent", "delivery"}, NEW revises \in BOOLEAN,
           Issue(t, s, rs, kind, revises)
    PROVE  /\ session' \in [Ticket -> SessionRow]
           /\ run' \in [Ticket -> [Gen -> RunRow]]
           /\ ticketState' \in [Ticket -> TicketState]
           /\ proof' \in [Ticket -> SUBSET Caller]
<1> DEFINE g == s.gen + 1
           row == [NewRow(kind, "running", s.epoch) EXCEPT !.revises = revises]
<1>1. s.gen \in 0..MaxGen /\ s.epoch \in 0..MaxEpoch
  BY DEF SessionRow
<1>2. g \in Gen
  BY <1>1, Limits DEF Issue, Gen
<1>3. [s EXCEPT !.state = "running", !.current = g, !.gen = g] \in SessionRow
  <2>1. g \in 0..MaxGen
    BY <1>2, Limits DEF Gen
  <2> HIDE DEF g
  <2> QED BY <2>1 DEF SessionRow
<1>4. row \in RunRow
  <2>1. NewRow(kind, "running", s.epoch) \in RunRow
    BY <1>1, NewRowType DEF RunState
  <2> QED BY <2>1 DEF RunRow
<1>5. session' \in [Ticket -> SessionRow]
  BY <1>3 DEF Issue, TypeOK
<1>6. run' \in [Ticket -> [Gen -> RunRow]]
  BY <1>2, <1>4 DEF Issue, TypeOK
<1> QED BY <1>5, <1>6 DEF Issue, TypeOK, SetTicket, DropProofs, TicketState

\* Revoking a lease keeps the type of its row.
LEMMA UnleasedType ==
    ASSUME NEW r \in RunRow
    PROVE  [r EXCEPT !.leased = FALSE] \in RunRow
BY DEF RunRow

\* Setting delivery_retry_pending keeps the type of its session.
LEMMA RetryType ==
    ASSUME NEW s \in SessionRow, NEW retry \in BOOLEAN
    PROVE  [s EXCEPT !.retry = retry] \in SessionRow
<1>1. CASE retry = TRUE
  BY <1>1 DEF SessionRow
<1>2. CASE retry = FALSE
  BY <1>2 DEF SessionRow
<1> QED BY <1>1, <1>2

\* So do the answer of a question and the end of a delivered ticket.
LEMMA ResumedType ==
    ASSUME NEW s \in SessionRow
    PROVE  /\ [s EXCEPT !.failures = 0, !.retry = TRUE] \in SessionRow
           /\ s.epoch < MaxEpoch =>
                [s EXCEPT !.failures = 0, !.epoch = s.epoch + 1] \in SessionRow
           /\ [s EXCEPT !.state = "closed"] \in SessionRow
<1>1. ASSUME NEW n \in 0..MaxEpoch, NEW f \in 0..MaxAttempts
      PROVE  [s EXCEPT !.failures = f, !.epoch = n] \in SessionRow
  BY DEF SessionRow
<1>2. s.epoch < MaxEpoch => s.epoch + 1 \in 0..MaxEpoch
  BY Limits DEF SessionRow
<1>3. ASSUME NEW f \in 0..MaxAttempts
      PROVE  [s EXCEPT !.failures = f, !.retry = TRUE] \in SessionRow
  BY DEF SessionRow
<1>4. [s EXCEPT !.state = "closed"] \in SessionRow
  BY DEF SessionRow
<1>5. 0 \in 0..MaxAttempts
  BY Limits
<1> QED BY <1>1, <1>2, <1>3, <1>4, <1>5

\* So do the changes of the columns of a launch, an isolation and a write.
LEMMA ColumnType ==
    ASSUME NEW r \in RunRow
    PROVE  /\ [r EXCEPT !.launch = "reserved"] \in RunRow
           /\ [r EXCEPT !.launch = "launched"] \in RunRow
           /\ [r EXCEPT !.create = "pending"] \in RunRow
           /\ [r EXCEPT !.create = "done"] \in RunRow
           /\ [r EXCEPT !.reported = TRUE] \in RunRow
           /\ [r EXCEPT !.isolating = TRUE] \in RunRow
           /\ [r EXCEPT !.writing = TRUE] \in RunRow
           /\ [r EXCEPT !.writing = FALSE] \in RunRow
           /\ [r EXCEPT !.lapsed = TRUE] \in RunRow
           /\ [r EXCEPT !.create = IF r.create = "pending" THEN "done" ELSE r.create] \in RunRow
BY DEF RunRow

\* And the acceptance of a candidate, within the bound on epochs.
LEMMA AcceptedType ==
    ASSUME NEW s \in SessionRow, NEW g \in Gen, s.epoch < MaxEpoch
    PROVE  [s EXCEPT !.accepted = g, !.failures = 0, !.epoch = s.epoch + 1] \in SessionRow
<1>1. g \in 0..MaxGen
  BY Limits DEF Gen
<1>2. ASSUME NEW n \in 0..MaxEpoch, NEW f \in 0..MaxAttempts
      PROVE  [s EXCEPT !.accepted = g, !.failures = f, !.epoch = n] \in SessionRow
  BY <1>1 DEF SessionRow
<1>3. s.epoch + 1 \in 0..MaxEpoch /\ 0 \in 0..MaxAttempts
  BY Limits DEF SessionRow
<1> QED BY <1>2, <1>3

\* Escalating a ticket keeps the types of all it writes.
LEMMA NeedsAttentionType ==
    ASSUME TypeOK, NEW t \in Ticket, NEW s \in SessionRow, NEW rs \in [Gen -> RunRow],
           NEW also \in SUBSET {"poll_failure"}, NeedsAttention(t, s, rs, also)
    PROVE  /\ session' \in [Ticket -> SessionRow]
           /\ run' \in [Ticket -> [Gen -> RunRow]]
           /\ ticketState' \in [Ticket -> TicketState]
           /\ queued' \in [Ticket -> BOOLEAN]
           /\ questions' \in [Ticket -> SUBSET {"needs_attention", "quality_gate", "poll_failure"}]
           /\ proof' \in [Ticket -> SUBSET Caller]
<1>1. [s EXCEPT !.retry = FALSE] \in SessionRow
  BY DEF SessionRow
<1>2. \A g \in Gen : Ended(rs[g], "cancelled") \in RunRow
  BY EndedType DEF Final
<1>3. ASSUME NEW g \in Gen
      PROVE  [rs[g] EXCEPT !.leased = FALSE] \in RunRow
  BY UnleasedType
<1>4. run' \in [Ticket -> [Gen -> RunRow]]
  BY <1>2, <1>3 DEF NeedsAttention, TypeOK
<1>5. session' \in [Ticket -> SessionRow]
  BY <1>1 DEF NeedsAttention, TypeOK
<1>6. queued' \in [Ticket -> BOOLEAN]
  <2> DEFINE released == queued[t] \/ \E g \in Gen : run[t][g].state = "running" /\ run[t][g].revises
  <2>1. released \in BOOLEAN
    BY Zenon
  <2>2. queued' = [queued EXCEPT ![t] = released]
    BY DEF NeedsAttention
  <2> HIDE DEF released
  <2> QED BY <2>1, <2>2 DEF TypeOK
<1>7. questions' \in [Ticket -> SUBSET {"needs_attention", "quality_gate", "poll_failure"}]
  BY DEF NeedsAttention, TypeOK
<1> QED BY <1>4, <1>5, <1>6, <1>7 DEF NeedsAttention, TypeOK, SetTicket, DropProofs, TicketState

\* So does the choice between another delivery and an escalation.
LEMMA RetryOrEscalateType ==
    ASSUME TypeOK, NEW t \in Ticket, NEW g \in Gen, NEW rs \in [Gen -> RunRow],
           NEW mayEscalate, RetryOrEscalate(t, g, rs, mayEscalate)
    PROVE  /\ session' \in [Ticket -> SessionRow]
           /\ run' \in [Ticket -> [Gen -> RunRow]]
           /\ ticketState' \in [Ticket -> TicketState]
           /\ queued' \in [Ticket -> BOOLEAN]
           /\ questions' \in [Ticket -> SUBSET {"needs_attention", "quality_gate", "poll_failure"}]
           /\ proof' \in [Ticket -> SUBSET Caller]
<1>1. session[t] \in SessionRow
  BY DEF TypeOK
<1>2. CASE DeliveryFailures(rs, rs[g].epoch) < MaxAttempts
  <2>1. [session[t] EXCEPT !.retry = TRUE] \in SessionRow
    BY <1>1 DEF SessionRow
  <2>2. session' = [session EXCEPT ![t] = [session[t] EXCEPT !.retry = TRUE]]
    BY <1>2 DEF RetryOrEscalate
  <2>3. session' \in [Ticket -> SessionRow]
    BY <2>1, <2>2 DEF TypeOK
  <2>4. run' \in [Ticket -> [Gen -> RunRow]]
    BY <1>2 DEF RetryOrEscalate, TypeOK
  <2>5. ticketState' \in [Ticket -> TicketState]
    BY <1>2 DEF RetryOrEscalate, TypeOK, SetTicket, TicketState
  <2> QED BY <1>2, <2>3, <2>4, <2>5 DEF RetryOrEscalate, TypeOK, DropProofs
<1>3. CASE ~(DeliveryFailures(rs, rs[g].epoch) < MaxAttempts)
  BY <1>1, <1>3, NeedsAttentionType DEF RetryOrEscalate
<1> QED BY <1>2, <1>3

\* And the return of a ticket to review.
LEMMA BackToReviewType ==
    ASSUME TypeOK, NEW t \in Ticket, NEW g \in Gen, NEW state \in Final,
           NEW retry \in BOOLEAN, BackToReview(t, g, state, retry)
    PROVE  /\ session' \in [Ticket -> SessionRow]
           /\ run' \in [Ticket -> [Gen -> RunRow]]
           /\ ticketState' \in [Ticket -> TicketState]
           /\ proof' \in [Ticket -> SUBSET Caller]
<1>1. [session[t] EXCEPT !.retry = retry] \in SessionRow
  BY RetryType DEF TypeOK
<1>2. session' = [session EXCEPT ![t] = [session[t] EXCEPT !.retry = retry]]
  BY DEF BackToReview
<1>3. Finish(t, g, state) \in [Gen -> RunRow]
  BY FinishType
<1>4. session' \in [Ticket -> SessionRow]
  BY <1>1, <1>2 DEF TypeOK
<1>5. run' \in [Ticket -> [Gen -> RunRow]]
  BY <1>3 DEF BackToReview, Retire, TypeOK
<1> QED BY <1>4, <1>5 DEF BackToReview, Retire, TypeOK, SetTicket, DropProofs, TicketState

\* Recovering an expired delivery keeps all types.
LEMMA RecoverExpiredType ==
    ASSUME TypeOK, NEW t \in Ticket, NEW g \in Gen, RecoverExpired(t, g)
    PROVE  TypeOK'
<1>1. session[t] \in SessionRow
  BY DEF TypeOK
<1>2. CASE run[t][g].launch # "launched"
  BY <1>2, FinishType, RetryOrEscalateType DEF RecoverExpired, TypeOK, TicketState, Final
<1>3. CASE run[t][g].launch = "launched"
  <2>1. NeedsAttention(t, session[t], Finish(t, g, "failed"), {})
    BY <1>3 DEF RecoverExpired
  <2>2. Finish(t, g, "failed") \in [Gen -> RunRow]
    BY FinishType DEF Final
  <2>3. {} \in SUBSET {"poll_failure"}
    OBVIOUS
  <2>4. /\ session' \in [Ticket -> SessionRow]
        /\ run' \in [Ticket -> [Gen -> RunRow]]
        /\ ticketState' \in [Ticket -> TicketState]
        /\ queued' \in [Ticket -> BOOLEAN]
        /\ questions' \in [Ticket -> SUBSET {"needs_attention", "quality_gate", "poll_failure"}]
        /\ proof' \in [Ticket -> SUBSET Caller]
    BY <1>1, <2>1, <2>2, <2>3, NeedsAttentionType
  <2> QED BY <1>3, <2>4 DEF RecoverExpired, TypeOK, TicketState
<1> QED BY <1>2, <1>3

\* Every claim, answer and feedback of a ticket keeps all types.
LEMMA TicketStepType ==
    ASSUME TypeOK, NEW t \in Ticket, TicketStep(t)
    PROVE  TypeOK'
<1>1. session[t] \in SessionRow /\ run[t] \in [Gen -> RunRow]
  BY DEF TypeOK
<1>2. /\ Superseded(t) \in [Gen -> RunRow]
      /\ ReviewFailures(t) \in 0..MaxAttempts
      /\ Increment(session[t].failures) \in 0..MaxAttempts
  BY <1>1, SupersededType, IncrementType DEF SessionRow, ReviewFailures
<1>a. /\ [session[t] EXCEPT !.failures = ReviewFailures(t)] \in SessionRow
      /\ [session[t] EXCEPT !.failures = Increment(session[t].failures)] \in SessionRow
      /\ [session[t] EXCEPT !.retry = FALSE] \in SessionRow
  BY <1>1, <1>2 DEF SessionRow
<1>3. CASE ClaimReady(t)
  BY <1>1, <1>2, <1>3, IssueType DEF ClaimReady, TypeOK, TicketState
<1>4. CASE ClaimReadyReleasesFeedback(t)
  BY <1>1, <1>2, <1>4 DEF ClaimReadyReleasesFeedback, TypeOK, TicketState, SetTicket, DropProofs
<1>5. CASE ClaimReadyExhausted(t)
  <2>1. [session[t] EXCEPT !.gen = session[t].gen + 1] \in SessionRow
    BY <1>1, <1>5, Limits DEF ClaimReadyExhausted, SessionRow
  <2> QED BY <2>1, <1>1, <1>2, <1>5, NeedsAttentionType DEF ClaimReadyExhausted, TypeOK, TicketState
<1>6. CASE ClaimReadyAuthenticationLost(t)
  <2>1. CASE \E g \in Gen : Held(t, g)
    <3>1. session[t].current \in Gen
      BY <2>1 DEF Held
    <3>2. Finish(t, session[t].current, "failed") \in [Gen -> RunRow]
      BY <3>1, FinishType DEF Final
    <3>3. NeedsAttention(t, [session[t] EXCEPT !.failures = Increment(session[t].failures)],
                         Finish(t, session[t].current, "failed"), {})
      BY <2>1, <1>6 DEF ClaimReadyAuthenticationLost
    <3> QED BY <3>2, <3>3, <1>a, <1>6, NeedsAttentionType
            DEF ClaimReadyAuthenticationLost, TypeOK, TicketState
  <2>2. CASE ~\E g \in Gen : Held(t, g)
    BY <2>2, <1>1, <1>6, NeedsAttentionType DEF ClaimReadyAuthenticationLost, TypeOK, TicketState
  <2> QED BY <2>1, <2>2
<1>7. CASE ClaimPendingDelivery(t)
  BY <1>1, <1>a, <1>7, IssueType DEF ClaimPendingDelivery, TypeOK, TicketState
<1>8. CASE ClaimQueuedReview(t)
  <2>1. (IF LapsedAgent(t) THEN Superseded(t) ELSE run[t]) \in [Gen -> RunRow]
    BY <1>1, <1>2
  <2> QED BY <2>1, <1>1, <1>a, <1>8, IssueType DEF ClaimQueuedReview, TypeOK, TicketState
<1>9. CASE ClaimQueuedReviewExhausted(t)
  <2>1. (IF LapsedAgent(t) THEN Superseded(t) ELSE run[t]) \in [Gen -> RunRow]
    BY <1>1, <1>2
  <2> QED BY <2>1, <1>1, <1>a, <1>9, NeedsAttentionType DEF ClaimQueuedReviewExhausted, TypeOK, TicketState
<1>10. CASE ClaimQueuedReviewAuthenticationLost(t)
  <2>1. (IF LapsedAgent(t) THEN Finish(t, session[t].current, "failed") ELSE run[t]) \in [Gen -> RunRow]
    BY <1>1, FinishType DEF Final, LapsedAgent, Held
  <2> QED BY <2>1, <1>1, <1>a, <1>10, NeedsAttentionType DEF ClaimQueuedReviewAuthenticationLost, TypeOK, TicketState
<1>11. CASE AnswerNeedsAttention(t) \/ RetryPollFailure(t)
  <2>1. [session[t] EXCEPT !.failures = 0, !.retry = TRUE] \in SessionRow
    BY <1>1, ResumedType
  <2>2. session[t].epoch < MaxEpoch =>
          [session[t] EXCEPT !.failures = 0, !.epoch = session[t].epoch + 1] \in SessionRow
    BY <1>1, ResumedType
  <2>3. RecoverTicket(t)
    BY <1>11 DEF AnswerNeedsAttention, RetryPollFailure
  <2>4. session' \in [Ticket -> SessionRow]
    BY <2>1, <2>2, <2>3 DEF RecoverTicket, TypeOK
  <2>5. ticketState' \in [Ticket -> TicketState]
    BY <2>3 DEF RecoverTicket, TypeOK, SetTicket, TicketState
  <2>6. PICK left \in SUBSET questions[t] : questions' = [questions EXCEPT ![t] = left]
    <3>1. CASE AnswerNeedsAttention(t)
      BY <3>1 DEF AnswerNeedsAttention
    <3>2. CASE RetryPollFailure(t)
      <4>1. PICK closed \in SUBSET {"needs_attention"} :
              questions' = [questions EXCEPT ![t] = questions[t] \ ({"poll_failure"} \cup closed)]
        BY <3>2 DEF RetryPollFailure
      <4> QED BY <4>1
    <3> QED BY <1>11, <3>1, <3>2
  <2>7. questions' \in [Ticket -> SUBSET {"needs_attention", "quality_gate", "poll_failure"}]
    BY <2>6 DEF TypeOK
  <2> QED BY <2>3, <2>4, <2>5, <2>7 DEF RecoverTicket, TypeOK, TicketState
<1>12. CASE AnswerQualityGate(t)
  BY <1>1, <1>12 DEF AnswerQualityGate, TypeOK, SessionRow, SetTicket
<1>13. CASE RecordReviewFeedback(t)
  BY <1>13 DEF RecordReviewFeedback, TypeOK
<1>14. CASE BackoffElapses(t)
  BY <1>14 DEF BackoffElapses, TypeOK
<1> QED BY <1>3, <1>4, <1>5, <1>6, <1>7, <1>8, <1>9, <1>10, <1>11, <1>12, <1>13, <1>14 DEF TicketStep

\* Every step of a run keeps all types.
LEMMA RunStepType ==
    ASSUME TypeOK, NEW t \in Ticket, NEW g \in Gen, RunStep(t, g)
    PROVE  TypeOK'
<1>1. session[t] \in SessionRow /\ run[t] \in [Gen -> RunRow] /\ run[t][g] \in RunRow
  BY DEF TypeOK
<1>2. ASSUME NEW r \in RunRow, run' = [run EXCEPT ![t][g] = r]
      PROVE  run' \in [Ticket -> [Gen -> RunRow]]
  BY <1>1, <1>2 DEF TypeOK
<1>3. CASE ReservePrelaunch(t, g)
  BY <1>1, <1>2, <1>3, ColumnType DEF ReservePrelaunch, TypeOK
<1>4. CASE AcquireCreateFence(t, g)
  BY <1>1, <1>2, <1>4, ColumnType DEF AcquireCreateFence, TypeOK
<1>5. CASE ReleaseCreateFence(t, g)
  BY <1>1, <1>2, <1>5, ColumnType DEF ReleaseCreateFence, TypeOK
<1>6. CASE ReserveLaunch(t, g)
  BY <1>1, <1>2, <1>6, ColumnType DEF ReserveLaunch, TypeOK
<1>7. CASE RecordWorkerContainer(t, g)
  BY <1>1, <1>2, <1>7, ColumnType DEF RecordWorkerContainer, TypeOK
<1>8. CASE AcceptCandidate(t, g)
  <2>1. Finish(t, g, "succeeded") \in [Gen -> RunRow]
    BY FinishType DEF Final
  <2>2. [session[t] EXCEPT !.accepted = g, !.failures = 0, !.epoch = session[t].epoch + 1] \in SessionRow
    BY <1>1, <1>8, AcceptedType DEF AcceptCandidate
  <2> QED BY <1>1, <1>8, <2>1, <2>2, IssueType DEF AcceptCandidate, TypeOK, TicketState
<1>9. ASSUME NEW infrastructure \in BOOLEAN, RecordRunFailure(t, g, infrastructure)
      PROVE  TypeOK'
  <2>1. Fail(t, g) \in [Gen -> RunRow]
    BY FinishType DEF Final
  <2>2. [session[t] EXCEPT !.failures = Increment(session[t].failures)] \in SessionRow
    BY <1>1, IncrementType DEF SessionRow
  <2>3. queued' \in [Ticket -> BOOLEAN]
    <3> DEFINE released == queued[t] \/ run[t][g].revises
    <3>1. released \in BOOLEAN
      BY Zenon
    <3>2. queued' = [queued EXCEPT ![t] = released]
      BY <1>9 DEF RecordRunFailure
    <3> HIDE DEF released
    <3> QED BY <3>1, <3>2 DEF TypeOK
  <2>4. backoff' \in [Ticket -> BOOLEAN]
    BY <1>9 DEF RecordRunFailure, TypeOK
  <2>5. ticketState' \in [Ticket -> TicketState]
    BY <1>9 DEF RecordRunFailure, TypeOK, TicketState
  <2>6. session' \in [Ticket -> SessionRow] /\ run' \in [Ticket -> [Gen -> RunRow]]
    BY <1>9, <2>1, <2>2 DEF RecordRunFailure, TypeOK
  <2> QED BY <1>9, <2>3, <2>4, <2>5, <2>6 DEF RecordRunFailure, TypeOK, TicketState, DropProofs
<1>10. CASE RecordRunAuthenticationFailure(t, g)
  <2>1. Fail(t, g) \in [Gen -> RunRow]
    BY FinishType DEF Final
  <2>2. [session[t] EXCEPT !.failures = Increment(session[t].failures)] \in SessionRow
    BY <1>1, IncrementType DEF SessionRow
  <2> QED BY <1>10, <2>1, <2>2, NeedsAttentionType
          DEF RecordRunAuthenticationFailure, TypeOK, TicketState
<1>11. CASE CompleteDelivery(t, g)
  <2>1. session[t].retry \in BOOLEAN
    BY <1>1 DEF SessionRow
  <2> QED BY <1>11, <2>1, BackToReviewType DEF CompleteDelivery, TypeOK, TicketState, Final
<1>12. CASE PauseForQualityGate(t, g)
  BY <1>12, FinishType
     DEF PauseForQualityGate, Retire, TypeOK, SetTicket, DropProofs, Final
<1>13. CASE BeginWrite(t, g)
  BY <1>1, <1>2, <1>13, ColumnType DEF BeginWrite, TypeOK
<1>14. CASE EndWrite(t, g)
  BY <1>1, <1>2, <1>14, ColumnType DEF EndWrite, TypeOK
<1>15. CASE RecoverUnlaunchedDelivery(t, g)
  BY <1>15, RecoverExpiredType DEF RecoverUnlaunchedDelivery
<1>16. CASE RecoverAuthenticationFailure(t, g)
  <2>1. Finish(t, g, "failed") \in [Gen -> RunRow]
    BY FinishType DEF Final
  <2>2. [session[t] EXCEPT !.failures = Increment(session[t].failures)] \in SessionRow
    BY <1>1, IncrementType DEF SessionRow
  <2> QED BY <1>16, <2>1, <2>2, NeedsAttentionType
          DEF RecoverAuthenticationFailure, TypeOK, TicketState
<1>17. CASE Lapse(t, g)
  BY <1>1, <1>2, <1>17, ColumnType DEF Lapse, TypeOK
<1> QED BY <1>3, <1>4, <1>5, <1>6, <1>7, <1>8, <1>9, <1>10, <1>11, <1>12, <1>13, <1>14,
           <1>15, <1>16, <1>17 DEF RunStep

\* Every step that needs an isolation proof keeps all types.
LEMMA CallerStepType ==
    ASSUME TypeOK, NEW c \in Caller, NEW t \in Ticket, CallerStep(c, t)
    PROVE  TypeOK'
<1>1. session[t] \in SessionRow /\ run[t] \in [Gen -> RunRow]
  BY DEF TypeOK
<1>2. CASE FenceIsolation(c, t)
  <2>1. session[t].current \in Gen /\ run[t][session[t].current] \in RunRow
    BY <1>1, <1>2 DEF FenceIsolation, IsTarget, Held
  <2> QED BY <1>1, <1>2, <2>1, ColumnType DEF FenceIsolation, TypeOK
<1>3. CASE AcknowledgeIsolation(c, t)
  <2>1. session[t].current \in Gen /\ run[t][session[t].current] \in RunRow
    BY <1>1, <1>3 DEF AcknowledgeIsolation, IsTarget, Held
  <2> QED BY <1>1, <1>3, <2>1, ColumnType DEF AcknowledgeIsolation, TypeOK
<1>4. CASE MarkDelivered(c, t)
  <2>1. run' \in [Ticket -> [Gen -> RunRow]]
    BY <1>1, <1>4, EndedType DEF MarkDelivered, TypeOK, Final
  <2>2. session' \in [Ticket -> SessionRow]
    BY <1>1, <1>4, ResumedType DEF MarkDelivered, TypeOK
  <2> QED BY <1>4, <2>1, <2>2 DEF MarkDelivered, TypeOK, DropProofs
<1>5. CASE Escalate(c, t)
  BY <1>1, <1>5, NeedsAttentionType DEF Escalate, TypeOK, TicketState
<1>6. ASSUME NEW g \in Gen, FinishLapsedDelivery(c, t, g)
      PROVE  TypeOK'
  BY <1>1, <1>6, FinishType, NeedsAttentionType DEF FinishLapsedDelivery, TypeOK, TicketState, Final
<1>7. ASSUME NEW g \in Gen, FailDelivery(c, t, g)
      PROVE  TypeOK'
  <2>1. NeedsAttention(t, session[t], Finish(t, g, "failed"), {})
    BY <1>7 DEF FailDelivery
  <2>2. Finish(t, g, "failed") \in [Gen -> RunRow]
    BY FinishType DEF Final
  <2>3. {} \in SUBSET {"poll_failure"}
    OBVIOUS
  <2>4. /\ session' \in [Ticket -> SessionRow]
        /\ run' \in [Ticket -> [Gen -> RunRow]]
        /\ ticketState' \in [Ticket -> TicketState]
        /\ queued' \in [Ticket -> BOOLEAN]
        /\ questions' \in [Ticket -> SUBSET {"needs_attention", "quality_gate", "poll_failure"}]
        /\ proof' \in [Ticket -> SUBSET Caller]
    BY <1>1, <2>1, <2>2, <2>3, NeedsAttentionType
  <2> QED BY <1>7, <2>4 DEF FailDelivery, TypeOK, TicketState
<1>8. ASSUME NEW g \in Gen, NEW isolated \in BOOLEAN, NEW infrastructure \in BOOLEAN,
             FailDeliveryWithClass(c, t, g, isolated, infrastructure)
      PROVE  TypeOK'
  BY <1>8, FinishType, RetryOrEscalateType DEF FailDeliveryWithClass, TypeOK, TicketState, Final
<1>9. ASSUME NEW g \in Gen, NEW isolated \in BOOLEAN, NEW infrastructure \in BOOLEAN,
             FailDeliveryLaunch(c, t, g, isolated, infrastructure)
      PROVE  TypeOK'
  BY <1>9, FinishType, RetryOrEscalateType DEF FailDeliveryLaunch, TypeOK, TicketState, Final
<1>10. ASSUME NEW g \in Gen, DeferDelivery(c, t, g)
       PROVE  TypeOK'
  BY <1>10, BackToReviewType DEF DeferDelivery, TypeOK, TicketState, Final
<1>11. ASSUME NEW g \in Gen, RevalidateDelivery(c, t, g)
       PROVE  TypeOK'
  BY <1>11, BackToReviewType DEF RevalidateDelivery, TypeOK, TicketState, Final
<1>12. ASSUME NEW g \in Gen, ReconcileMissingRun(c, t, g)
       PROVE  TypeOK'
  <2>1. CASE RecoverExpired(t, g)
    BY <2>1, RecoverExpiredType
  <2>2. CASE Retire(t, g, "superseded") /\ ~RecoverExpired(t, g)
    <3> DEFINE released == queued[t] \/ run[t][g].revises
    <3>1. released \in BOOLEAN
      BY Zenon
    <3>2. queued' = [queued EXCEPT ![t] = released]
      BY <1>12, <2>2 DEF ReconcileMissingRun
    <3>3. queued' \in [Ticket -> BOOLEAN]
      <4> HIDE DEF released
      <4> QED BY <3>1, <3>2 DEF TypeOK
    <3> QED BY <1>12, <2>2, <3>3, FinishType
            DEF ReconcileMissingRun, Retire, TypeOK, Final, SetTicket, DropProofs
  <2> QED BY <1>12, <2>1, <2>2 DEF ReconcileMissingRun
<1> QED BY <1>2, <1>3, <1>4, <1>5, <1>6, <1>7, <1>8, <1>9, <1>10, <1>11, <1>12 DEF CallerStep

\* An empty ledger is one of the schema.
LEMMA InitType == Init => TypeOK
<1> SUFFICES ASSUME Init PROVE TypeOK
  OBVIOUS
<1>1. NewRow("agent", "none", 0) \in RunRow
  BY NewRowType, Limits DEF RunState
<1>2. [state |-> "none", current |-> 0, gen |-> 0, epoch |-> 0, accepted |-> 0,
       retry |-> FALSE, failures |-> 0] \in SessionRow
  BY Limits DEF SessionRow
<1> QED BY <1>1, <1>2 DEF Init, TypeOK

\* Every step keeps all types.
LEMMA NextType == TypeOK /\ [Next]_vars => TypeOK'
<1> SUFFICES ASSUME TypeOK, [Next]_vars PROVE TypeOK'
  OBVIOUS
<1>1. CASE UNCHANGED vars
  BY <1>1 DEF vars, TypeOK
<1>2. CASE LoseProofs \/ BeginMaintenance \/ ClearMaintenance
  BY <1>2 DEF LoseProofs, BeginMaintenance, ClearMaintenance, TypeOK
<1> QED BY <1>1, <1>2, TicketStepType, RunStepType, CallerStepType DEF Next

\* The ledger only ever holds rows of the schema (TypeOK), whatever the order
\* in which the scheduler, the runs, the poller and recovery call the store.
THEOREM TypeCorrect == Spec => []TypeOK
BY InitType, NextType, PTL DEF Spec

=============================================================================
