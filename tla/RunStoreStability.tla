-------------------------- MODULE RunStoreStability --------------------------
(***************************************************************************)
(* What the ledger recorded stays, and what it promises is kept, proved    *)
(* for every set of tickets and callers, every limit and every bound, and  *)
(* with no assumption on operators: although answers of tickets that moved *)
(* on can make two runs live, outcomes are final, isolation proofs stay    *)
(* good, blocked work does not start, the capacity is not exceeded, no     *)
(* review batch is lost, and no ticket waits for a human who was never     *)
(* asked.                                                                  *)
(*                                                                         *)
(* The first part needs little of a step: it either issues the generation  *)
(* that follows the last one, or lets every row follow: a row that was     *)
(* never issued stays so, and an outcome stays what it is.  Issuing        *)
(* rewrites no outcome because the rows beyond the last generation were    *)
(* never issued (IssuedUpToGen), which the same fact makes inductive.      *)
(***************************************************************************)
EXTENDS RunStoreTypes, FiniteSetTheorems

\* Row r may follow row q in a step that does not issue it.
Follows(q, r) == /\ q.state = "none" => r.state = "none"
                 /\ q.state \notin {"none", "running"} => r.state = q.state

RowsFollow(t, rs) == \A g \in Gen : Follows(run[t][g], rs[g])

\* Only the generations that the step issues or skips need not follow.
Progress(t) == /\ session[t].gen <= session'[t].gen
               /\ \A g \in Gen : g <= session[t].gen \/ g > session'[t].gen =>
                    Follows(run[t][g], run'[t][g])

AllProgress == \A t \in Ticket : Progress(t)

\* Generations beyond the last one were never issued.
IssuedUpToGen ==
    \A t \in Ticket, g \in Gen : g > session[t].gen => run[t][g].state = "none"

\* It is enough to look at the ticket that a step changes.
LEMMA UpdateProgress ==
    ASSUME TypeOK, NEW t \in Ticket, NEW s, NEW rs, NEW n \in Nat,
           session' = [session EXCEPT ![t] = s], run' = [run EXCEPT ![t] = rs],
           s.gen = n, session[t].gen <= n,
           \A g \in Gen : g <= session[t].gen \/ g > n => Follows(run[t][g], rs[g])
    PROVE  AllProgress
<1> SUFFICES ASSUME NEW u \in Ticket PROVE Progress(u)
  BY DEF AllProgress
<1>1. CASE u = t
  BY <1>1 DEF Progress, TypeOK
<1>2. CASE u # t
  <2>1. session'[u] = session[u] /\ run'[u] = run[u] /\ session[u].gen \in 0..MaxGen
    BY <1>2 DEF TypeOK, SessionRow
  <2> QED BY <2>1, Limits DEF Progress, Follows
<1> QED BY <1>1, <1>2

\* A step that lets all rows of a ticket follow and issues nothing.
LEMMA RowsProgress ==
    ASSUME TypeOK, NEW t \in Ticket, NEW s, NEW rs,
           session' = [session EXCEPT ![t] = s], run' = [run EXCEPT ![t] = rs],
           s.gen = session[t].gen, RowsFollow(t, rs)
    PROVE  AllProgress
<1>1. session[t].gen \in Nat /\ session[t].gen <= session[t].gen
  BY Limits DEF TypeOK, SessionRow
<1>2. \A g \in Gen : Follows(run[t][g], rs[g])
  BY DEF RowsFollow
<1> QED BY <1>1, <1>2, UpdateProgress

\* A change of other columns, or of one row that follows.
LEMMA ColumnProgress ==
    ASSUME TypeOK, NEW t \in Ticket, NEW g \in Gen, NEW r, r.state = run[t][g].state,
           run' = [run EXCEPT ![t][g] = r], UNCHANGED session
    PROVE  AllProgress
<1> DEFINE rs == [run[t] EXCEPT ![g] = r]
<1>1. /\ session' = [session EXCEPT ![t] = session[t]]
      /\ run' = [run EXCEPT ![t] = rs]
  BY DEF TypeOK
<1>2. RowsFollow(t, rs)
  BY DEF TypeOK, RowsFollow, Follows
<1> HIDE DEF rs
<1> QED BY <1>1, <1>2, RowsProgress

LEMMA UntouchedProgress ==
    ASSUME TypeOK, UNCHANGED <<session, run>>
    PROVE  AllProgress
<1> SUFFICES ASSUME NEW t \in Ticket PROVE Progress(t)
  BY DEF AllProgress
<1>1. session[t].gen \in 0..MaxGen
  BY DEF TypeOK, SessionRow
<1> QED BY <1>1, Limits DEF Progress, Follows

\* The state of a row that ended is the given one.
LEMMA EndedState ==
    ASSUME NEW r \in RunRow, NEW state \in Final
    PROVE  /\ Ended(r, state).state = state
           /\ [Ended(r, state) EXCEPT !.failure = TRUE].state = state
BY DEF Ended, NewRow, RunRow, Final

\* Ending a running run, or superseding the current one, lets rows follow.
LEMMA FinishFollows ==
    ASSUME TypeOK, NEW t \in Ticket, NEW g \in Gen, run[t][g].state = "running",
           NEW state \in Final
    PROVE  RowsFollow(t, Finish(t, g, state)) /\ RowsFollow(t, Fail(t, g))
<1>1. run[t] \in [Gen -> RunRow]
  BY DEF TypeOK
<1> SUFFICES ASSUME NEW h \in Gen
             PROVE  /\ Follows(run[t][h], Finish(t, g, state)[h])
                    /\ Follows(run[t][h], Fail(t, g)[h])
  BY DEF RowsFollow
<1>2. CASE h # g
  BY <1>1, <1>2 DEF Follows, Finish, Fail
<1>3. CASE h = g
  BY <1>1, <1>3 DEF Follows
<1> QED BY <1>2, <1>3

LEMMA SupersededFollows ==
    ASSUME TypeOK, NEW t \in Ticket
    PROVE  RowsFollow(t, Superseded(t))
BY DEF RowsFollow, Superseded, Follows

LEMMA SelfFollows ==
    ASSUME NEW t \in Ticket
    PROVE  RowsFollow(t, run[t])
BY DEF RowsFollow, Follows

\* Issuing a run over rows that follow is progress.
LEMMA IssueProgress ==
    ASSUME TypeOK, NEW t \in Ticket, NEW s \in SessionRow, NEW rs \in [Gen -> RunRow],
           NEW kind, NEW revises, s.gen = session[t].gen, RowsFollow(t, rs),
           Issue(t, s, rs, kind, revises)
    PROVE  AllProgress
<1> DEFINE n == s.gen + 1
           row == [NewRow(kind, "running", s.epoch) EXCEPT !.revises = revises]
           s2 == [s EXCEPT !.state = "running", !.current = n, !.gen = n]
           rs2 == [rs EXCEPT ![n] = row]
<1>1. /\ session' = [session EXCEPT ![t] = s2]
      /\ run' = [run EXCEPT ![t] = rs2]
  BY DEF Issue
<1>2. s.gen \in Nat /\ n \in Nat /\ s2.gen = n /\ session[t].gen <= n
  BY Limits DEF SessionRow
<1>3. ASSUME NEW g \in Gen, g <= session[t].gen \/ g > n
      PROVE  Follows(run[t][g], rs2[g])
  <2>1. g # n
    BY <1>2, <1>3 DEF Gen
  <2> QED BY <2>1 DEF RowsFollow
<1> HIDE DEF n, s2, rs2
<1> QED BY <1>1, <1>2, <1>3, UpdateProgress

\* An escalation cancels what runs and keeps every outcome; it may skip a
\* generation.
LEMMA NeedsAttentionProgress ==
    ASSUME TypeOK, NEW t \in Ticket, NEW s \in SessionRow, NEW rs \in [Gen -> RunRow],
           session[t].gen <= s.gen, RowsFollow(t, rs), NEW also, NeedsAttention(t, s, rs, also)
    PROVE  AllProgress
<1> DEFINE s2 == [s EXCEPT !.retry = FALSE]
           rs2 == [g \in Gen |-> IF rs[g].state = "running"
                                 THEN Ended(rs[g], "cancelled")
                                 ELSE [rs[g] EXCEPT !.leased = FALSE]]
<1>1. /\ session' = [session EXCEPT ![t] = s2]
      /\ run' = [run EXCEPT ![t] = rs2]
  BY DEF NeedsAttention
<1>2. s2.gen = s.gen /\ s.gen \in Nat
  BY Limits DEF SessionRow
<1>3. ASSUME NEW g \in Gen
      PROVE  Follows(run[t][g], rs2[g])
  <2>1. Follows(run[t][g], rs[g]) /\ rs[g] \in RunRow
    BY DEF RowsFollow
  <2>2. CASE rs[g].state = "running"
    <3>1. run[t][g].state = "running"
      BY <2>1, <2>2 DEF Follows
    <3> QED BY <3>1 DEF Follows
  <2>3. CASE rs[g].state # "running"
    BY <2>1, <2>3 DEF Follows, RunRow
  <2> QED BY <2>2, <2>3
<1> HIDE DEF s2, rs2
<1> QED BY <1>1, <1>2, <1>3, UpdateProgress

LEMMA BackToReviewProgress ==
    ASSUME TypeOK, NEW t \in Ticket, NEW g \in Gen, run[t][g].state = "running",
           NEW state \in Final, NEW retry, BackToReview(t, g, state, retry)
    PROVE  AllProgress
<1> DEFINE s == [session[t] EXCEPT !.retry = retry]
<1>1. /\ session' = [session EXCEPT ![t] = s]
      /\ run' = [run EXCEPT ![t] = Finish(t, g, state)]
      /\ s.gen = session[t].gen
  BY DEF BackToReview, Retire, TypeOK, SessionRow
<1> HIDE DEF s
<1> QED BY <1>1, FinishFollows, RowsProgress

LEMMA RetryOrEscalateProgress ==
    ASSUME TypeOK, NEW t \in Ticket, NEW g \in Gen, NEW rs \in [Gen -> RunRow],
           NEW mayEscalate, RowsFollow(t, rs), RetryOrEscalate(t, g, rs, mayEscalate)
    PROVE  AllProgress
<1>1. session[t] \in SessionRow /\ session[t].gen <= session[t].gen
  BY Limits DEF TypeOK, SessionRow
<1>2. CASE NeedsAttention(t, session[t], rs, {})
  BY <1>1, <1>2, NeedsAttentionProgress
<1>3. CASE ~NeedsAttention(t, session[t], rs, {})
  <2> DEFINE s == [session[t] EXCEPT !.retry = TRUE]
  <2>1. /\ session' = [session EXCEPT ![t] = s]
        /\ run' = [run EXCEPT ![t] = rs]
    BY <1>3 DEF RetryOrEscalate
  <2>2. s.gen = session[t].gen
    BY <1>1 DEF SessionRow
  <2> HIDE DEF s
  <2> QED BY <2>1, <2>2, RowsProgress
<1> QED BY <1>2, <1>3

LEMMA RecoverExpiredProgress ==
    ASSUME TypeOK, NEW t \in Ticket, NEW g \in Gen, run[t][g].state = "running",
           RecoverExpired(t, g)
    PROVE  AllProgress
<1>1. /\ RowsFollow(t, Finish(t, g, "failed")) /\ RowsFollow(t, Fail(t, g))
      /\ Finish(t, g, "failed") \in [Gen -> RunRow] /\ Fail(t, g) \in [Gen -> RunRow]
  BY FinishFollows, FinishType DEF Final
<1>2. session[t] \in SessionRow /\ session[t].gen <= session[t].gen
  BY Limits DEF TypeOK, SessionRow
<1> QED BY <1>1, <1>2, RetryOrEscalateProgress, NeedsAttentionProgress DEF RecoverExpired

\* Claims, answers and feedback of a ticket.
LEMMA TicketStepProgress ==
    ASSUME TypeOK, NEW t \in Ticket, TicketStep(t)
    PROVE  AllProgress
<1> DEFINE failed == [session[t] EXCEPT !.failures = Increment(session[t].failures)]
           reviewed == [session[t] EXCEPT !.failures = ReviewFailures(t)]
           claimed == [session[t] EXCEPT !.retry = FALSE]
           skipped == [session[t] EXCEPT !.gen = session[t].gen + 1]
           left == IF LapsedAgent(t) THEN Superseded(t) ELSE run[t]
<1>1. /\ session[t] \in SessionRow /\ run[t] \in [Gen -> RunRow]
      /\ session[t].gen \in Nat /\ session[t].gen <= session[t].gen
      /\ Superseded(t) \in [Gen -> RunRow] /\ left \in [Gen -> RunRow]
      /\ ReviewFailures(t) \in 0..MaxAttempts
      /\ Increment(session[t].failures) \in 0..MaxAttempts
  BY SupersededType, IncrementType, Limits DEF TypeOK, SessionRow, ReviewFailures
<1>2. /\ failed \in SessionRow /\ failed.gen = session[t].gen
      /\ reviewed \in SessionRow /\ reviewed.gen = session[t].gen
      /\ claimed \in SessionRow /\ claimed.gen = session[t].gen
  BY <1>1 DEF SessionRow
<1>3. RowsFollow(t, run[t]) /\ RowsFollow(t, Superseded(t)) /\ RowsFollow(t, left)
  BY SelfFollows, SupersededFollows
<1>4. ASSUME NEW g \in Gen, Held(t, g)
      PROVE  /\ session[t].current = g
             /\ Finish(t, g, "failed") \in [Gen -> RunRow]
             /\ RowsFollow(t, Finish(t, g, "failed"))
  BY <1>4, FinishType, FinishFollows DEF Held, Final
<1> HIDE DEF failed, reviewed, claimed, left
<1>5. CASE ClaimReady(t)
  BY <1>1, <1>3, <1>5, IssueProgress DEF ClaimReady
<1>6. CASE ClaimReadyReleasesFeedback(t)
  <2>1. /\ session' = [session EXCEPT ![t] = session[t]]
        /\ run' = [run EXCEPT ![t] = Superseded(t)]
    BY <1>6 DEF ClaimReadyReleasesFeedback, TypeOK
  <2> QED BY <1>3, <2>1, RowsProgress
<1>7. CASE ClaimReadyExhausted(t)
  <2>1. session[t].gen < MaxGen /\ NeedsAttention(t, skipped, Superseded(t), {})
    BY <1>7 DEF ClaimReadyExhausted
  <2>2. session[t].gen + 1 \in 0..MaxGen /\ session[t].gen <= session[t].gen + 1
    BY <1>1, <2>1, Limits
  <2>3. skipped \in SessionRow /\ skipped.gen = session[t].gen + 1
    BY <1>1, <2>2 DEF SessionRow
  <2> HIDE DEF skipped
  <2> QED BY <1>1, <1>3, <2>1, <2>2, <2>3, NeedsAttentionProgress
<1>8. CASE ClaimReadyAuthenticationLost(t)
  <2>1. CASE \E g \in Gen : Held(t, g)
    <3>1. PICK g \in Gen : Held(t, g)
      BY <2>1
    <3>2. NeedsAttention(t, failed, Finish(t, g, "failed"), {})
      BY <1>4, <1>8, <2>1, <3>1 DEF ClaimReadyAuthenticationLost, failed
    <3> QED BY <1>1, <1>2, <1>4, <3>1, <3>2, NeedsAttentionProgress
  <2>2. CASE ~\E g \in Gen : Held(t, g)
    BY <1>1, <1>3, <1>8, <2>2, NeedsAttentionProgress DEF ClaimReadyAuthenticationLost
  <2> QED BY <2>1, <2>2
<1>9. CASE ClaimPendingDelivery(t)
  BY <1>1, <1>2, <1>3, <1>9, IssueProgress DEF ClaimPendingDelivery, claimed
<1>10. CASE ClaimQueuedReview(t)
  BY <1>1, <1>2, <1>3, <1>10, IssueProgress DEF ClaimQueuedReview, reviewed, left
<1>11. CASE ClaimQueuedReviewExhausted(t)
  BY <1>1, <1>2, <1>3, <1>11, NeedsAttentionProgress
     DEF ClaimQueuedReviewExhausted, reviewed, left
<1>12. CASE ClaimQueuedReviewAuthenticationLost(t)
  <2>1. CASE LapsedAgent(t)
    <3>1. PICK g \in Gen : Held(t, g)
      BY <2>1 DEF LapsedAgent
    <3>2. NeedsAttention(t, reviewed, Finish(t, g, "failed"), {})
      BY <1>4, <1>12, <2>1, <3>1 DEF ClaimQueuedReviewAuthenticationLost, reviewed
    <3> QED BY <1>1, <1>2, <1>4, <3>1, <3>2, NeedsAttentionProgress
  <2>2. CASE ~LapsedAgent(t)
    BY <1>1, <1>2, <1>3, <1>12, <2>2, NeedsAttentionProgress
       DEF ClaimQueuedReviewAuthenticationLost, reviewed
  <2> QED BY <2>1, <2>2
\* An answer changes the session alone, and not its generation.
<1>13. ASSUME NEW s, s.gen = session[t].gen, session' = [session EXCEPT ![t] = s], UNCHANGED run
       PROVE  AllProgress
  <2>1. run' = [run EXCEPT ![t] = run[t]]
    BY <1>13 DEF TypeOK
  <2> QED BY <1>3, <1>13, <2>1, RowsProgress
<1>14. CASE AnswerNeedsAttention(t) \/ RetryPollFailure(t)
  <2> DEFINE resumed == [session[t] EXCEPT !.failures = 0, !.retry = TRUE]
             restarted == [session[t] EXCEPT !.failures = 0, !.epoch = session[t].epoch + 1]
  <2>1. resumed.gen = session[t].gen /\ restarted.gen = session[t].gen
    BY <1>1 DEF SessionRow
  <2>2. /\ UNCHANGED run
        /\ \/ UNCHANGED session
           \/ session' = [session EXCEPT ![t] = resumed]
           \/ session' = [session EXCEPT ![t] = restarted]
    BY <1>14 DEF AnswerNeedsAttention, RetryPollFailure, RecoverTicket, TypeOK
  <2> HIDE DEF resumed, restarted
  <2> QED BY <1>13, <2>1, <2>2, UntouchedProgress
<1>15. CASE AnswerQualityGate(t)
  <2> DEFINE s == [session[t] EXCEPT !.retry = TRUE]
  <2>1. s.gen = session[t].gen
    BY <1>1 DEF SessionRow
  <2>2. UNCHANGED run /\ session' = [session EXCEPT ![t] = s]
    BY <1>15 DEF AnswerQualityGate
  <2> HIDE DEF s
  <2> QED BY <1>13, <2>1, <2>2
<1>16. CASE RecordReviewFeedback(t) \/ BackoffElapses(t)
  BY <1>16, UntouchedProgress DEF RecordReviewFeedback, BackoffElapses
<1> QED BY <1>5, <1>6, <1>7, <1>8, <1>9, <1>10, <1>11, <1>12, <1>14, <1>15, <1>16 DEF TicketStep

\* The steps of a run's goroutine and of the processes that serve it.
LEMMA RunStepProgress ==
    ASSUME TypeOK, NEW t \in Ticket, NEW g \in Gen, RunStep(t, g)
    PROVE  AllProgress
<1> DEFINE failed == [session[t] EXCEPT !.failures = Increment(session[t].failures)]
<1>1. /\ session[t] \in SessionRow /\ run[t][g] \in RunRow
      /\ session[t].gen \in Nat /\ session[t].gen <= session[t].gen
      /\ Increment(session[t].failures) \in 0..MaxAttempts
  BY IncrementType, Limits DEF TypeOK, SessionRow
<1>2. failed \in SessionRow /\ failed.gen = session[t].gen
  BY <1>1 DEF SessionRow
<1> HIDE DEF failed
<1>3. ASSUME Held(t, g)
      PROVE  /\ run[t][g].state = "running"
             /\ \A state \in Final : /\ Finish(t, g, state) \in [Gen -> RunRow]
                                     /\ RowsFollow(t, Finish(t, g, state))
             /\ Fail(t, g) \in [Gen -> RunRow] /\ RowsFollow(t, Fail(t, g))
  BY <1>3, FinishType, FinishFollows DEF Held, Final
<1>4. CASE \/ ReservePrelaunch(t, g) \/ AcquireCreateFence(t, g) \/ ReleaseCreateFence(t, g)
           \/ ReserveLaunch(t, g) \/ RecordWorkerContainer(t, g)
           \/ BeginWrite(t, g) \/ EndWrite(t, g) \/ Lapse(t, g)
  <2>1. PICK r : /\ r.state = run[t][g].state
                 /\ run' = [run EXCEPT ![t][g] = r]
                 /\ UNCHANGED session
    BY <1>1, <1>4 DEF ReservePrelaunch, AcquireCreateFence, ReleaseCreateFence, ReserveLaunch,
                      RecordWorkerContainer, BeginWrite, EndWrite, Lapse, RunRow
  <2> QED BY <2>1, ColumnProgress
<1>5. CASE AcceptCandidate(t, g)
  <2> DEFINE s == [session[t] EXCEPT !.accepted = g, !.failures = 0, !.epoch = session[t].epoch + 1]
  <2>1. /\ Held(t, g)
        /\ Issue(t, s, Finish(t, g, "succeeded"), "delivery", FALSE)
    BY <1>5 DEF AcceptCandidate, Owned
  <2>2. s \in SessionRow
    BY <1>1, <1>5, AcceptedType DEF AcceptCandidate
  <2>3. s.gen = session[t].gen
    BY <1>1 DEF SessionRow
  <2> HIDE DEF s
  <2> QED BY <1>3, <2>1, <2>2, <2>3, IssueProgress DEF Final
<1>6. ASSUME NEW infrastructure \in BOOLEAN, RecordRunFailure(t, g, infrastructure)
      PROVE  AllProgress
  <2>1. /\ Held(t, g)
        /\ session' = [session EXCEPT ![t] = failed] /\ run' = [run EXCEPT ![t] = Fail(t, g)]
    BY <1>6 DEF RecordRunFailure, Owned, failed
  <2> QED BY <1>2, <1>3, <2>1, RowsProgress
<1>7. CASE RecordRunAuthenticationFailure(t, g)
  <2>1. Held(t, g) /\ NeedsAttention(t, failed, Fail(t, g), {})
    BY <1>7 DEF RecordRunAuthenticationFailure, failed
  <2> QED BY <1>1, <1>2, <1>3, <2>1, NeedsAttentionProgress
<1>8. CASE RecoverAuthenticationFailure(t, g)
  <2>1. Held(t, g) /\ NeedsAttention(t, failed, Finish(t, g, "failed"), {})
    BY <1>8 DEF RecoverAuthenticationFailure, failed
  <2> QED BY <1>1, <1>2, <1>3, <2>1, NeedsAttentionProgress DEF Final
<1>9. CASE CompleteDelivery(t, g)
  BY <1>3, <1>9, BackToReviewProgress DEF CompleteDelivery, Delivering, Final
<1>10. CASE PauseForQualityGate(t, g)
  <2>1. /\ Held(t, g)
        /\ session' = [session EXCEPT ![t] = session[t]]
        /\ run' = [run EXCEPT ![t] = Finish(t, g, "succeeded")]
    BY <1>10 DEF PauseForQualityGate, Delivering, Retire, TypeOK
  <2> QED BY <1>3, <2>1, RowsProgress DEF Final
<1>11. CASE RecoverUnlaunchedDelivery(t, g)
  BY <1>3, <1>11, RecoverExpiredProgress DEF RecoverUnlaunchedDelivery, Delivering
<1> QED BY <1>4, <1>5, <1>6, <1>7, <1>8, <1>9, <1>10, <1>11 DEF RunStep

\* The steps that ask for an isolation, or carry it out.
LEMMA CallerStepProgress ==
    ASSUME TypeOK, NEW c \in Caller, NEW t \in Ticket, CallerStep(c, t)
    PROVE  AllProgress
<1>1. /\ session[t] \in SessionRow /\ run[t] \in [Gen -> RunRow]
      /\ session[t].gen <= session[t].gen
  BY Limits DEF TypeOK, SessionRow
<1>2. CASE FenceIsolation(c, t) \/ AcknowledgeIsolation(c, t)
  <2> DEFINE g == session[t].current
  <2>1. g \in Gen /\ run[t][g] \in RunRow
    BY <1>1, <1>2 DEF FenceIsolation, AcknowledgeIsolation, IsTarget, Held
  <2>2. PICK r : /\ r.state = run[t][g].state
                 /\ run' = [run EXCEPT ![t][g] = r]
                 /\ UNCHANGED session
    BY <1>2, <2>1 DEF FenceIsolation, AcknowledgeIsolation, RunRow
  <2> QED BY <2>1, <2>2, ColumnProgress
<1>3. CASE MarkDelivered(c, t)
  <2> DEFINE s == [session[t] EXCEPT !.state = "closed"]
             rs == [g \in Gen |-> IF g = session[t].current /\ run[t][g].state = "running"
                                  THEN Ended(run[t][g], "succeeded") ELSE run[t][g]]
  <2>1. session' = [session EXCEPT ![t] = s] /\ run' = [run EXCEPT ![t] = rs]
    BY <1>3 DEF MarkDelivered
  <2>2. s.gen = session[t].gen /\ RowsFollow(t, rs)
    BY <1>1 DEF SessionRow, RowsFollow, Follows
  <2> HIDE DEF s, rs
  <2> QED BY <2>1, <2>2, RowsProgress
<1>4. CASE Escalate(c, t)
  BY <1>1, <1>4, SelfFollows, NeedsAttentionProgress DEF Escalate
<1>5. ASSUME NEW g \in Gen, Held(t, g)
      PROVE  /\ run[t][g].state = "running"
             /\ \A state \in Final : /\ Finish(t, g, state) \in [Gen -> RunRow]
                                     /\ RowsFollow(t, Finish(t, g, state))
             /\ Fail(t, g) \in [Gen -> RunRow] /\ RowsFollow(t, Fail(t, g))
  BY <1>5, FinishType, FinishFollows DEF Held, Final
<1>6. ASSUME NEW g \in Gen, FinishLapsedDelivery(c, t, g) \/ FailDelivery(c, t, g)
      PROVE  AllProgress
  <2>1. Held(t, g) /\ NeedsAttention(t, session[t], Finish(t, g, "failed"), {})
    BY <1>6 DEF FinishLapsedDelivery, FailDelivery, Delivering
  <2> QED BY <1>1, <1>5, <2>1, NeedsAttentionProgress DEF Final
<1>7. ASSUME NEW g \in Gen, NEW isolated \in BOOLEAN, NEW infrastructure \in BOOLEAN,
             \/ FailDeliveryWithClass(c, t, g, isolated, infrastructure)
             \/ FailDeliveryLaunch(c, t, g, isolated, infrastructure)
      PROVE  AllProgress
  <2>1. Held(t, g)
    BY <1>7 DEF FailDeliveryWithClass, FailDeliveryLaunch, Delivering
  <2>2. PICK mayEscalate : RetryOrEscalate(t, g, Fail(t, g), mayEscalate)
    BY <1>7 DEF FailDeliveryWithClass, FailDeliveryLaunch
  <2> QED BY <1>5, <2>1, <2>2, RetryOrEscalateProgress
<1>8. ASSUME NEW g \in Gen, DeferDelivery(c, t, g) \/ RevalidateDelivery(c, t, g)
      PROVE  AllProgress
  <2>1. Held(t, g)
    BY <1>8 DEF DeferDelivery, RevalidateDelivery, Delivering
  <2>2. PICK retry : BackToReview(t, g, "superseded", retry)
    BY <1>8 DEF DeferDelivery, RevalidateDelivery
  <2> QED BY <1>5, <2>1, <2>2, BackToReviewProgress DEF Final
<1>9. ASSUME NEW g \in Gen, ReconcileMissingRun(c, t, g)
      PROVE  AllProgress
  <2>1. Held(t, g)
    BY <1>9 DEF ReconcileMissingRun
  <2>2. CASE RecoverExpired(t, g)
    BY <1>5, <2>1, <2>2, RecoverExpiredProgress
  <2>3. CASE Retire(t, g, "superseded") /\ UNCHANGED session
    <3>1. /\ session' = [session EXCEPT ![t] = session[t]]
          /\ run' = [run EXCEPT ![t] = Finish(t, g, "superseded")]
      BY <2>3 DEF Retire, TypeOK
    <3> QED BY <1>5, <2>1, <3>1, RowsProgress DEF Final
  <2> QED BY <1>9, <2>2, <2>3 DEF ReconcileMissingRun
<1> QED BY <1>2, <1>3, <1>4, <1>6, <1>7, <1>8, <1>9 DEF CallerStep

\* Every step of the ledger makes progress.
LEMMA NextProgress == TypeOK /\ [Next]_vars => AllProgress
<1> SUFFICES ASSUME TypeOK, [Next]_vars PROVE AllProgress
  OBVIOUS
<1>1. CASE UNCHANGED vars
  BY <1>1, UntouchedProgress DEF vars
<1>2. CASE LoseProofs \/ BeginMaintenance \/ ClearMaintenance
  BY <1>2, UntouchedProgress DEF LoseProofs, BeginMaintenance, ClearMaintenance
<1> QED BY <1>1, <1>2, TicketStepProgress, RunStepProgress, CallerStepProgress DEF Next

\* No generation beyond the last one of its session was ever issued, so that
\* a claim never finds a row where it inserts one.
THEOREM IssuedUpToGenHolds == Spec => []IssuedUpToGen
<1>1. Init => IssuedUpToGen
  BY DEF Init, IssuedUpToGen, NewRow
<1>2. TypeOK /\ IssuedUpToGen /\ TypeOK' /\ [Next]_vars => IssuedUpToGen'
  <2> SUFFICES ASSUME TypeOK, IssuedUpToGen, TypeOK', [Next]_vars,
                      NEW t \in Ticket, NEW g \in Gen, g > session'[t].gen
               PROVE  run'[t][g].state = "none"
    BY DEF IssuedUpToGen
  <2>1. Progress(t)
    BY NextProgress DEF AllProgress
  <2>2. session[t].gen \in Nat /\ session'[t].gen \in Nat
    BY Limits DEF TypeOK, SessionRow
  <2>3. run[t][g].state = "none"
    BY <2>1, <2>2 DEF IssuedUpToGen, Progress, Gen
  <2> QED BY <2>1, <2>3 DEF Progress, Follows
<1> QED BY <1>1, <1>2, TypeCorrect, PTL DEF Spec

\* A recorded outcome is never rewritten (OutcomesAreFinal), neither by an
\* owner that was taken over nor by a bulk cancellation, whatever operators
\* answer and in whatever order the processes call the store.
THEOREM OutcomesAreFinalHolds == Spec => OutcomesAreFinal
<1> DEFINE Stays == \A t \in Ticket, g \in Gen :
                     run[t][g].state \notin {"none", "running"} =>
                        run'[t][g].state = run[t][g].state
<1>1. TypeOK /\ IssuedUpToGen /\ [Next]_vars => [Stays]_vars
  <2> SUFFICES ASSUME TypeOK, IssuedUpToGen, [Next]_vars, NEW t \in Ticket, NEW g \in Gen,
                      run[t][g].state \notin {"none", "running"}
               PROVE  run'[t][g].state = run[t][g].state
    OBVIOUS
  <2>1. Progress(t)
    BY NextProgress DEF AllProgress
  <2>2. g <= session[t].gen
    <3>1. session[t].gen \in Nat
      BY Limits DEF TypeOK, SessionRow
    <3> QED BY <3>1 DEF IssuedUpToGen, Gen
  <2> QED BY <2>1, <2>2 DEF Progress, Follows
<1> QED BY <1>1, TypeCorrect, IssuedUpToGenHolds, PTL DEF Spec, OutcomesAreFinal

-----------------------------------------------------------------------------
(* Isolation proofs.                                                       *)
(*                                                                         *)
(* A proof names the current run.  Whatever replaces or ends that run      *)
(* drops the proofs of the ticket, and what only changes its columns can   *)
(* neither make a create pending nor begin a write once it is isolating.   *)
(* For the acknowledgement one more fact is needed: a run that is being    *)
(* isolated has no write in flight (Apart), which FenceIsolation checks    *)
(* and BeginWrite respects.                                                *)

\* A run that is being isolated has no write in flight.
Apart(r) == r.isolating => ~r.writing

AllApart(rs) == \A g \in Gen : Apart(rs[g])

\* Row r, of the current run, carries a proof.
Proven(r) == /\ r.state = "running"
             /\ r.leased
             /\ r.isolating
             /\ r.create # "pending"
             /\ ~r.writing

\* The invariant of one ticket with session s, runs rs and proofs ps.
Sound(s, rs, ps) == /\ AllApart(rs)
                    /\ ps # {} => s.current \in Gen /\ Proven(rs[s.current])

Soundness == \A t \in Ticket : Sound(session[t], run[t], proof[t])

IsolationInv == TypeOK /\ Soundness

\* It is enough to look at the ticket that a step changes.
LEMMA UpdateSound ==
    ASSUME IsolationInv, NEW t \in Ticket, NEW s, NEW rs, NEW ps,
           session' = [session EXCEPT ![t] = s], run' = [run EXCEPT ![t] = rs],
           proof' = [proof EXCEPT ![t] = ps], Sound(s, rs, ps)
    PROVE  Soundness'
<1> SUFFICES ASSUME NEW u \in Ticket
             PROVE  Sound(session'[u], run'[u], proof'[u])
  BY DEF Soundness
<1>1. Sound(session[u], run[u], proof[u])
  BY DEF IsolationInv, Soundness
<1>2. CASE u = t
  BY <1>2 DEF IsolationInv, Soundness, TypeOK
<1>3. CASE u # t
  BY <1>1, <1>3 DEF IsolationInv, Soundness, TypeOK
<1> QED BY <1>2, <1>3

\* A step that drops the proofs of its ticket.
LEMMA DropSound ==
    ASSUME IsolationInv, NEW t \in Ticket, NEW s, NEW rs, AllApart(rs),
           session' = [session EXCEPT ![t] = s], run' = [run EXCEPT ![t] = rs], DropProofs(t)
    PROVE  Soundness'
<1>1. Sound(s, rs, {})
  BY DEF Sound
<1>2. proof' = [proof EXCEPT ![t] = {}]
  BY DEF DropProofs
<1> QED BY <1>1, <1>2, UpdateSound

\* A step that changes columns of one run, and keeps a proven run proven.
LEMMA ColumnSound ==
    ASSUME IsolationInv, NEW t \in Ticket, NEW g \in Gen, NEW r,
           Apart(r), Proven(run[t][g]) => Proven(r),
           run' = [run EXCEPT ![t][g] = r], UNCHANGED <<session, proof>>
    PROVE  Soundness'
<1> DEFINE rs == [run[t] EXCEPT ![g] = r]
<1>1. /\ session' = [session EXCEPT ![t] = session[t]]
      /\ run' = [run EXCEPT ![t] = rs]
      /\ proof' = [proof EXCEPT ![t] = proof[t]]
  BY DEF IsolationInv, Soundness, TypeOK
<1>2. Sound(session[t], run[t], proof[t])
  BY DEF IsolationInv, Soundness
<1>3. \A h \in Gen : rs[h] = IF h = g THEN r ELSE run[t][h]
  BY DEF IsolationInv, Soundness, TypeOK
<1> HIDE DEF rs
<1>4. Sound(session[t], rs, proof[t])
  BY <1>2, <1>3 DEF Sound, AllApart
<1> QED BY <1>1, <1>4, UpdateSound

\* What the operations do to the columns of a row keeps it apart and proven:
\* a create begins, and a write, only where no isolation has begun.
KeepsProof(r, q) == Apart(r) /\ (Proven(q) => Proven(r))

LEMMA ColumnKeepsProof ==
    ASSUME NEW q \in RunRow, Apart(q)
    PROVE  /\ KeepsProof([q EXCEPT !.launch = "reserved"], q)
           /\ KeepsProof([q EXCEPT !.launch = "launched"], q)
           /\ ~q.isolating => KeepsProof([q EXCEPT !.create = "pending"], q)
           /\ KeepsProof([q EXCEPT !.create = "done"], q)
           /\ KeepsProof([q EXCEPT !.reported = TRUE], q)
           /\ ~q.isolating => KeepsProof([q EXCEPT !.writing = TRUE], q)
           /\ KeepsProof([q EXCEPT !.writing = FALSE], q)
           /\ KeepsProof([q EXCEPT !.lapsed = TRUE], q)
BY DEF KeepsProof, Apart, Proven, RunRow

\* A step that changes neither runs nor proofs nor which run is current.
LEMMA SessionSound ==
    ASSUME IsolationInv, NEW t \in Ticket, NEW s, s.current = session[t].current,
           session' = [session EXCEPT ![t] = s], UNCHANGED <<run, proof>>
    PROVE  Soundness'
<1>1. /\ run' = [run EXCEPT ![t] = run[t]]
      /\ proof' = [proof EXCEPT ![t] = proof[t]]
  BY DEF IsolationInv, Soundness, TypeOK
<1>2. Sound(session[t], run[t], proof[t])
  BY DEF IsolationInv, Soundness
<1>3. Sound(s, run[t], proof[t])
  BY <1>2 DEF Sound
<1> QED BY <1>1, <1>3, UpdateSound

LEMMA UntouchedSound ==
    ASSUME IsolationInv, UNCHANGED <<session, run, proof>>
    PROVE  Soundness'
BY DEF IsolationInv, Soundness

\* A run that ends, with or without a recorded failure, is no longer being
\* isolated.
LEMMA EndedApart ==
    ASSUME NEW r \in RunRow, NEW state \in Final
    PROVE  Apart(Ended(r, state)) /\ Apart([Ended(r, state) EXCEPT !.failure = TRUE])
BY DEF Apart, Ended, NewRow, RunRow, Final

LEMMA FinishApart ==
    ASSUME IsolationInv, NEW t \in Ticket
    PROVE  /\ AllApart(run[t])
           /\ AllApart(Superseded(t))
           /\ \A g \in Gen : /\ AllApart(Fail(t, g))
                             /\ \A state \in Final : AllApart(Finish(t, g, state))
<1>1. AllApart(run[t]) /\ run[t] \in [Gen -> RunRow]
  BY DEF IsolationInv, Soundness, Sound, TypeOK
<1>2. AllApart(Superseded(t))
  BY <1>1, EndedApart DEF AllApart, Superseded, Final
<1>3. ASSUME NEW g \in Gen, NEW state \in Final
      PROVE  AllApart(Fail(t, g)) /\ AllApart(Finish(t, g, state))
  BY <1>1, EndedApart DEF AllApart, Fail, Finish, Final
<1>4. "failed" \in Final
  BY DEF Final
<1> QED BY <1>1, <1>2, <1>3, <1>4

LEMMA IssueSound ==
    ASSUME IsolationInv, NEW t \in Ticket, NEW s, NEW rs \in [Gen -> RunRow],
           NEW kind, NEW revises, AllApart(rs), Issue(t, s, rs, kind, revises)
    PROVE  Soundness'
<1> DEFINE n == s.gen + 1
           row == [NewRow(kind, "running", s.epoch) EXCEPT !.revises = revises]
           s2 == [s EXCEPT !.state = "running", !.current = n, !.gen = n]
           rs2 == [rs EXCEPT ![n] = row]
<1>1. /\ session' = [session EXCEPT ![t] = s2]
      /\ run' = [run EXCEPT ![t] = rs2]
      /\ DropProofs(t)
  BY DEF Issue
<1>2. Apart(row)
  BY DEF Apart, NewRow
<1>3. \A g \in Gen : rs2[g] = row \/ rs2[g] = rs[g]
  OBVIOUS
<1> HIDE DEF s2, rs2, row
<1>4. AllApart(rs2)
  BY <1>2, <1>3 DEF AllApart
<1> QED BY <1>1, <1>4, DropSound

LEMMA NeedsAttentionSound ==
    ASSUME IsolationInv, NEW t \in Ticket, NEW s, NEW rs \in [Gen -> RunRow],
           AllApart(rs), NEW also, NeedsAttention(t, s, rs, also)
    PROVE  Soundness'
<1> DEFINE s2 == [s EXCEPT !.retry = FALSE]
           rs2 == [g \in Gen |-> IF rs[g].state = "running"
                                 THEN Ended(rs[g], "cancelled")
                                 ELSE [rs[g] EXCEPT !.leased = FALSE]]
<1>1. /\ session' = [session EXCEPT ![t] = s2]
      /\ run' = [run EXCEPT ![t] = rs2]
      /\ DropProofs(t)
  BY DEF NeedsAttention
<1>2. ASSUME NEW g \in Gen
      PROVE  Apart(rs2[g])
  <2>1. rs[g] \in RunRow /\ Apart(rs[g])
    BY DEF AllApart
  <2>2. Apart(Ended(rs[g], "cancelled"))
    BY <2>1, EndedApart DEF Final
  <2>3. Apart([rs[g] EXCEPT !.leased = FALSE])
    BY <2>1 DEF Apart, RunRow
  <2> QED BY <2>2, <2>3
<1> HIDE DEF s2, rs2
<1>3. AllApart(rs2)
  BY <1>2 DEF AllApart
<1> QED BY <1>1, <1>3, DropSound

LEMMA BackToReviewSound ==
    ASSUME IsolationInv, NEW t \in Ticket, NEW g \in Gen, NEW state \in Final, NEW retry,
           BackToReview(t, g, state, retry)
    PROVE  Soundness'
<1>1. AllApart(Finish(t, g, state))
  BY FinishApart
<1> DEFINE s == [session[t] EXCEPT !.retry = retry]
<1>2. /\ session' = [session EXCEPT ![t] = s]
      /\ run' = [run EXCEPT ![t] = Finish(t, g, state)]
      /\ DropProofs(t)
  BY DEF BackToReview, Retire
<1> HIDE DEF s
<1> QED BY <1>1, <1>2, DropSound

LEMMA RetryOrEscalateSound ==
    ASSUME IsolationInv, NEW t \in Ticket, NEW g \in Gen, NEW rs \in [Gen -> RunRow],
           NEW mayEscalate, AllApart(rs), RetryOrEscalate(t, g, rs, mayEscalate)
    PROVE  Soundness'
<1>1. CASE NeedsAttention(t, session[t], rs, {})
  BY <1>1, NeedsAttentionSound
<1>2. CASE ~NeedsAttention(t, session[t], rs, {})
  <2> DEFINE s == [session[t] EXCEPT !.retry = TRUE]
  <2>1. /\ session' = [session EXCEPT ![t] = s]
        /\ run' = [run EXCEPT ![t] = rs]
        /\ DropProofs(t)
    BY <1>2 DEF RetryOrEscalate
  <2> HIDE DEF s
  <2> QED BY <2>1, DropSound
<1> QED BY <1>1, <1>2

LEMMA RecoverExpiredSound ==
    ASSUME IsolationInv, NEW t \in Ticket, NEW g \in Gen, RecoverExpired(t, g)
    PROVE  Soundness'
<1>1. /\ AllApart(Finish(t, g, "failed")) /\ AllApart(Fail(t, g))
      /\ Finish(t, g, "failed") \in [Gen -> RunRow] /\ Fail(t, g) \in [Gen -> RunRow]
  BY FinishApart, FinishType DEF Final, IsolationInv, Soundness
<1> QED BY <1>1, RetryOrEscalateSound, NeedsAttentionSound DEF RecoverExpired

\* Claims, answers and feedback of a ticket.
LEMMA TicketStepSound ==
    ASSUME IsolationInv, NEW t \in Ticket, TicketStep(t)
    PROVE  Soundness'
<1> DEFINE left == IF LapsedAgent(t) THEN Superseded(t) ELSE run[t]
           lost == IF \E g \in Gen : Held(t, g) THEN Finish(t, session[t].current, "failed")
                   ELSE run[t]
<1>1. /\ session[t] \in SessionRow /\ run[t] \in [Gen -> RunRow]
      /\ Superseded(t) \in [Gen -> RunRow]
      /\ AllApart(run[t]) /\ AllApart(Superseded(t))
  BY SupersededType, FinishApart DEF IsolationInv, Soundness, TypeOK
<1>2. left \in [Gen -> RunRow] /\ AllApart(left)
  BY <1>1
<1>3. ASSUME \E g \in Gen : Held(t, g)
      PROVE  /\ Finish(t, session[t].current, "failed") \in [Gen -> RunRow]
             /\ AllApart(Finish(t, session[t].current, "failed"))
  BY <1>3, FinishType, FinishApart DEF Held, Final, IsolationInv, Soundness
<1> HIDE DEF left
<1>4. CASE ClaimReady(t)
  BY <1>1, <1>4, IssueSound DEF ClaimReady
<1>5. CASE ClaimReadyReleasesFeedback(t)
  <2>1. /\ session' = [session EXCEPT ![t] = session[t]]
        /\ run' = [run EXCEPT ![t] = Superseded(t)]
        /\ DropProofs(t)
    BY <1>5 DEF ClaimReadyReleasesFeedback, IsolationInv, Soundness, TypeOK
  <2> QED BY <1>1, <2>1, DropSound
<1>6. CASE ClaimReadyExhausted(t)
  BY <1>1, <1>6, NeedsAttentionSound DEF ClaimReadyExhausted
<1>7. CASE ClaimReadyAuthenticationLost(t)
  BY <1>1, <1>3, <1>7, NeedsAttentionSound DEF ClaimReadyAuthenticationLost
<1>8. CASE ClaimPendingDelivery(t)
  BY <1>1, <1>8, IssueSound DEF ClaimPendingDelivery
<1>9. CASE ClaimQueuedReview(t)
  BY <1>2, <1>9, IssueSound DEF ClaimQueuedReview, left
<1>10. CASE ClaimQueuedReviewExhausted(t)
  BY <1>2, <1>10, NeedsAttentionSound DEF ClaimQueuedReviewExhausted, left
<1>11. CASE ClaimQueuedReviewAuthenticationLost(t)
  <2>1. CASE LapsedAgent(t)
    <3>1. \E g \in Gen : Held(t, g)
      BY <2>1 DEF LapsedAgent
    <3> QED BY <1>3, <1>11, <2>1, <3>1, NeedsAttentionSound
            DEF ClaimQueuedReviewAuthenticationLost
  <2>2. CASE ~LapsedAgent(t)
    BY <1>1, <1>11, <2>2, NeedsAttentionSound DEF ClaimQueuedReviewAuthenticationLost
  <2> QED BY <2>1, <2>2
<1>12. CASE AnswerNeedsAttention(t) \/ RetryPollFailure(t)
  <2> DEFINE resumed == [session[t] EXCEPT !.failures = 0, !.retry = TRUE]
             restarted == [session[t] EXCEPT !.failures = 0, !.epoch = session[t].epoch + 1]
  <2>1. resumed.current = session[t].current /\ restarted.current = session[t].current
    BY <1>1 DEF SessionRow
  <2>2. /\ UNCHANGED <<run, proof>>
        /\ \/ UNCHANGED session
           \/ session' = [session EXCEPT ![t] = resumed]
           \/ session' = [session EXCEPT ![t] = restarted]
    BY <1>12 DEF AnswerNeedsAttention, RetryPollFailure, RecoverTicket, IsolationInv, Soundness, TypeOK
  <2> HIDE DEF resumed, restarted
  <2> QED BY <2>1, <2>2, SessionSound, UntouchedSound
<1>13. CASE AnswerQualityGate(t)
  <2> DEFINE s == [session[t] EXCEPT !.retry = TRUE]
  <2>1. s.current = session[t].current
    BY <1>1 DEF SessionRow
  <2>2. UNCHANGED <<run, proof>> /\ session' = [session EXCEPT ![t] = s]
    BY <1>13 DEF AnswerQualityGate
  <2> HIDE DEF s
  <2> QED BY <2>1, <2>2, SessionSound
<1>14. CASE RecordReviewFeedback(t) \/ BackoffElapses(t)
  BY <1>14, UntouchedSound DEF RecordReviewFeedback, BackoffElapses
<1> QED BY <1>4, <1>5, <1>6, <1>7, <1>8, <1>9, <1>10, <1>11, <1>12, <1>13, <1>14 DEF TicketStep

\* The steps of a run's goroutine and of the processes that serve it.
LEMMA RunStepSound ==
    ASSUME IsolationInv, NEW t \in Ticket, NEW g \in Gen, RunStep(t, g)
    PROVE  Soundness'
<1>1. /\ run[t][g] \in RunRow /\ Apart(run[t][g])
      /\ Fail(t, g) \in [Gen -> RunRow] /\ AllApart(Fail(t, g))
      /\ Finish(t, g, "failed") \in [Gen -> RunRow] /\ AllApart(Finish(t, g, "failed"))
      /\ Finish(t, g, "succeeded") \in [Gen -> RunRow] /\ AllApart(Finish(t, g, "succeeded"))
  BY FinishType, FinishApart DEF IsolationInv, Soundness, TypeOK, AllApart, Final
\* The changes of a column: neither a pending create nor a write begins on a
\* run that is being isolated, and the rest leaves the proof's columns alone.
<1>2. CASE \/ ReservePrelaunch(t, g) \/ AcquireCreateFence(t, g) \/ ReleaseCreateFence(t, g)
           \/ ReserveLaunch(t, g) \/ RecordWorkerContainer(t, g)
           \/ BeginWrite(t, g) \/ EndWrite(t, g) \/ Lapse(t, g)
  <2> DEFINE row == run[t][g]
  <2>1. ASSUME NEW r, KeepsProof(r, row), run' = [run EXCEPT ![t][g] = r],
               UNCHANGED <<session, proof>>
        PROVE  Soundness'
    BY <2>1, ColumnSound DEF KeepsProof
  <2>2. CASE ReservePrelaunch(t, g)
    BY <1>1, <2>1, <2>2, ColumnKeepsProof DEF ReservePrelaunch
  <2>3. CASE AcquireCreateFence(t, g)
    BY <1>1, <2>1, <2>3, ColumnKeepsProof DEF AcquireCreateFence
  <2>4. CASE ReleaseCreateFence(t, g)
    BY <1>1, <2>1, <2>4, ColumnKeepsProof DEF ReleaseCreateFence
  <2>5. CASE ReserveLaunch(t, g)
    BY <1>1, <2>1, <2>5, ColumnKeepsProof DEF ReserveLaunch
  <2>6. CASE RecordWorkerContainer(t, g)
    BY <1>1, <2>1, <2>6, ColumnKeepsProof DEF RecordWorkerContainer
  <2>7. CASE BeginWrite(t, g)
    BY <1>1, <2>1, <2>7, ColumnKeepsProof DEF BeginWrite
  <2>8. CASE EndWrite(t, g)
    BY <1>1, <2>1, <2>8, ColumnKeepsProof DEF EndWrite
  <2>9. CASE Lapse(t, g)
    BY <1>1, <2>1, <2>9, ColumnKeepsProof DEF Lapse
  <2> QED BY <1>2, <2>2, <2>3, <2>4, <2>5, <2>6, <2>7, <2>8, <2>9
<1>3. CASE AcceptCandidate(t, g)
  BY <1>1, <1>3, IssueSound DEF AcceptCandidate
<1>4. ASSUME NEW infrastructure \in BOOLEAN, RecordRunFailure(t, g, infrastructure)
      PROVE  Soundness'
  <2> DEFINE s == [session[t] EXCEPT !.failures = Increment(session[t].failures)]
  <2>1. /\ session' = [session EXCEPT ![t] = s]
        /\ run' = [run EXCEPT ![t] = Fail(t, g)]
        /\ DropProofs(t)
    BY <1>4 DEF RecordRunFailure
  <2> HIDE DEF s
  <2> QED BY <1>1, <2>1, DropSound
<1>5. CASE RecordRunAuthenticationFailure(t, g)
  BY <1>1, <1>5, NeedsAttentionSound DEF RecordRunAuthenticationFailure
<1>6. CASE RecoverAuthenticationFailure(t, g)
  BY <1>1, <1>6, NeedsAttentionSound DEF RecoverAuthenticationFailure
<1>7. CASE CompleteDelivery(t, g)
  BY <1>7, BackToReviewSound DEF CompleteDelivery, Final
<1>8. CASE PauseForQualityGate(t, g)
  <2>1. /\ session' = [session EXCEPT ![t] = session[t]]
        /\ run' = [run EXCEPT ![t] = Finish(t, g, "succeeded")]
        /\ DropProofs(t)
    BY <1>8 DEF PauseForQualityGate, Retire, IsolationInv, Soundness, TypeOK
  <2> QED BY <1>1, <2>1, DropSound
<1>9. CASE RecoverUnlaunchedDelivery(t, g)
  BY <1>9, RecoverExpiredSound DEF RecoverUnlaunchedDelivery
<1> QED BY <1>2, <1>3, <1>4, <1>5, <1>6, <1>7, <1>8, <1>9 DEF RunStep

\* The steps that ask for an isolation, or carry it out.
LEMMA CallerStepSound ==
    ASSUME IsolationInv, NEW c \in Caller, NEW t \in Ticket, CallerStep(c, t)
    PROVE  Soundness'
<1>1. run[t] \in [Gen -> RunRow] /\ AllApart(run[t])
  BY FinishApart DEF IsolationInv, Soundness, TypeOK
<1>2. CASE FenceIsolation(c, t)
  <2> DEFINE g == session[t].current
             r == [run[t][g] EXCEPT !.isolating = TRUE]
  <2>1. g \in Gen /\ run[t][g] \in RunRow /\ ~run[t][g].writing
    BY <1>1, <1>2 DEF FenceIsolation, IsTarget, WriteFenced, Held
  <2>2. Apart(r) /\ (Proven(run[t][g]) => Proven(r))
    BY <2>1 DEF Apart, Proven, RunRow
  <2>3. run' = [run EXCEPT ![t][g] = r] /\ UNCHANGED <<session, proof>>
    BY <1>2 DEF FenceIsolation
  <2> HIDE DEF g, r
  <2> QED BY <2>1, <2>2, <2>3, ColumnSound
<1>3. CASE AcknowledgeIsolation(c, t)
  <2> DEFINE g == session[t].current
             r == [run[t][g] EXCEPT !.create = IF run[t][g].create = "pending" THEN "done"
                                               ELSE run[t][g].create]
             rs == [run[t] EXCEPT ![g] = r]
             ps == proof[t] \cup {c}
  <2>1. g \in Gen /\ run[t][g] \in RunRow /\ Held(t, g) /\ run[t][g].isolating
    BY <1>1, <1>3 DEF AcknowledgeIsolation, IsTarget, Held
  <2>2. ~run[t][g].writing
    BY <1>1, <2>1 DEF AllApart, Apart
  <2>3. Proven(r) /\ Apart(r)
    BY <2>1, <2>2 DEF Proven, Apart, RunRow, Held
  <2>4. /\ session' = [session EXCEPT ![t] = session[t]]
        /\ run' = [run EXCEPT ![t] = rs]
        /\ proof' = [proof EXCEPT ![t] = ps]
    BY <1>3 DEF AcknowledgeIsolation, IsolationInv, Soundness, TypeOK
  <2>5. \A h \in Gen : rs[h] = IF h = g THEN r ELSE run[t][h]
    BY <1>1
  <2>6. Sound(session[t], rs, ps)
    <3> HIDE DEF r, rs, ps
    <3> QED BY <1>1, <2>1, <2>3, <2>5 DEF Sound, AllApart
  <2> HIDE DEF rs, ps
  <2> QED BY <2>4, <2>6, UpdateSound
<1>4. CASE MarkDelivered(c, t)
  <2> DEFINE s == [session[t] EXCEPT !.state = "closed"]
             rs == [g \in Gen |-> IF g = session[t].current /\ run[t][g].state = "running"
                                  THEN Ended(run[t][g], "succeeded") ELSE run[t][g]]
  <2>1. session' = [session EXCEPT ![t] = s] /\ run' = [run EXCEPT ![t] = rs] /\ DropProofs(t)
    BY <1>4 DEF MarkDelivered
  <2>2. AllApart(rs)
    BY <1>1, EndedApart DEF AllApart, Final
  <2> HIDE DEF s, rs
  <2> QED BY <2>1, <2>2, DropSound
<1>5. CASE Escalate(c, t)
  BY <1>1, <1>5, NeedsAttentionSound DEF Escalate
<1>6. ASSUME NEW g \in Gen
      PROVE  /\ Finish(t, g, "failed") \in [Gen -> RunRow] /\ AllApart(Finish(t, g, "failed"))
             /\ Fail(t, g) \in [Gen -> RunRow] /\ AllApart(Fail(t, g))
             /\ AllApart(Finish(t, g, "superseded"))
  BY FinishType, FinishApart DEF Final, IsolationInv, Soundness
<1>7. ASSUME NEW g \in Gen, FinishLapsedDelivery(c, t, g) \/ FailDelivery(c, t, g)
      PROVE  Soundness'
  BY <1>6, <1>7, NeedsAttentionSound DEF FinishLapsedDelivery, FailDelivery
<1>8. ASSUME NEW g \in Gen, NEW isolated \in BOOLEAN, NEW infrastructure \in BOOLEAN,
             \/ FailDeliveryWithClass(c, t, g, isolated, infrastructure)
             \/ FailDeliveryLaunch(c, t, g, isolated, infrastructure)
      PROVE  Soundness'
  <2>1. PICK mayEscalate : RetryOrEscalate(t, g, Fail(t, g), mayEscalate)
    BY <1>8 DEF FailDeliveryWithClass, FailDeliveryLaunch
  <2> QED BY <1>6, <2>1, RetryOrEscalateSound
<1>9. ASSUME NEW g \in Gen, DeferDelivery(c, t, g) \/ RevalidateDelivery(c, t, g)
      PROVE  Soundness'
  <2>1. PICK retry : BackToReview(t, g, "superseded", retry)
    BY <1>9 DEF DeferDelivery, RevalidateDelivery
  <2> QED BY <2>1, BackToReviewSound DEF Final
<1>10. ASSUME NEW g \in Gen, ReconcileMissingRun(c, t, g)
       PROVE  Soundness'
  <2>1. CASE RecoverExpired(t, g)
    BY <2>1, RecoverExpiredSound
  <2>2. CASE Retire(t, g, "superseded") /\ UNCHANGED session
    <3>1. /\ session' = [session EXCEPT ![t] = session[t]]
          /\ run' = [run EXCEPT ![t] = Finish(t, g, "superseded")]
          /\ DropProofs(t)
      BY <2>2 DEF Retire, IsolationInv, Soundness, TypeOK
    <3> QED BY <1>6, <3>1, DropSound
  <2> QED BY <1>10, <2>1, <2>2 DEF ReconcileMissingRun
<1> QED BY <1>2, <1>3, <1>4, <1>5, <1>7, <1>8, <1>9, <1>10 DEF CallerStep

\* The inductive invariant: the ledger is typed, whoever is isolated does not
\* write, and every proof names a run that is still fenced.
THEOREM IsolationIsSound == Spec => []IsolationInv
<1>1. Init /\ TypeOK => IsolationInv
  BY DEF Init, NewRow, IsolationInv, Soundness, Sound, AllApart, Apart
<1>2. IsolationInv /\ [Next]_vars => Soundness'
  <2> SUFFICES ASSUME IsolationInv, [Next]_vars PROVE Soundness'
    OBVIOUS
  <2>1. CASE UNCHANGED vars
    BY <2>1, UntouchedSound DEF vars
  <2>2. CASE BeginMaintenance \/ ClearMaintenance
    BY <2>2, UntouchedSound DEF BeginMaintenance, ClearMaintenance
  <2>3. CASE LoseProofs
    BY <2>3 DEF LoseProofs, IsolationInv, Soundness, Sound
  <2> QED BY <2>1, <2>2, <2>3, TicketStepSound, RunStepSound, CallerStepSound DEF Next
<1>3. IsolationInv <=> TypeOK /\ Soundness
  BY DEF IsolationInv, Soundness
<1> QED BY <1>1, <1>2, <1>3, TypeCorrect, PTL DEF Spec

\* While a caller holds an isolation proof, the run it names is the current
\* one and can neither get a container, start one, nor write
\* (ProvenRunsStayFenced): the proofs that a retried transition presents are
\* good whatever happened since they were gathered.
THEOREM ProvenRunsStayFencedHolds == Spec => []ProvenRunsStayFenced
<1>1. IsolationInv => ProvenRunsStayFenced
  BY DEF IsolationInv, Soundness, Sound, Proven, ProvenRunsStayFenced, Held
<1> QED BY <1>1, IsolationIsSound, PTL

-----------------------------------------------------------------------------
(* Promises.                                                               *)
(*                                                                         *)
(* A step of the ledger either keeps every row, so that none starts, comes *)
(* alive again or takes up a review batch, or issues one row besides, for  *)
(* which it has looked at the blockers or found a session that did, and    *)
(* has found room or just made it (IssuesAtMostOne).                       *)

Live(r) == r.state = "running" /\ r.leased /\ ~r.lapsed

\* Row r may follow row q in a step that does not issue it: no row starts or
\* starts again, and while it runs it neither leaves an isolation nor returns
\* to the time before its launch.
Kept(q, r) == /\ q.state = "none" <=> r.state = "none"
              /\ Live(r) => Live(q)
              /\ r.revises => q.revises /\ r.state = q.state /\ r.kind = q.kind
              /\ r.state = "running" => /\ q.state = "running"
                                        /\ q.isolating => r.isolating
                                        /\ r.launch = "ready" => q.launch = "ready"

RowsKept(t, rs) == \A g \in Gen : Kept(run[t][g], rs[g])

DeliveredStays == \A t \in Ticket : ticketState[t] = "delivered" => ticketState'[t] = "delivered"

\* The session of a ticket for which a run was issued.
Opened(s) == s.state # "none" \/ s.accepted # 0

SessionsStay(t) == Opened(session'[t]) => Opened(session[t])

\* A step that issues no run.
IssuesNone == \A t \in Ticket : SessionsStay(t) /\ RowsKept(t, run'[t])

\* A step that issues run n of ticket t, and no other.
IssuesRun(t, n) ==
    /\ session[t].gen < n
    /\ \A u \in Ticket, g \in Gen : u # t \/ g # n => Kept(run[u][g], run'[u][g])
    /\ \A u \in Ticket \ {t} : SessionsStay(u)
    /\ run'[t][n].state = "running"
    /\ run'[t][n].revises => run'[t][n].kind = "agent"
    /\ Ready(t) \/ Opened(session[t])
    /\ \/ HasCapacity
       \/ \E g \in Gen : Live(run[t][g]) /\ (g # n => ~Live(run'[t][g]))

IssuesAtMostOne ==
    /\ DeliveredStays
    /\ IssuesNone \/ \E t \in Ticket, n \in Gen : IssuesRun(t, n)

-----------------------------------------------------------------------------
(* The steps.                                                              *)

LEMMA SetTicketStays ==
    ASSUME TypeOK, NEW t \in Ticket, NEW state, SetTicket(t, state)
    PROVE  DeliveredStays
BY DEF TypeOK, SetTicket, DeliveredStays

\* It is enough to look at the ticket that a step changes.
LEMMA UpdateAtMostOne ==
    ASSUME TypeOK, NEW t \in Ticket, NEW s, NEW rs, DeliveredStays,
           session' = [session EXCEPT ![t] = s], run' = [run EXCEPT ![t] = rs],
           Opened(s) => Opened(session[t]), RowsKept(t, rs)
    PROVE  IssuesAtMostOne
<1> SUFFICES ASSUME NEW u \in Ticket PROVE SessionsStay(u) /\ RowsKept(u, run'[u])
  BY DEF IssuesAtMostOne, IssuesNone
<1>1. CASE u = t
  BY <1>1 DEF SessionsStay, TypeOK
<1>2. CASE u # t
  <2>1. session'[u] = session[u] /\ run'[u] = run[u]
    BY <1>2 DEF TypeOK
  <2> QED BY <2>1 DEF SessionsStay, RowsKept, Kept
<1> QED BY <1>1, <1>2

\* A change of one row that keeps it.
LEMMA ColumnAtMostOne ==
    ASSUME TypeOK, NEW t \in Ticket, NEW g \in Gen, NEW r, Kept(run[t][g], r),
           run' = [run EXCEPT ![t][g] = r], UNCHANGED <<session, ticketState>>
    PROVE  IssuesAtMostOne
<1> DEFINE rs == [run[t] EXCEPT ![g] = r]
<1>1. /\ session' = [session EXCEPT ![t] = session[t]]
      /\ run' = [run EXCEPT ![t] = rs]
  BY DEF TypeOK
<1>2. RowsKept(t, rs)
  BY DEF TypeOK, RowsKept, Kept
<1>3. DeliveredStays
  BY DEF DeliveredStays
<1> HIDE DEF rs
<1> QED BY <1>1, <1>2, <1>3, UpdateAtMostOne

LEMMA UntouchedAtMostOne ==
    ASSUME UNCHANGED <<session, run, ticketState>>
    PROVE  IssuesAtMostOne
BY DEF IssuesAtMostOne, IssuesNone, SessionsStay, RowsKept, Kept, DeliveredStays

\* A row that ended has started and is neither live nor a revision.
LEMMA EndedKept ==
    ASSUME NEW q \in RunRow, q.state = "running", NEW state \in Final
    PROVE  /\ Kept(q, Ended(q, state))
           /\ Kept(q, [Ended(q, state) EXCEPT !.failure = TRUE])
BY DEF Kept, Live, Ended, NewRow, RunRow, Final

LEMMA FinishKept ==
    ASSUME TypeOK, NEW t \in Ticket, NEW g \in Gen, run[t][g].state = "running",
           NEW state \in Final
    PROVE  RowsKept(t, Finish(t, g, state)) /\ RowsKept(t, Fail(t, g))
<1>1. run[t] \in [Gen -> RunRow] /\ "failed" \in Final
  BY DEF TypeOK, Final
<1> SUFFICES ASSUME NEW h \in Gen
             PROVE  /\ Kept(run[t][h], Finish(t, g, state)[h])
                    /\ Kept(run[t][h], Fail(t, g)[h])
  BY DEF RowsKept
<1>2. CASE h # g
  BY <1>1, <1>2 DEF Kept, Finish, Fail
<1>3. CASE h = g
  BY <1>1, <1>3, EndedKept DEF Finish, Fail
<1> QED BY <1>2, <1>3

LEMMA SupersededKept ==
    ASSUME TypeOK, NEW t \in Ticket
    PROVE  RowsKept(t, Superseded(t))
<1> SUFFICES ASSUME NEW g \in Gen PROVE Kept(run[t][g], Superseded(t)[g])
  BY DEF RowsKept
<1>1. run[t][g] \in RunRow /\ "superseded" \in Final
  BY DEF TypeOK, Final
<1>2. CASE g = session[t].current /\ run[t][g].state = "running"
  BY <1>1, <1>2, EndedKept DEF Superseded
<1>3. CASE ~(g = session[t].current /\ run[t][g].state = "running")
  BY <1>3 DEF Superseded, Kept
<1> QED BY <1>2, <1>3

LEMMA SelfKept ==
    ASSUME NEW t \in Ticket
    PROVE  RowsKept(t, run[t])
BY DEF RowsKept, Kept

\* Issuing a run over rows that are kept.
LEMMA IssueAtMostOne ==
    ASSUME TypeOK, NEW t \in Ticket, NEW s \in SessionRow, NEW rs \in [Gen -> RunRow],
           NEW kind, NEW revises \in BOOLEAN, revises => kind = "agent", RowsKept(t, rs),
           s.gen = session[t].gen,
           Issue(t, s, rs, kind, revises),
           Ready(t) \/ Opened(session[t]),
           \/ HasCapacity
           \/ \E g \in Gen : Live(run[t][g]) /\ ~Live(rs[g])
    PROVE  IssuesAtMostOne
<1> DEFINE n == s.gen + 1
           row == [NewRow(kind, "running", s.epoch) EXCEPT !.revises = revises]
           s2 == [s EXCEPT !.state = "running", !.current = n, !.gen = n]
           rs2 == [rs EXCEPT ![n] = row]
<1>1. /\ session' = [session EXCEPT ![t] = s2]
      /\ run' = [run EXCEPT ![t] = rs2]
      /\ DeliveredStays
  BY SetTicketStays DEF Issue
<1>2. n \in Gen /\ session[t].gen < n
  BY Limits DEF Issue, SessionRow, Gen
<1>3. row.state = "running" /\ row.kind = kind /\ row.revises = revises
  BY DEF NewRow
<1> HIDE DEF n, row, s2
<1>4. /\ run'[t] = rs2
      /\ \A u \in Ticket \ {t} : run'[u] = run[u] /\ session'[u] = session[u]
  BY <1>1 DEF TypeOK
<1>5. rs2[n] = row /\ \A g \in Gen : g # n => rs2[g] = rs[g]
  BY <1>2
<1> HIDE DEF rs2
<1>6. ASSUME NEW u \in Ticket, NEW g \in Gen, u # t \/ g # n
      PROVE  Kept(run[u][g], run'[u][g])
  <2>1. CASE u = t
    BY <1>4, <1>5, <1>6, <2>1 DEF RowsKept
  <2>2. CASE u # t
    BY <1>4, <2>2 DEF Kept
  <2> QED BY <2>1, <2>2
<1>7. \A u \in Ticket \ {t} : SessionsStay(u)
  BY <1>4 DEF SessionsStay
<1>8. \/ HasCapacity
      \/ \E g \in Gen : Live(run[t][g]) /\ (g # n => ~Live(run'[t][g]))
  BY <1>4, <1>5
<1>9. run'[t][n].state = "running" /\ (run'[t][n].revises => run'[t][n].kind = "agent")
  BY <1>3, <1>4, <1>5
<1>10. IssuesRun(t, n)
  BY <1>2, <1>6, <1>7, <1>8, <1>9 DEF IssuesRun
<1> QED BY <1>1, <1>2, <1>10 DEF IssuesAtMostOne

\* An escalation cancels what runs and starts nothing.
LEMMA NeedsAttentionAtMostOne ==
    ASSUME TypeOK, NEW t \in Ticket, NEW s \in SessionRow, NEW rs \in [Gen -> RunRow],
           Opened(s) => Opened(session[t]), RowsKept(t, rs), NEW also, NeedsAttention(t, s, rs, also)
    PROVE  IssuesAtMostOne
<1> DEFINE s2 == [s EXCEPT !.retry = FALSE]
           rs2 == [g \in Gen |-> IF rs[g].state = "running"
                                 THEN Ended(rs[g], "cancelled")
                                 ELSE [rs[g] EXCEPT !.leased = FALSE]]
<1>1. /\ session' = [session EXCEPT ![t] = s2]
      /\ run' = [run EXCEPT ![t] = rs2]
      /\ DeliveredStays
  BY SetTicketStays DEF NeedsAttention
<1>2. Opened(s2) => Opened(session[t])
  BY DEF SessionRow, Opened
<1>3. ASSUME NEW g \in Gen
      PROVE  Kept(run[t][g], rs2[g])
  <2>1. Kept(run[t][g], rs[g]) /\ rs[g] \in RunRow /\ "cancelled" \in Final
    BY DEF RowsKept, Final
  <2>2. Kept(rs[g], rs2[g])
    <3>1. CASE rs[g].state = "running"
      BY <2>1, <3>1, EndedKept
    <3>2. CASE rs[g].state # "running"
      BY <2>1, <3>2 DEF Kept, Live, RunRow
    <3> QED BY <3>1, <3>2
  <2> HIDE DEF rs2
  <2> QED BY <2>1, <2>2 DEF Kept
<1> HIDE DEF s2, rs2
<1>4. RowsKept(t, rs2)
  BY <1>3 DEF RowsKept
<1> QED BY <1>1, <1>2, <1>4, UpdateAtMostOne

LEMMA BackToReviewAtMostOne ==
    ASSUME TypeOK, NEW t \in Ticket, NEW g \in Gen, run[t][g].state = "running",
           NEW state \in Final, NEW retry, BackToReview(t, g, state, retry)
    PROVE  IssuesAtMostOne
<1> DEFINE s == [session[t] EXCEPT !.retry = retry]
<1>1. /\ session' = [session EXCEPT ![t] = s]
      /\ run' = [run EXCEPT ![t] = Finish(t, g, state)]
      /\ Opened(s) => Opened(session[t])
      /\ DeliveredStays
  BY SetTicketStays DEF BackToReview, Retire, TypeOK, SessionRow, Opened
<1> HIDE DEF s
<1> QED BY <1>1, FinishKept, UpdateAtMostOne

LEMMA RetryOrEscalateAtMostOne ==
    ASSUME TypeOK, NEW t \in Ticket, NEW g \in Gen, NEW rs \in [Gen -> RunRow],
           NEW mayEscalate, RowsKept(t, rs), RetryOrEscalate(t, g, rs, mayEscalate)
    PROVE  IssuesAtMostOne
<1>1. session[t] \in SessionRow
  BY DEF TypeOK
<1>2. CASE NeedsAttention(t, session[t], rs, {})
  BY <1>1, <1>2, NeedsAttentionAtMostOne
<1>3. CASE ~NeedsAttention(t, session[t], rs, {})
  <2> DEFINE s == [session[t] EXCEPT !.retry = TRUE]
  <2>1. /\ session' = [session EXCEPT ![t] = s]
        /\ run' = [run EXCEPT ![t] = rs]
        /\ DeliveredStays
    BY <1>3, SetTicketStays DEF RetryOrEscalate
  <2>2. Opened(s) => Opened(session[t])
    BY <1>1 DEF SessionRow, Opened
  <2> HIDE DEF s
  <2> QED BY <2>1, <2>2, UpdateAtMostOne
<1> QED BY <1>2, <1>3

LEMMA RecoverExpiredAtMostOne ==
    ASSUME TypeOK, NEW t \in Ticket, NEW g \in Gen, run[t][g].state = "running",
           RecoverExpired(t, g)
    PROVE  IssuesAtMostOne
<1>1. /\ RowsKept(t, Finish(t, g, "failed")) /\ RowsKept(t, Fail(t, g))
      /\ Finish(t, g, "failed") \in [Gen -> RunRow] /\ Fail(t, g) \in [Gen -> RunRow]
  BY FinishKept, FinishType DEF Final
<1>2. session[t] \in SessionRow
  BY DEF TypeOK
<1> QED BY <1>1, <1>2, RetryOrEscalateAtMostOne, NeedsAttentionAtMostOne DEF RecoverExpired

\* Claims, answers and feedback of a ticket.
LEMMA TicketStepAtMostOne ==
    ASSUME TypeOK, NEW t \in Ticket, TicketStep(t)
    PROVE  IssuesAtMostOne
<1> DEFINE failed == [session[t] EXCEPT !.failures = Increment(session[t].failures)]
           reviewed == [session[t] EXCEPT !.failures = ReviewFailures(t)]
           claimed == [session[t] EXCEPT !.retry = FALSE]
           skipped == [session[t] EXCEPT !.gen = session[t].gen + 1]
           left == IF LapsedAgent(t) THEN Superseded(t) ELSE run[t]
<1>1. /\ session[t] \in SessionRow /\ run[t] \in [Gen -> RunRow]
      /\ Superseded(t) \in [Gen -> RunRow] /\ left \in [Gen -> RunRow]
      /\ ReviewFailures(t) \in 0..MaxAttempts
      /\ Increment(session[t].failures) \in 0..MaxAttempts
  BY SupersededType, IncrementType, Limits DEF TypeOK, SessionRow, ReviewFailures
<1>2. /\ failed \in SessionRow /\ (Opened(failed) => Opened(session[t]))
      /\ reviewed \in SessionRow /\ (Opened(reviewed) => Opened(session[t]))
      /\ claimed \in SessionRow /\ (Opened(claimed) => Opened(session[t]))
      /\ reviewed.gen = session[t].gen /\ claimed.gen = session[t].gen
  BY <1>1 DEF SessionRow, Opened
<1>3. RowsKept(t, run[t]) /\ RowsKept(t, Superseded(t)) /\ RowsKept(t, left)
  BY SelfKept, SupersededKept
<1>4. ASSUME NEW g \in Gen, Held(t, g)
      PROVE  /\ session[t].current = g
             /\ Finish(t, g, "failed") \in [Gen -> RunRow]
             /\ RowsKept(t, Finish(t, g, "failed"))
  BY <1>4, FinishType, FinishKept DEF Held, Final
<1> HIDE DEF failed, reviewed, claimed, left
<1>5. CASE ClaimReady(t)
  <2>1. Ready(t) /\ HasCapacity /\ Issue(t, session[t], Superseded(t), "agent", FALSE)
    BY <1>5 DEF ClaimReady, Claimable
  <2> QED BY <1>1, <1>3, <2>1, IssueAtMostOne
<1>6. CASE ClaimReadyReleasesFeedback(t)
  <2>1. /\ session' = [session EXCEPT ![t] = session[t]]
        /\ run' = [run EXCEPT ![t] = Superseded(t)]
        /\ DeliveredStays
    BY <1>6, SetTicketStays DEF ClaimReadyReleasesFeedback, TypeOK
  <2> QED BY <1>3, <2>1, UpdateAtMostOne
<1>7. CASE ClaimReadyExhausted(t)
  <2>1. session[t].gen < MaxGen /\ NeedsAttention(t, skipped, Superseded(t), {})
    BY <1>7 DEF ClaimReadyExhausted
  <2>2. session[t].gen + 1 \in 0..MaxGen
    BY <1>1, <2>1, Limits DEF SessionRow
  <2>3. skipped \in SessionRow /\ (Opened(skipped) => Opened(session[t]))
    BY <1>1, <2>2 DEF SessionRow, Opened
  <2> HIDE DEF skipped
  <2> QED BY <1>1, <1>3, <2>1, <2>3, NeedsAttentionAtMostOne
<1>8. CASE ClaimReadyAuthenticationLost(t)
  <2>1. CASE \E g \in Gen : Held(t, g)
    <3>1. PICK g \in Gen : Held(t, g)
      BY <2>1
    <3>2. NeedsAttention(t, failed, Finish(t, g, "failed"), {})
      BY <1>4, <1>8, <2>1, <3>1 DEF ClaimReadyAuthenticationLost, failed
    <3> QED BY <1>2, <1>4, <3>1, <3>2, NeedsAttentionAtMostOne
  <2>2. CASE ~\E g \in Gen : Held(t, g)
    BY <1>1, <1>3, <1>8, <2>2, NeedsAttentionAtMostOne DEF ClaimReadyAuthenticationLost
  <2> QED BY <2>1, <2>2
<1>9. CASE ClaimPendingDelivery(t)
  <2>1. /\ HasCapacity /\ Opened(session[t])
        /\ Issue(t, claimed, run[t], "delivery", FALSE)
    BY <1>9 DEF ClaimPendingDelivery, claimed, Opened
  <2> QED BY <1>1, <1>2, <1>3, <2>1, IssueAtMostOne
<1>10. CASE ClaimQueuedReview(t)
  <2>1. /\ HasCapacity /\ Opened(session[t])
        /\ Issue(t, reviewed, left, "agent", TRUE)
    BY <1>10 DEF ClaimQueuedReview, ReviewClaimable, reviewed, left, Opened
  <2> QED BY <1>1, <1>2, <1>3, <2>1, IssueAtMostOne
<1>11. CASE ClaimQueuedReviewExhausted(t)
  BY <1>1, <1>2, <1>3, <1>11, NeedsAttentionAtMostOne
     DEF ClaimQueuedReviewExhausted, reviewed, left
<1>12. CASE ClaimQueuedReviewAuthenticationLost(t)
  <2>1. CASE LapsedAgent(t)
    <3>1. PICK g \in Gen : Held(t, g)
      BY <2>1 DEF LapsedAgent
    <3>2. NeedsAttention(t, reviewed, Finish(t, g, "failed"), {})
      BY <1>4, <1>12, <2>1, <3>1 DEF ClaimQueuedReviewAuthenticationLost, reviewed
    <3> QED BY <1>2, <1>4, <3>1, <3>2, NeedsAttentionAtMostOne
  <2>2. CASE ~LapsedAgent(t)
    BY <1>1, <1>2, <1>3, <1>12, <2>2, NeedsAttentionAtMostOne
       DEF ClaimQueuedReviewAuthenticationLost, reviewed
  <2> QED BY <2>1, <2>2
\* An answer opens no session and changes no row.
<1>13. ASSUME NEW s, Opened(s) => Opened(session[t]), session' = [session EXCEPT ![t] = s],
              UNCHANGED run, DeliveredStays
       PROVE  IssuesAtMostOne
  <2>1. run' = [run EXCEPT ![t] = run[t]]
    BY <1>13 DEF TypeOK
  <2> QED BY <1>3, <1>13, <2>1, UpdateAtMostOne
<1>14. CASE AnswerNeedsAttention(t) \/ RetryPollFailure(t)
  <2> DEFINE resumed == [session[t] EXCEPT !.failures = 0, !.retry = TRUE]
             restarted == [session[t] EXCEPT !.failures = 0, !.epoch = session[t].epoch + 1]
  <2>1. /\ Opened(resumed) => Opened(session[t])
        /\ Opened(restarted) => Opened(session[t])
    BY <1>1 DEF SessionRow, Opened
  <2>2. /\ UNCHANGED run
        /\ \/ session' = [session EXCEPT ![t] = session[t]]
           \/ session' = [session EXCEPT ![t] = resumed]
           \/ session' = [session EXCEPT ![t] = restarted]
    BY <1>14 DEF AnswerNeedsAttention, RetryPollFailure, RecoverTicket, TypeOK
  <2>3. DeliveredStays
    BY <1>14, SetTicketStays DEF AnswerNeedsAttention, RetryPollFailure, RecoverTicket
  <2> HIDE DEF resumed, restarted
  <2> QED BY <1>13, <2>1, <2>2, <2>3
<1>15. CASE AnswerQualityGate(t)
  <2> DEFINE s == [session[t] EXCEPT !.retry = TRUE]
  <2>1. Opened(s) => Opened(session[t])
    BY <1>1 DEF SessionRow, Opened
  <2>2. UNCHANGED run /\ session' = [session EXCEPT ![t] = s] /\ DeliveredStays
    BY <1>15, SetTicketStays DEF AnswerQualityGate
  <2> HIDE DEF s
  <2> QED BY <1>13, <2>1, <2>2
<1>16. CASE RecordReviewFeedback(t) \/ BackoffElapses(t)
  BY <1>16, UntouchedAtMostOne DEF RecordReviewFeedback, BackoffElapses
<1> QED BY <1>5, <1>6, <1>7, <1>8, <1>9, <1>10, <1>11, <1>12, <1>14, <1>15, <1>16 DEF TicketStep

\* The steps of a run's goroutine and of the processes that serve it.
LEMMA RunStepAtMostOne ==
    ASSUME TypeOK, NEW t \in Ticket, NEW g \in Gen, RunStep(t, g)
    PROVE  IssuesAtMostOne
<1> DEFINE failed == [session[t] EXCEPT !.failures = Increment(session[t].failures)]
<1>1. /\ session[t] \in SessionRow /\ run[t][g] \in RunRow
      /\ Increment(session[t].failures) \in 0..MaxAttempts
  BY IncrementType DEF TypeOK, SessionRow
<1>2. failed \in SessionRow /\ (Opened(failed) => Opened(session[t]))
  BY <1>1 DEF SessionRow, Opened
<1> HIDE DEF failed
<1>3. ASSUME Held(t, g)
      PROVE  /\ run[t][g].state = "running"
             /\ \A state \in Final : /\ Finish(t, g, state) \in [Gen -> RunRow]
                                     /\ RowsKept(t, Finish(t, g, state))
             /\ Fail(t, g) \in [Gen -> RunRow] /\ RowsKept(t, Fail(t, g))
  BY <1>3, FinishType, FinishKept DEF Held, Final
<1>4. CASE \/ ReservePrelaunch(t, g) \/ AcquireCreateFence(t, g) \/ ReleaseCreateFence(t, g)
           \/ ReserveLaunch(t, g) \/ RecordWorkerContainer(t, g)
           \/ BeginWrite(t, g) \/ EndWrite(t, g) \/ Lapse(t, g)
  <2>1. PICK r : /\ Kept(run[t][g], r)
                 /\ run' = [run EXCEPT ![t][g] = r]
                 /\ UNCHANGED <<session, ticketState>>
    BY <1>1, <1>4 DEF ReservePrelaunch, AcquireCreateFence, ReleaseCreateFence, ReserveLaunch,
                      RecordWorkerContainer, BeginWrite, EndWrite, Lapse, RunRow, Kept, Live
  <2> QED BY <2>1, ColumnAtMostOne
<1>5. CASE AcceptCandidate(t, g)
  <2> DEFINE s == [session[t] EXCEPT !.accepted = g, !.failures = 0, !.epoch = session[t].epoch + 1]
  <2>1. /\ Held(t, g) /\ Live(run[t][g]) /\ Opened(session[t])
        /\ Issue(t, s, Finish(t, g, "succeeded"), "delivery", FALSE)
    BY <1>5 DEF AcceptCandidate, Owned, Held, Live, Opened
  <2>2. s \in SessionRow
    BY <1>1, <1>5, AcceptedType DEF AcceptCandidate
  <2>3. ~Live(Finish(t, g, "succeeded")[g])
    BY DEF TypeOK, Finish, Ended, NewRow, Live
  <2>4. s.gen = session[t].gen
    BY <1>1 DEF SessionRow
  <2> HIDE DEF s
  <2> QED BY <1>3, <2>1, <2>2, <2>3, <2>4, IssueAtMostOne DEF Final
<1>6. ASSUME NEW infrastructure \in BOOLEAN, RecordRunFailure(t, g, infrastructure)
      PROVE  IssuesAtMostOne
  <2>1. /\ Held(t, g)
        /\ session' = [session EXCEPT ![t] = failed] /\ run' = [run EXCEPT ![t] = Fail(t, g)]
        /\ DeliveredStays
    BY <1>6 DEF RecordRunFailure, Owned, failed, DeliveredStays, TypeOK
  <2> QED BY <1>2, <1>3, <2>1, UpdateAtMostOne
<1>7. CASE RecordRunAuthenticationFailure(t, g)
  <2>1. Held(t, g) /\ NeedsAttention(t, failed, Fail(t, g), {})
    BY <1>7 DEF RecordRunAuthenticationFailure, failed
  <2> QED BY <1>2, <1>3, <2>1, NeedsAttentionAtMostOne
<1>8. CASE RecoverAuthenticationFailure(t, g)
  <2>1. Held(t, g) /\ NeedsAttention(t, failed, Finish(t, g, "failed"), {})
    BY <1>8 DEF RecoverAuthenticationFailure, failed
  <2> QED BY <1>2, <1>3, <2>1, NeedsAttentionAtMostOne DEF Final
<1>9. CASE CompleteDelivery(t, g)
  BY <1>3, <1>9, BackToReviewAtMostOne DEF CompleteDelivery, Delivering, Final
<1>10. CASE PauseForQualityGate(t, g)
  <2>1. /\ Held(t, g)
        /\ session' = [session EXCEPT ![t] = session[t]]
        /\ run' = [run EXCEPT ![t] = Finish(t, g, "succeeded")]
        /\ DeliveredStays
    BY <1>10, SetTicketStays DEF PauseForQualityGate, Delivering, Retire, TypeOK
  <2> QED BY <1>3, <2>1, UpdateAtMostOne DEF Final
<1>11. CASE RecoverUnlaunchedDelivery(t, g)
  BY <1>3, <1>11, RecoverExpiredAtMostOne DEF RecoverUnlaunchedDelivery, Delivering
<1> QED BY <1>4, <1>5, <1>6, <1>7, <1>8, <1>9, <1>10, <1>11 DEF RunStep

\* The steps that ask for an isolation, or carry it out.
LEMMA CallerStepAtMostOne ==
    ASSUME TypeOK, NEW c \in Caller, NEW t \in Ticket, CallerStep(c, t)
    PROVE  IssuesAtMostOne
<1>1. session[t] \in SessionRow /\ run[t] \in [Gen -> RunRow]
  BY DEF TypeOK
<1>2. CASE FenceIsolation(c, t) \/ AcknowledgeIsolation(c, t)
  <2> DEFINE g == session[t].current
  <2>1. g \in Gen /\ run[t][g] \in RunRow
    BY <1>1, <1>2 DEF FenceIsolation, AcknowledgeIsolation, IsTarget, Held
  <2>2. PICK r : /\ Kept(run[t][g], r)
                 /\ run' = [run EXCEPT ![t][g] = r]
                 /\ UNCHANGED <<session, ticketState>>
    BY <1>2, <2>1 DEF FenceIsolation, AcknowledgeIsolation, RunRow, Kept, Live
  <2> QED BY <2>1, <2>2, ColumnAtMostOne
<1>3. CASE MarkDelivered(c, t)
  <2> DEFINE s == [session[t] EXCEPT !.state = "closed"]
             rs == [g \in Gen |-> IF g = session[t].current /\ run[t][g].state = "running"
                                  THEN Ended(run[t][g], "succeeded") ELSE run[t][g]]
  <2>1. /\ session' = [session EXCEPT ![t] = s] /\ run' = [run EXCEPT ![t] = rs]
        /\ DeliveredStays
    BY <1>3 DEF MarkDelivered, DeliveredStays, TypeOK
  <2>2. RowsKept(t, rs)
    BY <1>1, EndedKept DEF RowsKept, Kept, Final
  <2>3. Opened(session[t])
    BY <1>3 DEF MarkDelivered, Opened
  <2> HIDE DEF s, rs
  <2> QED BY <2>1, <2>2, <2>3, UpdateAtMostOne
<1>4. CASE Escalate(c, t)
  BY <1>1, <1>4, SelfKept, NeedsAttentionAtMostOne DEF Escalate
<1>5. ASSUME NEW g \in Gen, Held(t, g)
      PROVE  /\ run[t][g].state = "running"
             /\ \A state \in Final : /\ Finish(t, g, state) \in [Gen -> RunRow]
                                     /\ RowsKept(t, Finish(t, g, state))
             /\ Fail(t, g) \in [Gen -> RunRow] /\ RowsKept(t, Fail(t, g))
  BY <1>5, FinishType, FinishKept DEF Held, Final
<1>6. ASSUME NEW g \in Gen, FinishLapsedDelivery(c, t, g) \/ FailDelivery(c, t, g)
      PROVE  IssuesAtMostOne
  <2>1. Held(t, g) /\ NeedsAttention(t, session[t], Finish(t, g, "failed"), {})
    BY <1>6 DEF FinishLapsedDelivery, FailDelivery, Delivering
  <2> QED BY <1>1, <1>5, <2>1, NeedsAttentionAtMostOne DEF Final
<1>7. ASSUME NEW g \in Gen, NEW isolated \in BOOLEAN, NEW infrastructure \in BOOLEAN,
             \/ FailDeliveryWithClass(c, t, g, isolated, infrastructure)
             \/ FailDeliveryLaunch(c, t, g, isolated, infrastructure)
      PROVE  IssuesAtMostOne
  <2>1. Held(t, g)
    BY <1>7 DEF FailDeliveryWithClass, FailDeliveryLaunch, Delivering
  <2>2. PICK mayEscalate : RetryOrEscalate(t, g, Fail(t, g), mayEscalate)
    BY <1>7 DEF FailDeliveryWithClass, FailDeliveryLaunch
  <2> QED BY <1>5, <2>1, <2>2, RetryOrEscalateAtMostOne
<1>8. ASSUME NEW g \in Gen, DeferDelivery(c, t, g) \/ RevalidateDelivery(c, t, g)
      PROVE  IssuesAtMostOne
  <2>1. Held(t, g)
    BY <1>8 DEF DeferDelivery, RevalidateDelivery, Delivering
  <2>2. PICK retry : BackToReview(t, g, "superseded", retry)
    BY <1>8 DEF DeferDelivery, RevalidateDelivery
  <2> QED BY <1>5, <2>1, <2>2, BackToReviewAtMostOne DEF Final
<1>9. ASSUME NEW g \in Gen, ReconcileMissingRun(c, t, g)
      PROVE  IssuesAtMostOne
  <2>1. Held(t, g)
    BY <1>9 DEF ReconcileMissingRun
  <2>2. CASE RecoverExpired(t, g)
    BY <1>5, <2>1, <2>2, RecoverExpiredAtMostOne
  <2>3. CASE /\ Retire(t, g, "superseded") /\ SetTicket(t, "queued")
             /\ UNCHANGED session
    <3>1. /\ session' = [session EXCEPT ![t] = session[t]]
          /\ run' = [run EXCEPT ![t] = Finish(t, g, "superseded")]
          /\ DeliveredStays
      BY <2>3, SetTicketStays DEF Retire, TypeOK
    <3> QED BY <1>5, <2>1, <3>1, UpdateAtMostOne DEF Final
  <2> QED BY <1>9, <2>2, <2>3 DEF ReconcileMissingRun
<1> QED BY <1>2, <1>3, <1>4, <1>6, <1>7, <1>8, <1>9 DEF CallerStep

\* Every step of the ledger is such a move.
LEMMA NextIssues == TypeOK /\ [Next]_vars => IssuesAtMostOne
<1> SUFFICES ASSUME TypeOK, [Next]_vars PROVE IssuesAtMostOne
  OBVIOUS
<1>1. CASE UNCHANGED vars
  BY <1>1, UntouchedAtMostOne DEF vars
<1>2. CASE LoseProofs \/ BeginMaintenance \/ ClearMaintenance
  BY <1>2, UntouchedAtMostOne DEF LoseProofs, BeginMaintenance, ClearMaintenance
<1> QED BY <1>1, <1>2, TicketStepAtMostOne, RunStepAtMostOne, CallerStepAtMostOne DEF Next

-----------------------------------------------------------------------------
(* Blockers.                                                               *)

Started(t) == \E g \in Gen : run[t][g].state # "none"

\* A session is only opened by a run, so that whatever claims the ticket of an
\* open session need not ask for the blockers again.
BlockersInv ==
    \A t \in Ticket : /\ Opened(session[t]) => Started(t)
                      /\ Started(t) => \A b \in Blockers[t] : ticketState[b] = "delivered"

LEMMA BlockersNext == TypeOK /\ BlockersInv /\ [Next]_vars => BlockersInv'
<1> SUFFICES ASSUME TypeOK, BlockersInv, [Next]_vars, NEW u \in Ticket
             PROVE  /\ Opened(session'[u]) => Started(u)'
                    /\ Started(u)' => \A b \in Blockers[u] : ticketState'[b] = "delivered"
  BY DEF BlockersInv
<1>1. IssuesAtMostOne
  BY NextIssues
<1>2. (\A b \in Blockers[u] : ticketState[b] = "delivered")
        => \A b \in Blockers[u] : ticketState'[b] = "delivered"
  BY <1>1, TicketAssumption DEF IssuesAtMostOne, DeliveredStays
<1>3. ASSUME SessionsStay(u), RowsKept(u, run'[u])
      PROVE  /\ Opened(session'[u]) => Started(u)'
             /\ Started(u)' => \A b \in Blockers[u] : ticketState'[b] = "delivered"
  <2>1. Started(u)' <=> Started(u)
    BY <1>3 DEF Started, RowsKept, Kept
  <2> QED BY <1>2, <1>3, <2>1 DEF BlockersInv, SessionsStay
<1>4. CASE IssuesNone
  BY <1>3, <1>4 DEF IssuesNone
<1>5. ASSUME NEW t \in Ticket, NEW n \in Gen, IssuesRun(t, n)
      PROVE  /\ Opened(session'[u]) => Started(u)'
             /\ Started(u)' => \A b \in Blockers[u] : ticketState'[b] = "delivered"
  <2>1. CASE u = t
    <3>1. Started(u)'
      BY <1>5, <2>1 DEF IssuesRun, Started
    <3>2. \A b \in Blockers[u] : ticketState[b] = "delivered"
      BY <1>5, <2>1 DEF IssuesRun, Ready, BlockersInv
    <3> QED BY <1>2, <3>1, <3>2
  <2>2. CASE u # t
    BY <1>3, <1>5, <2>2 DEF IssuesRun, RowsKept
  <2> QED BY <2>1, <2>2
<1> QED BY <1>1, <1>4, <1>5 DEF IssuesAtMostOne

\* Work is only ever under way on a ticket whose blockers are all delivered
\* (BlockersDelivered): only ClaimReady looks at the blockers, and every later
\* claim, acceptance and recovery of the session relies on it.
THEOREM BlockersDeliveredHolds == Spec => []BlockersDelivered
<1>1. Init => BlockersInv
  BY DEF Init, BlockersInv, Opened, Started, NewRow
<1>2. BlockersInv => BlockersDelivered
  BY DEF BlockersInv, BlockersDelivered, Started
<1> QED BY <1>1, <1>2, BlockersNext, TypeCorrect, PTL DEF Spec

-----------------------------------------------------------------------------
(* Capacity.                                                               *)

CapacityInv == IsFiniteSet(LiveRuns) /\ WithinCapacity

LEMMA LiveRunsAre == LiveRuns = {tg \in Ticket \X Gen : Live(run[tg[1]][tg[2]])}
BY DEF LiveRuns, Live

LEMMA CapacityNext == TypeOK /\ CapacityInv /\ [Next]_vars => CapacityInv'
<1> SUFFICES ASSUME TypeOK, CapacityInv, [Next]_vars PROVE CapacityInv'
  OBVIOUS
<1>1. MaxParallel \in Nat /\ Cardinality(LiveRuns) \in Nat
  BY LimitAssumption, FS_CardinalityType DEF CapacityInv
<1>2. LiveRuns' = {tg \in Ticket \X Gen : Live(run'[tg[1]][tg[2]])}
  BY DEF LiveRuns, Live
<1>3. ASSUME NEW S, IsFiniteSet(S), Cardinality(S) <= MaxParallel, LiveRuns' \subseteq S
      PROVE  CapacityInv'
  <2>1. IsFiniteSet(LiveRuns') /\ Cardinality(LiveRuns') <= Cardinality(S)
    BY <1>3, FS_Subset
  <2>2. Cardinality(LiveRuns') \in Nat /\ Cardinality(S) \in Nat
    BY <1>3, <2>1, FS_CardinalityType
  <2> QED BY <1>1, <1>3, <2>1, <2>2 DEF CapacityInv, WithinCapacity
<1>4. CASE IssuesNone
  <2>1. LiveRuns' \subseteq LiveRuns
    BY <1>2, <1>4, LiveRunsAre DEF IssuesNone, RowsKept, Kept
  <2> QED BY <1>3, <2>1 DEF CapacityInv, WithinCapacity
<1>5. ASSUME NEW t \in Ticket, NEW n \in Gen, IssuesRun(t, n)
      PROVE  CapacityInv'
  <2>1. LiveRuns' \subseteq LiveRuns \cup {<<t, n>>}
    <3> SUFFICES ASSUME NEW u \in Ticket, NEW g \in Gen, Live(run'[u][g]), u # t \/ g # n
                 PROVE  Live(run[u][g])
      BY <1>2, LiveRunsAre
    <3> QED BY <1>5 DEF IssuesRun, Kept
  <2>2. CASE HasCapacity
    <3>1. /\ IsFiniteSet(LiveRuns \cup {<<t, n>>})
          /\ \/ Cardinality(LiveRuns \cup {<<t, n>>}) = Cardinality(LiveRuns)
             \/ Cardinality(LiveRuns \cup {<<t, n>>}) = Cardinality(LiveRuns) + 1
      BY FS_AddElement DEF CapacityInv
    <3>2. Cardinality(LiveRuns \cup {<<t, n>>}) <= MaxParallel
      BY <1>1, <2>2, <3>1 DEF HasCapacity
    <3> QED BY <1>3, <2>1, <3>1, <3>2
  \* The run takes the place of one that was live.
  <2>3. ASSUME NEW g \in Gen, Live(run[t][g]), g # n => ~Live(run'[t][g])
        PROVE  CapacityInv'
    <3> DEFINE others == LiveRuns \ {<<t, g>>}
    <3>1. <<t, g>> \in LiveRuns
      BY <2>3, LiveRunsAre
    <3>2. IsFiniteSet(others) /\ Cardinality(others) = Cardinality(LiveRuns) - 1
      BY <3>1, FS_RemoveElement DEF CapacityInv
    <3>3. LiveRuns' \subseteq others \cup {<<t, n>>}
      BY <1>2, <2>1, <2>3
    <3> HIDE DEF others
    <3>4. /\ IsFiniteSet(others \cup {<<t, n>>})
          /\ \/ Cardinality(others \cup {<<t, n>>}) = Cardinality(others)
             \/ Cardinality(others \cup {<<t, n>>}) = Cardinality(others) + 1
      BY <3>2, FS_AddElement
    <3>5. Cardinality(others \cup {<<t, n>>}) <= MaxParallel
      BY <1>1, <3>2, <3>4 DEF CapacityInv, WithinCapacity
    <3> QED BY <1>3, <3>3, <3>4, <3>5
  <2> QED BY <1>5, <2>2, <2>3 DEF IssuesRun
<1> QED BY <1>4, <1>5, NextIssues DEF IssuesAtMostOne

\* The live runs of all tickets together never exceed max-parallel-runs
\* (WithinCapacity): every claim counts them in its own transaction, and the
\* acceptance of a candidate, which does not, gives back the place it takes.
THEOREM WithinCapacityHolds == Spec => []WithinCapacity
<1>1. Init => CapacityInv
  <2> SUFFICES ASSUME Init PROVE CapacityInv
    OBVIOUS
  <2>1. LiveRuns = {}
    BY LiveRunsAre DEF Init, Live, NewRow
  <2>2. IsFiniteSet({}) /\ Cardinality({}) = 0
    BY FS_EmptySet
  <2> QED BY <2>1, <2>2, LimitAssumption DEF CapacityInv, WithinCapacity
<1>2. CapacityInv => WithinCapacity
  BY DEF CapacityInv
<1> QED BY <1>1, <1>2, CapacityNext, TypeCorrect, PTL DEF Spec

-----------------------------------------------------------------------------
(* Attention.                                                              *)

\* A step that leaves the states of tickets and the questions alone.
LEMMA UntouchedAnswerable ==
    ASSUME AttentionIsAnswerable, UNCHANGED <<ticketState, questions>>
    PROVE  AttentionIsAnswerable'
BY DEF AttentionIsAnswerable

\* A ticket that moves on needs no attention, unless it was delivered before.
LEMMA MovedOnAnswerable ==
    ASSUME TypeOK, AttentionIsAnswerable, NEW t \in Ticket, NEW state,
           state # "needs_attention", SetTicket(t, state),
           \A u \in Ticket \ {t} : questions'[u] = questions[u]
    PROVE  AttentionIsAnswerable'
BY DEF TypeOK, AttentionIsAnswerable, SetTicket

\* A ticket gets a question in the step in which it needs attention.
LEMMA AskedAnswerable ==
    ASSUME TypeOK, AttentionIsAnswerable, NEW t \in Ticket, NEW asked, NEW state,
           asked # {}, SetTicket(t, state), questions' = [questions EXCEPT ![t] = asked]
    PROVE  AttentionIsAnswerable'
BY DEF TypeOK, AttentionIsAnswerable, SetTicket

LEMMA NeedsAttentionAnswerable ==
    ASSUME TypeOK, AttentionIsAnswerable, NEW t \in Ticket, NEW s, NEW rs,
           NEW also, NeedsAttention(t, s, rs, also)
    PROVE  AttentionIsAnswerable'
<1> DEFINE asked == questions[t] \cup {"needs_attention"} \cup also
<1>1. SetTicket(t, "needs_attention") /\ questions' = [questions EXCEPT ![t] = asked]
  BY DEF NeedsAttention
<1>2. asked # {}
  OBVIOUS
<1> HIDE DEF asked
<1> QED BY <1>1, <1>2, AskedAnswerable

LEMMA RetryOrEscalateAnswerable ==
    ASSUME TypeOK, AttentionIsAnswerable, NEW t \in Ticket, NEW g \in Gen, NEW rs,
           NEW mayEscalate, RetryOrEscalate(t, g, rs, mayEscalate)
    PROVE  AttentionIsAnswerable'
<1>1. CASE NeedsAttention(t, session[t], rs, {})
  BY <1>1, NeedsAttentionAnswerable
<1>2. CASE ~NeedsAttention(t, session[t], rs, {})
  <2>1. SetTicket(t, "waiting_review") /\ UNCHANGED questions
    BY <1>2 DEF RetryOrEscalate
  <2> QED BY <2>1, MovedOnAnswerable
<1> QED BY <1>1, <1>2

LEMMA RecoverExpiredAnswerable ==
    ASSUME TypeOK, AttentionIsAnswerable, NEW t \in Ticket, NEW g \in Gen,
           RecoverExpired(t, g)
    PROVE  AttentionIsAnswerable'
<1>1. CASE RetryOrEscalate(t, g, Fail(t, g), TRUE)
  BY <1>1, RetryOrEscalateAnswerable
<1>2. CASE NeedsAttention(t, session[t], Finish(t, g, "failed"), {})
  BY <1>2, NeedsAttentionAnswerable
<1> QED BY <1>1, <1>2 DEF RecoverExpired

LEMMA TicketStepAnswerable ==
    ASSUME TypeOK, AttentionIsAnswerable, NEW t \in Ticket, TicketStep(t)
    PROVE  AttentionIsAnswerable'
<1>1. CASE ClaimReady(t) \/ ClaimPendingDelivery(t) \/ ClaimQueuedReview(t)
  <2>1. SetTicket(t, "running") /\ UNCHANGED questions
    BY <1>1 DEF ClaimReady, ClaimPendingDelivery, ClaimQueuedReview, Issue
  <2> QED BY <2>1, MovedOnAnswerable
<1>2. CASE ClaimReadyReleasesFeedback(t)
  <2>1. SetTicket(t, "waiting_review") /\ UNCHANGED questions
    BY <1>2 DEF ClaimReadyReleasesFeedback
  <2> QED BY <2>1, MovedOnAnswerable
<1>3. CASE \/ ClaimReadyExhausted(t) \/ ClaimReadyAuthenticationLost(t)
           \/ ClaimQueuedReviewExhausted(t) \/ ClaimQueuedReviewAuthenticationLost(t)
  <2>1. PICK s, rs, also : NeedsAttention(t, s, rs, also)
    BY <1>3 DEF ClaimReadyExhausted, ClaimReadyAuthenticationLost,
                ClaimQueuedReviewExhausted, ClaimQueuedReviewAuthenticationLost
  <2> QED BY <2>1, NeedsAttentionAnswerable
<1>4. CASE AnswerNeedsAttention(t) \/ RetryPollFailure(t) \/ AnswerQualityGate(t)
  <2>1. SetTicket(t, "waiting_review") \/ SetTicket(t, "queued")
    BY <1>4 DEF AnswerNeedsAttention, RetryPollFailure, RecoverTicket, AnswerQualityGate
  <2>2. \A u \in Ticket \ {t} : questions'[u] = questions[u]
    BY <1>4 DEF AnswerNeedsAttention, RetryPollFailure, RecoverTicket, AnswerQualityGate, TypeOK
  <2> QED BY <2>1, <2>2, MovedOnAnswerable
<1>5. CASE RecordReviewFeedback(t) \/ BackoffElapses(t)
  BY <1>5, UntouchedAnswerable DEF RecordReviewFeedback, BackoffElapses
<1> QED BY <1>1, <1>2, <1>3, <1>4, <1>5 DEF TicketStep

LEMMA RunStepAnswerable ==
    ASSUME TypeOK, AttentionIsAnswerable, NEW t \in Ticket, NEW g \in Gen, RunStep(t, g)
    PROVE  AttentionIsAnswerable'
<1>1. CASE \/ ReservePrelaunch(t, g) \/ AcquireCreateFence(t, g) \/ ReleaseCreateFence(t, g)
           \/ ReserveLaunch(t, g) \/ RecordWorkerContainer(t, g)
           \/ BeginWrite(t, g) \/ EndWrite(t, g) \/ Lapse(t, g)
  BY <1>1, UntouchedAnswerable
     DEF ReservePrelaunch, AcquireCreateFence, ReleaseCreateFence, ReserveLaunch,
         RecordWorkerContainer, BeginWrite, EndWrite, Lapse
<1>2. CASE AcceptCandidate(t, g)
  <2>1. SetTicket(t, "running") /\ UNCHANGED questions
    BY <1>2 DEF AcceptCandidate, Issue
  <2> QED BY <2>1, MovedOnAnswerable
<1>3. ASSUME NEW infrastructure \in BOOLEAN, RecordRunFailure(t, g, infrastructure)
      PROVE  AttentionIsAnswerable'
  BY <1>3 DEF RecordRunFailure, AttentionIsAnswerable, TypeOK
<1>4. CASE RecordRunAuthenticationFailure(t, g) \/ RecoverAuthenticationFailure(t, g)
  <2>1. PICK s, rs, also : NeedsAttention(t, s, rs, also)
    BY <1>4 DEF RecordRunAuthenticationFailure, RecoverAuthenticationFailure
  <2> QED BY <2>1, NeedsAttentionAnswerable
<1>5. CASE CompleteDelivery(t, g)
  <2>1. SetTicket(t, "waiting_review") /\ UNCHANGED questions
    BY <1>5 DEF CompleteDelivery, BackToReview
  <2> QED BY <2>1, MovedOnAnswerable
<1>6. CASE PauseForQualityGate(t, g)
  BY <1>6, AskedAnswerable DEF PauseForQualityGate
<1>7. CASE RecoverUnlaunchedDelivery(t, g)
  BY <1>7, RecoverExpiredAnswerable DEF RecoverUnlaunchedDelivery
<1> QED BY <1>1, <1>2, <1>3, <1>4, <1>5, <1>6, <1>7 DEF RunStep

LEMMA CallerStepAnswerable ==
    ASSUME TypeOK, AttentionIsAnswerable, NEW c \in Caller, NEW t \in Ticket, CallerStep(c, t)
    PROVE  AttentionIsAnswerable'
<1>1. CASE FenceIsolation(c, t) \/ AcknowledgeIsolation(c, t)
  BY <1>1, UntouchedAnswerable DEF FenceIsolation, AcknowledgeIsolation
<1>2. CASE MarkDelivered(c, t)
  BY <1>2 DEF MarkDelivered, AttentionIsAnswerable, TypeOK
<1>3. CASE \/ Escalate(c, t)
           \/ \E g \in Gen : FinishLapsedDelivery(c, t, g) \/ FailDelivery(c, t, g)
  <2>1. PICK s, rs, also : NeedsAttention(t, s, rs, also)
    BY <1>3 DEF Escalate, FinishLapsedDelivery, FailDelivery
  <2> QED BY <2>1, NeedsAttentionAnswerable
<1>4. ASSUME NEW g \in Gen, NEW isolated \in BOOLEAN, NEW infrastructure \in BOOLEAN,
             \/ FailDeliveryWithClass(c, t, g, isolated, infrastructure)
             \/ FailDeliveryLaunch(c, t, g, isolated, infrastructure)
      PROVE  AttentionIsAnswerable'
  <2>1. PICK mayEscalate : RetryOrEscalate(t, g, Fail(t, g), mayEscalate)
    BY <1>4 DEF FailDeliveryWithClass, FailDeliveryLaunch
  <2> QED BY <2>1, RetryOrEscalateAnswerable
<1>5. ASSUME NEW g \in Gen, DeferDelivery(c, t, g) \/ RevalidateDelivery(c, t, g)
      PROVE  AttentionIsAnswerable'
  <2>1. SetTicket(t, "waiting_review") /\ UNCHANGED questions
    BY <1>5 DEF DeferDelivery, RevalidateDelivery, BackToReview
  <2> QED BY <2>1, MovedOnAnswerable
<1>6. ASSUME NEW g \in Gen, ReconcileMissingRun(c, t, g)
      PROVE  AttentionIsAnswerable'
  <2>1. CASE RecoverExpired(t, g)
    BY <2>1, RecoverExpiredAnswerable
  <2>2. CASE SetTicket(t, "queued") /\ UNCHANGED questions
    BY <2>2, MovedOnAnswerable
  <2> QED BY <1>6, <2>1, <2>2 DEF ReconcileMissingRun
<1> QED BY <1>1, <1>2, <1>3, <1>4, <1>5, <1>6 DEF CallerStep

\* No ticket waits for a human who was never asked (AttentionIsAnswerable):
\* whatever sends a ticket to needs_attention opens the question in the same
\* transaction, and whoever answers or merges it moves the ticket on.
THEOREM AttentionIsAnswerableHolds == Spec => []AttentionIsAnswerable
<1>1. Init => AttentionIsAnswerable
  BY DEF Init, AttentionIsAnswerable
<1>2. TypeOK /\ AttentionIsAnswerable /\ [Next]_vars => AttentionIsAnswerable'
  <2> SUFFICES ASSUME TypeOK, AttentionIsAnswerable, [Next]_vars
               PROVE  AttentionIsAnswerable'
    OBVIOUS
  <2>1. CASE UNCHANGED vars
    BY <2>1, UntouchedAnswerable DEF vars
  <2>2. CASE LoseProofs \/ BeginMaintenance \/ ClearMaintenance
    BY <2>2, UntouchedAnswerable DEF LoseProofs, BeginMaintenance, ClearMaintenance
  <2> QED BY <2>1, <2>2, TicketStepAnswerable, RunStepAnswerable, CallerStepAnswerable DEF Next
<1> QED BY <1>1, <1>2, TypeCorrect, PTL DEF Spec

-----------------------------------------------------------------------------
(* Feedback.                                                               *)

\* A review batch is claimed by an agent run that is still running: whatever
\* ends a run takes the batch from it.
RevisionsRun ==
    \A t \in Ticket, g \in Gen :
        run[t][g].revises => run[t][g].state = "running" /\ run[t][g].kind = "agent"

LEMMA RevisionsRunNext == TypeOK /\ RevisionsRun /\ [Next]_vars => RevisionsRun'
<1> SUFFICES ASSUME TypeOK, RevisionsRun, [Next]_vars,
                    NEW u \in Ticket, NEW g \in Gen, run'[u][g].revises
             PROVE  run'[u][g].state = "running" /\ run'[u][g].kind = "agent"
  BY DEF RevisionsRun
<1>1. CASE Kept(run[u][g], run'[u][g])
  BY <1>1 DEF Kept, RevisionsRun
<1>2. CASE IssuesNone
  BY <1>1, <1>2 DEF IssuesNone, RowsKept
<1>3. ASSUME NEW t \in Ticket, NEW n \in Gen, IssuesRun(t, n)
      PROVE  run'[u][g].state = "running" /\ run'[u][g].kind = "agent"
  BY <1>1, <1>3 DEF IssuesRun
<1> QED BY <1>2, <1>3, NextIssues DEF IssuesAtMostOne

FeedbackKept(t) ==
    \A g \in Gen : run[t][g].revises /\ ~run'[t][g].revises =>
        \/ run'[t][g].state = "succeeded"
        \/ queued'[t]
        \/ \E h \in Gen : run'[t][h].revises

\* The rows rs lose no batch of ticket t without a success or a queued batch.
GivesBack(t, rs) ==
    \A g \in Gen : run[t][g].revises /\ ~rs[g].revises => rs[g].state = "succeeded" \/ queued'[t]

AllFeedbackKept == \A t \in Ticket : FeedbackKept(t)

LEMMA UpdateFeedback ==
    ASSUME TypeOK, NEW t \in Ticket, NEW rs, run' = [run EXCEPT ![t] = rs], GivesBack(t, rs)
    PROVE  AllFeedbackKept
<1> SUFFICES ASSUME NEW u \in Ticket, NEW g \in Gen, run[u][g].revises, ~run'[u][g].revises
             PROVE  run'[u][g].state = "succeeded" \/ queued'[u]
  BY DEF AllFeedbackKept, FeedbackKept
<1>1. CASE u = t
  BY <1>1 DEF TypeOK, GivesBack
<1>2. CASE u # t
  BY <1>2 DEF TypeOK
<1> QED BY <1>1, <1>2

\* A change of other columns.
LEMMA ColumnFeedback ==
    ASSUME TypeOK, NEW t \in Ticket, NEW g \in Gen, NEW r,
           run[t][g].revises => r.revises, run' = [run EXCEPT ![t][g] = r]
    PROVE  AllFeedbackKept
<1> DEFINE rs == [run[t] EXCEPT ![g] = r]
<1>1. run' = [run EXCEPT ![t] = rs]
  OBVIOUS
<1>2. GivesBack(t, rs)
  BY DEF TypeOK, GivesBack
<1> HIDE DEF rs
<1> QED BY <1>1, <1>2, UpdateFeedback

LEMMA UntouchedFeedback ==
    ASSUME UNCHANGED run
    PROVE  AllFeedbackKept
BY DEF AllFeedbackKept, FeedbackKept

\* A run that succeeds, that delivers or whose batch is queued gives it back.
LEMMA FinishGivesBack ==
    ASSUME TypeOK, RevisionsRun, NEW t \in Ticket, NEW g \in Gen, NEW state \in Final
    PROVE  /\ state = "succeeded" \/ run[t][g].kind = "delivery" =>
                GivesBack(t, Finish(t, g, state))
           /\ run[t][g].kind = "delivery" => GivesBack(t, Fail(t, g))
<1>1. ASSUME NEW h \in Gen, h # g
      PROVE  Finish(t, g, state)[h] = run[t][h] /\ Fail(t, g)[h] = run[t][h]
  BY <1>1 DEF TypeOK, Finish, Fail
<1>2. run[t][g].kind = "delivery" => ~run[t][g].revises
  BY DEF RevisionsRun
<1>3. Finish(t, g, state)[g].state = state
  BY DEF TypeOK, Finish, Ended, NewRow
<1> QED BY <1>1, <1>2, <1>3 DEF GivesBack

LEMMA SupersededGivesBack ==
    ASSUME TypeOK, NEW t \in Ticket, ~CurrentRevises(t) \/ queued'[t]
    PROVE  GivesBack(t, Superseded(t))
BY DEF GivesBack, Superseded, CurrentRevises

LEMMA SelfGivesBack ==
    ASSUME NEW t \in Ticket
    PROVE  GivesBack(t, run[t])
BY DEF GivesBack

\* The row of the next generation held no batch, so issuing it loses none.
LEMMA IssueFeedback ==
    ASSUME TypeOK, RevisionsRun, IssuedUpToGen, NEW t \in Ticket, NEW s \in SessionRow,
           NEW rs \in [Gen -> RunRow], NEW kind, NEW revises \in BOOLEAN,
           s.gen = session[t].gen, revises \/ GivesBack(t, rs),
           Issue(t, s, rs, kind, revises)
    PROVE  AllFeedbackKept
<1> DEFINE n == s.gen + 1
           row == [NewRow(kind, "running", s.epoch) EXCEPT !.revises = revises]
           rs2 == [rs EXCEPT ![n] = row]
<1>1. run' = [run EXCEPT ![t] = rs2]
  BY DEF Issue
<1>2. n \in Gen /\ n > session[t].gen
  BY Limits DEF Issue, SessionRow, Gen
<1>3. ~run[t][n].revises
  BY <1>2 DEF RevisionsRun, IssuedUpToGen
<1>4. row.revises = revises
  BY DEF NewRow
<1> HIDE DEF n, row
<1>5. rs2[n] = row /\ \A g \in Gen : g # n => rs2[g] = rs[g]
  BY <1>2
<1> HIDE DEF rs2
<1>6. CASE revises
  <2>1. run'[t] = rs2 /\ \A u \in Ticket \ {t} : run'[u] = run[u]
    BY <1>1 DEF TypeOK
  <2>2. run'[t][n].revises
    BY <1>4, <1>5, <1>6, <2>1
  <2> QED BY <1>2, <2>1, <2>2 DEF AllFeedbackKept, FeedbackKept
<1>7. CASE GivesBack(t, rs)
  <2>1. GivesBack(t, rs2)
    BY <1>3, <1>5, <1>7 DEF GivesBack
  <2> QED BY <1>1, <2>1, UpdateFeedback
<1> QED BY <1>6, <1>7

\* An escalation queues the batch of the run it cancels.
LEMMA NeedsAttentionFeedback ==
    ASSUME TypeOK, RevisionsRun, NEW t \in Ticket, NEW s, NEW rs, NEW also, NeedsAttention(t, s, rs, also)
    PROVE  AllFeedbackKept
<1> DEFINE rs2 == [g \in Gen |-> IF rs[g].state = "running"
                                 THEN Ended(rs[g], "cancelled")
                                 ELSE [rs[g] EXCEPT !.leased = FALSE]]
           released == queued[t] \/ \E g \in Gen : run[t][g].state = "running" /\ run[t][g].revises
<1>1. run' = [run EXCEPT ![t] = rs2] /\ queued' = [queued EXCEPT ![t] = released]
  BY DEF NeedsAttention
<1>2. ASSUME NEW g \in Gen, run[t][g].revises
      PROVE  released
  BY <1>2 DEF RevisionsRun
<1> HIDE DEF rs2, released
<1>3. queued'[t] = released
  BY <1>1 DEF TypeOK
<1>4. GivesBack(t, rs2)
  BY <1>2, <1>3 DEF GivesBack
<1> QED BY <1>1, <1>4, UpdateFeedback

LEMMA RetryOrEscalateFeedback ==
    ASSUME TypeOK, RevisionsRun, NEW t \in Ticket, NEW g \in Gen, NEW rs, NEW mayEscalate,
           GivesBack(t, rs), RetryOrEscalate(t, g, rs, mayEscalate)
    PROVE  AllFeedbackKept
<1>1. CASE NeedsAttention(t, session[t], rs, {})
  BY <1>1, NeedsAttentionFeedback
<1>2. CASE ~NeedsAttention(t, session[t], rs, {})
  <2>1. run' = [run EXCEPT ![t] = rs]
    BY <1>2 DEF RetryOrEscalate
  <2> QED BY <2>1, UpdateFeedback
<1> QED BY <1>1, <1>2

LEMMA RecoverExpiredFeedback ==
    ASSUME TypeOK, RevisionsRun, NEW t \in Ticket, NEW g \in Gen,
           run[t][g].kind = "delivery", RecoverExpired(t, g)
    PROVE  AllFeedbackKept
<1>1. GivesBack(t, Fail(t, g))
  BY FinishGivesBack DEF Final
<1> QED BY <1>1, RetryOrEscalateFeedback, NeedsAttentionFeedback DEF RecoverExpired

LEMMA TicketStepFeedback ==
    ASSUME TypeOK, RevisionsRun, IssuedUpToGen, NEW t \in Ticket, TicketStep(t)
    PROVE  AllFeedbackKept
<1> DEFINE reviewed == [session[t] EXCEPT !.failures = ReviewFailures(t)]
           claimed == [session[t] EXCEPT !.retry = FALSE]
           left == IF LapsedAgent(t) THEN Superseded(t) ELSE run[t]
<1>1. /\ session[t] \in SessionRow /\ run[t] \in [Gen -> RunRow]
      /\ Superseded(t) \in [Gen -> RunRow] /\ left \in [Gen -> RunRow]
      /\ ReviewFailures(t) \in 0..MaxAttempts
  BY SupersededType, IncrementType, Limits DEF TypeOK, SessionRow, ReviewFailures
<1>2. /\ reviewed \in SessionRow /\ reviewed.gen = session[t].gen
      /\ claimed \in SessionRow /\ claimed.gen = session[t].gen
  BY <1>1 DEF SessionRow
<1> HIDE DEF reviewed, claimed, left
<1>3. CASE ClaimReady(t)
  <2>1. ~CurrentRevises(t) /\ Issue(t, session[t], Superseded(t), "agent", FALSE)
    BY <1>3 DEF ClaimReady
  <2> QED BY <1>1, <2>1, SupersededGivesBack, IssueFeedback
<1>4. CASE ClaimReadyReleasesFeedback(t)
  <2>1. run' = [run EXCEPT ![t] = Superseded(t)] /\ queued'[t]
    BY <1>4 DEF ClaimReadyReleasesFeedback, TypeOK
  <2> QED BY <2>1, SupersededGivesBack, UpdateFeedback
<1>5. CASE \/ ClaimReadyExhausted(t) \/ ClaimReadyAuthenticationLost(t)
           \/ ClaimQueuedReviewExhausted(t) \/ ClaimQueuedReviewAuthenticationLost(t)
  <2>1. PICK s, rs, also : NeedsAttention(t, s, rs, also)
    BY <1>5 DEF ClaimReadyExhausted, ClaimReadyAuthenticationLost,
                ClaimQueuedReviewExhausted, ClaimQueuedReviewAuthenticationLost
  <2> QED BY <2>1, NeedsAttentionFeedback
<1>6. CASE ClaimPendingDelivery(t)
  <2>1. Issue(t, claimed, run[t], "delivery", FALSE)
    BY <1>6 DEF ClaimPendingDelivery, claimed
  <2> QED BY <1>1, <1>2, <2>1, SelfGivesBack, IssueFeedback
<1>7. CASE ClaimQueuedReview(t)
  <2>1. Issue(t, reviewed, left, "agent", TRUE)
    BY <1>7 DEF ClaimQueuedReview, reviewed, left
  <2> QED BY <1>1, <1>2, <2>1, IssueFeedback
<1>8. CASE \/ AnswerNeedsAttention(t) \/ RetryPollFailure(t) \/ AnswerQualityGate(t)
           \/ RecordReviewFeedback(t) \/ BackoffElapses(t)
  BY <1>8, UntouchedFeedback
     DEF AnswerNeedsAttention, RetryPollFailure, RecoverTicket, AnswerQualityGate, RecordReviewFeedback, BackoffElapses
<1> QED BY <1>3, <1>4, <1>5, <1>6, <1>7, <1>8 DEF TicketStep

LEMMA RunStepFeedback ==
    ASSUME TypeOK, RevisionsRun, IssuedUpToGen, NEW t \in Ticket, NEW g \in Gen, RunStep(t, g)
    PROVE  AllFeedbackKept
<1>1. session[t] \in SessionRow /\ run[t] \in [Gen -> RunRow] /\ run[t][g] \in RunRow
  BY DEF TypeOK
<1>2. CASE \/ ReservePrelaunch(t, g) \/ AcquireCreateFence(t, g) \/ ReleaseCreateFence(t, g)
           \/ ReserveLaunch(t, g) \/ RecordWorkerContainer(t, g)
           \/ BeginWrite(t, g) \/ EndWrite(t, g) \/ Lapse(t, g)
  <2>1. PICK r : (run[t][g].revises => r.revises) /\ run' = [run EXCEPT ![t][g] = r]
    BY <1>1, <1>2 DEF ReservePrelaunch, AcquireCreateFence, ReleaseCreateFence, ReserveLaunch,
                      RecordWorkerContainer, BeginWrite, EndWrite, Lapse, RunRow
  <2> QED BY <2>1, ColumnFeedback
<1>3. CASE AcceptCandidate(t, g)
  <2> DEFINE s == [session[t] EXCEPT !.accepted = g, !.failures = 0, !.epoch = session[t].epoch + 1]
  <2>1. Issue(t, s, Finish(t, g, "succeeded"), "delivery", FALSE)
    BY <1>3 DEF AcceptCandidate
  <2>2. s \in SessionRow
    BY <1>1, <1>3, AcceptedType DEF AcceptCandidate
  <2>3. s.gen = session[t].gen
    BY <1>1 DEF SessionRow
  <2>4. GivesBack(t, Finish(t, g, "succeeded")) /\ Finish(t, g, "succeeded") \in [Gen -> RunRow]
    BY FinishGivesBack, FinishType DEF Final
  <2> HIDE DEF s
  <2> QED BY <2>1, <2>2, <2>3, <2>4, IssueFeedback
<1>4. ASSUME NEW infrastructure \in BOOLEAN, RecordRunFailure(t, g, infrastructure)
      PROVE  AllFeedbackKept
  <2> DEFINE released == queued[t] \/ run[t][g].revises
  <2>1. run' = [run EXCEPT ![t] = Fail(t, g)] /\ queued' = [queued EXCEPT ![t] = released]
    BY <1>4 DEF RecordRunFailure
  <2>2. queued'[t] = released
    <3> HIDE DEF released
    <3> QED BY <2>1 DEF TypeOK
  <2>3. GivesBack(t, Fail(t, g))
    <3>1. \A h \in Gen : h # g => Fail(t, g)[h] = run[t][h]
      BY <1>1 DEF Fail
    <3> QED BY <2>2, <3>1 DEF GivesBack
  <2> QED BY <2>1, <2>3, UpdateFeedback
<1>5. CASE RecordRunAuthenticationFailure(t, g) \/ RecoverAuthenticationFailure(t, g)
  <2>1. PICK s, rs, also : NeedsAttention(t, s, rs, also)
    BY <1>5 DEF RecordRunAuthenticationFailure, RecoverAuthenticationFailure
  <2> QED BY <2>1, NeedsAttentionFeedback
<1>6. CASE CompleteDelivery(t, g) \/ PauseForQualityGate(t, g)
  <2>1. run' = [run EXCEPT ![t] = Finish(t, g, "succeeded")]
    BY <1>6 DEF CompleteDelivery, BackToReview, PauseForQualityGate, Retire
  <2> QED BY <2>1, FinishGivesBack, UpdateFeedback DEF Final
<1>7. CASE RecoverUnlaunchedDelivery(t, g)
  BY <1>7, RecoverExpiredFeedback DEF RecoverUnlaunchedDelivery, Delivering
<1> QED BY <1>2, <1>3, <1>4, <1>5, <1>6, <1>7 DEF RunStep

LEMMA CallerStepFeedback ==
    ASSUME TypeOK, RevisionsRun, NEW c \in Caller, NEW t \in Ticket, CallerStep(c, t)
    PROVE  AllFeedbackKept
<1>1. session[t] \in SessionRow /\ run[t] \in [Gen -> RunRow]
  BY DEF TypeOK
<1>2. CASE FenceIsolation(c, t) \/ AcknowledgeIsolation(c, t)
  <2> DEFINE g == session[t].current
  <2>1. g \in Gen /\ run[t][g] \in RunRow
    BY <1>1, <1>2 DEF FenceIsolation, AcknowledgeIsolation, IsTarget, Held
  <2>2. PICK r : (run[t][g].revises => r.revises) /\ run' = [run EXCEPT ![t][g] = r]
    BY <1>2, <2>1 DEF FenceIsolation, AcknowledgeIsolation, RunRow
  <2> QED BY <2>1, <2>2, ColumnFeedback
<1>3. CASE MarkDelivered(c, t)
  <2> DEFINE rs == [g \in Gen |-> IF g = session[t].current /\ run[t][g].state = "running"
                                  THEN Ended(run[t][g], "succeeded") ELSE run[t][g]]
  <2>1. run' = [run EXCEPT ![t] = rs]
    BY <1>3 DEF MarkDelivered
  <2>2. \A g \in Gen : Ended(run[t][g], "succeeded").state = "succeeded"
    BY <1>1, EndedState DEF Final
  <2>3. GivesBack(t, rs)
    BY <2>2 DEF GivesBack
  <2> HIDE DEF rs
  <2> QED BY <2>1, <2>3, UpdateFeedback
<1>4. CASE \/ Escalate(c, t)
           \/ \E g \in Gen : FinishLapsedDelivery(c, t, g) \/ FailDelivery(c, t, g)
  <2>1. PICK s, rs, also : NeedsAttention(t, s, rs, also)
    BY <1>4 DEF Escalate, FinishLapsedDelivery, FailDelivery
  <2> QED BY <2>1, NeedsAttentionFeedback
<1>5. ASSUME NEW g \in Gen, NEW isolated \in BOOLEAN, NEW infrastructure \in BOOLEAN,
             \/ FailDeliveryWithClass(c, t, g, isolated, infrastructure)
             \/ FailDeliveryLaunch(c, t, g, isolated, infrastructure)
      PROVE  AllFeedbackKept
  <2>1. PICK mayEscalate : RetryOrEscalate(t, g, Fail(t, g), mayEscalate)
    BY <1>5 DEF FailDeliveryWithClass, FailDeliveryLaunch
  <2>2. GivesBack(t, Fail(t, g))
    BY <1>5, FinishGivesBack DEF FailDeliveryWithClass, FailDeliveryLaunch, Delivering, Final
  <2> QED BY <2>1, <2>2, RetryOrEscalateFeedback
<1>6. ASSUME NEW g \in Gen, DeferDelivery(c, t, g) \/ RevalidateDelivery(c, t, g)
      PROVE  AllFeedbackKept
  <2>1. run[t][g].kind = "delivery" /\ run' = [run EXCEPT ![t] = Finish(t, g, "superseded")]
    BY <1>6 DEF DeferDelivery, RevalidateDelivery, Delivering, BackToReview, Retire
  <2> QED BY <2>1, FinishGivesBack, UpdateFeedback DEF Final
<1>7. ASSUME NEW g \in Gen, ReconcileMissingRun(c, t, g)
      PROVE  AllFeedbackKept
  <2>1. CASE run[t][g].kind = "delivery" /\ RecoverExpired(t, g)
    BY <2>1, RecoverExpiredFeedback
  <2> DEFINE released == queued[t] \/ run[t][g].revises
  <2>2. CASE Retire(t, g, "superseded") /\ queued' = [queued EXCEPT ![t] = released]
    <3>1. queued'[t] = released
      <4> HIDE DEF released
      <4> QED BY <2>2 DEF TypeOK
    <3>2. \A h \in Gen : h # g => Finish(t, g, "superseded")[h] = run[t][h]
      BY <1>1 DEF Finish
    <3>3. GivesBack(t, Finish(t, g, "superseded"))
      BY <3>1, <3>2 DEF GivesBack
    <3> QED BY <2>2, <3>3, UpdateFeedback DEF Retire
  <2> QED BY <1>7, <2>1, <2>2 DEF ReconcileMissingRun
<1> QED BY <1>2, <1>3, <1>4, <1>5, <1>6, <1>7 DEF CallerStep

\* The review batch of a run is answered by its success, goes on to the next
\* run or returns to the queue (FeedbackIsNeverLost), through failures, lapsed
\* leases, recoveries, escalations and merges, by whichever process.
THEOREM FeedbackIsNeverLostHolds == Spec => FeedbackIsNeverLost
<1>1. Init => RevisionsRun
  BY DEF Init, RevisionsRun, NewRow
<1>2. TypeOK /\ RevisionsRun /\ IssuedUpToGen /\ [Next]_vars => AllFeedbackKept
  <2> SUFFICES ASSUME TypeOK, RevisionsRun, IssuedUpToGen, [Next]_vars
               PROVE  AllFeedbackKept
    OBVIOUS
  <2>1. CASE UNCHANGED vars
    BY <2>1, UntouchedFeedback DEF vars
  <2>2. CASE LoseProofs \/ BeginMaintenance \/ ClearMaintenance
    BY <2>2, UntouchedFeedback DEF LoseProofs, BeginMaintenance, ClearMaintenance
  <2> QED BY <2>1, <2>2, TicketStepFeedback, RunStepFeedback, CallerStepFeedback DEF Next
<1> DEFINE Answered == \A t \in Ticket, g \in Gen :
                      run[t][g].revises /\ ~run'[t][g].revises =>
                        \/ run'[t][g].state = "succeeded"
                        \/ queued'[t]
                        \/ \E h \in Gen : run'[t][h].revises
<1>3. AllFeedbackKept => [Answered]_vars
  BY DEF AllFeedbackKept, FeedbackKept
<1> QED BY <1>1, <1>2, <1>3, RevisionsRunNext, TypeCorrect, IssuedUpToGenHolds, PTL
        DEF Spec, FeedbackIsNeverLost

=============================================================================
