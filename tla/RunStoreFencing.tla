--------------------------- MODULE RunStoreFencing ---------------------------
(***************************************************************************)
(* The fencing of the run ledger, proved for every set of tickets, every   *)
(* limit and every bound, provided operators only answer the questions of  *)
(* tickets that still need attention (StaleAnswers = FALSE; the run        *)
(* stale_answer shows what happens otherwise).                             *)
(*                                                                         *)
(* OneLiveRun is not inductive: a delivery or a review is claimed without  *)
(* superseding anything, on the strength of the ticket's state alone.  The *)
(* invariant that carries the proof therefore ties the runs of a ticket to *)
(* its state: only a ticket in "running" has a run that runs, holds a      *)
(* lease or writes; that run is the current one, and it writes only if it  *)
(* is a delivery, so that no agent is superseded under a write.            *)
(*                                                                         *)
(* The second part shows that the ledger implements TicketFencing.         *)
(***************************************************************************)
EXTENDS RunStoreTypes

\* A run that neither runs, nor holds a lease, nor writes.
Quiet(r) == r.state # "running" /\ ~r.leased /\ ~r.writing

AllQuiet(rs) == \A g \in Gen : Quiet(rs[g])

\* Generations beyond the last one were never issued.
Unissued(s, rs) == \A g \in Gen : g > s.gen => rs[g].state = "none"

\* Whatever run of the ticket is not quiet is the current one; it runs under
\* its lease, writes only as a delivery, and the ticket is running.
OwnerOnly(s, rs, ts) ==
    \A g \in Gen : ~Quiet(rs[g]) =>
        /\ s.current = g
        /\ rs[g].state = "running"
        /\ rs[g].leased
        /\ rs[g].writing => rs[g].kind = "delivery"
        /\ ts = "running"

\* The session is closed exactly when the ticket is delivered.
ClosedIsDelivered(s, ts) == s.state = "closed" <=> ts = "delivered"

\* The invariant of one ticket: its session s, runs rs and state ts agree.
Fenced(s, rs, ts) == /\ OwnerOnly(s, rs, ts)
                     /\ Unissued(s, rs)
                     /\ ClosedIsDelivered(s, ts)

FencingInv == \A t \in Ticket : Fenced(session[t], run[t], ticketState[t])

StoreInv == TypeOK /\ FencingInv

\* It is enough to look at the ticket that a step changes.
LEMMA UpdateFences ==
    ASSUME StoreInv, NEW t \in Ticket, NEW s, NEW rs, NEW ts,
           session' = [session EXCEPT ![t] = s],
           run' = [run EXCEPT ![t] = rs],
           ticketState' = [ticketState EXCEPT ![t] = ts],
           Fenced(s, rs, ts)
    PROVE  FencingInv'
<1> SUFFICES ASSUME NEW u \in Ticket
             PROVE  Fenced(session'[u], run'[u], ticketState'[u])
  BY DEF FencingInv
<1>1. Fenced(session[u], run[u], ticketState[u])
  BY DEF StoreInv, FencingInv
<1>2. CASE u = t
  BY <1>2 DEF StoreInv, TypeOK
<1>3. CASE u # t
  BY <1>1, <1>3 DEF StoreInv, TypeOK
<1> QED BY <1>2, <1>3

\* A ticket without an active run is fenced if its state and session agree.
LEMMA QuietFences ==
    ASSUME NEW s, NEW rs, NEW ts, AllQuiet(rs), Unissued(s, rs), ClosedIsDelivered(s, ts)
    PROVE  Fenced(s, rs, ts)
BY DEF Fenced, OwnerOnly, AllQuiet

\* SetTicket never moves a delivered ticket.
LEMMA SetTicketIs ==
    ASSUME TypeOK, NEW t \in Ticket, NEW state, SetTicket(t, state)
    PROVE  ticketState' = [ticketState EXCEPT ![t] =
             IF ticketState[t] = "delivered" THEN "delivered" ELSE state]
BY DEF SetTicket, TypeOK

\* A run that ended neither runs nor holds a lease; its write fence is kept.
LEMMA FinishedRow ==
    ASSUME NEW r \in RunRow, NEW state \in Final
    PROVE  /\ Ended(r, state).state = state
           /\ ~Ended(r, state).leased
           /\ Ended(r, state).writing = r.writing
           /\ [Ended(r, state) EXCEPT !.failure = TRUE].state = state
           /\ ~[Ended(r, state) EXCEPT !.failure = TRUE].leased
           /\ [Ended(r, state) EXCEPT !.failure = TRUE].writing = r.writing
BY DEF Ended, NewRow, RunRow, Final

\* Issuing a run fences a ticket whose other runs are quiet.
LEMMA IssueFences ==
    ASSUME StoreInv, NEW t \in Ticket, NEW s \in SessionRow, NEW rs \in [Gen -> RunRow],
           NEW kind \in {"agent", "delivery"}, NEW revises \in BOOLEAN,
           AllQuiet(rs), Unissued(s, rs), ticketState[t] # "delivered",
           Issue(t, s, rs, kind, revises)
    PROVE  FencingInv'
<1> DEFINE n == s.gen + 1
           row == [NewRow(kind, "running", s.epoch) EXCEPT !.revises = revises]
           s2 == [s EXCEPT !.state = "running", !.current = n, !.gen = n]
           rs2 == [rs EXCEPT ![n] = row]
<1>1. s.gen \in 0..MaxGen /\ n \in Gen
  BY Limits DEF Issue, Gen, SessionRow
<1>2. /\ session' = [session EXCEPT ![t] = s2]
      /\ run' = [run EXCEPT ![t] = rs2]
      /\ SetTicket(t, "running")
  BY DEF Issue
<1>3. ticketState' = [ticketState EXCEPT ![t] = "running"]
  BY <1>2, SetTicketIs DEF StoreInv
<1>4. row.state = "running" /\ row.leased /\ ~row.writing
  BY DEF NewRow
<1>5. s2.current = n /\ s2.gen = n /\ s2.state = "running"
  BY DEF SessionRow
<1>6. \A g \in Gen : rs2[g] = IF g = n THEN row ELSE rs[g]
  BY <1>1
<1>7. OwnerOnly(s2, rs2, "running")
  BY <1>1, <1>4, <1>5, <1>6 DEF OwnerOnly, AllQuiet
<1>8. Unissued(s2, rs2)
  <2> SUFFICES ASSUME NEW g \in Gen, g > n PROVE rs2[g].state = "none"
    BY <1>5 DEF Unissued
  <2>1. g # n /\ g > s.gen
    BY <1>1, Limits DEF Gen
  <2> QED BY <2>1, <1>6 DEF Unissued
<1>9. Fenced(s2, rs2, "running")
  BY <1>5, <1>7, <1>8 DEF Fenced, ClosedIsDelivered
<1> HIDE DEF s2, rs2
<1> QED BY <1>2, <1>3, <1>9, UpdateFences

\* An escalation fences a ticket in which nobody writes.
LEMMA NeedsAttentionFences ==
    ASSUME StoreInv, NEW t \in Ticket, NEW s \in SessionRow, NEW rs \in [Gen -> RunRow],
           \A g \in Gen : ~rs[g].writing, Unissued(s, rs), s.state = session[t].state,
           NEW also, NeedsAttention(t, s, rs, also)
    PROVE  FencingInv'
<1> DEFINE s2 == [s EXCEPT !.retry = FALSE]
           rs2 == [g \in Gen |-> IF rs[g].state = "running"
                                 THEN Ended(rs[g], "cancelled")
                                 ELSE [rs[g] EXCEPT !.leased = FALSE]]
           ts2 == IF ticketState[t] = "delivered" THEN "delivered" ELSE "needs_attention"
<1>1. /\ session' = [session EXCEPT ![t] = s2]
      /\ run' = [run EXCEPT ![t] = rs2]
      /\ ticketState' = [ticketState EXCEPT ![t] = ts2]
  BY SetTicketIs DEF NeedsAttention, StoreInv
<1>2. s2.gen = s.gen /\ s2.state = session[t].state
  BY DEF SessionRow
<1>3. ASSUME NEW g \in Gen
      PROVE  Quiet(rs2[g]) /\ (rs[g].state = "none" => rs2[g].state = "none")
  <2>1. CASE rs[g].state = "running"
    BY <2>1, FinishedRow DEF Final, Quiet
  <2>2. CASE rs[g].state # "running"
    <3> DEFINE r == rs[g]
    <3>1. r \in RunRow /\ ~r.writing /\ r.state # "running"
      BY <2>2
    <3> HIDE DEF r
    <3>2. Quiet([r EXCEPT !.leased = FALSE]) /\ [r EXCEPT !.leased = FALSE].state = r.state
      BY <3>1 DEF RunRow, Quiet
    <3>3. rs2[g] = [r EXCEPT !.leased = FALSE]
      BY <2>2 DEF r
    <3> QED BY <3>2, <3>3 DEF r
  <2> QED BY <2>1, <2>2
<1>4. AllQuiet(rs2) /\ Unissued(s2, rs2)
  BY <1>2, <1>3 DEF AllQuiet, Unissued
<1>5. ClosedIsDelivered(s2, ts2)
  BY <1>2 DEF StoreInv, FencingInv, Fenced, ClosedIsDelivered
<1> HIDE DEF s2, rs2, ts2
<1>6. Fenced(s2, rs2, ts2)
  BY <1>4, <1>5, QuietFences
<1> QED BY <1>1, <1>6, UpdateFences

\* A run that holds its ticket is the only one that is not quiet.
LEMMA HeldAlone ==
    ASSUME StoreInv, NEW t \in Ticket, NEW g \in Gen, Held(t, g)
    PROVE  /\ ticketState[t] = "running"
           /\ g <= session[t].gen
           /\ run[t][g].writing => run[t][g].kind = "delivery"
           /\ \A h \in Gen : h # g => Quiet(run[t][h])
<1>1. Fenced(session[t], run[t], ticketState[t])
  BY DEF StoreInv, FencingInv
<1>2. ~Quiet(run[t][g])
  BY DEF Held, Quiet
<1>3. g <= session[t].gen
  <2>1. ~(g > session[t].gen)
    BY <1>1 DEF Fenced, Unissued, Held
  <2> QED BY <2>1, Limits DEF StoreInv, TypeOK, SessionRow, Gen
<1> QED BY <1>1, <1>2, <1>3 DEF Fenced, OwnerOnly, Held

\* When no run holds the ticket all its runs are quiet.
LEMMA NobodyHolds ==
    ASSUME StoreInv, NEW t \in Ticket, \A g \in Gen : ~Held(t, g)
    PROVE  AllQuiet(run[t])
<1>1. Fenced(session[t], run[t], ticketState[t])
  BY DEF StoreInv, FencingInv
<1> QED BY <1>1 DEF Fenced, OwnerOnly, Held, AllQuiet

\* A ticket in any other state than "running" has no active run.
LEMMA OnlyRunningHolds ==
    ASSUME StoreInv, NEW t \in Ticket, ticketState[t] # "running"
    PROVE  AllQuiet(run[t])
BY NobodyHolds, HeldAlone

\* What the invariant says of generations and of closed sessions.
LEMMA Sequel ==
    ASSUME StoreInv, NEW t \in Ticket
    PROVE  /\ Unissued(session[t], run[t])
           /\ ClosedIsDelivered(session[t], ticketState[t])
BY DEF StoreInv, FencingInv, Fenced

\* When the current run does not write, no run of the ticket does.
LEMMA NobodyWrites ==
    ASSUME StoreInv, NEW t \in Ticket, ~WriteFenced(t)
    PROVE  \A g \in Gen : ~run[t][g].writing
<1> SUFFICES ASSUME NEW g \in Gen, run[t][g].writing PROVE FALSE
  OBVIOUS
<1>1. Fenced(session[t], run[t], ticketState[t])
  BY DEF StoreInv, FencingInv
<1>2. session[t].current = g
  BY <1>1 DEF Fenced, OwnerOnly, Quiet
<1> QED BY <1>2 DEF WriteFenced

\* The end of the run that holds a ticket leaves all its runs quiet.
LEMMA FinishQuiets ==
    ASSUME StoreInv, NEW t \in Ticket, NEW g \in Gen, NEW state \in Final,
           Held(t, g), ~run[t][g].writing
    PROVE  /\ AllQuiet(Finish(t, g, state)) /\ Unissued(session[t], Finish(t, g, state))
           /\ AllQuiet(Fail(t, g)) /\ Unissued(session[t], Fail(t, g))
<1>1. run[t] \in [Gen -> RunRow] /\ run[t][g] \in RunRow
  BY DEF StoreInv, TypeOK
<1>2. \A h \in Gen : h # g => Quiet(run[t][h])
  BY HeldAlone
<1>3. /\ g <= session[t].gen
      /\ Unissued(session[t], run[t])
  BY HeldAlone, Sequel
<1>4. Quiet(Ended(run[t][g], state)) /\ Quiet([Ended(run[t][g], "failed") EXCEPT !.failure = TRUE])
  BY <1>1, FinishedRow DEF Quiet, Final
<1>5. \A h \in Gen : h > session[t].gen => h # g
  BY <1>3, Limits DEF StoreInv, TypeOK, SessionRow, Gen
<1>6. \A h \in Gen : /\ Finish(t, g, state)[h] = IF h = g THEN Ended(run[t][g], state) ELSE run[t][h]
                     /\ Fail(t, g)[h] = IF h = g THEN [Ended(run[t][g], "failed") EXCEPT !.failure = TRUE]
                                               ELSE run[t][h]
  BY <1>1 DEF Finish, Fail
<1>7. AllQuiet(Finish(t, g, state)) /\ AllQuiet(Fail(t, g))
  BY <1>2, <1>4, <1>6 DEF AllQuiet
<1>8. Unissued(session[t], Finish(t, g, state)) /\ Unissued(session[t], Fail(t, g))
  BY <1>3, <1>5, <1>6 DEF Unissued
<1> QED BY <1>7, <1>8

\* So does superseding it, unless it writes.
LEMMA SupersededQuiets ==
    ASSUME StoreInv, NEW t \in Ticket, \A g \in Gen : ~run[t][g].writing
    PROVE  AllQuiet(Superseded(t)) /\ Unissued(session[t], Superseded(t))
<1>1. run[t] \in [Gen -> RunRow]
  BY DEF StoreInv, TypeOK
<1>2. ASSUME NEW g \in Gen
      PROVE  /\ Quiet(Superseded(t)[g])
             /\ run[t][g].state = "none" => Superseded(t)[g].state = "none"
  <2>1. CASE g = session[t].current /\ run[t][g].state = "running"
    <3>1. Superseded(t)[g] = Ended(run[t][g], "superseded")
      BY <2>1 DEF Superseded
    <3> QED BY <1>1, <2>1, <3>1, FinishedRow DEF Quiet, Final
  <2>2. CASE ~(g = session[t].current /\ run[t][g].state = "running")
    <3>1. Superseded(t)[g] = run[t][g]
      BY <2>2 DEF Superseded
    <3>2. Fenced(session[t], run[t], ticketState[t])
      BY DEF StoreInv, FencingInv
    <3> QED BY <2>2, <3>1, <3>2 DEF Fenced, OwnerOnly
  <2> QED BY <2>1, <2>2
<1> QED BY <1>2, Sequel DEF AllQuiet, Unissued

\* The end of a delivery that returns the ticket to review keeps it fenced.
LEMMA BackToReviewFences ==
    ASSUME StoreInv, NEW t \in Ticket, NEW g \in Gen, NEW state \in Final, NEW retry,
           Held(t, g), ~run[t][g].writing, BackToReview(t, g, state, retry)
    PROVE  FencingInv'
<1> DEFINE s == [session[t] EXCEPT !.retry = retry]
<1>1. /\ session' = [session EXCEPT ![t] = s]
      /\ run' = [run EXCEPT ![t] = Finish(t, g, state)]
  BY DEF BackToReview, Retire
<1>2. ticketState[t] = "running"
  BY HeldAlone
<1>3. ticketState' = [ticketState EXCEPT ![t] = "waiting_review"]
  BY <1>2, SetTicketIs DEF BackToReview, StoreInv
<1>4. s.gen = session[t].gen /\ s.state = session[t].state
  BY DEF StoreInv, TypeOK, SessionRow
<1>5. Unissued(s, Finish(t, g, state)) /\ AllQuiet(Finish(t, g, state))
  BY <1>4, FinishQuiets DEF Unissued
<1>6. ClosedIsDelivered(s, "waiting_review")
  BY <1>2, <1>4, Sequel DEF ClosedIsDelivered
<1> HIDE DEF s
<1> QED BY <1>1, <1>3, <1>5, <1>6, QuietFences, UpdateFences

\* So does the choice between another delivery and an escalation.
LEMMA RetryOrEscalateFences ==
    ASSUME StoreInv, NEW t \in Ticket, NEW g \in Gen, NEW rs \in [Gen -> RunRow], NEW mayEscalate,
           AllQuiet(rs), Unissued(session[t], rs), ticketState[t] = "running",
           RetryOrEscalate(t, g, rs, mayEscalate)
    PROVE  FencingInv'
<1>1. CASE DeliveryFailures(rs, rs[g].epoch) < MaxAttempts
  <2> DEFINE s == [session[t] EXCEPT !.retry = TRUE]
  <2>1. /\ session' = [session EXCEPT ![t] = s]
        /\ run' = [run EXCEPT ![t] = rs]
    BY <1>1 DEF RetryOrEscalate
  <2>2. ticketState' = [ticketState EXCEPT ![t] = "waiting_review"]
    BY <1>1, SetTicketIs DEF RetryOrEscalate, StoreInv
  <2>3. s.gen = session[t].gen /\ s.state = session[t].state
    BY DEF StoreInv, TypeOK, SessionRow
  <2>4. Unissued(s, rs)
    BY <2>3 DEF Unissued
  <2>5. ClosedIsDelivered(s, "waiting_review")
    BY <2>3, Sequel DEF ClosedIsDelivered
  <2> HIDE DEF s
  <2> QED BY <2>1, <2>2, <2>4, <2>5, QuietFences, UpdateFences
<1>2. CASE ~(DeliveryFailures(rs, rs[g].epoch) < MaxAttempts)
  BY <1>2, NeedsAttentionFences DEF RetryOrEscalate, AllQuiet, Quiet, StoreInv, TypeOK
<1> QED BY <1>1, <1>2

\* The rest of a row may change without its owner noticing.
KeepsOwner(q, r) == q.state = r.state /\ q.leased = r.leased /\ q.kind = r.kind

Keeps(q, r) == KeepsOwner(q, r) /\ (q.writing => r.writing)

\* The columns of launch, isolation and time do not concern the owner.
LEMMA ColumnKeeps ==
    ASSUME NEW r \in RunRow, NEW v
    PROVE  /\ Keeps([r EXCEPT !.launch = v], r)
           /\ Keeps([r EXCEPT !.create = v], r)
           /\ Keeps([r EXCEPT !.reported = v], r)
           /\ Keeps([r EXCEPT !.isolating = v], r)
           /\ Keeps([r EXCEPT !.lapsed = v], r)
           /\ Keeps([r EXCEPT !.writing = FALSE], r)
           /\ KeepsOwner([r EXCEPT !.writing = v], r)
<1> USE DEF RunRow, Keeps, KeepsOwner
<1>1. Keeps([r EXCEPT !.launch = v], r)
  OBVIOUS
<1>2. Keeps([r EXCEPT !.create = v], r)
  OBVIOUS
<1>3. Keeps([r EXCEPT !.reported = v], r)
  OBVIOUS
<1>4. Keeps([r EXCEPT !.isolating = v], r)
  OBVIOUS
<1>5. Keeps([r EXCEPT !.lapsed = v], r)
  OBVIOUS
<1>6. Keeps([r EXCEPT !.writing = FALSE], r) /\ KeepsOwner([r EXCEPT !.writing = v], r)
  OBVIOUS
<1> QED BY <1>1, <1>2, <1>3, <1>4, <1>5, <1>6

\* A change of these columns disturbs nothing; a write may begin for a delivery
\* that holds its ticket.
LEMMA ColumnFences ==
    ASSUME StoreInv, NEW t \in Ticket, NEW g \in Gen, NEW r, KeepsOwner(r, run[t][g]),
           r.writing => run[t][g].writing \/ (Held(t, g) /\ r.kind = "delivery"),
           run' = [run EXCEPT ![t][g] = r], UNCHANGED <<session, ticketState>>
    PROVE  FencingInv'
<1> SUFFICES ASSUME NEW u \in Ticket
             PROVE  Fenced(session'[u], run'[u], ticketState'[u])
  BY DEF FencingInv
<1> USE DEF KeepsOwner
<1>1. Fenced(session[u], run[u], ticketState[u])
  BY DEF StoreInv, FencingInv
<1>2. CASE u # t
  BY <1>1, <1>2 DEF StoreInv, TypeOK
<1>3. CASE u = t
  <2>1. \A h \in Gen : run'[t][h] = IF h = g THEN r ELSE run[t][h]
    BY DEF StoreInv, TypeOK
  <2>2. Unissued(session[t], run'[t]) /\ ClosedIsDelivered(session[t], ticketState[t])
    BY <2>1, <1>1, <1>3 DEF Fenced, Unissued
  <2>3. ASSUME NEW h \in Gen, ~Quiet(run'[t][h])
        PROVE  /\ session[t].current = h
               /\ run'[t][h].state = "running"
               /\ run'[t][h].leased
               /\ run'[t][h].writing => run'[t][h].kind = "delivery"
               /\ ticketState[t] = "running"
    <3>1. CASE h # g
      BY <1>1, <1>3, <2>1, <2>3, <3>1 DEF Fenced, OwnerOnly
    <3>2. CASE h = g
      <4>1. run'[t][h] = r
        BY <2>1, <3>2
      <4>2. ~Quiet(run[t][g])
        BY <2>3, <4>1 DEF Quiet, Held
      <4>3. /\ session[t].current = g /\ run[t][g].state = "running" /\ run[t][g].leased
            /\ ticketState[t] = "running"
            /\ run[t][g].writing => run[t][g].kind = "delivery"
        BY <1>1, <1>3, <4>2 DEF Fenced, OwnerOnly
      <4> QED BY <3>2, <4>1, <4>3
    <3> QED BY <3>1, <3>2
  <2>4. OwnerOnly(session[t], run'[t], ticketState[t])
    BY <2>3 DEF OwnerOnly
  <2> QED BY <1>3, <2>2, <2>4 DEF Fenced
<1> QED BY <1>2, <1>3

\* Steps that leave sessions, runs and tickets alone disturb nothing.
LEMMA Untouched ==
    ASSUME StoreInv, UNCHANGED <<session, run, ticketState>>
    PROVE  FencingInv'
BY DEF StoreInv, FencingInv

\* Nobody writes for an isolated ticket.
LEMMA IsolatedHolder ==
    ASSUME StoreInv, NEW c \in Caller, NEW t \in Ticket, Isolated(c, t)
    PROVE  \A g \in Gen : ~run[t][g].writing
BY NobodyWrites DEF Isolated

\* The recovery of an expired delivery keeps its ticket fenced.
LEMMA RecoverExpiredFences ==
    ASSUME StoreInv, NEW t \in Ticket, NEW g \in Gen, Held(t, g), ~run[t][g].writing,
           RecoverExpired(t, g)
    PROVE  FencingInv'
<1>1. ticketState[t] = "running" /\ session[t] \in SessionRow
  BY HeldAlone DEF StoreInv, TypeOK
<1>2. /\ Finish(t, g, "failed") \in [Gen -> RunRow] /\ Fail(t, g) \in [Gen -> RunRow]
      /\ AllQuiet(Finish(t, g, "failed")) /\ Unissued(session[t], Finish(t, g, "failed"))
      /\ AllQuiet(Fail(t, g)) /\ Unissued(session[t], Fail(t, g))
  BY FinishType, FinishQuiets DEF StoreInv, Final
<1>3. CASE run[t][g].launch # "launched"
  BY <1>1, <1>2, <1>3, RetryOrEscalateFences DEF RecoverExpired
<1>4. CASE run[t][g].launch = "launched"
  BY <1>1, <1>2, <1>4, NeedsAttentionFences DEF RecoverExpired, AllQuiet, Quiet
<1> QED BY <1>3, <1>4

\* Every claim, answer and feedback of a ticket keeps the invariant.
LEMMA TicketStepFences ==
    ASSUME StoreInv, ~StaleAnswers, NEW t \in Ticket, TicketStep(t)
    PROVE  FencingInv'
<1>1. /\ session[t] \in SessionRow /\ run[t] \in [Gen -> RunRow]
      /\ Superseded(t) \in [Gen -> RunRow]
      /\ ReviewFailures(t) \in 0..MaxAttempts
      /\ Increment(session[t].failures) \in 0..MaxAttempts
  BY SupersededType, IncrementType DEF StoreInv, TypeOK, SessionRow, ReviewFailures
<1>2. /\ Unissued(session[t], run[t])
      /\ session[t].state = "closed" <=> ticketState[t] = "delivered"
  BY Sequel DEF ClosedIsDelivered
<1> DEFINE failed == [session[t] EXCEPT !.failures = Increment(session[t].failures)]
           reviewed == [session[t] EXCEPT !.failures = ReviewFailures(t)]
           claimed == [session[t] EXCEPT !.retry = FALSE]
<1>3. /\ failed \in SessionRow /\ failed.gen = session[t].gen /\ failed.state = session[t].state
      /\ reviewed \in SessionRow /\ reviewed.gen = session[t].gen
      /\ reviewed.state = session[t].state
      /\ claimed \in SessionRow /\ claimed.gen = session[t].gen /\ claimed.state = session[t].state
  BY <1>1 DEF SessionRow
<1> HIDE DEF failed, reviewed, claimed
\* No agent writes, so that a claim supersedes quietly.
<1>4. ASSUME Unattended(t) \/ LapsedAgent(t)
      PROVE  \A g \in Gen : ~run[t][g].writing
  <2> SUFFICES ASSUME NEW g \in Gen, run[t][g].writing PROVE FALSE
    OBVIOUS
  <2>1. Held(t, g)
    BY DEF StoreInv, FencingInv, Fenced, OwnerOnly, Quiet, Held
  <2>2. run[t][g].kind = "delivery"
    BY <2>1, HeldAlone
  <2>3. ~Unattended(t)
    BY <2>1, <2>2 DEF Unattended, Held
  <2>4. ~LapsedAgent(t)
    BY <2>1, <2>2 DEF LapsedAgent, Held
  <2> QED BY <1>4, <2>3, <2>4
<1>5. ASSUME Unattended(t) \/ LapsedAgent(t)
      PROVE  AllQuiet(Superseded(t)) /\ Unissued(session[t], Superseded(t))
  BY <1>4, <1>5, SupersededQuiets
<1>6. CASE ClaimReady(t)
  <2>1. Unattended(t) /\ ticketState[t] # "delivered"
    BY <1>6 DEF ClaimReady, Claimable, Ready
  <2> QED BY <1>1, <1>5, <1>6, <2>1, IssueFences DEF ClaimReady
<1>7. CASE ClaimReadyReleasesFeedback(t)
  <2>1. Unattended(t) /\ ticketState[t] # "delivered"
    BY <1>7 DEF ClaimReadyReleasesFeedback, Claimable, Ready
  <2>2. /\ session' = [session EXCEPT ![t] = session[t]]
        /\ run' = [run EXCEPT ![t] = Superseded(t)]
        /\ ticketState' = [ticketState EXCEPT ![t] = "waiting_review"]
    BY <1>7, <2>1, SetTicketIs DEF ClaimReadyReleasesFeedback, StoreInv, TypeOK
  <2>3. Fenced(session[t], Superseded(t), "waiting_review")
    BY <1>2, <1>5, <2>1, QuietFences DEF ClosedIsDelivered
  <2> QED BY <2>2, <2>3, UpdateFences
<1>8. CASE ClaimReadyExhausted(t)
  <2> DEFINE s == [session[t] EXCEPT !.gen = session[t].gen + 1]
  <2>1. Unattended(t) /\ session[t].gen < MaxGen /\ NeedsAttention(t, s, Superseded(t), {})
    BY <1>8 DEF ClaimReadyExhausted, Claimable
  <2>2. s \in SessionRow /\ s.state = session[t].state /\ s.gen = session[t].gen + 1
    BY <1>1, <2>1, Limits DEF SessionRow
  <2>3. Unissued(s, Superseded(t))
    <3> HIDE DEF s
    <3>1. session[t].gen \in 0..MaxGen
      BY <1>1 DEF SessionRow
    <3>2. \A g \in Gen : g > s.gen => g > session[t].gen
      BY <2>2, <3>1, Limits DEF Gen
    <3> QED BY <1>5, <2>1, <3>2 DEF Unissued
  <2>4. \A g \in Gen : ~Superseded(t)[g].writing
    BY <1>5, <2>1 DEF AllQuiet, Quiet
  <2> HIDE DEF s
  <2> QED BY <1>1, <2>1, <2>2, <2>3, <2>4, NeedsAttentionFences
<1>9. CASE ClaimReadyAuthenticationLost(t)
  <2>1. Unattended(t)
    BY <1>9 DEF ClaimReadyAuthenticationLost, Claimable
  <2>2. \A g \in Gen : ~run[t][g].writing
    BY <1>4, <2>1
  <2>3. CASE \E g \in Gen : Held(t, g)
    <3> DEFINE g == session[t].current
    <3>1. g \in Gen /\ Held(t, g)
      BY <2>3 DEF Held
    <3>2. NeedsAttention(t, failed, Finish(t, g, "failed"), {})
      BY <1>9, <2>3 DEF ClaimReadyAuthenticationLost, failed
    <3>3. Finish(t, g, "failed") \in [Gen -> RunRow]
      BY <3>1, FinishType DEF StoreInv, Final
    <3>4. AllQuiet(Finish(t, g, "failed")) /\ Unissued(failed, Finish(t, g, "failed"))
      BY <1>3, <2>2, <3>1, FinishQuiets DEF Final, Unissued
    <3> QED BY <1>3, <3>2, <3>3, <3>4, NeedsAttentionFences DEF AllQuiet, Quiet
  <2>4. CASE ~\E g \in Gen : Held(t, g)
    BY <1>1, <1>2, <1>9, <2>2, <2>4, NeedsAttentionFences DEF ClaimReadyAuthenticationLost
  <2> QED BY <2>3, <2>4
<1>10. CASE ClaimPendingDelivery(t)
  <2>1. AllQuiet(run[t]) /\ ticketState[t] # "delivered"
    BY <1>10, OnlyRunningHolds DEF ClaimPendingDelivery
  <2>2. Unissued(claimed, run[t])
    BY <1>2, <1>3 DEF Unissued
  <2>3. Issue(t, claimed, run[t], "delivery", FALSE)
    BY <1>10 DEF ClaimPendingDelivery, claimed
  <2> QED BY <1>1, <1>3, <2>1, <2>2, <2>3, IssueFences
<1> DEFINE left == IF LapsedAgent(t) THEN Superseded(t) ELSE run[t]
<1>11. ASSUME ReviewClaimable(t)
       PROVE  /\ AllQuiet(left) /\ Unissued(reviewed, left) /\ left \in [Gen -> RunRow]
              /\ ticketState[t] # "delivered"
  <2>1. ticketState[t] # "delivered"
    BY <1>2, <1>11 DEF ReviewClaimable
  <2>2. CASE LapsedAgent(t)
    BY <1>1, <1>3, <1>5, <2>1, <2>2 DEF Unissued
  <2>3. CASE ~LapsedAgent(t)
    <3>1. AllQuiet(run[t])
      BY <1>11, <2>3, NobodyHolds DEF ReviewClaimable
    <3> QED BY <1>1, <1>2, <1>3, <2>1, <2>3, <3>1 DEF Unissued
  <2> QED BY <2>2, <2>3
<1>12. CASE ClaimQueuedReview(t)
  <2>1. ReviewClaimable(t) /\ Issue(t, reviewed, left, "agent", TRUE)
    BY <1>12 DEF ClaimQueuedReview, reviewed
  <2> HIDE DEF left
  <2> QED BY <1>3, <1>11, <2>1, IssueFences
<1>13. CASE ClaimQueuedReviewExhausted(t)
  <2>1. ReviewClaimable(t) /\ NeedsAttention(t, reviewed, left, {})
    BY <1>13 DEF ClaimQueuedReviewExhausted, reviewed
  <2>2. \A g \in Gen : ~left[g].writing
    BY <1>11, <2>1 DEF AllQuiet, Quiet
  <2> HIDE DEF left
  <2> QED BY <1>3, <1>11, <2>1, <2>2, NeedsAttentionFences
<1>14. CASE ClaimQueuedReviewAuthenticationLost(t)
  <2>1. ReviewClaimable(t)
    BY <1>14 DEF ClaimQueuedReviewAuthenticationLost
  <2>2. CASE LapsedAgent(t)
    <3> DEFINE g == session[t].current
    <3>1. g \in Gen /\ Held(t, g)
      BY <2>2 DEF LapsedAgent, Held
    <3>2. NeedsAttention(t, reviewed, Finish(t, g, "failed"), {})
      BY <1>14, <2>2 DEF ClaimQueuedReviewAuthenticationLost, reviewed
    <3>3. Finish(t, g, "failed") \in [Gen -> RunRow]
      BY <3>1, FinishType DEF StoreInv, Final
    <3>4. AllQuiet(Finish(t, g, "failed")) /\ Unissued(reviewed, Finish(t, g, "failed"))
      BY <1>3, <1>4, <2>2, <3>1, FinishQuiets DEF Final, Unissued
    <3> QED BY <1>3, <3>2, <3>3, <3>4, NeedsAttentionFences DEF AllQuiet, Quiet
  <2>3. CASE ~LapsedAgent(t)
    <3>1. NeedsAttention(t, reviewed, run[t], {})
      BY <1>14, <2>3 DEF ClaimQueuedReviewAuthenticationLost, reviewed
    <3>2. AllQuiet(run[t]) /\ Unissued(reviewed, run[t])
      BY <1>11, <2>1, <2>3
    <3> QED BY <1>1, <1>3, <3>1, <3>2, NeedsAttentionFences DEF AllQuiet, Quiet
  <2> QED BY <2>2, <2>3
<1>15. CASE AnswerNeedsAttention(t) \/ RetryPollFailure(t)
  <2>1. ticketState[t] = "needs_attention"
    BY <1>15 DEF AnswerNeedsAttention, RetryPollFailure, RecoverTicket
  <2>2. AllQuiet(run[t])
    BY <2>1, OnlyRunningHolds
  <2>3. PICK s : /\ session' = [session EXCEPT ![t] = s]
                 /\ s.gen = session[t].gen /\ s.state = session[t].state
    <3>1. CASE session' = session
      BY <1>1, <3>1 DEF StoreInv, TypeOK
    <3>2. CASE session' = [session EXCEPT ![t] = [session[t] EXCEPT !.failures = 0, !.retry = TRUE]]
      <4> DEFINE s == [session[t] EXCEPT !.failures = 0, !.retry = TRUE]
      <4>1. s.gen = session[t].gen /\ s.state = session[t].state
        BY <1>1 DEF SessionRow
      <4> HIDE DEF s
      <4>2. session' = [session EXCEPT ![t] = s]
        BY <3>2 DEF s
      <4> QED BY <4>1, <4>2
    <3>3. CASE session' = [session EXCEPT ![t] = [session[t] EXCEPT !.failures = 0,
                                                                   !.epoch = session[t].epoch + 1]]
      <4> DEFINE s == [session[t] EXCEPT !.failures = 0, !.epoch = session[t].epoch + 1]
      <4>1. s.gen = session[t].gen /\ s.state = session[t].state
        BY <1>1 DEF SessionRow
      <4>2. session' = [session EXCEPT ![t] = s]
        BY <3>3
      <4> HIDE DEF s
      <4> QED BY <4>1, <4>2
    <3> QED BY <1>15, <3>1, <3>2, <3>3 DEF AnswerNeedsAttention, RetryPollFailure, RecoverTicket
  <2>4. PICK ts : /\ ticketState' = [ticketState EXCEPT ![t] = ts]
                  /\ ts \in {"waiting_review", "queued"}
    BY <1>15, <2>1, SetTicketIs DEF AnswerNeedsAttention, RetryPollFailure, RecoverTicket, StoreInv
  <2>5. Fenced(s, run[t], ts)
    BY <1>2, <2>1, <2>2, <2>3, <2>4, QuietFences DEF Unissued, ClosedIsDelivered
  <2>6. run' = [run EXCEPT ![t] = run[t]]
    BY <1>15 DEF AnswerNeedsAttention, RetryPollFailure, RecoverTicket, StoreInv, TypeOK
  <2> QED BY <2>3, <2>4, <2>5, <2>6, UpdateFences
<1>16. CASE AnswerQualityGate(t)
  <2> DEFINE s == [session[t] EXCEPT !.retry = TRUE]
  <2>1. ticketState[t] = "needs_attention"
    BY <1>16 DEF AnswerQualityGate
  <2>2. AllQuiet(run[t])
    BY <2>1, OnlyRunningHolds
  <2>3. /\ session' = [session EXCEPT ![t] = s]
        /\ run' = [run EXCEPT ![t] = run[t]]
        /\ ticketState' = [ticketState EXCEPT ![t] = "waiting_review"]
    BY <1>16, <2>1, SetTicketIs DEF AnswerQualityGate, StoreInv, TypeOK
  <2>4. s.gen = session[t].gen /\ s.state = session[t].state
    BY <1>1 DEF SessionRow
  <2> HIDE DEF s
  <2>5. Fenced(s, run[t], "waiting_review")
    BY <1>2, <2>1, <2>2, <2>4, QuietFences DEF Unissued, ClosedIsDelivered
  <2> QED BY <2>3, <2>5, UpdateFences
<1>17. CASE RecordReviewFeedback(t) \/ BackoffElapses(t)
  BY <1>17, Untouched DEF RecordReviewFeedback, BackoffElapses
<1> QED BY <1>6, <1>7, <1>8, <1>9, <1>10, <1>12, <1>13, <1>14, <1>15, <1>16, <1>17 DEF TicketStep

\* Every step of a run keeps the invariant.
LEMMA RunStepFences ==
    ASSUME StoreInv, NEW t \in Ticket, NEW g \in Gen, RunStep(t, g)
    PROVE  FencingInv'
<1>1. /\ session[t] \in SessionRow /\ run[t] \in [Gen -> RunRow] /\ run[t][g] \in RunRow
      /\ Increment(session[t].failures) \in 0..MaxAttempts
  BY IncrementType DEF StoreInv, TypeOK, SessionRow
<1>2. /\ Unissued(session[t], run[t])
      /\ session[t].state = "closed" <=> ticketState[t] = "delivered"
  BY Sequel DEF ClosedIsDelivered
<1> DEFINE failed == [session[t] EXCEPT !.failures = Increment(session[t].failures)]
           row == run[t][g]
<1>3. /\ failed \in SessionRow /\ failed.gen = session[t].gen /\ failed.state = session[t].state
  BY <1>1 DEF SessionRow
<1> HIDE DEF failed
\* The changes of a column.
<1>4. ASSUME NEW r, Keeps(r, row), run' = [run EXCEPT ![t][g] = r],
             UNCHANGED <<session, ticketState>>
      PROVE  FencingInv'
  BY <1>4, ColumnFences DEF Keeps
<1>5. CASE ReservePrelaunch(t, g)
  BY <1>1, <1>4, <1>5, ColumnKeeps DEF ReservePrelaunch
<1>6. CASE AcquireCreateFence(t, g)
  BY <1>1, <1>4, <1>6, ColumnKeeps DEF AcquireCreateFence
<1>7. CASE ReleaseCreateFence(t, g)
  BY <1>1, <1>4, <1>7, ColumnKeeps DEF ReleaseCreateFence
<1>8. CASE ReserveLaunch(t, g)
  BY <1>1, <1>4, <1>8, ColumnKeeps DEF ReserveLaunch
<1>9. CASE RecordWorkerContainer(t, g)
  BY <1>1, <1>4, <1>9, ColumnKeeps DEF RecordWorkerContainer
<1>10. CASE AcceptCandidate(t, g)
  <2> DEFINE s == [session[t] EXCEPT !.accepted = g, !.failures = 0, !.epoch = session[t].epoch + 1]
  <2>1. /\ Held(t, g) /\ row.kind = "agent"
        /\ Issue(t, s, Finish(t, g, "succeeded"), "delivery", FALSE)
    BY <1>10 DEF AcceptCandidate, Owned
  <2>2. ~row.writing /\ ticketState[t] = "running"
    BY <2>1, HeldAlone
  <2>3. s \in SessionRow
    BY <1>1, <1>10, AcceptedType DEF AcceptCandidate
  <2>4. s.gen = session[t].gen
    BY <1>1 DEF SessionRow
  <2> HIDE DEF s
  <2>5. /\ Finish(t, g, "succeeded") \in [Gen -> RunRow]
        /\ AllQuiet(Finish(t, g, "succeeded")) /\ Unissued(s, Finish(t, g, "succeeded"))
    BY <2>1, <2>2, <2>4, FinishType, FinishQuiets DEF StoreInv, Final, Unissued
  <2> QED BY <2>1, <2>2, <2>3, <2>5, IssueFences
<1>11. ASSUME NEW infrastructure \in BOOLEAN, RecordRunFailure(t, g, infrastructure)
       PROVE  FencingInv'
  <2>1. Held(t, g) /\ row.kind = "agent"
    BY <1>11 DEF RecordRunFailure, Owned
  <2>2. ~row.writing /\ ticketState[t] = "running"
    BY <2>1, HeldAlone
  <2>3. AllQuiet(Fail(t, g)) /\ Unissued(failed, Fail(t, g))
    BY <1>3, <2>1, <2>2, FinishQuiets DEF Final, Unissued
  <2>4. PICK ts \in {"running", "waiting_review"} : ticketState' = [ticketState EXCEPT ![t] = ts]
    BY <1>11, <2>2 DEF RecordRunFailure
  <2>5. Fenced(failed, Fail(t, g), ts)
    BY <1>2, <1>3, <2>2, <2>3, <2>4, QuietFences DEF ClosedIsDelivered
  <2>6. session' = [session EXCEPT ![t] = failed] /\ run' = [run EXCEPT ![t] = Fail(t, g)]
    BY <1>11 DEF RecordRunFailure, failed
  <2> QED BY <2>4, <2>5, <2>6, UpdateFences
<1>12. CASE RecordRunAuthenticationFailure(t, g)
  <2>1. Held(t, g) /\ row.kind = "agent" /\ NeedsAttention(t, failed, Fail(t, g), {})
    BY <1>12 DEF RecordRunAuthenticationFailure, failed
  <2>2. ~row.writing
    BY <2>1, HeldAlone
  <2>3. /\ AllQuiet(Fail(t, g)) /\ Unissued(failed, Fail(t, g)) /\ Fail(t, g) \in [Gen -> RunRow]
    BY <1>3, <2>1, <2>2, FinishType, FinishQuiets DEF StoreInv, Final, Unissued
  <2> QED BY <1>3, <2>1, <2>3, NeedsAttentionFences DEF AllQuiet, Quiet
<1>13. CASE CompleteDelivery(t, g)
  BY <1>13, BackToReviewFences DEF CompleteDelivery, Delivering, Final
<1>14. CASE PauseForQualityGate(t, g)
  <2>1. Held(t, g) /\ ~row.writing
    BY <1>14 DEF PauseForQualityGate, Delivering
  <2>2. ticketState[t] = "running"
    BY <2>1, HeldAlone
  <2>3. /\ session' = [session EXCEPT ![t] = session[t]]
        /\ run' = [run EXCEPT ![t] = Finish(t, g, "succeeded")]
        /\ ticketState' = [ticketState EXCEPT ![t] = "needs_attention"]
    BY <1>14, <2>2, SetTicketIs DEF PauseForQualityGate, Retire, StoreInv, TypeOK
  <2>4. Fenced(session[t], Finish(t, g, "succeeded"), "needs_attention")
    BY <1>2, <2>1, <2>2, FinishQuiets, QuietFences DEF Final, ClosedIsDelivered
  <2> QED BY <2>3, <2>4, UpdateFences
<1>15. CASE BeginWrite(t, g)
  <2> DEFINE r == [row EXCEPT !.writing = TRUE]
  <2>1. KeepsOwner(r, row)
    BY <1>1, ColumnKeeps
  <2>2. Held(t, g) /\ r.kind = "delivery" /\ run' = [run EXCEPT ![t][g] = r]
    BY <1>15, <2>1 DEF BeginWrite, Delivering, KeepsOwner
  <2>3. UNCHANGED <<session, ticketState>>
    BY <1>15 DEF BeginWrite
  <2> HIDE DEF r
  <2> QED BY <2>1, <2>2, <2>3, ColumnFences
<1>16. CASE EndWrite(t, g)
  BY <1>1, <1>4, <1>16, ColumnKeeps DEF EndWrite
<1>17. CASE RecoverUnlaunchedDelivery(t, g)
  BY <1>17, RecoverExpiredFences DEF RecoverUnlaunchedDelivery, Delivering
<1>18. CASE RecoverAuthenticationFailure(t, g)
  <2>1. Held(t, g) /\ ~row.writing /\ NeedsAttention(t, failed, Finish(t, g, "failed"), {})
    BY <1>18 DEF RecoverAuthenticationFailure, failed
  <2>2. /\ AllQuiet(Finish(t, g, "failed")) /\ Unissued(failed, Finish(t, g, "failed"))
        /\ Finish(t, g, "failed") \in [Gen -> RunRow]
    BY <1>3, <2>1, FinishType, FinishQuiets DEF StoreInv, Final, Unissued
  <2> QED BY <1>3, <2>1, <2>2, NeedsAttentionFences DEF AllQuiet, Quiet
<1>19. CASE Lapse(t, g)
  BY <1>1, <1>4, <1>19, ColumnKeeps DEF Lapse
<1> QED BY <1>5, <1>6, <1>7, <1>8, <1>9, <1>10, <1>11, <1>12, <1>13, <1>14, <1>15, <1>16,
           <1>17, <1>18, <1>19 DEF RunStep

\* Every step that needs an isolation proof keeps the invariant.
LEMMA CallerStepFences ==
    ASSUME StoreInv, NEW c \in Caller, NEW t \in Ticket, CallerStep(c, t)
    PROVE  FencingInv'
<1>1. session[t] \in SessionRow /\ run[t] \in [Gen -> RunRow]
  BY DEF StoreInv, TypeOK
<1>2. /\ Unissued(session[t], run[t])
      /\ session[t].state = "closed" <=> ticketState[t] = "delivered"
  BY Sequel DEF ClosedIsDelivered
<1>3. CASE FenceIsolation(c, t)
  <2> DEFINE g == session[t].current
             r == [run[t][g] EXCEPT !.isolating = TRUE]
  <2>1. g \in Gen /\ run[t][g] \in RunRow
    BY <1>1, <1>3 DEF FenceIsolation, IsTarget, Held
  <2>2. Keeps(r, run[t][g])
    BY <2>1, ColumnKeeps
  <2>3. KeepsOwner(r, run[t][g]) /\ (r.writing => run[t][g].writing)
    BY <2>2 DEF Keeps
  <2> QED BY <1>3, <2>1, <2>3, ColumnFences DEF FenceIsolation
<1>4. CASE AcknowledgeIsolation(c, t)
  <2> DEFINE g == session[t].current
             r == [run[t][g] EXCEPT !.create = IF run[t][g].create = "pending" THEN "done"
                                               ELSE run[t][g].create]
  <2>1. g \in Gen /\ run[t][g] \in RunRow
    BY <1>1, <1>4 DEF AcknowledgeIsolation, IsTarget, Held
  <2>2. Keeps(r, run[t][g])
    BY <2>1, ColumnKeeps
  <2>3. KeepsOwner(r, run[t][g]) /\ (r.writing => run[t][g].writing)
    BY <2>2 DEF Keeps
  <2> QED BY <1>4, <2>1, <2>3, ColumnFences DEF AcknowledgeIsolation
<1>5. CASE MarkDelivered(c, t)
  <2> DEFINE s == [session[t] EXCEPT !.state = "closed"]
             rs == [g \in Gen |-> IF g = session[t].current /\ run[t][g].state = "running"
                                  THEN Ended(run[t][g], "succeeded") ELSE run[t][g]]
  <2>1. /\ session' = [session EXCEPT ![t] = s]
        /\ run' = [run EXCEPT ![t] = rs]
        /\ ticketState' = [ticketState EXCEPT ![t] = "delivered"]
    BY <1>5 DEF MarkDelivered
  <2>2. s.gen = session[t].gen /\ s.state = "closed"
    BY <1>1 DEF SessionRow
  <2>3. \A g \in Gen : ~run[t][g].writing
    BY <1>5, IsolatedHolder DEF MarkDelivered
  <2>4. ASSUME NEW g \in Gen
        PROVE  Quiet(rs[g]) /\ (run[t][g].state = "none" => rs[g].state = "none")
    <3>1. CASE g = session[t].current /\ run[t][g].state = "running"
      BY <1>1, <2>3, <3>1, FinishedRow DEF Quiet, Final
    <3>2. CASE ~(g = session[t].current /\ run[t][g].state = "running")
      <4>1. Fenced(session[t], run[t], ticketState[t])
        BY DEF StoreInv, FencingInv
      <4> QED BY <3>2, <4>1 DEF Fenced, OwnerOnly
    <3> QED BY <3>1, <3>2
  <2> HIDE DEF s, rs
  <2>5. Fenced(s, rs, "delivered")
    BY <1>2, <2>2, <2>4, QuietFences DEF AllQuiet, Unissued, ClosedIsDelivered
  <2> QED BY <2>1, <2>5, UpdateFences
<1>6. CASE Escalate(c, t)
  <2>1. \A g \in Gen : ~run[t][g].writing
    BY <1>6, IsolatedHolder DEF Escalate
  <2> QED BY <1>1, <1>2, <1>6, <2>1, NeedsAttentionFences DEF Escalate
\* The outcomes of a delivery are recorded under no write fence.
<1>7. ASSUME NEW g \in Gen, Delivering(t, g), ~run[t][g].writing
      PROVE  /\ Finish(t, g, "failed") \in [Gen -> RunRow] /\ Fail(t, g) \in [Gen -> RunRow]
             /\ AllQuiet(Finish(t, g, "failed")) /\ Unissued(session[t], Finish(t, g, "failed"))
             /\ AllQuiet(Fail(t, g)) /\ Unissued(session[t], Fail(t, g))
             /\ ticketState[t] = "running"
  BY <1>7, FinishType, FinishQuiets, HeldAlone DEF StoreInv, Final, Delivering
<1>8. ASSUME NEW g \in Gen, FinishLapsedDelivery(c, t, g) \/ FailDelivery(c, t, g)
      PROVE  FencingInv'
  <2>1. Delivering(t, g) /\ ~run[t][g].writing
    BY <1>8, IsolatedHolder DEF FinishLapsedDelivery, FailDelivery
  <2>2. NeedsAttention(t, session[t], Finish(t, g, "failed"), {})
    BY <1>8 DEF FinishLapsedDelivery, FailDelivery
  <2> QED BY <1>1, <1>7, <2>1, <2>2, NeedsAttentionFences DEF AllQuiet, Quiet
<1>9. ASSUME NEW g \in Gen, NEW isolated \in BOOLEAN, NEW infrastructure \in BOOLEAN,
             \/ FailDeliveryWithClass(c, t, g, isolated, infrastructure)
             \/ FailDeliveryLaunch(c, t, g, isolated, infrastructure)
      PROVE  FencingInv'
  <2>1. Delivering(t, g) /\ ~run[t][g].writing
    BY <1>9 DEF FailDeliveryWithClass, FailDeliveryLaunch
  <2>2. PICK mayEscalate : RetryOrEscalate(t, g, Fail(t, g), mayEscalate)
    BY <1>9 DEF FailDeliveryWithClass, FailDeliveryLaunch
  <2> QED BY <1>7, <2>1, <2>2, RetryOrEscalateFences
<1>10. ASSUME NEW g \in Gen, DeferDelivery(c, t, g) \/ RevalidateDelivery(c, t, g)
       PROVE  FencingInv'
  <2>1. Held(t, g) /\ ~run[t][g].writing
    BY <1>10, IsolatedHolder DEF DeferDelivery, RevalidateDelivery, Delivering
  <2>2. PICK retry : BackToReview(t, g, "superseded", retry)
    BY <1>10 DEF DeferDelivery, RevalidateDelivery
  <2> QED BY <2>1, <2>2, BackToReviewFences DEF Final
<1>11. ASSUME NEW g \in Gen, ReconcileMissingRun(c, t, g)
       PROVE  FencingInv'
  <2>1. Held(t, g) /\ ~run[t][g].writing
    BY <1>11, IsolatedHolder DEF ReconcileMissingRun
  <2>2. CASE RecoverExpired(t, g)
    BY <2>1, <2>2, RecoverExpiredFences
  <2>3. CASE Retire(t, g, "superseded") /\ SetTicket(t, "queued") /\ UNCHANGED session
    <3>1. ticketState[t] = "running"
      BY <2>1, HeldAlone
    <3>2. /\ session' = [session EXCEPT ![t] = session[t]]
          /\ run' = [run EXCEPT ![t] = Finish(t, g, "superseded")]
          /\ ticketState' = [ticketState EXCEPT ![t] = "queued"]
      BY <2>3, <3>1, SetTicketIs DEF Retire, StoreInv, TypeOK
    <3>3. Fenced(session[t], Finish(t, g, "superseded"), "queued")
      BY <1>2, <2>1, <3>1, FinishQuiets, QuietFences DEF Final, ClosedIsDelivered
    <3> QED BY <3>2, <3>3, UpdateFences
  <2> QED BY <1>11, <2>2, <2>3 DEF ReconcileMissingRun
<1> QED BY <1>3, <1>4, <1>5, <1>6, <1>8, <1>9, <1>10, <1>11 DEF CallerStep

\* The inductive invariant: the ledger is typed and every ticket is fenced.
THEOREM StoreIsFenced == ASSUME ~StaleAnswers PROVE Spec => []StoreInv
<1>1. Init /\ TypeOK => FencingInv
  <2> SUFFICES ASSUME Init, TypeOK, NEW t \in Ticket
               PROVE  Fenced(session[t], run[t], ticketState[t])
    BY DEF FencingInv
  <2>1. \A g \in Gen : Quiet(run[t][g]) /\ run[t][g].state = "none"
    BY DEF Init, NewRow, Quiet
  <2>2. session[t].state = "none" /\ ticketState[t] = "queued"
    BY DEF Init
  <2> QED BY <2>1, <2>2, QuietFences DEF AllQuiet, Unissued, ClosedIsDelivered
<1>2. TypeOK /\ FencingInv /\ [Next]_vars => FencingInv'
  <2> SUFFICES ASSUME StoreInv, [Next]_vars PROVE FencingInv'
    BY DEF StoreInv
  <2>1. CASE UNCHANGED vars
    BY <2>1, Untouched DEF vars
  <2>2. CASE LoseProofs \/ BeginMaintenance \/ ClearMaintenance
    BY <2>2, Untouched DEF LoseProofs, BeginMaintenance, ClearMaintenance
  <2> QED BY <2>1, <2>2, TicketStepFences, RunStepFences, CallerStepFences DEF Next
<1> QED BY <1>1, <1>2, TypeCorrect, PTL DEF Spec, StoreInv

\* What the invariant says of live runs ...
LEMMA FencedMeansOneLiveRun == StoreInv => OneLiveRun
BY DEF StoreInv, FencingInv, Fenced, OwnerOnly, OneLiveRun, Quiet, Held

\* ... of writes ...
LEMMA FencedMeansOneWriter == StoreInv => OneWriter
BY DEF StoreInv, FencingInv, Fenced, OwnerOnly, OneWriter, Quiet, Held

\* ... and of delivered tickets.
LEMMA FencedMeansDeliveredIsQuiet == StoreInv => DeliveredIsQuiet
<1> SUFFICES ASSUME StoreInv, NEW t \in Ticket, ticketState[t] = "delivered"
             PROVE  session[t].state = "closed" /\ AllQuiet(run[t])
  BY DEF DeliveredIsQuiet, AllQuiet, Quiet
<1> QED BY Sequel, OnlyRunningHolds DEF ClosedIsDelivered

\* A ticket has at most one live run, the current one of its session
\* (OneLiveRun), for any number of tickets, callers, attempts and generations.
THEOREM OneLiveRunHolds == ASSUME ~StaleAnswers PROVE Spec => []OneLiveRun
BY StoreIsFenced, FencedMeansOneLiveRun, PTL

\* Only the run that holds the ticket has a write to GitHub in flight
\* (OneWriter): no outcome, claim or recovery takes a ticket from a writer.
THEOREM OneWriterHolds == ASSUME ~StaleAnswers PROVE Spec => []OneWriter
BY StoreIsFenced, FencedMeansOneWriter, PTL

\* A delivered ticket is closed and has no run that runs, holds a lease or
\* writes (DeliveredIsQuiet), and no late call brings one back.
THEOREM DeliveredIsQuietHolds == ASSUME ~StaleAnswers PROVE Spec => []DeliveredIsQuiet
BY StoreIsFenced, FencedMeansDeliveredIsQuiet, PTL

-----------------------------------------------------------------------------
(* The run ledger implements the ticket fencing it promises: under the     *)
(* mapping of RunStore, every step is one of TicketFencing's or changes    *)
(* none of its variables.                                                  *)
(*                                                                         *)
(* A step changes the rows of one ticket at most (Mapped).  Then it        *)
(* issues the next generation, gives the ticket up (possibly skipping a    *)
(* generation, or closing the session), or keeps owner, generation and     *)
(* candidate; the lemmas below treat one of these each, and each           *)
(* operation cites the one that fits.                                      *)

\* The mapping, and what makes a generation the owner.
Owners == [t \in Ticket |-> IF \E g \in Gen : Held(t, g) THEN session[t].current ELSE 0]
Lasts == [t \in Ticket |-> session[t].gen]
Accepted == [t \in Ticket |-> session[t].accepted]
Closed == [t \in Ticket |-> session[t].state = "closed"]

Holds(s, rs, g) == s.current = g /\ rs[g].state = "running" /\ rs[g].leased

\* No run of the ticket runs.
Idle(rs) == \A g \in Gen : rs[g].state # "running"

\* The abstract step or stutter that a step of the ledger has to be.
AbstractStep == Fencing!Next \/ UNCHANGED Fencing!vars

\* What a step that changes one ticket does under the mapping.
LEMMA Mapped ==
    ASSUME StoreInv, NEW t \in Ticket, NEW s, NEW rs,
           session' = [session EXCEPT ![t] = s], run' = [run EXCEPT ![t] = rs]
    PROVE  /\ (\E g \in Gen : Holds(s, rs, g)) => Owners' = [Owners EXCEPT ![t] = s.current]
           /\ (\A g \in Gen : ~Holds(s, rs, g)) => Owners' = [Owners EXCEPT ![t] = 0]
           /\ Lasts' = [Lasts EXCEPT ![t] = s.gen]
           /\ Accepted' = [Accepted EXCEPT ![t] = s.accepted]
<1> DEFINE o == IF \E g \in Gen : Holds(s, rs, g) THEN s.current ELSE 0
<1>1. \A u \in Ticket : /\ session'[u] = IF u = t THEN s ELSE session[u]
                        /\ run'[u] = IF u = t THEN rs ELSE run[u]
  BY DEF StoreInv, TypeOK
<1>2. ASSUME NEW u \in Ticket
      PROVE  Owners'[u] = IF u = t THEN o ELSE Owners[u]
  <2>1. CASE u = t
    BY <1>1, <2>1 DEF Owners, Holds, Held
  <2>2. CASE u # t
    BY <1>1, <2>2 DEF Owners, Holds, Held
  <2> QED BY <2>1, <2>2
<1>3. Owners' = [Owners EXCEPT ![t] = o]
  BY <1>2 DEF Owners
<1>4. ASSUME NEW u \in Ticket
      PROVE  /\ session'[u].gen = IF u = t THEN s.gen ELSE session[u].gen
             /\ session'[u].accepted = IF u = t THEN s.accepted ELSE session[u].accepted
  BY <1>1
<1>5. Lasts' = [Lasts EXCEPT ![t] = s.gen]
  BY <1>4 DEF Lasts
<1>6. Accepted' = [Accepted EXCEPT ![t] = s.accepted]
  BY <1>4 DEF Accepted
<1> QED BY <1>3, <1>5, <1>6

\* A ticket is closed or stays as open as it was.
LEMMA MappedClosed ==
    ASSUME StoreInv, NEW t \in Ticket, NEW s, session' = [session EXCEPT ![t] = s]
    PROVE  /\ s.state = "closed" => Closed' = [Closed EXCEPT ![t] = TRUE]
           /\ (s.state = "closed" <=> session[t].state = "closed") => Closed' = Closed
<1>1. \A u \in Ticket : session'[u] = IF u = t THEN s ELSE session[u]
  BY DEF StoreInv, TypeOK
<1> QED BY <1>1 DEF Closed

\* The mapped values of a ticket.
LEMMA Entries ==
    ASSUME NEW t \in Ticket
    PROVE  /\ \A g \in Gen : Held(t, g) => Owners[t] = session[t].current
           /\ (\A g \in Gen : ~Held(t, g)) => Owners[t] = 0
           /\ Lasts[t] = session[t].gen
           /\ Accepted[t] = session[t].accepted
           /\ Closed[t] <=> session[t].state = "closed"
BY DEF Owners, Lasts, Accepted, Closed

\* Every action of TicketFencing in terms of the mapping.
LEMMA Abstraction ==
    ASSUME NEW t \in Ticket
    PROVE  /\ Fencing!Issue(t) <=>
                /\ ~Closed[t] /\ Lasts[t] < MaxGen
                /\ Owners' = [Owners EXCEPT ![t] = Lasts[t] + 1]
                /\ Lasts' = [Lasts EXCEPT ![t] = Lasts[t] + 1]
                /\ UNCHANGED <<Accepted, Closed>>
           /\ Fencing!Accept(t) <=>
                /\ Owners[t] # 0 /\ ~Closed[t] /\ Lasts[t] < MaxGen
                /\ Accepted' = [Accepted EXCEPT ![t] = Owners[t]]
                /\ Owners' = [Owners EXCEPT ![t] = Lasts[t] + 1]
                /\ Lasts' = [Lasts EXCEPT ![t] = Lasts[t] + 1]
                /\ UNCHANGED Closed
           /\ Fencing!Retire(t) <=>
                /\ Owners[t] # 0
                /\ Owners' = [Owners EXCEPT ![t] = 0]
                /\ UNCHANGED <<Lasts, Accepted, Closed>>
           /\ Fencing!Skip(t) <=>
                /\ ~Closed[t] /\ Lasts[t] < MaxGen
                /\ Owners' = [Owners EXCEPT ![t] = 0]
                /\ Lasts' = [Lasts EXCEPT ![t] = Lasts[t] + 1]
                /\ UNCHANGED <<Accepted, Closed>>
           /\ Fencing!Close(t) <=>
                /\ ~Closed[t] /\ Accepted[t] # 0
                /\ Closed' = [Closed EXCEPT ![t] = TRUE]
                /\ Owners' = [Owners EXCEPT ![t] = 0]
                /\ UNCHANGED <<Lasts, Accepted>>
BY DEF Fencing!Issue, Fencing!Accept, Fencing!Retire, Fencing!Skip, Fencing!Close,
       Owners, Lasts, Accepted, Closed

\* A change that leaves an entry as it is changes nothing.
LEMMA SameEntry ==
    ASSUME NEW t \in Ticket
    PROVE  /\ Owners = [Owners EXCEPT ![t] = Owners[t]]
           /\ Lasts = [Lasts EXCEPT ![t] = Lasts[t]]
           /\ Accepted = [Accepted EXCEPT ![t] = Accepted[t]]
BY DEF Owners, Lasts, Accepted

LEMMA Stutter ==
    ASSUME UNCHANGED <<Owners, Lasts, Accepted, Closed>>
    PROVE  AbstractStep
BY DEF AbstractStep, Fencing!vars, Owners, Lasts, Accepted, Closed

\* The next generation is issued, perhaps upon the acceptance of the owner.
LEMMA IssueMaps ==
    ASSUME StoreInv, NEW t \in Ticket, NEW s \in SessionRow, NEW rs \in [Gen -> RunRow],
           NEW kind \in {"agent", "delivery"}, NEW revises \in BOOLEAN,
           s.gen = session[t].gen, session[t].state # "closed",
           \/ s.accepted = session[t].accepted
           \/ s.accepted \in Gen /\ Held(t, s.accepted),
           Issue(t, s, rs, kind, revises)
    PROVE  AbstractStep
<1> DEFINE n == s.gen + 1
           row == [NewRow(kind, "running", s.epoch) EXCEPT !.revises = revises]
           s2 == [s EXCEPT !.state = "running", !.current = n, !.gen = n]
           rs2 == [rs EXCEPT ![n] = row]
<1>1. /\ session' = [session EXCEPT ![t] = s2]
      /\ run' = [run EXCEPT ![t] = rs2]
      /\ s.gen < MaxGen /\ n \in Gen
  BY Limits DEF Issue, Gen, SessionRow
<1>2. s2.current = n /\ s2.gen = n /\ s2.state = "running" /\ s2.accepted = s.accepted
  BY DEF SessionRow
<1>3. rs2[n] = row /\ row.state = "running" /\ row.leased
  BY <1>1 DEF NewRow
<1>4. \E g \in Gen : Holds(s2, rs2, g)
  BY <1>1, <1>2, <1>3 DEF Holds
<1> HIDE DEF s2, rs2
<1>5. /\ Owners' = [Owners EXCEPT ![t] = n]
      /\ Lasts' = [Lasts EXCEPT ![t] = n]
      /\ Accepted' = [Accepted EXCEPT ![t] = s.accepted]
  <2>1. Owners' = [Owners EXCEPT ![t] = s2.current]
    BY <1>1, <1>4, Mapped
  <2>2. Lasts' = [Lasts EXCEPT ![t] = s2.gen]
    BY <1>1, Mapped
  <2>3. Accepted' = [Accepted EXCEPT ![t] = s2.accepted]
    BY <1>1, Mapped
  <2> QED BY <1>2, <2>1, <2>2, <2>3
<1>6. UNCHANGED Closed /\ ~Closed[t] /\ Lasts[t] = s.gen
  BY <1>1, <1>2, MappedClosed, Entries
<1>7. CASE s.accepted = session[t].accepted
  <2>1. UNCHANGED Accepted
    BY <1>5, <1>7, Entries, SameEntry
  <2>2. Fencing!Issue(t)
    BY <1>1, <1>5, <1>6, <2>1, Abstraction
  <2> QED BY <2>2 DEF AbstractStep, Fencing!Next
<1>8. CASE s.accepted \in Gen /\ Held(t, s.accepted)
  <2>1. Owners[t] = s.accepted /\ s.accepted # 0
    BY <1>8, Entries DEF Held, Gen
  <2>2. Fencing!Accept(t)
    BY <1>1, <1>5, <1>6, <2>1, Abstraction
  <2> QED BY <2>2 DEF AbstractStep, Fencing!Next
<1> QED BY <1>7, <1>8

\* A step that keeps generation, candidate and session state of the ticket.
LEMMA SameBounds ==
    ASSUME StoreInv, NEW t \in Ticket, NEW s, NEW rs,
           session' = [session EXCEPT ![t] = s], run' = [run EXCEPT ![t] = rs],
           s.gen = session[t].gen, s.accepted = session[t].accepted,
           s.state = session[t].state
    PROVE  UNCHANGED <<Lasts, Accepted, Closed>>
<1>1. Lasts' = [Lasts EXCEPT ![t] = s.gen]
  BY Mapped
<1>2. Accepted' = [Accepted EXCEPT ![t] = s.accepted]
  BY Mapped
<1>3. Closed' = Closed
  BY MappedClosed
<1> QED BY <1>1, <1>2, <1>3, Entries, SameEntry

\* A ticket without a running run is owned by nobody.
LEMMA IdleOwnsNothing ==
    ASSUME NEW s, NEW rs, Idle(rs)
    PROVE  \A g \in Gen : ~Holds(s, rs, g)
BY DEF Idle, Holds

\* The ticket is given up by whoever owned it.
LEMMA RetireMaps ==
    ASSUME StoreInv, NEW t \in Ticket, NEW s, NEW rs,
           session' = [session EXCEPT ![t] = s], run' = [run EXCEPT ![t] = rs],
           Idle(rs), s.gen = session[t].gen,
           s.accepted = session[t].accepted, s.state = session[t].state
    PROVE  AbstractStep
<1>1. Owners' = [Owners EXCEPT ![t] = 0] /\ UNCHANGED <<Lasts, Accepted, Closed>>
  <2>1. Owners' = [Owners EXCEPT ![t] = 0]
    BY IdleOwnsNothing, Mapped
  <2> QED BY <2>1, SameBounds
<1>2. CASE Owners[t] # 0
  BY <1>1, <1>2, Abstraction DEF AbstractStep, Fencing!Next
<1>3. CASE Owners[t] = 0
  BY <1>1, <1>3, SameEntry, Stutter
<1> QED BY <1>2, <1>3

\* The same run, or nobody, owns the ticket after the step.
LEMMA KeepMaps ==
    ASSUME StoreInv, NEW t \in Ticket, NEW s, NEW rs,
           session' = [session EXCEPT ![t] = s], run' = [run EXCEPT ![t] = rs],
           \A g \in Gen : Holds(s, rs, g) <=> Held(t, g),
           s.current = session[t].current, s.gen = session[t].gen,
           s.accepted = session[t].accepted, s.state = session[t].state
    PROVE  AbstractStep
<1>1. ASSUME \E g \in Gen : Holds(s, rs, g) PROVE UNCHANGED Owners
  <2>1. Owners' = [Owners EXCEPT ![t] = s.current]
    BY <1>1, Mapped
  <2>2. Owners[t] = s.current
    BY <1>1, Entries
  <2> QED BY <2>1, <2>2, SameEntry
<1>2. ASSUME \A g \in Gen : ~Holds(s, rs, g) PROVE UNCHANGED Owners
  <2>1. Owners' = [Owners EXCEPT ![t] = 0]
    BY <1>2, Mapped
  <2>2. Owners[t] = 0
    BY <1>2, Entries
  <2> QED BY <2>1, <2>2, SameEntry
<1>3. UNCHANGED Owners
  BY <1>1, <1>2
<1>4. UNCHANGED <<Lasts, Accepted, Closed>>
  BY SameBounds
<1> QED BY <1>3, <1>4, Stutter

\* A change of the columns of one run.
LEMMA ColumnMaps ==
    ASSUME StoreInv, NEW t \in Ticket, NEW g \in Gen, NEW r, KeepsOwner(r, run[t][g]),
           run' = [run EXCEPT ![t][g] = r], UNCHANGED session
    PROVE  AbstractStep
<1> DEFINE rs == [run[t] EXCEPT ![g] = r]
<1>1. /\ session' = [session EXCEPT ![t] = session[t]]
      /\ run' = [run EXCEPT ![t] = rs]
  BY DEF StoreInv, TypeOK
<1>2. \A h \in Gen : rs[h] = IF h = g THEN r ELSE run[t][h]
  BY DEF StoreInv, TypeOK
<1>3. \A h \in Gen : Holds(session[t], rs, h) <=> Held(t, h)
  BY <1>2 DEF KeepsOwner, Holds, Held
<1> HIDE DEF rs
<1> QED BY <1>1, <1>3, KeepMaps

LEMMA UntouchedMaps ==
    ASSUME UNCHANGED <<session, run>>
    PROVE  AbstractStep
BY Stutter DEF Owners, Lasts, Accepted, Closed, Held

\* The end of the run that holds a ticket, or of its current run if that runs,
\* leaves none running.
LEMMA EndsAll ==
    ASSUME StoreInv, NEW t \in Ticket
    PROVE  /\ Idle(Superseded(t))
           /\ \A g \in Gen, state \in Final :
                Held(t, g) => Idle(Finish(t, g, state)) /\ Idle(Fail(t, g))
           /\ (\A g \in Gen : ~Held(t, g)) => Idle(run[t])
<1>1. run[t] \in [Gen -> RunRow]
  BY DEF StoreInv, TypeOK
<1>2. \A g \in Gen : run[t][g].state = "running" => Held(t, g)
  BY FencedMeansOneLiveRun DEF OneLiveRun
<1>3. Idle(Superseded(t))
  <2> SUFFICES ASSUME NEW g \in Gen PROVE Superseded(t)[g].state # "running"
    BY DEF Idle
  <2>1. CASE g = session[t].current /\ run[t][g].state = "running"
    <3>1. Superseded(t)[g] = Ended(run[t][g], "superseded")
      BY <2>1 DEF Superseded
    <3> QED BY <1>1, <3>1, FinishedRow DEF Final
  <2>2. CASE ~(g = session[t].current /\ run[t][g].state = "running")
    <3>1. Superseded(t)[g] = run[t][g]
      BY <2>2 DEF Superseded
    <3> QED BY <1>2, <2>2, <3>1 DEF Held
  <2> QED BY <2>1, <2>2
<1>4. ASSUME NEW g \in Gen, NEW state \in Final, Held(t, g)
      PROVE  Idle(Finish(t, g, state)) /\ Idle(Fail(t, g))
  <2>1. \A h \in Gen : h # g => run[t][h].state # "running"
    BY <1>2, <1>4 DEF Held
  <2>2. /\ Ended(run[t][g], state).state # "running"
        /\ [Ended(run[t][g], "failed") EXCEPT !.failure = TRUE].state # "running"
    BY <1>1, FinishedRow DEF Final
  <2>3. \A h \in Gen :
          /\ Finish(t, g, state)[h] = IF h = g THEN Ended(run[t][g], state) ELSE run[t][h]
          /\ Fail(t, g)[h] = IF h = g THEN [Ended(run[t][g], "failed") EXCEPT !.failure = TRUE]
                                     ELSE run[t][h]
    BY <1>1 DEF Finish, Fail
  <2> QED BY <2>1, <2>2, <2>3 DEF Idle
<1> QED BY <1>2, <1>3, <1>4 DEF Idle

\* An escalation gives the ticket up, whatever became of its runs before.
LEMMA EscalationEnds ==
    ASSUME NEW rs \in [Gen -> RunRow]
    PROVE  Idle([g \in Gen |-> IF rs[g].state = "running"
                               THEN Ended(rs[g], "cancelled")
                               ELSE [rs[g] EXCEPT !.leased = FALSE]])
<1> SUFFICES ASSUME NEW r \in RunRow
             PROVE  (IF r.state = "running" THEN Ended(r, "cancelled")
                     ELSE [r EXCEPT !.leased = FALSE]).state # "running"
  BY DEF Idle
<1>1. CASE r.state = "running"
  BY <1>1, FinishedRow DEF Final
<1>2. CASE r.state # "running"
  BY <1>2 DEF RunRow
<1> QED BY <1>1, <1>2

LEMMA NeedsAttentionMaps ==
    ASSUME StoreInv, NEW t \in Ticket, NEW s \in SessionRow, NEW rs \in [Gen -> RunRow],
           s.gen = session[t].gen, s.accepted = session[t].accepted,
           s.state = session[t].state, NEW also, NeedsAttention(t, s, rs, also)
    PROVE  AbstractStep
<1> DEFINE s2 == [s EXCEPT !.retry = FALSE]
           rs2 == [g \in Gen |-> IF rs[g].state = "running"
                                 THEN Ended(rs[g], "cancelled")
                                 ELSE [rs[g] EXCEPT !.leased = FALSE]]
<1>1. session' = [session EXCEPT ![t] = s2] /\ run' = [run EXCEPT ![t] = rs2]
  BY DEF NeedsAttention
<1>2. /\ s2.gen = session[t].gen /\ s2.accepted = session[t].accepted
      /\ s2.state = session[t].state
  BY DEF SessionRow
<1>3. Idle(rs2)
  BY EscalationEnds
<1> HIDE DEF s2, rs2
<1> QED BY <1>1, <1>2, <1>3, RetireMaps

\* An exhausted ticket skips a generation.
LEMMA SkipMaps ==
    ASSUME StoreInv, NEW t \in Ticket, session[t].gen < MaxGen, session[t].state # "closed",
           NEW rs \in [Gen -> RunRow],
           NEW also, NeedsAttention(t, [session[t] EXCEPT !.gen = session[t].gen + 1], rs, also)
    PROVE  AbstractStep
<1> DEFINE s2 == [[session[t] EXCEPT !.gen = session[t].gen + 1] EXCEPT !.retry = FALSE]
           rs2 == [g \in Gen |-> IF rs[g].state = "running"
                                 THEN Ended(rs[g], "cancelled")
                                 ELSE [rs[g] EXCEPT !.leased = FALSE]]
<1>1. session' = [session EXCEPT ![t] = s2] /\ run' = [run EXCEPT ![t] = rs2]
  BY DEF NeedsAttention
<1>2. /\ s2.gen = session[t].gen + 1 /\ s2.accepted = session[t].accepted
      /\ s2.state = session[t].state
  BY DEF StoreInv, TypeOK, SessionRow
<1>3. Idle(rs2)
  BY EscalationEnds
<1> HIDE DEF s2, rs2
<1>4. Owners' = [Owners EXCEPT ![t] = 0]
  BY <1>1, <1>3, IdleOwnsNothing, Mapped
<1>5. Lasts' = [Lasts EXCEPT ![t] = s2.gen]
  BY <1>1, Mapped
<1>6. Accepted' = [Accepted EXCEPT ![t] = s2.accepted]
  BY <1>1, Mapped
<1>7. UNCHANGED <<Accepted, Closed>> /\ ~Closed[t] /\ Lasts[t] = session[t].gen
  <2>1. UNCHANGED Accepted
    BY <1>2, <1>6, Entries, SameEntry
  <2>2. UNCHANGED Closed
    BY <1>1, <1>2, MappedClosed
  <2> QED BY <2>1, <2>2, Entries
<1>8. Fencing!Skip(t)
  BY <1>2, <1>4, <1>5, <1>7, Abstraction
<1> QED BY <1>8 DEF AbstractStep, Fencing!Next

\* A delivery that ends and returns the ticket to review retires, ...
LEMMA BackToReviewMaps ==
    ASSUME StoreInv, NEW t \in Ticket, NEW g \in Gen, NEW state \in Final, NEW retry,
           Held(t, g), BackToReview(t, g, state, retry)
    PROVE  AbstractStep
<1> DEFINE s == [session[t] EXCEPT !.retry = retry]
<1>1. /\ session' = [session EXCEPT ![t] = s]
      /\ run' = [run EXCEPT ![t] = Finish(t, g, state)]
  BY DEF BackToReview, Retire
<1>2. /\ s.gen = session[t].gen /\ s.accepted = session[t].accepted
      /\ s.state = session[t].state
  BY DEF StoreInv, TypeOK, SessionRow
<1>3. Idle(Finish(t, g, state))
  BY EndsAll
<1> HIDE DEF s
<1> QED BY <1>1, <1>2, <1>3, RetireMaps

\* ... and so does one that fails, whether it is retried or escalates.
LEMMA RetryOrEscalateMaps ==
    ASSUME StoreInv, NEW t \in Ticket, NEW g \in Gen, Held(t, g), NEW mayEscalate,
           RetryOrEscalate(t, g, Fail(t, g), mayEscalate)
    PROVE  AbstractStep
<1> DEFINE s == [session[t] EXCEPT !.retry = TRUE]
<1>1. Fail(t, g) \in [Gen -> RunRow] /\ Idle(Fail(t, g)) /\ session[t] \in SessionRow
  BY FinishType, EndsAll DEF StoreInv, TypeOK, Final
<1>2. CASE session' = [session EXCEPT ![t] = s] /\ run' = [run EXCEPT ![t] = Fail(t, g)]
  <2>1. /\ s.gen = session[t].gen /\ s.accepted = session[t].accepted
        /\ s.state = session[t].state
    BY <1>1 DEF SessionRow
  <2> HIDE DEF s
  <2> QED BY <1>1, <1>2, <2>1, RetireMaps
<1>3. CASE NeedsAttention(t, session[t], Fail(t, g), {})
  BY <1>1, <1>3, NeedsAttentionMaps
<1> QED BY <1>2, <1>3 DEF RetryOrEscalate

LEMMA RecoverExpiredMaps ==
    ASSUME StoreInv, NEW t \in Ticket, NEW g \in Gen, Held(t, g), RecoverExpired(t, g)
    PROVE  AbstractStep
<1>1. session[t] \in SessionRow /\ Finish(t, g, "failed") \in [Gen -> RunRow]
  BY FinishType DEF StoreInv, TypeOK, Final
<1>2. CASE run[t][g].launch # "launched"
  BY <1>2, RetryOrEscalateMaps DEF RecoverExpired
<1>3. CASE run[t][g].launch = "launched"
  BY <1>1, <1>3, NeedsAttentionMaps DEF RecoverExpired
<1> QED BY <1>2, <1>3

\* Claims issue, skip or retire; answers and feedback keep the owner.
LEMMA TicketStepMaps ==
    ASSUME StoreInv, NEW t \in Ticket, TicketStep(t)
    PROVE  AbstractStep
<1>1. /\ session[t] \in SessionRow /\ run[t] \in [Gen -> RunRow]
      /\ Superseded(t) \in [Gen -> RunRow]
      /\ ReviewFailures(t) \in 0..MaxAttempts
      /\ Increment(session[t].failures) \in 0..MaxAttempts
  BY SupersededType, IncrementType DEF StoreInv, TypeOK, SessionRow, ReviewFailures
<1> DEFINE failed == [session[t] EXCEPT !.failures = Increment(session[t].failures)]
           reviewed == [session[t] EXCEPT !.failures = ReviewFailures(t)]
           claimed == [session[t] EXCEPT !.retry = FALSE]
           left == IF LapsedAgent(t) THEN Superseded(t) ELSE run[t]
           same(s) == /\ s \in SessionRow /\ s.gen = session[t].gen
                      /\ s.accepted = session[t].accepted /\ s.state = session[t].state
<1>2. same(failed) /\ same(reviewed) /\ same(claimed)
  BY <1>1 DEF SessionRow
<1>3. left \in [Gen -> RunRow]
  BY <1>1
<1>4. \A g \in Gen : Finish(t, g, "failed") \in [Gen -> RunRow]
  BY FinishType DEF StoreInv, Final
<1> HIDE DEF failed, reviewed, claimed, left
<1>5. CASE ClaimReady(t)
  BY <1>1, <1>5, IssueMaps DEF ClaimReady, Claimable
<1>6. CASE ClaimReadyReleasesFeedback(t)
  <2>1. /\ session' = [session EXCEPT ![t] = session[t]]
        /\ run' = [run EXCEPT ![t] = Superseded(t)]
    BY <1>6 DEF ClaimReadyReleasesFeedback, StoreInv, TypeOK
  <2> QED BY <2>1, EndsAll, RetireMaps
<1>7. CASE ClaimReadyExhausted(t)
  BY <1>1, <1>7, SkipMaps DEF ClaimReadyExhausted, Claimable
<1>8. CASE ClaimReadyAuthenticationLost(t)
  <2>1. CASE \E g \in Gen : Held(t, g)
    <3>1. NeedsAttention(t, failed, Finish(t, session[t].current, "failed"), {})
      BY <1>8, <2>1 DEF ClaimReadyAuthenticationLost, failed
    <3>2. session[t].current \in Gen
      BY <2>1 DEF Held
    <3> QED BY <1>2, <1>4, <3>1, <3>2, NeedsAttentionMaps
  <2>2. CASE ~\E g \in Gen : Held(t, g)
    BY <1>1, <1>8, <2>2, NeedsAttentionMaps DEF ClaimReadyAuthenticationLost
  <2> QED BY <2>1, <2>2
<1>9. CASE ClaimPendingDelivery(t)
  <2>1. Issue(t, claimed, run[t], "delivery", FALSE) /\ session[t].state # "closed"
    BY <1>9 DEF ClaimPendingDelivery, claimed
  <2> QED BY <1>1, <1>2, <2>1, IssueMaps
<1>10. CASE ClaimQueuedReview(t)
  <2>1. Issue(t, reviewed, left, "agent", TRUE) /\ session[t].state # "closed"
    BY <1>10 DEF ClaimQueuedReview, ReviewClaimable, reviewed, left
  <2> QED BY <1>2, <1>3, <2>1, IssueMaps
<1>11. CASE ClaimQueuedReviewExhausted(t)
  <2>1. NeedsAttention(t, reviewed, left, {})
    BY <1>11 DEF ClaimQueuedReviewExhausted, reviewed, left
  <2> QED BY <1>2, <1>3, <2>1, NeedsAttentionMaps
<1>12. CASE ClaimQueuedReviewAuthenticationLost(t)
  <2>1. CASE LapsedAgent(t)
    <3>1. NeedsAttention(t, reviewed, Finish(t, session[t].current, "failed"), {})
      BY <1>12, <2>1 DEF ClaimQueuedReviewAuthenticationLost, reviewed
    <3>2. session[t].current \in Gen
      BY <2>1 DEF LapsedAgent, Held
    <3> QED BY <1>2, <1>4, <3>1, <3>2, NeedsAttentionMaps
  <2>2. CASE ~LapsedAgent(t)
    <3>1. NeedsAttention(t, reviewed, run[t], {})
      BY <1>12, <2>2 DEF ClaimQueuedReviewAuthenticationLost, reviewed
    <3> QED BY <1>1, <1>2, <3>1, NeedsAttentionMaps
  <2> QED BY <2>1, <2>2
\* An answer writes nothing that the mapping reads.
<1>13. ASSUME NEW s, session' = [session EXCEPT ![t] = s], UNCHANGED run,
              s.current = session[t].current, s.gen = session[t].gen,
              s.accepted = session[t].accepted, s.state = session[t].state
       PROVE  AbstractStep
  <2>1. run' = [run EXCEPT ![t] = run[t]]
    BY <1>13 DEF StoreInv, TypeOK
  <2>2. \A g \in Gen : Holds(s, run[t], g) <=> Held(t, g)
    BY <1>13 DEF Holds, Held
  <2> QED BY <1>13, <2>1, <2>2, KeepMaps
<1>14. CASE AnswerNeedsAttention(t) \/ RetryPollFailure(t)
  <2> DEFINE resumed == [session[t] EXCEPT !.failures = 0, !.retry = TRUE]
             renewed == [session[t] EXCEPT !.failures = 0, !.epoch = session[t].epoch + 1]
  <2>1. \/ session' = [session EXCEPT ![t] = resumed]
        \/ session' = [session EXCEPT ![t] = renewed]
        \/ session' = session
    BY <1>14 DEF AnswerNeedsAttention, RetryPollFailure, RecoverTicket
  <2>2. /\ resumed.current = session[t].current /\ resumed.gen = session[t].gen
        /\ resumed.accepted = session[t].accepted /\ resumed.state = session[t].state
        /\ renewed.current = session[t].current /\ renewed.gen = session[t].gen
        /\ renewed.accepted = session[t].accepted /\ renewed.state = session[t].state
    BY <1>1 DEF SessionRow
  <2>3. UNCHANGED run
    BY <1>14 DEF AnswerNeedsAttention, RetryPollFailure, RecoverTicket
  <2> HIDE DEF resumed, renewed
  <2> QED BY <1>13, <2>1, <2>2, <2>3, UntouchedMaps
<1>15. CASE AnswerQualityGate(t)
  <2> DEFINE s == [session[t] EXCEPT !.retry = TRUE]
  <2>1. session' = [session EXCEPT ![t] = s] /\ UNCHANGED run
    BY <1>15 DEF AnswerQualityGate
  <2>2. /\ s.current = session[t].current /\ s.gen = session[t].gen
        /\ s.accepted = session[t].accepted /\ s.state = session[t].state
    BY <1>1 DEF SessionRow
  <2> HIDE DEF s
  <2> QED BY <1>13, <2>1, <2>2
<1>16. CASE RecordReviewFeedback(t) \/ BackoffElapses(t)
  BY <1>16, UntouchedMaps DEF RecordReviewFeedback, BackoffElapses
<1> QED BY <1>5, <1>6, <1>7, <1>8, <1>9, <1>10, <1>11, <1>12, <1>14, <1>15, <1>16 DEF TicketStep

\* A run accepts its candidate, ends, or changes a column.
LEMMA RunStepMaps ==
    ASSUME StoreInv, NEW t \in Ticket, NEW g \in Gen, RunStep(t, g)
    PROVE  AbstractStep
<1>1. /\ session[t] \in SessionRow /\ run[t] \in [Gen -> RunRow] /\ run[t][g] \in RunRow
      /\ Increment(session[t].failures) \in 0..MaxAttempts
  BY IncrementType DEF StoreInv, TypeOK, SessionRow
<1> DEFINE failed == [session[t] EXCEPT !.failures = Increment(session[t].failures)]
           row == run[t][g]
<1>2. /\ failed \in SessionRow /\ failed.gen = session[t].gen
      /\ failed.accepted = session[t].accepted /\ failed.state = session[t].state
  BY <1>1 DEF SessionRow
<1>3. \A state \in Final : Finish(t, g, state) \in [Gen -> RunRow] /\ Fail(t, g) \in [Gen -> RunRow]
  BY FinishType DEF StoreInv
<1> HIDE DEF failed
<1>4. ASSUME NEW r, KeepsOwner(r, row), run' = [run EXCEPT ![t][g] = r], UNCHANGED session
      PROVE  AbstractStep
  BY <1>4, ColumnMaps
<1>5. CASE ReservePrelaunch(t, g)
  BY <1>1, <1>4, <1>5, ColumnKeeps DEF ReservePrelaunch, Keeps
<1>6. CASE AcquireCreateFence(t, g)
  BY <1>1, <1>4, <1>6, ColumnKeeps DEF AcquireCreateFence, Keeps
<1>7. CASE ReleaseCreateFence(t, g)
  BY <1>1, <1>4, <1>7, ColumnKeeps DEF ReleaseCreateFence, Keeps
<1>8. CASE ReserveLaunch(t, g)
  BY <1>1, <1>4, <1>8, ColumnKeeps DEF ReserveLaunch, Keeps
<1>9. CASE RecordWorkerContainer(t, g)
  BY <1>1, <1>4, <1>9, ColumnKeeps DEF RecordWorkerContainer, Keeps
<1>10. CASE AcceptCandidate(t, g)
  <2> DEFINE s == [session[t] EXCEPT !.accepted = g, !.failures = 0, !.epoch = session[t].epoch + 1]
  <2>1. /\ Held(t, g) /\ session[t].state # "closed"
        /\ Issue(t, s, Finish(t, g, "succeeded"), "delivery", FALSE)
    BY <1>10 DEF AcceptCandidate, Owned
  <2>2. s \in SessionRow
    BY <1>1, <1>10, AcceptedType DEF AcceptCandidate
  <2>3. s.gen = session[t].gen /\ s.accepted = g
    BY <1>1 DEF SessionRow
  <2>4. Finish(t, g, "succeeded") \in [Gen -> RunRow]
    BY <1>3 DEF Final
  <2> HIDE DEF s
  <2> QED BY <2>1, <2>2, <2>3, <2>4, IssueMaps
<1>11. ASSUME NEW infrastructure \in BOOLEAN, RecordRunFailure(t, g, infrastructure)
       PROVE  AbstractStep
  <2>1. session' = [session EXCEPT ![t] = failed] /\ run' = [run EXCEPT ![t] = Fail(t, g)]
    BY <1>11 DEF RecordRunFailure, failed
  <2>2. Idle(Fail(t, g))
    BY <1>11, EndsAll DEF RecordRunFailure, Owned, Final
  <2> QED BY <1>2, <2>1, <2>2, RetireMaps
<1>12. CASE RecordRunAuthenticationFailure(t, g)
  <2>1. NeedsAttention(t, failed, Fail(t, g), {}) /\ Fail(t, g) \in [Gen -> RunRow]
    BY <1>3, <1>12 DEF RecordRunAuthenticationFailure, failed, Final
  <2> QED BY <1>2, <2>1, NeedsAttentionMaps
<1>13. CASE CompleteDelivery(t, g)
  BY <1>13, BackToReviewMaps DEF CompleteDelivery, Delivering, Final
<1>14. CASE PauseForQualityGate(t, g)
  <2>1. /\ session' = [session EXCEPT ![t] = session[t]]
        /\ run' = [run EXCEPT ![t] = Finish(t, g, "succeeded")]
    BY <1>14 DEF PauseForQualityGate, Retire, StoreInv, TypeOK
  <2>2. Idle(Finish(t, g, "succeeded"))
    BY <1>14, EndsAll DEF PauseForQualityGate, Delivering, Final
  <2> QED BY <2>1, <2>2, RetireMaps
<1>15. CASE BeginWrite(t, g)
  BY <1>1, <1>4, <1>15, ColumnKeeps DEF BeginWrite
<1>16. CASE EndWrite(t, g)
  BY <1>1, <1>4, <1>16, ColumnKeeps DEF EndWrite, Keeps
<1>17. CASE RecoverUnlaunchedDelivery(t, g)
  BY <1>17, RecoverExpiredMaps DEF RecoverUnlaunchedDelivery, Delivering
<1>18. CASE RecoverAuthenticationFailure(t, g)
  <2>1. NeedsAttention(t, failed, Finish(t, g, "failed"), {}) /\ Finish(t, g, "failed") \in [Gen -> RunRow]
    BY <1>3, <1>18 DEF RecoverAuthenticationFailure, failed, Final
  <2> QED BY <1>2, <2>1, NeedsAttentionMaps
<1>19. CASE Lapse(t, g)
  BY <1>1, <1>4, <1>19, ColumnKeeps DEF Lapse, Keeps
<1> QED BY <1>5, <1>6, <1>7, <1>8, <1>9, <1>10, <1>11, <1>12, <1>13, <1>14, <1>15, <1>16,
           <1>17, <1>18, <1>19 DEF RunStep

\* The merge of the accepted candidate closes the ticket; the other steps that
\* need an isolation proof retire its run.
LEMMA CallerStepMaps ==
    ASSUME StoreInv, NEW c \in Caller, NEW t \in Ticket, CallerStep(c, t)
    PROVE  AbstractStep
<1>1. session[t] \in SessionRow /\ run[t] \in [Gen -> RunRow]
  BY DEF StoreInv, TypeOK
<1>2. CASE FenceIsolation(c, t)
  <2> DEFINE g == session[t].current
             r == [run[t][g] EXCEPT !.isolating = TRUE]
  <2>1. g \in Gen /\ run[t][g] \in RunRow
    BY <1>1, <1>2 DEF FenceIsolation, IsTarget, Held
  <2>2. KeepsOwner(r, run[t][g])
    BY <2>1, ColumnKeeps DEF Keeps
  <2> QED BY <1>2, <2>1, <2>2, ColumnMaps DEF FenceIsolation
<1>3. CASE AcknowledgeIsolation(c, t)
  <2> DEFINE g == session[t].current
             r == [run[t][g] EXCEPT !.create = IF run[t][g].create = "pending" THEN "done"
                                               ELSE run[t][g].create]
  <2>1. g \in Gen /\ run[t][g] \in RunRow
    BY <1>1, <1>3 DEF AcknowledgeIsolation, IsTarget, Held
  <2>2. KeepsOwner(r, run[t][g])
    BY <2>1, ColumnKeeps DEF Keeps
  <2> QED BY <1>3, <2>1, <2>2, ColumnMaps DEF AcknowledgeIsolation
<1>4. CASE MarkDelivered(c, t)
  <2> DEFINE s == [session[t] EXCEPT !.state = "closed"]
             rs == [g \in Gen |-> IF g = session[t].current /\ run[t][g].state = "running"
                                  THEN Ended(run[t][g], "succeeded") ELSE run[t][g]]
  <2>1. session' = [session EXCEPT ![t] = s] /\ run' = [run EXCEPT ![t] = rs]
    BY <1>4 DEF MarkDelivered
  <2>2. s.gen = session[t].gen /\ s.accepted = session[t].accepted /\ s.state = "closed"
    BY <1>1 DEF SessionRow
  <2>3. Idle(rs)
    <3> SUFFICES ASSUME NEW g \in Gen PROVE rs[g].state # "running"
      BY DEF Idle
    <3>1. CASE g = session[t].current /\ run[t][g].state = "running"
      BY <1>1, <3>1, FinishedRow DEF Final
    <3>2. CASE ~(g = session[t].current /\ run[t][g].state = "running")
      BY <3>2, FencedMeansOneLiveRun DEF OneLiveRun, Held
    <3> QED BY <3>1, <3>2
  <2> HIDE DEF s, rs
  <2>4. Owners' = [Owners EXCEPT ![t] = 0]
    BY <2>1, <2>3, IdleOwnsNothing, Mapped
  <2>5. UNCHANGED Lasts
    <3>1. Lasts' = [Lasts EXCEPT ![t] = s.gen]
      BY <2>1, Mapped
    <3> QED BY <2>2, <3>1, Entries, SameEntry
  <2>6. UNCHANGED Accepted
    <3>1. Accepted' = [Accepted EXCEPT ![t] = s.accepted]
      BY <2>1, Mapped
    <3> QED BY <2>2, <3>1, Entries, SameEntry
  <2>7. Closed' = [Closed EXCEPT ![t] = TRUE]
    BY <2>1, <2>2, MappedClosed
  <2>8. ~Closed[t] /\ Accepted[t] # 0
    BY <1>4, Sequel, Entries DEF MarkDelivered, ClosedIsDelivered
  <2>9. Fencing!Close(t)
    BY <2>4, <2>5, <2>6, <2>7, <2>8, Abstraction
  <2> QED BY <2>9 DEF AbstractStep, Fencing!Next
<1>5. CASE Escalate(c, t)
  BY <1>1, <1>5, NeedsAttentionMaps DEF Escalate
<1>6. ASSUME NEW g \in Gen, FinishLapsedDelivery(c, t, g) \/ FailDelivery(c, t, g)
      PROVE  AbstractStep
  <2>1. NeedsAttention(t, session[t], Finish(t, g, "failed"), {})
    BY <1>6 DEF FinishLapsedDelivery, FailDelivery
  <2>2. Finish(t, g, "failed") \in [Gen -> RunRow]
    BY FinishType DEF StoreInv, Final
  <2> QED BY <1>1, <2>1, <2>2, NeedsAttentionMaps
<1>7. ASSUME NEW g \in Gen, NEW isolated \in BOOLEAN, NEW infrastructure \in BOOLEAN,
             \/ FailDeliveryWithClass(c, t, g, isolated, infrastructure)
             \/ FailDeliveryLaunch(c, t, g, isolated, infrastructure)
      PROVE  AbstractStep
  <2>1. Held(t, g)
    BY <1>7 DEF FailDeliveryWithClass, FailDeliveryLaunch, Delivering
  <2>2. PICK mayEscalate : RetryOrEscalate(t, g, Fail(t, g), mayEscalate)
    BY <1>7 DEF FailDeliveryWithClass, FailDeliveryLaunch
  <2> QED BY <2>1, <2>2, RetryOrEscalateMaps
<1>8. ASSUME NEW g \in Gen, DeferDelivery(c, t, g) \/ RevalidateDelivery(c, t, g)
      PROVE  AbstractStep
  <2>1. Held(t, g)
    BY <1>8 DEF DeferDelivery, RevalidateDelivery, Delivering
  <2>2. PICK retry : BackToReview(t, g, "superseded", retry)
    BY <1>8 DEF DeferDelivery, RevalidateDelivery
  <2> QED BY <2>1, <2>2, BackToReviewMaps DEF Final
<1>9. ASSUME NEW g \in Gen, ReconcileMissingRun(c, t, g)
      PROVE  AbstractStep
  <2>1. Held(t, g)
    BY <1>9 DEF ReconcileMissingRun
  <2>2. CASE RecoverExpired(t, g)
    BY <2>1, <2>2, RecoverExpiredMaps
  <2>3. CASE Retire(t, g, "superseded") /\ UNCHANGED session
    <3>1. /\ session' = [session EXCEPT ![t] = session[t]]
          /\ run' = [run EXCEPT ![t] = Finish(t, g, "superseded")]
      BY <2>3 DEF Retire, StoreInv, TypeOK
    <3>2. Idle(Finish(t, g, "superseded"))
      BY <2>1, EndsAll DEF Final
    <3> QED BY <3>1, <3>2, RetireMaps
  <2> QED BY <1>9, <2>2, <2>3 DEF ReconcileMissingRun
<1> QED BY <1>2, <1>3, <1>4, <1>5, <1>6, <1>7, <1>8, <1>9 DEF CallerStep

\* The run ledger implements the ticket fencing (ImplementsTicketFencing): a
\* generation is issued at most once and only upwards, only the owner of a
\* ticket has its candidate accepted, and a closed ticket issues nothing.
THEOREM FencingIsImplemented == ASSUME ~StaleAnswers PROVE Spec => ImplementsTicketFencing
<1>1. Init => Fencing!Init
  <2> SUFFICES ASSUME Init PROVE Fencing!Init
    OBVIOUS
  <2>1. \A t \in Ticket : /\ session[t].gen = 0 /\ session[t].accepted = 0
                          /\ session[t].state = "none"
                          /\ \A g \in Gen : run[t][g].state = "none"
    BY DEF Init, NewRow
  <2>2. \A t \in Ticket, g \in Gen : ~Held(t, g)
    BY <2>1 DEF Held
  <2> QED BY <2>1, <2>2 DEF Fencing!Init
<1>2. StoreInv /\ [Next]_vars => [Fencing!Next]_(Fencing!vars)
  <2> SUFFICES ASSUME StoreInv, [Next]_vars PROVE AbstractStep
    BY DEF AbstractStep
  <2>1. CASE UNCHANGED vars
    BY <2>1, UntouchedMaps DEF vars
  <2>2. CASE LoseProofs \/ BeginMaintenance \/ ClearMaintenance
    BY <2>2, UntouchedMaps DEF LoseProofs, BeginMaintenance, ClearMaintenance
  <2> QED BY <2>1, <2>2, TicketStepMaps, RunStepMaps, CallerStepMaps DEF Next
<1> QED BY <1>1, <1>2, StoreIsFenced, PTL DEF Spec, ImplementsTicketFencing, Fencing!Spec

=============================================================================
