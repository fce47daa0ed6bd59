------------------------------ MODULE RunStore ------------------------------
(***************************************************************************)
(* The Control Plane's durable run ledger: ticket_sessions, worker_runs,   *)
(* run_leases, ticket_runtime, review feedback, infrastructure backoffs,   *)
(* workflow questions and the maintenance fence of one active Delivery     *)
(* Plan, with one action per store operation (internal/store).             *)
(*                                                                         *)
(* Every operation is one SQLite write transaction, so it is one action.   *)
(* The scheduler, the goroutine of each run, the poller, the Gateway and   *)
(* the command line all call these operations, some from processes of      *)
(* their own, in an order the store does not choose: Next lets them        *)
(* interleave freely.  WorkerRuns.tla adds the callers.                    *)
(*                                                                         *)
(* A run is named by its ticket and its lease generation, which is also    *)
(* its fencing token: every operation of a caller presents both, and the   *)
(* run ID and lease token of the code are in one-to-one correspondence.    *)
(* Time is abstracted to two facts, "the lease lies in the past" (lapsed)  *)
(* and "the retry time lies in the future" (backoff).                      *)
(***************************************************************************)
EXTENDS Integers, FiniteSets

CONSTANTS
    Ticket,             \* the Delivery Tickets of the plan
    Blockers,           \* plan_dependencies: the tickets that must be delivered first
    Caller,             \* whoever can hold an isolation proof
    MaxParallel,        \* max-parallel-runs
    MaxAttempts,        \* max worker attempts, for agents and for deliveries
    MaxGen,             \* bound: lease generations per ticket
    MaxEpoch,           \* bound: recovery epochs per ticket
    StaleAnswers,       \* operators also answer questions of tickets that moved on
    RecoveryAuthFails,  \* recovery may find the session's credentials unusable
    HostPressure        \* polls may run while host pressure has paused recovery

ASSUME TicketAssumption   == Blockers \in [Ticket -> SUBSET Ticket]
ASSUME LimitAssumption    == MaxParallel \in Nat \ {0} /\ MaxAttempts \in Nat \ {0}
ASSUME BoundAssumption    == MaxGen \in Nat /\ MaxEpoch \in Nat
ASSUME ToggleAssumption   == {StaleAnswers, RecoveryAuthFails, HostPressure} \subseteq BOOLEAN

Gen == 1..MaxGen

VARIABLES
    session,      \* ticket_sessions, by ticket
    run,          \* worker_runs with their leases, by ticket and generation
    ticketState,  \* ticket_runtime.state ("delivered" when delivered = 1)
    queued,       \* an unclaimed review batch or revalidation is waiting
    backoff,      \* infrastructure_retry_backoffs.retry_at lies in the future
    questions,    \* open workflow questions, by ticket
    maintenance,  \* a platform_maintenance_fences row is present
    proof         \* the callers holding an isolation proof for the current run

vars == <<session, run, ticketState, queued, backoff, questions, maintenance, proof>>

-----------------------------------------------------------------------------
(* Rows.                                                                   *)

SessionRow ==
    [state    : {"none", "running", "closed"},
     current  : 0..MaxGen,        \* current_run_id, 0 when empty
     gen      : 0..MaxGen,        \* current_lease_generation
     epoch    : 0..MaxEpoch,      \* recovery_epoch
     accepted : 0..MaxGen,        \* accepted_candidate_run_id, 0 when empty
     retry    : BOOLEAN,          \* delivery_retry_pending
     failures : 0..MaxAttempts]   \* consecutive_failures, saturated at the limit

RunRow ==
    [kind      : {"agent", "delivery"},
     state     : {"none", "running", "succeeded", "failed", "superseded", "cancelled"},
     epoch     : 0..MaxEpoch,
     launch    : {"ready", "reserved", "launched"},  \* launch_state with prelaunch_reserved
     create    : {"none", "pending", "done"},        \* container_create_generation and _pending
     isolating : BOOLEAN,         \* isolation_pending
     leased    : BOOLEAN,         \* the lease is active
     lapsed    : BOOLEAN,         \* expires_at lies in the past
     reported  : BOOLEAN,         \* a worker_container_results row exists
     writing   : BOOLEAN,         \* a delivery_write_fences row exists
     revises   : BOOLEAN,         \* a review batch is claimed by the run
     failure   : BOOLEAN]         \* a run_failures row exists

NewRow(kind, state, epoch) ==
    [kind |-> kind, state |-> state, epoch |-> epoch, launch |-> "ready",
     create |-> "none", isolating |-> FALSE, leased |-> state = "running",
     lapsed |-> FALSE, reported |-> FALSE, writing |-> FALSE, revises |-> FALSE,
     failure |-> FALSE]

\* Mutation: the state of the lease is written to the run.
EndedAsExpired(r, state) == [r EXCEPT !.state = "expired", !.leased = FALSE]

\* A run that leaves "running" loses its lease.  No statement acts on its
\* container columns any more (only a late release of the create fence still
\* finds them, and its run cannot be started), so they return to the defaults.
Ended(r, state) == [NewRow(r.kind, state, r.epoch) EXCEPT !.failure = r.failure,
                                                          !.writing = r.writing]

Init ==
    /\ session = [t \in Ticket |->
         [state |-> "none", current |-> 0, gen |-> 0, epoch |-> 0,
          accepted |-> 0, retry |-> FALSE, failures |-> 0]]
    /\ run = [t \in Ticket |-> [g \in Gen |-> NewRow("agent", "none", 0)]]
    /\ ticketState = [t \in Ticket |-> "queued"]
    /\ queued = [t \in Ticket |-> FALSE]
    /\ backoff = [t \in Ticket |-> FALSE]
    /\ questions = [t \in Ticket |-> {}]
    /\ maintenance = FALSE
    /\ proof = [t \in Ticket |-> {}]

-----------------------------------------------------------------------------
(* What the transactions read.                                             *)

\* The caller's token still names the current run and its active lease.
Held(t, g) == /\ session[t].current = g
              /\ run[t][g].state = "running"
              /\ run[t][g].leased

Owned(t, g) == Held(t, g) /\ ~run[t][g].lapsed

LiveRuns == {tg \in Ticket \X Gen :
               LET r == run[tg[1]][tg[2]]
               IN  r.state = "running" /\ r.leased /\ ~r.lapsed}

HasCapacity == Cardinality(LiveRuns) < MaxParallel

AgentAttempts(t, rs) ==
    Cardinality({g \in Gen : /\ rs[g].state # "none"
                             /\ rs[g].kind = "agent"
                             /\ rs[g].epoch = session[t].epoch})

DeliveryFailures(rs, epoch) ==
    Cardinality({g \in Gen : /\ rs[g].kind = "delivery"
                             /\ rs[g].failure
                             /\ rs[g].epoch = epoch})

\* The current run may have a container.
IsTarget(t) == \E g \in Gen : Held(t, g) /\ run[t][g].launch # "ready"

WriteFenced(t) == \E g \in Gen : session[t].current = g /\ run[t][g].writing

\* Mutation: a begun isolation is taken for a finished one.
FencedOnly(c, t) ==
    ~WriteFenced(t) /\ (IsTarget(t) => \E g \in Gen : session[t].current = g /\ run[t][g].isolating)

\* requireWorkerIsolationTx, with the proofs caller c has gathered.
Isolated(c, t) ==
    /\ ~WriteFenced(t)
    /\ IsTarget(t) => /\ c \in proof[t]
                      /\ \E g \in Gen : /\ session[t].current = g
                                        /\ run[t][g].isolating
                                        /\ run[t][g].create # "pending"

\* Mutation: a blocker under review counts as done.
ReadyAfterReview(t) ==
    /\ ticketState[t] \in {"queued", "running"}
    /\ \A b \in Blockers[t] : ticketState[b] \in {"waiting_review", "delivered"}
    /\ \A g \in Gen : ~Owned(t, g)

\* ReadyFrontier: undelivered, unowned, every blocker delivered.
Ready(t) == /\ ticketState[t] \in {"queued", "running"}
            /\ \A b \in Blockers[t] : ticketState[b] = "delivered"
            /\ \A g \in Gen : ~Owned(t, g)

-----------------------------------------------------------------------------
(* What the transactions write.                                            *)

SetTicket(t, state) ==
    ticketState' = [ticketState EXCEPT
                      ![t] = IF @ = "delivered" THEN @ ELSE state]

DropProofs(t) == proof' = [proof EXCEPT ![t] = {}]

Increment(n) == IF n < MaxAttempts THEN n + 1 ELSE n

\* Mutation: the claim leaves the lapsed run of the session alone.
NotSuperseded(t) == run[t]

\* The runs of t once its current run, if still running, is superseded.
Superseded(t) ==
    [g \in Gen |-> IF g = session[t].current /\ run[t][g].state = "running"
                   THEN Ended(run[t][g], "superseded")
                   ELSE run[t][g]]

CurrentRevises(t) == \E g \in Gen : session[t].current = g /\ run[t][g].revises

\* Mutation: the generation is counted from the current run, not the session.
IssueAfterCurrent(t, s, rs, kind, revises) ==
    LET g == s.current + 1
    IN  /\ g <= MaxGen
        /\ session' = [session EXCEPT ![t] =
             [s EXCEPT !.state = "running", !.current = g, !.gen = g]]
        /\ run' = [run EXCEPT ![t] =
             [rs EXCEPT ![g] = [NewRow(kind, "running", s.epoch) EXCEPT !.revises = revises]]]
        /\ SetTicket(t, "running")
        /\ DropProofs(t)

\* claimDeliveryControllerTx and its agent counterparts: the next generation
\* becomes the current run.  s and rs are the session and its runs so far.
Issue(t, s, rs, kind, revises) ==
    LET g == s.gen + 1
    IN  /\ g <= MaxGen
        /\ session' = [session EXCEPT ![t] =
             [s EXCEPT !.state = "running", !.current = g, !.gen = g]]
        /\ run' = [run EXCEPT ![t] =
             [rs EXCEPT ![g] = [NewRow(kind, "running", s.epoch) EXCEPT !.revises = revises]]]
        /\ SetTicket(t, "running")
        /\ DropProofs(t)

\* Mutation: the cancellation does not ask for running runs.
NeedsAttentionOfAllRuns(t, s, rs, also) ==
    /\ session' = [session EXCEPT ![t] = [s EXCEPT !.retry = FALSE]]
    /\ run' = [run EXCEPT ![t] =
         [g \in Gen |-> IF rs[g].state # "none" THEN Ended(rs[g], "cancelled") ELSE rs[g]]]
    /\ queued' = [queued EXCEPT ![t] =
         @ \/ \E g \in Gen : run[t][g].state = "running" /\ run[t][g].revises]
    /\ SetTicket(t, "needs_attention")
    /\ questions' = [questions EXCEPT ![t] = @ \cup {"needs_attention"} \cup also]
    /\ DropProofs(t)

\* markTicketNeedsAttentionTx after the isolation check: every run of the
\* session is cancelled, every lease revoked, and one question is open,
\* besides those of the kinds in also.
NeedsAttention(t, s, rs, also) ==
    /\ session' = [session EXCEPT ![t] = [s EXCEPT !.retry = FALSE]]
    /\ run' = [run EXCEPT ![t] =
         [g \in Gen |-> IF rs[g].state = "running"
                        THEN Ended(rs[g], "cancelled")
                        ELSE [rs[g] EXCEPT !.leased = FALSE]]]
    /\ queued' = [queued EXCEPT ![t] =
         @ \/ \E g \in Gen : run[t][g].state = "running" /\ run[t][g].revises]
    /\ SetTicket(t, "needs_attention")
    /\ questions' = [questions EXCEPT ![t] = @ \cup {"needs_attention"} \cup also]
    /\ DropProofs(t)

\* The runs of t after run g leaves "running" in the given state.
Finish(t, g, state) == [run[t] EXCEPT ![g] = Ended(@, state)]

\* The runs of t after run g fails and a run_failures row is recorded.
Fail(t, g) == [run[t] EXCEPT ![g] = [Ended(@, "failed") EXCEPT !.failure = TRUE]]

Retire(t, g, state) ==
    /\ run' = [run EXCEPT ![t] = Finish(t, g, state)]
    /\ DropProofs(t)

-----------------------------------------------------------------------------
(* Dispatch: ClaimReady.                                                   *)

\* The current run, if still running, is an agent whose container was never
\* prepared, so that its lapsed lease may simply be superseded.
Unattended(t) ==
    \A g \in Gen : session[t].current = g /\ run[t][g].state = "running" =>
        run[t][g].kind = "agent" /\ run[t][g].launch = "ready"

Claimable(t) == /\ ~maintenance
                /\ Ready(t)
                /\ HasCapacity
                /\ session[t].state # "closed"
                /\ Unattended(t)

ClaimReady(t) ==
    /\ Claimable(t)
    /\ ~CurrentRevises(t)
    /\ ~backoff[t]
    /\ AgentAttempts(t, Superseded(t)) < MaxAttempts
    /\ Issue(t, session[t], Superseded(t), "agent", FALSE)
    /\ UNCHANGED <<queued, backoff, questions, maintenance>>

\* A superseded revision run gives its review batch back instead.
ClaimReadyReleasesFeedback(t) ==
    /\ Claimable(t)
    /\ CurrentRevises(t)
    /\ run' = [run EXCEPT ![t] = Superseded(t)]
    /\ queued' = [queued EXCEPT ![t] = TRUE]
    /\ SetTicket(t, "waiting_review")
    /\ DropProofs(t)
    /\ UNCHANGED <<session, backoff, questions, maintenance>>

\* The epoch's attempts are used up: the ticket escalates, and the lease
\* generation has moved on although no run was issued for it.
ClaimReadyExhausted(t) ==
    /\ Claimable(t)
    /\ ~CurrentRevises(t)
    /\ ~backoff[t]
    /\ AgentAttempts(t, Superseded(t)) >= MaxAttempts
    /\ session[t].gen < MaxGen
    /\ NeedsAttention(t, [session[t] EXCEPT !.gen = @ + 1], Superseded(t), {})
    /\ UNCHANGED <<backoff, maintenance>>

\* The credentials of an established session cannot be provisioned.
ClaimReadyAuthenticationLost(t) ==
    /\ Claimable(t)
    /\ session[t].state = "running"
    /\ IF \E g \in Gen : Held(t, g)
       THEN NeedsAttention(t, [session[t] EXCEPT !.failures = Increment(@)],
                           Finish(t, session[t].current, "failed"), {})
       ELSE NeedsAttention(t, session[t], run[t], {})
    /\ UNCHANGED <<backoff, maintenance>>

(* Dispatch of deliveries and of review revisions. *)

\* Mutation: pending deliveries are claimed whatever the capacity.
ClaimPendingDeliveryUnbounded(t) ==
    /\ session[t].state = "running"
    /\ session[t].accepted # 0
    /\ session[t].retry
    /\ ticketState[t] = "waiting_review"
    /\ ~backoff[t]
    /\ Issue(t, [session[t] EXCEPT !.retry = FALSE], run[t], "delivery", FALSE)
    /\ UNCHANGED <<queued, backoff, questions, maintenance>>

ClaimPendingDelivery(t) ==
    /\ HasCapacity
    /\ session[t].state = "running"
    /\ session[t].accepted # 0
    /\ session[t].retry
    /\ ticketState[t] = "waiting_review"
    /\ ~backoff[t]
    /\ Issue(t, [session[t] EXCEPT !.retry = FALSE], run[t], "delivery", FALSE)
    /\ UNCHANGED <<queued, backoff, questions, maintenance>>

\* The lapsed agent run that ClaimQueuedReviewRevision supersedes, which a
\* poll only finds when recovery did not run first.
LapsedAgent(t) ==
    \E g \in Gen : Held(t, g) /\ run[t][g].lapsed /\ run[t][g].kind = "agent"

ReviewFailures(t) ==
    IF LapsedAgent(t) THEN Increment(session[t].failures) ELSE session[t].failures

ReviewClaimable(t) ==
    /\ session[t].state = "running"
    /\ \/ ticketState[t] = "waiting_review" /\ \A g \in Gen : ~Held(t, g)
       \/ HostPressure /\ LapsedAgent(t)
    /\ HasCapacity
    /\ queued[t] \/ CurrentRevises(t)

ClaimQueuedReview(t) ==
    /\ ReviewClaimable(t)
    /\ ReviewFailures(t) < MaxAttempts
    /\ Issue(t, [session[t] EXCEPT !.failures = ReviewFailures(t)],
             IF LapsedAgent(t) THEN Superseded(t) ELSE run[t], "agent", TRUE)
    /\ queued' = [queued EXCEPT ![t] = FALSE]
    /\ UNCHANGED <<backoff, questions, maintenance>>

ClaimQueuedReviewExhausted(t) ==
    /\ ReviewClaimable(t)
    /\ ReviewFailures(t) >= MaxAttempts
    /\ NeedsAttention(t, [session[t] EXCEPT !.failures = ReviewFailures(t)],
                      IF LapsedAgent(t) THEN Superseded(t) ELSE run[t], {})
    /\ UNCHANGED <<backoff, maintenance>>

ClaimQueuedReviewAuthenticationLost(t) ==
    /\ ReviewClaimable(t)
    /\ NeedsAttention(t, [session[t] EXCEPT !.failures = ReviewFailures(t)],
                      IF LapsedAgent(t) THEN Finish(t, session[t].current, "failed") ELSE run[t], {})
    /\ UNCHANGED <<backoff, maintenance>>

-----------------------------------------------------------------------------
(* Launch: the prelaunch reservation, the container create fence and the   *)
(* start admission of the run that holds the lease.                        *)

ReservePrelaunch(t, g) ==
    /\ Owned(t, g)
    /\ run[t][g].launch = "ready"
    /\ run' = [run EXCEPT ![t][g].launch = "reserved"]
    /\ UNCHANGED <<session, ticketState, queued, backoff, questions, maintenance, proof>>

\* Mutation: the create fence ignores an isolation that has begun.
AcquireCreateFenceAnyway(t, g) ==
    /\ Owned(t, g)
    /\ run[t][g].launch = "reserved"
    /\ run[t][g].create # "pending"
    /\ run' = [run EXCEPT ![t][g].create = "pending"]
    /\ UNCHANGED <<session, ticketState, queued, backoff, questions, maintenance, proof>>

AcquireCreateFence(t, g) ==
    /\ Owned(t, g)
    /\ run[t][g].launch = "reserved"
    /\ ~run[t][g].isolating
    /\ run[t][g].create # "pending"
    /\ run' = [run EXCEPT ![t][g].create = "pending"]
    /\ UNCHANGED <<session, ticketState, queued, backoff, questions, maintenance, proof>>

\* Fails, and changes nothing, once an isolation of the run has begun.
ReleaseCreateFence(t, g) ==
    /\ run[t][g].create = "pending"
    /\ ~run[t][g].isolating
    /\ run' = [run EXCEPT ![t][g].create = "done"]
    /\ UNCHANGED <<session, ticketState, queued, backoff, questions, maintenance, proof>>

ReserveLaunch(t, g) ==
    /\ Owned(t, g)
    /\ run[t][g].launch = "reserved"
    /\ ~run[t][g].isolating
    /\ run' = [run EXCEPT ![t][g].launch = "launched"]
    /\ UNCHANGED <<session, ticketState, queued, backoff, questions, maintenance, proof>>

RecordWorkerContainer(t, g) ==
    /\ run[t][g].launch = "launched"
    /\ run' = [run EXCEPT ![t][g].reported = TRUE]
    /\ UNCHANGED <<session, ticketState, queued, backoff, questions, maintenance, proof>>

-----------------------------------------------------------------------------
(* Isolation: fence the run against new containers and gateway writes,     *)
(* remove its containers, acknowledge.                                     *)

FenceIsolation(c, t) ==
    /\ IsTarget(t)
    /\ ~WriteFenced(t)
    /\ run' = [run EXCEPT ![t][session[t].current].isolating = TRUE]
    /\ UNCHANGED <<session, ticketState, queued, backoff, questions, maintenance, proof>>

\* Mutation: the create fence of the isolated run stays pending.
AcknowledgeOnly(c, t) ==
    /\ IsTarget(t)
    /\ run[t][session[t].current].isolating
    /\ proof' = [proof EXCEPT ![t] = @ \cup {c}]
    /\ UNCHANGED <<session, run, ticketState, queued, backoff, questions, maintenance>>

AcknowledgeIsolation(c, t) ==
    /\ IsTarget(t)
    /\ LET g == session[t].current
       IN  /\ run[t][g].isolating
           /\ run' = [run EXCEPT ![t][g].create = IF @ = "pending" THEN "done" ELSE @]
    /\ proof' = [proof EXCEPT ![t] = @ \cup {c}]
    /\ UNCHANGED <<session, ticketState, queued, backoff, questions, maintenance>>

\* Proofs are values of the process that gathered them and end with it.
LoseProofs ==
    /\ \E t \in Ticket : proof[t] # {}
    /\ proof' = [t \in Ticket |-> {}]
    /\ UNCHANGED <<session, run, ticketState, queued, backoff, questions, maintenance>>

-----------------------------------------------------------------------------
(* Outcomes of an agent run.                                               *)

\* The candidate is accepted and its delivery run is issued in one step.
AcceptCandidate(t, g) ==
    /\ Owned(t, g)
    /\ run[t][g].kind = "agent"
    /\ session[t].state = "running"
    /\ session[t].epoch < MaxEpoch
    /\ Issue(t, [session[t] EXCEPT !.accepted = g, !.failures = 0, !.epoch = @ + 1],
             Finish(t, g, "succeeded"), "delivery", FALSE)
    /\ backoff' = [backoff EXCEPT ![t] = FALSE]
    /\ UNCHANGED <<queued, questions, maintenance>>

RecordRunFailure(t, g, infrastructure) ==
    /\ Owned(t, g)
    /\ run[t][g].kind = "agent"
    /\ run' = [run EXCEPT ![t] = Fail(t, g)]
    /\ session' = [session EXCEPT ![t].failures = Increment(@)]
    /\ backoff' = [backoff EXCEPT ![t] = infrastructure]
    /\ queued' = [queued EXCEPT ![t] = @ \/ run[t][g].revises]
    /\ ticketState' = [ticketState EXCEPT
         ![t] = IF run[t][g].revises /\ @ = "running" THEN "waiting_review" ELSE @]
    /\ DropProofs(t)
    /\ UNCHANGED <<questions, maintenance>>

\* Authentication failures are recorded on a lapsed lease too, and escalate.
RecordRunAuthenticationFailure(t, g) ==
    /\ Held(t, g)
    /\ run[t][g].kind = "agent"
    /\ NeedsAttention(t, [session[t] EXCEPT !.failures = Increment(@)], Fail(t, g), {})
    /\ backoff' = [backoff EXCEPT ![t] = FALSE]
    /\ UNCHANGED maintenance

-----------------------------------------------------------------------------
(* Outcomes of a delivery run.                                             *)

Delivering(t, g) == Held(t, g) /\ run[t][g].kind = "delivery"

\* The ticket goes back to review, with or without a pending delivery.
BackToReview(t, g, state, retry) ==
    /\ Retire(t, g, state)
    /\ session' = [session EXCEPT ![t].retry = retry]
    /\ SetTicket(t, "waiting_review")

\* Mutation: the write fence is not looked at.
CompleteDeliveryWhileWriting(t, g) ==
    /\ Delivering(t, g)
    /\ ~run[t][g].lapsed
    /\ BackToReview(t, g, "succeeded", session[t].retry)
    /\ UNCHANGED <<queued, backoff, questions, maintenance>>

CompleteDelivery(t, g) ==
    /\ Delivering(t, g)
    /\ ~run[t][g].lapsed
    /\ ~run[t][g].writing
    /\ BackToReview(t, g, "succeeded", session[t].retry)
    /\ UNCHANGED <<queued, backoff, questions, maintenance>>

\* Any outcome but a launch failure that arrives after the lease lapsed.
FinishLapsedDelivery(c, t, g) ==
    /\ Delivering(t, g)
    /\ run[t][g].lapsed
    /\ Isolated(c, t)
    /\ NeedsAttention(t, session[t], Finish(t, g, "failed"), {})
    /\ UNCHANGED <<backoff, maintenance>>

\* FailDeliveryController: no retry.
FailDelivery(c, t, g) ==
    /\ Delivering(t, g)
    /\ ~run[t][g].lapsed
    /\ Isolated(c, t)
    /\ NeedsAttention(t, session[t], Finish(t, g, "failed"), {})
    /\ UNCHANGED <<backoff, maintenance>>

\* The launch policy takes the caller's word that no container started, which
\* the row must not contradict.
CertifiedUnstarted(t, g) ==
    \/ run[t][g].launch # "launched" /\ run[t][g].create = "none"
    \/ run[t][g].launch = "launched" /\ ~run[t][g].reported

\* The failed delivery is retried while the epoch's budget lasts.
RetryOrEscalate(t, g, rs, mayEscalate) ==
    IF DeliveryFailures(rs, rs[g].epoch) < MaxAttempts
    THEN /\ run' = [run EXCEPT ![t] = rs]
         /\ session' = [session EXCEPT ![t].retry = TRUE]
         /\ SetTicket(t, "waiting_review")
         /\ DropProofs(t)
         /\ UNCHANGED <<queued, questions>>
    ELSE mayEscalate /\ NeedsAttention(t, session[t], rs, {})

\* FailDeliveryControllerWithClass, and AfterIsolation when isolated is set.
FailDeliveryWithClass(c, t, g, isolated, infrastructure) ==
    /\ Delivering(t, g)
    /\ ~run[t][g].lapsed
    /\ ~run[t][g].writing
    /\ isolated => Isolated(c, t)
    /\ RetryOrEscalate(t, g, Fail(t, g), Isolated(c, t))
    /\ backoff' = [backoff EXCEPT ![t] = infrastructure]
    /\ UNCHANGED maintenance

\* FailDeliveryControllerLaunchWithClass, and AfterIsolation.
FailDeliveryLaunch(c, t, g, isolated, infrastructure) ==
    /\ Delivering(t, g)
    /\ ~run[t][g].writing
    /\ (isolated \/ ~CertifiedUnstarted(t, g)) => Isolated(c, t)
    /\ RetryOrEscalate(t, g, Fail(t, g), CertifiedUnstarted(t, g) \/ Isolated(c, t))
    /\ backoff' = [backoff EXCEPT ![t] = infrastructure]
    /\ UNCHANGED maintenance

PauseForQualityGate(t, g) ==
    /\ Delivering(t, g)
    /\ ~run[t][g].lapsed
    /\ ~run[t][g].writing
    /\ Retire(t, g, "succeeded")
    /\ SetTicket(t, "needs_attention")
    /\ questions' = [questions EXCEPT ![t] = @ \cup {"quality_gate"}]
    /\ UNCHANGED <<session, queued, backoff, maintenance>>

\* DeferDeliveryControllerForCredentialPause.
DeferDelivery(c, t, g) ==
    /\ Delivering(t, g)
    /\ ~run[t][g].lapsed
    /\ Isolated(c, t)
    /\ ticketState[t] # "delivered"
    /\ BackToReview(t, g, "superseded", TRUE)
    /\ UNCHANGED <<queued, backoff, questions, maintenance>>

\* RevalidateDeliverySource: the source of the delivery is no longer usable,
\* so the candidate is revised instead of delivered.
RevalidateDelivery(c, t, g) ==
    /\ Delivering(t, g)
    /\ ~run[t][g].lapsed
    /\ Isolated(c, t)
    /\ ticketState[t] # "delivered"
    /\ session[t].accepted # 0
    /\ BackToReview(t, g, "superseded", FALSE)
    /\ backoff' = [backoff EXCEPT ![t] = FALSE]
    /\ queued' = [queued EXCEPT ![t] = TRUE]
    /\ UNCHANGED <<questions, maintenance>>

\* The write fence held while the Gateway writes to GitHub for the run.
BeginWrite(t, g) ==
    /\ Delivering(t, g)
    /\ ~run[t][g].lapsed
    /\ ~run[t][g].isolating
    /\ run' = [run EXCEPT ![t][g].writing = TRUE]
    /\ UNCHANGED <<session, ticketState, queued, backoff, questions, maintenance, proof>>

EndWrite(t, g) ==
    /\ run[t][g].writing
    /\ run' = [run EXCEPT ![t][g].writing = FALSE]
    /\ UNCHANGED <<session, ticketState, queued, backoff, questions, maintenance, proof>>

-----------------------------------------------------------------------------
(* Recovery of runs whose process or container is gone.                    *)

\* recoverExpiredDeliveryTx after its isolation check.
RecoverExpired(t, g) ==
    IF run[t][g].launch # "launched"
    THEN /\ RetryOrEscalate(t, g, Fail(t, g), TRUE)
         /\ backoff' = [backoff EXCEPT ![t] = TRUE]
         /\ UNCHANGED maintenance
    ELSE /\ NeedsAttention(t, session[t], Finish(t, g, "failed"), {})
         /\ UNCHANGED <<backoff, maintenance>>

\* A delivery whose lease lapsed before any container was prepared, found by
\* ActiveRecoveryRuns, ClaimReady or ClaimQueuedReviewRevision.
RecoverUnlaunchedDelivery(t, g) ==
    /\ Delivering(t, g)
    /\ run[t][g].lapsed
    /\ run[t][g].launch = "ready"
    /\ ~run[t][g].writing
    /\ RecoverExpired(t, g)

\* Mutation: the review batch of a missing agent is not given back.
ReconcileForgetsFeedback(c, t, g) ==
    /\ Held(t, g)
    /\ Isolated(c, t)
    /\ \/ /\ run[t][g].kind = "delivery"
          /\ run[t][g].lapsed
          /\ RecoverExpired(t, g)
       \/ /\ run[t][g].kind = "agent"
          /\ Retire(t, g, "superseded")
          /\ SetTicket(t, "queued")
          /\ UNCHANGED <<session, queued, backoff, questions, maintenance>>

ReconcileMissingRun(c, t, g) ==
    /\ Held(t, g)
    /\ Isolated(c, t)
    /\ \/ /\ run[t][g].kind = "delivery"
          /\ run[t][g].lapsed
          /\ RecoverExpired(t, g)
       \/ /\ run[t][g].kind = "agent"
          /\ Retire(t, g, "superseded")
          /\ queued' = [queued EXCEPT ![t] = @ \/ run[t][g].revises]
          /\ SetTicket(t, "queued")
          /\ UNCHANGED <<session, backoff, questions, maintenance>>

\* RecordRecoveryAuthenticationFailure.
RecoverAuthenticationFailure(t, g) ==
    /\ RecoveryAuthFails
    /\ Held(t, g)
    /\ ~run[t][g].writing
    /\ NeedsAttention(t, [session[t] EXCEPT !.failures = Increment(@)], Finish(t, g, "failed"), {})
    /\ UNCHANGED <<backoff, maintenance>>

-----------------------------------------------------------------------------
(* Tickets: merges, escalations, answers, feedback.                        *)

\* Mutation: a merge does not wait for the isolation of the worker.
MarkDeliveredUnisolated(c, t) ==
    /\ session[t].accepted # 0
    /\ ticketState[t] # "delivered"
    /\ "quality_gate" \notin questions[t]
    /\ ticketState' = [ticketState EXCEPT ![t] = "delivered"]
    /\ run' = [run EXCEPT ![t] = Superseded(t)]
    /\ session' = [session EXCEPT ![t].state = "closed"]
    /\ questions' = [questions EXCEPT ![t] = @ \cap {"poll_failure"}]
    /\ DropProofs(t)
    /\ UNCHANGED <<queued, backoff, maintenance>>

\* The pull request of the accepted candidate was merged.
MarkDelivered(c, t) ==
    /\ session[t].accepted # 0
    /\ ticketState[t] # "delivered"
    /\ "quality_gate" \notin questions[t]
    /\ Isolated(c, t)
    /\ ticketState' = [ticketState EXCEPT ![t] = "delivered"]
    /\ run' = [run EXCEPT ![t] =
         [g \in Gen |-> IF g = session[t].current /\ @[g].state = "running"
                        THEN Ended(@[g], "succeeded") ELSE @[g]]]
    /\ session' = [session EXCEPT ![t].state = "closed"]
    /\ questions' = [questions EXCEPT ![t] = @ \cap {"poll_failure"}]
    /\ DropProofs(t)
    /\ UNCHANGED <<queued, backoff, maintenance>>

\* A rejected or uncertain write, an exhausted poll or a failed projection
\* escalates a ticket whatever it is doing (markPlanNeedsAttentionTx,
\* markDeliveryNeedsAttentionTx, markRepositoryNeedsAttentionTx).  The ticket
\* that an exhausted poll escalates is a target of the poll_failure question.
Escalate(c, t) ==
    /\ ticketState[t] # "delivered"
    /\ Isolated(c, t)
    /\ \E also \in SUBSET {"poll_failure"} :
         /\ also # {} => ticketState[t] # "needs_attention"
         /\ NeedsAttention(t, session[t], run[t], also)
    /\ UNCHANGED <<backoff, maintenance>>

\* recoverNeedsAttentionTicketTx: an answer resumes the delivery of the
\* accepted candidate, or starts a new epoch of attempts.
RecoverTicket(t) ==
    /\ backoff' = [backoff EXCEPT ![t] = FALSE]
    /\ IF session[t].accepted # 0
       THEN /\ session' = [session EXCEPT ![t].failures = 0, ![t].retry = TRUE]
            /\ SetTicket(t, "waiting_review")
       ELSE /\ session[t].epoch < MaxEpoch
            /\ session' = IF session[t].state = "none" THEN session
                          ELSE [session EXCEPT ![t].failures = 0, ![t].epoch = @ + 1]
            /\ SetTicket(t, "queued")
    /\ UNCHANGED <<run, queued, maintenance, proof>>

\* Mutation: the answer resumes the delivery but not the ticket.
AnswerWithoutResuming(t) ==
    /\ "needs_attention" \in questions[t]
    /\ session[t].accepted # 0
    /\ questions' = [questions EXCEPT ![t] = @ \ {"needs_attention"}]
    /\ session' = [session EXCEPT ![t].failures = 0, ![t].retry = TRUE]
    /\ backoff' = [backoff EXCEPT ![t] = FALSE]
    /\ UNCHANGED <<run, ticketState, queued, maintenance, proof>>

\* The code never asks whether the ticket still needs attention.
AnswerNeedsAttention(t) ==
    /\ "needs_attention" \in questions[t]
    /\ StaleAnswers \/ ticketState[t] = "needs_attention"
    /\ questions' = [questions EXCEPT ![t] = @ \ {"needs_attention"}]
    /\ RecoverTicket(t)

\* The answer to a poll_failure question recovers all its targets, whatever
\* became of them, and closes the question that the failure opened on each;
\* one that was opened on the ticket later stays.
RetryPollFailure(t) ==
    /\ "poll_failure" \in questions[t]
    /\ StaleAnswers \/ ticketState[t] = "needs_attention"
    /\ \E closed \in SUBSET {"needs_attention"} :
         questions' = [questions EXCEPT ![t] = @ \ ({"poll_failure"} \cup closed)]
    /\ RecoverTicket(t)

AnswerQualityGate(t) ==
    /\ "quality_gate" \in questions[t]
    /\ session[t].state = "running"
    /\ session[t].accepted # 0
    /\ ticketState[t] = "needs_attention"
    /\ questions' = [questions EXCEPT ![t] = @ \ {"quality_gate"}]
    /\ session' = [session EXCEPT ![t].retry = TRUE]
    /\ SetTicket(t, "waiting_review")
    /\ UNCHANGED <<run, queued, backoff, maintenance, proof>>

RecordReviewFeedback(t) ==
    /\ session[t].accepted # 0
    /\ session[t].gen < MaxGen  \* bound: some generation is left to answer it
    /\ ~queued[t]
    /\ queued' = [queued EXCEPT ![t] = TRUE]
    /\ UNCHANGED <<session, run, ticketState, backoff, questions, maintenance, proof>>

\* The fence is kept only if no run is live.
BeginMaintenance ==
    /\ ~maintenance
    /\ LiveRuns = {}
    /\ maintenance' = TRUE
    /\ UNCHANGED <<session, run, ticketState, queued, backoff, questions, proof>>

ClearMaintenance ==
    /\ maintenance
    /\ maintenance' = FALSE
    /\ UNCHANGED <<session, run, ticketState, queued, backoff, questions, proof>>

(* Time passes. *)

Lapse(t, g) ==
    /\ run[t][g].state = "running"
    /\ run[t][g].leased
    /\ ~run[t][g].lapsed
    /\ run' = [run EXCEPT ![t][g].lapsed = TRUE]
    /\ UNCHANGED <<session, ticketState, queued, backoff, questions, maintenance, proof>>

BackoffElapses(t) ==
    /\ backoff[t]
    /\ backoff' = [backoff EXCEPT ![t] = FALSE]
    /\ UNCHANGED <<session, run, ticketState, queued, questions, maintenance, proof>>

-----------------------------------------------------------------------------

TicketStep(t) ==
    \/ ClaimReady(t)
    \/ ClaimReadyReleasesFeedback(t)
    \/ ClaimReadyExhausted(t)
    \/ ClaimReadyAuthenticationLost(t)
    \/ ClaimPendingDelivery(t)
    \/ ClaimQueuedReview(t)
    \/ ClaimQueuedReviewExhausted(t)
    \/ ClaimQueuedReviewAuthenticationLost(t)
    \/ AnswerNeedsAttention(t)
    \/ RetryPollFailure(t)
    \/ AnswerQualityGate(t)
    \/ RecordReviewFeedback(t)
    \/ BackoffElapses(t)

RunStep(t, g) ==
    \/ ReservePrelaunch(t, g)
    \/ AcquireCreateFence(t, g)
    \/ ReleaseCreateFence(t, g)
    \/ ReserveLaunch(t, g)
    \/ RecordWorkerContainer(t, g)
    \/ AcceptCandidate(t, g)
    \/ \E infrastructure \in BOOLEAN : RecordRunFailure(t, g, infrastructure)
    \/ RecordRunAuthenticationFailure(t, g)
    \/ CompleteDelivery(t, g)
    \/ PauseForQualityGate(t, g)
    \/ BeginWrite(t, g)
    \/ EndWrite(t, g)
    \/ RecoverUnlaunchedDelivery(t, g)
    \/ RecoverAuthenticationFailure(t, g)
    \/ Lapse(t, g)

CallerStep(c, t) ==
    \/ FenceIsolation(c, t)
    \/ AcknowledgeIsolation(c, t)
    \/ MarkDelivered(c, t)
    \/ Escalate(c, t)
    \/ \E g \in Gen :
         \/ FinishLapsedDelivery(c, t, g)
         \/ FailDelivery(c, t, g)
         \/ \E isolated, infrastructure \in BOOLEAN :
              \/ FailDeliveryWithClass(c, t, g, isolated, infrastructure)
              \/ FailDeliveryLaunch(c, t, g, isolated, infrastructure)
         \/ DeferDelivery(c, t, g)
         \/ RevalidateDelivery(c, t, g)
         \/ ReconcileMissingRun(c, t, g)

Next ==
    \/ \E t \in Ticket : TicketStep(t)
    \/ \E t \in Ticket, g \in Gen : RunStep(t, g)
    \/ \E c \in Caller, t \in Ticket : CallerStep(c, t)
    \/ LoseProofs
    \/ BeginMaintenance
    \/ ClearMaintenance

Spec == Init /\ [][Next]_vars

-----------------------------------------------------------------------------
(* Properties.                                                             *)

\* Every variable holds rows of the schema.
TypeOK ==
    /\ session \in [Ticket -> SessionRow]
    /\ run \in [Ticket -> [Gen -> RunRow]]
    /\ ticketState \in [Ticket -> {"queued", "running", "waiting_review",
                                   "needs_attention", "delivered"}]
    /\ queued \in [Ticket -> BOOLEAN]
    /\ backoff \in [Ticket -> BOOLEAN]
    /\ questions \in [Ticket -> SUBSET {"needs_attention", "quality_gate", "poll_failure"}]
    /\ maintenance \in BOOLEAN
    /\ proof \in [Ticket -> SUBSET Caller]

\* A ticket has at most one live run: whatever is running or holds an active
\* lease is the current run of its session, with both (spec invariant 3; the
\* claims, failures and recoveries all rely on current_run_id to find it).
OneLiveRun ==
    \A t \in Ticket, g \in Gen :
        run[t][g].state = "running" \/ run[t][g].leased => Held(t, g)

\* Unlapsed leases never exceed max-parallel-runs, although accepting a
\* candidate issues a delivery run without looking at the capacity.
WithinCapacity == Cardinality(LiveRuns) <= MaxParallel

\* Work starts on a ticket only when all its blockers are delivered, and a
\* blocker never leaves that state while the work goes on.
BlockersDelivered ==
    \A t \in Ticket : (\E g \in Gen : run[t][g].state # "none") =>
        \A b \in Blockers[t] : ticketState[b] = "delivered"

\* While a caller holds an isolation proof, the run it names is still the
\* current one and can no longer get a container, start one, or write.
ProvenRunsStayFenced ==
    \A t \in Ticket : proof[t] # {} =>
        \E g \in Gen : /\ Held(t, g)
                       /\ run[t][g].isolating
                       /\ run[t][g].create # "pending"
                       /\ ~run[t][g].writing

\* A ticket that needs attention has an open question that an answer can
\* resolve, so that no ticket waits for a human who was never asked.
AttentionIsAnswerable ==
    \A t \in Ticket : ticketState[t] = "needs_attention" => questions[t] # {}

\* Delivered is final and quiet: the session is closed and no run is left
\* running, leased or writing to GitHub.
DeliveredIsQuiet ==
    \A t \in Ticket : ticketState[t] = "delivered" =>
        /\ session[t].state = "closed"
        /\ \A g \in Gen : /\ run[t][g].state # "running"
                          /\ ~run[t][g].leased
                          /\ ~run[t][g].writing

\* An outcome, once recorded, is never rewritten: neither by a caller whose
\* lease was taken over nor by a bulk cancellation of the session's runs.
OutcomesAreFinal ==
    [][\A t \in Ticket, g \in Gen :
         run[t][g].state \notin {"none", "running"} =>
            run'[t][g].state = run[t][g].state]_vars

\* A review batch claimed by a run is answered by that run's success or goes
\* back to the queue (or straight to the next run): no failure, supersession,
\* recovery or escalation loses it.
FeedbackIsNeverLost ==
    [][\A t \in Ticket, g \in Gen :
         run[t][g].revises /\ ~run'[t][g].revises =>
            \/ run'[t][g].state = "succeeded"
            \/ queued'[t]
            \/ \E h \in Gen : run'[t][h].revises]_vars

\* At most one generation of a ticket has a GitHub write in flight, and it is
\* the one that holds the ticket: no outcome is recorded under a write fence.
OneWriter ==
    \A t \in Ticket, g \in Gen : run[t][g].writing => Held(t, g)

\* The ledger implements the ticket fencing it promises.
Fencing == INSTANCE TicketFencing WITH
    owner    <- [t \in Ticket |->
                   IF \E g \in Gen : Held(t, g) THEN session[t].current ELSE 0],
    last     <- [t \in Ticket |-> session[t].gen],
    accepted <- [t \in Ticket |-> session[t].accepted],
    closed   <- [t \in Ticket |-> session[t].state = "closed"]

ImplementsTicketFencing == Fencing!Spec

\* The fence that a platform upgrade takes holds off every run.
MaintenanceIsQuiet == maintenance => LiveRuns = {}

(* Liveness: recovery, under the fairness of the control pass, which runs on *)
(* every poll and goes on until the isolation it needs is done.  A pass may  *)
(* lose its proofs to a crash, but not every pass does (strong fairness).    *)

\* What the control plane keeps doing for ticket t: release create fences,
\* finish writes, fence, remove and acknowledge containers, reconcile.
RecoveryFairness ==
    \A t \in Ticket :
        /\ \A g \in Gen :
             /\ WF_vars(ReleaseCreateFence(t, g))
             /\ WF_vars(EndWrite(t, g))
             /\ WF_vars(RecoverUnlaunchedDelivery(t, g))
        /\ \A c \in Caller :
             /\ WF_vars(FenceIsolation(c, t))
             /\ WF_vars(AcknowledgeIsolation(c, t))
             /\ \A g \in Gen : SF_vars(ReconcileMissingRun(c, t, g))

LiveSpec == Spec /\ RecoveryFairness

\* A run whose lease lapsed does not occupy its ticket for ever.
LapsedRunsAreRecovered ==
    \A t \in Ticket, g \in Gen :
        (Held(t, g) /\ run[t][g].lapsed) ~> ~Held(t, g)

=============================================================================
