--------------------------- MODULE DeliveryOutbox ---------------------------
(* The durable outbox of GitHub writes (internal/store/delivery.go), the      *)
(* Gateway processes that dispatch it (internal/delivery/gateway.go) and the  *)
(* pause, dispatcher lease and credential rotation they obey                  *)
(* (internal/store/gateway_state.go).                                         *)
(*                                                                            *)
(* GitHub is external: a write may land and be answered, land after its       *)
(* caller gave up, be lost, be rate limited or be refused.  A Gateway process *)
(* serialises its dispatches, so it has one thread; a crashed process comes   *)
(* back with a new dispatcher token, and a suspended one goes on later with   *)
(* what it knew.  A claim token is drawn per claim, and a process holds one   *)
(* claim at a time: the process names it.                                     *)
EXTENDS Naturals, FiniteSets

CONSTANTS Keys,              \* idempotency keys
          Op,                \* key -> push | pull | note | plan | inbox
          Gen,               \* inbox key -> the generation it projects
          Gateways,          \* processes
          Batches,           \* the sets of keys that callers may submit
          Owners,            \* owners of credential rotations
          None, Lost,        \* no token; the token of a process that is gone
          MaxDeliveryAttempts,
          MaxFaults          \* bound: crashes, suspensions, refused credentials

ASSUME OutboxConstants ==
    /\ Op \in [Keys -> {"push", "pull", "note", "plan", "inbox"}]
    /\ Gen \in [Keys -> Nat] /\ \A k \in Keys : Gen[k] # 0 <=> Op[k] = "inbox"
    /\ Batches \subseteq SUBSET Keys /\ Gateways # {}
    /\ MaxDeliveryAttempts \in Nat \ {0} /\ MaxFaults \in Nat
    /\ {None, Lost} \cap Gateways = {} /\ None # Lost /\ None \notin Owners

VARIABLES
    requests,     \* the keys callers submit in this behaviour
    running,      \* the processes started so far
    outbox,       \* delivery_outbox
    gateway,      \* gateway_runtime
    inbox,        \* workflow_inbox_projections, recovery questions, the plan
    thread,       \* process -> its dispatch
    suspended,    \* processes that are not scheduled
    remote,       \* GitHub: effects, the inbox it shows, writes under way
    runLease,     \* the run of the push, pull and note entries holds its lease
    faults

outboxVars == <<requests, running, outbox, gateway, inbox, thread, suspended,
                remote, runLease, faults>>

RunOps == {"push", "pull", "note"}
ControlPlane(k) == Op[k] \notin RunOps
IsInbox(k) == Op[k] = "inbox"
Tokens == Gateways \cup {None, Lost}

Row == [state : {"none", "pending", "processing", "succeeded", "rejected"},
        attempts : 0..MaxDeliveryAttempts, claim : Tokens, dispatcher : Tokens,
        uncertain : BOOLEAN]
NoRow == [state |-> "none", attempts |-> 0, claim |-> None,
          dispatcher |-> None, uncertain |-> FALSE]
Queued == [NoRow EXCEPT !.state = "pending"]

Idle == [at |-> "idle", key |-> None, reconcile |-> FALSE,
         superseded |-> FALSE, verdict |-> None]

OutboxInit ==
    /\ requests \in Batches /\ running = {CHOOSE g \in Gateways : TRUE}
    /\ outbox = [k \in Keys |-> NoRow]
    /\ gateway = [paused |-> FALSE, dispatcher |-> None, live |-> FALSE,
                  rotation |-> None, rotating |-> FALSE]
    /\ inbox = [generation |-> 0, since |-> 0, plan |-> "active",
                question |-> [k \in Keys |-> "none"], authorised |-> {}]
    /\ thread = [g \in Gateways |-> Idle]
    /\ suspended = {}
    /\ remote = [effects |-> [k \in Keys |-> 0], shown |-> 0,
                 late |-> [k \in Keys |-> 0], stray |-> FALSE]
    /\ runLease = (\E k \in requests : Op[k] \in RunOps)
    /\ faults = 0

-----------------------------------------------------------------------------
(* Admission.                                                               *)

RunTarget == runLease
PlanTarget == inbox.plan # "replaced"
ActivePlans == inbox.plan # "complete"

\* The entry that projects the generation after the current one.
NextInbox == {k \in requests : Gen[k] = inbox.generation + 1}

\* workflowInboxProjectionGenerationTx advances, the entry is enqueued.
EnqueueNext(rows) ==
    [k \in Keys |-> IF k \in NextInbox THEN Queued ELSE rows[k]]
NextGeneration ==
    inbox.generation + IF NextInbox = {} THEN 0 ELSE 1

\* EnqueueDelivery: a known key is returned in whatever state it is.
EnqueueDelivery(k) ==
    /\ k \in requests /\ ~IsInbox(k) /\ outbox[k].state = "none"
    /\ IF ControlPlane(k) THEN PlanTarget ELSE RunTarget
    /\ outbox' = [outbox EXCEPT ![k] = Queued]
    /\ UNCHANGED <<requests, running, gateway, inbox, thread, suspended, remote,
                   runLease, faults>>

\* A question is opened or answered and the inbox is queued again.
QueueWorkflowInboxProjection ==
    /\ ActivePlans \/ inbox.generation > 0
    /\ NextInbox # {}
    /\ outbox' = EnqueueNext(outbox)
    /\ inbox' = [inbox EXCEPT !.generation = NextGeneration]
    /\ UNCHANGED <<requests, running, gateway, thread, suspended, remote, runLease, faults>>

\* The active plan completes or a new version replaces it; a projected inbox
\* is queued again for the new set of plans, and the generations before it are
\* those of another set.  Bound: a generation is left for it.
PlanChanges(to) ==
    /\ inbox.plan = "active"
    /\ inbox.generation > 0 => NextInbox # {}
    /\ to = "replaced" => \E k \in requests : Op[k] = "plan"
    /\ to = "complete" => \E k \in requests : IsInbox(k)
    /\ outbox' = IF inbox.generation > 0 THEN EnqueueNext(outbox) ELSE outbox
    /\ inbox' = [inbox EXCEPT
           !.plan = to,
           !.since = IF inbox.generation > 0 THEN NextGeneration ELSE @,
           !.generation = IF @ > 0 THEN NextGeneration ELSE @]
    /\ UNCHANGED <<requests, running, gateway, thread, suspended, remote, runLease, faults>>

RunLeaseEnds ==
    /\ runLease /\ runLease' = FALSE
    /\ UNCHANGED <<requests, running, outbox, gateway, inbox, thread, suspended, remote, faults>>

-----------------------------------------------------------------------------
(* The claim of an entry.                                                   *)

HoldsDispatcher(g) == gateway.dispatcher = g /\ gateway.live
Runs(g, at) == thread[g].at = at /\ g \notin suspended
Step(g, at) == [thread EXCEPT ![g].at = at]
Verdict(g, v) == [thread EXCEPT ![g].at = "finishing", ![g].verdict = v]

Pushed == \E k \in Keys : Op[k] = "push" /\ outbox[k].state = "succeeded"

DueDeliveryOutboxKeys ==
    {k \in Keys : /\ outbox[k].state \in {"pending", "processing"}
                  /\ Op[k] = "pull" => Pushed}

\* An HTTP call dispatches the entry it submits, whatever the loop would do.
Submitted(k) == Op[k] = "pull" /\ outbox[k].state = "pending"

EnsureGatewayDispatcher(g, k) ==
    /\ Runs(g, "idle")
    /\ k \in DueDeliveryOutboxKeys \/ Submitted(k)
    /\ gateway.dispatcher \in {None, g} \/ ~gateway.live
    /\ gateway' = [gateway EXCEPT !.dispatcher = g, !.live = TRUE]
    /\ thread' = [thread EXCEPT ![g] = [Idle EXCEPT !.at = "ensured",
                                                    !.key = k]]
    /\ UNCHANGED <<requests, running, outbox, inbox, suspended, remote, runLease, faults>>

DispatcherGone(token) ==
    token # None /\ (gateway.dispatcher # token \/ ~gateway.live)

\* A claim may be taken over once its dispatcher, or its run, lost its lease.
Recoverable(k) ==
    IF ControlPlane(k) THEN DispatcherGone(outbox[k].dispatcher)
    ELSE ~runLease

\* Wrong: only a pending older projection holds back a newer one.
BlockedByPending(k) ==
    \E o \in Keys \ {k} :
       IsInbox(o) /\ outbox[o].state = "pending" /\ outbox[o].uncertain
       /\ Gen[o] < Gen[k]

\* Wrong: a projection that is out does not hold back the next one.
BlockedByUnresolved(k) ==
    \E o \in Keys \ {k} :
       /\ IsInbox(o) /\ outbox[o].state \in {"pending", "rejected"}
       /\ outbox[o].uncertain /\ Gen[o] < Gen[k]

\* Another projection of the inbox is out, or an older one is unresolved.
InboxBlocked(k) ==
    \E o \in Keys \ {k} :
       /\ IsInbox(o)
       /\ \/ outbox[o].state = "processing"
          \/ /\ outbox[o].state \in {"pending", "rejected"}
             /\ outbox[o].uncertain
             /\ Gen[o] < Gen[k]

Claimable(k) ==
    /\ ~gateway.paused
    /\ \/ outbox[k].state = "processing" /\ Recoverable(k)
       \/ outbox[k].state = "pending"

\* Wrong: one attempt too many.
ExhaustedLate(k) == outbox[k].attempts > MaxDeliveryAttempts
Exhausted(k) == outbox[k].attempts >= MaxDeliveryAttempts

MayClaim(g, k) ==
    /\ Claimable(k) /\ ~Exhausted(k)
    /\ IsInbox(k) => ~InboxBlocked(k)
    /\ ControlPlane(k) => HoldsDispatcher(g)

\* The outcome of an earlier write is not known: it is only looked for.
ReconcileOnlyIfMarked(k) == outbox[k].uncertain
ReconcileOnly(k) == outbox[k].uncertain \/ outbox[k].state = "processing"

ClaimDeliveryOutbox(g) ==
    LET k == thread[g].key IN
    /\ Runs(g, "ensured") /\ MayClaim(g, k)
    /\ outbox' = [outbox EXCEPT ![k] =
           [@ EXCEPT !.state = "processing", !.attempts = outbox[k].attempts + 1,
                     !.claim = g, !.uncertain = ReconcileOnly(k),
                     !.dispatcher = IF ControlPlane(k) THEN g ELSE None]]
    /\ thread' = [thread EXCEPT ![g].at = "claimed",
                                ![g].reconcile = ReconcileOnly(k)]
    /\ UNCHANGED <<requests, running, gateway, inbox, suspended, remote, runLease, faults>>

ClaimRefused(g) ==
    LET k == thread[g].key IN
    /\ Runs(g, "ensured")
    /\ ~MayClaim(g, k) /\ ~(Claimable(k) /\ Exhausted(k))
    /\ thread' = [thread EXCEPT ![g] = Idle]
    /\ UNCHANGED <<requests, running, outbox, gateway, inbox, suspended, remote,
                   runLease, faults>>

-----------------------------------------------------------------------------
(* What is recorded of an attempt.                                          *)

\* Wrong: an answered question is never asked again.
AskOnce(k) ==
    [inbox EXCEPT !.question = [@ EXCEPT ![k] = IF @ = "none" THEN "open"
                                                ELSE @]]

\* ensureUncertainInboxRecoveryQuestionTx: an open question is kept, else a
\* new one is asked, which no earlier answer authorises.
AskRecovery(k) ==
    [inbox EXCEPT !.question = [@ EXCEPT ![k] = "open"],
                  !.authorised = @ \ (IF inbox.question[k] = "open"
                                      THEN {} ELSE {k})]

\* markDeliveryNeedsAttentionTx, with the rows the rejection leaves: a plan or
\* the ticket needs attention, and an inbox with active plans is queued again.
NeedsAttention(k, uncertain, rows) ==
    LET asked == IF IsInbox(k) /\ uncertain THEN AskRecovery(k) ELSE inbox
        queues == Op[k] = "plan" \/ (IsInbox(k) /\ ActivePlans)
    IN  /\ outbox' = IF queues THEN EnqueueNext(rows) ELSE rows
        /\ inbox' = IF queues
                    THEN [asked EXCEPT !.generation = NextGeneration]
                    ELSE asked

\* The dispatcher token of a row matters only while it is processing.
Settled(k, state, uncertain) ==
    [outbox EXCEPT ![k] = [@ EXCEPT !.state = state, !.claim = None,
                                    !.dispatcher = None,
                                    !.uncertain = uncertain]]

ClaimExhausted(g) ==
    LET k == thread[g].key IN
    /\ Runs(g, "ensured") /\ Claimable(k) /\ Exhausted(k)
    /\ NeedsAttention(k, outbox[k].uncertain,
                      Settled(k, "rejected", outbox[k].uncertain))
    /\ thread' = [thread EXCEPT ![g] = Idle]
    /\ UNCHANGED <<requests, running, gateway, suspended, remote, runLease, faults>>

\* Wrong: whoever finishes a processing entry is taken for its holder.
HoldsAny(g, k) == outbox[k].state # "none"
Holds(g, k) == outbox[k].state = "processing" /\ outbox[k].claim = g

\* finishDeliveryOutbox back to pending: the last attempt is a rejection.
Requeue(k, uncertain) ==
    IF Exhausted(k)
    THEN NeedsAttention(k, uncertain, Settled(k, "rejected", uncertain))
    ELSE /\ outbox' = Settled(k, "pending", uncertain)
         /\ UNCHANGED inbox

RejectRaisesAttention(k, uncertain) ==
    \/ IsInbox(k) /\ uncertain
    \/ Op[k] \in {"plan", "push", "pull"}

Reject(k, uncertain) ==
    LET rows == Settled(k, "rejected", uncertain) IN
    IF RejectRaisesAttention(k, uncertain)
    THEN NeedsAttention(k, uncertain, rows)
    ELSE outbox' = rows /\ UNCHANGED inbox

CompleteDeliveryOutbox(k) ==
    /\ outbox' = Settled(k, "succeeded", FALSE)
    /\ UNCHANGED inbox

\* requeueClaim: a claim that was taken over is left to its new holder.
RequeueClaim(g, k, uncertain) ==
    IF Holds(g, k) THEN Requeue(k, uncertain)
    ELSE UNCHANGED <<outbox, inbox>>

-----------------------------------------------------------------------------
(* The dispatch.                                                            *)

\* controlPlaneDispatchContext renews the dispatcher lease, then the
\* credential is loaded.
DispatcherLost(g) ==
    LET k == thread[g].key IN
    /\ Runs(g, "claimed") /\ ControlPlane(k) /\ ~HoldsDispatcher(g)
    /\ RequeueClaim(g, k, thread[g].reconcile)
    /\ thread' = [thread EXCEPT ![g] = Idle]
    /\ UNCHANGED <<requests, running, gateway, suspended, remote, runLease, faults>>

CredentialAvailable(g, answer) ==
    LET k == thread[g].key IN
    /\ Runs(g, "claimed") /\ (ControlPlane(k) => HoldsDispatcher(g))
    /\ \/ answer = "available" /\ thread' = Step(g, "admitted")
          /\ UNCHANGED faults
       \/ answer = "unavailable" /\ thread' = Verdict(g, "defer")
          /\ UNCHANGED faults
       \/ answer = "refused" /\ faults < MaxFaults /\ faults' = faults + 1
          /\ thread' = Verdict(g, "refuse")
    /\ UNCHANGED <<requests, running, outbox, gateway, inbox, suspended, remote,
                   runLease>>

\* The target as the store sees it just before the write: an inbox is that of
\* the present set of plans, the current one or an earlier.
Target(k) ==
    IF IsInbox(k) THEN Gen[k] = inbox.generation \/ Gen[k] >= inbox.since
    ELSE IF ControlPlane(k) THEN PlanTarget ELSE RunTarget

\* ExecuteDelivery, or ReconcileDelivery for the inbox, validates the target.
ValidateDelivery(g) ==
    LET k == thread[g].key
        superseded == IsInbox(k) /\ Gen[k] # inbox.generation
    IN  /\ Runs(g, "admitted") /\ (thread[g].reconcile => IsInbox(k))
        /\ thread' =
             IF IsInbox(k) /\ ~Holds(g, k) THEN Verdict(g, "retry")
             ELSE IF thread[g].reconcile /\ superseded
             THEN IF ActivePlans
                  THEN [thread EXCEPT ![g].at = "validated", ![g].superseded = TRUE]
                  ELSE Verdict(g, "succeed")
             ELSE IF ~Target(k) THEN Verdict(g, "reject")
             ELSE IF superseded THEN Verdict(g, "succeed")
             ELSE Step(g, "validated")
        /\ UNCHANGED <<requests, running, outbox, gateway, inbox, suspended, remote,
                       runLease, faults>>

Applied(k) == IF IsInbox(k) THEN remote.shown = Gen[k]
              ELSE remote.effects[k] > 0

\* Wrong: the expected head is not compared.
HeadIgnored(k) == TRUE

\* The branch is where the request expects it: for a pull request, pushed.
HeadExpected(k) ==
    Op[k] = "pull" => \E p \in Keys : Op[p] = "push" /\ remote.effects[p] > 0

Observing(g) ==
    \/ Runs(g, "validated")
    \/ Runs(g, "admitted") /\ thread[g].reconcile /\ ~IsInbox(thread[g].key)

\* execute and reconcileOnly look at GitHub before anything is written.
Observe(g) ==
    LET k == thread[g].key
        t == thread[g]
    IN  /\ Observing(g)
        /\ \/ Applied(k) /\ thread' = Verdict(g, "succeed")
           \/ ~Applied(k)
              /\ thread' =
                   IF t.reconcile /\ ~IsInbox(k) THEN Verdict(g, "reject")
                   ELSE IF t.superseded
                   THEN Verdict(g, IF k \in inbox.authorised THEN "succeed"
                                   ELSE "uncertain")
                   ELSE IF ~HeadExpected(k) THEN Verdict(g, "reject")
                   ELSE Step(g, "sending")
        /\ UNCHANGED <<requests, running, outbox, gateway, inbox, suspended, remote,
                       runLease, faults>>

\* GitHub cannot be read or refuses the credential, or somebody else moved
\* the branch.
ObserveFails(g) ==
    LET k == thread[g].key IN
    /\ Observing(g)
    /\ \/ thread' = Verdict(g, IF thread[g].reconcile THEN "uncertain"
                               ELSE "retry")
          /\ UNCHANGED faults
       \/ Op[k] \in {"push", "pull"} /\ ~Applied(k)
          /\ thread' = Verdict(g, "reject") /\ UNCHANGED faults
       \/ faults < MaxFaults /\ faults' = faults + 1
          /\ thread' = Verdict(g, "pause")
    /\ UNCHANGED <<requests, running, outbox, gateway, inbox, suspended, remote,
                   runLease>>

\* A write is stray when its sender no longer holds the entry.
Effect(k, stray) ==
    [remote EXCEPT
        !.effects = IF IsInbox(k) THEN @
                    ELSE [@ EXCEPT ![k] = remote.effects[k] + 1],
        !.shown = IF IsInbox(k) THEN Gen[k] ELSE @,
        !.stray = @ \/ stray]

\* The write is made and answered; a run's context ends with its lease.
Apply(g) ==
    LET k == thread[g].key IN
    /\ Runs(g, "sending")
    /\ remote' = Effect(k, ~Holds(g, k))
    /\ thread' = Verdict(g, IF ControlPlane(k) \/ runLease THEN "succeed"
                            ELSE "uncertain")
    /\ UNCHANGED <<requests, running, outbox, gateway, inbox, suspended, runLease, faults>>

\* No answer: the write may be lost, or land at any later time.  Bound: one
\* such write at a time, sent before a second process runs.
ApplyUnanswered(g) ==
    LET k == thread[g].key IN
    /\ Runs(g, "sending") /\ running = {g}
    /\ \A o \in Keys : remote.late[o] = 0
    /\ remote' = [remote EXCEPT !.late[k] = @ + 1]
    /\ thread' = Step(g, "unanswered")
    /\ UNCHANGED <<requests, running, outbox, gateway, inbox, suspended, runLease, faults>>

\* GitHub asks to come back later, or refuses the credential, or answers with
\* a pull request of another head or base: the effect is not there.
ApplyRefused(g) ==
    /\ Runs(g, "sending")
    /\ \/ thread' = Verdict(g, "retry") /\ UNCHANGED faults
       \/ Op[thread[g].key] = "pull"
          /\ thread' = Verdict(g, "reject") /\ UNCHANGED faults
       \/ faults < MaxFaults /\ faults' = faults + 1
          /\ thread' = Verdict(g, "pause")
    /\ UNCHANGED <<requests, running, outbox, gateway, inbox, suspended, remote,
                   runLease>>

\* Wrong: an unanswered write is taken for a delivered one.
TimeoutIsSuccess(g) ==
    /\ Runs(g, "unanswered")
    /\ thread' = Verdict(g, "succeed")
    /\ UNCHANGED <<requests, running, outbox, gateway, inbox, suspended,
                   remote, runLease, faults>>

\* The second observation decides between success and uncertainty.
ObserveUncertain(g) ==
    LET k == thread[g].key IN
    /\ Runs(g, "unanswered")
    /\ \/ Applied(k) /\ (ControlPlane(k) \/ runLease)
          /\ thread' = Verdict(g, "succeed")
       \/ thread' = Verdict(g, "uncertain")
    /\ UNCHANGED <<requests, running, outbox, gateway, inbox, suspended, remote,
                   runLease, faults>>

WriteLands(k) ==
    /\ remote.late[k] > 0
    /\ remote' = [Effect(k, outbox[k].state # "processing")
                    EXCEPT !.late[k] = @ - 1]
    /\ UNCHANGED <<requests, running, outbox, gateway, inbox, thread, suspended,
                   runLease, faults>>

WriteLost(k) ==
    /\ remote.late[k] > 0
    /\ remote' = [remote EXCEPT !.late[k] = @ - 1]
    /\ UNCHANGED <<requests, running, outbox, gateway, inbox, thread, suspended,
                   runLease, faults>>

-----------------------------------------------------------------------------
(* The end of a dispatch.                                                   *)

Ends(g) == /\ Runs(g, "finishing")
           /\ thread' = [thread EXCEPT ![g] = Idle]
           /\ UNCHANGED <<requests, running, suspended, remote, runLease>>

\* The dispatcher lease is renewed before the outcome is recorded, but for
\* reconcileOnly, which records it first.
LeaseKept(g) ==
    LET k == thread[g].key IN
    ControlPlane(k) /\ (thread[g].reconcile => IsInbox(k)) => HoldsDispatcher(g)

\* Verdicts that follow a write, or may: not those of the credential check.
Doubtful(g) == thread[g].reconcile \/ thread[g].verdict \notin {"defer", "refuse"}

\* GitHub refused the credential, to the check or to a request.
Refused(g) == thread[g].verdict \in {"refuse", "pause"}

FinishWithoutLease(g) ==
    /\ Ends(g) /\ ~LeaseKept(g)
    /\ RequeueClaim(g, thread[g].key, Doubtful(g))
    /\ UNCHANGED <<gateway, faults>>

FinishFenced(g) ==
    /\ Ends(g) /\ LeaseKept(g) /\ ~Refused(g) /\ ~Holds(g, thread[g].key)
    /\ UNCHANGED <<outbox, inbox, gateway, faults>>

FinishDelivery(g) ==
    LET k == thread[g].key
        v == thread[g].verdict
        u == thread[g].reconcile
    IN  /\ Ends(g) /\ LeaseKept(g) /\ Holds(g, k)
        /\ \/ v = "succeed" /\ CompleteDeliveryOutbox(k)
           \/ v = "reject" /\ Reject(k, u)
           \/ v = "uncertain" /\ Requeue(k, TRUE)
           \/ v \in {"retry", "defer"} /\ Requeue(k, u)
        /\ UNCHANGED <<gateway, faults>>

\* The outcome could not be stored: the claim is given back instead.
FinishUnrecorded(g) ==
    LET k == thread[g].key
        v == thread[g].verdict
    IN  /\ Ends(g) /\ LeaseKept(g) /\ ~Refused(g) /\ Holds(g, k)
        /\ faults < MaxFaults /\ faults' = faults + 1
        /\ Requeue(k, thread[g].reconcile \/ v \in {"succeed", "uncertain"})
        /\ UNCHANGED gateway

\* pauseForCredential: writes pause, then the credential question is projected
\* where it is still open, then the entry is deferred.
PauseForCredential(g) ==
    /\ Runs(g, "finishing") /\ LeaseKept(g) /\ Refused(g)
    /\ gateway' = [gateway EXCEPT !.paused = TRUE]
    /\ thread' = Step(g, "pausing")
    /\ UNCHANGED <<requests, running, outbox, inbox, suspended, remote, runLease, faults>>

ProjectCredentialQuestion(g) ==
    /\ Runs(g, "pausing") /\ thread' = Step(g, "deferring")
    /\ \/ /\ ActivePlans /\ gateway.paused
          /\ outbox' = EnqueueNext(outbox)
          /\ inbox' = [inbox EXCEPT !.generation = NextGeneration]
       \/ UNCHANGED <<outbox, inbox>>
    /\ UNCHANGED <<requests, running, gateway, suspended, remote, runLease, faults>>

\* The last of the three, and what a failure of the others leads to.
DeferRefused(g) ==
    /\ \/ Runs(g, "finishing") /\ LeaseKept(g) /\ Refused(g)
       \/ Runs(g, "pausing")
       \/ Runs(g, "deferring")
    /\ RequeueClaim(g, thread[g].key, thread[g].reconcile)
    /\ thread' = [thread EXCEPT ![g] = Idle]
    /\ UNCHANGED <<requests, running, gateway, suspended, remote, runLease, faults>>

-----------------------------------------------------------------------------
(* The pause, credential rotations and recovery.                            *)

PauseGatewayWrites ==
    /\ faults < MaxFaults /\ faults' = faults + 1
    /\ ~gateway.paused /\ gateway' = [gateway EXCEPT !.paused = TRUE]
    /\ UNCHANGED <<requests, running, outbox, inbox, thread, suspended, remote,
                   runLease>>

BeginGatewayCredentialRotation(o) ==
    /\ gateway.paused \* operators rotate a credential that was refused
    /\ gateway.rotation = None \/ ~gateway.rotating
    /\ gateway' = [gateway EXCEPT !.paused = TRUE, !.rotation = o,
                                  !.rotating = TRUE]
    /\ UNCHANGED <<requests, running, outbox, inbox, thread, suspended, remote,
                   runLease, faults>>

EndGatewayCredentialRotation(o) ==
    /\ gateway.rotation = o
    /\ gateway' = [gateway EXCEPT !.rotation = None, !.rotating = FALSE]
    /\ UNCHANGED <<requests, running, outbox, inbox, thread, suspended, remote,
                   runLease, faults>>

RotationLapses ==
    /\ gateway.rotating
    /\ gateway' = [gateway EXCEPT !.rotating = FALSE]
    /\ UNCHANGED <<requests, running, outbox, inbox, thread, suspended, remote,
                   runLease, faults>>

ResumeGatewayWrites(o) ==
    /\ gateway.rotation = o /\ gateway.rotating
    /\ gateway' = [gateway EXCEPT !.paused = FALSE, !.rotation = None,
                                  !.rotating = FALSE]
    /\ outbox' = IF ActivePlans THEN EnqueueNext(outbox) ELSE outbox
    /\ inbox' = IF ActivePlans
                THEN [inbox EXCEPT !.generation = NextGeneration] ELSE inbox
    /\ UNCHANGED <<requests, running, thread, suspended, remote, runLease,
                   faults>>

\* While an operator waits for quiescence, claims without a holder are freed.
RecoverExpiredGatewayDeliveryClaims ==
    LET expired == {k \in Keys : outbox[k].state = "processing"
                                 /\ Recoverable(k)}
    IN  /\ gateway.paused /\ expired # {}
        /\ outbox' = [k \in Keys |->
               IF k \in expired
               THEN [outbox[k] EXCEPT !.state = "pending", !.claim = None,
                        !.dispatcher = None, !.uncertain = TRUE]
               ELSE outbox[k]]
        /\ UNCHANGED <<requests, running, gateway, inbox, thread, suspended, remote,
                       runLease, faults>>

\* A person looked at GitHub, found no write of the entry under way, and
\* answers the recovery question.
RecoverUncertainInboxDelivery(k) ==
    /\ inbox.question[k] = "open" /\ remote.late[k] = 0
    /\ outbox[k].state = "rejected" /\ outbox[k].uncertain
    /\ LET retried == [outbox EXCEPT ![k] = [Queued EXCEPT !.uncertain = TRUE]]
       IN  outbox' = EnqueueNext(retried)
    /\ inbox' = [inbox EXCEPT !.question = [@ EXCEPT ![k] = "answered"],
                              !.authorised = @ \cup {k},
                              !.generation = NextGeneration]
    /\ UNCHANGED <<requests, running, gateway, thread, suspended, remote, runLease, faults>>

-----------------------------------------------------------------------------
(* Time and faults.                                                         *)

\* A lease is renewed three times before it can lapse, unless its holder is
\* gone or suspended.
DispatcherLapses ==
    /\ gateway.live /\ gateway.dispatcher \in suspended \cup {Lost}
    /\ gateway' = [gateway EXCEPT !.live = FALSE]
    /\ UNCHANGED <<requests, running, outbox, inbox, thread, suspended, remote,
                   runLease, faults>>

Rename(token, g) == IF token = g THEN Lost ELSE token

CrashGateway(g) ==
    /\ faults < MaxFaults /\ faults' = faults + 1
    /\ thread[g] # Idle
    /\ thread' = [thread EXCEPT ![g] = Idle]
    /\ suspended' = suspended \ {g}
    /\ gateway' = [gateway EXCEPT !.dispatcher = Rename(@, g)]
    /\ outbox' = [k \in Keys |->
           [outbox[k] EXCEPT !.claim = Rename(@, g),
                             !.dispatcher = Rename(@, g)]]
    /\ UNCHANGED <<requests, running, inbox, remote, runLease>>

\* Bound: only where it goes on with something it read.
SuspendGateway(g) ==
    /\ faults < MaxFaults /\ faults' = faults + 1
    /\ g \notin suspended
    /\ thread[g].at \in {"claimed", "sending", "finishing"}
    /\ suspended' = suspended \cup {g}
    /\ UNCHANGED <<requests, running, outbox, gateway, inbox, thread, remote, runLease>>

\* The supervisor starts a process while an older one does not answer.
StartGateway(g) ==
    /\ g \notin running /\ running \subseteq suspended
    /\ running' = running \cup {g}
    /\ UNCHANGED <<requests, outbox, gateway, inbox, thread, suspended,
                   remote, runLease, faults>>

WakeGateway(g) ==
    /\ g \in suspended /\ suspended' = suspended \ {g}
    /\ UNCHANGED <<requests, running, outbox, gateway, inbox, thread, remote, runLease, faults>>

-----------------------------------------------------------------------------
Dispatching(g) ==
    \/ \E k \in Keys : EnsureGatewayDispatcher(g, k)
    \/ ClaimDeliveryOutbox(g)
    \/ ClaimRefused(g)
    \/ ClaimExhausted(g)
    \/ DispatcherLost(g)
    \/ \E a \in {"available", "unavailable", "refused"} :
          CredentialAvailable(g, a)
    \/ ValidateDelivery(g)
    \/ Observe(g)
    \/ ObserveFails(g)
    \/ Apply(g)
    \/ ApplyUnanswered(g)
    \/ ApplyRefused(g)
    \/ ObserveUncertain(g)
    \/ FinishWithoutLease(g)
    \/ FinishFenced(g)
    \/ FinishDelivery(g)
    \/ FinishUnrecorded(g)
    \/ PauseForCredential(g)
    \/ ProjectCredentialQuestion(g)
    \/ DeferRefused(g)

Administration ==
    \/ PauseGatewayWrites
    \/ RotationLapses
    \/ RecoverExpiredGatewayDeliveryClaims
    \/ \E o \in Owners : BeginGatewayCredentialRotation(o)
    \/ \E o \in Owners : EndGatewayCredentialRotation(o)
    \/ \E o \in Owners : ResumeGatewayWrites(o)
    \/ \E k \in Keys : RecoverUncertainInboxDelivery(k)

Surroundings ==
    \/ \E k \in Keys : EnqueueDelivery(k)
    \/ QueueWorkflowInboxProjection
    \/ \E to \in {"complete", "replaced"} : PlanChanges(to)
    \/ RunLeaseEnds
    \/ \E k \in Keys : WriteLands(k)
    \/ \E k \in Keys : WriteLost(k)
    \/ DispatcherLapses
    \/ \E g \in Gateways : CrashGateway(g)
    \/ \E g \in Gateways : SuspendGateway(g)
    \/ \E g \in Gateways : WakeGateway(g)
    \/ \E g \in Gateways : StartGateway(g)

OutboxNext ==
    (\E g \in running : Dispatching(g)) \/ Administration \/ Surroundings

OutboxSpec == OutboxInit /\ [][OutboxNext]_outboxVars

-----------------------------------------------------------------------------
(* What the outbox promises.                                                *)

\* Types, with the attempts never above their limit.
OutboxTypeOK ==
    /\ requests \subseteq Keys /\ running \subseteq Gateways
    /\ outbox \in [Keys -> Row]
    /\ gateway \in [paused : BOOLEAN, dispatcher : Tokens, live : BOOLEAN,
                    rotation : Owners \cup {None}, rotating : BOOLEAN]
    /\ inbox.generation \in Nat
    /\ inbox.plan \in {"active", "complete", "replaced"}
    /\ suspended \subseteq Gateways /\ runLease \in BOOLEAN
    /\ faults \in 0..MaxFaults

\* A push, a pull request, a comment or a plan projection is written to GitHub
\* at most once per entry, whatever crashes, hangs, times out or is retried:
\* an entry whose write may be out is only ever observed again.  A pull request
\* that comes back with another head or base is not counted.
WrittenOnce ==
    \A k \in Keys : ~IsInbox(k) => remote.effects[k] + remote.late[k] <= 1

\* An entry is recorded as delivered only if GitHub has its effect.
SuccessIsReal ==
    \A k \in Keys : outbox[k].state = "succeeded" /\ ~IsInbox(k)
                       => remote.effects[k] > 0

\* The pull request is never written before the branch it is about, although
\* an HTTP delivery bypasses the order the outbox loop keeps.
PullAfterPush ==
    \A k \in Keys : Op[k] = "pull" /\ remote.effects[k] + remote.late[k] > 0
        => \E p \in Keys : Op[p] = "push" /\ remote.effects[p] > 0

\* While a newer inbox is written, no write of an older one is under way whose
\* entry was not settled by an observation, a person or the end of its plan.
\* The entry whose last attempt was abandoned with its outcome unknown is the
\* exception: it is rejected without being marked uncertain.
InboxFence ==
    [][remote' # remote =>
         \A k, o \in Keys :
           /\ IsInbox(k) /\ IsInbox(o) /\ Gen[o] < Gen[k]
           /\ remote.late[o] > 0
           /\ remote'.shown = Gen[k] \/ remote'.late[k] > remote.late[k]
           /\ remote'.shown # remote.shown \/ remote'.late[k] # remote.late[k]
           /\ outbox[k].state = "processing"
           => \/ outbox[o].state = "succeeded"
              \/ outbox[o].state = "rejected" /\ ~outbox[o].uncertain
                 /\ Exhausted(o)]_outboxVars

\* A delivered inbox generation is what GitHub shows until the next one is
\* queued, as long as no write outlived the claim it was sent under.
InboxShown ==
    \A k \in Keys :
        /\ IsInbox(k) /\ outbox[k].state = "succeeded" /\ ~remote.stray
        /\ Gen[k] = inbox.generation /\ \A o \in Keys : remote.late[o] = 0
        => remote.shown = Gen[k]

\* An inbox entry that blocks every later one can be released: its recovery
\* question is open.
BlockedIsAskable ==
    \A k \in Keys :
        IsInbox(k) /\ outbox[k].state = "rejected" /\ outbox[k].uncertain
            => inbox.question[k] = "open"

\* A delivered entry stays delivered, and a rejected one is only taken up
\* again by the person who answered its question: no late holder of a claim
\* overturns what was recorded after it.
SettledIsFinal ==
    [][\A k \in Keys :
         /\ outbox[k].state = "succeeded" => outbox'[k].state = "succeeded"
         /\ outbox[k].state = "rejected" /\ outbox'[k].state # "rejected"
              => inbox'.question[k] = "answered" /\ outbox'[k].uncertain]_outboxVars

=============================================================================
