----------------------------- MODULE WorkerRuns -----------------------------
(***************************************************************************)
(* The callers of the run ledger: the goroutine that drives each run from  *)
(* its claim to its outcome (internal/agent/controller.go), the container  *)
(* it creates and starts (internal/worker/runtime.go), the isolation of    *)
(* containers (internal/isolation), and the recovery that every control    *)
(* pass runs (internal/scheduler).  The process that hosts goroutines and  *)
(* recovery may crash between any two steps; the ledger and the containers *)
(* survive it.                                                             *)
(*                                                                         *)
(* Every step that touches the ledger is an action of RunStore taken in    *)
(* the phase of the code that calls it.  The mutex that the store holds in *)
(* each process (leaseMu) is left out: the Gateway and the command line    *)
(* are processes of their own and are not held off by it.                  *)
(***************************************************************************)
EXTENDS RunStore

CONSTANTS
    WorkspaceLoss,   \* recovery may find the workspace of a run unavailable
    MaxCrashes       \* bound: crashes of the control plane process

ASSUME WorkerAssumption == WorkspaceLoss \in BOOLEAN /\ MaxCrashes \in Nat

\* The goroutine of run g isolates as caller g, everybody else as control.
control == 0
ASSUME CallerAssumption == Caller = {control} \cup Gen

VARIABLES
    worker,   \* the phase of the goroutine that drives each run
    box,      \* the container of each run
    iso,      \* the isolation each caller is carrying out on a ticket
    crashes   \* how often the process has crashed

workerVars == <<worker, box, iso, crashes>>
allVars == <<vars, workerVars>>

Phase ==
    {"none",       \* no goroutine
     "preparing",  \* workspace, credentials, image
     "reserved",   \* the prelaunch is reserved
     "creating",   \* docker create is in flight, under the create fence
     "admitting",  \* the fence is released, the start is not admitted
     "starting",   \* docker start is in flight
     "attached",   \* the container runs
     "unstarted",  \* it is certain that no container started
     "unclean",    \* a prepared container could not be removed
     "uncertain",  \* the container may still run
     "exited",     \* the container ran and is certified to have exited
     "reported"}   \* its result is recorded

Isolation == [gen : 0..MaxGen, removed : BOOLEAN]
NoIsolation == [gen |-> 0, removed |-> FALSE]

InitWorkers ==
    /\ Init
    /\ worker = [t \in Ticket |-> [g \in Gen |-> "none"]]
    /\ box = [t \in Ticket |-> [g \in Gen |-> "none"]]
    /\ iso = [t \in Ticket |-> [c \in Caller |-> NoIsolation]]
    /\ crashes = 0

\* The goroutine of run g leaves phase from for phase to.
Moves(t, g, from, to) ==
    /\ worker[t][g] \in from
    /\ worker' = [worker EXCEPT ![t][g] = to]

Agent(t, g) == run[t][g].kind = "agent"

-----------------------------------------------------------------------------
(* Claims.                                                                 *)

\* launch starts the goroutine of the run that was claimed.
ClaimAndLaunch(t) ==
    /\ ClaimReady(t) \/ ClaimQueuedReview(t)
    /\ worker' = [worker EXCEPT ![t][session'[t].current] = "preparing"]
    /\ UNCHANGED <<box, iso, crashes>>

\* The other steps of the ticket start no goroutine.
TicketMovesOn(t) ==
    /\ \/ ClaimReadyReleasesFeedback(t)
       \/ ClaimReadyExhausted(t)
       \/ ClaimReadyAuthenticationLost(t)
       \/ ClaimPendingDelivery(t)
       \/ ClaimQueuedReviewExhausted(t)
       \/ ClaimQueuedReviewAuthenticationLost(t)
       \/ AnswerNeedsAttention(t)
       \/ RetryPollFailure(t)
       \/ AnswerQualityGate(t)
       \/ RecordReviewFeedback(t)
       \/ BackoffElapses(t)
       \/ \E g \in Gen : \/ Lapse(t, g)
                         \/ RecoverUnlaunchedDelivery(t, g)
                         \/ run[t][g].launch = "launched" /\ BeginWrite(t, g)
                         \/ EndWrite(t, g)
    /\ UNCHANGED workerVars

-----------------------------------------------------------------------------
(* The goroutine of a run, up to the end of its container.                 *)

\* RetryDelivery also picks up a delivery that no goroutine drives.  Of two
\* goroutines only the one that reserves the prelaunch goes on.
Prelaunch(t, g) ==
    /\ ReservePrelaunch(t, g)
    /\ Moves(t, g, IF Agent(t, g) THEN {"preparing"} ELSE {"none", "preparing"}, "reserved")
    /\ UNCHANGED <<box, iso, crashes>>

BeginCreate(t, g) ==
    /\ AcquireCreateFence(t, g)
    /\ Moves(t, g, {"reserved"}, "creating")
    /\ UNCHANGED <<box, iso, crashes>>

\* The create fence is refused to the run, or the store fails.
RefusedBeforeCreate(t, g) ==
    /\ Moves(t, g, {"reserved"}, "unstarted")
    /\ UNCHANGED <<vars, box, iso, crashes>>

\* The daemon makes the container.
DockerCreates(t, g) ==
    /\ worker[t][g] = "creating"
    /\ box[t][g] = "none"
    /\ box' = [box EXCEPT ![t][g] = "created"]
    /\ UNCHANGED <<vars, worker, iso, crashes>>

\* removePrepared and cleanupPreparedContainers: the prepared container is
\* removed, or stays behind when docker fails.
CleanUp(t, g, from) ==
    \/ /\ Moves(t, g, from, "unstarted")
       /\ box' = [box EXCEPT ![t][g] = "none"]
    \/ /\ Moves(t, g, from, "unclean")
       /\ UNCHANGED box

\* docker create returned, well or not, and the fence is released.
EndCreate(t, g) ==
    /\ ReleaseCreateFence(t, g)
    /\ \/ box[t][g] = "created" /\ Moves(t, g, {"creating"}, "admitting") /\ UNCHANGED box
       \/ CleanUp(t, g, {"creating"})
    /\ UNCHANGED <<iso, crashes>>

\* An isolation, or the end of the run, took the fence away.
EndCreateFenced(t, g) ==
    /\ run[t][g].create # "pending" \/ run[t][g].isolating
    /\ CleanUp(t, g, {"creating"})
    /\ UNCHANGED <<vars, iso, crashes>>

AdmitStart(t, g) ==
    /\ ReserveLaunch(t, g)
    /\ Moves(t, g, {"admitting"}, "starting")
    /\ UNCHANGED <<box, iso, crashes>>

\* The admission is refused, the store fails, or the context of the run is over.
RejectStart(t, g) ==
    /\ CleanUp(t, g, {"admitting"})
    /\ UNCHANGED <<vars, iso, crashes>>

DockerStarts(t, g) ==
    /\ box[t][g] = "created"
    /\ Moves(t, g, {"starting"}, "attached")
    /\ box' = [box EXCEPT ![t][g] = "running"]
    /\ UNCHANGED <<vars, iso, crashes>>

\* docker start --attach ends without a certified exit: the container is gone,
\* the deadline of the lease killed the client, or the daemon dropped it.  The
\* container may run on.
LoseContainer(t, g) ==
    /\ \/ UNCHANGED box
       \/ /\ worker[t][g] = "starting"
          /\ box[t][g] = "created"
          /\ box' = [box EXCEPT ![t][g] = "running"]
    /\ Moves(t, g, {"starting", "attached"}, "uncertain")
    /\ UNCHANGED <<vars, iso, crashes>>

ContainerExits(t, g) ==
    /\ box[t][g] = "running"
    /\ Moves(t, g, {"attached"}, "exited")
    /\ box' = [box EXCEPT ![t][g] = "none"]
    /\ UNCHANGED <<vars, iso, crashes>>

ReportContainer(t, g) ==
    /\ RecordWorkerContainer(t, g)
    /\ Moves(t, g, {"exited"}, "reported")
    /\ UNCHANGED <<box, iso, crashes>>

-----------------------------------------------------------------------------
(* The goroutine of a run, from the end of its container to its outcome.   *)

\* An uncertain container is isolated before anything is recorded.
Certain(t, g) == \/ worker[t][g] \in {"preparing", "unstarted", "exited", "reported"}
                 \/ worker[t][g] \in {"uncertain", "unclean"} /\ g \in proof[t]

AgentEnds(t, g) ==
    /\ Certain(t, g)
    /\ \/ \E infrastructure \in BOOLEAN : RecordRunFailure(t, g, infrastructure)
       \/ RecordRunAuthenticationFailure(t, g)
    /\ Moves(t, g, Phase, "none")
    /\ UNCHANGED <<box, iso, crashes>>

\* Mutation: the candidate of an uncertain container is accepted too.
AgentDeliversUncertain(t, g) ==
    /\ worker[t][g] \in {"uncertain", "reported"}
    /\ AcceptCandidate(t, g)
    /\ worker' = [worker EXCEPT ![t][g] = "none", ![t][session'[t].current] = "preparing"]
    /\ UNCHANGED <<box, iso, crashes>>

\* The goroutine goes on with the delivery of its candidate.
AgentDelivers(t, g) ==
    /\ worker[t][g] = "reported"
    /\ AcceptCandidate(t, g)
    /\ worker' = [worker EXCEPT ![t][g] = "none", ![t][session'[t].current] = "preparing"]
    /\ UNCHANGED <<box, iso, crashes>>

\* Preflight failures of a delivery, before its container is created.
DeliveryPreflightFails(t, g) ==
    /\ \/ FailDelivery(g, t, g)
       \/ FinishLapsedDelivery(g, t, g)
       \/ \E isolated \in BOOLEAN : FailDeliveryWithClass(g, t, g, isolated, TRUE)
       \/ RevalidateDelivery(g, t, g)
       \/ DeferDelivery(g, t, g)
    /\ Moves(t, g, {"reserved"}, "none")
    /\ UNCHANGED <<box, iso, crashes>>

DeliveryNeverStarted(t, g) ==
    /\ \E isolated, infrastructure \in BOOLEAN :
         /\ isolated \/ worker[t][g] = "unstarted"
         /\ FailDeliveryLaunch(g, t, g, isolated, infrastructure)
    /\ Moves(t, g, {"unstarted", "unclean"}, "none")
    /\ UNCHANGED <<box, iso, crashes>>

DeliveryLost(t, g) ==
    /\ \/ FinishLapsedDelivery(g, t, g)
       \/ \E infrastructure \in BOOLEAN : FailDeliveryWithClass(g, t, g, TRUE, infrastructure)
    /\ Moves(t, g, {"uncertain"}, "none")
    /\ UNCHANGED <<box, iso, crashes>>

\* The result of the container cannot be recorded.
DeliveryUnrecorded(t, g) ==
    /\ FailDelivery(g, t, g) \/ FinishLapsedDelivery(g, t, g)
    /\ Moves(t, g, {"exited"}, "none")
    /\ UNCHANGED <<box, iso, crashes>>

DeliveryReports(t, g) ==
    /\ \/ CompleteDelivery(t, g)
       \/ PauseForQualityGate(t, g)
       \/ FailDelivery(g, t, g)
       \/ FinishLapsedDelivery(g, t, g)
       \/ \E isolated, infrastructure \in BOOLEAN :
            FailDeliveryWithClass(g, t, g, isolated, infrastructure)
       \/ RevalidateDelivery(g, t, g)
       \/ DeferDelivery(g, t, g)
    /\ Moves(t, g, {"reported"}, "none")
    /\ UNCHANGED <<box, iso, crashes>>

\* A goroutine may return without recording anything, because the store or
\* docker fails or refuses it.
GiveUp(t, g) ==
    /\ Moves(t, g, {"preparing", "reserved", "unstarted", "unclean", "uncertain", "exited",
                    "reported"}, "none")
    /\ UNCHANGED <<vars, box, iso, crashes>>

-----------------------------------------------------------------------------
(* IsolateWorkers: fence, remove the containers, acknowledge.              *)

\* A goroutine isolates its own run; but one whose delivery container is
\* uncertain isolates whatever delivery is current by then.
MayIsolate(c, t) ==
    \/ c = control
    \/ /\ c # control
       /\ worker[t][c] \in {"reserved", "unstarted", "unclean", "uncertain", "exited", "reported"}
       /\ \/ session[t].current = c
          \/ /\ ~Agent(t, c)
             /\ ~Agent(t, session[t].current)
             /\ worker[t][c] \in {"unclean", "uncertain"}

BeginIsolation(c, t) ==
    /\ iso[t][c].gen = 0
    /\ MayIsolate(c, t)
    /\ FenceIsolation(c, t)
    /\ iso' = [iso EXCEPT ![t][c] = [gen |-> session[t].current, removed |-> FALSE]]
    /\ UNCHANGED <<worker, box, crashes>>

\* The acknowledgement that follows is refused once the run has ended.
RemoveContainers(c, t) ==
    /\ iso[t][c].gen # 0
    /\ ~iso[t][c].removed
    /\ iso' = [iso EXCEPT ![t][c] =
         IF Held(t, @.gen) THEN [@ EXCEPT !.removed = TRUE] ELSE NoIsolation]
    /\ box' = [box EXCEPT ![t][iso[t][c].gen] = "none"]
    /\ UNCHANGED <<vars, worker, crashes>>

\* Mutation: the isolation is acknowledged before the containers are removed.
EndIsolationEarly(c, t) ==
    /\ iso[t][c].gen # 0
    /\ iso[t][c].gen = session[t].current
    /\ AcknowledgeIsolation(c, t)
    /\ iso' = [iso EXCEPT ![t][c] = NoIsolation]
    /\ UNCHANGED <<worker, box, crashes>>

EndIsolation(c, t) ==
    /\ iso[t][c].removed
    /\ iso[t][c].gen = session[t].current
    /\ AcknowledgeIsolation(c, t)
    /\ iso' = [iso EXCEPT ![t][c] = NoIsolation]
    /\ UNCHANGED <<worker, box, crashes>>

\* docker fails, or the fence is in conflict.
AbortIsolation(c, t) ==
    /\ iso[t][c].gen # 0
    /\ iso' = [iso EXCEPT ![t][c] = NoIsolation]
    /\ UNCHANGED <<vars, worker, box, crashes>>

-----------------------------------------------------------------------------
(* The control pass: recovery, escalation and merges.                      *)

\* Mutation: of the expired agents only those that were launched are listed.
MissingLaunched(t, g) ==
    /\ Held(t, g)
    /\ IF run[t][g].lapsed
       THEN run[t][g].launch = "launched"
       ELSE Agent(t, g) /\ (box[t][g] # "running" \/ WorkspaceLoss)

\* The pass lists expired runs, and of the others the agents whose container
\* is not running or whose workspace is unavailable.  That it looks first and
\* reconciles later adds nothing: what it then isolates is missing again.
Missing(t, g) ==
    /\ Held(t, g)
    /\ IF run[t][g].lapsed
       THEN Agent(t, g) \/ run[t][g].launch # "ready"
       ELSE Agent(t, g) /\ (box[t][g] # "running" \/ WorkspaceLoss)

Reconcile(t, g) ==
    /\ Missing(t, g)
    /\ ReconcileMissingRun(control, t, g)
    /\ UNCHANGED workerVars

\* Only agents found missing before their lease lapsed are provisioned.
ReconcileAuthentication(t, g) ==
    /\ Missing(t, g)
    /\ Agent(t, g)
    /\ RecoverAuthenticationFailure(t, g)
    /\ UNCHANGED workerVars

ControlEnds(t) ==
    /\ Escalate(control, t) \/ MarkDelivered(control, t)
    /\ UNCHANGED workerVars

-----------------------------------------------------------------------------
(* Crashes, and containers that nobody watches.                            *)

\* Goroutines, isolations and their proofs are lost.  docker commands in
\* flight may still take effect.
Crash ==
    /\ crashes < MaxCrashes
    /\ crashes' = crashes + 1
    /\ \E late \in BOOLEAN :
         box' = [t \in Ticket |-> [g \in Gen |->
                   CASE late /\ worker[t][g] = "creating" -> "created"
                     [] late /\ worker[t][g] = "starting" /\ box[t][g] = "created" -> "running"
                     [] OTHER -> box[t][g]]]
    /\ worker' = [t \in Ticket |-> [g \in Gen |-> "none"]]
    /\ iso' = [t \in Ticket |-> [c \in Caller |-> NoIsolation]]
    /\ proof' = [t \in Ticket |-> {}]
    /\ UNCHANGED <<session, run, ticketState, queued, backoff, questions, maintenance>>

OrphanExits(t, g) ==
    /\ worker[t][g] # "attached"
    /\ box[t][g] = "running"
    /\ box' = [box EXCEPT ![t][g] = "none"]
    /\ UNCHANGED <<vars, worker, iso, crashes>>

-----------------------------------------------------------------------------

WorkerStep(t, g) ==
    \/ Prelaunch(t, g)
    \/ BeginCreate(t, g)
    \/ RefusedBeforeCreate(t, g)
    \/ DockerCreates(t, g)
    \/ EndCreate(t, g)
    \/ EndCreateFenced(t, g)
    \/ AdmitStart(t, g)
    \/ RejectStart(t, g)
    \/ DockerStarts(t, g)
    \/ LoseContainer(t, g)
    \/ ContainerExits(t, g)
    \/ ReportContainer(t, g)
    \/ AgentEnds(t, g)
    \/ AgentDelivers(t, g)
    \/ DeliveryPreflightFails(t, g)
    \/ DeliveryNeverStarted(t, g)
    \/ DeliveryLost(t, g)
    \/ DeliveryUnrecorded(t, g)
    \/ DeliveryReports(t, g)
    \/ GiveUp(t, g)
    \/ OrphanExits(t, g)

IsolationStep(c, t) ==
    \/ BeginIsolation(c, t)
    \/ RemoveContainers(c, t)
    \/ EndIsolation(c, t)
    \/ AbortIsolation(c, t)

ControlStep(t) ==
    \/ ControlEnds(t)
    \/ \E g \in Gen : \/ Reconcile(t, g)
                      \/ ReconcileAuthentication(t, g)

NextWorkers ==
    \/ \E t \in Ticket : ClaimAndLaunch(t) \/ TicketMovesOn(t) \/ ControlStep(t)
    \/ \E t \in Ticket, g \in Gen : WorkerStep(t, g)
    \/ \E c \in Caller, t \in Ticket : IsolationStep(c, t)
    \/ Crash

SpecWorkers == InitWorkers /\ [][NextWorkers]_allVars

-----------------------------------------------------------------------------
(* Properties.                                                             *)

WorkersTypeOK ==
    /\ TypeOK
    /\ worker \in [Ticket -> [Gen -> Phase]]
    /\ box \in [Ticket -> [Gen -> {"none", "created", "running"}]]
    /\ iso \in [Ticket -> [Caller -> Isolation]]
    /\ crashes \in 0..MaxCrashes

\* Only the run that holds its ticket has a running container: no run is ever
\* terminalized under one, so that no two containers share a workspace.
NoZombie ==
    \A t \in Ticket, g \in Gen : box[t][g] = "running" => Held(t, g)

\* A caller that holds an isolation proof can rely on it: the container of
\* the run is gone, and no docker command in flight can bring it back.
ProofMeansGone ==
    \A t \in Ticket : proof[t] # {} =>
        /\ box[t][session[t].current] # "running"
        /\ ~(worker[t][session[t].current] = "starting" /\ box[t][session[t].current] = "created")

\* A candidate is accepted only from a run whose container ran to its end,
\* and never while another container of the ticket is about to run.
AcceptedAloneInWorkspace ==
    [][\A t \in Ticket : session'[t].accepted # session[t].accepted =>
         \A g \in Gen : box[t][g] # "running"]_allVars

\* Recovery supersedes no agent that a living goroutine drives under an
\* unlapsed lease (Recover is documented as what follows a restart).
RecoverySparesAttendedRuns ==
    [][\A t \in Ticket, g \in Gen :
         /\ worker[t][g] # "none"
         /\ Owned(t, g)
         /\ Agent(t, g)
         => run'[t][g].state # "superseded"]_allVars

(* Liveness.  Leases expire and writes end; every control pass looks for     *)
(* expired and missing runs, and docker does not fail for ever.              *)

ControlFairness ==
    \A t \in Ticket :
        /\ \A g \in Gen :
             /\ WF_allVars(Lapse(t, g) /\ UNCHANGED workerVars)
             /\ WF_allVars(EndWrite(t, g) /\ UNCHANGED workerVars)
             /\ WF_allVars(RecoverUnlaunchedDelivery(t, g) /\ UNCHANGED workerVars)
             /\ WF_allVars(Reconcile(t, g))
        /\ WF_allVars(BeginIsolation(control, t))
        /\ SF_allVars(RemoveContainers(control, t))
        /\ SF_allVars(EndIsolation(control, t))
        /\ WF_allVars(iso[t][control].gen # session[t].current /\ AbortIsolation(control, t))

LiveWorkers == SpecWorkers /\ ControlFairness

\* Every run comes to an end, though its goroutine may hang, return without
\* recording anything or die with the process at any point.
EveryRunEnds ==
    \A t \in Ticket, g \in Gen :
        run[t][g].state = "running" ~> run[t][g].state # "running"

=============================================================================
