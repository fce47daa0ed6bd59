# Specifications of the agent workflow control plane

TLA+ modules, TLC instances and TLAPS proofs for the control plane in this
repository: the program that takes a *Delivery Plan* (a GitHub issue with a
graph of ticket issues), runs one coding agent per ticket in a docker
container, delivers the agent's candidate as a pull request through a GitHub
Gateway, answers reviews with revisions, and asks a human when it cannot go on.

Everything the program must remember lives in one SQLite database. Several
processes and goroutines read and write it concurrently, and each of them may
die at any point while docker containers and GitHub go on. What has to be right
is therefore the protocol between the database, the goroutines, the containers
and GitHub, and that is what is modelled here.

Paths below are relative to `src/internal` unless they begin with `src/` or
`cmd/`.

## 1. The system

| Part | State it keeps | Operations |
|---|---|---|
| **Run ledger** (`store/claim.go`, `store/session.go`) | `ticket_sessions` (current run, lease generation, recovery epoch, accepted candidate, delivery_retry_pending, failures), `worker_runs`, `run_leases`, `worker_container_results`, `run_failures`, `infrastructure_retry_backoffs`, `ticket_runtime` | claim a ready ticket, claim a pending delivery, reserve the prelaunch, take and release the create fence, admit the start, record the container, accept a candidate, record a failure, end a delivery in six ways, fence and acknowledge an isolation, reconcile a missing run, recover an expired delivery, mark delivered |
| **Worker execution** (`agent/controller.go`, `worker/runtime.go`, `isolation/coordinator.go`, `agent/workspace.go`) | one goroutine per run, one container per run, isolation proofs in memory | provision, create, start --attach, certify the exit, parse the output, record the outcome, isolate and try again |
| **Scheduler and control pass** (`scheduler/scheduler.go`, `cmd/workflow/main.go` `control`) | none of its own | on every poll: recover, answer, claim reviews, claim deliveries, dispatch |
| **Ready frontier** (`plan/frontier.go`) and **dispatch** (`store/dispatch.go`) | fairness cursor over plan roots | order the ready tickets of all plans, try the head |
| **Review feedback** (`store/feedback.go`) | review events, batches, claims of batches by runs | record, batch, claim, release, freeze the plan of a closed pull request |
| **Quality gates** (`store/quality_gate.go`) | gate questions and their answers | pause a delivery, resume it |
| **Questions and answers** (`store/poll.go`) | `workflow_questions`, inbox projections | escalate, answer, replace, cancel, recover |
| **Poller** (`github/poller.go`, `store/poll.go`) | poll lease, cursor, failure counters, bootstrap recovery eligibility | acquire, renew, observe, succeed, defer, fail |
| **Delivery outbox and Gateway** (`store/delivery.go`, `delivery/`, `store/gateway_state.go`) | `delivery_outbox`, `delivery_write_fences`, dispatcher lease, pause, credential rotation | enqueue, claim, execute under a write fence, complete, requeue, defer, reject, mark uncertain, recover, pause, rotate |
| **Plans** (`plan/`, `store/amendment.go`, `store/projection.go`) | plan versions and their state, amendments | activate in two steps around a projection, amend, freeze, cancel |
| **Maintenance fence** (`store/maintenance.go`) | one row | begin, clear |
| **Platform launcher** (`launcher/`) | attempts, consents, the active record, lock file | apply: fence, stop, stage, verify, switch, start, clear, or fail the attempt |
| **Control Plane process** (`controlplane/`, `cmd/workflow/serve.go`) | runtime record, supervised goroutines | start, watch repositories, run repositories, stop |
| **Repository watches, code task intake** (`store/repository_watch.go`, `store/code_task_intake.go`) | cursor, receipts | observe issues, accept each once, move the cursor |
| **Locks** (`startup/`) | lock files | database access, restore barrier, home, launch, runtime and repository locks |
| **Backup and restore** (`store/backup.go`) | backup files with metadata | back up, verify, restore, reconcile what a restore brought back |
| **Repository setup, onboarding** (`onboarding/`, `setup*/`) | setup attempts, pull requests | plan, consent, apply, activate |
| **Admission and credentials** (`admission/`, `credential/`, `executionauth/`, `codexauth/`) | secrets and their verification | admit, rotate, provision |
| **Health and doctor**, **release and bundles**, **candidate parsing**, **GitHub adapter** | none, or files | probes, digests, parsing, HTTP |

### How the parts interact

```
  poller --observes--> questions, feedback, merges --+
                                                     v
  control pass --claims--> RUN LEDGER <--outcomes-- goroutine of a run
      |                    (SQLite)                      |
      | isolates               ^  ^                      | create, start, wait
      v                        |  |                      v
  docker daemon  <-------------|--|-----------------  container
                               |  |
  Gateway process --write fence+  +-- command line, launcher (maintenance)
      |
      v
   GitHub
```

* *Calls.* The control pass, which `runPollGitHub` runs on every poll, recovers,
  claims and launches. A launch starts a goroutine that drives the run from its
  claim to its outcome, and goes on with the delivery of its candidate.
* *Shared state.* They meet only in the database. A transaction is atomic, and
  the mutex `leaseMu` orders the transactions of one process; nothing orders
  those of different processes, nor a docker command and a transaction.
* *Callbacks.* `AcquireWorkerContainerCreateFence` returns a release function,
  `runWithStartAdmission` calls the admission between `docker create` and
  `docker start`, and `RetryWorkerTransition` calls a transition again with the
  proofs that isolations gave it.
* *Fencing.* Each run has the next lease generation of its session, and every
  operation of its owner presents the run and its token. An owner that was taken
  over learns of it at its next operation.
* *Isolation.* A run that may have a container may only be terminalized with a
  proof: the run is fenced, its containers are removed, the removal is
  acknowledged, and a transition that presents the proof finds the same run.

### What is hard, and what makes each part correct

* **Run ledger.** Lapsed owners that come back, claims that take over, deliveries
  issued without a capacity check, escalations, merges and answers that arrive
  in any order. *Correct if* a ticket has one live run, generations only grow
  and are used once, outcomes are final, capacity bounds the unlapsed leases,
  work starts only behind delivered blockers, claimed feedback is not lost, and
  whoever waits for a human has asked one.
* **Worker execution.** A crash between any two steps, docker commands in flight
  when the process dies, a start that races an isolation, an attach that ends
  without a certified exit. *Correct if* no container runs without the run that
  holds the ticket, a proof means that the container is gone for good, a
  candidate is accepted from a workspace nobody else uses, and every run ends.
* **Dispatch.** The head of the global frontier is tried alone. *Correct if* no
  plan starves.
* **Outbox and Gateway.** A write that timed out may have happened. *Correct if*
  a write whose effect is uncertain is not repeated blindly, no write happens for
  a run that lost its ticket, and a rejected write escalates once.
* **Poller.** A poll may outlive its lease. *Correct if* only the holder changes
  the cursor, answers and observations.
* **Plans.** A crash between the projecting version, the projection on GitHub and
  the mark; amendments, freezes, merges and cancellations that meet in any order.
  *Correct if* an activation can be resumed, no run works for a version that is
  not current, what stops a plan can be answered, and merges stay merged.
* **Launcher and Control Plane.** A crash between fence, stop, backup, switch and
  start; two installers; processes of the old generation that go on. *Correct if*
  the new ledger has everything the old one recorded before anything else writes
  to it, and scheduling is never left fenced behind.
* **Watches.** A crash between the acceptance of an issue and the cursor.
  *Correct if* every issue is handed over, and once.
* **Locks.** Two lock files taken in turn. *Correct if* a restore excludes every
  reader, and readers cannot starve it.
* **Backups.** A restore returns the database to the past while GitHub and the
  containers are in the present. *Correct if* nothing is repeated or revived.

PROJECT.json lists the hazards at their lines, each with the properties that
would catch it or the reason why none does yet.

## 2. Plan

Written in this order, the most important behaviour first.

| # | Module | Subject | Status |
|---|---|---|---|
| 1 | `RunStore` | the run ledger, all its transactions interleaved | done |
| 2 | `TicketFencing` | abstract specification: what the ledger promises about generations | done |
| 3 | `WorkerRuns` (extends `RunStore`) | goroutines, containers, isolation, recovery, crashes | done |
| 4 | `RunStoreTypes`, `RunStoreFencing`, `RunStoreStability`, `WorkerRunsProofs` | proofs about 1, 2 and 3 | done |
| 5 | `DeliveryOutbox` | outbox entries, attempts, uncertain writes, reconciliation, inbox generations, dispatcher lease, pause and rotation | done |
| 6 | `GitHubPoll` | poll lease, cursor, failure budget, bootstrap recovery, pause and answers | done |
| 7 | `Plans` | versions, activation, rotation over plans, amendments, freezes, replacements | done |
| 8 | `Platform` | the launcher's apply with crashes, two installers, the Control Plane's processes, the fence of each ledger | done |
| 9 | `MCPlansOutbox`, `MCPollPlatform` | one instance for 5 and 7, one for 6 and 8 | done |
| 10 | `ReviewInbox` | batching and quiet periods of feedback, the consumption of gate answers | left |
| 11 | `WatchSupervisor` | watches, cursor, receipts, removed and added watches | left |
| 12 | `RestoreBarrier` | two lock files, readers and a restore | left |
| 13 | restore as an action of 1 and 5 | what a restore retires | left |
| 14 | `DeliveryOutboxProofs`, `GitHubPollProofs`, `PlansProofs`, `PlatformProofs` | proofs about 5 to 8 | done |

Components that share no state share an instance: `scope` is chosen in `Init`
and a behaviour runs one component while the other stays where it began, so that
their state spaces add up.

Proved are the safety invariants and action properties of all runs (section 6).
Worth proving next, once 10 to 13 are modelled: that every observed issue is
handed over once, that a restore excludes every reader, and which of the
invariants of 1 and 5 a restore preserves.

## 3. The modules

### RunStore

One action for each store operation. Each of these is one SQLite write
transaction, and so is the action. `Next` lets any of them happen whenever its
guard holds: who calls it, and from which process, is not the store's to
choose.

| Variable | Code |
|---|---|
| `session[t]` | the row of `ticket_sessions`: `current` is `current_run_id`, `gen` is `current_lease_generation`, `accepted` the run of the accepted candidate, `retry` is `delivery_retry_pending` |
| `run[t][g]` | the `worker_runs` row of generation `g`, its `run_leases` row (`leased`, `lapsed`), and whether it has a recorded container result (`reported`), a write fence (`writing`), a claimed review batch (`revises`), a `run_failures` row (`failure`) |
| `ticketState[t]` | `ticket_runtime.state` |
| `queued[t]` | an unclaimed review batch or merge-ready revalidation waits |
| `backoff[t]` | `infrastructure_retry_backoffs.retry_at` lies in the future |
| `questions[t]` | the open needs-attention and quality-gate questions of the ticket, and the open poll-failure question that targets it |
| `maintenance` | a `platform_maintenance_fences` row exists |
| `proof[t]` | not a table: the callers that hold a `WorkerIsolationProof` for the current run |

| Code | Actions |
|---|---|
| `ClaimReady` | `ClaimReady`, `ClaimReadyReleasesFeedback`, `ClaimReadyExhausted`, `ClaimReadyAuthenticationLost`, one for each way the transaction can commit |
| `ClaimPendingDeliveryClaims` | `ClaimPendingDelivery` |
| `ClaimQueuedReviewRevision` | `ClaimQueuedReview`, `...Exhausted`, `...AuthenticationLost` |
| `ReserveWorkerPrelaunch`, `AcquireWorkerContainerCreateFence` and the release it returns, `reserveWorkerLaunch`, `RecordWorkerContainer` | `ReservePrelaunch`, `AcquireCreateFence`, `ReleaseCreateFence`, `ReserveLaunch`, `RecordWorkerContainer` |
| `FenceWorkerIsolation`, `AcknowledgeWorkerIsolation` | `FenceIsolation`, `AcknowledgeIsolation`; `LoseProofs` is a caller that forgets |
| `AcceptCandidate` | `AcceptCandidate`: the agent succeeds, the next generation is its delivery |
| `RecordRunFailure` | `RecordRunFailure`, `RecordRunAuthenticationFailure` |
| the delivery outcomes | `CompleteDelivery`, `FinishLapsedDelivery`, `FailDelivery`, `FailDeliveryWithClass`, `FailDeliveryLaunch`, `PauseForQualityGate`, `DeferDelivery`, `RevalidateDelivery` |
| `ActiveRecoveryRuns`, `ReconcileMissingRecoveryRun`, `RecordRecoveryAuthenticationFailure` | `RecoverUnlaunchedDelivery`, `ReconcileMissingRun`, `RecoverAuthenticationFailure` |
| `markTicketDelivered` | `MarkDelivered` |
| the escalations (`mark*NeedsAttentionTx`), also those of a poll that gives up | `Escalate` |
| `answerWorkflowQuestionTx` | `AnswerNeedsAttention`, `AnswerQualityGate`, and `RetryPollFailure` for each ticket a poll failure targets |
| `RecordReviewFeedback` | `RecordReviewFeedback` |
| `executeDelivery`, `finishDeliveryOutbox`, `CompleteDeliveryOutbox` | `BeginWrite`, `EndWrite` |
| `BeginMaintenanceFence`, `ClearMaintenanceFence` | `BeginMaintenance`, `ClearMaintenance` |

Abstractions:

* *Time* is two facts: a lease lies in the past (`Lapse`), a retry time has come
  (`BackoffElapses`). Both may become true at any moment, which is every clock
  the processes may have.
* *Names.* A run is its ticket and generation; run ID, session ID and token of
  the code correspond to it one to one.
* *Counters.* `failures` saturates at the limit it is compared with. Attempts and
  delivery failures are counted over the rows, as the queries do.
* *Ended runs.* No statement reads the container columns of a run that has ended
  in order to act on its container, so `Ended` returns them to their defaults.
* *Writes.* A GitHub write is its fence: it begins under the conditions of
  `executeDelivery` and ends. A transaction that drops the fence and escalates is
  `EndWrite` followed by `Escalate`; that no other transaction separates them
  only removes behaviours. The outbox itself belongs to `DeliveryOutbox`.
* *Plans.* One active plan version. Freezing, completing and amending plans, and
  the release of workspaces, are left out.

Three constants switch behaviours whose faults the violation runs show, so that
the other properties can be checked without them:

* `StaleAnswers`: an operator also answers a question of a ticket that no longer
  needs attention, or retries a poll failure that targets one (the code accepts
  both).
* `RecoveryAuthFails`: a recovery finds the session's credentials unusable.
* `HostPressure`: a poll claims reviews while host pressure pauses recovery.

### TicketFencing

The abstract specification of one ticket: an owner, the last generation, the
accepted generation, and whether the ticket is closed. `RunStore` maps to it
(`Fencing`): the owner is the current run if it is running with an active lease.

### WorkerRuns

Who calls the ledger, in which phase. Each action takes a step of `RunStore`
together with the phase change of the goroutine that calls it, or leaves the
ledger alone and moves a container.

| Variable | Code |
|---|---|
| `worker[t][g]` | the goroutine of the run in `Controller.Run`, `runDeliveryController` and `runWithStartAdmission`: preparing, reserved, creating, admitting, starting, attached, and what it knows afterwards (unstarted, unclean, uncertain, exited, reported) |
| `box[t][g]` | the container: none, created, running |
| `iso[t][c]` | `IsolateWorkers` between its three calls |
| `crashes` | counts the crashes, for the bound |

`docker create` and `docker start` are two steps each, so that a crash or an
isolation can fall between the request and the effect; after a crash the effect
may still come (`Crash`). A container that nobody watches any more exits when it
likes (`OrphanExits`). `GiveUp` is a goroutine that returns without recording
anything, as it does when the store or docker fail. `leaseMu` is left out: it
holds off no other process.

`control` stands for every caller that is not a run's goroutine: the control
pass, the poller, the Gateway, the command line.

### DeliveryOutbox

The rows of `delivery_outbox`, the Gateway processes that dispatch them one at a
time, and GitHub.

| Variable | Code |
|---|---|
| `requests` | the keys that callers submit in this behaviour, and `runLease`: the run behind the push, the pull request and the comment holds its lease |
| `outbox[k]` | the row of idempotency key `k`: state, attempts, claim token, dispatcher token, uncertain |
| `gateway` | `gateway_runtime`: paused, dispatcher and its lease, credential rotation and its expiry |
| `inbox` | `workflow_inbox_projections.generation`, since which generation it has the present set of plans (`since`), the state of its plans, the recovery question of each entry |
| `thread[g]` | the dispatch of process `g`: ensured, claimed, admitted, validated, observed, sending, unanswered, finishing, pausing, deferring, and the verdict it will record |
| `running`, `suspended` | processes started, processes that are not scheduled |
| `remote` | external: effects per key, the inbox that GitHub shows, writes that may still land (`late`), and whether one landed after its sender lost the entry (`stray`) |

| Code | Actions |
|---|---|
| `EnqueueDelivery`, `queueWorkflowInboxProjectionTx` and its callers | `EnqueueDelivery`, `QueueWorkflowInboxProjection`, `PlanChanges` |
| `EnsureGatewayDispatcher`, `DueDeliveryOutboxKeys` | `EnsureGatewayDispatcher` |
| `claimDeliveryOutbox` | `ClaimDeliveryOutbox`, `ClaimRefused`, `ClaimExhausted` |
| `Gateway.Dispatch`, `controlPlaneDispatchContext`, the credential | `DispatcherLost`, `CredentialAvailable` |
| `loadDeliveryTargetTx` under `ExecuteDelivery` or `ReconcileDelivery` | `ValidateDelivery` |
| the observation before a write, the write, the observation after it | `Observe`, `ObserveFails`, `Apply`, `ApplyUnanswered`, `ApplyRefused`, `ObserveUncertain`, `WriteLands`, `WriteLost` |
| `finishDeliveryOutbox`, `CompleteDeliveryOutbox`, `requeueClaim`, `markDeliveryNeedsAttentionTx` | `FinishDelivery`, `FinishWithoutLease`, `FinishFenced`, `FinishUnrecorded` |
| `pauseForCredential`, three transactions | `PauseForCredential`, `ProjectCredentialQuestion`, `DeferRefused` |
| `gateway_state.go`, `recoverUncertainInboxDeliveryLeased` | the actions of `Administration` |

A claim token is drawn per claim and a process has one claim at a time, so the
process names it; a crashed process comes back under a new token, and what it
held belongs to `Lost`. GitHub may refuse the credential before the write (verdict
*refuse*: the entry comes back as it was) or during it (*pause*: the write is
uncertain); either pauses the Gateway, even when the claim was taken over in the
meantime. A reconciliation of anything but the inbox records what it saw without
asking for the dispatcher's lease again. A pull request that comes back with
another head or base than it was asked for is rejected and is not the effect of
its entry, so `WrittenOnce` does not count it. Left out: payloads, retry times (an entry may be tried
again at any later moment), audits, labels, the wording of comments.

### Plans

| Variable | Code |
|---|---|
| `setting` | external: the plan roots on GitHub with their graphs, and what agents may propose |
| `plans[r]` | the row of `plans`: current version and its state |
| `versions[v]` | `plan_versions` (state, completed or cancelled, frozen by which ticket) with `ticket_runtime`, sessions and deliveries of its tickets |
| `proposals`, `questions`, `handoff`, `cursor` | pending `plan_amendments` with their pauses, open `workflow_questions`, `replacement_tickets`, `dispatch_fairness` |
| `announced` | the versions whose marker GitHub has accepted |
| `control`, `reconciling` | the stage of the control process; what `workflow reconcile-delivered` has still to observe |
| `used` | counts proposals and closed pull requests, for the bounds |

| Code | Actions |
|---|---|
| `SchedulerRoot` | `SchedulerRoot` |
| `Activator.Activate`: `BeginActivation`, `ProjectPlan`, `MarkActive` | `BeginActivation`, `ProjectBuilding`, `MarkActive`; `PassFails` between any two |
| `ClaimPendingDeliveryClaims`, `ClaimNextReady`, the stages of the pass | `RetryDelivery`, `ClaimNext`, `DispatchPaused`, `NextStage` |
| `PendingTicketDeliveries`, `pullRequestDelivery`, `markTicketDelivered`, `FreezePlanForClosedPullRequest` | `PollTicket`, and for the other process `StartReconcile`, `ReconcileTicket`, `ReconcileFails` |
| the outcomes of runs | `RunEnds` |
| `ProposePlanAmendment`, `applyPlanAmendmentTx` | `ProposePlanAmendment`, `ApproveAmendment`, `RejectAmendment` |
| `answerWorkflowQuestionTx`, `cancelPlanTx`, `replaceFrozenPlanTx` | `AnswerNeedsAttention`, `AnswerCancelPlan`, `AnswerReplace` |

A version is named by its fingerprint, so the record of its contents is its
name. A run is a field of its ticket; its inner life is `RunStore`. The order of
tickets inside a plan is left open.

### GitHubPoll

| Variable | Code |
|---|---|
| `rootOf` | the root each `poll-github` process was configured with |
| `planState[v]`, `asked` | what the store says of a plan version; the versions with an open `poll_failure` question |
| `impact`, `replacement` | the versions with an open `closed_unmerged_impact` question; what an approved replacement puts in the place of a frozen version |
| `pollCursor` | the row of `github_poll_cursors`: failures, failure kind, bootstrap recovery with its plan version and the attempted versions |
| `pollLease` | `lease_token` and whether it has expired |
| `pass[p]` | program counter and locals of `PollWithBootstrap` in process `p` |

Each transaction under the lease is an action; the three kinds of failure that
`recordFailure` tells apart (transient, rate limited, credential rejected) are
parameters of the failing actions. An answer is `RetryPoll`, `CancelPlan`,
`ReplacePlan`, `Unfreeze` or `Amend`; a pass routes it under its lease
(`RouteDecision`), and a local one is applied under the mutation lease, which is
only given while no poll holds one (`LocalDecision`, `LeaseFree`).
`SchedulerRoot` and `HandOver` follow a replaced root to its replacement. `Resolved`, `Advanced`, `Succeeded`,
`CredentialReset`, `Unrecoverable` and `Forgotten` are the updates of the cursor as
functions of its row, `AfterAdvance` and `AfterDeferral` what a failure makes the
pass do next. Of time only the expiry of the lease is a state. `Unfenced` names
the steps that change plans on the strength of the last renewal. Left out: what
is observed of pull requests (it is in `Plans`), pagination, etags, retry times,
and the replacement of a root that an amendment superseded before.

### Platform

| Variable | Code |
|---|---|
| `installed` | `platform/active.json` |
| `payload[b]`, `ledger[b]` | the generation directory of bundle `b`, and the `workflow.db` in it: its maintenance fence, the claims it ever recorded, the live ones, and the *strays*: the deliveries and reviews claimed under the fence |
| `consents`, `attempts`, `dispatcher`, `homeLock`, `firstLock` | the other files of the Home, and the lock outside it |
| `job[i]` | program counter and locals of `Engine.Apply` in installer `i` |
| `children`, `service`, `runtime`, `pollers` | `serve-child` processes, the one that holds the runtime lock, the runtime record of each generation, `poll-github` processes that nobody owns |
| `interrupted` | operations that crashed or could not clear their fence |

`Apply` is a sequence of steps, each one rename, transaction or process call, in
four modes: a first installation (`ApplyFirst`), the recovery of one, an upgrade
and the repair of an interrupted activation (`ApplyLocked`, `ReadInstalled`).
`StepFails` and `WriteFails` are the error returns with what each leaves behind
(`DiscardStaged`, `RollBack`, `BringBack`); `InstallerDies` leaves the lock files.
The Control Plane side has `Serve`, `ChildLocks`, `ServiceUp`, `ServiceEnds`,
`ServiceKilled`, the pollers, and the claims of both: `ClaimRun` is `claimReady`,
which asks the fence of its own ledger; `ClaimNextRun` stands for the claims of
pending deliveries and queued reviews, which do not. What it claims while the
ledger is fenced is a stray.
The online backup is a consistent copy; the copy into the candidate is two steps,
between which the candidate's ledger is torn. Left out: qualification of
dependencies, the bytes of credentials and their restoration, release manifests.

## 4. The runs

| Run | Question | Bounds |
|---|---|---|
| `run_store` | Do the ledger's invariants and its refinement survive every order of its transactions? | one ticket, four generations, two epochs, two attempts, one caller |
| `capacity` | Do unlapsed leases stay within max-parallel-runs? | two tickets, one slot, three generations of which the second ticket uses one (`Lopsided`) |
| `chain` | Does work wait for blockers, and does a lapsed run let go? | a ticket behind another, two generations each; liveness |
| `worker_runs` | Is there ever a container without its run, a proof that lies, a candidate from a shared workspace? | one ticket, two generations (an agent and its successor or its delivery), one crash |
| `worker_recovery` | Does every run end? | one generation, two crashes; liveness |
| `plans_outbox` | Do plans stay whole through amendments, freezes and crashes? Is anything written to GitHub twice, lost, or out of order? | plans: four settings (below), two parallel runs, two amendments, one closed pull request; outbox: two gateways, two attempts, one fault, four batches, one rotation owner |
| `poll_platform` | Does the lease guard the cursor and the budget stop the poll? Does an upgrade keep every run? | poll: two processes, two plans, two failures, one fault; platform: two bundles, two installers, two applies, two mishaps, one claim |
| `stale_answer` | violation, finding 1 | as `run_store`, with stale answers |
| `maintenance` | violation, finding 2 | one ticket, three generations |
| `zombie_auth` | violation, finding 3 | one generation |
| `zombie_review` | violation, finding 4 | three generations: agent, delivery, review agent |
| `recovery_spares` | violation, finding 5 | one generation, no crash |

Why the bounds are enough. The lease generation is the only unbounded counter of
a ticket besides the recovery epoch. The longest story the ledger tells about one
ticket without repeating itself is agent, failed agent or delivery, delivery
again, revision: four generations, with the attempt limit (two) reached within an
epoch and a second epoch in which counting starts again. Every action fires in
it. Two tickets interact only through the capacity, the blockers and the
maintenance fence; `capacity` and `chain` have one run each. `Lopsided` keeps the
second ticket in its first generation, which is enough to occupy the slot at any
moment, while the first goes through agent, delivery and delivery again, and has
no poll failures, which `run_store` has: they escalate and resume like the other
questions. In
`worker_runs` the hazards are between a run and its immediate successor, hence two
generations; `MaxAttempts` 1 makes failures escalate, and the answer starts a new
epoch, so a second agent follows.

`AcceptCandidate` issues a delivery and `RecordReviewFeedback` expects a revision;
both have the bound `MaxGen` in their guard; the answers that begin an epoch have
`MaxEpoch` (`RecoverTicket`).
The workers' instances may stop at the bound, so their configurations do not
check deadlock; the ledger's do.

`plans_outbox` has four settings: `Chain`, two tickets of which the second waits
for the first and either may drop the second; `Pair`, two independent tickets that
propose changes of each other, so that two amendments compete for one version;
`Two`, two plans, for the rotation and for replacements; `Mixed`, a plan that is
amended twice (the second time by a ticket that the first amendment added) while
another plan keeps the control process going. One closed pull request freezes a
plan; a second one on the same plan is a no-op in the code. The outbox submits a
push with its pull request, a comment, a projection of a plan, or two generations
of the inbox: entries meet only through the dispatcher, the order of push and
pull, and the generations of the inbox, and each batch has one of these. Two
attempts are the first write and the one that must not repeat it. A second
gateway starts when the first one is suspended. At most one unanswered write is
under way, sent before a second process runs: the case in which it lands behind
its successor is the one that matters.

In `poll_platform` a budget of two failures has every stage of a recovery
(available at one, exhausted at two, deferred up to twice the budget). Two passes
are enough for one that outlives its lease and its successor. On the platform two
applies are an upgrade and its repair, retry or competitor, and two mishaps let
the second operation fail too. A claimed run takes the place of one of them
(`RunsInsteadOfMishaps`), and one plan at a time is closed or replaced
(`OneImpact`); the theorems have neither bound. A third apply lets a first installation overtake
two others, which breaks `FenceHasOwner` (finding 20). Swapping both processes and
plans, or the installers, is a symmetry: no definition but the set of initial
states names one of them, and that set is closed under the swaps.

Both instances may stop where a bound is reached or every entry is settled, so
they do not check deadlock.

What the properties say:

* `OneLiveRun`, `OneWriter`, `DeliveredIsQuiet`: whatever is running, leased or
  being written for is the current run of its session; a merge leaves nothing
  behind.
* `ProvenRunsStayFenced`: a proof outlives every step between the acknowledgement
  and the transition that presents it.
* `OutcomesAreFinal`, `FeedbackIsNeverLost`: step properties. An owner that was
  taken over cannot rewrite an outcome, and a claimed review batch is answered or
  returned on every failure path.
* `AttentionIsAnswerable`: no ticket waits for a human who was not asked.
* `ImplementsTicketFencing`: the refinement.
* `WithinCapacity`, `BlockersDelivered`: across tickets.
* `LapsedRunsAreRecovered`, `EveryRunEnds`: liveness, section 5.
* `NoZombie`, `ProofMeansGone`, `AcceptedAloneInWorkspace`: containers against
  the ledger.

* `WrittenOnce`, `SuccessIsReal`, `PullAfterPush`: outbox entries against what
  GitHub has, under late writes, crashes, a suspended gateway and a takeover.
* `InboxFence`, `InboxShown`, `BlockedIsAskable`, `SettledIsFinal`: the inbox is a
  register written by generations; an unknown write of an older one holds the
  newer one back until somebody settles it, and what blocks can be answered.
  `InboxFence` and `BlockedIsAskable` leave out the rejection that finding 13
  describes.
* `RunsAreCurrent`, `PausedIsIdle`: no run works for a version that was replaced,
  frozen, cancelled or paused. Retries of deliveries on a frozen plan are
  exempted (finding 9).
* `StoppedIsAskable`, `CompletedIsDelivered`, `ActivatedIsShown`, `DeliveredIsKept`,
  `FairTurn`: whatever stops a plan has its open question through every version;
  completion, activation and delivery are not lost. `DeliveredIsKept` exempts the
  tickets an amendment affects (finding 8); `FairTurn` is the part of fairness
  that holds (finding 12).
* `CursorFence`: while a lease is live, the cursor and the open questions change
  only in a step of its holder's pass or in an answer that pass routes; while none
  is live, only a local answer, which takes the lease itself, changes them.
* `NoWorkPastBudget`, `BudgetBound`, `PauseIsSticky`: the budget is looked at
  before any work, bootstraps and their projections included, failures
  without a pause are bounded, and only a human, or the completion of everything
  that failed, ends a pause.
* `UpgradeKeepsRuns`: from the switch until the old ledger is released, the new
  ledger has every run that the old one ever recorded, and none of them is live,
  except the strays, which finding 2 lets a poller of the old generation claim
  under the fence.
* `FenceHasOwner`: scheduling is not left fenced by an operation that is over,
  unless it was interrupted.

### Findings

1. *A stale answer makes a second live run.* `answerWorkflowQuestionTx` does not
   ask whether the ticket still needs attention. A delivery pauses for a quality
   gate, an escalation opens a second question, the gate's answer makes the
   delivery claimable and it is claimed, and then the second answer makes it
   claimable again: `ClaimPendingDeliveryClaims` issues another run over the live
   one. The retry of a poll failure does the same to every ticket it targets. The
   specification promises one live Run Lease for each ticket.
2. *The maintenance fence is not asked by every claim*, as its comment says: only
   by `claimReady`, not by the claims of deliveries and of review revisions. In an
   upgrade, a `poll-github` process of the old generation that was started by hand,
   or that a killed Control Plane left behind, goes on claiming them in the fenced
   ledger: before the backup such a run becomes live in both ledgers, after it the
   new ledger lacks the run.
3. *A recovery that finds unusable credentials ends a run without isolating it.*
   The container goes on in the ticket's workspace.
4. *A review claim supersedes a launched agent whose lease lapsed, without
   isolating it.* Recovery, which would have isolated it first, is skipped under
   host pressure. `claimReady` refuses in the same situation.
5. *Recovery is not only what follows a restart.* It runs on every poll and takes
   an agent that was claimed a moment ago, and whose container is still being
   prepared, for lost: it isolates it and queues its ticket.

Those five have a run each. `worker_runs` excludes 3 and 4 by its constants, and its
properties hold. The others were met while modelling; where a property above
exempts one of them, it says so. PROJECT.json has the lines and the quotations.

6. *A plan whose last open tickets are removed by an amendment is never
   completed*: only deliveries complete plans. `Plans.DeliveredIsCompleted` states
   the promise, and TLC refutes it when it is added to `MCPlansOutbox.cfg`.
7. *After an approved amendment every bootstrap fails*, since GitHub's graph does
   not have the target's fingerprint, and each failure counts towards the budget.
8. *A pull request that is merged while an amendment waits* is forgotten if the
   amendment affects its ticket: the target queues the ticket again.
9. *A delivery is retried on a frozen plan*: its claim asks for the current version
   only.
10. *Freezing and proposing take the owner of the sessions away*; a ticket that
    waits for its review does not get it back and receives no revision.
11. *Approving an amendment lifts a freeze* that came in between.
12. *The rotation is not fair to a third plan*: it restarts at the front when the
    plan it served last has nothing ready.
13. *The last attempt, abandoned, is rejected as certain*: the row's own mark is
    used, not the knowledge that it was processing.
14. *Nothing resumes paused writes*: `ResumeGatewayWrites` has no caller but tests.
15. *A poll can be paused without a question* to end the pause.
16. *A generation whose copy failed is taken as staged* by the next upgrade.
17. *Applying the active bundle again copies its ledger over itself.*
18. *Pollers of the old generation may go on* after its fence is cleared, and then
    claim everything; finding 2 is what they claim before.
19. *A fence or a lock file that an installer left* is cleared by nobody.
20. *A first installation may overtake others*: it reads the Home before it locks
    it.
21. *Two admitted repositories exclude each other* by the lock of their one
    database.

## 5. Fairness

`chain` checks `LiveSpec`, `worker_recovery` checks `LiveWorkers`. Assumed is only
what the control plane repeats without being asked:

* the control pass runs on every poll and lists expired and missing runs, so
  `RecoverUnlaunchedDelivery`, `Reconcile` and the control isolation are weakly
  fair;
* a removal or an acknowledgement may fail, and a crash may fall between proof
  and transition; the pass then starts over, and what is enabled again and again
  is eventually done (strong fairness of `RemoveContainers`, `EndIsolation` in
  `worker_recovery`, of `ReconcileMissingRun` in `chain`). This excludes a docker
  daemon that fails for ever and a process that crashes in every pass;
* an expiring lease lapses, and a write ends: `executeDelivery` runs under a
  context with a deadline and an abandoned claim is recovered (`EndWrite`);
* `docker create` returns, and the deferred release of its fence is called
  (`ReleaseCreateFence`, in the ledger's instance only: in `worker_recovery` it is
  not needed, because an acknowledgement supersedes the fence).

`plans_outbox` and `poll_platform` check safety only and assume no fairness: that
an outbox entry is settled or a poll succeeds depends on GitHub and on operators,
and findings 12, 14 and 19 are reasons why the obvious liveness would be false.
For the same reason two promises are not checked: that a version left projecting
by a crash is taken up by a later bootstrap (`BeginActivation` accepts it, so
nothing blocks it), and that some generation runs again after an installer died
with the old one stopped (nothing in the code starts one by itself).

No fairness is assumed of goroutines, operators, GitHub or claims: a goroutine
may hang or return in any phase.

## 6. The proofs

The theorems hold for every value of the constants that the named assumptions of
the modules allow (those of `RunStore` and `WorkerRuns`, `PlansConstants`,
`OutboxConstants`, `PollConstants`, `PlatformConstants`). They only say what the
constants are and that the names of "nothing" are none of the values they stand
beside: `Nil` is no version, `Nothing` no ledger. Every safety invariant that a
passing run checks is proved, under the hypotheses named below, and so is every
action property and the refinement. Each proof has the same shape: an inductive
invariant, lemmas about the few ways in which steps change rows, one lemma for
each action that cites the one that fits, and a temporal step that puts them
together. TLC checked each invariant as an invariant of an instance before it was
proved.

### The run ledger

* `RunStoreTypes!TypeCorrect`: `Spec => []TypeOK`. One lemma for each operator
  that writes rows, one step for each action.
* `RunStoreFencing!StoreIsFenced`: the inductive invariant `StoreInv`.
  `OneLiveRun` is not inductive by itself: a delivery or a review is claimed on
  the strength of the ticket's state, without looking for a running run. `Fenced`
  therefore ties the runs of a ticket to that state: only a ticket in `running`
  has a run that runs, holds a lease or writes; it is the current run; it writes
  only if it is a delivery, so that no claim supersedes an agent under a write; no
  generation above the last was issued; and closed sessions are those of delivered
  tickets.
* From it follow `OneLiveRunHolds`, `OneWriterHolds` and `DeliveredIsQuietHolds`,
  and `RunStoreFencing!FencingIsImplemented`: the ledger implements
  `TicketFencing`. Each shape of a change maps to one abstract action (an issue to
  `Issue` or `Accept`, an end to `Retire` or a stutter, the exhausted claim to
  `Skip`, a merge to `Close`).
* `RunStoreStability!OutcomesAreFinalHolds`: a step issues the generation after
  the last one, or lets every row *follow* (`Progress`); that the issued row was
  free is the invariant `IssuedUpToGen`, inductive by the same fact.
* `ProvenRunsStayFencedHolds`: whatever replaces the current run drops the proofs;
  the columns of a proven run can only change harmlessly, because a run that is
  being isolated has no write in flight (`Apart`).
* `BlockersDeliveredHolds` and `WithinCapacityHolds` rest on one lemma about all
  steps: a step issues at most one run, on a ticket that is ready or was begun
  before, with a slot free or in the place of a live run (`IssuesAtMostOne`). A
  begun ticket has delivered blockers (`BlockersInv`), which is why the claims of
  deliveries and reviews need not ask; the live runs are finite and at most as
  many as slots (`CapacityInv`).
* `AttentionIsAnswerableHolds`, `FeedbackIsNeverLostHolds`: the question is asked
  in the step that needs it, and is only closed by one that moves the ticket on; a
  step that ends a run which claimed a review batch answers it or queues it again.

### The workers

* `WorkerRunsProofs!WorkersImplementStore`: every step of `WorkerRuns` is a step
  of `RunStore` or leaves its variables alone; hence what is proved of the ledger
  holds for the composition (`WorkersKeepOneLiveRun`).
* `WorkersInvHolds`, and from it `NoZombieHolds`, `ProofMeansGoneHolds` and
  `AcceptedAloneHolds`. `NoZombie` is not inductive: a container may start later
  than its start was admitted, and an isolation reads the containers before it is
  acknowledged. A *threat* is a run whose container runs, or whose created
  container is about to be started. The invariant says that a threat holds its
  ticket and was launched (`Watched`), that what a goroutine calls certain is no
  threat (`Local`), that a proof leaves none (`Gone`), and neither does an
  isolation that has removed its containers (`Removing`), since an isolating run
  admits no start. Every step is shown to be safe for the ledger, and then either
  calm or a move of one goroutine.

### Polls, plans and the outbox

* `GitHubPollProofs`: `PollInv` is about the process that holds the lease. What it
  read at the start of its pass is still true of the cursor when it acts
  (`Backed`), and a pass between its count and its decision holds the lease, so
  that an excess over the budget that nobody is deciding about was paid by a fault
  (`Counted`). `BudgetIsBound`, `WorkIsWithinBudget`, `CursorIsFenced` and
  `PauseLastsUntilDecided` follow. `CursorIsFenced` also speaks of the steps that
  belong to no pass: it has a case for the answer that is routed and one for the
  local answer, which rests on the mutation lease.
* `PlansProofs`: `PlansInv` says of every version what its row may be
  (`VersionsOK`: a live run is the run of a running ticket of the current version,
  and in a frozen plan a retried delivery; nothing of a plan that is over runs),
  and what the passes, the lists of pull requests, the questions, handoffs and
  proposals refer to (`ControlOK`, `ListsOK`, `QuestionsOK`, `HandoffOK`,
  `ProposalsOK`, `PausesOK`). The lists may be stale, but never name a version
  that was not activated. From it follow all six invariants of `Plans`, and with
  the frames of the steps `MergedIsKept` and `PlansTakeTurns`.
* `DeliveryOutboxProofs`: `WrittenOnce` needs to know which processes and which
  late writes an entry may have in each of its states. A process with a claim of
  its own knows whether the entry is uncertain, one that lost it leaves an entry
  that is uncertain or settled (`ClaimsOK`); an entry that is not uncertain was
  not written (`RowsOK`); any entry but the inbox has one process that may write
  it (`WritersOK`); a newer inbox is only taken up when no write of an older one
  counts (`InboxOrder`). All properties of the outbox follow, the two about steps
  as well.

### The platform

* `PlatformProofs!UpgradeKeepsRunsHolds`: `UpgradeInv` follows the fence of an
  upgrade from ledger to ledger. From the fence on, the old ledger is fenced for
  this upgrade and every run that is live in it is a stray (`Marked`); the backup,
  the candidate and the active ledger after it have every run of that ledger but
  the strays (`CopyOf`). Claims in a fenced ledger do not break this, since
  `claimReady` makes none and what the others make is a stray. Whoever writes to a
  ledger otherwise holds the lock of the Home, but for a first installation before
  it has an Attempt, which writes none (`ShapeOK`).
* `FenceHasOwnerHolds`: in a Home that is installed every job holds the lock, so
  there is one at most. `FenceInv` says that the fence of the active generation is
  carried by it, or belongs to an interrupted operation, or names the bundle of an
  activation that is not ready and whose repair clears it (`Excused`), and that
  whoever is about to publish has left no other fence behind (`Interrupted`).

### Hypotheses

Some theorems have a hypothesis, and each is a finding of its own:

* `~StaleAnswers`, in those about fencing, the refinement and the workers: with
  stale answers `OneLiveRun` is false (finding 1, run `stale_answer`). Those of
  `RunStoreStability`, the types and `WorkersImplementStore` do not need it: a
  second live run rewrites no outcome, spoils no proof and takes no slot that is
  not free.
* `~RecoveryAuthFails` and `~HostPressure`, in `WorkersInvHolds` and what follows
  from it: findings 3 and 4, runs `zombie_auth` and `zombie_review`.
* `Nothing \notin FirstHomes`, in `FenceInvHolds` and `FenceHasOwnerHolds`: in an
  empty Home a first installation may overtake others (finding 20), and with three
  applies `FenceHasOwner` is false. `poll_platform` checks it in an empty Home as
  well, for two applies. `UpgradeInvHolds` and `UpgradeKeepsRunsHolds` need no
  such hypothesis.

### Only model-checked

The liveness properties `LapsedRunsAreRecovered` and `EveryRunEnds`: the proof
system reasons neither about fairness nor about ENABLED. `FenceHasOwner` in a Home
that is empty at first. The violations of section 4, which are facts about the
instances that show them.

## 7. Not modelled

Listed in PROJECT.json with the reason. Left of the plan are modules 10 to 13:
repository watches with their receipts, the two lock files that keep readers and
a restore apart, restores themselves, and the batching of feedback. Each of the
modelled components leaves out what its section says. Two boundaries between
modules are worth knowing: a run is detailed in `RunStore` and `WorkerRuns` and a
field in `Plans`; a plan is detailed in `Plans` and a state in `GitHubPoll` and
`DeliveryOutbox`. That their views agree is by construction, not checked.

Not candidates for a model, as pure data or input and output of sequential code:
what each schema migration rewrites, rendering and parsing, digests and bundles,
HTTP, secrets, native services, health probes, repository setup and onboarding,
the PowerShell tooling.

## 8. Running

`tlc -config MCRunStore.cfg MCRunStore` and so on for each pair listed in
PROJECT.json under "runs", and `tlapm M.tla` for each module of rows 4 and
14 of the plan (a minute or a few each). Operators commented
*Mutation:* are plausible faults of the definition that follows them; put in its
place, each of them makes TLC violate the property that PROJECT.json names.
