---------------------------- MODULE GitHubPoll ----------------------------
(***************************************************************************)
(* The GitHub poll of one repository (internal/github/poller.go over       *)
(* internal/store/poll.go): the poll passes of several poll-github         *)
(* processes, one per configured Plan Root, which share one durable cursor *)
(* behind one lease.  A pass admits the credential, resolves an exhausted  *)
(* bootstrap recovery, routes the human answers, bootstraps its root and   *)
(* dispatches, projects the Workflow Inbox, polls the pull requests and    *)
(* records success; every failure is charged to the retry budget of the    *)
(* cursor and, when that is exhausted, pauses polling with a question.     *)
(*                                                                         *)
(* An action is one transaction, or one remote step that changes a Plan.   *)
(* Of time only the expiry of the lease is a state (live): next_attempt_at *)
(* postpones the next pass, and a pass may start at any later moment.      *)
(* Remote calls succeed or fail in the three ways the code tells apart.    *)
(***************************************************************************)
EXTENDS Naturals, FiniteSets

CONSTANTS
    Passes,         \* the poll-github processes of the repository
    PlanIds,        \* the Plan Versions the repository may see
    ConfiguredRoots,          \* configured roots: the version each process activates
    MaxPollFailures,\* Poller.MaxFailures
    MaxPollFaults,  \* bound: crashes of a pass and leases it outlives
    Nobody

ASSUME PollConstants ==
    /\ Nobody \notin Passes \cup PlanIds
    /\ ConfiguredRoots \subseteq [Passes -> PlanIds]
    /\ MaxPollFailures \in Nat \ {0}
    /\ MaxPollFaults \in Nat

VARIABLES
    rootOf,         \* the configured roots, fixed from the start
    planState,      \* what the store says of each Plan Version
    asked,          \* the versions with an open poll_failure question
    impact,         \* the versions with an open closed_unmerged_impact question
    replacement,    \* the version that an approved replacement puts in the
                    \*   place of a frozen one, or Nobody
    pollCursor,     \* the row of github_poll_cursors, without its lease
    pollLease,      \* lease_token and whether lease_expires_at is ahead
    pass,           \* the program counter and locals of each process
    pollFaults      \* crashes and outlived leases so far

pollVars == <<rootOf, planState, asked, impact, replacement, pollCursor,
              pollLease, pass, pollFaults>>

\* What only a decision or the poll of the pull requests changes.
impactVars == <<rootOf, impact, replacement>>

PlanStates == {"absent", "projecting", "active", "frozen", "completed",
               "retired", "superseded"}
\* "none" is the empty string of the row.
Kinds == {"none", "retryable", "conflict", "unrecoverable"}
Recoveries == {"none", "available", "claimed", "completed", "consumed"}
Outcomes == {"transient", "limited", "rejected"}

RecoveryFailureLimit == 2 * MaxPollFailures
CountedFailures == RecoveryFailureLimit + MaxPollFaults + 2
\* Bound: a paused cursor goes on counting failed admissions for ever.
CountedWhilePaused == MaxPollFailures

Locals == {"prepare", "admit", "start", "paused", "resume", "recover",
           "failing", "route", "control", "projecting", "dispatch", "inbox",
           "poll", "after", "consume", "terminal"}

OffDuty == [pc |-> "idle", boot |-> FALSE, bound |-> Nobody, plan |-> Nobody,
            already |-> FALSE, attempted |-> {}, retry |-> FALSE,
            resuming |-> FALSE]

Fresh == [failures |-> 0, kind |-> "none", recovery |-> "none", plan |-> Nobody,
          attempted |-> {}]

PollInit ==
    /\ rootOf \in ConfiguredRoots
    /\ planState = [v \in PlanIds |-> "absent"]
    /\ asked = {} /\ impact = {}
    /\ replacement = [v \in PlanIds |-> Nobody]
    /\ pollCursor = Fresh
    /\ pollLease = [holder |-> Nobody, live |-> FALSE]
    /\ pass = [p \in Passes |-> OffDuty]
    /\ pollFaults = 0

----------------------------------------------------------------------------
(* The lease                                                               *)

LeaseFree == pollLease.holder = Nobody \/ ~pollLease.live

\* requireGitHubPollLeaseTx and RenewGitHubPollLease.
HoldsLease(p) == pollLease.holder = p /\ pollLease.live

EndPass(p) ==
    /\ pass' = [pass EXCEPT ![p] = OffDuty]
    /\ pollLease' = IF pollLease.holder = p
                       THEN [holder |-> Nobody, live |-> FALSE] ELSE pollLease
    /\ UNCHANGED impactVars

PassGoes(p, next) ==
    /\ pass' = [pass EXCEPT ![p] = next]
    /\ UNCHANGED <<impactVars, pollLease>>

PassAt(p, pc) == pass[p].pc = pc

AcquireLease(p) ==
    /\ PassAt(p, "idle") /\ LeaseFree
    /\ pollLease' = [holder |-> p, live |-> TRUE]
    /\ pass' = [pass EXCEPT ![p].pc = "prepare"]
    /\ UNCHANGED <<impactVars, planState, asked, pollCursor, pollFaults>>

\* The steps a pass takes on the strength of its last renewal: they change the
\* Plans without looking at the lease again.
Unfenced == {"control", "projecting", "poll"}

\* The lease of a dead pass ends, or the host sleeps through that of a running
\* one (in a fenced step the pass then only Abandons).
LeaseLapses ==
    /\ pollLease.holder # Nobody /\ pollLease.live
    /\ pollLease' = [pollLease EXCEPT !.live = FALSE]
    /\ \/ PassAt(pollLease.holder, "idle") /\ UNCHANGED pollFaults
       \/ /\ pass[pollLease.holder].pc \in Unfenced
          /\ pollFaults < MaxPollFaults
          /\ pollFaults' = pollFaults + 1
    /\ UNCHANGED <<impactVars, planState, asked, pollCursor, pass>>

\* A pass that finds its lease gone, or a local store failure: it only
\* releases.  Between the count and the decision that is a fault like a crash
\* (the workers of the repository cannot be isolated, say).
Abandons(p) ==
    /\ ~PassAt(p, "idle")
    /\ IF HoldsLease(p) /\ pass[p].pc \in {"consume", "terminal"}
          THEN pollFaults < MaxPollFaults /\ pollFaults' = pollFaults + 1
          ELSE UNCHANGED pollFaults
    /\ EndPass(p)
    /\ UNCHANGED <<planState, asked, pollCursor>>

Crashes(p) ==
    /\ ~PassAt(p, "idle") /\ pollFaults < MaxPollFaults
    /\ pollFaults' = pollFaults + 1
    /\ PassGoes(p, OffDuty)
    /\ UNCHANGED <<planState, asked, pollCursor>>

----------------------------------------------------------------------------
(* The cursor: pure functions of its row and of the Plans                  *)

PollPaused(c) == c.kind = "unrecoverable" /\ c.recovery = "consumed"

HasCandidate(c, minimum) ==
    /\ c.failures >= minimum
    /\ c.kind = "conflict"
    /\ c.plan # Nobody
    /\ c.recovery \in {"available", "claimed"}

LivePlan(v) == planState[v] \in {"active", "frozen"}
LivePlans == {v \in PlanIds : LivePlan(v)}

\* workflowInboxPlanPredicate
InboxPlan(v) ==
    \/ LivePlan(v)
    \/ /\ planState[v] \in {"projecting", "completed"}
       /\ PollPaused(pollCursor) /\ pollCursor.plan = v

Forgiven(c, recovery) ==
    [c EXCEPT !.failures = 0, !.kind = "none", !.recovery = recovery,
              !.attempted = {}]

\* A mutant: a stale recovery is consumed but keeps its count of failures.
ResolvedKeepsCount(c) ==
    IF LivePlan(c.plan) THEN Forgiven(c, "completed")
    ELSE IF planState[c.plan] = "projecting" THEN [c EXCEPT !.recovery = "claimed"]
    ELSE [c EXCEPT !.kind = "retryable", !.recovery = "consumed", !.plan = Nobody]

Resolved(c) ==
    IF LivePlan(c.plan) THEN Forgiven(c, "completed")
    ELSE IF planState[c.plan] = "projecting" THEN [c EXCEPT !.recovery = "claimed"]
    ELSE [Forgiven(c, "consumed") EXCEPT !.kind = "retryable", !.plan = Nobody]

RecoveredPlan(c) ==
    /\ c.kind = "conflict" /\ c.recovery = "claimed"
    /\ c.plan # Nobody
    /\ LivePlan(c.plan)

\* A mutant: the claim loses its Plan Version and stays available.
ConsumedByHalf(c) ==
    IF c.kind = "conflict" /\ c.recovery \in {"available", "claimed"}
       THEN [c EXCEPT !.plan = Nobody] ELSE c

Consumed(c) ==
    IF c.kind = "conflict" /\ c.recovery \in {"available", "claimed"}
       THEN [c EXCEPT !.kind = "retryable", !.recovery = "consumed", !.plan = Nobody]
       ELSE c

Succeeded(c) ==
    [Forgiven(c, IF c.recovery = "completed" THEN "completed" ELSE "none")
        EXCEPT !.plan = Nobody]

\* A mutant: a rejected credential also lifts a terminal pause.
CredentialResetsAll(c) ==
    [Forgiven(c, "consumed") EXCEPT !.kind = "retryable", !.plan = Nobody]

CredentialReset(c) ==
    IF PollPaused(c)
       THEN [c EXCEPT !.failures = 0, !.attempted = {}]
       ELSE [Forgiven(c, "consumed") EXCEPT !.kind = "retryable", !.plan = Nobody]

Unrecoverable(c, v) ==
    [c EXCEPT !.kind = "unrecoverable", !.recovery = "consumed",
              !.plan = IF PollPaused(c) /\ c.plan # Nobody THEN c.plan ELSE v]

\* The failure continues the recovery of the same Plan Version.
Continues(c, v) ==
    /\ c.kind = "conflict" /\ c.recovery \in {"available", "claimed"}
    /\ c.plan = v

Advanced(c, k, v, a) ==
    LET counted == [c EXCEPT
            !.failures = @ + 1,
            !.attempted = IF c.failures = 0 THEN a ELSE @ \cup a]
        bound == /\ k = "conflict" /\ v # Nobody
                 /\ \/ c.failures = 0
                    \/ c.kind = "retryable"
                    \/ Continues(c, v)
    IN  IF PollPaused(c) THEN counted
        ELSE IF bound
        THEN [counted EXCEPT
                !.kind = "conflict", !.plan = v,
                !.recovery = IF Continues(c, v) THEN c.recovery ELSE "available"]
        ELSE [counted EXCEPT !.kind = "retryable", !.recovery = "consumed",
                             !.plan = v]

\* resolveFrozenPlanPollFailureTx, for the Plan Version a decision cancels or
\* replaces.
PauseIsOf(v) ==
    /\ pollCursor.kind = "unrecoverable"
    /\ v \in pollCursor.attempted \/ pollCursor.plan = v \/ v \in asked

Forgotten(v) ==
    IF PauseIsOf(v) THEN [Forgiven(pollCursor, "none") EXCEPT !.plan = Nobody]
    ELSE IF pollCursor.plan = v
    THEN [pollCursor EXCEPT !.kind = "retryable", !.recovery = "consumed",
                        !.plan = Nobody, !.attempted = @ \ {v}]
    ELSE [pollCursor EXCEPT !.attempted = @ \ {v}]

----------------------------------------------------------------------------
(* Recording a failure                                                     *)

ToTerminal(p, v, a, retry) ==
    PassGoes(p, [pass[p] EXCEPT !.pc = "terminal", !.boot = FALSE, !.plan = v,
                            !.already = FALSE, !.attempted = a, !.retry = retry])

\* Whether an exhausted budget whose cursor became c takes the terminal step.
AfterAdvance(p, c, k, v, a, retry) ==
    LET history == /\ k = "conflict" /\ v # Nobody
                   /\ pollCursor.failures > 0
                   /\ ~(HasCandidate(pollCursor, 1) /\ pollCursor.plan = v)
    IN  IF c.failures < MaxPollFailures THEN EndPass(p)
        ELSE IF c.kind = "conflict" /\ c.recovery = "available" /\ ~history
        THEN IF LivePlans = {} THEN EndPass(p)
             ELSE PassGoes(p, [pass[p] EXCEPT !.pc = "consume", !.boot = FALSE,
                       !.plan = v, !.already = FALSE, !.attempted = a, !.retry = retry])
        ELSE ToTerminal(p, v, a, retry)

\* A mutant: a rate-limited recovery is deferred without a limit.
AfterDeferralUnbounded(p, c, k, v, a, retry) ==
    LET claimed == /\ k = "conflict" /\ v # Nobody
                   /\ HasCandidate(pollCursor, MaxPollFailures) /\ pollCursor.plan = v
    IN  IF ~claimed /\ c.failures >= MaxPollFailures
           THEN ToTerminal(p, v, a, retry)
           ELSE EndPass(p)

AfterDeferral(p, c, k, v, a, retry) ==
    LET claimed == /\ k = "conflict" /\ v # Nobody
                   /\ HasCandidate(pollCursor, MaxPollFailures) /\ pollCursor.plan = v
    IN  IF c.failures > RecoveryFailureLimit \/ (~claimed /\ c.failures >= MaxPollFailures)
           THEN ToTerminal(p, v, a, retry)
           ELSE EndPass(p)

RecordFailure(p, o, k, v, a, retry) ==
    /\ HoldsLease(p)
    /\ CASE o = "rejected" ->
              /\ pollCursor' = CredentialReset(pollCursor)
              /\ EndPass(p)
         [] o = "limited" ->
              LET c == Advanced(pollCursor, k, IF k = "conflict" THEN v ELSE Nobody, a)
              IN  /\ PollPaused(pollCursor) => c.failures <= CountedWhilePaused
                  /\ pollCursor' = c
                  /\ AfterDeferral(p, c, k, v, a, retry)
         [] OTHER ->
              LET c == Advanced(pollCursor, k, v, a)
              IN  /\ PollPaused(pollCursor) => c.failures <= CountedWhilePaused
                  /\ pollCursor' = c
                  /\ AfterAdvance(p, c, k, v, a, retry)
    /\ UNCHANGED <<planState, asked, pollFaults>>

RecordBootstrapFailure(p, o, v) ==
    IF v = Nobody THEN RecordFailure(p, o, "none", Nobody, {}, TRUE)
    ELSE IF pass[p].already THEN RecordFailure(p, o, "none", Nobody, {}, FALSE)
    ELSE IF planState[v] = "projecting" THEN RecordFailure(p, o, "conflict", v, {v}, FALSE)
    ELSE RecordFailure(p, o, "none", v, {v}, FALSE)

ConsumeEligibility(p) ==
    /\ PassAt(p, "consume") /\ HoldsLease(p)
    /\ pollCursor' = Consumed(pollCursor)
    /\ PassGoes(p, [pass[p] EXCEPT !.pc = "terminal"])
    /\ UNCHANGED <<planState, asked, pollFaults>>

\* The frozen versions a failure was about keep their own question.
FrozenOwners(a) == {u \in a : planState[u] = "frozen"}

\* The versions whose humans are asked when the budget is exhausted.
QuestionOwners(v, a) ==
    {u \in PlanIds : planState[u] = "active"}
    \cup {u \in PlanIds : u = v /\ planState[u] \in {"projecting", "completed"}}
    \cup FrozenOwners(a)

AllCompleted(a) == a # {} /\ \A u \in a : planState[u] = "completed"

\* The version and the attempts a terminal decision is about.
TerminalPlan(s) == IF s.plan = Nobody THEN pollCursor.plan ELSE s.plan
TerminalAttempts(s) == IF s.attempted = {} THEN pollCursor.attempted ELSE s.attempted

ResolveTerminal(s) ==
    LET owners == QuestionOwners(TerminalPlan(s), TerminalAttempts(s))
    IN  IF AllCompleted(TerminalAttempts(s))
        THEN pollCursor' = Succeeded(pollCursor) /\ UNCHANGED asked
        ELSE /\ asked' = asked \cup owners
             /\ pollCursor' = IF owners = {} /\ s.retry
                   THEN [Forgiven(pollCursor, "consumed") EXCEPT
                            !.kind = "retryable", !.plan = Nobody]
                   ELSE Unrecoverable(pollCursor, TerminalPlan(s))

TerminalFailure(p) ==
    LET s == pass[p]
    IN  /\ PassAt(p, "terminal") /\ HoldsLease(p)
        /\ ResolveTerminal(s)
        /\ IF s.resuming /\ AllCompleted(TerminalAttempts(s))
              THEN PassGoes(p, [OffDuty EXCEPT !.pc = "route", !.bound = s.bound])
              ELSE EndPass(p)
        /\ UNCHANGED <<planState, pollFaults>>

----------------------------------------------------------------------------
(* Admission and the start of a pass                                       *)

PrepareAdmission(p) ==
    /\ PassAt(p, "prepare") /\ HoldsLease(p)
    /\ pollCursor' = IF HasCandidate(pollCursor, MaxPollFailures)
                        THEN Resolved(pollCursor) ELSE pollCursor
    /\ PassGoes(p, [pass[p] EXCEPT !.pc = "admit"])
    /\ UNCHANGED <<planState, asked, pollFaults>>

Admit(p) ==
    /\ PassAt(p, "admit") /\ HoldsLease(p)
    /\ PassGoes(p, [pass[p] EXCEPT !.pc = "start"])
    /\ UNCHANGED <<planState, asked, pollCursor, pollFaults>>

RecordAdmissionFailure(p, o) ==
    /\ PassAt(p, "admit") /\ HoldsLease(p)
    /\ IF o = "transient" /\ HasCandidate(pollCursor, MaxPollFailures)
          THEN /\ ToTerminal(p, Nobody, {}, FALSE)
               /\ UNCHANGED <<planState, asked, pollCursor, pollFaults>>
       ELSE IF o = "limited" /\ HasCandidate(pollCursor, MaxPollFailures)
          THEN RecordFailure(p, o, "conflict", pollCursor.plan, {}, FALSE)
       ELSE RecordFailure(p, o, "none", Nobody, {}, FALSE)

\* What the pass remembers of the recovery it read at its start.
BoundOf(c) ==
    IF c.kind = "conflict" /\ c.recovery \in {"available", "claimed"} THEN c.plan ELSE Nobody

\* A mutant: an exhausted budget is not looked at before the work of a pass.
StartUnchecked(p) ==
    /\ PassAt(p, "start") /\ HoldsLease(p) /\ ~PollPaused(pollCursor)
    /\ PassGoes(p, [pass[p] EXCEPT !.pc = "route", !.bound = BoundOf(pollCursor),
                               !.attempted = LivePlans])
    /\ UNCHANGED <<planState, asked, pollCursor, pollFaults>>

Start(p) ==
    /\ PassAt(p, "start") /\ HoldsLease(p) /\ ~PollPaused(pollCursor)
    /\ pollCursor.failures < MaxPollFailures
    /\ PassGoes(p, [pass[p] EXCEPT !.pc = "route", !.bound = BoundOf(pollCursor),
                               !.attempted = LivePlans])
    /\ UNCHANGED <<planState, asked, pollCursor, pollFaults>>

StartPaused(p) ==
    /\ PassAt(p, "start") /\ HoldsLease(p) /\ PollPaused(pollCursor)
    /\ IF \E v \in PlanIds : InboxPlan(v)
          THEN PassGoes(p, [pass[p] EXCEPT !.pc = "paused"])
          ELSE EndPass(p)
    /\ UNCHANGED <<planState, asked, pollCursor, pollFaults>>

\* Answers routed while paused may have reset the cursor: then the pass goes on.
EndPaused(p) ==
    /\ PassAt(p, "paused") /\ HoldsLease(p)
    /\ IF PollPaused(pollCursor) THEN EndPass(p)
          ELSE PassGoes(p, [pass[p] EXCEPT !.pc = "route", !.attempted = LivePlans])
    /\ UNCHANGED <<planState, asked, pollCursor, pollFaults>>

StartExhausted(p) ==
    /\ PassAt(p, "start") /\ HoldsLease(p) /\ ~PollPaused(pollCursor)
    /\ pollCursor.failures >= MaxPollFailures
    /\ IF ~HasCandidate(pollCursor, MaxPollFailures)
          THEN /\ ToTerminal(p, Nobody, {}, FALSE)
               /\ UNCHANGED pollCursor
          ELSE LET s == [pass[p] EXCEPT !.bound = pollCursor.plan, !.attempted = LivePlans]
               IN  /\ pollCursor' = Resolved(pollCursor)
                   /\ PassGoes(p,
                          CASE LivePlan(pollCursor.plan) ->
                                 [s EXCEPT !.pc = "route", !.boot = TRUE]
                            [] planState[pollCursor.plan] = "projecting" ->
                                 [s EXCEPT !.pc = "resume", !.resuming = TRUE,
                                           !.attempted = {}]
                            [] OTHER -> [s EXCEPT !.pc = "route"])
    /\ UNCHANGED <<planState, asked, pollFaults>>

----------------------------------------------------------------------------
(* Resuming the claimed recovery of a Plan Version that is still projecting *)

Resumed(p, boot) ==
    PassGoes(p, [pass[p] EXCEPT !.pc = "route", !.boot = boot, !.resuming = FALSE,
                            !.plan = Nobody, !.attempted = LivePlans])

Resume(p) ==
    /\ PassAt(p, "resume") /\ HoldsLease(p)
    /\ CASE RecoveredPlan(pollCursor) ->
              /\ pollCursor' = Forgiven(pollCursor, "completed")
              /\ Resumed(p, TRUE)
         [] planState[pass[p].bound] = "projecting" ->
              /\ PassGoes(p, [pass[p] EXCEPT !.pc = "control"])
              /\ UNCHANGED pollCursor
         [] OTHER ->
              /\ pollCursor' = Resolved(pollCursor)
              /\ Resumed(p, LivePlan(pollCursor.plan))
    /\ UNCHANGED <<planState, asked, pollFaults>>

\* After the bootstrap of the process's own root succeeded.
Recover(p) ==
    /\ PassAt(p, "recover") /\ HoldsLease(p)
    /\ CASE RecoveredPlan(pollCursor) ->
              /\ pollCursor' = Forgiven(pollCursor, "completed")
              /\ Resumed(p, TRUE)
         [] planState[pollCursor.plan] = "projecting" ->
              /\ pollCursor' = Resolved(pollCursor)
              /\ ToTerminal(p, Nobody, {}, FALSE)
         [] OTHER ->
              /\ pollCursor' = Resolved(pollCursor)
              /\ Resumed(p, FALSE)
    /\ UNCHANGED <<planState, asked, pollFaults>>

ResolveFailed(p) ==
    /\ PassAt(p, "failing") /\ HoldsLease(p) /\ pass[p].plan = Nobody
    /\ pollCursor' = IF HasCandidate(pollCursor, MaxPollFailures)
                        THEN Resolved(pollCursor) ELSE pollCursor
    /\ PassGoes(p, [pass[p] EXCEPT !.plan = pass[p].bound])
    /\ UNCHANGED <<planState, asked, pollFaults>>

RecordFailed(p, o) ==
    /\ PassAt(p, "failing") /\ pass[p].plan # Nobody
    /\ RecordBootstrapFailure(p, o, pass[p].plan)

----------------------------------------------------------------------------
(* The work of a pass                                                      *)

RouteAnswers(p) ==
    /\ PassAt(p, "route") /\ HoldsLease(p)
    /\ PassGoes(p, [pass[p] EXCEPT !.pc = "control", !.attempted = {}])
    /\ UNCHANGED <<planState, asked, pollCursor, pollFaults>>

\* The answers cannot be read: charged to the Plans that were active, if any.
RouteFails(p, o) ==
    /\ PassAt(p, "route") /\ HoldsLease(p)
    /\ \E v \in PlanIds : InboxPlan(v)
    /\ IF pass[p].attempted = {}
          THEN /\ EndPass(p)
               /\ UNCHANGED <<planState, asked, pollCursor, pollFaults>>
          ELSE RecordFailure(p, o, "none", Nobody, pass[p].attempted, FALSE)

Bootstraps(p) == PassAt(p, "control") /\ ~pass[p].boot

\* The root has an approved replacement (of its current version).
Replaced(r) == replacement[r] # Nobody /\ planState[r] # "superseded"
TargetActivated(w) == planState[w] \in {"active", "completed"}

\* SchedulerRoot: the configured root, or what replaces it.
SchedulerRoot(p) == IF Replaced(rootOf[p]) THEN replacement[rootOf[p]] ELSE rootOf[p]

\* A replacement is bootstrapped while it is projecting, and again once it is
\* activated and the root has been handed over; otherwise it is not ready.
RootReady(p) ==
    Replaced(rootOf[p]) =>
        IF planState[rootOf[p]] = "retired" THEN TargetActivated(SchedulerRoot(p))
                                            ELSE planState[SchedulerRoot(p)] = "projecting"

\* The hand-over: the frozen root is cancelled when its replacement is active.
HandOver(p) ==
    LET r == rootOf[p]
    IN  /\ Bootstraps(p) /\ Replaced(r) /\ TargetActivated(replacement[r])
        /\ planState[r] # "retired"
        /\ planState' = [planState EXCEPT ![r] = "retired"]
        /\ UNCHANGED <<impactVars, asked, pollCursor, pollLease, pass, pollFaults>>

\* plan.Activator: the durable version first, then its projection on GitHub.
BeginBootstrap(p) ==
    LET r == SchedulerRoot(p)
    IN  /\ Bootstraps(p) /\ RootReady(p) /\ planState[r] \in {"absent", "projecting"}
        /\ planState' = [planState EXCEPT ![r] = "projecting"]
        /\ PassGoes(p, [pass[p] EXCEPT !.pc = "projecting", !.plan = r])
        /\ UNCHANGED <<asked, pollCursor, pollFaults>>

\* The root has a version already: its state is projected, nothing activated.
Reconcile(p) ==
    LET r == SchedulerRoot(p)
        s == [pass[p] EXCEPT !.plan = r, !.already = planState[r] = "completed"]
    IN  /\ Bootstraps(p) /\ RootReady(p)
        /\ planState[r] \in {"active", "frozen", "completed", "retired"}
        /\ PassGoes(p, [s EXCEPT !.pc = IF s.resuming THEN "recover" ELSE "dispatch"])
        /\ UNCHANGED <<planState, asked, pollCursor, pollFaults>>

FinishBootstrap(p) ==
    LET r == pass[p].plan
    IN  /\ PassAt(p, "projecting")
        /\ planState' = [planState EXCEPT ![r] = IF planState[r] = "projecting"
                                                   THEN "active" ELSE @]
        /\ PassGoes(p, [pass[p] EXCEPT
                          !.pc = IF pass[p].resuming THEN "recover" ELSE "dispatch"])
        /\ UNCHANGED <<asked, pollCursor, pollFaults>>

\* The bootstrap fails: before a version is known, while it is being
\* projected, because the replacement of the root is not ready, or (a
\* superseded root) because GitHub shows another graph.
BootstrapFails(p, o) ==
    /\ Bootstraps(p) \/ PassAt(p, "projecting")
    /\ IF pass[p].resuming
          THEN /\ PassGoes(p, [pass[p] EXCEPT !.pc = "failing", !.plan = Nobody])
               /\ UNCHANGED <<planState, asked, pollCursor, pollFaults>>
          ELSE RecordBootstrapFailure(p, o, pass[p].plan)

SkipBootstrap(p) ==
    /\ PassAt(p, "control") /\ pass[p].boot
    /\ PassGoes(p, [pass[p] EXCEPT !.pc = "dispatch"])
    /\ UNCHANGED <<planState, asked, pollCursor, pollFaults>>

DispatchFails(p, o) ==
    /\ PassAt(p, "dispatch")
    /\ RecordBootstrapFailure(p, o, pass[p].plan)

\* The candidate of a recovery and the Plans this pass answers for.
Dispatched(p) ==
    LET s == pass[p]
        candidate == IF s.plan # Nobody THEN s.plan ELSE s.bound
    IN  /\ PassAt(p, "dispatch") /\ HoldsLease(p)
        /\ IF LivePlans = {} /\ candidate = Nobody
              THEN /\ pollCursor' = Succeeded(pollCursor)
                   /\ EndPass(p)
              ELSE /\ PassGoes(p, [OffDuty EXCEPT !.pc = "inbox", !.bound = candidate,
                                              !.attempted = LivePlans])
                   /\ UNCHANGED pollCursor
        /\ UNCHANGED <<planState, asked, pollFaults>>

ProjectInbox(p) ==
    /\ PassAt(p, "inbox") /\ HoldsLease(p)
    /\ PassGoes(p, [pass[p] EXCEPT !.pc = "poll", !.bound = Nobody])
    /\ UNCHANGED <<planState, asked, pollCursor, pollFaults>>

InboxFails(p, o) ==
    /\ PassAt(p, "inbox")
    /\ RecordFailure(p, o, "none", Nobody, pass[p].attempted, FALSE)

\* The Gateway refuses the projection: it sees no Plan to project for.
InboxConflicts(p) ==
    LET s == pass[p]
    IN  /\ PassAt(p, "inbox") /\ HoldsLease(p)
        /\ \A v \in PlanIds : ~InboxPlan(v)
        /\ IF s.attempted # LivePlans \/ s.bound = Nobody \/ planState[s.bound] # "projecting"
              THEN /\ pollCursor' = Succeeded(pollCursor)
                   /\ EndPass(p)
                   /\ UNCHANGED <<planState, asked, pollFaults>>
              ELSE RecordFailure(p, "transient", "conflict", s.bound, {}, FALSE)

PollFails(p, o) ==
    /\ PassAt(p, "poll") \/ PassAt(p, "after")
    /\ RecordFailure(p, o, "none", Nobody, pass[p].attempted, FALSE)

PollFreezes(p, v) ==
    /\ PassAt(p, "poll") /\ planState[v] = "active"
    /\ planState' = [planState EXCEPT ![v] = "frozen"]
    /\ impact' = impact \cup {v}
    /\ UNCHANGED <<rootOf, replacement, asked, pollCursor, pollLease, pass, pollFaults>>

\* The last Ticket is delivered, which answers what was asked about it.
PollDelivers(p, v) ==
    /\ PassAt(p, "poll") /\ planState[v] = "active"
    /\ planState' = [planState EXCEPT ![v] = "completed"]
    /\ impact' = impact \ {v}
    /\ pass' = [pass EXCEPT ![p].pc = "after"]
    /\ UNCHANGED <<rootOf, replacement, asked, pollCursor, pollLease, pollFaults>>

RecordSuccess(p) ==
    /\ PassAt(p, "poll") \/ PassAt(p, "after")
    /\ HoldsLease(p)
    /\ pollCursor' = Succeeded(pollCursor)
    /\ EndPass(p)
    /\ UNCHANGED <<planState, asked, pollFaults>>

----------------------------------------------------------------------------
(* Human decisions, routed by a pass or given through the local command    *)

\* "retry", to the poll_failure question of a version, which may lift the
\* freeze of a Ticket that the failure was about.
RetryPoll(v) ==
    /\ v \in asked /\ InboxPlan(v)
    /\ pollCursor' = [Forgiven(pollCursor, "none") EXCEPT !.plan = Nobody]
    /\ asked' = asked \ {v}
    /\ \/ UNCHANGED planState
       \/ planState[v] = "frozen" /\ planState' = [planState EXCEPT ![v] = "active"]
    /\ UNCHANGED <<impact, replacement>>

\* The impact question of a Plan is answered: its failure is forgotten.
ImpactAnswered(v) ==
    /\ v \in impact /\ InboxPlan(v)
    /\ impact' = impact \ {v}
    /\ pollCursor' = Forgotten(v)
    /\ asked' = IF PauseIsOf(v) THEN asked \ {v} ELSE asked

\* "cancel-plan"
CancelPlan(v) ==
    /\ ImpactAnswered(v)
    /\ planState' = [planState EXCEPT ![v] = "retired"]
    /\ UNCHANGED replacement

\* "replace": the replacement is recorded; the Plan stays frozen until the
\* bootstrap of its root hands over.
ReplacePlan(v, w) ==
    /\ ImpactAnswered(v) /\ planState[v] = "frozen"
    /\ w # v /\ planState[w] \in {"projecting", "active"}
    /\ replacement' = [replacement EXCEPT ![v] = w]
    /\ UNCHANGED planState

\* The answer to the question of the closed Ticket lifts the freeze.
Unfreeze(v) ==
    /\ planState[v] = "frozen"
    /\ planState' = [planState EXCEPT ![v] = "active"]
    /\ UNCHANGED <<asked, impact, replacement, pollCursor>>

\* An approved amendment puts another version in the place of v, with the
\* impact question if its Ticket is unaffected.
Amend(v, w) ==
    /\ LivePlan(v) /\ planState[w] = "absent" /\ \A p \in Passes : rootOf[p] # w
    /\ planState' = [planState EXCEPT ![v] = "superseded", ![w] = "active"]
    /\ impact' \in {impact \ {v}, (impact \ {v}) \cup {w : u \in impact \cap {v}}}
    /\ UNCHANGED <<asked, replacement, pollCursor>>

Decide ==
    \E v \in PlanIds :
        \/ RetryPoll(v) \/ CancelPlan(v) \/ Unfreeze(v)
        \/ \E w \in PlanIds : ReplacePlan(v, w) \/ Amend(v, w)

RouteDecision(p) ==
    /\ PassAt(p, "paused") \/ PassAt(p, "route")
    /\ HoldsLease(p)
    /\ Decide
    /\ UNCHANGED <<rootOf, pollLease, pass, pollFaults>>

\* A mutant: the local command does not wait for the lease.
LocalDecisionUnleased ==
    /\ Decide
    /\ pollLease' = [holder |-> Nobody, live |-> FALSE]
    /\ UNCHANGED <<rootOf, pass, pollFaults>>

\* acquireGitHubPollMutationLease around the same transaction.
LocalDecision ==
    /\ LeaseFree
    /\ Decide
    /\ pollLease' = [holder |-> Nobody, live |-> FALSE]
    /\ UNCHANGED <<rootOf, pass, pollFaults>>

----------------------------------------------------------------------------
AdmissionStep(p) ==
    \/ AcquireLease(p) \/ PrepareAdmission(p) \/ Admit(p)
    \/ Start(p) \/ StartPaused(p) \/ EndPaused(p) \/ StartExhausted(p)
    \/ Resume(p) \/ Recover(p) \/ ResolveFailed(p)
    \/ ConsumeEligibility(p) \/ TerminalFailure(p)
    \/ Abandons(p) \/ Crashes(p)

WorkStep(p) ==
    \/ RouteAnswers(p) \/ RouteDecision(p)
    \/ HandOver(p) \/ BeginBootstrap(p) \/ Reconcile(p) \/ FinishBootstrap(p)
    \/ SkipBootstrap(p)
    \/ Dispatched(p) \/ ProjectInbox(p) \/ InboxConflicts(p) \/ RecordSuccess(p)
    \/ \E v \in PlanIds : PollFreezes(p, v) \/ PollDelivers(p, v)

FailureStep(p) ==
    \E o \in Outcomes :
        \/ RecordAdmissionFailure(p, o) \/ RecordFailed(p, o)
        \/ RouteFails(p, o) \/ BootstrapFails(p, o) \/ DispatchFails(p, o)
        \/ InboxFails(p, o) \/ PollFails(p, o)

PollNext ==
    \/ \E p \in Passes : AdmissionStep(p) \/ WorkStep(p) \/ FailureStep(p)
    \/ LocalDecision
    \/ LeaseLapses

PollSpec == PollInit /\ [][PollNext]_pollVars

----------------------------------------------------------------------------
(* Properties                                                              *)

\* The types of the state, and the shape of a recovery: a bootstrap recovery
\* that is available or claimed is bound to a Plan Version.
PollTypeOK ==
    /\ rootOf \in ConfiguredRoots
    /\ planState \in [PlanIds -> PlanStates]
    /\ asked \subseteq PlanIds /\ impact \subseteq PlanIds
    /\ replacement \in [PlanIds -> PlanIds \cup {Nobody}]
    /\ pollCursor \in [failures : 0..CountedFailures, kind : Kinds,
                   recovery : Recoveries, plan : PlanIds \cup {Nobody},
                   attempted : SUBSET PlanIds]
    /\ pollLease \in [holder : Passes \cup {Nobody}, live : BOOLEAN]
    /\ pass \in [Passes -> [pc : Locals \cup {"idle"}, boot : BOOLEAN,
                   bound : PlanIds \cup {Nobody}, plan : PlanIds \cup {Nobody},
                   already : BOOLEAN, attempted : SUBSET PlanIds,
                   retry : BOOLEAN, resuming : BOOLEAN]]
    /\ pollFaults \in 0..MaxPollFaults
    /\ pollCursor.recovery \in {"available", "claimed"} =>
           pollCursor.kind = "conflict" /\ pollCursor.plan # Nobody

\* While a lease is live nothing but the process that holds it changes the
\* cursor or the open questions, in a step of its pass or in an answer that it
\* routes, and no pass changes them on a lease it outlived: a local answer
\* cannot land in the middle of a pass, and a pass that slept through its lease
\* cannot overwrite what its successor recorded.
CursorFence ==
    [][ <<pollCursor, asked>>' # <<pollCursor, asked>> =>
          LET h == pollLease.holder
          IN  IF LeaseFree THEN pass' = pass /\ pollLease'.holder = Nobody
              ELSE /\ \A p \in Passes \ {h} : pass'[p] = pass[p]
                   /\ \/ pass'[h] # pass[h]
                      \/ pass[h].pc \in {"paused", "route"} /\ UNCHANGED pollLease ]_pollVars

\* A pass never works (routes, bootstraps, dispatches, projects, polls) on an
\* exhausted budget that nobody resolved, whatever crashed in between: what a
\* pass could not decide before it died, the next one decides first.  The
\* bootstrap that resumes a claimed recovery is what the budget is resolved by.
NoWorkPastBudget ==
    \A p \in Passes :
        /\ \/ pass[p].pc \in {"route", "dispatch", "inbox", "poll", "after"}
           \/ pass[p].pc \in {"control", "projecting"} /\ ~pass[p].resuming
        /\ HoldsLease(p)
        => ~PollPaused(pollCursor) /\ pollCursor.failures < MaxPollFailures

\* The budget is a bound: rate limits defer a claimed recovery only so often,
\* and a poll that is not paused has failed at most that many times in a row
\* (once more for every pass that died between its count and its decision).
BudgetBound ==
    ~PollPaused(pollCursor) => pollCursor.failures <= RecoveryFailureLimit + 1 + pollFaults

\* Polling that stopped for a human is resumed by a human: by the answer to
\* an open poll question, by the decision about a Plan Version whose closed
\* pull request the pause is about, or because every version it failed for has completed.  A
\* restart, a later admission failure or a rejected credential does not lift it.
PauseIsSticky ==
    [][ PollPaused(pollCursor) /\ ~PollPaused(pollCursor)' =>
          \/ \E v \in asked : v \notin asked'
          \/ \E v \in impact : v \notin impact'
          \/ \E p \in Passes :
                PassAt(p, "terminal") /\ AllCompleted(TerminalAttempts(pass[p]))
      ]_pollVars
============================================================================
