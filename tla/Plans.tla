------------------------------- MODULE Plans -------------------------------
(* Delivery plans: how a version of a plan is activated from GitHub           *)
(* (internal/plan/activate.go, internal/store/sqlite.go), dispatched with the *)
(* other plans (internal/store/dispatch.go), amended by one of its own        *)
(* tickets (internal/store/amendment.go), frozen by a closed pull request     *)
(* (internal/store/feedback.go), and cancelled, replaced or taken up again by *)
(* a human's answer (internal/store/poll.go).                                 *)
(*                                                                            *)
(* One control process runs one pass after the other: answers, bootstrap,     *)
(* delivery retries, dispatch, poll of the pull requests; an error or a crash *)
(* ends the pass where it is.  Worker runs end and propose amendments between *)
(* any two steps, and `workflow reconcile-delivered`, a process of its own,   *)
(* may observe pull requests at the same time from a list it read before.     *)
(*                                                                            *)
(* A version is named by the hash of its contents: the record itself is the   *)
(* name.  A version that an amendment made carries no title or body of its    *)
(* root, so that it is never the version that GitHub's graph describes.       *)
EXTENDS Naturals, FiniteSets

CONSTANTS Settings,         \* the plans on GitHub and what agents may propose
          MaxParallelRuns,
          MaxAmendments,    \* bound: proposals
          MaxCloses,        \* bound: pull requests seen closed without a merge
          Nil

\* A setting: roots (numbers, by which plans are ordered) with their graphs,
\* and the amendments that agents may propose.
TicketsOf(s) == (UNION {s.graph[r].tickets : r \in DOMAIN s.graph})
                \cup (UNION {c.add : c \in s.changes})

\* Whatever a version of a plan of this setting may contain.
VersionsOf(s) == [root : DOMAIN s.graph, tickets : SUBSET TicketsOf(s),
                  blocks : SUBSET (TicketsOf(s) \X TicketsOf(s)),
                  from : {"github", "amendment"}]

\* Edges join tickets, and Nil is none of the versions.
ASSUME PlansConstants ==
    /\ MaxParallelRuns \in Nat \ {0} /\ MaxAmendments \in Nat /\ MaxCloses \in Nat
    /\ \A s \in Settings :
          /\ DOMAIN s.graph \subseteq Nat \ {0}
          /\ \A r \in DOMAIN s.graph :
                s.graph[r].blocks \subseteq s.graph[r].tickets \X s.graph[r].tickets
          /\ \A c \in s.changes : c.link \subseteq TicketsOf(s) \X TicketsOf(s)
          /\ Nil \notin VersionsOf(s)

VARIABLES
    setting,
    plans,         \* root -> current version, state
    versions,      \* plan_versions with their ticket_runtime, sessions, deliveries
    proposals,     \* plan_amendments that are pending, with their pauses
    questions,     \* workflow_questions that are open
    handoff,       \* replacement_tickets: frozen version -> state, target
    cursor,        \* dispatch_fairness: the root dispatched last
    announced,     \* versions whose marker GitHub's plan root has accepted
    control,       \* the control process
    reconciling,   \* deliveries the reconcile-delivered process has still to do
    used           \* amendments and closed pull requests so far

plansVars == <<setting, plans, versions, proposals, questions, handoff, cursor,
               announced, control, reconciling, used>>

Roots == DOMAIN setting.graph

Ticket == [state : {"queued", "running", "waiting_review", "needs_attention",
                    "delivered", "cancelled"},
           run : {"none", "work", "carried", "delivery"},
           accepted : BOOLEAN, pr : BOOLEAN, retry : BOOLEAN]

\* The version ReadPlan's snapshot of a root stands for.
Fingerprint(r) == [root |-> r, tickets |-> setting.graph[r].tickets,
                   blocks |-> setting.graph[r].blocks, from |-> "github"]

FreshTicket == [state |-> "queued", run |-> "none", accepted |-> FALSE,
                pr |-> FALSE, retry |-> FALSE]

\* A table with the row of one key written, whether it had one or not.
WithRow(table, key, row) ==
    [k \in DOMAIN table \cup {key} |-> IF k = key THEN row ELSE table[k]]

NewVersion(v, state, ticket) ==
    [state |-> state, terminal |-> "none", frozen |-> Nil, ticket |-> ticket]

Pass(at) == [at |-> at, root |-> 0, todo |-> {}, after |-> "poll"]

PlansInit ==
    /\ setting \in Settings
    /\ plans = [r \in Roots |-> [current |-> Nil, state |-> "none"]]
    /\ versions = <<>> /\ proposals = {} /\ questions = {} /\ handoff = <<>>
    /\ cursor = 0 /\ announced = {}
    /\ control = Pass("answers") /\ reconciling = {}
    /\ used = [amendments |-> 0, closes |-> 0]

-----------------------------------------------------------------------------
(* Eligibility, and the writes that several operations share.               *)

Current(r) == plans[r].current
IsCurrent(v) == plans[v.root].current = v

CurrentActive(v) ==
    /\ IsCurrent(v) /\ plans[v.root].state = "active"
    /\ versions[v].state = "active" /\ versions[v].terminal = "none"
Unfrozen(v) == versions[v].frozen = Nil
CurrentActiveUnfrozen(v) == CurrentActive(v) /\ Unfrozen(v)

SchedulableReplacement(v) ==
    /\ v # Nil /\ v \in DOMAIN versions /\ IsCurrent(v)
    /\ versions[v].state = plans[v.root].state
    /\ versions[v].terminal = "none" /\ Unfrozen(v)

Slots == UNION {{v} \X v.tickets : v \in DOMAIN versions}
At(v, t) == versions[v].ticket[t]
Live(v, t) == At(v, t).run # "none"
Undelivered(row) == {t \in DOMAIN row.ticket : row.ticket[t].state # "delivered"}
LiveIn(row) == {t \in DOMAIN row.ticket : row.ticket[t].run # "none"}
ActiveRuns == Cardinality({s \in Slots : Live(s[1], s[2])})

Question(kind, v, t) == [kind |-> kind, version |-> v, ticket |-> t]
\* ensureNeedsAttentionQuestionTx: at most one is open per ticket and boundary.
Asked(v, tickets) == questions \cup {Question("attention", v, t) : t \in tickets}
SetTicket(v, t, rec) == [versions EXCEPT ![v].ticket[t] = rec]

\* plan_amendment_pauses of the pending amendments of a version.
Paused(v) == UNION {p.affected : p \in {q \in proposals : q.version = v}}

\* markPlanCompletedTx: every ticket is delivered and no run is live.
MarkPlanCompleted(row) ==
    IF Undelivered(row) = {} /\ LiveIn(row) = {} /\ row.terminal = "none"
    THEN [row EXCEPT !.terminal = "completed"] ELSE row

\* markTicketNeedsAttentionTx ends the run and drops a pending retry.
AskAttention(rec) ==
    [rec EXCEPT !.state = "needs_attention", !.run = "none", !.retry = FALSE]

\* The delivery of a ticket, or the answer to its question, lifts the freeze
\* that it caused and no other.
FrozenForGood(frozen, t) == frozen
Thawed(frozen, t) == IF frozen = t THEN Nil ELSE frozen

\* cancelPlanTx: what is delivered stays, the rest is cancelled with its runs.
CancelLeavesRuns(row) ==
    [row EXCEPT
        !.terminal = IF @ = "none" THEN "cancelled" ELSE @,
        !.frozen = Nil,
        !.ticket = [t \in DOMAIN row.ticket |->
            [row.ticket[t] EXCEPT
                !.state = IF @ = "delivered" THEN @ ELSE "cancelled"]]]
CancelPlan(row) ==
    [row EXCEPT
        !.terminal = IF @ = "none" THEN "cancelled" ELSE @,
        !.frozen = Nil,
        !.ticket = [t \in DOMAIN row.ticket |->
            [row.ticket[t] EXCEPT
                !.run = "none",
                !.state = IF @ = "delivered" THEN @ ELSE "cancelled"]]]

-----------------------------------------------------------------------------
(* Bootstrap: which root to schedule, and its activation.                   *)

\* The handoff of the configured root's version to its replacement.
Handoff(r) ==
    IF Current(r) \in DOMAIN handoff THEN handoff[Current(r)]
    ELSE [state |-> "none", target |-> Nil]

TargetProjecting(w) ==
    SchedulableReplacement(w) /\ versions[w].state = "projecting"
TargetActivated(w) ==
    /\ IsCurrent(w) /\ Unfrozen(w)
    /\ plans[w.root].state = "active" /\ versions[w].state = "active"
    /\ versions[w].terminal # "cancelled"

\* SchedulerRoot.  An approved replacement is activated first; once it is
\* active the frozen source is cancelled in the same transaction.
SchedulerRoot(r) ==
    LET h == Handoff(r)
        v == Current(r) IN
    /\ control.at = "answers"
    /\ \/ /\ h.state = "none"
          /\ control' = [control EXCEPT !.at = "activate", !.root = r]
          /\ UNCHANGED <<versions, handoff>>
       \/ /\ h.state = "approved" /\ TargetProjecting(h.target)
          /\ control' = [control EXCEPT !.at = "activate", !.root = h.target.root]
          /\ UNCHANGED <<versions, handoff>>
       \/ /\ h.state # "none" /\ TargetActivated(h.target)
          /\ control' = [control EXCEPT !.at = "activate", !.root = h.target.root]
          /\ versions' = IF h.state = "approved"
                         THEN [versions EXCEPT ![v] = CancelPlan(@)] ELSE versions
          /\ handoff' = [handoff EXCEPT ![v].state = "active"]
    /\ UNCHANGED <<setting, plans, proposals, questions, cursor, announced,
                   reconciling, used>>

\* The step after BeginActivation.  Whether the marker of a version that is
\* still projecting has been shown is not known: it is projected again.
AssumeShown(known, row) ==
    IF row.state # "projecting" THEN "retry" ELSE IF known THEN "mark" ELSE "project"
ActivationStep(known, row) == IF row.state = "projecting" THEN "project" ELSE "retry"

\* BeginActivation: the first snapshot becomes an immutable version; any other
\* has to be the current one, or the pass fails.
BeginActivation ==
    LET r == control.root
        v == Fingerprint(r) IN
    /\ control.at = "activate"
    /\ Current(r) \in {Nil, v}
    /\ IF Current(r) = Nil
       THEN /\ versions' = WithRow(versions, v,
                   NewVersion(v, "projecting", [t \in v.tickets |-> FreshTicket]))
            /\ plans' = [plans EXCEPT ![r] = [current |-> v, state |-> "projecting"]]
       ELSE UNCHANGED <<versions, plans>>
    /\ control' = [control EXCEPT
           !.at = ActivationStep(Current(r) # Nil, versions'[v])]
    /\ UNCHANGED <<setting, proposals, questions, handoff, cursor, announced,
                   reconciling, used>>

\* ProjectPlan "Building" with the active label; MarkActive only after it.
ProjectBuilding ==
    /\ control.at = "project"
    /\ announced' = announced \cup {Current(control.root)}
    /\ control' = [control EXCEPT !.at = "mark"]
    /\ UNCHANGED <<setting, plans, versions, proposals, questions, handoff, cursor,
                   reconciling, used>>

MarkActive ==
    LET v == Current(control.root) IN
    /\ control.at = "mark"
    /\ versions' = [versions EXCEPT
           ![v] = MarkPlanCompleted([@ EXCEPT !.state = "active"])]
    /\ plans' = [plans EXCEPT ![control.root].state = "active"]
    /\ control' = [control EXCEPT !.at = "retry"]
    /\ UNCHANGED <<setting, proposals, questions, handoff, cursor, announced,
                   reconciling, used>>

\* An error or a crash ends the pass; what was committed stays.
PassFails ==
    /\ control.at # "answers"
    /\ control' = Pass("answers")
    /\ UNCHANGED <<setting, plans, versions, proposals, questions, handoff, cursor,
                   announced, reconciling, used>>

-----------------------------------------------------------------------------
(* Dispatch: delivery retries first, then the global frontier.              *)

\* ClaimPendingDeliveryClaims: it asks for the current version only.
RetryDelivery(v, t) ==
    /\ control.at = "retry" /\ ActiveRuns < MaxParallelRuns
    /\ IsCurrent(v)
    /\ At(v, t).accepted /\ At(v, t).retry /\ At(v, t).state = "waiting_review"
    /\ versions' = SetTicket(v, t, [At(v, t) EXCEPT
           !.retry = FALSE, !.run = "delivery", !.state = "running"])
    /\ UNCHANGED <<setting, plans, proposals, questions, handoff, cursor, announced,
                   control, reconciling, used>>

\* loadFrontierTx with ReadyFrontier.  A paused ticket is not in the snapshot:
\* it is not ready, and what it blocks has an unknown blocker.  The order of the
\* tickets inside one plan is left open.
ReadyWhilePaused(v) ==
    IF v = Nil \/ ~CurrentActiveUnfrozen(v) THEN {}
    ELSE {t \in v.tickets :
             /\ At(v, t).state \in {"queued", "running"} /\ ~Live(v, t)
             /\ \A b \in v.tickets : <<t, b>> \in v.blocks => At(v, b).state = "delivered"}
Ready(v) ==
    IF v = Nil \/ ~CurrentActiveUnfrozen(v) THEN {}
    ELSE {t \in v.tickets \ Paused(v) :
             /\ At(v, t).state \in {"queued", "running"} /\ ~Live(v, t)
             /\ \A b \in v.tickets : <<t, b>> \in v.blocks =>
                   b \notin Paused(v) /\ At(v, b).state = "delivered"}

Least(S) == CHOOSE x \in S : \A y \in S : x <= y
ReadyRoots == {r \in Roots : Ready(Current(r)) # {}}

\* globalReadyFrontierTx: the plan after the cursor's, if the cursor's plan is
\* itself ready; otherwise the first.
SameRootAgain ==
    IF cursor \in ReadyRoots THEN cursor ELSE Least(ReadyRoots)
NextRoot ==
    LET later == {r \in ReadyRoots : r > cursor} IN
    IF cursor \in ReadyRoots /\ later # {} THEN Least(later) ELSE Least(ReadyRoots)

ClaimNextReady ==
    /\ ActiveRuns < MaxParallelRuns /\ ReadyRoots # {}
    /\ LET r == NextRoot IN
       /\ cursor' = r
       /\ \E t \in Ready(Current(r)) :
             versions' = SetTicket(Current(r), t,
                 [At(Current(r), t) EXCEPT !.run = "work", !.state = "running"])

\* Dispatcher.ClaimNext: the claim stays if its projection then fails (PassFails).
ClaimNext ==
    /\ control.at = "dispatch"
    /\ ClaimNextReady
    /\ UNCHANGED <<setting, plans, proposals, questions, handoff, announced, control,
                   reconciling, used>>

\* PendingTicketDeliveries.
PendingTicketDeliveries ==
    {s \in Slots : /\ CurrentActiveUnfrozen(s[1])
                   /\ At(s[1], s[2]).pr /\ At(s[1], s[2]).accepted
                   /\ At(s[1], s[2]).state \notin {"delivered", "cancelled"}}

AfterDispatch ==
    IF control.after = "end" THEN Pass("answers")
    ELSE [control EXCEPT !.at = "poll", !.todo = PendingTicketDeliveries]

\* DispatchPaused: under host pressure nothing is claimed in this pass.
DispatchPaused ==
    /\ control.at = "retry" /\ control' = AfterDispatch
    /\ UNCHANGED <<setting, plans, versions, proposals, questions, handoff, cursor,
                   announced, reconciling, used>>

\* The pass goes on: after the retries to the frontier, after the frontier to
\* the pull requests, and when one of them was delivered, once more to the
\* retries and the frontier (AfterDelivered).
NextStage ==
    /\ \/ /\ control.at = "retry"
          /\ control' = [control EXCEPT !.at = "dispatch"]
       \/ /\ control.at = "dispatch"
          /\ control' = AfterDispatch
       \/ /\ control.at = "poll" /\ control.todo = {}
          /\ control' = IF control.after = "end"
                        THEN [control EXCEPT !.at = "retry"] ELSE Pass("answers")
    /\ UNCHANGED <<setting, plans, versions, proposals, questions, handoff, cursor,
                   announced, reconciling, used>>

-----------------------------------------------------------------------------
(* Pull requests, as the poll and the reconcile-delivered process see them. *)

\* markTicketDelivered.  It asks neither for the current version nor for pauses
\* or freezes; a delivery that an amendment took along is no longer here.
MarkTicketDelivered(v, t) ==
    LET row == [versions[v] EXCEPT !.frozen = Thawed(@, t)]
        rec == [row.ticket[t] EXCEPT !.state = "delivered", !.run = "none"] IN
    /\ \/ /\ row.ticket[t].state = "delivered"
          /\ versions' = [versions EXCEPT ![v] = row]
       \/ /\ row.ticket[t].state # "delivered" /\ row.ticket[t].pr
          /\ versions' = [versions EXCEPT
                 ![v] = MarkPlanCompleted([row EXCEPT !.ticket[t] = rec])]
    /\ questions' = questions \ {Question(k, v, t) : k \in {"attention", "impact"}}

\* FreezePlanForClosedPullRequest: a plan that is frozen already stays as it is.
FreezePlan(v, t) ==
    LET row == versions[v]
        open == Undelivered(row) IN
    IF t \notin open \/ row.frozen # Nil THEN UNCHANGED <<versions, questions>>
    ELSE /\ versions' = [versions EXCEPT ![v] =
                [row EXCEPT !.frozen = t,
                            !.ticket = [u \in DOMAIN @ |->
                                IF u \in open THEN AskAttention(@[u]) ELSE @[u]]]]
         /\ questions' = Asked(v, open) \cup {Question("impact", v, t)}

\* pullRequestDelivery: merged into main by the owner, closed, or neither.
ObservePull(v, t, pull) ==
    /\ \/ pull = "merged" /\ MarkTicketDelivered(v, t) /\ UNCHANGED used
       \/ /\ pull = "closed" /\ used.closes < MaxCloses
          /\ FreezePlan(v, t)
          /\ used' = [used EXCEPT !.closes = @ + 1]
       \/ pull = "open" /\ UNCHANGED <<versions, questions, used>>
    /\ UNCHANGED <<setting, plans, proposals, handoff, cursor, announced>>

PollTicket(v, t, pull) ==
    /\ control.at = "poll" /\ <<v, t>> \in control.todo
    /\ ObservePull(v, t, pull)
    /\ control' = [control EXCEPT !.todo = @ \ {<<v, t>>},
                                  !.after = IF pull = "merged" THEN "end" ELSE @]
    /\ UNCHANGED reconciling

StartReconcile ==
    /\ reconciling = {} /\ PendingTicketDeliveries # {}
    /\ reconciling' = PendingTicketDeliveries
    /\ UNCHANGED <<setting, plans, versions, proposals, questions, handoff, cursor,
                   announced, control, used>>

ReconcileTicket(v, t, pull) ==
    /\ <<v, t>> \in reconciling
    /\ ObservePull(v, t, pull)
    /\ reconciling' = reconciling \ {<<v, t>>}
    /\ UNCHANGED control

\* An error ends the reconcile-delivered process with its list.
ReconcileFails ==
    /\ reconciling # {} /\ reconciling' = {}
    /\ UNCHANGED <<setting, plans, versions, proposals, questions, handoff, cursor,
                   announced, control, used>>

-----------------------------------------------------------------------------
(* Worker runs: their outcomes (RunStore.tla has them in full) and the       *)
(* amendments they propose.                                                  *)

Outcome(rec, end) ==
    CASE end = "delivered" -> [rec EXCEPT !.run = "none", !.state = "waiting_review",
                                  !.accepted = TRUE, !.pr = TRUE, !.retry = FALSE]
      [] end = "retry"     -> [rec EXCEPT !.run = "none", !.state = "waiting_review",
                                  !.accepted = TRUE, !.retry = TRUE]
      [] end = "lost"      -> [rec EXCEPT !.run = "none"]
      [] end = "attention" -> AskAttention(rec)

RunEnds(v, t, end) ==
    /\ Live(v, t)
    /\ end = "lost" => At(v, t).run # "delivery"
    /\ versions' = SetTicket(v, t, Outcome(At(v, t), end))
    /\ questions' = IF end = "attention" THEN Asked(v, {t}) ELSE questions
    /\ UNCHANGED <<setting, plans, proposals, handoff, cursor, announced, control,
                   reconciling, used>>

\* What depends on the changed tickets, over the edges of both graphs: the
\* least set that has them and, with a ticket, all that it blocks.
Endpoints(edges) == {e[1] : e \in edges} \cup {e[2] : e \in edges}
Downstream(edges, changed) ==
    LET nodes == changed \cup Endpoints(edges)
        closed == {S \in SUBSET nodes :
                      /\ changed \subseteq S
                      /\ \A e \in edges : e[2] \in S => e[1] \in S}
    IN {t \in nodes : \A S \in closed : t \in S}
Acyclic(nodes, edges) ==
    \A t \in nodes : t \notin Downstream(edges, {e[1] : e \in {d \in edges : d[2] = t}})

\* amendedSnapshot and Validate: the target of a proposal, from the stored graph.
AmendedTickets(v, c) == (v.tickets \ c.remove) \cup c.add
AmendedBlocks(v, c) == (v.blocks \ c.unlink) \cup c.link
Amended(v, c) == [root |-> v.root, tickets |-> AmendedTickets(v, c),
                  blocks |-> AmendedBlocks(v, c), from |-> "amendment"]
ChangedTickets(c) ==
    {c.ticket} \cup c.remove \cup c.add \cup Endpoints(c.link \cup c.unlink)

ValidAmendment(v, c) ==
    /\ c.ticket \in v.tickets /\ Cardinality(ChangedTickets(c)) > 1
    /\ c.remove \subseteq Undelivered(versions[v]) /\ c.add \cap v.tickets = {}
    /\ c.unlink \subseteq v.blocks /\ c.link \cap v.blocks = {}
    /\ Endpoints(AmendedBlocks(v, c)) \subseteq AmendedTickets(v, c)
    /\ Acyclic(AmendedTickets(v, c), AmendedBlocks(v, c))
    /\ AmendedTickets(v, c) # {}

\* amendmentAffected: delivered tickets are never affected.
Affected(v, c) ==
    Downstream(v.blocks \cup AmendedBlocks(v, c), ChangedTickets(c))
        \cap Undelivered(versions[v])

\* ProposePlanAmendment, by the run that read the version its claim names: the
\* affected tickets are paused and their runs cancelled until a human decides.
ProposePlanAmendment(v, c) ==
    /\ used.amendments < MaxAmendments
    /\ CurrentActiveUnfrozen(v)
    /\ ValidAmendment(v, c) /\ At(v, c.ticket).run = "work"
    /\ versions' = [versions EXCEPT ![v].ticket = [t \in v.tickets |->
           IF t \in Affected(v, c) THEN [@[t] EXCEPT !.run = "none"] ELSE @[t]]]
    /\ proposals' = proposals \cup
           {[version |-> v, ticket |-> c.ticket, target |-> Amended(v, c),
             affected |-> Affected(v, c)]}
    /\ questions' = questions \cup {Question("amendment", v, c.ticket)}
    /\ used' = [used EXCEPT !.amendments = @ + 1]
    /\ UNCHANGED <<setting, plans, handoff, cursor, announced, control, reconciling>>

-----------------------------------------------------------------------------
(* Answers of the human, routed at the start of a pass.                     *)

\* answerWorkflowQuestionTx: only a question of a current active version; the
\* plan may be frozen.
Answerable(kind, v, t) ==
    /\ control.at = "answers"
    /\ Question(kind, v, t) \in questions
    /\ CurrentActive(v)

\* recoverNeedsAttentionTicketTx: lifts the freeze that this ticket caused.
Recovered(rec) ==
    IF rec.state = "delivered" THEN rec
    ELSE IF rec.accepted THEN [rec EXCEPT !.state = "waiting_review", !.retry = TRUE]
    ELSE [rec EXCEPT !.state = "queued"]

AnswerNeedsAttention(v, t) ==
    /\ Answerable("attention", v, t)
    /\ versions' = [versions EXCEPT
           ![v].frozen = Thawed(@, t),
           ![v].ticket[t] = Recovered(@)]
    /\ questions' = questions \ {Question("attention", v, t)}
    /\ UNCHANGED <<setting, plans, proposals, handoff, cursor, announced, control,
                   reconciling, used>>

AnswerCancelPlan(v, t) ==
    /\ Answerable("impact", v, t)
    /\ versions' = [versions EXCEPT ![v] = CancelPlan(@)]
    /\ questions' = questions \ {Question("impact", v, t)}
    /\ UNCHANGED <<setting, plans, proposals, handoff, cursor, announced, control,
                   reconciling, used>>

\* replaceFrozenPlanTx: by another plan (or a ticket of it) that could be
\* scheduled and has none of the tickets that would be cancelled.
AnswerReplace(v, t, w) ==
    /\ Answerable("impact", v, t)
    /\ versions[v].frozen = t
    /\ SchedulableReplacement(w) /\ w # v
    /\ Undelivered(versions[v]) \cap w.tickets = {}
    /\ handoff' = WithRow(handoff, v, [state |-> "approved", target |-> w])
    /\ questions' = questions \ {Question("impact", v, t)}
    /\ UNCHANGED <<setting, plans, versions, proposals, cursor, announced, control,
                   reconciling, used>>

RejectAmendment(p) ==
    /\ Answerable("amendment", p.version, p.ticket)
    /\ proposals' = proposals \ {p}
    /\ questions' = questions \ {Question("amendment", p.version, p.ticket)}
    /\ UNCHANGED <<setting, plans, versions, handoff, cursor, announced, control,
                   reconciling, used>>

\* carryForwardUnaffectedAmendmentStateTx: a ticket of both versions that is
\* not affected takes its runtime, session, delivery and questions along.
Carried(p) == (p.version.tickets \cap p.target.tickets) \ p.affected
TakenAlong(rec) == IF rec.run = "work" THEN [rec EXCEPT !.run = "carried"] ELSE rec
LeftBehind(rec) ==
    [rec EXCEPT !.run = "none", !.accepted = FALSE, !.pr = FALSE, !.retry = FALSE]
QuestionStays(p, q) == q
MovedQuestion(p, q) ==
    IF q.version = p.version /\ q.kind # "amendment" /\ q.ticket \in Carried(p)
    THEN [q EXCEPT !.version = p.target] ELSE q

AmendedProjecting(p) ==
    LET from == versions[p.version].ticket IN
    NewVersion(p.target, "projecting", [t \in p.target.tickets |->
        IF t \in Carried(p) THEN TakenAlong(from[t]) ELSE FreshTicket])
AmendedWithoutDelivered(p) ==
    LET from == versions[p.version].ticket IN
    NewVersion(p.target, "active", [t \in p.target.tickets |->
        IF t \in Carried(p) /\ from[t].state # "delivered"
        THEN TakenAlong(from[t]) ELSE FreshTicket])
AmendedRow(p) ==
    LET from == versions[p.version].ticket IN
    NewVersion(p.target, "active", [t \in p.target.tickets |->
        IF t \in Carried(p) THEN TakenAlong(from[t]) ELSE FreshTicket])
SourceRow(p) ==
    [versions[p.version] EXCEPT !.ticket = [t \in DOMAIN @ |->
        IF t \in Carried(p) THEN LeftBehind(@[t])
        ELSE IF t \in p.affected THEN [@[t] EXCEPT !.run = "none"] ELSE @[t]]]

\* applyPlanAmendmentTx: the target becomes a new active version.  A version
\* with the same contents makes the insertion, and the pass, fail.
ApproveAmendment(p) ==
    /\ Answerable("amendment", p.version, p.ticket)
    /\ p.target \notin DOMAIN versions
    /\ versions' = WithRow([versions EXCEPT ![p.version] = SourceRow(p)],
                           p.target, AmendedRow(p))
    /\ plans' = [plans EXCEPT ![p.version.root] =
                    [current |-> p.target, state |-> "active"]]
    /\ proposals' = proposals \ {p}
    /\ questions' = {MovedQuestion(p, q) : q \in
                        questions \ {Question("amendment", p.version, p.ticket)}}
    /\ UNCHANGED <<setting, handoff, cursor, announced, control, reconciling, used>>

-----------------------------------------------------------------------------

PullStates == {"open", "closed", "merged"}

ControlNext ==
    \/ \E r \in Roots : SchedulerRoot(r)
    \/ BeginActivation \/ ProjectBuilding \/ MarkActive \/ PassFails
    \/ \E s \in Slots : RetryDelivery(s[1], s[2])
    \/ ClaimNext \/ DispatchPaused \/ NextStage
    \/ \E s \in control.todo, pull \in PullStates : PollTicket(s[1], s[2], pull)

AnswersNext ==
    \/ \E q \in questions :
          \/ AnswerNeedsAttention(q.version, q.ticket)
          \/ AnswerCancelPlan(q.version, q.ticket)
          \/ \E w \in DOMAIN versions : AnswerReplace(q.version, q.ticket, w)
    \/ \E p \in proposals : RejectAmendment(p) \/ ApproveAmendment(p)

OthersNext ==
    \/ StartReconcile \/ ReconcileFails
    \/ \E s \in reconciling, pull \in PullStates : ReconcileTicket(s[1], s[2], pull)
    \/ \E s \in Slots, end \in {"delivered", "retry", "lost", "attention"} :
          RunEnds(s[1], s[2], end)
    \/ \E v \in DOMAIN versions, c \in setting.changes : ProposePlanAmendment(v, c)

PlansNext == ControlNext \/ AnswersNext \/ OthersNext
PlansSpec == PlansInit /\ [][PlansNext]_plansVars

-----------------------------------------------------------------------------
(* Properties.                                                              *)

\* Types: every row has its fields, a root's current version is one of its own,
\* and a current version and its plan agree on the activation state.
PlansTypeOK ==
    /\ \A v \in DOMAIN versions :
          /\ versions[v] \in [state : {"projecting", "active"},
                             terminal : {"none", "completed", "cancelled"},
                             frozen : v.tickets \cup {Nil},
                             ticket : [v.tickets -> Ticket]]
    /\ \A r \in Roots : Current(r) # Nil =>
          /\ Current(r) \in DOMAIN versions /\ Current(r).root = r
          /\ plans[r].state = versions[Current(r)].state
    /\ \A q \in questions : q.version \in DOMAIN versions /\ q.ticket \in q.version.tickets
    /\ \A v \in DOMAIN handoff : v \in DOMAIN versions /\ handoff[v].target # v
    /\ cursor \in Roots \cup {0}

\* Amendments, freezes and cancellations take effect on work that is under way:
\* a live run belongs to the current version of an active plan that is neither
\* cancelled nor completed, and, while the plan is frozen, it is the retry of a
\* delivery that a human asked for (amendment.go:482, feedback.go:471,
\* poll.go:1580).
RunsAreCurrent ==
    \A s \in Slots : Live(s[1], s[2]) =>
        /\ CurrentActive(s[1])
        /\ Unfrozen(s[1]) \/ At(s[1], s[2]).run = "delivery"

\* While an amendment waits for its human, no run works on a ticket that it
\* affects, whoever claimed it and from whichever pass (claim.go:1466); the
\* retry of a delivery is not dispatched from the frontier.
PausedIsIdle ==
    \A v \in DOMAIN versions, t \in UNION {p.affected : p \in proposals} :
        IsCurrent(v) /\ t \in Paused(v) => At(v, t).run \in {"none", "delivery"}

\* Nobody waits for a question that nobody asks: whatever stops a current
\* active plan (a freeze, a ticket that needs attention, a pause) has an open
\* question that ends it, whatever versions it was carried through
\* (feedback.go:462, poll.go:1839, amendment.go:547).
StoppedIsAskable ==
    \A v \in DOMAIN versions : CurrentActive(v) =>
        /\ ~Unfrozen(v) =>
              Question("attention", v, versions[v].frozen) \in questions
        /\ \A t \in v.tickets : At(v, t).state = "needs_attention" =>
              Question("attention", v, t) \in questions
        /\ \A p \in proposals : p.version = v =>
              Question("amendment", v, p.ticket) \in questions

\* A completed plan has delivered every ticket, has no live run and is not
\* frozen, for ever (claim.go:1393).
CompletedIsDelivered ==
    \A v \in DOMAIN versions : versions[v].terminal = "completed" =>
        /\ Undelivered(versions[v]) = {} /\ LiveIn(versions[v]) = {}
        /\ Unfrozen(v)

\* A plan dispatches only after its root on GitHub has shown it: an activation
\* cut short anywhere between the projection and the mark is repeated, never
\* taken for granted (sqlite.go:2086).
ActivatedIsShown ==
    \A v \in DOMAIN versions :
        v.from = "github" /\ versions[v].state = "active" => v \in announced

\* A merged ticket stays delivered, in the current version of its plan and in
\* every version that replaces it, unless the amendment that replaces it had
\* the ticket among those it affects.
DeliveredIsKept ==
    [][\A r \in Roots : Current(r) # Nil =>
          \A t \in Current(r).tickets :
             /\ At(Current(r), t).state = "delivered"
             /\ \A p \in proposals : p.target = Current(r)' => t \notin p.affected
             => /\ t \in Current(r)'.tickets
                /\ versions'[Current(r)'].ticket[t].state = "delivered"]_plansVars

\* No plan is dispatched twice running while another one has a ready ticket.
FairTurn ==
    [][\A r \in Roots :
          ClaimNext /\ cursor' = r /\ cursor = r => ReadyRoots = {r}]_plansVars

\* What the glossary promises of the last delivery: a plan whose tickets are
\* all delivered, with no run left, is completed (CONTEXT.md:24).
DeliveredIsCompleted ==
    \A r \in Roots : Current(r) # Nil =>
        LET row == versions[Current(r)] IN
        row.state = "active" /\ Undelivered(row) = {} /\ LiveIn(row) = {}
            => row.terminal # "none"

=============================================================================
