-------------------------- MODULE GitHubPollProofs --------------------------
(***************************************************************************)
(* The poll of a repository keeps its budget, its fence and its pauses,    *)
(* for every set of poll-github processes and Plan Versions, every budget  *)
(* and every number of faults.                                             *)
(*                                                                         *)
(* The argument is about the process that holds the lease: what it read at *)
(* its start of a pass (the budget is not exhausted, or the recovery is    *)
(* claimed for the version it remembers) is still so when it acts, since   *)
(* nobody else changes the cursor (Backed).  A pass between its count and  *)
(* its decision holds the lease, so a successor finds the excess only when *)
(* a fault is paid for it (Counted).                                       *)
(***************************************************************************)
EXTENDS GitHubPoll, TLAPS

CursorRows == [failures : Nat, kind : Kinds, recovery : Recoveries,
               plan : PlanIds \cup {Nobody}, attempted : SUBSET PlanIds]

PassRows == [pc : Locals \cup {"idle"}, boot : BOOLEAN,
             bound : PlanIds \cup {Nobody}, plan : PlanIds \cup {Nobody},
             already : BOOLEAN, attempted : SUBSET PlanIds,
             retry : BOOLEAN, resuming : BOOLEAN]

PollTypes ==
    /\ rootOf \in ConfiguredRoots
    /\ planState \in [PlanIds -> PlanStates]
    /\ asked \in SUBSET PlanIds /\ impact \in SUBSET PlanIds
    /\ replacement \in [PlanIds -> PlanIds \cup {Nobody}]
    /\ pollCursor \in CursorRows
    /\ pollLease \in [holder : Passes \cup {Nobody}, live : BOOLEAN]
    /\ pass \in [Passes -> PassRows]
    /\ pollFaults \in 0..MaxPollFaults

Early == {"idle", "prepare", "admit", "start", "paused"}
Working == {"route", "dispatch", "inbox", "poll", "after"}
Bootstrapping == {"control", "projecting"}
Deciding == {"consume", "terminal"}

\* A recovery that is available or claimed is bound to a Plan Version.
WellFormed(c) ==
    c.recovery \in {"available", "claimed"} => c.kind = "conflict" /\ c.plan # Nobody

WithinBudget(c) == ~PollPaused(c) /\ c.failures < MaxPollFailures

ClaimedFor(c, v) ==
    c.kind = "conflict" /\ c.recovery = "claimed" /\ c.plan = v /\ v # Nobody

\* A pass resumes a recovery between its start and the work of the pass.
PassShape(s) ==
    /\ s.pc \in Early \cup Working => ~s.resuming
    /\ s.pc \in {"resume", "recover", "failing"} => s.resuming
    /\ s.pc \in Early \/ s.resuming => ~s.boot

\* What the holder of the lease learned of the cursor is still true of it.
Backed(s, c) ==
    /\ s.pc \in Working \/ (s.pc \in Bootstrapping /\ ~s.resuming) => WithinBudget(c)
    /\ s.pc = "paused" => PollPaused(c) \/ WithinBudget(c)
    /\ s.pc \in Bootstrapping \cup {"resume", "recover"} /\ s.resuming
          => ClaimedFor(c, s.bound)
    /\ s.pc = "failing" => c.failures = 0 \/ ClaimedFor(c, s.bound)
    /\ s.pc \in Deciding /\ s.retry => ~PollPaused(c)

\* Nobody owes a decision about the count of c.
Settled(c, faults) ==
    /\ c.failures <= RecoveryFailureLimit + 1 + faults
    /\ PollPaused(c) \/ c.failures <= RecoveryFailureLimit + faults

Counted ==
    /\ pollCursor.failures <= RecoveryFailureLimit + 1 + pollFaults
    /\ Settled(pollCursor, pollFaults) \/ \E p \in Passes : pass[p].pc \in Deciding

PollInv ==
    /\ PollTypes
    /\ WellFormed(pollCursor)
    /\ \A p \in Passes : PassShape(pass[p])
    /\ \A p \in Passes : pass[p].pc \in Deciding => HoldsLease(p)
    /\ \A p \in Passes : HoldsLease(p) => Backed(pass[p], pollCursor)
    /\ Counted

----------------------------------------------------------------------------
(* The functions of the cursor                                             *)

\* Forgiving keeps the version and leaves a poll that has not failed.
LEMMA ForgivenRow ==
    ASSUME NEW c \in CursorRows, NEW r \in Recoveries
    PROVE  /\ Forgiven(c, r) \in CursorRows
           /\ Forgiven(c, r).failures = 0 /\ Forgiven(c, r).kind = "none"
           /\ Forgiven(c, r).recovery = r /\ Forgiven(c, r).plan = c.plan
BY DEF Forgiven, CursorRows, Kinds

\* A forgiven cursor that names no version is a poll that may start afresh.
LEMMA AfreshRow ==
    ASSUME NEW c \in CursorRows, NEW r \in Recoveries \ {"available", "claimed"},
           NEW k \in {"none", "retryable"}, NEW d,
           d = [Forgiven(c, r) EXCEPT !.kind = k, !.plan = Nobody]
    PROVE  d \in CursorRows /\ d.failures = 0 /\ ~PollPaused(d) /\ WellFormed(d)
<1>1. Forgiven(c, r) \in CursorRows /\ Forgiven(c, r).failures = 0 /\ Forgiven(c, r).recovery = r
  BY ForgivenRow
<1> QED BY <1>1 DEF CursorRows, Kinds, PollPaused, WellFormed

\* A success forgets the failures and the version.
LEMMA SucceededRow ==
    ASSUME NEW c \in CursorRows
    PROVE  /\ Succeeded(c) \in CursorRows /\ Succeeded(c).failures = 0
           /\ ~PollPaused(Succeeded(c)) /\ WellFormed(Succeeded(c))
BY DEF Succeeded, Forgiven, CursorRows, Kinds, Recoveries, PollPaused, WellFormed

\* Resolving a recovery that is bound to a version completes it, claims it or
\* gives it up, and never pauses the poll.
LEMMA ResolvedRow ==
    ASSUME NEW c \in CursorRows, c.kind = "conflict", c.plan # Nobody
    PROVE  /\ Resolved(c) \in CursorRows /\ WellFormed(Resolved(c)) /\ ~PollPaused(Resolved(c))
           /\ IF planState[c.plan] = "projecting"
                 THEN Resolved(c).failures = c.failures /\ ClaimedFor(Resolved(c), c.plan)
                 ELSE Resolved(c).failures = 0
BY DEF Resolved, LivePlan, Forgiven, CursorRows, Kinds, Recoveries, PollPaused, WellFormed, ClaimedFor

\* Giving up an eligible recovery keeps its count.
LEMMA ConsumedRow ==
    ASSUME NEW c \in CursorRows, WellFormed(c)
    PROVE  /\ Consumed(c) \in CursorRows /\ WellFormed(Consumed(c))
           /\ Consumed(c).failures = c.failures
           /\ PollPaused(Consumed(c)) <=> PollPaused(c)
BY DEF Consumed, CursorRows, Kinds, Recoveries, PollPaused, WellFormed

\* A rejected credential clears the count and keeps a pause.
LEMMA CredentialResetRow ==
    ASSUME NEW c \in CursorRows
    PROVE  /\ CredentialReset(c) \in CursorRows /\ WellFormed(CredentialReset(c))
           /\ CredentialReset(c).failures = 0
           /\ PollPaused(CredentialReset(c)) <=> PollPaused(c)
BY DEF CredentialReset, Forgiven, CursorRows, Kinds, Recoveries, PollPaused, WellFormed

\* An unrecoverable failure pauses the poll.
LEMMA UnrecoverableRow ==
    ASSUME NEW c \in CursorRows, NEW v \in PlanIds \cup {Nobody}
    PROVE  /\ Unrecoverable(c, v) \in CursorRows /\ WellFormed(Unrecoverable(c, v))
           /\ Unrecoverable(c, v).failures = c.failures /\ PollPaused(Unrecoverable(c, v))
BY DEF Unrecoverable, CursorRows, Kinds, Recoveries, PollPaused, WellFormed

\* Counting a failure touches the count, then the attempts.
LEMMA CountRow ==
    ASSUME NEW c \in CursorRows, NEW n \in Nat, NEW d, d = [c EXCEPT !.failures = n]
    PROVE  /\ d \in CursorRows /\ d.failures = n /\ d.attempted = c.attempted
           /\ d.kind = c.kind /\ d.recovery = c.recovery /\ d.plan = c.plan
BY DEF CursorRows

\* What an attempt adds is only read when the budget is exhausted.
LEMMA AttemptRow ==
    ASSUME NEW c \in CursorRows, NEW b \in SUBSET PlanIds, NEW d, d = [c EXCEPT !.attempted = b]
    PROVE  /\ d \in CursorRows /\ d.failures = c.failures
           /\ d.kind = c.kind /\ d.recovery = c.recovery /\ d.plan = c.plan
BY DEF CursorRows

\* A failure is counted once, neither pauses the poll nor lifts a pause, and
\* makes a recovery available for the version it conflicts on, for no other.
LEMMA AdvancedRow ==
    ASSUME NEW c \in CursorRows, WellFormed(c), NEW k \in {"none", "conflict"},
           NEW v \in PlanIds \cup {Nobody}, NEW a \in SUBSET PlanIds
    PROVE  /\ Advanced(c, k, v, a) \in CursorRows /\ WellFormed(Advanced(c, k, v, a))
           /\ Advanced(c, k, v, a).failures = c.failures + 1
           /\ PollPaused(Advanced(c, k, v, a)) <=> PollPaused(c)
           /\ Advanced(c, k, v, a).kind = "conflict" /\ ~PollPaused(c) =>
                 /\ k = "conflict" /\ v # Nobody
                 /\ (c.failures = 0 \/ c.kind = "retryable" \/ Continues(c, v))
           /\ Continues(c, v) /\ k = "conflict" /\ ~PollPaused(c) =>
                 Advanced(c, k, v, a).recovery = c.recovery
<1> DEFINE counted == [c EXCEPT !.failures = @ + 1,
                                !.attempted = IF c.failures = 0 THEN a ELSE @ \cup a]
<1>1. /\ counted \in CursorRows /\ counted.failures = c.failures + 1
      /\ counted.kind = c.kind /\ counted.recovery = c.recovery /\ counted.plan = c.plan
  <2>1. PICK n \in Nat : n = c.failures + 1
    BY DEF CursorRows
  <2>2. PICK b \in SUBSET PlanIds : b = IF c.failures = 0 THEN a ELSE c.attempted \cup a
    BY DEF CursorRows
  <2>3. PICK d : d = [c EXCEPT !.failures = n]
    OBVIOUS
  <2>4. d \in CursorRows /\ d.failures = n
        /\ d.kind = c.kind /\ d.recovery = c.recovery /\ d.plan = c.plan
    BY <2>3, CountRow
  <2>5. counted = [d EXCEPT !.attempted = b]
    BY <2>1, <2>2, <2>3
  <2> HIDE DEF counted
  <2> QED BY <2>1, <2>4, <2>5, AttemptRow
<1> HIDE DEF counted
<1>2. CASE PollPaused(c)
  <2>1. Advanced(c, k, v, a) = counted
    BY <1>2 DEF Advanced, counted
  <2> QED BY <1>1, <1>2, <2>1 DEF PollPaused, WellFormed
<1>3. CASE ~PollPaused(c) /\ k = "conflict" /\ v # Nobody
           /\ (c.failures = 0 \/ c.kind = "retryable" \/ Continues(c, v))
  <2>1. Advanced(c, k, v, a) = [counted EXCEPT !.kind = "conflict", !.plan = v,
                 !.recovery = IF Continues(c, v) THEN c.recovery ELSE "available"]
    BY <1>3 DEF Advanced, counted
  <2> QED BY <1>1, <1>3, <2>1 DEF PollPaused, WellFormed, Continues, CursorRows, Kinds, Recoveries
<1>4. CASE ~PollPaused(c) /\ ~(/\ k = "conflict" /\ v # Nobody
                               /\ (c.failures = 0 \/ c.kind = "retryable" \/ Continues(c, v)))
  <2>1. Advanced(c, k, v, a) = [counted EXCEPT !.kind = "retryable", !.recovery = "consumed",
                                               !.plan = v]
    BY <1>4 DEF Advanced, counted
  <2>2. ~(k = "conflict" /\ Continues(c, v))
    BY <1>4 DEF Continues, WellFormed
  <2> QED BY <1>1, <1>4, <2>1, <2>2 DEF PollPaused, WellFormed, CursorRows, Kinds, Recoveries
<1> QED BY <1>2, <1>3, <1>4

\* Forgetting a version a pause is not about keeps the count, and does not
\* touch a pause; otherwise the poll starts afresh.
LEMMA ForgottenRow ==
    ASSUME pollCursor \in CursorRows, WellFormed(pollCursor), NEW v \in PlanIds
    PROVE  /\ Forgotten(v) \in CursorRows /\ WellFormed(Forgotten(v))
           /\ \/ Forgotten(v).failures = 0 /\ ~PollPaused(Forgotten(v))
              \/ /\ Forgotten(v).failures = pollCursor.failures
                 /\ PollPaused(Forgotten(v)) <=> PollPaused(pollCursor)
<1>1. CASE PauseIsOf(v)
  BY <1>1, AfreshRow DEF Forgotten, Forgiven, CursorRows, Kinds, Recoveries, PollPaused, WellFormed
<1>2. CASE ~PauseIsOf(v) /\ pollCursor.plan = v
  <2>1. ~PollPaused(pollCursor)
    BY <1>2 DEF PauseIsOf, PollPaused
  <2>2. Forgotten(v) = [pollCursor EXCEPT !.kind = "retryable", !.recovery = "consumed",
                            !.plan = Nobody, !.attempted = @ \ {v}]
    BY <1>2 DEF Forgotten
  <2> QED BY <2>1, <2>2 DEF CursorRows, Kinds, Recoveries, PollPaused, WellFormed
<1>3. CASE ~PauseIsOf(v) /\ pollCursor.plan # v
  <2>1. Forgotten(v) = [pollCursor EXCEPT !.attempted = @ \ {v}]
    BY <1>3 DEF Forgotten
  <2> QED BY <2>1 DEF CursorRows, PollPaused, WellFormed
<1> QED BY <1>1, <1>2, <1>3

----------------------------------------------------------------------------
(* The steps of a process                                                  *)

\* Only one process holds the lease, and then it is not free.
LEMMA OneHolder ==
    ASSUME PollTypes, NEW p \in Passes, HoldsLease(p)
    PROVE  ~LeaseFree /\ \A q \in Passes : HoldsLease(q) => q = p
BY PollConstants DEF PollTypes, HoldsLease, LeaseFree

\* Between passes, and in a pass that works, no decision is owed.
LEMMA NothingOwed ==
    ASSUME PollInv, \A p \in Passes : HoldsLease(p) => pass[p].pc \notin Deciding
    PROVE  Settled(pollCursor, pollFaults)
BY DEF PollInv, Counted

\* A holder that is not deciding owes no decision, nor does any other process.
LEMMA HolderOwesNothing ==
    ASSUME PollInv, NEW p \in Passes, HoldsLease(p), pass[p].pc \notin Deciding
    PROVE  Settled(pollCursor, pollFaults)
BY OneHolder, NothingOwed DEF PollInv

\* Process p goes on with s; what is decided about Plans keeps its type.
Moves(p, s) ==
    /\ pass' = [pass EXCEPT ![p] = s] /\ UNCHANGED <<rootOf, pollLease>>
    /\ impact' \in SUBSET PlanIds
    /\ replacement' \in [PlanIds -> PlanIds \cup {Nobody}]

\* A process goes on: it changes the cursor only as the holder of the lease,
\* and what the holder remembers must hold of the new cursor.
LEMMA MovesOn ==
    ASSUME PollInv, NEW p \in Passes, NEW s \in PassRows, Moves(p, s), UNCHANGED pollFaults,
           planState' \in [PlanIds -> PlanStates], asked' \in SUBSET PlanIds,
           pollCursor' \in CursorRows, WellFormed(pollCursor'), PassShape(s),
           pollCursor' = pollCursor \/ HoldsLease(p),
           s.pc \in Deciding => HoldsLease(p),
           HoldsLease(p) => Backed(s, pollCursor'),
           \/ pollCursor' = pollCursor /\ pass[p].pc \notin Deciding
           \/ Settled(pollCursor', pollFaults)
           \/ /\ s.pc \in Deciding
              /\ pollCursor'.failures <= RecoveryFailureLimit + 1 + pollFaults
    PROVE  PollInv'
<1>1. /\ pass' = [pass EXCEPT ![p] = s] /\ pollLease' = pollLease /\ rootOf' = rootOf
      /\ impact' \in SUBSET PlanIds /\ replacement' \in [PlanIds -> PlanIds \cup {Nobody}]
      /\ pollFaults' = pollFaults
  BY DEF Moves
<1>2. /\ pass'[p] = s /\ \A q \in Passes : q # p => pass'[q] = pass[q]
      /\ \A q \in Passes : HoldsLease(q)' <=> HoldsLease(q)
  BY <1>1 DEF PollInv, PollTypes, HoldsLease
<1>3. PollTypes'
  BY <1>1 DEF PollInv, PollTypes
<1>4. \A q \in Passes : PassShape(pass[q])'
  BY <1>2 DEF PollInv, PassShape
<1>5. \A q \in Passes : (pass[q].pc \in Deciding)' => HoldsLease(q)'
  BY <1>2 DEF PollInv
<1>6. \A q \in Passes : HoldsLease(q)' => Backed(pass'[q], pollCursor')
  BY <1>2, OneHolder DEF PollInv
<1>7. Counted'
  <2>1. CASE pollCursor' = pollCursor /\ pass[p].pc \notin Deciding
    BY <1>1, <1>2, <2>1 DEF PollInv, Counted, Settled
  <2>2. CASE Settled(pollCursor', pollFaults)
    BY <1>1, <2>2 DEF Counted, Settled
  <2>3. CASE /\ s.pc \in Deciding
             /\ pollCursor'.failures <= RecoveryFailureLimit + 1 + pollFaults
    BY <1>1, <1>2, <2>3 DEF Counted
  <2> QED BY <2>1, <2>2, <2>3
<1> QED BY <1>3, <1>4, <1>5, <1>6, <1>7 DEF PollInv, Backed

\* So does a process that decides nothing about Plans.
LEMMA PassMoves ==
    ASSUME PollInv, NEW p, NEW s, PassGoes(p, s)
    PROVE  Moves(p, s)
BY DEF PassGoes, impactVars, Moves, PollInv, PollTypes

\* The same of a pass that decides nothing about Plans.
LEMMA GoesOn ==
    ASSUME PollInv, NEW p \in Passes, NEW s \in PassRows, PassGoes(p, s), UNCHANGED pollFaults,
           planState' \in [PlanIds -> PlanStates], asked' \in SUBSET PlanIds,
           pollCursor' \in CursorRows, WellFormed(pollCursor'), PassShape(s),
           pollCursor' = pollCursor \/ HoldsLease(p),
           s.pc \in Deciding => HoldsLease(p),
           HoldsLease(p) => Backed(s, pollCursor'),
           \/ pollCursor' = pollCursor /\ pass[p].pc \notin Deciding
           \/ Settled(pollCursor', pollFaults)
           \/ /\ s.pc \in Deciding
              /\ pollCursor'.failures <= RecoveryFailureLimit + 1 + pollFaults
    PROVE  PollInv'
<1>1. Moves(p, s)
  BY PassMoves
<1> QED BY <1>1, MovesOn

\* The holder ends its pass and owes no decision.
LEMMA Ends ==
    ASSUME PollInv, NEW p \in Passes, HoldsLease(p), EndPass(p), UNCHANGED pollFaults,
           planState' \in [PlanIds -> PlanStates], asked' \in SUBSET PlanIds,
           pollCursor' \in CursorRows, WellFormed(pollCursor'),
           Settled(pollCursor', pollFaults)
    PROVE  PollInv'
<1>1. /\ pass' = [pass EXCEPT ![p] = OffDuty] /\ rootOf' = rootOf /\ pollFaults' = pollFaults
      /\ UNCHANGED <<impact, replacement>>
      /\ pollLease' = [holder |-> Nobody, live |-> FALSE]
  BY DEF EndPass, HoldsLease, impactVars
<1>2. OffDuty \in PassRows /\ PassShape(OffDuty) /\ OffDuty.pc = "idle"
  BY DEF OffDuty, PassRows, PassShape, Early, Working
<1>3. PollTypes'
  BY <1>1, <1>2 DEF PollInv, PollTypes
<1>4. \A q \in Passes : PassShape(pass[q])' /\ (pass[q].pc \notin Deciding)'
  <2>1. \A q \in Passes : q # p => pass[q].pc \notin Deciding
    BY OneHolder DEF PollInv
  <2> QED BY <1>1, <1>2, <2>1 DEF PollInv, PollTypes, PassShape, Deciding
<1>5. \A q \in Passes : ~HoldsLease(q)'
  BY <1>1 DEF HoldsLease
<1> QED BY <1>1, <1>3, <1>4, <1>5 DEF PollInv, Counted, Settled

\* A holder that worked takes on a decision about its new count.
LEMMA OwesDecision ==
    ASSUME PollInv, NEW p \in Passes, HoldsLease(p), pass[p].pc \notin Deciding,
           NEW pc \in Deciding, NEW v \in PlanIds \cup {Nobody}, NEW a \in SUBSET PlanIds,
           NEW r \in BOOLEAN,
           PassGoes(p, [pass[p] EXCEPT !.pc = pc, !.boot = FALSE, !.plan = v,
                                       !.already = FALSE, !.attempted = a, !.retry = r]),
           UNCHANGED <<planState, asked, pollFaults>>,
           pollCursor' \in CursorRows, WellFormed(pollCursor'), r => ~PollPaused(pollCursor'),
           pollCursor'.failures <= RecoveryFailureLimit + 1 + pollFaults
    PROVE  PollInv'
<1>1. pass[p] \in PassRows /\ PassShape(pass[p])
  BY DEF PollInv, PollTypes
<1>2. PICK s : s = [pass[p] EXCEPT !.pc = pc, !.boot = FALSE, !.plan = v,
                                   !.already = FALSE, !.attempted = a, !.retry = r]
  OBVIOUS
<1>3. s \in PassRows /\ PassShape(s) /\ s.pc = pc /\ (s.retry <=> r)
  <2>1. PICK q \in PassRows : q = pass[p]
    BY <1>1
  <2>2. s \in PassRows
    BY <1>2, <2>1 DEF PassRows, Deciding, Locals
  <2>3. s.pc = pc /\ (s.retry <=> r) /\ ~s.boot
    BY <1>2, <2>1 DEF PassRows
  <2>4. PassShape(s)
    BY <2>3 DEF Deciding, PassShape, Early, Working
  <2> QED BY <2>2, <2>3, <2>4
<1>4. Backed(s, pollCursor')
  BY <1>3 DEF Backed, Deciding, Working, Bootstrapping
<1>5. planState' \in [PlanIds -> PlanStates] /\ asked' \in SUBSET PlanIds
  BY DEF PollInv, PollTypes
<1> QED BY <1>2, <1>3, <1>4, <1>5, GoesOn

\* A recorded failure is within the budget, or somebody owes a decision.
LEMMA FailureRecorded ==
    ASSUME PollInv, NEW p \in Passes, NEW o \in Outcomes, NEW k \in {"none", "conflict"},
           NEW v \in PlanIds \cup {Nobody}, NEW a \in SUBSET PlanIds, NEW r \in BOOLEAN,
           RecordFailure(p, o, k, v, a, r), pass[p].pc \notin Deciding,
           k = "conflict" /\ o = "transient" =>
                 pollCursor.failures < MaxPollFailures \/ pollCursor.recovery # "available",
           r => ~PollPaused(pollCursor)
    PROVE  PollInv'
<1> DEFINE w == IF o = "limited" /\ k # "conflict" THEN Nobody ELSE v
           c == Advanced(pollCursor, k, w, a)
<1>1. /\ HoldsLease(p) /\ UNCHANGED <<planState, asked, pollFaults>>
      /\ pollCursor \in CursorRows /\ WellFormed(pollCursor)
      /\ planState' \in [PlanIds -> PlanStates] /\ asked' \in SUBSET PlanIds
  BY DEF RecordFailure, PollInv, PollTypes
<1>2. Settled(pollCursor, pollFaults)
  BY <1>1, HolderOwesNothing
<1>3. CASE o = "rejected"
  <2>1. pollCursor' = CredentialReset(pollCursor) /\ EndPass(p)
    BY <1>3 DEF RecordFailure
  <2>2. Settled(pollCursor', pollFaults)
    BY <1>1, <2>1, CredentialResetRow, PollConstants DEF Settled, RecoveryFailureLimit, PollInv, PollTypes
  <2> QED BY <1>1, <2>1, <2>2, CredentialResetRow, Ends
<1>4. w \in PlanIds \cup {Nobody}
  OBVIOUS
<1>5. /\ c \in CursorRows /\ WellFormed(c) /\ c.failures = pollCursor.failures + 1
      /\ PollPaused(c) <=> PollPaused(pollCursor)
      /\ c.kind = "conflict" /\ ~PollPaused(pollCursor) =>
           /\ k = "conflict" /\ w # Nobody
           /\ \/ pollCursor.failures = 0 \/ pollCursor.kind = "retryable"
              \/ Continues(pollCursor, w)
      /\ Continues(pollCursor, w) /\ k = "conflict" /\ ~PollPaused(pollCursor) =>
                 c.recovery = pollCursor.recovery
  BY <1>1, <1>4, AdvancedRow
<1>6. c.failures \in Nat /\ pollCursor.failures \in Nat /\ pollFaults \in Nat
      /\ MaxPollFailures \in Nat \ {0} /\ RecoveryFailureLimit = 2 * MaxPollFailures
  BY <1>1, <1>5, PollConstants DEF CursorRows, PollInv, PollTypes, RecoveryFailureLimit
<1>7. ASSUME pollCursor' = c, PollPaused(c) => c.failures <= MaxPollFailures
      PROVE  /\ c.failures <= RecoveryFailureLimit + 1 + pollFaults
             /\ \A pc \in Deciding, x \in PlanIds \cup {Nobody} :
                  PassGoes(p, [pass[p] EXCEPT !.pc = pc, !.boot = FALSE, !.plan = x,
                                       !.already = FALSE, !.attempted = a, !.retry = r])
                  => PollInv'
             /\ Settled(c, pollFaults) /\ EndPass(p) => PollInv'
  <2>1. c.failures <= RecoveryFailureLimit + 1 + pollFaults
    BY <1>2, <1>5, <1>6, <1>7 DEF Settled
  <2> HIDE DEF c
  <2>2. Settled(c, pollFaults) /\ EndPass(p) => PollInv'
    BY <1>1, <1>5, <1>7, Ends
  <2>3. ASSUME NEW pc \in Deciding, NEW x \in PlanIds \cup {Nobody},
               PassGoes(p, [pass[p] EXCEPT !.pc = pc, !.boot = FALSE, !.plan = x,
                                       !.already = FALSE, !.attempted = a, !.retry = r])
        PROVE  PollInv'
    BY <1>1, <1>5, <1>7, <2>1, <2>3, OwesDecision
  <2> QED BY <2>1, <2>2, <2>3
<1>8. CASE o = "limited"
  <2>1. /\ pollCursor' = c /\ AfterDeferral(p, c, k, v, a, r)
        /\ PollPaused(c) => c.failures <= MaxPollFailures
    BY <1>5, <1>8 DEF RecordFailure, CountedWhilePaused
  <2> HIDE DEF c, w
  <2>2. \/ EndPass(p) /\ c.failures <= RecoveryFailureLimit
        \/ ToTerminal(p, v, a, r)
    BY <1>6, <2>1 DEF AfterDeferral
  <2>3. CASE ToTerminal(p, v, a, r)
    BY <1>7, <2>1, <2>3 DEF ToTerminal, Deciding
  <2>4. CASE EndPass(p) /\ c.failures <= RecoveryFailureLimit
    <3>1. Settled(c, pollFaults)
      BY <1>6, <2>4 DEF Settled
    <3> QED BY <1>7, <2>1, <2>4, <3>1
  <2> QED BY <2>2, <2>3, <2>4
<1>9. CASE o = "transient"
  <2>1. /\ pollCursor' = c /\ AfterAdvance(p, c, k, v, a, r) /\ w = v
        /\ PollPaused(c) => c.failures <= MaxPollFailures
    BY <1>5, <1>9 DEF RecordFailure, CountedWhilePaused
  <2> HIDE DEF c, w
  <2>2. \/ EndPass(p) /\ c.failures < MaxPollFailures
        \/ /\ EndPass(p) /\ c.kind = "conflict" /\ c.recovery = "available"
           /\ ~(/\ k = "conflict" /\ v # Nobody /\ pollCursor.failures > 0
                /\ ~(HasCandidate(pollCursor, 1) /\ pollCursor.plan = v))
        \/ PassGoes(p, [pass[p] EXCEPT !.pc = "consume", !.boot = FALSE,
                       !.plan = v, !.already = FALSE, !.attempted = a, !.retry = r])
        \/ ToTerminal(p, v, a, r)
    BY <1>6, <2>1 DEF AfterAdvance
  <2>3. CASE ToTerminal(p, v, a, r)
    BY <1>7, <2>1, <2>3 DEF ToTerminal, Deciding
  <2>4. CASE PassGoes(p, [pass[p] EXCEPT !.pc = "consume", !.boot = FALSE,
                       !.plan = v, !.already = FALSE, !.attempted = a, !.retry = r])
    BY <1>7, <2>1, <2>4 DEF Deciding
  <2>5. CASE EndPass(p) /\ c.failures < MaxPollFailures
    <3>1. Settled(c, pollFaults)
      BY <1>6, <2>5 DEF Settled
    <3> QED BY <1>7, <2>1, <2>5, <3>1
  <2>6. CASE /\ EndPass(p) /\ c.kind = "conflict" /\ c.recovery = "available"
             /\ ~(/\ k = "conflict" /\ v # Nobody /\ pollCursor.failures > 0
                  /\ ~(HasCandidate(pollCursor, 1) /\ pollCursor.plan = v))
    <3>1. ~PollPaused(pollCursor)
      BY <1>5, <2>6 DEF PollPaused
    <3>2. k = "conflict" /\ v # Nobody
      BY <1>5, <2>1, <2>6, <3>1
    <3>3. pollCursor.failures < MaxPollFailures
      <4>1. CASE pollCursor.failures = 0
        BY <1>6, <4>1
      <4>2. CASE pollCursor.failures # 0
        <5>1. Continues(pollCursor, w)
          BY <1>6, <2>1, <2>6, <3>2, <4>2 DEF HasCandidate, Continues
        <5> QED BY <1>5, <1>9, <2>6, <3>1, <3>2, <5>1
      <4> QED BY <4>1, <4>2
    <3>4. Settled(c, pollFaults)
      BY <1>5, <1>6, <3>3 DEF Settled
    <3> QED BY <1>7, <2>1, <2>6, <3>4
  <2> QED BY <2>2, <2>3, <2>4, <2>5, <2>6
<1> QED BY <1>3, <1>8, <1>9 DEF Outcomes

\* What a process may use of the invariant.
LEMMA KnownOf ==
    ASSUME PollInv, NEW p \in Passes
    PROVE  /\ pass[p] \in PassRows /\ PassShape(pass[p])
           /\ pollCursor \in CursorRows /\ pollCursor.failures \in Nat /\ WellFormed(pollCursor)
           /\ planState \in [PlanIds -> PlanStates] /\ asked \in SUBSET PlanIds
           /\ pollFaults \in Nat /\ MaxPollFailures \in Nat /\ 0 < MaxPollFailures
           /\ RecoveryFailureLimit = 2 * MaxPollFailures
           /\ HoldsLease(p) => Backed(pass[p], pollCursor)
BY PollConstants DEF PollInv, PollTypes, CursorRows, RecoveryFailureLimit

\* A cursor without failures owes nothing, and is within the budget if it is
\* not paused.
LEMMA NoFailures ==
    ASSUME PollInv, NEW c, c.failures = 0
    PROVE  Settled(c, pollFaults) /\ (~PollPaused(c) => WithinBudget(c))
BY PollConstants DEF PollInv, PollTypes, Settled, WithinBudget, RecoveryFailureLimit

\* Resolving a recovery leaves nothing to decide.
LEMMA ResolvedSettled ==
    ASSUME PollInv, NEW p \in Passes, HoldsLease(p), pass[p].pc \notin Deciding,
           pollCursor.kind = "conflict", pollCursor.plan # Nobody
    PROVE  Settled(Resolved(pollCursor), pollFaults)
<1>1. Settled(pollCursor, pollFaults)
  BY HolderOwesNothing
<1>2. ~PollPaused(pollCursor)
  BY DEF PollPaused
<1> QED BY <1>1, <1>2, KnownOf, ResolvedRow, NoFailures DEF Settled

\* A step that leaves the cursor alone keeps the invariant when what the next
\* step relies on is known.
LEMMA WorksOn ==
    ASSUME PollInv, NEW p \in Passes, NEW s \in PassRows, PassGoes(p, s) \/ Moves(p, s),
           UNCHANGED <<pollCursor, asked, pollFaults>>,
           planState' \in [PlanIds -> PlanStates],
           pass[p].pc \notin Deciding, s.pc \notin Deciding, PassShape(s),
           HoldsLease(p) => Backed(s, pollCursor)
    PROVE  PollInv'
<1>1. Moves(p, s)
  BY PassMoves
<1> QED BY <1>1, KnownOf, MovesOn

----------------------------------------------------------------------------
(* Admission and the start of a pass keep the invariant                    *)

LeaseStep(p) == AcquireLease(p) \/ Abandons(p) \/ Crashes(p)

\* A lease is taken when nobody holds one, and a pass that dies between its
\* count and its decision is paid for by a fault.
LEMMA LeaseStepKeeps ==
    ASSUME PollInv, NEW p \in Passes, LeaseStep(p)
    PROVE  PollInv'
<1>0. /\ OffDuty \in PassRows /\ PassShape(OffDuty) /\ OffDuty.pc = "idle"
      /\ \A c : Backed(OffDuty, c)
  BY DEF OffDuty, PassRows, PassShape, Backed, Early, Working, Bootstrapping, Deciding
<1>1. CASE AcquireLease(p)
  <2>1. \A q \in Passes : ~HoldsLease(q)
    BY <1>1, OneHolder DEF AcquireLease, PollInv
  <2>2. PICK s : s = [pass[p] EXCEPT !.pc = "prepare"]
    OBVIOUS
  <2>3. /\ pass' = [pass EXCEPT ![p] = s] /\ pollLease' = [holder |-> p, live |-> TRUE]
        /\ UNCHANGED <<rootOf, impact, replacement, planState, asked, pollCursor, pollFaults>>
    BY <1>1, <2>2 DEF AcquireLease, impactVars
  <2>4. s \in PassRows /\ s.pc = "prepare" /\ PassShape(s) /\ Backed(s, pollCursor)
    <3>1. s \in PassRows /\ s.pc = "prepare" /\ s.resuming = pass[p].resuming
          /\ s.boot = pass[p].boot
      BY <2>2, KnownOf DEF PassRows, Locals
    <3> QED BY <1>1, <3>1, KnownOf DEF AcquireLease, PassAt, PassShape, Backed, Early, Working,
                                   Bootstrapping, Deciding
  <2>5. PollTypes'
    BY <2>3, <2>4 DEF PollInv, PollTypes
  <2>6. \A q \in Passes : HoldsLease(q)' => q = p
    BY <2>3 DEF HoldsLease
  <2>7. \A q \in Passes : PassShape(pass[q])' /\ (pass[q].pc \notin Deciding)'
    BY <2>1, <2>3, <2>4 DEF PollInv, PollTypes, PassShape, Deciding
  <2>8. Counted'
    BY <2>1, <2>3, NothingOwed DEF Counted, Settled
  <2>9. \A q \in Passes : HoldsLease(q)' => Backed(pass'[q], pollCursor')
    BY <2>3, <2>4, <2>6 DEF PollInv, PollTypes
  <2> QED BY <2>3, <2>5, <2>7, <2>8, <2>9 DEF PollInv
<1>2. CASE Abandons(p)
  <2>1. /\ pass' = [pass EXCEPT ![p] = OffDuty]
        /\ pollLease' = IF pollLease.holder = p
                          THEN [holder |-> Nobody, live |-> FALSE] ELSE pollLease
        /\ UNCHANGED <<rootOf, impact, replacement, planState, asked, pollCursor>>
        /\ pollFaults' \in 0..MaxPollFaults /\ pollFaults <= pollFaults'
        /\ HoldsLease(p) /\ pass[p].pc \in Deciding => pollFaults' = pollFaults + 1
    <3>1. CASE HoldsLease(p) /\ pass[p].pc \in {"consume", "terminal"}
      BY <1>2, <3>1, PollConstants DEF Abandons, EndPass, impactVars, PollInv, PollTypes
    <3>2. CASE ~(HoldsLease(p) /\ pass[p].pc \in {"consume", "terminal"})
      BY <1>2, <3>2, PollConstants DEF Abandons, EndPass, impactVars, PollInv, PollTypes, Deciding
    <3> QED BY <3>1, <3>2
  <2>2. PollTypes'
    BY <1>0, <2>1 DEF PollInv, PollTypes
  <2>3. \A q \in Passes : q # p => pass'[q] = pass[q] /\ (HoldsLease(q)' <=> HoldsLease(q))
    BY <2>1, PollConstants DEF PollInv, PollTypes, HoldsLease
  <2>4. pass'[p] = OffDuty
    BY <2>1 DEF PollInv, PollTypes
  <2>5. Counted'
    <3>1. CASE pass[p].pc \in Deciding
      BY <2>1, <3>1, KnownOf DEF PollInv, Counted, Settled
    <3>2. CASE pass[p].pc \notin Deciding
      <4>1. CASE \E q \in Passes : pass[q].pc \in Deciding
        BY <2>1, <2>3, <3>2, <4>1, KnownOf DEF PollInv, Counted
      <4>2. CASE Settled(pollCursor, pollFaults)
        BY <2>1, <4>2, KnownOf DEF Counted, Settled, PollTypes, PollInv
      <4> QED BY <4>1, <4>2 DEF PollInv, Counted
    <3> QED BY <3>1, <3>2
  <2>6. \A q \in Passes : /\ PassShape(pass'[q])
                          /\ pass'[q].pc \in Deciding => HoldsLease(q)'
                          /\ HoldsLease(q)' => Backed(pass'[q], pollCursor')
    <3> SUFFICES ASSUME NEW q \in Passes
                 PROVE  /\ PassShape(pass'[q])
                        /\ pass'[q].pc \in Deciding => HoldsLease(q)'
                        /\ HoldsLease(q)' => Backed(pass'[q], pollCursor')
      OBVIOUS
    <3>1. CASE q = p
      BY <1>0, <2>4, <3>1 DEF Deciding
    <3>2. CASE q # p
      BY <2>1, <2>3, <3>2 DEF PollInv
    <3> QED BY <3>1, <3>2
  <2> QED BY <2>1, <2>2, <2>5, <2>6 DEF PollInv
<1>3. CASE Crashes(p)
  <2>1. /\ pass' = [pass EXCEPT ![p] = OffDuty]
        /\ UNCHANGED <<rootOf, impact, replacement, planState, asked, pollCursor, pollLease>>
        /\ pollFaults' \in 0..MaxPollFaults /\ pollFaults' = pollFaults + 1
    BY <1>3, PollConstants DEF Crashes, PassGoes, impactVars, PollInv, PollTypes
  <2>2. PollTypes'
    BY <1>0, <2>1 DEF PollInv, PollTypes
  <2>3. /\ pass'[p] = OffDuty
        /\ \A q \in Passes : /\ q # p => pass'[q] = pass[q]
                             /\ HoldsLease(q)' <=> HoldsLease(q)
    BY <2>1 DEF PollInv, PollTypes, HoldsLease
  <2>4. Counted'
    BY <2>1, KnownOf DEF PollInv, Counted, Settled
  <2>5. \A q \in Passes : /\ PassShape(pass'[q])
                          /\ pass'[q].pc \in Deciding => HoldsLease(q)'
                          /\ HoldsLease(q)' => Backed(pass'[q], pollCursor')
    <3> SUFFICES ASSUME NEW q \in Passes
                 PROVE  /\ PassShape(pass'[q])
                        /\ pass'[q].pc \in Deciding => HoldsLease(q)'
                        /\ HoldsLease(q)' => Backed(pass'[q], pollCursor')
      OBVIOUS
    <3>1. CASE q = p
      BY <1>0, <2>3, <3>1 DEF Deciding
    <3>2. CASE q # p
      BY <2>1, <2>3, <3>2 DEF PollInv
    <3> QED BY <3>1, <3>2
  <2> QED BY <2>1, <2>2, <2>4, <2>5 DEF PollInv
<1> QED BY <1>1, <1>2, <1>3 DEF LeaseStep

BeginStep(p) ==
    \/ PrepareAdmission(p) \/ Admit(p) \/ Start(p) \/ StartPaused(p) \/ EndPaused(p)

\* A pass works only on a budget that it found within its limit, or whose
\* pause a human lifted.
LEMMA BeginStepKeeps ==
    ASSUME PollInv, NEW p \in Passes, BeginStep(p)
    PROVE  PollInv'
<1>1. CASE PrepareAdmission(p)
  <2>1. PICK s : s = [pass[p] EXCEPT !.pc = "admit"]
    OBVIOUS
  <2>2. /\ PassGoes(p, s) /\ HoldsLease(p) /\ pass[p].pc = "prepare"
        /\ UNCHANGED <<planState, asked, pollFaults>>
        /\ pollCursor' = IF HasCandidate(pollCursor, MaxPollFailures)
                           THEN Resolved(pollCursor) ELSE pollCursor
    BY <1>1, <2>1 DEF PrepareAdmission, PassAt
  <2>3. s \in PassRows /\ s.pc = "admit" /\ s.resuming = pass[p].resuming /\ s.boot = pass[p].boot
    BY <2>1, KnownOf DEF PassRows, Locals
  <2>4. PassShape(s) /\ s.pc \notin Deciding
    BY <2>2, <2>3, KnownOf DEF PassShape, Early, Working, Deciding
  <2>5. Backed(s, pollCursor')
    BY <2>3 DEF Backed, Working, Bootstrapping, Deciding
  <2>6. pass[p].pc \notin Deciding
    BY <2>2 DEF Deciding
  <2>7. pollCursor' \in CursorRows /\ WellFormed(pollCursor') /\ Settled(pollCursor', pollFaults)
    BY <2>2, <2>6, KnownOf, ResolvedRow, ResolvedSettled, HolderOwesNothing DEF HasCandidate
  <2> QED BY <2>2, <2>3, <2>4, <2>5, <2>7, KnownOf, GoesOn
<1>2. CASE Admit(p)
  <2>1. PICK s : s = [pass[p] EXCEPT !.pc = "start"]
    OBVIOUS
  <2>2. /\ PassGoes(p, s) /\ pass[p].pc = "admit"
        /\ UNCHANGED <<planState, asked, pollCursor, pollFaults>>
    BY <1>2, <2>1 DEF Admit, PassAt
  <2>3. s \in PassRows /\ s.pc = "start" /\ s.resuming = pass[p].resuming /\ s.boot = pass[p].boot
    BY <2>1, KnownOf DEF PassRows, Locals
  <2>4. PassShape(s) /\ s.pc \notin Deciding /\ pass[p].pc \notin Deciding
    BY <2>2, <2>3, KnownOf DEF PassShape, Early, Working, Deciding
  <2>5. Backed(s, pollCursor)
    BY <2>3 DEF Backed, Working, Bootstrapping, Deciding
  <2> QED BY <2>2, <2>3, <2>4, <2>5, KnownOf, WorksOn
<1>3. CASE Start(p)
  <2>1. PICK s : s = [pass[p] EXCEPT !.pc = "route", !.bound = BoundOf(pollCursor),
                                     !.attempted = LivePlans]
    OBVIOUS
  <2>2. /\ PassGoes(p, s) /\ pass[p].pc = "start" /\ WithinBudget(pollCursor)
        /\ UNCHANGED <<planState, asked, pollCursor, pollFaults>>
    BY <1>3, <2>1 DEF Start, PassAt, WithinBudget
  <2>3. BoundOf(pollCursor) \in PlanIds \cup {Nobody} /\ LivePlans \in SUBSET PlanIds
    BY KnownOf DEF BoundOf, LivePlans, CursorRows
  <2>4. s \in PassRows /\ s.pc = "route" /\ s.resuming = pass[p].resuming /\ s.boot = pass[p].boot
    BY <2>1, <2>3, KnownOf DEF PassRows, Locals
  <2>5. PassShape(s) /\ s.pc \notin Deciding /\ pass[p].pc \notin Deciding
    BY <2>2, <2>4, KnownOf DEF PassShape, Early, Working, Deciding
  <2>6. Backed(s, pollCursor)
    BY <2>2, <2>4 DEF Backed, Working, Bootstrapping, Deciding
  <2> QED BY <2>2, <2>4, <2>5, <2>6, KnownOf, WorksOn
<1>4. CASE StartPaused(p)
  <2>1. PICK s : s = [pass[p] EXCEPT !.pc = "paused"]
    OBVIOUS
  <2>2. /\ HoldsLease(p) /\ PollPaused(pollCursor) /\ pass[p].pc = "start"
        /\ PassGoes(p, s) \/ EndPass(p)
        /\ UNCHANGED <<planState, asked, pollCursor, pollFaults>>
    BY <1>4, <2>1 DEF StartPaused, PassAt
  <2>3. s \in PassRows /\ s.pc = "paused" /\ s.resuming = pass[p].resuming /\ s.boot = pass[p].boot
    BY <2>1, KnownOf DEF PassRows, Locals
  <2>4. PassShape(s) /\ s.pc \notin Deciding /\ pass[p].pc \notin Deciding
    BY <2>2, <2>3, KnownOf DEF PassShape, Early, Working, Deciding
  <2>5. Backed(s, pollCursor)
    BY <2>2, <2>3 DEF Backed, Working, Bootstrapping, Deciding
  <2>6. CASE PassGoes(p, s)
    BY <2>2, <2>3, <2>4, <2>5, <2>6, KnownOf, WorksOn
  <2>7. CASE EndPass(p)
    BY <2>2, <2>4, <2>7, KnownOf, HolderOwesNothing, Ends
  <2> QED BY <2>2, <2>6, <2>7
<1>5. CASE EndPaused(p)
  <2>1. PICK s : s = [pass[p] EXCEPT !.pc = "route", !.attempted = LivePlans]
    OBVIOUS
  <2>2. /\ HoldsLease(p) /\ pass[p].pc = "paused"
        /\ (~PollPaused(pollCursor) /\ PassGoes(p, s)) \/ EndPass(p)
        /\ UNCHANGED <<planState, asked, pollCursor, pollFaults>>
    BY <1>5, <2>1 DEF EndPaused, PassAt
  <2>3. LivePlans \in SUBSET PlanIds
    BY DEF LivePlans
  <2>4. s \in PassRows /\ s.pc = "route" /\ s.resuming = pass[p].resuming /\ s.boot = pass[p].boot
    BY <2>1, <2>3, KnownOf DEF PassRows, Locals
  <2>5. PassShape(s) /\ s.pc \notin Deciding /\ pass[p].pc \notin Deciding
    BY <2>2, <2>4, KnownOf DEF PassShape, Early, Working, Deciding
  <2>6. CASE ~PollPaused(pollCursor) /\ PassGoes(p, s)
    <3>1. Backed(s, pollCursor)
      BY <2>2, <2>4, <2>6, KnownOf DEF Backed, Working, Bootstrapping, Deciding
    <3> QED BY <2>2, <2>4, <2>5, <2>6, <3>1, KnownOf, WorksOn
  <2>7. CASE EndPass(p)
    BY <2>2, <2>5, <2>7, KnownOf, HolderOwesNothing, Ends
  <2> QED BY <2>2, <2>6, <2>7
<1> QED BY <1>1, <1>2, <1>3, <1>4, <1>5 DEF BeginStep

RecoveryStep(p) == StartExhausted(p) \/ Resume(p) \/ Recover(p) \/ ResolveFailed(p)

\* A pass goes back to work with a cursor that has no failures.
LEMMA ResumesWork ==
    ASSUME PollInv, NEW p \in Passes, HoldsLease(p), pass[p].pc \notin Deciding,
           NEW s \in PassRows, PassGoes(p, s), s.pc = "route", ~s.resuming,
           UNCHANGED <<planState, asked, pollFaults>>,
           pollCursor' \in CursorRows, WellFormed(pollCursor'), ~PollPaused(pollCursor'),
           pollCursor'.failures = 0
    PROVE  PollInv'
<1>1. WithinBudget(pollCursor') /\ Settled(pollCursor', pollFaults)
  BY NoFailures
<1>2. PassShape(s) /\ s.pc \notin Deciding
  BY DEF PassShape, Early, Working, Deciding
<1>3. Backed(s, pollCursor')
  BY <1>1 DEF Backed, Working, Bootstrapping, Deciding
<1> QED BY <1>1, <1>2, <1>3, KnownOf, GoesOn

\* An exhausted budget is decided, or its recovery is claimed for one version
\* and stays claimed until the bootstrap of that version is decided.
LEMMA RecoveryStepKeeps ==
    ASSUME PollInv, NEW p \in Passes, RecoveryStep(p)
    PROVE  PollInv'
<1>0. LivePlans \in SUBSET PlanIds
  BY DEF LivePlans
<1>1. CASE StartExhausted(p)
  <2>1. /\ HoldsLease(p) /\ pass[p].pc = "start" /\ pass[p].pc \notin Deciding
        /\ ~PollPaused(pollCursor) /\ UNCHANGED <<planState, asked, pollFaults>>
        /\ ~pass[p].resuming /\ ~pass[p].boot
    BY <1>1, KnownOf DEF StartExhausted, PassAt, Deciding, PassShape, Early
  <2>2. CASE ~HasCandidate(pollCursor, MaxPollFailures)
    <3>1. ToTerminal(p, Nobody, {}, FALSE) /\ UNCHANGED pollCursor
      BY <1>1, <2>2 DEF StartExhausted
    <3>2. "terminal" \in Deciding /\ Nobody \in PlanIds \cup {Nobody} /\ {} \in SUBSET PlanIds
      BY DEF Deciding
    <3>3. pollCursor.failures <= RecoveryFailureLimit + 1 + pollFaults
      BY DEF PollInv, Counted
    <3> QED BY <2>1, <3>1, <3>2, <3>3, KnownOf, OwesDecision DEF ToTerminal
  <2>3. CASE HasCandidate(pollCursor, MaxPollFailures)
    <3>1. PICK d : d = [pass[p] EXCEPT !.bound = pollCursor.plan, !.attempted = LivePlans]
      OBVIOUS
    <3>2. /\ pollCursor.kind = "conflict" /\ pollCursor.plan # Nobody /\ pollCursor.plan \in PlanIds
          /\ pollCursor' = Resolved(pollCursor)
          /\ PassGoes(p, CASE LivePlan(pollCursor.plan) ->
                                 [d EXCEPT !.pc = "route", !.boot = TRUE]
                            [] planState[pollCursor.plan] = "projecting" ->
                                 [d EXCEPT !.pc = "resume", !.resuming = TRUE, !.attempted = {}]
                            [] OTHER -> [d EXCEPT !.pc = "route"])
      BY <1>1, <2>3, <3>1, KnownOf DEF StartExhausted, HasCandidate, CursorRows
    <3>3. /\ d \in PassRows /\ ~d.resuming /\ ~d.boot /\ d.bound = pollCursor.plan
      BY <1>0, <2>1, <3>1, <3>2, KnownOf DEF PassRows
    <3>4. CASE LivePlan(pollCursor.plan)
      <4>1. PICK s : s = [d EXCEPT !.pc = "route", !.boot = TRUE]
        OBVIOUS
      <4>2. s \in PassRows /\ s.pc = "route" /\ ~s.resuming
        BY <3>3, <4>1 DEF PassRows, Locals
      <4>3. PassGoes(p, s) /\ planState[pollCursor.plan] # "projecting"
        BY <3>2, <3>4, <4>1 DEF LivePlan
      <4> QED BY <2>1, <3>2, <4>2, <4>3, KnownOf, ResolvedRow, ResumesWork
    <3>5. CASE planState[pollCursor.plan] = "projecting"
      <4>1. PICK s : s = [d EXCEPT !.pc = "resume", !.resuming = TRUE, !.attempted = {}]
        OBVIOUS
      <4>2. s \in PassRows /\ s.pc = "resume" /\ s.resuming /\ ~s.boot /\ s.bound = pollCursor.plan
        BY <3>3, <4>1 DEF PassRows, Locals
      <4>3. PassGoes(p, s)
        BY <3>2, <3>5, <4>1 DEF LivePlan
      <4>4. PassShape(s) /\ s.pc \notin Deciding
        BY <4>2 DEF PassShape, Early, Working, Deciding
      <4>5. Backed(s, pollCursor')
        BY <3>2, <3>5, <4>2, KnownOf, ResolvedRow DEF Backed, Working, Bootstrapping, Deciding
      <4>6. Settled(pollCursor', pollFaults)
        BY <2>1, <3>2, ResolvedSettled
      <4>7. pollCursor' \in CursorRows /\ WellFormed(pollCursor')
        BY <3>2, KnownOf, ResolvedRow
      <4> QED BY <2>1, <4>2, <4>3, <4>4, <4>5, <4>6, <4>7, KnownOf, GoesOn
    <3>6. CASE ~LivePlan(pollCursor.plan) /\ planState[pollCursor.plan] # "projecting"
      <4>1. PICK s : s = [d EXCEPT !.pc = "route"]
        OBVIOUS
      <4>2. s \in PassRows /\ s.pc = "route" /\ ~s.resuming
        BY <3>3, <4>1 DEF PassRows, Locals
      <4>3. PassGoes(p, s)
        BY <3>2, <3>6, <4>1
      <4> QED BY <2>1, <3>2, <3>6, <4>2, <4>3, KnownOf, ResolvedRow, ResumesWork
    <3> QED BY <3>4, <3>5, <3>6
  <2> QED BY <2>2, <2>3
<1>2. ASSUME NEW b \in BOOLEAN, Resumed(p, b), HoldsLease(p), pass[p].pc \notin Deciding,
             UNCHANGED <<planState, asked, pollFaults>>,
             pollCursor' \in CursorRows, WellFormed(pollCursor'), ~PollPaused(pollCursor'),
             pollCursor'.failures = 0
      PROVE  PollInv'
  <2>1. PICK s : s = [pass[p] EXCEPT !.pc = "route", !.boot = b, !.resuming = FALSE,
                            !.plan = Nobody, !.attempted = LivePlans]
    OBVIOUS
  <2>2. s \in PassRows /\ s.pc = "route" /\ ~s.resuming
    BY <1>0, <2>1, KnownOf DEF PassRows, Locals
  <2> QED BY <1>2, <2>1, <2>2, ResumesWork DEF Resumed
<1>3. ASSUME pass[p].pc \in {"resume", "recover"}, HoldsLease(p)
      PROVE  /\ pollCursor.kind = "conflict" /\ pollCursor.plan # Nobody
             /\ pollCursor.plan = pass[p].bound /\ ClaimedFor(pollCursor, pass[p].bound)
             /\ pass[p].pc \notin Deciding /\ pass[p].resuming /\ ~pass[p].boot
  BY <1>3, KnownOf DEF Backed, PassShape, ClaimedFor, Deciding
<1>4. ASSUME NEW c, c = Forgiven(pollCursor, "completed")
      PROVE  c \in CursorRows /\ WellFormed(c) /\ ~PollPaused(c) /\ c.failures = 0
  BY <1>4, KnownOf, ForgivenRow DEF WellFormed, PollPaused, Recoveries
<1>5. CASE Resume(p)
  <2>1. HoldsLease(p) /\ pass[p].pc = "resume" /\ UNCHANGED <<planState, asked, pollFaults>>
    BY <1>5 DEF Resume, PassAt
  <2>2. CASE RecoveredPlan(pollCursor)
    <3>1. planState[pass[p].bound] # "projecting" /\ planState[pollCursor.plan] # "projecting"
      BY <1>3, <2>1, <2>2 DEF RecoveredPlan, LivePlan
    <3>2. pollCursor' = Forgiven(pollCursor, "completed") /\ Resumed(p, TRUE)
      BY <1>5, <2>2, <3>1 DEF Resume
    <3> QED BY <1>2, <1>3, <1>4, <2>1, <3>2
  <2>3. CASE ~RecoveredPlan(pollCursor) /\ planState[pass[p].bound] = "projecting"
    <3>1. PICK s : s = [pass[p] EXCEPT !.pc = "control"]
      OBVIOUS
    <3>2. PassGoes(p, s) /\ UNCHANGED pollCursor
      BY <1>5, <2>3, <3>1 DEF Resume
    <3>3. s \in PassRows /\ s.pc = "control" /\ s.resuming /\ ~s.boot /\ s.bound = pass[p].bound
      BY <1>3, <2>1, <3>1, KnownOf DEF PassRows, Locals
    <3>4. PassShape(s) /\ s.pc \notin Deciding
      BY <3>3 DEF PassShape, Early, Working, Deciding
    <3>5. Backed(s, pollCursor)
      BY <1>3, <2>1, <3>3 DEF Backed, Working, Bootstrapping, Deciding
    <3> QED BY <1>3, <2>1, <3>2, <3>3, <3>4, <3>5, KnownOf, WorksOn
  <2>4. CASE ~RecoveredPlan(pollCursor) /\ planState[pass[p].bound] # "projecting"
    <3>1. pollCursor' = Resolved(pollCursor) /\ Resumed(p, LivePlan(pollCursor.plan))
      BY <1>5, <2>4 DEF Resume
    <3>2. LivePlan(pollCursor.plan) \in BOOLEAN
      BY DEF LivePlan
    <3>3. pollCursor' \in CursorRows /\ WellFormed(pollCursor') /\ ~PollPaused(pollCursor')
          /\ pollCursor'.failures = 0
      BY <1>3, <2>1, <2>4, <3>1, KnownOf, ResolvedRow
    <3> QED BY <1>2, <1>3, <2>1, <3>1, <3>2, <3>3
  <2> QED BY <2>2, <2>3, <2>4
<1>6. CASE Recover(p)
  <2>1. HoldsLease(p) /\ pass[p].pc = "recover" /\ UNCHANGED <<planState, asked, pollFaults>>
    BY <1>6 DEF Recover, PassAt
  <2>2. CASE RecoveredPlan(pollCursor)
    <3>1. planState[pass[p].bound] # "projecting" /\ planState[pollCursor.plan] # "projecting"
      BY <1>3, <2>1, <2>2 DEF RecoveredPlan, LivePlan
    <3>2. pollCursor' = Forgiven(pollCursor, "completed") /\ Resumed(p, TRUE)
      BY <1>6, <2>2, <3>1 DEF Recover
    <3> QED BY <1>2, <1>3, <1>4, <2>1, <3>2
  <2>3. CASE ~RecoveredPlan(pollCursor) /\ planState[pollCursor.plan] = "projecting"
    <3>1. pollCursor' = Resolved(pollCursor) /\ ToTerminal(p, Nobody, {}, FALSE)
      BY <1>6, <2>3 DEF Recover
    <3>2. "terminal" \in Deciding /\ Nobody \in PlanIds \cup {Nobody} /\ {} \in SUBSET PlanIds
      BY DEF Deciding
    <3>3. pollCursor'.failures <= RecoveryFailureLimit + 1 + pollFaults
      BY <1>3, <2>1, <3>1, ResolvedSettled DEF Settled
    <3>4. pollCursor' \in CursorRows /\ WellFormed(pollCursor')
      BY <1>3, <2>1, <3>1, KnownOf, ResolvedRow
    <3> QED BY <1>3, <2>1, <3>1, <3>2, <3>3, <3>4, OwesDecision DEF ToTerminal
  <2>4. CASE ~RecoveredPlan(pollCursor) /\ planState[pollCursor.plan] # "projecting"
    <3>1. pollCursor' = Resolved(pollCursor) /\ Resumed(p, FALSE)
      BY <1>6, <2>4 DEF Recover
    <3>2. pollCursor' \in CursorRows /\ WellFormed(pollCursor') /\ ~PollPaused(pollCursor')
          /\ pollCursor'.failures = 0
      BY <1>3, <2>1, <2>4, <3>1, KnownOf, ResolvedRow
    <3> QED BY <1>2, <1>3, <2>1, <3>1, <3>2
  <2> QED BY <2>2, <2>3, <2>4
<1>7. CASE ResolveFailed(p)
  <2>1. PICK s : s = [pass[p] EXCEPT !.plan = pass[p].bound]
    OBVIOUS
  <2>2. /\ PassGoes(p, s) /\ HoldsLease(p) /\ pass[p].pc = "failing"
        /\ UNCHANGED <<planState, asked, pollFaults>>
        /\ pollCursor' = IF HasCandidate(pollCursor, MaxPollFailures)
                           THEN Resolved(pollCursor) ELSE pollCursor
    BY <1>7, <2>1 DEF ResolveFailed, PassAt
  <2>3. /\ s \in PassRows /\ s.pc = "failing" /\ s.resuming = pass[p].resuming
        /\ s.boot = pass[p].boot /\ s.bound = pass[p].bound
    BY <2>1, <2>2, KnownOf DEF PassRows
  <2>4. PassShape(s) /\ s.pc \notin Deciding /\ pass[p].pc \notin Deciding
    BY <2>2, <2>3, KnownOf DEF PassShape, Early, Working, Deciding
  <2>5. pollCursor.failures = 0 \/ ClaimedFor(pollCursor, s.bound)
    BY <2>2, <2>3, KnownOf DEF Backed
  <2>6. CASE ~HasCandidate(pollCursor, MaxPollFailures)
    <3>1. Backed(s, pollCursor)
      BY <2>3, <2>5 DEF Backed, Working, Bootstrapping, Deciding
    <3> QED BY <2>2, <2>3, <2>4, <2>6, <3>1, KnownOf, WorksOn
  <2>7. CASE HasCandidate(pollCursor, MaxPollFailures)
    <3>1. ClaimedFor(pollCursor, s.bound)
      BY <2>5, <2>7, KnownOf DEF HasCandidate
    <3>2. pollCursor'.failures = 0 \/ ClaimedFor(pollCursor', s.bound)
      BY <2>2, <2>7, <3>1, KnownOf, ResolvedRow DEF ClaimedFor
    <3>3. Backed(s, pollCursor')
      BY <2>3, <3>2 DEF Backed, Working, Bootstrapping, Deciding
    <3>4. pollCursor' \in CursorRows /\ WellFormed(pollCursor') /\ Settled(pollCursor', pollFaults)
      BY <2>2, <2>4, <2>7, KnownOf, ResolvedRow, ResolvedSettled DEF HasCandidate
    <3> QED BY <2>2, <2>3, <2>4, <3>3, <3>4, KnownOf, GoesOn
  <2> QED BY <2>6, <2>7
<1> QED BY <1>1, <1>5, <1>6, <1>7 DEF RecoveryStep

----------------------------------------------------------------------------
(* Decisions keep the invariant                                            *)

\* The count that a pass could not absorb is decided: given up, forgiven or
\* turned into a pause.
LEMMA TerminalStepKeeps ==
    ASSUME PollInv, NEW p \in Passes, ConsumeEligibility(p) \/ TerminalFailure(p)
    PROVE  PollInv'
<1>0. pollCursor.failures <= RecoveryFailureLimit + 1 + pollFaults
  BY DEF PollInv, Counted
<1>1. CASE ConsumeEligibility(p)
  <2>1. PICK s : s = [pass[p] EXCEPT !.pc = "terminal"]
    OBVIOUS
  <2>2. /\ PassGoes(p, s) /\ HoldsLease(p) /\ pass[p].pc = "consume"
        /\ pollCursor' = Consumed(pollCursor) /\ UNCHANGED <<planState, asked, pollFaults>>
    BY <1>1, <2>1 DEF ConsumeEligibility, PassAt
  <2>3. s \in PassRows /\ s.pc = "terminal" /\ s.resuming = pass[p].resuming
        /\ s.boot = pass[p].boot /\ (s.retry <=> pass[p].retry)
    BY <2>1, KnownOf DEF PassRows, Locals
  <2>4. PassShape(s) /\ s.pc \in Deciding
    BY <2>3, KnownOf DEF PassShape, Early, Working, Deciding
  <2>5. Backed(s, pollCursor')
    BY <2>2, <2>3, KnownOf, ConsumedRow DEF Backed, Working, Bootstrapping, Deciding
  <2> QED BY <1>0, <2>2, <2>3, <2>4, <2>5, KnownOf, ConsumedRow, GoesOn
<1>2. CASE TerminalFailure(p)
  <2>1. /\ HoldsLease(p) /\ ResolveTerminal(pass[p]) /\ UNCHANGED <<planState, pollFaults>>
        /\ IF pass[p].resuming /\ AllCompleted(TerminalAttempts(pass[p]))
              THEN PassGoes(p, [OffDuty EXCEPT !.pc = "route", !.bound = pass[p].bound])
              ELSE EndPass(p)
    BY <1>2 DEF TerminalFailure
  <2>2. /\ TerminalPlan(pass[p]) \in PlanIds \cup {Nobody}
        /\ TerminalAttempts(pass[p]) \in SUBSET PlanIds
    BY KnownOf DEF TerminalPlan, TerminalAttempts, CursorRows, PassRows
  <2>3. CASE AllCompleted(TerminalAttempts(pass[p]))
    <3>1. pollCursor' = Succeeded(pollCursor) /\ UNCHANGED asked
      BY <2>1, <2>3 DEF ResolveTerminal
    <3>2. /\ pollCursor' \in CursorRows /\ WellFormed(pollCursor') /\ pollCursor'.failures = 0
          /\ ~PollPaused(pollCursor')
      BY <3>1, KnownOf, SucceededRow
    <3>3. Settled(pollCursor', pollFaults) /\ WithinBudget(pollCursor')
      BY <3>2, NoFailures
    <3>4. CASE EndPass(p)
      BY <2>1, <3>1, <3>2, <3>3, <3>4, KnownOf, Ends
    <3>5. CASE PassGoes(p, [OffDuty EXCEPT !.pc = "route", !.bound = pass[p].bound])
      <4>1. PICK s : s = [OffDuty EXCEPT !.pc = "route", !.bound = pass[p].bound]
        OBVIOUS
      <4>2. pass[p].bound \in PlanIds \cup {Nobody}
        BY KnownOf DEF PassRows
      <4>3. s \in PassRows /\ s.pc = "route" /\ ~s.resuming
        BY <4>1, <4>2 DEF OffDuty, PassRows, Locals
      <4>4. PassShape(s) /\ s.pc \notin Deciding
        BY <4>3 DEF PassShape, Early, Working, Deciding
      <4>5. Backed(s, pollCursor')
        BY <3>3, <4>3 DEF Backed, Working, Bootstrapping, Deciding
      <4> QED BY <2>1, <3>1, <3>2, <3>3, <3>5, <4>1, <4>3, <4>4, <4>5, KnownOf, GoesOn
    <3> QED BY <2>1, <3>4, <3>5
  <2>4. CASE ~AllCompleted(TerminalAttempts(pass[p]))
    <3>1. PICK owners : owners = QuestionOwners(TerminalPlan(pass[p]), TerminalAttempts(pass[p]))
      OBVIOUS
    <3>2. /\ EndPass(p) /\ asked' = asked \cup owners
          /\ pollCursor' = IF owners = {} /\ pass[p].retry
                   THEN [Forgiven(pollCursor, "consumed") EXCEPT
                            !.kind = "retryable", !.plan = Nobody]
                   ELSE Unrecoverable(pollCursor, TerminalPlan(pass[p]))
      BY <2>1, <2>4, <3>1 DEF ResolveTerminal
    <3>3. asked' \in SUBSET PlanIds
      BY <2>2, <3>1, <3>2, KnownOf DEF QuestionOwners, FrozenOwners
    <3>4. pollCursor' \in CursorRows /\ WellFormed(pollCursor') /\ Settled(pollCursor', pollFaults)
      <4>1. CASE owners = {} /\ pass[p].retry
        <5>1. pollCursor' \in CursorRows /\ pollCursor'.failures = 0 /\ WellFormed(pollCursor')
          BY <3>2, <4>1, KnownOf, AfreshRow DEF Recoveries
        <5> QED BY <5>1, NoFailures
      <4>2. CASE ~(owners = {} /\ pass[p].retry)
        BY <1>0, <2>2, <3>2, <4>2, KnownOf, UnrecoverableRow DEF Settled
      <4> QED BY <4>1, <4>2
    <3> QED BY <2>1, <3>2, <3>3, <3>4, KnownOf, Ends
  <2> QED BY <2>3, <2>4
<1> QED BY <1>1, <1>2

\* A human decision forgives the cursor, or keeps its count and its pause.
LEMMA DecideCursor ==
    ASSUME PollInv, Decide
    PROVE  /\ planState' \in [PlanIds -> PlanStates] /\ asked' \in SUBSET PlanIds
           /\ impact' \in SUBSET PlanIds
           /\ replacement' \in [PlanIds -> PlanIds \cup {Nobody}]
           /\ pollCursor' \in CursorRows /\ WellFormed(pollCursor')
           /\ \/ pollCursor'.failures = 0 /\ ~PollPaused(pollCursor')
              \/ /\ pollCursor'.failures = pollCursor.failures
                 /\ PollPaused(pollCursor') <=> PollPaused(pollCursor)
<1>0. /\ planState \in [PlanIds -> PlanStates] /\ asked \in SUBSET PlanIds
      /\ impact \in SUBSET PlanIds /\ replacement \in [PlanIds -> PlanIds \cup {Nobody}]
      /\ pollCursor \in CursorRows /\ WellFormed(pollCursor)
  BY DEF PollInv, PollTypes
<1>1. PICK v \in PlanIds : \/ RetryPoll(v) \/ CancelPlan(v) \/ Unfreeze(v)
                           \/ \E w \in PlanIds : ReplacePlan(v, w) \/ Amend(v, w)
  BY DEF Decide
<1>2. CASE RetryPoll(v)
  <2>1. /\ asked' \in SUBSET PlanIds /\ UNCHANGED <<impact, replacement>>
        /\ pollCursor' = [Forgiven(pollCursor, "none") EXCEPT !.plan = Nobody]
    BY <1>0, <1>2 DEF RetryPoll
  <2>2. planState' \in [PlanIds -> PlanStates]
    BY <1>0, <1>2 DEF RetryPoll, PlanStates
  <2>3. /\ pollCursor' \in CursorRows /\ WellFormed(pollCursor')
        /\ pollCursor'.failures = 0 /\ ~PollPaused(pollCursor')
    BY <1>0, <2>1, AfreshRow DEF Forgiven, Recoveries, CursorRows, Kinds, PollPaused, WellFormed
  <2> QED BY <1>0, <2>1, <2>2, <2>3
<1>3. ASSUME ImpactAnswered(v)
      PROVE  /\ asked' \in SUBSET PlanIds /\ impact' \in SUBSET PlanIds
             /\ pollCursor' = Forgotten(v)
  BY <1>0, <1>3 DEF ImpactAnswered
<1>4. CASE CancelPlan(v)
  <2>1. ImpactAnswered(v) /\ planState' \in [PlanIds -> PlanStates] /\ UNCHANGED replacement
    BY <1>0, <1>4 DEF CancelPlan, PlanStates
  <2> QED BY <1>0, <1>3, <2>1, ForgottenRow
<1>5. CASE Unfreeze(v)
  BY <1>0, <1>5 DEF Unfreeze, PlanStates
<1>6. ASSUME NEW w \in PlanIds, ReplacePlan(v, w)
      PROVE  /\ ImpactAnswered(v) /\ UNCHANGED planState
             /\ replacement' \in [PlanIds -> PlanIds \cup {Nobody}]
  BY <1>0, <1>6 DEF ReplacePlan
<1>7. ASSUME NEW w \in PlanIds, Amend(v, w)
      PROVE  /\ planState' \in [PlanIds -> PlanStates] /\ impact' \in SUBSET PlanIds
             /\ UNCHANGED <<asked, replacement, pollCursor>>
  BY <1>0, <1>7 DEF Amend, PlanStates
<1>8. CASE \E w \in PlanIds : ReplacePlan(v, w)
  BY <1>0, <1>3, <1>6, <1>8, ForgottenRow
<1>9. CASE \E w \in PlanIds : Amend(v, w)
  BY <1>0, <1>7, <1>9
<1> QED BY <1>1, <1>2, <1>4, <1>5, <1>8, <1>9

\* A decision that does not come out of a pass meets no holder.
LEMMA LocalStepKeeps ==
    ASSUME PollInv, LocalDecision \/ LeaseLapses
    PROVE  PollInv'
<1>1. CASE LocalDecision
  <2>1. /\ LeaseFree /\ Decide /\ pollLease' = [holder |-> Nobody, live |-> FALSE]
        /\ UNCHANGED <<rootOf, pass, pollFaults>>
    BY <1>1 DEF LocalDecision
  <2>2. \A q \in Passes : ~HoldsLease(q) /\ ~HoldsLease(q)'
    BY <2>1, OneHolder DEF PollInv, HoldsLease
  <2>3. Settled(pollCursor, pollFaults)
    BY <2>2, NothingOwed
  <2>4. PollTypes'
    BY <2>1, DecideCursor DEF PollInv, PollTypes
  <2>5. Settled(pollCursor', pollFaults)
    BY <2>1, <2>3, DecideCursor, NoFailures DEF Settled
  <2>6. \A q \in Passes : PassShape(pass'[q]) /\ pass'[q].pc \notin Deciding
    BY <2>1, <2>2 DEF PollInv
  <2> QED BY <2>1, <2>2, <2>4, <2>5, <2>6, DecideCursor DEF PollInv, Counted, Settled
<1>2. CASE LeaseLapses
  <2>1. /\ pollLease' = [pollLease EXCEPT !.live = FALSE]
        /\ pass[pollLease.holder].pc \in Unfenced \cup {"idle"}
        /\ pollLease.holder \in Passes
        /\ UNCHANGED <<rootOf, impact, replacement, planState, asked, pollCursor, pass>>
        /\ pollFaults' \in 0..MaxPollFaults /\ pollFaults <= pollFaults'
    BY <1>2, PollConstants DEF LeaseLapses, impactVars, PollInv, PollTypes, PassAt
  <2>2. \A q \in Passes : HoldsLease(q) => pass[q].pc \notin Deciding
    BY <2>1 DEF HoldsLease, Unfenced, Deciding
  <2>3. Settled(pollCursor, pollFaults)
    BY <2>2, NothingOwed
  <2>4. PollTypes' /\ \A q \in Passes : ~HoldsLease(q)'
    BY <2>1 DEF PollInv, PollTypes, HoldsLease
  <2>5. Settled(pollCursor', pollFaults')
    BY <2>1, <2>3, PollConstants DEF Settled, PollInv, PollTypes, CursorRows, RecoveryFailureLimit
  <2>6. \A q \in Passes : PassShape(pass'[q]) /\ pass'[q].pc \notin Deciding
    BY <2>1, <2>2 DEF PollInv
  <2> QED BY <2>1, <2>4, <2>5, <2>6 DEF PollInv, Counted, Settled
<1> QED BY <1>1, <1>2

----------------------------------------------------------------------------
(* The work of a pass keeps the invariant                                  *)

\* A process bootstraps one of the Plan Versions.
LEMMA RootOfPlan ==
    ASSUME PollInv, NEW p \in Passes
    PROVE  rootOf[p] \in PlanIds /\ SchedulerRoot(p) \in PlanIds
<1>1. rootOf[p] \in PlanIds
  BY PollConstants DEF PollInv, PollTypes
<1> QED BY <1>1 DEF SchedulerRoot, Replaced, PollInv, PollTypes

\* Marking one version keeps the types.
LEMMA MarkedPlan ==
    ASSUME PollInv, NEW v \in PlanIds, NEW x \in PlanStates,
           planState' = [planState EXCEPT ![v] = x]
    PROVE  planState' \in [PlanIds -> PlanStates]
BY KnownOf DEF PollInv, PollTypes

BootstrapStep(p) ==
    \/ RouteAnswers(p) \/ HandOver(p) \/ BeginBootstrap(p) \/ Reconcile(p) \/ FinishBootstrap(p)
    \/ SkipBootstrap(p)

\* A pass that bootstraps does not touch the cursor, and a claim outlives the
\* projection of its version.
LEMMA BootstrapStepKeeps ==
    ASSUME PollInv, NEW p \in Passes, BootstrapStep(p)
    PROVE  PollInv'
<1>1. CASE RouteAnswers(p)
  <2>1. PICK s : s = [pass[p] EXCEPT !.pc = "control", !.attempted = {}]
    OBVIOUS
  <2>2. PassGoes(p, s) /\ pass[p].pc = "route"
        /\ UNCHANGED <<planState, asked, pollCursor, pollFaults>>
    BY <1>1, <2>1 DEF RouteAnswers, PassAt
  <2>3. s \in PassRows /\ s.pc = "control" /\ s.resuming = pass[p].resuming /\ s.boot = pass[p].boot
    BY <2>1, KnownOf DEF PassRows, Locals
  <2>4. PassShape(s) /\ s.pc \notin Deciding /\ pass[p].pc \notin Deciding /\ ~s.resuming
    BY <2>2, <2>3, KnownOf DEF PassShape, Early, Working, Deciding
  <2>5. HoldsLease(p) => Backed(s, pollCursor)
    BY <2>2, <2>3, <2>4, KnownOf DEF Backed, Working, Bootstrapping, Deciding
  <2> QED BY <2>2, <2>3, <2>4, <2>5, KnownOf, WorksOn
<1>2. CASE BeginBootstrap(p)
  <2>1. PICK s : s = [pass[p] EXCEPT !.pc = "projecting", !.plan = SchedulerRoot(p)]
    OBVIOUS
  <2>2. /\ PassGoes(p, s) /\ pass[p].pc = "control" /\ ~pass[p].boot
        /\ planState' = [planState EXCEPT ![SchedulerRoot(p)] = "projecting"]
        /\ UNCHANGED <<asked, pollCursor, pollFaults>>
    BY <1>2, <2>1 DEF BeginBootstrap, Bootstraps, PassAt
  <2>3. s \in PassRows /\ s.pc = "projecting" /\ s.resuming = pass[p].resuming /\ ~s.boot
        /\ s.bound = pass[p].bound
    BY <2>1, <2>2, KnownOf, RootOfPlan DEF PassRows, Locals
  <2>4. PassShape(s) /\ s.pc \notin Deciding /\ pass[p].pc \notin Deciding
    BY <2>2, <2>3, KnownOf DEF PassShape, Early, Working, Deciding
  <2>5. HoldsLease(p) => Backed(s, pollCursor)
    BY <2>2, <2>3, KnownOf DEF Backed, Working, Bootstrapping, Deciding
  <2>6. planState' \in [PlanIds -> PlanStates]
    BY <2>2, RootOfPlan, MarkedPlan DEF PlanStates
  <2> QED BY <2>2, <2>3, <2>4, <2>5, <2>6, WorksOn
<1>3. ASSUME NEW q \in PassRows, q.resuming = pass[p].resuming, q.boot = pass[p].boot,
             q.bound = pass[p].bound, pass[p].pc \in Bootstrapping,
             pass[p].resuming => ~pass[p].boot, NEW s,
             s = [q EXCEPT !.pc = IF q.resuming THEN "recover" ELSE "dispatch"],
             PassGoes(p, s), planState' \in [PlanIds -> PlanStates],
             UNCHANGED <<asked, pollCursor, pollFaults>>
      PROVE  PollInv'
  <2>1. s \in PassRows /\ s.resuming = pass[p].resuming /\ s.boot = pass[p].boot
        /\ s.bound = pass[p].bound /\ s.pc = IF s.resuming THEN "recover" ELSE "dispatch"
    BY <1>3 DEF PassRows, Locals
  <2>2. PassShape(s) /\ s.pc \notin Deciding /\ pass[p].pc \notin Deciding
    BY <1>3, <2>1 DEF PassShape, Early, Working, Deciding, Bootstrapping
  <2>3. HoldsLease(p) => Backed(s, pollCursor)
    BY <1>3, <2>1, KnownOf DEF Backed, Working, Bootstrapping, Deciding
  <2> QED BY <1>3, <2>1, <2>2, <2>3, WorksOn
<1>4. CASE Reconcile(p)
  <2>1. PICK q : q = [pass[p] EXCEPT !.plan = SchedulerRoot(p),
                            !.already = planState[SchedulerRoot(p)] = "completed"]
    OBVIOUS
  <2>2. /\ pass[p].pc \in Bootstrapping
        /\ PassGoes(p, [q EXCEPT !.pc = IF q.resuming THEN "recover" ELSE "dispatch"])
        /\ UNCHANGED <<planState, asked, pollCursor, pollFaults>>
    BY <1>4, <2>1 DEF Reconcile, Bootstraps, PassAt, Bootstrapping
  <2>3. q \in PassRows /\ q.resuming = pass[p].resuming /\ q.boot = pass[p].boot
        /\ q.bound = pass[p].bound
    BY <2>1, KnownOf, RootOfPlan DEF PassRows
  <2> QED BY <1>3, <2>2, <2>3, KnownOf DEF PassShape
<1>5. CASE FinishBootstrap(p)
  <2>1. /\ pass[p].pc \in Bootstrapping
        /\ PassGoes(p, [pass[p] EXCEPT !.pc = IF pass[p].resuming THEN "recover" ELSE "dispatch"])
        /\ UNCHANGED <<asked, pollCursor, pollFaults>>
        /\ planState' = [planState EXCEPT ![pass[p].plan] =
                  IF planState[pass[p].plan] = "projecting" THEN "active" ELSE @]
    BY <1>5 DEF FinishBootstrap, PassAt, Bootstrapping
  <2>2. planState' \in [PlanIds -> PlanStates]
    <3>1. planState \in [PlanIds -> PlanStates]
      BY KnownOf
    <3> QED BY <2>1, <3>1 DEF PlanStates
  <2> QED BY <1>3, <2>1, <2>2, KnownOf DEF PassShape
<1>6. CASE SkipBootstrap(p)
  <2>1. PICK s : s = [pass[p] EXCEPT !.pc = "dispatch"]
    OBVIOUS
  <2>2. PassGoes(p, s) /\ pass[p].pc = "control" /\ pass[p].boot
        /\ UNCHANGED <<planState, asked, pollCursor, pollFaults>>
    BY <1>6, <2>1 DEF SkipBootstrap, PassAt
  <2>3. s \in PassRows /\ s.pc = "dispatch" /\ s.resuming = pass[p].resuming /\ s.boot = pass[p].boot
    BY <2>1, KnownOf DEF PassRows, Locals
  <2>4. PassShape(s) /\ s.pc \notin Deciding /\ pass[p].pc \notin Deciding /\ ~s.resuming
    BY <2>2, <2>3, KnownOf DEF PassShape, Early, Working, Deciding
  <2>5. HoldsLease(p) => Backed(s, pollCursor)
    BY <2>2, <2>3, <2>4, KnownOf DEF Backed, Working, Bootstrapping, Deciding
  <2> QED BY <2>2, <2>3, <2>4, <2>5, KnownOf, WorksOn
<1>7. CASE HandOver(p)
  <2>1. /\ pass[p].pc = "control" /\ UNCHANGED <<asked, pollCursor, pollFaults>>
        /\ planState' = [planState EXCEPT ![rootOf[p]] = "retired"]
        /\ UNCHANGED <<impact, replacement, rootOf, pollLease, pass>>
    BY <1>7 DEF HandOver, Bootstraps, PassAt, impactVars
  <2>2. Moves(p, pass[p])
    BY <2>1 DEF Moves, PollInv, PollTypes
  <2>3. planState' \in [PlanIds -> PlanStates] /\ pass[p].pc \notin Deciding
    BY <2>1, RootOfPlan, MarkedPlan DEF PlanStates, Deciding
  <2> QED BY <2>1, <2>2, <2>3, KnownOf, WorksOn
<1> QED BY <1>1, <1>2, <1>4, <1>5, <1>6, <1>7 DEF BootstrapStep

ProjectStep(p) ==
    \/ Dispatched(p) \/ ProjectInbox(p) \/ RecordSuccess(p) \/ RouteDecision(p)
    \/ \E v \in PlanIds : PollFreezes(p, v) \/ PollDelivers(p, v)

\* A pass that projects and polls keeps what it learned, or succeeds.
LEMMA ProjectStepKeeps ==
    ASSUME PollInv, NEW p \in Passes, ProjectStep(p)
    PROVE  PollInv'
<1>1. ASSUME HoldsLease(p), EndPass(p), UNCHANGED <<planState, asked, pollFaults>>,
             pollCursor' = Succeeded(pollCursor)
      PROVE  PollInv'
  BY <1>1, KnownOf, SucceededRow, NoFailures, Ends
<1>2. CASE Dispatched(p)
  <2>1. PICK candidate : candidate = IF pass[p].plan # Nobody THEN pass[p].plan ELSE pass[p].bound
    OBVIOUS
  <2>2. PICK s : s = [OffDuty EXCEPT !.pc = "inbox", !.bound = candidate, !.attempted = LivePlans]
    OBVIOUS
  <2>3. /\ HoldsLease(p) /\ pass[p].pc = "dispatch" /\ UNCHANGED <<planState, asked, pollFaults>>
        /\ \/ pollCursor' = Succeeded(pollCursor) /\ EndPass(p)
           \/ PassGoes(p, s) /\ UNCHANGED pollCursor
    BY <1>2, <2>1, <2>2 DEF Dispatched, PassAt
  <2>4. candidate \in PlanIds \cup {Nobody} /\ LivePlans \in SUBSET PlanIds
    BY <2>1, KnownOf DEF PassRows, LivePlans
  <2>5. s \in PassRows /\ s.pc = "inbox" /\ ~s.resuming
    BY <2>2, <2>4 DEF PassRows, OffDuty, Locals
  <2>6. PassShape(s) /\ s.pc \notin Deciding /\ pass[p].pc \notin Deciding
    BY <2>3, <2>5 DEF PassShape, Early, Working, Deciding
  <2>7. Backed(s, pollCursor)
    BY <2>3, <2>5, KnownOf DEF Backed, Working, Bootstrapping, Deciding
  <2>8. CASE PassGoes(p, s) /\ UNCHANGED pollCursor
    BY <2>3, <2>5, <2>6, <2>7, <2>8, KnownOf, WorksOn
  <2> QED BY <1>1, <2>3, <2>8
<1>3. CASE ProjectInbox(p)
  <2>1. PICK s : s = [pass[p] EXCEPT !.pc = "poll", !.bound = Nobody]
    OBVIOUS
  <2>2. PassGoes(p, s) /\ pass[p].pc = "inbox"
        /\ UNCHANGED <<planState, asked, pollCursor, pollFaults>>
    BY <1>3, <2>1 DEF ProjectInbox, PassAt
  <2>3. s \in PassRows /\ s.pc = "poll" /\ s.resuming = pass[p].resuming /\ s.boot = pass[p].boot
    BY <2>1, KnownOf DEF PassRows, Locals
  <2>4. PassShape(s) /\ s.pc \notin Deciding /\ pass[p].pc \notin Deciding
    BY <2>2, <2>3, KnownOf DEF PassShape, Early, Working, Deciding
  <2>5. HoldsLease(p) => Backed(s, pollCursor)
    BY <2>2, <2>3, KnownOf DEF Backed, Working, Bootstrapping, Deciding
  <2> QED BY <2>2, <2>3, <2>4, <2>5, KnownOf, WorksOn
<1>4. CASE RecordSuccess(p)
  BY <1>1, <1>4 DEF RecordSuccess
<1>5. ASSUME UNCHANGED pass
      PROVE  pass' = [pass EXCEPT ![p] = pass[p]]
  BY <1>5 DEF PollInv, PollTypes
<1>6. CASE RouteDecision(p)
  <2>1. /\ HoldsLease(p) /\ pass[p].pc \in {"paused", "route"} /\ Decide /\ Moves(p, pass[p])
        /\ UNCHANGED pollFaults
    BY <1>5, <1>6, DecideCursor DEF RouteDecision, PassAt, Moves
  <2>2. pass[p].pc \notin Deciding
    BY <2>1 DEF Deciding
  <2>3. Settled(pollCursor', pollFaults)
    BY <2>1, <2>2, HolderOwesNothing, DecideCursor, NoFailures DEF Settled
  <2>4. Backed(pass[p], pollCursor')
    BY <2>1, KnownOf, DecideCursor, NoFailures
       DEF Backed, WithinBudget, Working, Bootstrapping, Deciding
  <2> QED BY <2>1, <2>3, <2>4, KnownOf, DecideCursor, MovesOn
<1>7. ASSUME NEW v \in PlanIds, PollFreezes(p, v)
      PROVE  PollInv'
  <2>1. /\ pass[p].pc = "poll" /\ Moves(p, pass[p]) /\ UNCHANGED <<asked, pollCursor, pollFaults>>
        /\ planState' = [planState EXCEPT ![v] = "frozen"]
    BY <1>5, <1>7 DEF PollFreezes, PassAt, Moves, PollInv, PollTypes
  <2>2. planState' \in [PlanIds -> PlanStates] /\ pass[p].pc \notin Deciding
    BY <2>1, MarkedPlan DEF PlanStates, Deciding
  <2> QED BY <2>1, <2>2, KnownOf, WorksOn
<1>8. ASSUME NEW v \in PlanIds, PollDelivers(p, v)
      PROVE  PollInv'
  <2>1. PICK s : s = [pass[p] EXCEPT !.pc = "after"]
    OBVIOUS
  <2>2. Moves(p, s) /\ pass[p].pc = "poll" /\ UNCHANGED <<asked, pollCursor, pollFaults>>
        /\ planState' = [planState EXCEPT ![v] = "completed"]
    BY <1>8, <2>1 DEF PollDelivers, PassAt, Moves, PollInv, PollTypes
  <2>3. s \in PassRows /\ s.pc = "after" /\ s.resuming = pass[p].resuming /\ s.boot = pass[p].boot
    BY <2>1, KnownOf DEF PassRows, Locals
  <2>4. PassShape(s) /\ s.pc \notin Deciding /\ pass[p].pc \notin Deciding
    BY <2>2, <2>3, KnownOf DEF PassShape, Early, Working, Deciding
  <2>5. HoldsLease(p) => Backed(s, pollCursor)
    BY <2>2, <2>3, KnownOf DEF Backed, Working, Bootstrapping, Deciding
  <2>6. planState' \in [PlanIds -> PlanStates]
    BY <2>2, MarkedPlan DEF PlanStates
  <2> QED BY <2>2, <2>3, <2>4, <2>5, <2>6, WorksOn
<1> QED BY <1>2, <1>3, <1>4, <1>6, <1>7, <1>8 DEF ProjectStep

----------------------------------------------------------------------------
(* Failures keep the invariant                                             *)

\* The failure of a bootstrap is about a version only when one is known, and
\* then it is within the budget or its recovery is claimed.
LEMMA BootstrapFailureKeeps ==
    ASSUME PollInv, NEW p \in Passes, NEW o \in Outcomes, NEW v \in PlanIds \cup {Nobody},
           RecordBootstrapFailure(p, o, v), pass[p].pc \notin Deciding,
           HoldsLease(p) => \/ WithinBudget(pollCursor)
                            \/ /\ v # Nobody
                               /\ pollCursor.failures = 0 \/ pollCursor.recovery = "claimed"
    PROVE  PollInv'
<1> DEFINE Safe(k, r) ==
             /\ k = "conflict" /\ o = "transient" =>
                   pollCursor.failures < MaxPollFailures \/ pollCursor.recovery # "available"
             /\ r => ~PollPaused(pollCursor)
<1>1. {v} \cap PlanIds \in SUBSET PlanIds /\ {} \in SUBSET PlanIds
  OBVIOUS
<1>2. CASE v = Nobody
  <2>1. RecordFailure(p, o, "none", Nobody, {}, TRUE)
    BY <1>2 DEF RecordBootstrapFailure
  <2>2. Safe("none", TRUE)
    BY <1>2, <2>1 DEF RecordFailure, WithinBudget
  <2> QED BY <2>1, <2>2, FailureRecorded
<1>3. CASE v # Nobody
  <2>1. {v} \in SUBSET PlanIds
    BY <1>3
  <2>2. \/ RecordFailure(p, o, "none", Nobody, {}, FALSE)
        \/ RecordFailure(p, o, "conflict", v, {v}, FALSE)
        \/ RecordFailure(p, o, "none", v, {v}, FALSE)
    BY <1>3 DEF RecordBootstrapFailure
  <2>3. Safe("conflict", FALSE) /\ Safe("none", FALSE)
    <3>1. HoldsLease(p)
      BY <2>2 DEF RecordFailure
    <3> QED BY <3>1, <1>3, KnownOf DEF WithinBudget
  <2> QED BY <2>1, <2>2, <2>3, FailureRecorded
<1> QED BY <1>2, <1>3

\* Every failure is charged by a pass that owes no decision yet.
LEMMA FailureStepKeeps ==
    ASSUME PollInv, NEW p \in Passes, NEW o \in Outcomes,
           \/ RecordAdmissionFailure(p, o) \/ RecordFailed(p, o) \/ RouteFails(p, o)
           \/ BootstrapFails(p, o) \/ DispatchFails(p, o) \/ InboxFails(p, o)
           \/ PollFails(p, o) \/ InboxConflicts(p)
    PROVE  PollInv'
<1>0. /\ pass[p].plan \in PlanIds \cup {Nobody} /\ pass[p].bound \in PlanIds \cup {Nobody}
      /\ pass[p].attempted \in SUBSET PlanIds /\ {} \in SUBSET PlanIds
      /\ pollCursor.plan \in PlanIds \cup {Nobody} /\ "transient" \in Outcomes
  BY KnownOf DEF PassRows, CursorRows, Outcomes
<1>1. ASSUME NEW a \in SUBSET PlanIds, RecordFailure(p, o, "none", Nobody, a, FALSE),
             pass[p].pc \notin Deciding
      PROVE  PollInv'
  BY <1>1, FailureRecorded
<1>2. CASE RecordAdmissionFailure(p, o)
  <2>1. HoldsLease(p) /\ pass[p].pc = "admit" /\ pass[p].pc \notin Deciding
    BY <1>2 DEF RecordAdmissionFailure, PassAt, Deciding
  <2>2. CASE o = "transient" /\ HasCandidate(pollCursor, MaxPollFailures)
    <3>1. ToTerminal(p, Nobody, {}, FALSE) /\ UNCHANGED <<planState, asked, pollCursor, pollFaults>>
      BY <1>2, <2>2 DEF RecordAdmissionFailure
    <3>2. "terminal" \in Deciding /\ pollCursor.failures <= RecoveryFailureLimit + 1 + pollFaults
      BY DEF Deciding, PollInv, Counted
    <3> QED BY <1>0, <2>1, <3>1, <3>2, KnownOf, OwesDecision DEF ToTerminal
  <2>3. CASE o = "limited" /\ HasCandidate(pollCursor, MaxPollFailures)
    <3>1. RecordFailure(p, o, "conflict", pollCursor.plan, {}, FALSE)
      BY <1>2, <2>3 DEF RecordAdmissionFailure
    <3> QED BY <1>0, <2>1, <2>3, <3>1, FailureRecorded
  <2>4. CASE ~(o \in {"transient", "limited"} /\ HasCandidate(pollCursor, MaxPollFailures))
    BY <1>0, <1>1, <1>2, <2>1, <2>4 DEF RecordAdmissionFailure
  <2> QED BY <2>2, <2>3, <2>4
<1>3. CASE RecordFailed(p, o)
  <2>1. /\ pass[p].pc = "failing" /\ pass[p].pc \notin Deciding /\ pass[p].plan # Nobody
        /\ RecordBootstrapFailure(p, o, pass[p].plan)
    BY <1>3 DEF RecordFailed, PassAt, Deciding
  <2>2. HoldsLease(p) => pollCursor.failures = 0 \/ pollCursor.recovery = "claimed"
    BY <2>1, KnownOf DEF Backed, ClaimedFor
  <2> QED BY <1>0, <2>1, <2>2, BootstrapFailureKeeps
<1>4. CASE RouteFails(p, o)
  <2>1. HoldsLease(p) /\ pass[p].pc \notin Deciding
    BY <1>4 DEF RouteFails, PassAt, Deciding
  <2>2. CASE pass[p].attempted = {}
    BY <1>4, <2>1, <2>2, KnownOf, HolderOwesNothing, Ends DEF RouteFails
  <2>3. CASE pass[p].attempted # {}
    BY <1>0, <1>1, <1>4, <2>1, <2>3 DEF RouteFails
  <2> QED BY <2>2, <2>3
<1>5. CASE BootstrapFails(p, o)
  <2>1. pass[p].pc \in Bootstrapping /\ pass[p].pc \notin Deciding
    BY <1>5 DEF BootstrapFails, Bootstraps, PassAt, Bootstrapping, Deciding
  <2>2. CASE pass[p].resuming
    <3>1. PICK s : s = [pass[p] EXCEPT !.pc = "failing", !.plan = Nobody]
      OBVIOUS
    <3>2. PassGoes(p, s) /\ UNCHANGED <<planState, asked, pollCursor, pollFaults>>
      BY <1>5, <2>2, <3>1 DEF BootstrapFails
    <3>3. s \in PassRows /\ s.pc = "failing" /\ s.resuming /\ ~s.boot /\ s.bound = pass[p].bound
      BY <2>2, <3>1, KnownOf DEF PassRows, Locals, PassShape
    <3>4. PassShape(s) /\ s.pc \notin Deciding
      BY <3>3 DEF PassShape, Early, Working, Deciding
    <3>5. HoldsLease(p) => Backed(s, pollCursor)
      BY <2>1, <2>2, <3>3, KnownOf DEF Backed, Working, Bootstrapping, Deciding
    <3> QED BY <2>1, <3>2, <3>3, <3>4, <3>5, KnownOf, WorksOn
  <2>3. CASE ~pass[p].resuming
    <3>1. RecordBootstrapFailure(p, o, pass[p].plan)
      BY <1>5, <2>3 DEF BootstrapFails
    <3>2. HoldsLease(p) => WithinBudget(pollCursor)
      BY <2>1, <2>3, KnownOf DEF Backed
    <3> QED BY <1>0, <2>1, <3>1, <3>2, BootstrapFailureKeeps
  <2> QED BY <2>2, <2>3
<1>6. CASE DispatchFails(p, o)
  <2>1. RecordBootstrapFailure(p, o, pass[p].plan) /\ pass[p].pc = "dispatch"
    BY <1>6 DEF DispatchFails, PassAt
  <2>2. pass[p].pc \notin Deciding /\ (HoldsLease(p) => WithinBudget(pollCursor))
    BY <2>1, KnownOf DEF Backed, Working, Deciding
  <2> QED BY <1>0, <2>1, <2>2, BootstrapFailureKeeps
<1>7. CASE InboxFails(p, o)
  BY <1>0, <1>1, <1>7 DEF InboxFails, PassAt, Deciding
<1>8. CASE PollFails(p, o)
  BY <1>0, <1>1, <1>8 DEF PollFails, PassAt, Deciding
<1>9. CASE InboxConflicts(p)
  <2>1. HoldsLease(p) /\ pass[p].pc = "inbox" /\ pass[p].pc \notin Deciding
    BY <1>9 DEF InboxConflicts, PassAt, Deciding
  <2>2. CASE pollCursor' = Succeeded(pollCursor) /\ EndPass(p)
              /\ UNCHANGED <<planState, asked, pollFaults>>
    BY <2>1, <2>2, KnownOf, SucceededRow, NoFailures, Ends
  <2>3. CASE RecordFailure(p, "transient", "conflict", pass[p].bound, {}, FALSE)
    <3>1. pollCursor.failures < MaxPollFailures
      BY <2>1, KnownOf DEF Backed, Working, WithinBudget
    <3> QED BY <1>0, <2>1, <2>3, <3>1, FailureRecorded
  <2> QED BY <1>9, <2>2, <2>3 DEF InboxConflicts
<1> QED BY <1>2, <1>3, <1>4, <1>5, <1>6, <1>7, <1>8, <1>9

----------------------------------------------------------------------------
(* The theorems                                                            *)

\* Every step of a process keeps the invariant.
LEMMA PassStepKeeps ==
    ASSUME PollInv, NEW p \in Passes, AdmissionStep(p) \/ WorkStep(p) \/ FailureStep(p)
    PROVE  PollInv'
<1>1. CASE AdmissionStep(p)
  BY <1>1, LeaseStepKeeps, BeginStepKeeps, RecoveryStepKeeps, TerminalStepKeeps
     DEF AdmissionStep, LeaseStep, BeginStep, RecoveryStep
<1>2. CASE WorkStep(p)
  <2>1. Outcomes # {}
    BY DEF Outcomes
  <2> QED BY <1>2, <2>1, BootstrapStepKeeps, ProjectStepKeeps, FailureStepKeeps
             DEF WorkStep, BootstrapStep, ProjectStep
<1>3. CASE FailureStep(p)
  BY <1>3, FailureStepKeeps DEF FailureStep
<1> QED BY <1>1, <1>2, <1>3

\* A repository that was never polled has no failures and no holder.
LEMMA PollInvHoldsFirst == PollInit => PollInv
<1> SUFFICES ASSUME PollInit PROVE PollInv
  OBVIOUS
<1>1. OffDuty \in PassRows /\ PassShape(OffDuty) /\ OffDuty.pc = "idle"
  BY DEF OffDuty, PassRows, PassShape, Early, Working
<1>2. Fresh \in CursorRows /\ WellFormed(Fresh) /\ Fresh.failures = 0
  BY DEF Fresh, CursorRows, Kinds, Recoveries, WellFormed
<1>3. PollTypes
  BY <1>1, <1>2, PollConstants DEF PollInit, PollTypes, PlanStates
<1>4. \A p \in Passes : pass[p] = OffDuty /\ ~HoldsLease(p)
  BY PollConstants DEF PollInit, HoldsLease
<1>5. Counted
  BY <1>2, PollConstants DEF PollInit, Counted, Settled, RecoveryFailureLimit
<1> QED BY <1>1, <1>2, <1>3, <1>4, <1>5 DEF PollInit, PollInv, Deciding

\* PollInv is inductive.
LEMMA PollInvariant == PollSpec => []PollInv
<1>1. PollInv /\ [PollNext]_pollVars => PollInv'
  <2> SUFFICES ASSUME PollInv, [PollNext]_pollVars PROVE PollInv'
    OBVIOUS
  <2>1. CASE UNCHANGED pollVars
    BY <2>1 DEF pollVars, PollInv, PollTypes, Counted, HoldsLease
  <2>2. CASE PollNext
    BY <2>2, PassStepKeeps, LocalStepKeeps DEF PollNext
  <2> QED BY <2>1, <2>2
<1> QED BY <1>1, PollInvHoldsFirst, PTL DEF PollSpec

\* The cursor, the lease and the passes have their types, and a recovery is
\* always bound to a Plan Version.
THEOREM PollTypesHold == PollSpec => []PollTypeOK
<1>1. PollInv => PollTypeOK
  <2> SUFFICES ASSUME PollInv PROVE PollTypeOK
    OBVIOUS
  <2>1. pollCursor.failures \in 0..CountedFailures
    BY PollConstants DEF PollInv, PollTypes, Counted, CursorRows, CountedFailures,
                         RecoveryFailureLimit
  <2>2. pollCursor \in [failures : 0..CountedFailures, kind : Kinds, recovery : Recoveries,
                        plan : PlanIds \cup {Nobody}, attempted : SUBSET PlanIds]
    BY <2>1 DEF PollInv, PollTypes, CursorRows
  <2> QED BY <2>2 DEF PollInv, PollTypes, PassRows, WellFormed, PollTypeOK
<1> QED BY <1>1, PollInvariant, PTL

\* A poll that is not paused has failed at most twice its budget in a row, and
\* once more for every fault and for the decision that is under way.
THEOREM BudgetIsBound == PollSpec => []BudgetBound
<1>1. PollInv => BudgetBound
  BY DEF PollInv, Counted, BudgetBound
<1> QED BY <1>1, PollInvariant, PTL

\* No pass works on an exhausted budget or on a paused poll.
THEOREM WorkIsWithinBudget == PollSpec => []NoWorkPastBudget
<1>1. PollInv => NoWorkPastBudget
  BY DEF PollInv, Backed, Working, Bootstrapping, WithinBudget, NoWorkPastBudget
<1> QED BY <1>1, PollInvariant, PTL

----------------------------------------------------------------------------
(* Who changes the cursor, and who lifts a pause                           *)

\* Process p, and no other, takes a step of its pass.
Advances(p) == \E s : s # pass[p] /\ pass' = [pass EXCEPT ![p] = s]

\* The cursor and the questions stay, or process p changes them as the holder
\* of the lease, in a step of its pass, and lifts no pause.
HolderStep(p) ==
    \/ UNCHANGED <<pollCursor, asked>>
    \/ /\ HoldsLease(p)
       /\ Advances(p)
       /\ PollPaused(pollCursor) => PollPaused(pollCursor')

\* A pass that ends takes a step.
LEMMA EndAdvances ==
    ASSUME NEW p, EndPass(p), pass[p].pc # "idle"
    PROVE  Advances(p)
<1>1. OffDuty # pass[p]
  BY DEF OffDuty
<1>2. pass' = [pass EXCEPT ![p] = OffDuty]
  BY DEF EndPass
<1> QED BY <1>1, <1>2 DEF Advances

\* So does a pass that goes somewhere else.
LEMMA GoAdvances ==
    ASSUME NEW p, NEW s, PassGoes(p, s), s.pc # pass[p].pc
    PROVE  Advances(p)
BY DEF PassGoes, Advances

\* So does a pass that owes a decision from now on.
LEMMA OwingAdvances ==
    ASSUME PollInv, NEW p \in Passes, pass[p].pc \notin Deciding,
           NEW pc \in Deciding, NEW v, NEW a, NEW r,
           PassGoes(p, [pass[p] EXCEPT !.pc = pc, !.boot = FALSE, !.plan = v,
                                       !.already = FALSE, !.attempted = a, !.retry = r])
    PROVE  Advances(p)
<1>1. [pass[p] EXCEPT !.pc = pc, !.boot = FALSE, !.plan = v,
                      !.already = FALSE, !.attempted = a, !.retry = r].pc = pc
  BY KnownOf DEF PassRows
<1> QED BY <1>1, GoAdvances

\* Every failure is recorded by the holder, and leaves a pause in place.
LEMMA FailureOfHolder ==
    ASSUME PollInv, NEW p \in Passes, NEW o \in Outcomes, NEW k \in {"none", "conflict"},
           NEW v \in PlanIds \cup {Nobody}, NEW a \in SUBSET PlanIds, NEW r \in BOOLEAN,
           RecordFailure(p, o, k, v, a, r), pass[p].pc \notin Deciding \cup {"idle"}
    PROVE  HolderStep(p)
<1>1. HoldsLease(p)
  BY DEF RecordFailure
<1>2. PollPaused(pollCursor) => PollPaused(pollCursor')
  <2>1. CASE o = "rejected"
    BY <2>1, KnownOf, CredentialResetRow DEF RecordFailure
  <2>2. CASE o = "limited"
    <3>1. PICK w \in PlanIds \cup {Nobody} : pollCursor' = Advanced(pollCursor, k, w, a)
      BY <2>2 DEF RecordFailure
    <3> QED BY <3>1, KnownOf, AdvancedRow
  <2>3. CASE o = "transient"
    <3>1. pollCursor' = Advanced(pollCursor, k, v, a)
      BY <2>3 DEF RecordFailure
    <3> QED BY <3>1, KnownOf, AdvancedRow
  <2> QED BY <2>1, <2>2, <2>3 DEF Outcomes
<1>3. Advances(p)
  <2>1. CASE EndPass(p)
    BY <2>1, EndAdvances
  <2>2. ASSUME NEW x \in PlanIds \cup {Nobody}, NEW pc \in Deciding,
               PassGoes(p, [pass[p] EXCEPT !.pc = pc, !.boot = FALSE, !.plan = x,
                                       !.already = FALSE, !.attempted = a, !.retry = r])
        PROVE  Advances(p)
    BY <2>2, OwingAdvances
  <2>3. ToTerminal(p, v, a, r) => Advances(p)
    BY <2>2 DEF ToTerminal, Deciding
  <2>4. ASSUME NEW c, AfterDeferral(p, c, k, v, a, r) \/ AfterAdvance(p, c, k, v, a, r)
        PROVE  Advances(p)
    <3>1. \/ EndPass(p) \/ ToTerminal(p, v, a, r)
          \/ PassGoes(p, [pass[p] EXCEPT !.pc = "consume", !.boot = FALSE, !.plan = v,
                                       !.already = FALSE, !.attempted = a, !.retry = r])
      BY <2>4 DEF AfterDeferral, AfterAdvance
    <3>2. "consume" \in Deciding
      BY DEF Deciding
    <3> QED BY <2>1, <2>2, <2>3, <3>1, <3>2
  <2>5. CASE o = "rejected"
    BY <2>1, <2>5 DEF RecordFailure
  <2>6. CASE o # "rejected"
    <3>1. \E c : AfterDeferral(p, c, k, v, a, r) \/ AfterAdvance(p, c, k, v, a, r)
      BY <2>6 DEF RecordFailure
    <3> QED BY <2>4, <3>1
  <2> QED BY <2>5, <2>6
<1> QED BY <1>1, <1>2, <1>3 DEF HolderStep

\* So are the failures of a bootstrap.
LEMMA BootstrapFailureOfHolder ==
    ASSUME PollInv, NEW p \in Passes, NEW o \in Outcomes, NEW v \in PlanIds \cup {Nobody},
           RecordBootstrapFailure(p, o, v), pass[p].pc \notin Deciding \cup {"idle"}
    PROVE  HolderStep(p)
<1>1. CASE v = Nobody
  <2>1. RecordFailure(p, o, "none", Nobody, {}, TRUE)
    BY <1>1 DEF RecordBootstrapFailure
  <2>2. {} \in SUBSET PlanIds
    OBVIOUS
  <2> QED BY <2>1, <2>2, FailureOfHolder
<1>2. CASE v # Nobody
  <2>1. \/ RecordFailure(p, o, "none", Nobody, {}, FALSE)
        \/ RecordFailure(p, o, "conflict", v, {v}, FALSE)
        \/ RecordFailure(p, o, "none", v, {v}, FALSE)
    BY <1>2 DEF RecordBootstrapFailure
  <2>2. {v} \in SUBSET PlanIds /\ {} \in SUBSET PlanIds
    BY <1>2
  <2> QED BY <2>1, <2>2, FailureOfHolder
<1> QED BY <1>1, <1>2

\* Admission and recovery are steps of the holder, the terminal decision apart.
LEMMA AdmissionOfHolder ==
    ASSUME PollInv, NEW p \in Passes, AdmissionStep(p)
    PROVE  HolderStep(p) \/ TerminalFailure(p)
<1>1. CASE \/ AcquireLease(p) \/ Admit(p) \/ Start(p) \/ StartPaused(p) \/ EndPaused(p)
           \/ Abandons(p) \/ Crashes(p)
  BY <1>1 DEF HolderStep, AcquireLease, Admit, Start, StartPaused, EndPaused, Abandons, Crashes
<1>0. /\ pass[p] \in PassRows
      /\ \A s : PassGoes(p, s) /\ s.pc # pass[p].pc => Advances(p)
  BY KnownOf, GoAdvances
<1>2. CASE PrepareAdmission(p)
  <2>1. /\ HoldsLease(p) /\ UNCHANGED asked /\ pass[p].pc = "prepare"
        /\ PassGoes(p, [pass[p] EXCEPT !.pc = "admit"])
        /\ pollCursor' = IF HasCandidate(pollCursor, MaxPollFailures)
                           THEN Resolved(pollCursor) ELSE pollCursor
    BY <1>2 DEF PrepareAdmission, PassAt
  <2>2. [pass[p] EXCEPT !.pc = "admit"].pc = "admit"
    BY <1>0 DEF PassRows
  <2>3. Advances(p)
    BY <1>0, <2>1, <2>2
  <2> QED BY <2>1, <2>3 DEF HolderStep, HasCandidate, PollPaused
<1>3. CASE StartExhausted(p)
  <2>1. HoldsLease(p) /\ ~PollPaused(pollCursor) /\ pass[p].pc = "start"
    BY <1>3 DEF StartExhausted, PassAt
  <2>2. CASE ToTerminal(p, Nobody, {}, FALSE)
    BY <2>1, <2>2, OwingAdvances DEF ToTerminal, Deciding, HolderStep
  <2>3. CASE ~ToTerminal(p, Nobody, {}, FALSE)
    <3>1. PICK d : d = [pass[p] EXCEPT !.bound = pollCursor.plan, !.attempted = LivePlans]
      OBVIOUS
    <3>2. PICK s : /\ PassGoes(p, s)
                   /\ \/ s = [d EXCEPT !.pc = "route", !.boot = TRUE]
                      \/ s = [d EXCEPT !.pc = "resume", !.resuming = TRUE, !.attempted = {}]
                      \/ s = [d EXCEPT !.pc = "route"]
      BY <1>3, <2>3, <3>1 DEF StartExhausted
    <3>3. s.pc \in {"route", "resume"}
      BY <1>0, <3>1, <3>2 DEF PassRows
    <3> QED BY <1>0, <2>1, <3>2, <3>3 DEF HolderStep
  <2> QED BY <2>2, <2>3
<1>4. CASE Resume(p) \/ Recover(p)
  <2>1. HoldsLease(p) /\ pass[p].pc \in {"resume", "recover"}
    BY <1>4 DEF Resume, Recover, PassAt
  <2>2. ~PollPaused(pollCursor) /\ ClaimedFor(pollCursor, pass[p].bound)
    BY <2>1, KnownOf DEF Backed, PassShape, ClaimedFor, PollPaused
  <2>3. ASSUME NEW b, Resumed(p, b) PROVE Advances(p)
    <3>1. PICK s : s = [pass[p] EXCEPT !.pc = "route", !.boot = b, !.resuming = FALSE,
                            !.plan = Nobody, !.attempted = LivePlans]
      OBVIOUS
    <3>2. PassGoes(p, s) /\ s.pc = "route"
      BY <1>0, <2>3, <3>1 DEF Resumed, PassRows
    <3> QED BY <1>0, <2>1, <3>2
  <2>4. RecoveredPlan(pollCursor) => planState[pass[p].bound] # "projecting"
                                     /\ planState[pollCursor.plan] # "projecting"
    BY <2>2 DEF RecoveredPlan, LivePlan, ClaimedFor
  <2>5. \/ UNCHANGED <<pollCursor, asked>> \/ (\E b : Resumed(p, b))
        \/ ToTerminal(p, Nobody, {}, FALSE)
    BY <1>4, <2>4 DEF Resume, Recover
  <2>6. pass[p].pc \notin Deciding
    BY <2>1 DEF Deciding
  <2>7. ToTerminal(p, Nobody, {}, FALSE) => Advances(p)
    BY <2>6, OwingAdvances DEF ToTerminal, Deciding
  <2> QED BY <2>1, <2>2, <2>3, <2>5, <2>7 DEF HolderStep
<1>5. CASE ResolveFailed(p)
  <2>1. /\ HoldsLease(p) /\ UNCHANGED asked /\ pass[p].pc = "failing" /\ pass[p].plan = Nobody
        /\ PassGoes(p, [pass[p] EXCEPT !.plan = pass[p].bound])
        /\ pollCursor' = IF HasCandidate(pollCursor, MaxPollFailures)
                           THEN Resolved(pollCursor) ELSE pollCursor
    BY <1>5 DEF ResolveFailed, PassAt
  <2>2. CASE ~HasCandidate(pollCursor, MaxPollFailures)
    BY <2>1, <2>2 DEF HolderStep
  <2>3. CASE HasCandidate(pollCursor, MaxPollFailures)
    <3>1. pass[p].bound # Nobody
      BY <2>1, <2>3, KnownOf DEF Backed, HasCandidate, ClaimedFor
    <3>2. [pass[p] EXCEPT !.plan = pass[p].bound].plan # pass[p].plan
      BY <1>0, <2>1, <3>1 DEF PassRows
    <3>3. Advances(p)
      BY <2>1, <3>2 DEF PassGoes, Advances
    <3> QED BY <2>1, <2>3, <3>3 DEF HolderStep, HasCandidate, PollPaused
  <2> QED BY <2>2, <2>3
<1>6. CASE ConsumeEligibility(p)
  <2>1. /\ HoldsLease(p) /\ pass[p].pc = "consume"
        /\ PassGoes(p, [pass[p] EXCEPT !.pc = "terminal"])
        /\ pollCursor' = Consumed(pollCursor)
    BY <1>6 DEF ConsumeEligibility, PassAt
  <2>2. [pass[p] EXCEPT !.pc = "terminal"].pc = "terminal"
    BY <1>0 DEF PassRows
  <2>3. Advances(p)
    BY <1>0, <2>1, <2>2
  <2> QED BY <2>1, <2>3, KnownOf, ConsumedRow DEF HolderStep
<1> QED BY <1>1, <1>2, <1>3, <1>4, <1>5, <1>6 DEF AdmissionStep

\* So is the work of a pass, but for the human decisions it routes.
LEMMA WorkOfHolder ==
    ASSUME PollInv, NEW p \in Passes, WorkStep(p)
    PROVE  HolderStep(p) \/ RouteDecision(p)
<1>1. CASE \/ RouteAnswers(p) \/ HandOver(p) \/ BeginBootstrap(p) \/ Reconcile(p)
           \/ FinishBootstrap(p) \/ SkipBootstrap(p) \/ ProjectInbox(p)
           \/ \E v \in PlanIds : PollFreezes(p, v) \/ PollDelivers(p, v)
  BY <1>1 DEF HolderStep, RouteAnswers, HandOver, BeginBootstrap, Reconcile, FinishBootstrap,
              SkipBootstrap, ProjectInbox, PollFreezes, PollDelivers
<1>2. CASE Dispatched(p) \/ InboxConflicts(p) \/ RecordSuccess(p)
  <2>1. HoldsLease(p) /\ pass[p].pc \in Working
    BY <1>2 DEF Dispatched, InboxConflicts, RecordSuccess, PassAt, Working
  <2>2. ~PollPaused(pollCursor)
    BY <2>1, KnownOf DEF Backed, WithinBudget
  <2>3. pass[p].pc \notin Deciding \cup {"idle"}
    BY <2>1 DEF Working, Deciding
  <2>4. EndPass(p) => HolderStep(p)
    BY <2>1, <2>2, <2>3, EndAdvances DEF HolderStep
  <2>5. CASE Dispatched(p) \/ RecordSuccess(p)
    <3>1. EndPass(p) \/ UNCHANGED <<pollCursor, asked>>
      BY <2>5 DEF Dispatched, RecordSuccess
    <3> QED BY <2>4, <3>1 DEF HolderStep
  <2>6. CASE InboxConflicts(p)
    <3>1. CASE RecordFailure(p, "transient", "conflict", pass[p].bound, {}, FALSE)
      <4>1. pass[p].bound \in PlanIds \cup {Nobody} /\ {} \in SUBSET PlanIds
            /\ "transient" \in Outcomes
        BY KnownOf DEF PassRows, Outcomes
      <4> QED BY <2>3, <3>1, <4>1, FailureOfHolder
    <3> QED BY <2>4, <2>6, <3>1 DEF InboxConflicts
  <2> QED BY <1>2, <2>5, <2>6
<1> QED BY <1>1, <1>2 DEF WorkStep

\* And so is every failure.
LEMMA FailureStepOfHolder ==
    ASSUME PollInv, NEW p \in Passes, FailureStep(p)
    PROVE  HolderStep(p)
<1>0. /\ pass[p].plan \in PlanIds \cup {Nobody} /\ pass[p].attempted \in SUBSET PlanIds
      /\ {} \in SUBSET PlanIds /\ pollCursor.plan \in PlanIds \cup {Nobody}
  BY KnownOf DEF PassRows, CursorRows
<1>1. PICK o \in Outcomes :
        \/ RecordAdmissionFailure(p, o) \/ RecordFailed(p, o)
        \/ RouteFails(p, o) \/ BootstrapFails(p, o) \/ DispatchFails(p, o)
        \/ InboxFails(p, o) \/ PollFails(p, o)
  BY DEF FailureStep
<1>2. ASSUME NEW a \in SUBSET PlanIds, RecordFailure(p, o, "none", Nobody, a, FALSE),
             pass[p].pc \notin Deciding \cup {"idle"}
      PROVE  HolderStep(p)
  BY <1>2, FailureOfHolder
<1>9. pass[p].pc \notin Deciding \cup {"idle"}
  BY <1>1 DEF RecordAdmissionFailure, RecordFailed, RouteFails, BootstrapFails, DispatchFails,
              InboxFails, PollFails, Bootstraps, PassAt, Deciding
<1>3. CASE RecordAdmissionFailure(p, o)
  <2>1. CASE UNCHANGED <<pollCursor, asked>>
    BY <2>1 DEF HolderStep
  <2>2. CASE RecordFailure(p, o, "conflict", pollCursor.plan, {}, FALSE)
    BY <1>0, <1>9, <2>2, FailureOfHolder
  <2>3. CASE RecordFailure(p, o, "none", Nobody, {}, FALSE)
    BY <1>0, <1>2, <1>9, <2>3
  <2> QED BY <1>3, <2>1, <2>2, <2>3 DEF RecordAdmissionFailure
<1>4. CASE RecordFailed(p, o) \/ DispatchFails(p, o)
  BY <1>0, <1>4, <1>9, BootstrapFailureOfHolder DEF RecordFailed, DispatchFails
<1>5. CASE RouteFails(p, o)
  <2>1. CASE UNCHANGED <<pollCursor, asked>>
    BY <2>1 DEF HolderStep
  <2>2. CASE RecordFailure(p, o, "none", Nobody, pass[p].attempted, FALSE)
    BY <1>0, <1>2, <1>9, <2>2
  <2> QED BY <1>5, <2>1, <2>2 DEF RouteFails
<1>6. CASE BootstrapFails(p, o)
  <2>1. CASE UNCHANGED <<pollCursor, asked>>
    BY <2>1 DEF HolderStep
  <2>2. CASE RecordBootstrapFailure(p, o, pass[p].plan)
    BY <1>0, <1>9, <2>2, BootstrapFailureOfHolder
  <2> QED BY <1>6, <2>1, <2>2 DEF BootstrapFails
<1>7. CASE InboxFails(p, o) \/ PollFails(p, o)
  BY <1>0, <1>2, <1>7, <1>9 DEF InboxFails, PollFails
<1> QED BY <1>1, <1>3, <1>4, <1>5, <1>6, <1>7

\* A change of the cursor outside the steps of the holder is a terminal
\* decision, a routed one or a local one.
LEMMA ChangeOfCursor ==
    ASSUME PollInv, [PollNext]_pollVars
    PROVE  \/ UNCHANGED <<pollCursor, asked>>
           \/ \E p \in Passes : HolderStep(p) \/ TerminalFailure(p) \/ RouteDecision(p)
           \/ LocalDecision
<1>1. CASE UNCHANGED pollVars
  BY <1>1 DEF pollVars
<1>2. CASE PollNext
  BY <1>2, AdmissionOfHolder, WorkOfHolder, FailureStepOfHolder DEF PollNext, LeaseLapses
<1> QED BY <1>1, <1>2

\* While a lease is live nobody but its holder changes the cursor or the open
\* questions, in a step of its pass or in an answer that it routes, and nobody
\* changes them on a lease it outlived.
THEOREM CursorIsFenced == PollSpec => CursorFence
<1> DEFINE Fence ==
             <<pollCursor, asked>>' # <<pollCursor, asked>> =>
                LET h == pollLease.holder
                IN  IF LeaseFree THEN pass' = pass /\ pollLease'.holder = Nobody
                    ELSE /\ \A p \in Passes \ {h} : pass'[p] = pass[p]
                         /\ \/ pass'[h] # pass[h]
                            \/ pass[h].pc \in {"paused", "route"} /\ UNCHANGED pollLease
<1>1. PollInv /\ [PollNext]_pollVars => [Fence]_pollVars
  <2> SUFFICES ASSUME PollInv, [PollNext]_pollVars PROVE Fence
    OBVIOUS
  <2>1. ASSUME NEW p \in Passes, HoldsLease(p), Advances(p)
        PROVE  Fence
    <3>1. ~LeaseFree /\ pollLease.holder = p
      BY <2>1, OneHolder DEF PollInv, HoldsLease
    <3>2. pass'[p] # pass[p] /\ \A q \in Passes : q # p => pass'[q] = pass[q]
      BY <2>1 DEF Advances, PollInv, PollTypes
    <3> QED BY <3>1, <3>2
  <2>2. ASSUME NEW p \in Passes, TerminalFailure(p)
        PROVE  HoldsLease(p) /\ Advances(p)
    <3>1. HoldsLease(p) /\ pass[p].pc = "terminal"
          /\ \/ EndPass(p)
             \/ PassGoes(p, [OffDuty EXCEPT !.pc = "route", !.bound = pass[p].bound])
      BY <2>2 DEF TerminalFailure, PassAt
    <3>2. [OffDuty EXCEPT !.pc = "route", !.bound = pass[p].bound].pc = "route"
      BY DEF OffDuty
    <3> QED BY <3>1, <3>2, EndAdvances, GoAdvances
  <2>3. ASSUME NEW p \in Passes, RouteDecision(p) PROVE Fence
    <3>1. /\ ~LeaseFree /\ pollLease.holder = p /\ pass' = pass /\ UNCHANGED pollLease
          /\ pass[p].pc \in {"paused", "route"}
      BY <2>3, OneHolder DEF PollInv, RouteDecision, PassAt, HoldsLease
    <3> QED BY <3>1
  <2>4. CASE LocalDecision
    BY <2>4 DEF LocalDecision
  <2>5. CASE UNCHANGED <<pollCursor, asked>>
    BY <2>5
  <2> QED BY <2>1, <2>2, <2>3, <2>4, <2>5, ChangeOfCursor DEF HolderStep
<1> QED BY <1>1, PollInvariant, PTL DEF PollSpec, CursorFence

\* A pause is lifted by the answer to an open poll question, by the decision
\* about a version whose pull request was closed, or because all that the
\* failure was about is completed.
THEOREM PauseLastsUntilDecided == PollSpec => PauseIsSticky
<1> DEFINE Sticky ==
             PollPaused(pollCursor) /\ ~PollPaused(pollCursor)' =>
                \/ \E v \in asked : v \notin asked'
                \/ \E v \in impact : v \notin impact'
                \/ \E p \in Passes :
                      PassAt(p, "terminal") /\ AllCompleted(TerminalAttempts(pass[p]))
<1>1. PollInv /\ [PollNext]_pollVars => [Sticky]_pollVars
  <2> SUFFICES ASSUME PollInv, [PollNext]_pollVars,
                      PollPaused(pollCursor), ~PollPaused(pollCursor')
               PROVE  Sticky
    BY DEF PollPaused
  <2>1. ~UNCHANGED pollCursor
    BY DEF PollPaused
  <2>2. ASSUME Decide PROVE Sticky
    <3>1. PICK v \in PlanIds : \/ RetryPoll(v) \/ CancelPlan(v) \/ Unfreeze(v)
                               \/ \E w \in PlanIds : ReplacePlan(v, w) \/ Amend(v, w)
      BY <2>2 DEF Decide
    <3>2. CASE RetryPoll(v)
      BY <3>2 DEF RetryPoll
    <3>3. ImpactAnswered(v) => v \in impact /\ v \notin impact'
      BY DEF ImpactAnswered
    <3>4. CASE CancelPlan(v) \/ \E w \in PlanIds : ReplacePlan(v, w)
      BY <3>3, <3>4 DEF CancelPlan, ReplacePlan
    <3> QED BY <2>1, <3>1, <3>2, <3>4 DEF Unfreeze, Amend
  <2>3. ASSUME NEW p \in Passes, TerminalFailure(p) PROVE Sticky
    <3>1. HoldsLease(p) /\ pass[p].pc = "terminal" /\ ResolveTerminal(pass[p])
      BY <2>3 DEF TerminalFailure, PassAt
    <3>2. ~pass[p].retry
      BY <3>1, KnownOf DEF Backed, Deciding
    <3>3. CASE AllCompleted(TerminalAttempts(pass[p]))
      BY <3>1, <3>3 DEF PassAt
    <3>4. CASE ~AllCompleted(TerminalAttempts(pass[p]))
      <4>1. pollCursor' = Unrecoverable(pollCursor, TerminalPlan(pass[p]))
        BY <3>1, <3>2, <3>4 DEF ResolveTerminal
      <4>2. TerminalPlan(pass[p]) \in PlanIds \cup {Nobody}
        BY KnownOf DEF TerminalPlan, PassRows, CursorRows
      <4> QED BY <4>1, <4>2, KnownOf, UnrecoverableRow
    <3> QED BY <3>3, <3>4
  <2> QED BY <2>1, <2>2, <2>3, ChangeOfCursor DEF HolderStep, RouteDecision, LocalDecision
<1> QED BY <1>1, PollInvariant, PTL DEF PollSpec, PauseIsSticky
=============================================================================
