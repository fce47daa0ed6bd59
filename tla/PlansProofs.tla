----------------------------- MODULE PlansProofs -----------------------------
(* Proofs about Plans.tla, for any plans on GitHub, any amendments that       *)
(* agents may propose and any limit of parallel runs: the types, what a run,  *)
(* a pause, a freeze, a question and a completed plan may rely on, that what  *)
(* was merged stays merged, and that the plans take turns.                    *)
EXTENDS Plans, TLAPS, WellFoundedInduction

-----------------------------------------------------------------------------
(* The inductive invariant.                                                 *)

RowType(v) == [state : {"projecting", "active"},
               terminal : {"none", "completed", "cancelled"},
               frozen : v.tickets \cup {Nil},
               ticket : [v.tickets -> Ticket]]

\* What a ticket may be, given the row it is in: a live run is the run of a
\* running ticket, and in a frozen plan the retry of a delivery; nothing of a
\* plan that is over runs or waits for a review, and a completed one is
\* delivered.
TicketOK(row, rec) ==
    /\ rec.run # "none" => /\ rec.state = "running"
                           /\ row.frozen = Nil \/ rec.run = "delivery"
    /\ row.terminal # "none" =>
          rec.state \in {"delivered", "cancelled", "needs_attention"}
    /\ row.terminal = "completed" => rec.state = "delivered"
    /\ row.state = "projecting" => rec = FreshTicket

\* A version that is still projecting was never worked on, and the ticket that
\* froze a plan is not delivered.
RowOK(v, row) ==
    /\ row \in RowType(v)
    /\ row.state = "projecting" => row.terminal = "none" /\ row.frozen = Nil
    /\ row.frozen # Nil => row.ticket[row.frozen].state # "delivered"
    /\ \A t \in v.tickets : TicketOK(row, row.ticket[t])

LiveRow(row) == \E t \in DOMAIN row.ticket : row.ticket[t].run # "none"

\* Every version belongs to a root that has a current one; only the current
\* version has live runs.
VersionsOK ==
    \A v \in DOMAIN versions :
        /\ v \in VersionsOf(setting) /\ Current(v.root) # Nil
        /\ RowOK(v, versions[v])
        /\ LiveRow(versions[v]) => IsCurrent(v)

CurrentOK ==
    /\ plans \in [Roots -> [current : VersionsOf(setting) \cup {Nil},
                            state : {"none", "projecting", "active"}]]
    /\ \A r \in Roots : Current(r) # Nil =>
          /\ Current(r) \in DOMAIN versions /\ Current(r).root = r
          /\ plans[r].state = versions[Current(r)].state

PassType == [at : {"answers", "activate", "project", "mark", "retry", "dispatch", "poll"},
             root : Roots \cup {0},
             todo : SUBSET (VersionsOf(setting) \X TicketsOf(setting)),
             after : {"poll", "end"}]

\* The activation that a pass is in the middle of.
ControlOK ==
    /\ control \in PassType
    /\ control.at = "activate" => control.root \in Roots
    /\ control.at \in {"project", "mark"} =>
          /\ control.root \in Roots /\ Current(control.root) # Nil
          /\ versions[Current(control.root)].state = "projecting"
    /\ control.at = "mark" => Current(control.root) \in announced

ActiveVersion(v) == v \in DOMAIN versions /\ versions[v].state = "active"

\* The lists of pull requests that the poll and the reconcile-delivered process
\* go through may be stale, but never name a version that was not activated.
ListsOK ==
    /\ reconciling \subseteq VersionsOf(setting) \X TicketsOf(setting)
    /\ \A s \in control.todo \cup reconciling :
          ActiveVersion(s[1]) /\ s[2] \in s[1].tickets

\* A ticket about which a human is asked waits for the answer.
QuestionsOK ==
    \A q \in questions :
        /\ q = Question(q.kind, q.version, q.ticket)
        /\ ActiveVersion(q.version) /\ q.ticket \in q.version.tickets
        /\ q.kind = "attention" /\ CurrentActive(q.version) =>
              At(q.version, q.ticket).state = "needs_attention"

HandoffOK ==
    \A v \in DOMAIN handoff :
        /\ handoff[v] \in [state : {"approved", "active"}, target : DOMAIN versions]
        /\ ActiveVersion(v) /\ handoff[v].target # v

\* A proposal affects the ticket that made it and whatever it drops.
ProposalsOK ==
    /\ \A p \in proposals :
          /\ ActiveVersion(p.version)
          /\ p.target \in VersionsOf(setting) /\ p.target.from = "amendment"
          /\ p.target.root = p.version.root
          /\ p.ticket \in p.affected /\ p.affected \subseteq p.version.tickets
          /\ p.version.tickets \ p.target.tickets \subseteq p.affected
    /\ \A p, q \in proposals :
          IsCurrent(p.version) /\ p.version = q.version /\ p.ticket = q.ticket => p = q

\* PausedIsIdle, proposal by proposal.
PausesOK ==
    \A p \in proposals : IsCurrent(p.version) =>
        \A t \in p.affected : At(p.version, t).run \in {"none", "delivery"}

PlansInv ==
    /\ setting \in Settings /\ cursor \in Roots \cup {0}
    /\ VersionsOK /\ CurrentOK /\ ControlOK /\ ListsOK
    /\ QuestionsOK /\ HandoffOK /\ ProposalsOK /\ PausesOK
    /\ ActivatedIsShown /\ StoppedIsAskable

-----------------------------------------------------------------------------
(* What most steps leave as it was.                                         *)

\* Versions are never removed, and an activated one stays activated.
Grows ==
    /\ setting' = setting
    /\ \A v \in DOMAIN versions :
          v \in DOMAIN versions' /\ (ActiveVersion(v) => ActiveVersion(v)')

StatesKept == \A v \in DOMAIN versions : versions'[v].state = versions[v].state

\* What was merged stays merged, in a row and in every row.
Keeps(row, new) ==
    \A t \in DOMAIN row.ticket :
        row.ticket[t].state = "delivered" => new.ticket[t].state = "delivered"
KeepsDelivered == \A v \in DOMAIN versions : Keeps(versions[v], versions'[v])

\* The parts of the invariant about the rows and what is recorded of them; the
\* others are about the passes that are under way.
RecordsOK ==
    /\ VersionsOK /\ CurrentOK /\ QuestionsOK /\ ProposalsOK /\ PausesOK
    /\ ActivatedIsShown /\ StoppedIsAskable

\* An atomic step that touches no row keeps everything that is recorded.
LEMMA RecordsKept ==
    ASSUME RecordsOK,
           UNCHANGED <<setting, plans, versions, proposals, questions>>,
           announced \subseteq announced'
    PROVE  RecordsOK' /\ Grows /\ StatesKept /\ KeepsDelivered
<1>1. VersionsOK' /\ CurrentOK'
  BY DEF RecordsOK, VersionsOK, CurrentOK, Roots, Current, IsCurrent
<1>2. ProposalsOK' /\ PausesOK'
  BY DEF RecordsOK, ProposalsOK, PausesOK, IsCurrent, At, ActiveVersion
<1>3. ActivatedIsShown'
  BY DEF RecordsOK, ActivatedIsShown
<1>4. StoppedIsAskable'
  BY DEF RecordsOK, StoppedIsAskable, CurrentActive, IsCurrent, Unfrozen, At
<1>5. QuestionsOK'
  BY DEF RecordsOK, QuestionsOK, ActiveVersion, CurrentActive, IsCurrent, At
<1>6. Grows /\ StatesKept /\ KeepsDelivered
  BY DEF Grows, ActiveVersion, StatesKept, KeepsDelivered, Keeps
<1> QED BY <1>1, <1>2, <1>3, <1>4, <1>5, <1>6 DEF RecordsOK

\* Lists only shrink until they are read anew, and a stale list stays one of
\* activated versions.
LEMMA ListsKept ==
    ASSUME ListsOK, Grows, reconciling' \subseteq reconciling,
           control'.todo \subseteq control.todo
    PROVE  ListsOK'
<1>1. ASSUME NEW s \in control'.todo \cup reconciling'
      PROVE  ActiveVersion(s[1])' /\ s[2] \in s[1].tickets
  <2>1. ActiveVersion(s[1]) /\ s[2] \in s[1].tickets
    BY DEF ListsOK
  <2> QED BY <2>1 DEF Grows, ActiveVersion
<1>2. reconciling' \subseteq VersionsOf(setting') \X TicketsOf(setting')
  BY DEF ListsOK, Grows
<1> QED BY <1>1, <1>2 DEF ListsOK

\* A handoff names versions that stay.
LEMMA HandoffKept ==
    ASSUME HandoffOK, Grows, UNCHANGED handoff
    PROVE  HandoffOK'
<1> SUFFICES ASSUME NEW v \in DOMAIN handoff
             PROVE  /\ handoff[v] \in [state : {"approved", "active"},
                                       target : DOMAIN versions']
                    /\ ActiveVersion(v)' /\ handoff[v].target # v
  BY DEF HandoffOK
<1>1. /\ handoff[v] \in [state : {"approved", "active"}, target : DOMAIN versions]
      /\ ActiveVersion(v) /\ handoff[v].target # v
  BY DEF HandoffOK
<1>2. DOMAIN versions \subseteq DOMAIN versions'
  BY DEF Grows
<1> QED BY <1>1, <1>2 DEF Grows, ActiveVersion

\* What stops a plan with this row is asked, and only that.
AsksFor(v, row, open, pending) ==
    /\ row.frozen # Nil => Question("attention", v, row.frozen) \in open
    /\ \A t \in v.tickets : row.ticket[t].state = "needs_attention" <=>
          Question("attention", v, t) \in open
    /\ \A p \in pending : p.version = v => Question("amendment", v, p.ticket) \in open

\* A current active plan asks for what stops it.
LEMMA ActiveAsks ==
    ASSUME RecordsOK, NEW v \in DOMAIN versions, CurrentActive(v)
    PROVE  AsksFor(v, versions[v], questions, proposals)
<1>1. \A u \in v.tickets : Question("attention", v, u) \in questions =>
         versions[v].ticket[u].state = "needs_attention"
  BY DEF RecordsOK, QuestionsOK, Question, At
<1> QED BY <1>1 DEF RecordsOK, StoppedIsAskable, Unfrozen, At, AsksFor

\* A step on one row: the row stays well formed in its version and in the
\* state of its activation, its live runs belong to the current version, and
\* what stops the plan is asked.
LEMMA RowWritten ==
    ASSUME RecordsOK, NEW v \in DOMAIN versions, NEW row,
           versions' = [versions EXCEPT ![v] = row],
           UNCHANGED <<setting, plans, announced>>,
           RowOK(v, row), row.state = "active", versions[v].state = "active",
           LiveRow(row) => IsCurrent(v), Keeps(versions[v], row),
           row.terminal = "none" => versions[v].terminal = "none",
           \A p \in proposals' : p \in proposals \/ p.version = v,
           \A q \in questions' : \/ q \in questions
                                 \/ \E t \in v.tickets : \E k \in {"attention", "impact", "amendment"} :
                                       q = Question(k, v, t),
           \A q \in questions : q.version # v => q \in questions',
           CurrentActive(v) /\ row.terminal = "none" => AsksFor(v, row, questions', proposals')
    PROVE  /\ VersionsOK' /\ CurrentOK' /\ QuestionsOK' /\ ActivatedIsShown'
           /\ StoppedIsAskable' /\ Grows /\ StatesKept /\ KeepsDelivered
<1>1. /\ DOMAIN versions' = DOMAIN versions /\ versions'[v] = row
      /\ \A w \in DOMAIN versions : w # v => versions'[w] = versions[w]
  OBVIOUS
<1>2. \A w \in DOMAIN versions : versions'[w].state = versions[w].state
  BY <1>1
<1>3. Grows
  BY <1>1, <1>2 DEF Grows, ActiveVersion
<1>4. VersionsOK'
  <2> SUFFICES ASSUME NEW w \in DOMAIN versions
               PROVE  /\ w \in VersionsOf(setting) /\ Current(w.root) # Nil
                      /\ RowOK(w, versions'[w])
                      /\ LiveRow(versions'[w]) => IsCurrent(w)
    BY <1>1 DEF VersionsOK, Current, IsCurrent
  <2>1. /\ w \in VersionsOf(setting) /\ Current(w.root) # Nil
        /\ RowOK(w, versions[w]) /\ (LiveRow(versions[w]) => IsCurrent(w))
    BY DEF RecordsOK, VersionsOK
  <2>2. CASE w = v
    BY <2>1, <2>2, <1>1
  <2>3. CASE w # v
    BY <2>1, <2>3, <1>1
  <2> QED BY <2>2, <2>3
<1>5. CurrentOK'
  BY <1>1, <1>2 DEF RecordsOK, CurrentOK, Roots, Current
<1>6. QuestionsOK'
  <2> SUFFICES ASSUME NEW q \in questions'
               PROVE  /\ q = Question(q.kind, q.version, q.ticket)
                      /\ ActiveVersion(q.version)' /\ q.ticket \in q.version.tickets
                      /\ q.kind = "attention" /\ CurrentActive(q.version)' =>
                            versions'[q.version].ticket[q.ticket].state = "needs_attention"
    BY DEF QuestionsOK, At
  <2>1. /\ q = Question(q.kind, q.version, q.ticket)
        /\ ActiveVersion(q.version) /\ q.ticket \in q.version.tickets
    <3>1. CASE q \in questions
      BY <3>1 DEF RecordsOK, QuestionsOK
    <3>2. CASE q \notin questions
      <4>1. PICK t \in v.tickets, k \in {"attention", "impact", "amendment"} :
               q = Question(k, v, t)
        BY <3>2
      <4> QED BY <4>1 DEF Question, ActiveVersion
    <3> QED BY <3>1, <3>2
  <2>2. ActiveVersion(q.version)'
    BY <2>1, <1>3 DEF Grows, ActiveVersion
  <2>3. ASSUME q.kind = "attention", CurrentActive(q.version)'
        PROVE  versions'[q.version].ticket[q.ticket].state = "needs_attention"
    <3>1. CurrentActive(q.version)
      <4>1. versions'[q.version].terminal = "none" => versions[q.version].terminal = "none"
        BY <1>1, <2>1 DEF ActiveVersion
      <4> QED BY <1>2, <2>1, <2>3, <4>1 DEF CurrentActive, IsCurrent, ActiveVersion
    <3>2. CASE q.version = v
      <4>1. row.terminal = "none"
        BY <2>3, <3>2, <1>1 DEF CurrentActive
      <4>2. q = Question("attention", v, q.ticket) /\ q.ticket \in v.tickets
        BY <2>1, <2>3, <3>2
      <4>3. AsksFor(v, row, questions', proposals')
        BY <3>1, <3>2, <4>1
      <4>4. row.ticket[q.ticket].state = "needs_attention"
        BY <4>2, <4>3 DEF AsksFor
      <4> QED BY <3>2, <4>4, <1>1
    <3>3. CASE q.version # v
      <4>1. q \in questions
        BY <3>3 DEF Question
      <4>2. At(q.version, q.ticket).state = "needs_attention"
        BY <2>3, <3>1, <4>1 DEF RecordsOK, QuestionsOK
      <4>3. versions'[q.version] = versions[q.version]
        BY <2>1, <3>3, <1>1 DEF ActiveVersion
      <4> QED BY <4>2, <4>3 DEF At
    <3> QED BY <3>2, <3>3
  <2> QED BY <2>1, <2>2, <2>3
<1>7. ActivatedIsShown'
  BY <1>1, <1>2 DEF RecordsOK, ActivatedIsShown
<1>8. StoppedIsAskable'
  <2> SUFFICES ASSUME NEW w \in DOMAIN versions, CurrentActive(w)'
               PROVE  /\ versions'[w].frozen # Nil =>
                            Question("attention", w, versions'[w].frozen) \in questions'
                      /\ \A t \in w.tickets : versions'[w].ticket[t].state = "needs_attention" =>
                            Question("attention", w, t) \in questions'
                      /\ \A p \in proposals' : p.version = w =>
                            Question("amendment", w, p.ticket) \in questions'
    BY <1>1 DEF StoppedIsAskable, Unfrozen, At
  <2>1. CurrentActive(w)
    <3>1. versions'[w].terminal = "none" => versions[w].terminal = "none"
      BY <1>1
    <3> QED BY <1>2, <3>1 DEF CurrentActive, IsCurrent
  <2>2. CASE w = v
    <3>1. row.terminal = "none"
      BY <2>2, <1>1 DEF CurrentActive
    <3> QED BY <2>1, <2>2, <3>1, <1>1 DEF AsksFor
  <2>3. CASE w # v
    <3>1. versions'[w] = versions[w]
      BY <2>3, <1>1
    <3>2. \A k, t : Question(k, w, t) \in questions => Question(k, w, t) \in questions'
      <4> TAKE k, t
      <4>1. Question(k, w, t).version # v
        BY <2>3 DEF Question
      <4> QED BY <4>1
    <3>3. /\ versions[w].frozen # Nil =>
                Question("attention", w, versions[w].frozen) \in questions
          /\ \A t \in w.tickets : versions[w].ticket[t].state = "needs_attention" =>
                Question("attention", w, t) \in questions
          /\ \A p \in proposals : p.version = w =>
                Question("amendment", w, p.ticket) \in questions
      BY <2>1 DEF RecordsOK, StoppedIsAskable, Unfrozen, At
    <3>4. \A p \in proposals' : p.version = w => p \in proposals
      BY <2>3
    <3> QED BY <3>1, <3>2, <3>3, <3>4
  <2> QED BY <2>2, <2>3
<1>9. StatesKept /\ KeepsDelivered
  BY <1>1, <1>2 DEF StatesKept, KeepsDelivered, Keeps
<1> QED BY <1>3, <1>4, <1>5, <1>6, <1>7, <1>8, <1>9

\* A step on one row that leaves the proposals alone and takes up no ticket
\* that one of them affects.
LEMMA RowStep ==
    ASSUME RecordsOK, NEW v \in DOMAIN versions, NEW row,
           versions' = [versions EXCEPT ![v] = row],
           UNCHANGED <<setting, plans, proposals, announced>>,
           RowOK(v, row), row.state = "active", versions[v].state = "active",
           LiveRow(row) => IsCurrent(v), Keeps(versions[v], row),
           row.terminal = "none" => versions[v].terminal = "none",
           \A p \in proposals, t \in v.tickets :
              p.version = v /\ t \in p.affected =>
                 row.ticket[t].run \in {"none", "delivery", versions[v].ticket[t].run},
           \A q \in questions' : \/ q \in questions
                                 \/ \E t \in v.tickets : \E k \in {"attention", "impact", "amendment"} :
                                       q = Question(k, v, t),
           \A q \in questions : q.version # v => q \in questions',
           CurrentActive(v) /\ row.terminal = "none" => AsksFor(v, row, questions', proposals)
    PROVE  RecordsOK' /\ Grows /\ StatesKept /\ KeepsDelivered
<1>1. /\ VersionsOK' /\ CurrentOK' /\ QuestionsOK' /\ ActivatedIsShown'
      /\ StoppedIsAskable' /\ Grows /\ StatesKept /\ KeepsDelivered
  BY RowWritten
<1>2. /\ DOMAIN versions' = DOMAIN versions /\ versions'[v] = row
      /\ \A w \in DOMAIN versions : w # v => versions'[w] = versions[w]
  OBVIOUS
<1>3. ProposalsOK'
  <2>1. \A p \in proposals : ActiveVersion(p.version)'
    BY <1>1 DEF RecordsOK, ProposalsOK, Grows, ActiveVersion
  <2> QED BY <2>1 DEF RecordsOK, ProposalsOK, IsCurrent
<1>4. PausesOK'
  <2> SUFFICES ASSUME NEW p \in proposals, IsCurrent(p.version), NEW t \in p.affected
               PROVE  versions'[p.version].ticket[t].run \in {"none", "delivery"}
    BY DEF PausesOK, IsCurrent, At
  <2>1. /\ p.version \in DOMAIN versions /\ t \in p.version.tickets
        /\ versions[p.version].ticket[t].run \in {"none", "delivery"}
    BY DEF RecordsOK, ProposalsOK, PausesOK, ActiveVersion, At
  <2>2. CASE p.version = v
    <3>1. versions'[v].ticket[t].run \in {"none", "delivery", versions[v].ticket[t].run}
      BY <2>1, <2>2, <1>2
    <3> QED BY <2>1, <2>2, <3>1
  <2>3. CASE p.version # v
    BY <2>1, <2>3, <1>2
  <2> QED BY <2>2, <2>3
<1> QED BY <1>1, <1>3, <1>4 DEF RecordsOK

-----------------------------------------------------------------------------
(* What the operations do to a row.                                         *)

\* The fields of a row, for the steps that assign one of them.
LEMMA RowFields ==
    ASSUME NEW v, NEW row \in RowType(v)
    PROVE  /\ DOMAIN row.ticket = v.tickets /\ \A t \in v.tickets : row.ticket[t] \in Ticket
           /\ \A x \in v.tickets \cup {Nil} : [row EXCEPT !.frozen = x] \in RowType(v)
           /\ \A x \in {"none", "completed", "cancelled"} :
                 [row EXCEPT !.terminal = x] \in RowType(v)
           /\ \A x \in {"projecting", "active"} : [row EXCEPT !.state = x] \in RowType(v)
           /\ \A f \in [v.tickets -> Ticket] : [row EXCEPT !.ticket = f] \in RowType(v)
  BY DEF RowType

\* One ticket changes, and stays one that its row may have.
LEMMA TicketSet ==
    ASSUME NEW v, NEW row, RowOK(v, row), NEW t \in v.tickets, NEW rec \in Ticket,
           TicketOK(row, rec), row.frozen = t /\ t # Nil => rec.state # "delivered",
           row.ticket[t].state # "delivered"
    PROVE  LET new == [row EXCEPT !.ticket = [@ EXCEPT ![t] = rec]]
           IN  /\ RowOK(v, new) /\ Keeps(row, new)
               /\ new.state = row.state /\ new.terminal = row.terminal
               /\ new.frozen = row.frozen
               /\ new.ticket = [row.ticket EXCEPT ![t] = rec]
<1> DEFINE f == [row.ticket EXCEPT ![t] = rec]
           new == [row EXCEPT !.ticket = f]
<1>1. row \in RowType(v) /\ row.ticket \in [v.tickets -> Ticket]
  BY DEF RowOK, RowType
<1>2. f \in [v.tickets -> Ticket]
  BY <1>1
<1>3. /\ new \in RowType(v) /\ new.ticket = f /\ new.state = row.state
      /\ new.terminal = row.terminal /\ new.frozen = row.frozen
  BY <1>1, <1>2, RowFields DEF RowType
<1>4. \A u \in v.tickets : f[u] = IF u = t THEN rec ELSE row.ticket[u]
  BY <1>1
<1> HIDE DEF f
<1>5. \A u \in v.tickets : TicketOK(new, new.ticket[u])
  BY <1>3, <1>4 DEF RowOK, TicketOK
<1>6. new.frozen # Nil => new.ticket[new.frozen].state # "delivered"
  BY <1>1, <1>3, <1>4 DEF RowOK, RowType
<1>7. RowOK(v, new)
  BY <1>3, <1>5, <1>6 DEF RowOK
<1>8. Keeps(row, new)
  BY <1>1, <1>3, <1>4 DEF Keeps
<1> QED BY <1>3, <1>7, <1>8 DEF f

\* A plan that is cancelled keeps what it delivered and has no live run.
LEMMA CancelledRow ==
    ASSUME NEW v, NEW row, RowOK(v, row), row.state = "active"
    PROVE  LET new == CancelPlan(row)
           IN  /\ RowOK(v, new) /\ Keeps(row, new) /\ ~LiveRow(new)
               /\ new.state = row.state /\ new.terminal # "none" /\ new.frozen = Nil
               /\ \A t \in v.tickets : new.ticket[t].run = "none"
<1> DEFINE new == CancelPlan(row)
<1>1. row \in RowType(v) /\ row.ticket \in [v.tickets -> Ticket]
  BY DEF RowOK, RowType
<1>2. PICK f : f = [t \in v.tickets |->
            [row.ticket[t] EXCEPT !.run = "none",
                !.state = IF @ = "delivered" THEN @ ELSE "cancelled"]]
  OBVIOUS
<1>3. \A t \in v.tickets :
         /\ f[t] \in Ticket /\ f[t].run = "none"
         /\ f[t].state = IF row.ticket[t].state = "delivered" THEN "delivered" ELSE "cancelled"
  <2> TAKE t \in v.tickets
  <2>1. row.ticket[t] \in Ticket
    BY <1>1
  <2>2. PICK x \in {"queued", "running", "waiting_review", "needs_attention",
                    "delivered", "cancelled"} :
           x = IF row.ticket[t].state = "delivered" THEN row.ticket[t].state ELSE "cancelled"
    BY <2>1 DEF Ticket
  <2>3. f[t] = [row.ticket[t] EXCEPT !.run = "none", !.state = x]
    BY <1>2, <2>2
  <2> QED BY <2>1, <2>2, <2>3 DEF Ticket
<1>4. f \in [v.tickets -> Ticket]
  BY <1>2, <1>3
<1>5. PICK x \in {"completed", "cancelled"} :
         x = IF row.terminal = "none" THEN "cancelled" ELSE row.terminal
  BY <1>1 DEF RowType
<1>6. new = [row EXCEPT !.terminal = x, !.frozen = Nil, !.ticket = f]
  <2>1. f = [t \in DOMAIN row.ticket |->
              [row.ticket[t] EXCEPT !.run = "none",
                  !.state = IF @ = "delivered" THEN @ ELSE "cancelled"]]
    BY <1>1, <1>2
  <2> QED BY <2>1, <1>5, Zenon DEF CancelPlan
<1>7. /\ new \in RowType(v) /\ new.ticket = f /\ new.state = row.state
      /\ new.terminal = x /\ new.frozen = Nil
  BY <1>1, <1>4, <1>6 DEF RowType
<1> HIDE DEF new
<1>8. x = "completed" => \A t \in v.tickets : f[t].state = "delivered"
  BY <1>3, <1>5 DEF RowOK, TicketOK
<1>9. \A t \in v.tickets : TicketOK(new, new.ticket[t])
  BY <1>3, <1>7, <1>8 DEF TicketOK
<1>10. RowOK(v, new)
  BY <1>7, <1>9 DEF RowOK
<1>11. Keeps(row, new) /\ ~LiveRow(new)
  BY <1>1, <1>3, <1>4, <1>7 DEF Keeps, LiveRow
<1> QED BY <1>3, <1>7, <1>10, <1>11 DEF new

\* The freeze that a ticket caused is lifted; nothing else changes.
LEMMA ThawedRow ==
    ASSUME NEW v, NEW row, RowOK(v, row), NEW t
    PROVE  LET new == [row EXCEPT !.frozen = Thawed(@, t)]
           IN  /\ RowOK(v, new) /\ new.state = row.state
               /\ new.terminal = row.terminal /\ new.ticket = row.ticket
               /\ new.frozen \in {Nil, row.frozen} /\ (new.frozen = t => t = Nil)
<1> DEFINE x == Thawed(row.frozen, t)
           new == [row EXCEPT !.frozen = x]
<1>1. /\ x \in {Nil, row.frozen} /\ (x = t => t = Nil)
      /\ row.frozen = Nil => x = Nil
  BY DEF Thawed
<1>2. row \in RowType(v) /\ x \in v.tickets \cup {Nil}
  BY <1>1 DEF RowOK, RowType
<1> HIDE DEF x
<1>3. /\ new \in RowType(v) /\ new.frozen = x /\ new.state = row.state
      /\ new.terminal = row.terminal /\ new.ticket = row.ticket
  BY <1>2 DEF RowType
<1>4. RowOK(v, new)
  BY <1>1, <1>3 DEF RowOK, TicketOK
<1> QED BY <1>1, <1>3, <1>4 DEF x

\* A plan is completed only with all its tickets delivered, and keeps them.
LEMMA CompletedRow ==
    ASSUME NEW v, NEW row, RowOK(v, row), row.state = "active"
    PROVE  LET new == MarkPlanCompleted(row)
           IN  /\ RowOK(v, new) /\ new.state = row.state
               /\ new.ticket = row.ticket /\ new.frozen = row.frozen
               /\ new.terminal = "none" => row.terminal = "none"
<1>1. row \in RowType(v)
  BY DEF RowOK
<1>2. CASE ~(Undelivered(row) = {} /\ LiveIn(row) = {} /\ row.terminal = "none")
  BY <1>2 DEF MarkPlanCompleted
<1>3. CASE Undelivered(row) = {} /\ LiveIn(row) = {} /\ row.terminal = "none"
  <2> DEFINE new == [row EXCEPT !.terminal = "completed"]
  <2>1. MarkPlanCompleted(row) = new
    BY <1>3 DEF MarkPlanCompleted
  <2>2. /\ new \in RowType(v) /\ new.state = row.state /\ new.ticket = row.ticket
        /\ new.frozen = row.frozen /\ new.terminal = "completed"
    BY <1>1 DEF RowType
  <2> HIDE DEF new
  <2>3. \A t \in v.tickets : row.ticket[t].state = "delivered" /\ row.ticket[t].run = "none"
    BY <1>1, <1>3 DEF Undelivered, LiveIn, RowType
  <2>4. \A t \in v.tickets : TicketOK(new, new.ticket[t])
    BY <2>2, <2>3 DEF TicketOK
  <2>5. RowOK(v, new)
    BY <2>2, <2>4 DEF RowOK
  <2> QED BY <1>3, <2>1, <2>2, <2>5
<1> QED BY <1>2, <1>3

ThawedOf(row, t) == [row EXCEPT !.frozen = Thawed(@, t)]
DeliveredOf(row, t) ==
    MarkPlanCompleted([ThawedOf(row, t) EXCEPT
        !.ticket[t] = [ThawedOf(row, t).ticket[t] EXCEPT !.state = "delivered",
                                                        !.run = "none"]])
RecoveredOf(row, t) ==
    [ThawedOf(row, t) EXCEPT !.ticket = [@ EXCEPT ![t] = Recovered(row.ticket[t])]]
FrozenOf(row, t) ==
    [row EXCEPT !.frozen = t,
                !.ticket = [u \in DOMAIN @ |->
                    IF u \in Undelivered(row) THEN AskAttention(@[u]) ELSE @[u]]]

\* The delivery of a ticket of an activated version.
LEMMA DeliveredRow ==
    ASSUME NEW v, NEW row, RowOK(v, row), row.state = "active", NEW t \in v.tickets,
           row.ticket[t].state # "delivered"
    PROVE  LET new == DeliveredOf(row, t)
           IN  /\ RowOK(v, new) /\ Keeps(row, new) /\ new.state = row.state
               /\ new.terminal = "none" => row.terminal = "none"
               /\ new.frozen \in {Nil, row.frozen} /\ (new.frozen = t => t = Nil)
               /\ new.ticket[t].run = "none" /\ new.ticket[t].state = "delivered"
               /\ \A u \in v.tickets : u # t => new.ticket[u] = row.ticket[u]
<1> DEFINE thawed == ThawedOf(row, t)
           rec == [thawed.ticket[t] EXCEPT !.state = "delivered", !.run = "none"]
           set == [thawed EXCEPT !.ticket[t] = rec]
           new == MarkPlanCompleted(set)
<1>1. /\ RowOK(v, thawed) /\ thawed.state = row.state
      /\ thawed.terminal = row.terminal /\ thawed.ticket = row.ticket
      /\ thawed.frozen \in {Nil, row.frozen} /\ (thawed.frozen = t => t = Nil)
  BY ThawedRow DEF ThawedOf
<1> HIDE DEF thawed
<1>2. row.ticket \in [v.tickets -> Ticket] /\ row.ticket[t] \in Ticket
  BY DEF RowOK, RowType
<1>3. rec \in Ticket /\ rec.state = "delivered" /\ rec.run = "none"
  BY <1>1, <1>2 DEF Ticket
<1> HIDE DEF rec
<1>4. TicketOK(thawed, rec)
  BY <1>1, <1>3 DEF TicketOK
<1>5. /\ RowOK(v, set) /\ set.state = thawed.state /\ set.terminal = thawed.terminal
      /\ set.frozen = thawed.frozen /\ set.ticket = [thawed.ticket EXCEPT ![t] = rec]
  BY <1>1, <1>3, <1>4, TicketSet
<1> HIDE DEF set
<1>6. /\ RowOK(v, new) /\ new.state = set.state
      /\ new.ticket = set.ticket /\ new.frozen = set.frozen
      /\ new.terminal = "none" => set.terminal = "none"
  BY <1>1, <1>5, CompletedRow
<1> HIDE DEF new
<1>7. \A u \in v.tickets : new.ticket[u] = IF u = t THEN rec ELSE row.ticket[u]
  BY <1>1, <1>2, <1>5, <1>6
<1>8. Keeps(row, new)
  BY <1>2, <1>3, <1>7 DEF Keeps
<1> QED BY <1>1, <1>3, <1>5, <1>6, <1>7, <1>8 DEF new, set, rec, thawed, DeliveredOf

\* A freeze stops every ticket that is not delivered.
LEMMA FrozenRow ==
    ASSUME NEW v, NEW row, RowOK(v, row), row.state = "active", row.frozen = Nil,
           NEW t \in Undelivered(row)
    PROVE  LET new == FrozenOf(row, t)
           IN  /\ RowOK(v, new) /\ Keeps(row, new) /\ new.state = row.state
               /\ new.terminal = row.terminal /\ new.frozen = t
               /\ \A u \in v.tickets :
                     /\ new.ticket[u].run = "none"
                     /\ new.ticket[u].state = "needs_attention" <=> u \in Undelivered(row)
<1>1. row \in RowType(v) /\ row.ticket \in [v.tickets -> Ticket]
  BY DEF RowOK, RowType
<1>2. PICK f : f = [u \in v.tickets |-> IF u \in Undelivered(row)
                        THEN AskAttention(row.ticket[u]) ELSE row.ticket[u]]
  OBVIOUS
<1>3. \A u \in v.tickets :
         /\ f[u] \in Ticket /\ f[u].run = "none"
         /\ u \in Undelivered(row) => f[u].state = "needs_attention"
         /\ u \notin Undelivered(row) => f[u].state = "delivered"
  <2> TAKE u \in v.tickets
  <2>1. row.ticket[u] \in Ticket
    BY <1>1
  <2>2. CASE u \in Undelivered(row)
    BY <2>1, <2>2, <1>2 DEF AskAttention, Ticket
  <2>3. CASE u \notin Undelivered(row)
    BY <2>1, <2>3, <1>1, <1>2 DEF Undelivered, RowOK, TicketOK
  <2> QED BY <2>2, <2>3
<1>4. f \in [v.tickets -> Ticket]
  BY <1>2, <1>3
<1> DEFINE new == [row EXCEPT !.frozen = t, !.ticket = f]
<1>5. t \in v.tickets
  BY <1>1 DEF Undelivered
<1>6. /\ new \in RowType(v) /\ new.ticket = f /\ new.state = row.state
      /\ new.terminal = row.terminal /\ new.frozen = t
  BY <1>1, <1>4, <1>5 DEF RowType
<1> HIDE DEF new
<1>7. row.terminal = "completed" => Undelivered(row) = {}
  BY <1>1 DEF RowOK, TicketOK, Undelivered
<1>8. \A u \in v.tickets : TicketOK(new, new.ticket[u])
  BY <1>3, <1>6, <1>7 DEF TicketOK
<1>9. RowOK(v, new)
  BY <1>3, <1>5, <1>6, <1>8 DEF RowOK
<1>10. Keeps(row, new)
  BY <1>1, <1>3, <1>6 DEF Keeps, Undelivered
<1>11. new = FrozenOf(row, t)
  BY <1>1, <1>2 DEF new, FrozenOf
<1> QED BY <1>3, <1>6, <1>9, <1>10, <1>11

\* An answered ticket is taken up again, to be worked on or to be delivered.
LEMMA RecoveredRow ==
    ASSUME NEW v, NEW row, RowOK(v, row), row.state = "active", row.terminal = "none",
           NEW t \in v.tickets, row.ticket[t].state = "needs_attention"
    PROVE  LET new == RecoveredOf(row, t)
           IN  /\ RowOK(v, new) /\ Keeps(row, new) /\ new.state = row.state
               /\ new.terminal = row.terminal
               /\ new.frozen \in {Nil, row.frozen} /\ (new.frozen = t => t = Nil)
               /\ new.ticket[t].run = "none" /\ new.ticket[t].state # "needs_attention"
               /\ \A u \in v.tickets : u # t => new.ticket[u] = row.ticket[u]
<1> DEFINE thawed == ThawedOf(row, t)
           rec == Recovered(row.ticket[t])
           new == [thawed EXCEPT !.ticket = [@ EXCEPT ![t] = rec]]
<1>1. /\ RowOK(v, thawed) /\ thawed.state = row.state
      /\ thawed.terminal = row.terminal /\ thawed.ticket = row.ticket
      /\ thawed.frozen \in {Nil, row.frozen} /\ (thawed.frozen = t => t = Nil)
  BY ThawedRow DEF ThawedOf
<1> HIDE DEF thawed
<1>2. row.ticket \in [v.tickets -> Ticket] /\ row.ticket[t] \in Ticket
      /\ row.ticket[t].run = "none"
  BY DEF RowOK, RowType, TicketOK
<1>3. rec \in Ticket /\ rec.run = "none" /\ rec.state \in {"waiting_review", "queued"}
  BY <1>2 DEF Ticket, Recovered
<1> HIDE DEF rec
<1>4. TicketOK(thawed, rec)
  BY <1>1, <1>3 DEF TicketOK
<1>5. /\ RowOK(v, new) /\ new.state = thawed.state /\ new.terminal = thawed.terminal
      /\ new.frozen = thawed.frozen /\ new.ticket = [thawed.ticket EXCEPT ![t] = rec]
  BY <1>1, <1>3, <1>4, TicketSet
<1> HIDE DEF new
<1>6. \A u \in v.tickets : new.ticket[u] = IF u = t THEN rec ELSE row.ticket[u]
  BY <1>1, <1>2, <1>5
<1>7. Keeps(row, new)
  BY <1>2, <1>3, <1>6 DEF Keeps
<1> QED BY <1>1, <1>3, <1>5, <1>6, <1>7 DEF new, rec, thawed, RecoveredOf

\* A proposal ends the runs of the tickets it affects, and changes nothing else.
LEMMA ProposedRow ==
    ASSUME NEW v, NEW row, RowOK(v, row), row.state = "active", NEW A
    PROVE  LET new == [row EXCEPT !.ticket = [t \in v.tickets |->
                           IF t \in A THEN [@[t] EXCEPT !.run = "none"] ELSE @[t]]]
           IN  /\ RowOK(v, new) /\ Keeps(row, new) /\ new.state = row.state
               /\ new.terminal = row.terminal /\ new.frozen = row.frozen
               /\ \A t \in v.tickets :
                     /\ new.ticket[t].state = row.ticket[t].state
                     /\ new.ticket[t].run = IF t \in A THEN "none" ELSE row.ticket[t].run
<1>1. row \in RowType(v) /\ row.ticket \in [v.tickets -> Ticket]
  BY DEF RowOK, RowType
<1>2. PICK f : f = [t \in v.tickets |-> IF t \in A
                        THEN [row.ticket[t] EXCEPT !.run = "none"] ELSE row.ticket[t]]
  OBVIOUS
<1>3. \A t \in v.tickets :
         /\ f[t] \in Ticket /\ f[t].state = row.ticket[t].state
         /\ f[t].run = IF t \in A THEN "none" ELSE row.ticket[t].run
         /\ row.ticket[t] = FreshTicket => f[t] = FreshTicket
  <2> TAKE t \in v.tickets
  <2>1. row.ticket[t] \in Ticket
    BY <1>1
  <2>2. CASE t \in A
    BY <2>1, <2>2, <1>2 DEF Ticket, FreshTicket
  <2>3. CASE t \notin A
    BY <2>1, <2>3, <1>2
  <2> QED BY <2>2, <2>3
<1>4. f \in [v.tickets -> Ticket]
  BY <1>2, <1>3
<1> DEFINE new == [row EXCEPT !.ticket = f]
<1>5. /\ new \in RowType(v) /\ new.ticket = f /\ new.state = row.state
      /\ new.terminal = row.terminal /\ new.frozen = row.frozen
  BY <1>1, <1>4 DEF RowType
<1> HIDE DEF new
<1>6. \A t \in v.tickets : TicketOK(new, new.ticket[t])
  BY <1>3, <1>5 DEF RowOK, TicketOK
<1>7. new.frozen # Nil => new.ticket[new.frozen].state # "delivered"
  BY <1>1, <1>3, <1>5 DEF RowOK, RowType
<1>8. RowOK(v, new)
  BY <1>5, <1>6, <1>7 DEF RowOK
<1>9. Keeps(row, new)
  BY <1>1, <1>3, <1>5 DEF Keeps
<1>10. new = [row EXCEPT !.ticket = [t \in v.tickets |->
                  IF t \in A THEN [@[t] EXCEPT !.run = "none"] ELSE @[t]]]
  BY <1>2 DEF new
<1> QED BY <1>3, <1>5, <1>8, <1>9, <1>10

-----------------------------------------------------------------------------
(* What a step keeps of the passes.                                         *)

\* The whole invariant, and what was merged stays merged.
Preserved == PlansInv' /\ KeepsDelivered

\* A pass that goes on where it was, or past the activation, keeps what its
\* place in the activation stands for.
LEMMA ControlKept ==
    ASSUME ControlOK, CurrentOK, StatesKept, UNCHANGED <<setting, plans>>,
           announced \subseteq announced', control' \in PassType,
           \/ control'.at \in {"answers", "retry", "dispatch", "poll"}
           \/ control'.at = control.at /\ control'.root = control.root
    PROVE  ControlOK'
<1>1. PassType' = PassType /\ Roots' = Roots
  BY DEF PassType, Roots
<1>2. \A r \in Roots : Current(r)' = Current(r)
  BY DEF Current
<1>3. CASE control'.at \in {"answers", "retry", "dispatch", "poll"}
  BY <1>1, <1>3 DEF ControlOK
<1>4. CASE control'.at = control.at /\ control'.root = control.root
  <2>1. control.at \in {"activate", "project", "mark"} => control.root \in Roots
    BY DEF ControlOK
  <2>2. ASSUME control.at \in {"project", "mark"}
        PROVE  /\ Current(control.root) # Nil
               /\ versions'[Current(control.root)].state = "projecting"
    BY <2>2, <2>1 DEF ControlOK, CurrentOK, StatesKept
  <2> QED BY <1>1, <1>2, <1>4, <2>1, <2>2 DEF ControlOK
<1> QED BY <1>3, <1>4

\* A step that leaves the pass, the handoffs and the current versions alone.
LEMMA PassKept ==
    ASSUME PlansInv, RecordsOK', Grows, StatesKept, KeepsDelivered,
           UNCHANGED <<plans, handoff>>, cursor' \in Roots \cup {0},
           announced \subseteq announced', control' \in PassType,
           \/ control'.at \in {"answers", "retry", "dispatch", "poll"}
           \/ control'.at = control.at /\ control'.root = control.root,
           ListsOK'
    PROVE  Preserved
<1>1. ControlOK'
  BY ControlKept DEF PlansInv, Grows
<1>2. HandoffOK'
  BY HandoffKept DEF PlansInv
<1> QED BY <1>1, <1>2 DEF Preserved, PlansInv, RecordsOK, Grows, Roots

\* The parts of the invariant as the step lemmas use them.
LEMMA InvRecords ==
    ASSUME PlansInv
    PROVE  /\ RecordsOK /\ control \in PassType /\ cursor \in Roots \cup {0}
           /\ \A v \in DOMAIN versions :
                 /\ v \in VersionsOf(setting) /\ RowOK(v, versions[v])
                 /\ v.root \in Roots /\ v.tickets \subseteq TicketsOf(setting)
                 /\ LiveRow(versions[v]) => CurrentActive(v)
<1>1. RecordsOK /\ control \in PassType /\ cursor \in Roots \cup {0}
  BY DEF PlansInv, RecordsOK, ControlOK
<1>2. ASSUME NEW v \in DOMAIN versions
      PROVE  /\ v \in VersionsOf(setting) /\ RowOK(v, versions[v])
             /\ v.root \in Roots /\ v.tickets \subseteq TicketsOf(setting)
             /\ LiveRow(versions[v]) => CurrentActive(v)
  <2>1. v \in VersionsOf(setting) /\ RowOK(v, versions[v])
    BY DEF PlansInv, VersionsOK
  <2>2. v.root \in Roots /\ v.tickets \subseteq TicketsOf(setting)
    BY <2>1 DEF VersionsOf, Roots
  <2>3. ASSUME LiveRow(versions[v]) PROVE CurrentActive(v)
    <3>1. IsCurrent(v) /\ Current(v.root) # Nil
      BY <2>3 DEF PlansInv, VersionsOK
    <3>2. plans[v.root].state = versions[v].state
      BY <2>2, <3>1 DEF PlansInv, CurrentOK, IsCurrent, Current
    <3>3. versions[v] \in RowType(v)
      BY <2>1 DEF RowOK
    <3>4. PICK t \in v.tickets : versions[v].ticket[t].run # "none"
      BY <2>3, <3>3 DEF LiveRow, RowType
    <3>5. versions[v].ticket[t].state = "running"
      BY <2>1, <3>4 DEF RowOK, TicketOK
    <3>6. versions[v].terminal = "none" /\ versions[v].state # "projecting"
      BY <2>1, <3>3, <3>4, <3>5 DEF RowOK, RowType, TicketOK, FreshTicket
    <3> QED BY <3>1, <3>2, <3>3, <3>6 DEF CurrentActive, RowType
  <2> QED BY <2>1, <2>2, <2>3
<1> QED BY <1>1, <1>2

\* A slot is a ticket of a version.
LEMMA SlotIs ==
    ASSUME NEW s \in Slots
    PROVE  s[1] \in DOMAIN versions /\ s[2] \in s[1].tickets /\ s = <<s[1], s[2]>>
<1>1. PICK v \in DOMAIN versions : s \in {v} \X v.tickets
  BY DEF Slots
<1> QED BY <1>1

\* The least of some numbers is one of them.
LEMMA LeastIs ==
    ASSUME NEW S, S \subseteq Nat, S # {}
    PROVE  Least(S) \in S /\ \A y \in S : Least(S) <= y
<1> DEFINE R == {ss \in Nat \X Nat : ss[1] < ss[2]}
<1>1. IsWellFoundedOn(R, Nat)
  BY NatLessThanWellFounded DEF OpToRel
<1> HIDE DEF R
<1>2. PICK x \in S : \A y \in S : ~ (<<y, x>> \in R)
  BY <1>1, WFMin
<1>3. \A y \in S : y < x => <<y, x>> \in R
  BY <1>2 DEF R
<1>4. \A y \in S : ~ (y < x)
  <2> TAKE y \in S
  <2> QED BY <1>2, <1>3, Zenon
<1>5. x \in Nat /\ \A y \in S : y \in Nat
  BY <1>2
<1>6. \A y \in S : x <= y
  BY <1>4, <1>5, SMT
<1> QED BY <1>6 DEF Least

-----------------------------------------------------------------------------
(* The initial states and the steps.                                        *)

\* Nothing is recorded at first, and the first pass reads the answers.
LEMMA PlansInitInv == PlansInit => PlansInv
<1> SUFFICES ASSUME PlansInit PROVE PlansInv
  OBVIOUS
<1>1. /\ DOMAIN versions = {} /\ questions = {} /\ proposals = {} /\ DOMAIN handoff = {}
      /\ reconciling = {} /\ cursor = 0
  BY DEF PlansInit
<1>2. setting \in Settings /\ cursor \in Roots \cup {0}
  BY DEF PlansInit
<1>3. VersionsOK /\ QuestionsOK /\ HandoffOK /\ ProposalsOK /\ PausesOK
  BY <1>1 DEF VersionsOK, QuestionsOK, HandoffOK, ProposalsOK, PausesOK
<1>4. ActivatedIsShown /\ StoppedIsAskable
  BY <1>1 DEF ActivatedIsShown, StoppedIsAskable
<1>5. CurrentOK
  BY DEF PlansInit, CurrentOK, Current
<1>6. ControlOK /\ ListsOK
  BY <1>1 DEF PlansInit, ControlOK, ListsOK, PassType, Pass
<1> QED BY <1>2, <1>3, <1>4, <1>5, <1>6 DEF PlansInv

\* A step on one ticket of a version: its run starts or ends.
LEMMA TicketStep ==
    ASSUME PlansInv, NEW v \in DOMAIN versions, NEW t \in v.tickets, NEW rec \in Ticket,
           versions' = SetTicket(v, t, rec),
           UNCHANGED <<setting, plans, proposals, handoff, announced, control, reconciling>>,
           cursor' \in Roots \cup {0},
           CurrentActive(v), TicketOK(versions[v], rec),
           At(v, t).state \notin {"delivered", "needs_attention"}, rec.state # "delivered",
           \/ rec.run \in {"none", "delivery"}
           \/ \A p \in proposals : p.version = v => t \notin p.affected,
           questions' = IF rec.state = "needs_attention" THEN Asked(v, {t}) ELSE questions
    PROVE  Preserved
<1> DEFINE row == [versions[v] EXCEPT !.ticket = [@ EXCEPT ![t] = rec]]
<1>1. RecordsOK /\ control \in PassType /\ RowOK(v, versions[v])
  BY InvRecords
<1>2. versions' = [versions EXCEPT ![v] = row]
  BY DEF SetTicket
<1>3. versions[v].state = "active" /\ versions[v].terminal = "none" /\ IsCurrent(v)
  BY DEF CurrentActive
<1>4. /\ RowOK(v, row) /\ Keeps(versions[v], row) /\ row.state = versions[v].state
      /\ row.terminal = versions[v].terminal /\ row.frozen = versions[v].frozen
      /\ row.ticket = [versions[v].ticket EXCEPT ![t] = rec]
  BY <1>1, TicketSet DEF At
<1> HIDE DEF row
<1>5. versions[v].ticket \in [v.tickets -> Ticket]
  BY <1>1 DEF RowOK, RowType
<1>6. \A u \in v.tickets : row.ticket[u] = IF u = t THEN rec ELSE versions[v].ticket[u]
  BY <1>4, <1>5
<1>7. \A p \in proposals, u \in v.tickets :
         p.version = v /\ u \in p.affected =>
            row.ticket[u].run \in {"none", "delivery", versions[v].ticket[u].run}
  BY <1>6
<1>8. \A q \in questions' : \/ q \in questions
                            \/ \E u \in v.tickets : \E k \in {"attention", "impact", "amendment"} :
                                  q = Question(k, v, u)
  BY DEF Asked
<1>9. questions \subseteq questions'
  BY DEF Asked
<1>10. AsksFor(v, versions[v], questions, proposals)
  BY <1>1, ActiveAsks
<1>11. \A u \in v.tickets : row.ticket[u].state = "needs_attention" <=>
          Question("attention", v, u) \in questions'
  <2> TAKE u \in v.tickets
  <2>1. CASE u = t /\ rec.state = "needs_attention"
    BY <2>1, <1>6 DEF Asked
  <2>2. CASE u = t /\ rec.state # "needs_attention"
    BY <2>2, <1>6, <1>10 DEF At, AsksFor
  <2>3. CASE u # t
    <3>1. Question("attention", v, u) \in questions' <=> Question("attention", v, u) \in questions
      BY <2>3 DEF Asked, Question
    <3> QED BY <2>3, <3>1, <1>6, <1>10 DEF AsksFor
  <2> QED BY <2>1, <2>2, <2>3
<1>12. AsksFor(v, row, questions', proposals)
  BY <1>4, <1>9, <1>10, <1>11 DEF AsksFor
<1>13. \A q \in questions : q.version # v => q \in questions'
  BY <1>9
<1>14. RecordsOK' /\ Grows /\ StatesKept /\ KeepsDelivered
  <2>1. /\ row.state = "active" /\ (LiveRow(row) => IsCurrent(v))
        /\ row.terminal = "none" => versions[v].terminal = "none"
        /\ CurrentActive(v) /\ row.terminal = "none" => AsksFor(v, row, questions', proposals)
    BY <1>3, <1>4, <1>12
  <2>2. UNCHANGED <<setting, plans, proposals, announced>>
    OBVIOUS
  <2> QED BY <1>1, <1>2, <1>3, <1>4, <1>7, <1>8, <1>13, <2>1, <2>2, RowStep
<1>15. ListsOK'
  BY <1>14, ListsKept DEF PlansInv
<1> QED BY <1>1, <1>14, <1>15, PassKept

\* The retry of a delivery is a run of a ticket that was waiting for a review.
LEMMA RetryDeliveryStep ==
    ASSUME PlansInv, NEW s \in Slots, RetryDelivery(s[1], s[2])
    PROVE  Preserved
<1> DEFINE v == s[1]
           t == s[2]
           rec == [At(v, t) EXCEPT !.retry = FALSE, !.run = "delivery", !.state = "running"]
<1>1. v \in DOMAIN versions /\ t \in v.tickets
  BY SlotIs
<1>2. /\ RecordsOK /\ RowOK(v, versions[v]) /\ v.root \in Roots
      /\ control \in PassType /\ cursor \in Roots \cup {0}
  BY <1>1, InvRecords
<1>3. versions[v] \in RowType(v) /\ At(v, t) \in Ticket
  BY <1>1, <1>2 DEF RowOK, RowType, At
<1>4. IsCurrent(v) /\ At(v, t).state = "waiting_review" /\ versions' = SetTicket(v, t, rec)
  BY DEF RetryDelivery
<1>5. /\ UNCHANGED <<setting, plans, proposals, handoff, announced, control, reconciling>>
      /\ cursor' = cursor /\ questions' = questions
  BY DEF RetryDelivery
<1>6. rec \in Ticket /\ rec.run = "delivery" /\ rec.state = "running"
  BY <1>3 DEF Ticket
<1> HIDE DEF rec
<1>7. versions[v].terminal = "none" /\ versions[v].state = "active"
  BY <1>1, <1>2, <1>3, <1>4 DEF RowOK, RowType, TicketOK, FreshTicket, At
<1>8. Current(v.root) # Nil
  BY <1>1 DEF PlansInv, VersionsOK
<1>9. plans[v.root].state = versions[v].state
  BY <1>2, <1>4, <1>8 DEF PlansInv, CurrentOK, IsCurrent, Current
<1>10. CurrentActive(v)
  BY <1>4, <1>7, <1>9 DEF CurrentActive
<1>11. TicketOK(versions[v], rec)
  BY <1>6, <1>7 DEF TicketOK
<1> HIDE DEF v, t
<1> QED BY <1>1, <1>2, <1>4, <1>5, <1>6, <1>10, <1>11, TicketStep

\* The frontier offers tickets of current active plans that nothing stops.
LEMMA ReadyIs ==
    ASSUME NEW v, NEW t \in Ready(v)
    PROVE  /\ CurrentActiveUnfrozen(v) /\ t \in v.tickets /\ t \notin Paused(v)
           /\ At(v, t).state \in {"queued", "running"}
  BY DEF Ready

\* Roots are numbers, so that the ready ones have an order.
LEMMA ReadyRootsAre ==
    ASSUME PlansInv
    PROVE  ReadyRoots \subseteq Nat /\ ReadyRoots \subseteq Roots
  BY PlansConstants DEF PlansInv, ReadyRoots, Roots

\* The next root is a ready one, and another than the last if there is one.
LEMMA NextRootIs ==
    ASSUME PlansInv, ReadyRoots # {}
    PROVE  NextRoot \in ReadyRoots /\ (NextRoot = cursor => ReadyRoots = {cursor})
<1> DEFINE later == {r \in ReadyRoots : r > cursor}
<1>1. ReadyRoots \subseteq Nat
  BY ReadyRootsAre
<1>2. CASE cursor \in ReadyRoots /\ later # {}
  <2>1. Least(later) \in later
    BY <1>1, <1>2, LeastIs
  <2>2. NextRoot = Least(later)
    BY <1>2 DEF NextRoot
  <2> QED BY <1>1, <1>2, <2>1, <2>2
<1>3. CASE ~(cursor \in ReadyRoots /\ later # {})
  <2>1. Least(ReadyRoots) \in ReadyRoots /\ \A y \in ReadyRoots : Least(ReadyRoots) <= y
    BY <1>1, LeastIs
  <2>2. NextRoot = Least(ReadyRoots)
    BY <1>3 DEF NextRoot
  <2>3. ASSUME NextRoot = cursor, NEW y \in ReadyRoots PROVE y = cursor
    <3>1. cursor \in ReadyRoots /\ cursor <= y /\ ~(y > cursor)
      BY <1>3, <2>1, <2>2, <2>3
    <3> QED BY <1>1, <3>1, SMT
  <2> QED BY <2>1, <2>2, <2>3
<1> QED BY <1>2, <1>3

\* A claim starts a run on a ticket that nothing blocks, pauses or freezes.
LEMMA ClaimNextStep ==
    ASSUME PlansInv, ClaimNext
    PROVE  Preserved
<1> DEFINE r == NextRoot
           v == Current(r)
<1>1. /\ ReadyRoots # {} /\ cursor' = r
      /\ UNCHANGED <<setting, plans, proposals, questions, handoff, announced, control,
                     reconciling>>
  BY DEF ClaimNext, ClaimNextReady
<1>2. PICK t \in Ready(v) :
         versions' = SetTicket(v, t, [At(v, t) EXCEPT !.run = "work", !.state = "running"])
  BY DEF ClaimNext, ClaimNextReady
<1>3. r \in Roots
  BY <1>1, NextRootIs, ReadyRootsAre
<1>4. v # Nil
  BY <1>2 DEF Ready
<1>5. v \in DOMAIN versions
  BY <1>3, <1>4 DEF PlansInv, CurrentOK
<1> DEFINE rec == [At(v, t) EXCEPT !.run = "work", !.state = "running"]
<1> HIDE DEF v, r
<1>6. /\ CurrentActiveUnfrozen(v) /\ t \in v.tickets /\ t \notin Paused(v)
      /\ At(v, t).state \in {"queued", "running"}
  BY <1>2, ReadyIs
<1>7. At(v, t) \in Ticket
  BY <1>5, <1>6, InvRecords DEF RowOK, RowType, At
<1>8. rec \in Ticket /\ rec.run = "work" /\ rec.state = "running"
  BY <1>7 DEF Ticket
<1> HIDE DEF rec
<1>9. CurrentActive(v) /\ TicketOK(versions[v], rec)
  BY <1>6, <1>8 DEF CurrentActiveUnfrozen, CurrentActive, Unfrozen, TicketOK
<1>10. \A p \in proposals : p.version = v => t \notin p.affected
  BY <1>6 DEF Paused
<1>11. cursor' \in Roots \cup {0} /\ questions' = questions /\ versions' = SetTicket(v, t, rec)
  BY <1>1, <1>2, <1>3 DEF rec
<1> QED BY <1>1, <1>5, <1>6, <1>8, <1>9, <1>10, <1>11, TicketStep

\* A run that ends leaves its ticket to a review, to a human or to the frontier.
LEMMA RunEndsStep ==
    ASSUME PlansInv, NEW s \in Slots, NEW end \in {"delivered", "retry", "lost", "attention"},
           RunEnds(s[1], s[2], end)
    PROVE  Preserved
<1> DEFINE v == s[1]
           t == s[2]
           rec == Outcome(At(v, t), end)
<1>1. v \in DOMAIN versions /\ t \in v.tickets
  BY SlotIs
<1>2. /\ RowOK(v, versions[v]) /\ cursor \in Roots \cup {0}
      /\ LiveRow(versions[v]) => CurrentActive(v)
  BY <1>1, InvRecords
<1>3. versions[v] \in RowType(v) /\ At(v, t) \in Ticket
  BY <1>1, <1>2 DEF RowOK, RowType, At
<1>4. /\ At(v, t).run # "none" /\ versions' = SetTicket(v, t, rec)
      /\ questions' = IF end = "attention" THEN Asked(v, {t}) ELSE questions
      /\ UNCHANGED <<setting, plans, proposals, handoff, announced, control, reconciling>>
      /\ cursor' = cursor
  BY DEF RunEnds, Live
<1>5. CurrentActive(v) /\ At(v, t).state = "running"
  BY <1>1, <1>2, <1>3, <1>4 DEF LiveRow, RowType, RowOK, TicketOK, At
<1>6. /\ rec \in Ticket /\ rec.run = "none"
      /\ rec.state \in {"waiting_review", "running", "needs_attention"}
      /\ rec.state = "needs_attention" <=> end = "attention"
  BY <1>3, <1>5 DEF Outcome, AskAttention, Ticket
<1> HIDE DEF rec
<1>7. TicketOK(versions[v], rec)
  BY <1>5, <1>6 DEF TicketOK, CurrentActive
<1>8. questions' = IF rec.state = "needs_attention" THEN Asked(v, {t}) ELSE questions
  BY <1>4, <1>6
<1> HIDE DEF v, t
<1> QED BY <1>1, <1>2, <1>4, <1>5, <1>6, <1>7, <1>8, TicketStep

\* Pull requests to look at are of activated versions.
LEMMA PendingIs ==
    ASSUME PlansInv
    PROVE  /\ PendingTicketDeliveries \subseteq VersionsOf(setting) \X TicketsOf(setting)
           /\ \A s \in PendingTicketDeliveries :
                 ActiveVersion(s[1]) /\ s[2] \in s[1].tickets
<1> SUFFICES ASSUME NEW s \in PendingTicketDeliveries
             PROVE  /\ s \in VersionsOf(setting) \X TicketsOf(setting)
                    /\ ActiveVersion(s[1]) /\ s[2] \in s[1].tickets
  OBVIOUS
<1>1. s \in Slots /\ CurrentActiveUnfrozen(s[1])
  BY DEF PendingTicketDeliveries
<1>2. s[1] \in DOMAIN versions /\ s[2] \in s[1].tickets /\ s = <<s[1], s[2]>>
  BY <1>1, SlotIs
<1>3. s[1] \in VersionsOf(setting) /\ s[1].tickets \subseteq TicketsOf(setting)
  BY <1>2, InvRecords
<1> QED BY <1>1, <1>2, <1>3 DEF CurrentActiveUnfrozen, CurrentActive, ActiveVersion

\* After the frontier a pass ends, or reads the pull requests anew.
LEMMA AfterDispatchIs ==
    ASSUME PlansInv, control' = AfterDispatch, reconciling' = reconciling, Grows
    PROVE  /\ control' \in PassType /\ control'.at \in {"answers", "poll"}
           /\ ListsOK'
<1>1. control \in PassType
  BY InvRecords
<1>2. CASE control.after = "end"
  <2>1. control' = Pass("answers")
    BY <1>2 DEF AfterDispatch
  <2>2. control' \in PassType /\ control'.at = "answers" /\ control'.todo = {}
    BY <2>1 DEF Pass, PassType
  <2>3. control'.todo \subseteq control.todo
    BY <2>2
  <2> QED BY <2>2, <2>3, ListsKept DEF PlansInv
<1>3. CASE control.after # "end"
  <2>1. control' = [control EXCEPT !.at = "poll", !.todo = PendingTicketDeliveries]
    BY <1>3 DEF AfterDispatch
  <2>2. /\ control' \in PassType /\ control'.at = "poll"
        /\ control'.todo = PendingTicketDeliveries
    BY <1>1, <2>1, PendingIs DEF PassType
  <2>3. \A s \in control'.todo \cup reconciling' :
           ActiveVersion(s[1])' /\ s[2] \in s[1].tickets
    <3>1. \A s \in control'.todo \cup reconciling' :
             ActiveVersion(s[1]) /\ s[2] \in s[1].tickets
      BY <2>2, PendingIs DEF PlansInv, ListsOK
    <3> QED BY <3>1 DEF Grows, ActiveVersion
  <2> QED BY <2>2, <2>3 DEF PlansInv, ListsOK, Grows
<1> QED BY <1>2, <1>3

\* The steps of a pass, and of the other process, that write no row.
LEMMA PassSteps ==
    ASSUME PlansInv, PassFails \/ DispatchPaused \/ NextStage \/ StartReconcile \/ ReconcileFails
    PROVE  Preserved
<1>1. /\ UNCHANGED <<setting, plans, versions, proposals, questions, handoff, announced>>
      /\ cursor' = cursor
  BY DEF PassFails, DispatchPaused, NextStage, StartReconcile, ReconcileFails
<1>2. RecordsOK /\ control \in PassType /\ cursor \in Roots \cup {0}
  BY InvRecords
<1>3. RecordsOK' /\ Grows /\ StatesKept /\ KeepsDelivered
  BY <1>1, <1>2, RecordsKept
<1>4. SUFFICES /\ control' \in PassType /\ ListsOK'
               /\ \/ control'.at \in {"answers", "retry", "dispatch", "poll"}
                  \/ control'.at = control.at /\ control'.root = control.root
  BY <1>1, <1>2, <1>3, PassKept
<1>5. CASE control' = Pass("answers") /\ reconciling' = reconciling
  <2>1. control' \in PassType /\ control'.at = "answers" /\ control'.todo = {}
    BY <1>5 DEF Pass, PassType
  <2>2. control'.todo \subseteq control.todo
    BY <2>1
  <2> QED BY <1>3, <1>5, <2>1, <2>2, ListsKept DEF PlansInv
<1>6. CASE control' = AfterDispatch /\ reconciling' = reconciling
  BY <1>3, <1>6, AfterDispatchIs
<1>7. CASE /\ control' \in {[control EXCEPT !.at = "dispatch"], [control EXCEPT !.at = "retry"]}
           /\ reconciling' = reconciling
  <2>1. /\ control' \in PassType /\ control'.at \in {"dispatch", "retry"}
        /\ control'.todo = control.todo
    BY <1>2, <1>7 DEF PassType
  <2> QED BY <1>3, <1>7, <2>1, ListsKept DEF PlansInv
<1>8. CASE ReconcileFails
  BY <1>2, <1>3, <1>8, ListsKept DEF PlansInv, ReconcileFails
<1>9. CASE StartReconcile
  <2>1. control' = control /\ reconciling' = PendingTicketDeliveries
    BY <1>9 DEF StartReconcile
  <2>2. \A s \in control'.todo \cup reconciling' :
           ActiveVersion(s[1])' /\ s[2] \in s[1].tickets
    <3>1. \A s \in control'.todo \cup reconciling' :
             ActiveVersion(s[1]) /\ s[2] \in s[1].tickets
      BY <2>1, PendingIs DEF PlansInv, ListsOK
    <3> QED BY <3>1, <1>3 DEF Grows, ActiveVersion
  <2>3. ListsOK'
    BY <1>3, <2>1, <2>2, PendingIs DEF ListsOK, Grows
  <2> QED BY <1>2, <2>1, <2>3
<1>10. \/ control' = Pass("answers") /\ reconciling' = reconciling
       \/ control' = AfterDispatch /\ reconciling' = reconciling
       \/ /\ control' \in {[control EXCEPT !.at = "dispatch"], [control EXCEPT !.at = "retry"]}
          /\ reconciling' = reconciling
       \/ ReconcileFails \/ StartReconcile
  BY DEF PassFails, DispatchPaused, NextStage
<1> QED BY <1>5, <1>6, <1>7, <1>8, <1>9, <1>10

\* The projection of a root makes the mark of its version possible.
LEMMA ProjectBuildingStep ==
    ASSUME PlansInv, ProjectBuilding
    PROVE  Preserved
<1>1. /\ UNCHANGED <<setting, plans, versions, proposals, questions, handoff, reconciling>>
      /\ cursor' = cursor /\ control.at = "project"
      /\ announced' = announced \cup {Current(control.root)}
      /\ control' = [control EXCEPT !.at = "mark"]
  BY DEF ProjectBuilding
<1>2. RecordsOK /\ control \in PassType /\ cursor \in Roots \cup {0}
  BY InvRecords
<1>3. RecordsOK' /\ Grows /\ StatesKept /\ KeepsDelivered
  BY <1>1, <1>2, RecordsKept
<1>4. /\ control' \in PassType /\ control'.at = "mark" /\ control'.root = control.root
      /\ control'.todo = control.todo
  BY <1>1, <1>2 DEF PassType
<1>5. ListsOK' /\ HandoffOK'
  BY <1>1, <1>3, <1>4, ListsKept, HandoffKept DEF PlansInv
<1>6. ControlOK'
  BY <1>1, <1>4 DEF PlansInv, ControlOK, PassType, Roots, Current
<1> QED BY <1>1, <1>2, <1>3, <1>5, <1>6 DEF Preserved, PlansInv, RecordsOK, Roots

\* A plan of an activated version is cancelled.
LEMMA CancelStep ==
    ASSUME PlansInv, NEW v, ActiveVersion(v),
           versions' = [versions EXCEPT ![v] = CancelPlan(@)],
           UNCHANGED <<setting, plans, proposals, announced>>,
           questions' \subseteq questions,
           \A q \in questions : q.version # v => q \in questions'
    PROVE  RecordsOK' /\ Grows /\ StatesKept /\ KeepsDelivered
<1> DEFINE row == CancelPlan(versions[v])
<1>1. v \in DOMAIN versions /\ versions[v].state = "active"
  BY DEF ActiveVersion
<1>2. RecordsOK /\ RowOK(v, versions[v])
  BY <1>1, InvRecords
<1>3. /\ RowOK(v, row) /\ Keeps(versions[v], row) /\ ~LiveRow(row)
      /\ row.state = versions[v].state /\ row.terminal # "none"
      /\ \A t \in v.tickets : row.ticket[t].run = "none"
  BY <1>1, <1>2, CancelledRow
<1>4. versions' = [versions EXCEPT ![v] = row]
  OBVIOUS
<1> HIDE DEF row
<1>5. \A q \in questions' : \/ q \in questions
                            \/ \E t \in v.tickets : \E k \in {"attention", "impact", "amendment"} :
                                  q = Question(k, v, t)
  OBVIOUS
<1>6. \A p \in proposals, t \in v.tickets : p.version = v /\ t \in p.affected =>
         row.ticket[t].run \in {"none", "delivery", versions[v].ticket[t].run}
  BY <1>3
<1>7. /\ row.state = "active" /\ (LiveRow(row) => IsCurrent(v))
      /\ row.terminal = "none" => versions[v].terminal = "none"
      /\ CurrentActive(v) /\ row.terminal = "none" => AsksFor(v, row, questions', proposals)
  BY <1>1, <1>3
<1> QED BY <1>1, <1>2, <1>3, <1>4, <1>5, <1>6, <1>7, RowStep

\* The handoff of the configured root, and the root to activate.
LEMMA SchedulerRootStep ==
    ASSUME PlansInv, NEW r \in Roots, SchedulerRoot(r)
    PROVE  Preserved
<1> DEFINE h == Handoff(r)
           v == Current(r)
<1>1. /\ UNCHANGED <<setting, plans, proposals, questions, announced, reconciling>>
      /\ cursor' = cursor
  BY DEF SchedulerRoot
<1>2. RecordsOK /\ control \in PassType /\ cursor \in Roots \cup {0}
  BY InvRecords
<1>3. ASSUME h.state # "none"
      PROVE  /\ v \in DOMAIN handoff /\ h = handoff[v] /\ ActiveVersion(v)
             /\ h.target \in DOMAIN versions /\ h.target.root \in Roots
             /\ h \in [state : {"approved", "active"}, target : DOMAIN versions]
  <2>1. v \in DOMAIN handoff /\ h = handoff[v]
    BY <1>3 DEF Handoff
  <2>2. /\ h \in [state : {"approved", "active"}, target : DOMAIN versions]
        /\ ActiveVersion(v)
    BY <2>1 DEF PlansInv, HandoffOK
  <2>3. h.target.root \in Roots
    BY <2>2, InvRecords
  <2> QED BY <2>1, <2>2, <2>3
<1>4. ASSUME NEW root \in Roots, control' = [control EXCEPT !.at = "activate", !.root = root],
             RecordsOK', Grows, KeepsDelivered, HandoffOK'
      PROVE  Preserved
  <2>1. /\ control' \in PassType /\ control'.at = "activate" /\ control'.root = root
        /\ control'.todo = control.todo
    BY <1>2, <1>4 DEF PassType
  <2>2. ListsOK'
    BY <1>1, <1>4, <2>1, ListsKept DEF PlansInv
  <2>3. ControlOK'
    BY <1>1, <2>1 DEF ControlOK, PassType, Roots
  <2> QED BY <1>1, <1>2, <1>4, <2>2, <2>3 DEF Preserved, PlansInv, RecordsOK, Roots
<1>5. CASE UNCHANGED versions
  <2>1. RecordsOK' /\ Grows /\ KeepsDelivered
    BY <1>1, <1>2, <1>5, RecordsKept
  <2>2. CASE UNCHANGED handoff
    <3>1. HandoffOK'
      BY <2>1, <2>2, HandoffKept DEF PlansInv
    <3>2. PICK root \in Roots : control' = [control EXCEPT !.at = "activate", !.root = root]
      <4>1. CASE h.state = "none" /\ control' = [control EXCEPT !.at = "activate", !.root = r]
        BY <4>1
      <4>2. CASE /\ h.state # "none"
                 /\ control' = [control EXCEPT !.at = "activate", !.root = h.target.root]
        BY <4>2, <1>3
      <4> QED BY <4>1, <4>2 DEF SchedulerRoot
    <3> QED BY <1>4, <2>1, <3>1, <3>2
  <2>3. CASE ~UNCHANGED handoff
    <3>1. /\ h.state # "none" /\ handoff' = [handoff EXCEPT ![v].state = "active"]
          /\ control' = [control EXCEPT !.at = "activate", !.root = h.target.root]
      BY <2>3 DEF SchedulerRoot
    <3>2. HandoffOK'
      BY <1>3, <1>5, <3>1 DEF PlansInv, HandoffOK, ActiveVersion
    <3> QED BY <1>3, <1>4, <2>1, <3>1, <3>2
  <2> QED BY <2>2, <2>3
<1>6. CASE ~UNCHANGED versions
  <2>1. /\ h.state # "none" /\ handoff' = [handoff EXCEPT ![v].state = "active"]
        /\ control' = [control EXCEPT !.at = "activate", !.root = h.target.root]
        /\ versions' = [versions EXCEPT ![v] = CancelPlan(@)]
    BY <1>6 DEF SchedulerRoot
  <2>2. RecordsOK' /\ Grows /\ KeepsDelivered
    BY <1>1, <1>3, <2>1, CancelStep
  <2>3. HandoffOK'
    <3>1. DOMAIN versions' = DOMAIN versions
      BY <2>1
    <3>2. \A w \in DOMAIN handoff : ActiveVersion(w)'
      BY <2>2 DEF Grows, PlansInv, HandoffOK, ActiveVersion
    <3> QED BY <1>3, <2>1, <3>1, <3>2 DEF PlansInv, HandoffOK
  <2> QED BY <1>3, <1>4, <2>1, <2>2, <2>3
<1> QED BY <1>5, <1>6

\* The mark that ends an activation: the version that was shown is active.
LEMMA MarkActiveStep ==
    ASSUME PlansInv, MarkActive
    PROVE  Preserved
<1> DEFINE r == control.root
           v == Current(r)
           shown == [versions[v] EXCEPT !.state = "active"]
           row == MarkPlanCompleted(shown)
<1>1. /\ control.at = "mark" /\ versions' = [versions EXCEPT ![v] = row]
      /\ plans' = [plans EXCEPT ![r].state = "active"]
      /\ control' = [control EXCEPT !.at = "retry"] /\ cursor' = cursor
      /\ UNCHANGED <<setting, proposals, questions, handoff, announced, reconciling>>
  BY DEF MarkActive
<1>2. RecordsOK /\ control \in PassType /\ cursor \in Roots \cup {0}
  BY InvRecords
<1>3. /\ r \in Roots /\ v # Nil /\ v \in announced /\ v \in DOMAIN versions /\ v.root = r
      /\ versions[v].state = "projecting" /\ RowOK(v, versions[v])
  <2>1. r \in Roots /\ v # Nil /\ v \in announced /\ versions[v].state = "projecting"
    BY <1>1 DEF PlansInv, ControlOK
  <2> QED BY <2>1, InvRecords DEF RecordsOK, CurrentOK
<1>4. /\ versions[v].terminal = "none" /\ versions[v].frozen = Nil
      /\ \A t \in v.tickets : versions[v].ticket[t] = FreshTicket
  BY <1>3 DEF RowOK, TicketOK
<1>5. /\ RowOK(v, shown) /\ shown.state = "active" /\ shown.terminal = "none"
      /\ shown.frozen = Nil /\ shown.ticket = versions[v].ticket
  <2>1. /\ shown \in RowType(v) /\ shown.state = "active" /\ shown.terminal = "none"
        /\ shown.frozen = Nil /\ shown.ticket = versions[v].ticket
    BY <1>3, <1>4 DEF RowOK, RowType
  <2>2. \A t \in v.tickets : TicketOK(shown, shown.ticket[t])
    BY <1>4, <2>1 DEF TicketOK, FreshTicket
  <2> QED BY <2>1, <2>2 DEF RowOK
<1> HIDE DEF shown
<1>6. /\ RowOK(v, row) /\ row.state = "active"
      /\ row.ticket = versions[v].ticket /\ row.frozen = Nil
  BY <1>5, CompletedRow
<1> HIDE DEF row
<1>7. /\ DOMAIN versions' = DOMAIN versions /\ versions'[v] = row
      /\ \A w \in DOMAIN versions : w # v => versions'[w] = versions[w]
  BY <1>1, <1>3
<1>8. /\ DOMAIN plans' = Roots /\ \A x \in Roots : plans'[x].current = plans[x].current
      /\ plans'[r].state = "active" /\ \A x \in Roots : x # r => plans'[x] = plans[x]
      /\ plans' \in [Roots -> [current : VersionsOf(setting) \cup {Nil},
                               state : {"none", "projecting", "active"}]]
  BY <1>1, <1>3 DEF PlansInv, CurrentOK
<1>9. Grows /\ KeepsDelivered
  BY <1>1, <1>6, <1>7 DEF Grows, ActiveVersion, KeepsDelivered, Keeps
<1>10. \A w \in DOMAIN versions : w.root \in Roots
  BY InvRecords
<1>11. \A w \in DOMAIN versions : CurrentActive(w)' => w = v \/ CurrentActive(w)
  BY <1>3, <1>7, <1>8, <1>10 DEF CurrentActive, IsCurrent, Current
<1>12. VersionsOK'
  <2> SUFFICES ASSUME NEW w \in DOMAIN versions
               PROVE  /\ w \in VersionsOf(setting) /\ Current(w.root)' # Nil
                      /\ RowOK(w, versions'[w])
                      /\ LiveRow(versions'[w]) => IsCurrent(w)'
    BY <1>1, <1>7 DEF VersionsOK
  <2>1. /\ w \in VersionsOf(setting) /\ Current(w.root) # Nil
        /\ RowOK(w, versions[w]) /\ (LiveRow(versions[w]) => IsCurrent(w))
    BY DEF PlansInv, VersionsOK
  <2>2. Current(w.root)' # Nil /\ (IsCurrent(w) => IsCurrent(w)')
    BY <2>1, <1>8, <1>10 DEF Current, IsCurrent
  <2>3. RowOK(w, versions'[w]) /\ (LiveRow(versions'[w]) => LiveRow(versions[w]))
    BY <2>1, <1>6, <1>7 DEF LiveRow
  <2> QED BY <2>1, <2>2, <2>3
<1>13. CurrentOK'
  <2>1. ASSUME NEW x \in Roots, plans'[x].current # Nil
        PROVE  /\ plans'[x].current \in DOMAIN versions' /\ plans'[x].current.root = x
               /\ plans'[x].state = versions'[plans'[x].current].state
    <3>1. /\ Current(x) \in DOMAIN versions /\ Current(x).root = x
          /\ plans[x].state = versions[Current(x)].state
      BY <2>1, <1>8 DEF PlansInv, CurrentOK, Current
    <3>2. CASE x = r
      BY <3>1, <3>2, <1>6, <1>7, <1>8 DEF Current
    <3>3. CASE x # r
      BY <3>1, <3>3, <1>3, <1>7, <1>8 DEF Current
    <3> QED BY <3>2, <3>3
  <2> QED BY <2>1, <1>1, <1>8 DEF CurrentOK, Current, Roots
<1>14. QuestionsOK'
  <2> SUFFICES ASSUME NEW q \in questions
               PROVE  /\ q = Question(q.kind, q.version, q.ticket)
                      /\ ActiveVersion(q.version)' /\ q.ticket \in q.version.tickets
                      /\ q.kind = "attention" /\ CurrentActive(q.version)' =>
                            versions'[q.version].ticket[q.ticket].state = "needs_attention"
    BY <1>1 DEF QuestionsOK, At
  <2>1. /\ q = Question(q.kind, q.version, q.ticket)
        /\ ActiveVersion(q.version) /\ q.ticket \in q.version.tickets
        /\ q.kind = "attention" /\ CurrentActive(q.version) =>
              versions[q.version].ticket[q.ticket].state = "needs_attention"
    BY DEF PlansInv, QuestionsOK, At
  <2>2. q.version # v /\ q.version \in DOMAIN versions
    BY <2>1, <1>3 DEF ActiveVersion
  <2> QED BY <2>1, <2>2, <1>7, <1>9, <1>11 DEF Grows
<1>15. \A p \in proposals : p.version # v /\ p.version \in DOMAIN versions
  BY <1>3 DEF PlansInv, ProposalsOK, ActiveVersion
<1>16. ProposalsOK'
  <2>1. \A p \in proposals : ActiveVersion(p.version)' /\ (IsCurrent(p.version)' => IsCurrent(p.version))
    BY <1>8, <1>9, <1>10, <1>15 DEF PlansInv, ProposalsOK, Grows, IsCurrent
  <2> QED BY <2>1, <1>1 DEF PlansInv, ProposalsOK
<1>17. PausesOK'
  <2>1. \A p \in proposals : /\ versions'[p.version] = versions[p.version]
                             /\ IsCurrent(p.version)' => IsCurrent(p.version)
    BY <1>7, <1>8, <1>10, <1>15 DEF IsCurrent
  <2> QED BY <2>1, <1>1 DEF PlansInv, PausesOK, At
<1>18. ActivatedIsShown'
  BY <1>1, <1>3, <1>7 DEF PlansInv, ActivatedIsShown
<1>19. StoppedIsAskable'
  <2> SUFFICES ASSUME NEW w \in DOMAIN versions, CurrentActive(w)'
               PROVE  /\ versions'[w].frozen # Nil =>
                            Question("attention", w, versions'[w].frozen) \in questions
                      /\ \A t \in w.tickets : versions'[w].ticket[t].state = "needs_attention" =>
                            Question("attention", w, t) \in questions
                      /\ \A p \in proposals : p.version = w =>
                            Question("amendment", w, p.ticket) \in questions
    BY <1>1, <1>7 DEF StoppedIsAskable, Unfrozen, At
  <2>1. CASE w = v
    BY <2>1, <1>4, <1>6, <1>7, <1>15 DEF FreshTicket
  <2>2. CASE w # v
    BY <2>2, <1>7, <1>11 DEF PlansInv, StoppedIsAskable, Unfrozen, At
  <2> QED BY <2>1, <2>2
<1>20. /\ control' \in PassType /\ control'.at = "retry" /\ control'.todo = control.todo
  BY <1>1, <1>2 DEF PassType
<1>21. ListsOK' /\ HandoffOK'
  BY <1>1, <1>9, <1>20, ListsKept, HandoffKept DEF PlansInv
<1>22. ControlOK'
  BY <1>1, <1>20 DEF ControlOK, PassType, Roots
<1> QED BY <1>1, <1>2, <1>9, <1>12, <1>13, <1>14, <1>16, <1>17, <1>18, <1>19, <1>21, <1>22
        DEF Preserved, PlansInv, Roots

\* What GitHub shows of a root stands for a version.
LEMMA FingerprintIs ==
    ASSUME setting \in Settings, NEW r \in Roots
    PROVE  /\ Fingerprint(r) \in VersionsOf(setting) /\ Fingerprint(r) # Nil
           /\ Fingerprint(r).root = r
<1>1. setting.graph[r].tickets \subseteq TicketsOf(setting)
  BY DEF Roots, TicketsOf
<1>2. setting.graph[r].blocks \subseteq setting.graph[r].tickets \X setting.graph[r].tickets
  BY PlansConstants DEF Roots
<1>3. setting.graph[r].blocks \subseteq TicketsOf(setting) \X TicketsOf(setting)
  BY <1>1, <1>2
<1>4. Fingerprint(r) \in VersionsOf(setting) /\ Fingerprint(r).root = r
  BY <1>1, <1>3 DEF Fingerprint, VersionsOf, Roots
<1>5. Nil \notin VersionsOf(setting)
  BY PlansConstants
<1> QED BY <1>4, <1>5

\* The first snapshot of a root becomes its first version.
LEMMA FirstVersion ==
    ASSUME PlansInv, NEW r \in Roots, Current(r) = Nil,
           versions' = WithRow(versions, Fingerprint(r),
               NewVersion(Fingerprint(r), "projecting",
                          [t \in Fingerprint(r).tickets |-> FreshTicket])),
           plans' = [plans EXCEPT ![r] = [current |-> Fingerprint(r), state |-> "projecting"]],
           UNCHANGED <<setting, proposals, questions, announced>>
    PROVE  /\ RecordsOK' /\ Grows /\ KeepsDelivered
           /\ Current(r)' = Fingerprint(r) /\ versions'[Fingerprint(r)].state = "projecting"
<1> DEFINE v == Fingerprint(r)
           row == NewVersion(v, "projecting", [t \in v.tickets |-> FreshTicket])
<1>1. v \in VersionsOf(setting) /\ v # Nil /\ v.root = r
  BY FingerprintIs DEF PlansInv
<1> HIDE DEF v
<1>2. v \notin DOMAIN versions
  BY <1>1 DEF PlansInv, VersionsOK
<1>3. versions' = WithRow(versions, v, row)
  BY DEF v
<1>4. /\ row.state = "projecting" /\ row.terminal = "none" /\ row.frozen = Nil
      /\ row.ticket = [t \in v.tickets |-> FreshTicket] /\ row \in RowType(v)
  BY DEF NewVersion, RowType, FreshTicket, Ticket
<1> HIDE DEF row
<1>5. /\ DOMAIN versions' = DOMAIN versions \cup {v} /\ versions'[v] = row
      /\ \A w \in DOMAIN versions : versions'[w] = versions[w]
  BY <1>2, <1>3 DEF WithRow
<1>6. /\ plans' \in [Roots -> [current : VersionsOf(setting) \cup {Nil},
                               state : {"none", "projecting", "active"}]]
      /\ plans'[r].current = v /\ plans'[r].state = "projecting"
      /\ \A x \in Roots : x # r => plans'[x] = plans[x]
  BY <1>1 DEF PlansInv, CurrentOK, v
<1>7. Grows /\ KeepsDelivered
  BY <1>5 DEF Grows, ActiveVersion, KeepsDelivered, Keeps
<1>8. \A w \in DOMAIN versions : w.root \in Roots /\ w.root # r /\ w # v
  BY <1>2, InvRecords DEF PlansInv, VersionsOK
<1>9. \A w \in DOMAIN versions : /\ IsCurrent(w)' <=> IsCurrent(w)
                                 /\ CurrentActive(w)' <=> CurrentActive(w)
                                 /\ Current(w.root)' = Current(w.root)
  BY <1>5, <1>6, <1>8 DEF IsCurrent, CurrentActive, Current
<1>10. RowOK(v, row) /\ ~LiveRow(row)
  BY <1>4 DEF RowOK, TicketOK, FreshTicket, LiveRow
<1>11. VersionsOK'
  <2> SUFFICES ASSUME NEW w \in DOMAIN versions'
               PROVE  /\ w \in VersionsOf(setting) /\ Current(w.root)' # Nil
                      /\ RowOK(w, versions'[w])
                      /\ LiveRow(versions'[w]) => IsCurrent(w)'
    BY DEF VersionsOK
  <2>1. CASE w = v
    BY <2>1, <1>1, <1>5, <1>6, <1>10 DEF Current
  <2>2. CASE w # v
    BY <2>2, <1>5, <1>9 DEF PlansInv, VersionsOK
  <2> QED BY <2>1, <2>2
<1>12. CurrentOK'
  <2>1. ASSUME NEW x \in Roots, plans'[x].current # Nil
        PROVE  /\ plans'[x].current \in DOMAIN versions' /\ plans'[x].current.root = x
               /\ plans'[x].state = versions'[plans'[x].current].state
    <3>1. CASE x = r
      BY <3>1, <1>1, <1>4, <1>5, <1>6
    <3>2. CASE x # r
      <4>1. /\ Current(x) \in DOMAIN versions /\ Current(x).root = x
            /\ plans[x].state = versions[Current(x)].state
        BY <2>1, <3>2, <1>6 DEF PlansInv, CurrentOK, Current
      <4> QED BY <3>2, <4>1, <1>5, <1>6 DEF Current
    <3> QED BY <3>1, <3>2
  <2> QED BY <2>1, <1>6 DEF CurrentOK, Current, Roots
<1>13. QuestionsOK'
  <2> SUFFICES ASSUME NEW q \in questions
               PROVE  /\ q = Question(q.kind, q.version, q.ticket)
                      /\ ActiveVersion(q.version)' /\ q.ticket \in q.version.tickets
                      /\ q.kind = "attention" /\ CurrentActive(q.version)' =>
                            versions'[q.version].ticket[q.ticket].state = "needs_attention"
    BY DEF QuestionsOK, At
  <2>1. /\ q = Question(q.kind, q.version, q.ticket)
        /\ ActiveVersion(q.version) /\ q.ticket \in q.version.tickets
        /\ q.kind = "attention" /\ CurrentActive(q.version) =>
              versions[q.version].ticket[q.ticket].state = "needs_attention"
    BY DEF PlansInv, QuestionsOK, At
  <2> QED BY <2>1, <1>5, <1>7, <1>9 DEF Grows, ActiveVersion
<1>14. \A p \in proposals : p.version \in DOMAIN versions
  BY DEF PlansInv, ProposalsOK, ActiveVersion
<1>15. ProposalsOK'
  <2>1. \A p \in proposals : ActiveVersion(p.version)' /\ (IsCurrent(p.version)' => IsCurrent(p.version))
    BY <1>7, <1>9, <1>14 DEF PlansInv, ProposalsOK, Grows
  <2> QED BY <2>1 DEF PlansInv, ProposalsOK
<1>16. PausesOK'
  <2>1. \A p \in proposals : /\ versions'[p.version] = versions[p.version]
                             /\ IsCurrent(p.version)' => IsCurrent(p.version)
    BY <1>5, <1>9, <1>14
  <2> QED BY <2>1 DEF PlansInv, PausesOK, At
<1>17. ActivatedIsShown'
  BY <1>4, <1>5 DEF PlansInv, ActivatedIsShown
<1>18. StoppedIsAskable'
  <2> SUFFICES ASSUME NEW w \in DOMAIN versions', CurrentActive(w)'
               PROVE  /\ versions'[w].frozen # Nil =>
                            Question("attention", w, versions'[w].frozen) \in questions
                      /\ \A t \in w.tickets : versions'[w].ticket[t].state = "needs_attention" =>
                            Question("attention", w, t) \in questions
                      /\ \A p \in proposals : p.version = w =>
                            Question("amendment", w, p.ticket) \in questions
    BY DEF StoppedIsAskable, Unfrozen, At
  <2>1. w # v
    BY <1>4, <1>5 DEF CurrentActive
  <2>2. w \in DOMAIN versions /\ CurrentActive(w) /\ versions'[w] = versions[w]
    BY <2>1, <1>5, <1>9
  <2> QED BY <2>2 DEF PlansInv, StoppedIsAskable, Unfrozen, At
<1>19. Current(r)' = v /\ versions'[v].state = "projecting"
  BY <1>4, <1>5, <1>6 DEF Current
<1> QED BY <1>7, <1>11, <1>12, <1>13, <1>15, <1>16, <1>17, <1>18, <1>19 DEF RecordsOK, v

\* An activation starts with the version that GitHub shows, or goes on with it.
LEMMA BeginActivationStep ==
    ASSUME PlansInv, BeginActivation
    PROVE  Preserved
<1> DEFINE r == control.root
           v == Fingerprint(r)
<1>1. /\ control.at = "activate" /\ Current(r) \in {Nil, v}
      /\ control' = [control EXCEPT !.at = ActivationStep(Current(r) # Nil, versions'[v])]
      /\ UNCHANGED <<setting, proposals, questions, handoff, announced, reconciling>>
      /\ cursor' = cursor
  BY DEF BeginActivation
<1>2. RecordsOK /\ control \in PassType /\ cursor \in Roots \cup {0}
  BY InvRecords
<1>3. r \in Roots
  BY <1>1 DEF PlansInv, ControlOK
<1>4. v # Nil
  BY <1>3, FingerprintIs DEF PlansInv
<1>5. /\ RecordsOK' /\ Grows /\ KeepsDelivered /\ Current(r)' = v
  <2>1. CASE Current(r) = Nil
    BY <1>1, <1>3, <2>1, FirstVersion DEF BeginActivation
  <2>2. CASE Current(r) # Nil
    <3>1. UNCHANGED <<versions, plans>>
      BY <2>2 DEF BeginActivation
    <3>2. Current(r)' = v
      BY <1>1, <2>2, <3>1 DEF Current
    <3> QED BY <1>1, <1>2, <3>1, <3>2, RecordsKept
  <2> QED BY <2>1, <2>2
<1> HIDE DEF v
<1>6. PICK at \in {"project", "retry"} :
         /\ at = ActivationStep(Current(r) # Nil, versions'[v])
         /\ at = "project" => versions'[v].state = "projecting"
  BY DEF ActivationStep
<1>7. /\ control' \in PassType /\ control'.at = at /\ control'.root = r
      /\ control'.todo = control.todo
  BY <1>1, <1>2, <1>6 DEF PassType
<1>8. ListsOK' /\ HandoffOK'
  BY <1>1, <1>5, <1>7, ListsKept, HandoffKept DEF PlansInv
<1>9. ControlOK'
  BY <1>1, <1>3, <1>4, <1>5, <1>6, <1>7 DEF ControlOK, PassType, Roots, Current
<1> QED BY <1>1, <1>2, <1>5, <1>8, <1>9 DEF Preserved, PlansInv, RecordsOK, Roots

\* A ticket is settled, by its delivery or by the answer of a human, and with
\* it what was asked about it.
LEMMA SettledStep ==
    ASSUME PlansInv, NEW v, ActiveVersion(v), NEW t \in v.tickets, NEW row,
           RowOK(v, row), Keeps(versions[v], row), row.state = "active",
           row.terminal = "none" => versions[v].terminal = "none",
           row.frozen \in {Nil, versions[v].frozen}, row.frozen = t => t = Nil,
           row.ticket[t].run \in {"none", versions[v].ticket[t].run},
           row.ticket[t].state # "needs_attention",
           \A u \in v.tickets : u # t => row.ticket[u] = versions[v].ticket[u],
           versions' = [versions EXCEPT ![v] = row],
           UNCHANGED <<setting, plans, proposals, announced>>,
           questions' \subseteq questions, Question("attention", v, t) \notin questions',
           \A q \in questions \ questions' :
              q.version = v /\ q.ticket = t /\ q.kind # "amendment"
    PROVE  RecordsOK' /\ Grows /\ StatesKept /\ KeepsDelivered
<1>1. v \in DOMAIN versions /\ versions[v].state = "active"
  BY DEF ActiveVersion
<1>2. /\ RecordsOK /\ RowOK(v, versions[v])
      /\ LiveRow(versions[v]) => CurrentActive(v)
  BY <1>1, InvRecords
<1>3. LiveRow(row) => IsCurrent(v)
  <2>1. DOMAIN row.ticket = v.tickets /\ DOMAIN versions[v].ticket = v.tickets
    BY <1>2 DEF RowOK, RowType
  <2>2. LiveRow(row) => LiveRow(versions[v])
    BY <2>1 DEF LiveRow
  <2> QED BY <1>2, <2>2 DEF CurrentActive
<1>4. \A p \in proposals, u \in v.tickets : p.version = v /\ u \in p.affected =>
         row.ticket[u].run \in {"none", "delivery", versions[v].ticket[u].run}
  <2> TAKE p \in proposals, u \in v.tickets
  <2>1. CASE u = t
    BY <2>1
  <2>2. CASE u # t
    BY <2>2
  <2> QED BY <2>1, <2>2
<1>5. \A q \in questions' : \/ q \in questions
                            \/ \E u \in v.tickets : \E k \in {"attention", "impact", "amendment"} :
                                  q = Question(k, v, u)
  OBVIOUS
<1>6. \A q \in questions : q.version # v => q \in questions'
  OBVIOUS
<1>7. ASSUME CurrentActive(v) PROVE AsksFor(v, row, questions', proposals)
  <2>1. AsksFor(v, versions[v], questions, proposals)
    BY <1>1, <1>2, <1>7, ActiveAsks
  <2>2. row.frozen # Nil => Question("attention", v, row.frozen) \in questions'
    <3> SUFFICES ASSUME row.frozen # Nil
                 PROVE  Question("attention", v, row.frozen) \in questions'
      OBVIOUS
    <3>1. row.frozen = versions[v].frozen /\ row.frozen # t
      OBVIOUS
    <3>2. Question("attention", v, row.frozen) \in questions
      BY <2>1, <3>1 DEF AsksFor
    <3>3. Question("attention", v, row.frozen).ticket # t
      BY <3>1 DEF Question
    <3> QED BY <3>2, <3>3
  <2>3. ASSUME NEW u \in v.tickets
        PROVE  row.ticket[u].state = "needs_attention" <=> Question("attention", v, u) \in questions'
    <3>1. CASE u = t
      BY <3>1
    <3>2. CASE u # t
      <4>1. Question("attention", v, u).ticket # t
        BY <3>2 DEF Question
      <4> QED BY <2>1, <3>2, <4>1 DEF AsksFor
    <3> QED BY <3>1, <3>2
  <2>4. ASSUME NEW p \in proposals, p.version = v
        PROVE  Question("amendment", v, p.ticket) \in questions'
    <3>1. Question("amendment", v, p.ticket) \in questions
      BY <2>1, <2>4 DEF AsksFor
    <3>2. Question("amendment", v, p.ticket).kind = "amendment"
      BY DEF Question
    <3> QED BY <3>1, <3>2
  <2> QED BY <2>2, <2>3, <2>4 DEF AsksFor
<1>8. CurrentActive(v) /\ row.terminal = "none" => AsksFor(v, row, questions', proposals)
  BY <1>7
<1> QED BY <1>1, <1>2, <1>3, <1>4, <1>5, <1>6, <1>8, RowStep

\* A merged pull request.
LEMMA DeliveredStep ==
    ASSUME PlansInv, NEW v, ActiveVersion(v), NEW t \in v.tickets,
           MarkTicketDelivered(v, t),
           UNCHANGED <<setting, plans, proposals, announced>>
    PROVE  RecordsOK' /\ Grows /\ StatesKept /\ KeepsDelivered
<1> DEFINE thawed == ThawedOf(versions[v], t)
           row == DeliveredOf(versions[v], t)
<1>1. /\ v \in DOMAIN versions /\ versions[v].state = "active" /\ RowOK(v, versions[v])
  BY InvRecords DEF ActiveVersion
<1>2. /\ RowOK(v, thawed) /\ thawed.state = versions[v].state
      /\ thawed.terminal = versions[v].terminal /\ thawed.ticket = versions[v].ticket
      /\ thawed.frozen \in {Nil, versions[v].frozen} /\ (thawed.frozen = t => t = Nil)
  BY <1>1, ThawedRow DEF ThawedOf
<1>3. \/ versions[v].ticket[t].state = "delivered" /\ versions' = [versions EXCEPT ![v] = thawed]
      \/ versions[v].ticket[t].state # "delivered" /\ versions' = [versions EXCEPT ![v] = row]
  BY <1>2 DEF MarkTicketDelivered, ThawedOf, DeliveredOf
<1> HIDE DEF thawed, row
<1>6. /\ questions' \subseteq questions /\ Question("attention", v, t) \notin questions'
      /\ \A q \in questions \ questions' :
            q.version = v /\ q.ticket = t /\ q.kind # "amendment"
  BY DEF MarkTicketDelivered, Question
<1>4. CASE versions[v].ticket[t].state = "delivered" /\ versions' = [versions EXCEPT ![v] = thawed]
  <2>1. Keeps(versions[v], thawed)
    BY <1>2 DEF Keeps
  <2>2. /\ thawed.ticket[t].state # "needs_attention" /\ thawed.state = "active"
        /\ thawed.ticket[t].run \in {"none", versions[v].ticket[t].run}
        /\ \A u \in v.tickets : u # t => thawed.ticket[u] = versions[v].ticket[u]
        /\ thawed.terminal = "none" => versions[v].terminal = "none"
    BY <1>1, <1>2, <1>4
  <2> QED BY <1>1, <1>2, <1>4, <1>6, <2>1, <2>2, SettledStep
<1>5. CASE versions[v].ticket[t].state # "delivered" /\ versions' = [versions EXCEPT ![v] = row]
  <2>1. /\ RowOK(v, row) /\ Keeps(versions[v], row) /\ row.state = versions[v].state
        /\ row.terminal = "none" => versions[v].terminal = "none"
        /\ row.frozen \in {Nil, versions[v].frozen} /\ (row.frozen = t => t = Nil)
        /\ row.ticket[t].run = "none" /\ row.ticket[t].state = "delivered"
        /\ \A u \in v.tickets : u # t => row.ticket[u] = versions[v].ticket[u]
    BY <1>1, <1>5, DeliveredRow DEF row
  <2>2. /\ row.ticket[t].run \in {"none", versions[v].ticket[t].run}
        /\ row.ticket[t].state # "needs_attention" /\ row.state = "active"
    BY <1>1, <2>1
  <2> QED BY <1>1, <1>5, <1>6, <2>1, <2>2, SettledStep
<1> QED BY <1>3, <1>4, <1>5

\* A pull request that was closed without a merge.
LEMMA FreezeStep ==
    ASSUME PlansInv, NEW v, ActiveVersion(v), NEW t \in v.tickets, FreezePlan(v, t),
           UNCHANGED <<setting, plans, proposals, announced>>
    PROVE  RecordsOK' /\ Grows /\ StatesKept /\ KeepsDelivered
<1> DEFINE open == Undelivered(versions[v])
           row == FrozenOf(versions[v], t)
<1>1. /\ v \in DOMAIN versions /\ versions[v].state = "active" /\ RowOK(v, versions[v])
      /\ RecordsOK
  BY InvRecords DEF ActiveVersion
<1>2. CASE t \notin open \/ versions[v].frozen # Nil
  BY <1>1, <1>2, RecordsKept DEF FreezePlan
<1>3. CASE t \in open /\ versions[v].frozen = Nil
  <2>1. /\ versions' = [versions EXCEPT ![v] = row]
        /\ questions' = Asked(v, open) \cup {Question("impact", v, t)}
    BY <1>3 DEF FreezePlan, FrozenOf
  <2>2. /\ RowOK(v, row) /\ Keeps(versions[v], row) /\ row.state = versions[v].state
        /\ row.terminal = versions[v].terminal /\ row.frozen = t
        /\ \A u \in v.tickets :
              /\ row.ticket[u].run = "none"
              /\ row.ticket[u].state = "needs_attention" <=> u \in open
    BY <1>1, <1>3, FrozenRow
  <2> HIDE DEF row
  <2>4. open \subseteq v.tickets
    BY <1>1 DEF Undelivered, RowOK, RowType
  <2>5. ~LiveRow(row)
    BY <2>2 DEF LiveRow, RowOK, RowType
  <2> HIDE DEF open
  <2>6. \A q \in questions' : \/ q \in questions
                              \/ \E u \in v.tickets : \E k \in {"attention", "impact", "amendment"} :
                                    q = Question(k, v, u)
    BY <2>1, <2>4 DEF Asked
  <2>7. questions \subseteq questions'
    BY <2>1 DEF Asked
  <2>8. ASSUME CurrentActive(v) PROVE AsksFor(v, row, questions', proposals)
    <3>1. AsksFor(v, versions[v], questions, proposals)
      BY <1>1, <2>8, ActiveAsks
    <3>2. \A u \in open : Question("attention", v, u) \in questions'
      BY <2>1 DEF Asked
    <3>3. row.frozen # Nil => Question("attention", v, row.frozen) \in questions'
      BY <1>3, <2>2, <3>2
    <3>4. ASSUME NEW u \in v.tickets, Question("attention", v, u) \in questions'
          PROVE  u \in open
      <4>1. CASE Question("attention", v, u) \in questions
        <5>1. versions[v].ticket[u].state = "needs_attention"
          BY <3>1, <4>1 DEF AsksFor
        <5> QED BY <1>1, <5>1 DEF open, Undelivered, RowOK, RowType
      <4>2. CASE Question("attention", v, u) \notin questions
        BY <2>1, <3>4, <4>2 DEF Asked, Question
      <4> QED BY <4>1, <4>2
    <3>5. \A p \in proposals : p.version = v => Question("amendment", v, p.ticket) \in questions'
      BY <2>7, <3>1 DEF AsksFor
    <3> QED BY <2>2, <3>2, <3>3, <3>4, <3>5 DEF AsksFor
  <2>3. UNCHANGED <<setting, plans, proposals, announced>>
    OBVIOUS
  <2>9. /\ row.state = "active" /\ (LiveRow(row) => IsCurrent(v))
        /\ row.terminal = "none" => versions[v].terminal = "none"
        /\ CurrentActive(v) /\ row.terminal = "none" => AsksFor(v, row, questions', proposals)
        /\ \A p \in proposals, u \in v.tickets : p.version = v /\ u \in p.affected =>
              row.ticket[u].run \in {"none", "delivery", versions[v].ticket[u].run}
        /\ \A q \in questions : q.version # v => q \in questions'
    BY <1>1, <2>2, <2>5, <2>7, <2>8
  <2> QED BY <1>1, <2>1, <2>2, <2>3, <2>6, <2>9, RowStep
<1> QED BY <1>2, <1>3

\* A pull request of either list, seen as merged, closed or open.
LEMMA ObserveStep ==
    ASSUME PlansInv, NEW v, ActiveVersion(v), NEW t \in v.tickets, NEW pull,
           ObservePull(v, t, pull)
    PROVE  /\ RecordsOK' /\ Grows /\ StatesKept /\ KeepsDelivered
           /\ UNCHANGED <<setting, plans, proposals, handoff, announced>> /\ cursor' = cursor
<1>1. UNCHANGED <<setting, plans, proposals, handoff, announced>> /\ cursor' = cursor
  BY DEF ObservePull
<1>2. CASE MarkTicketDelivered(v, t)
  BY <1>1, <1>2, DeliveredStep
<1>3. CASE FreezePlan(v, t)
  BY <1>1, <1>3, FreezeStep
<1>4. CASE UNCHANGED <<versions, questions>>
  BY <1>1, <1>4, InvRecords, RecordsKept
<1> QED BY <1>1, <1>2, <1>3, <1>4 DEF ObservePull

\* The poll of the control process takes a pull request from its list.
LEMMA PollTicketStep ==
    ASSUME PlansInv, NEW s \in control.todo, NEW pull, PollTicket(s[1], s[2], pull)
    PROVE  Preserved
<1>1. ActiveVersion(s[1]) /\ s[2] \in s[1].tickets
  BY DEF PlansInv, ListsOK
<1>2. ObservePull(s[1], s[2], pull)
  BY DEF PollTicket
<1>3. /\ RecordsOK' /\ Grows /\ StatesKept /\ KeepsDelivered
      /\ UNCHANGED <<setting, plans, proposals, handoff, announced>> /\ cursor' = cursor
  BY <1>1, <1>2, ObserveStep
<1>4. control \in PassType /\ cursor \in Roots \cup {0}
  BY InvRecords
<1>5. PICK after \in {"poll", "end"} :
         control' = [control EXCEPT !.todo = @ \ {<<s[1], s[2]>>}, !.after = after]
  <2>1. (IF pull = "merged" THEN "end" ELSE control.after) \in {"poll", "end"}
    BY <1>4 DEF PassType
  <2> QED BY <2>1 DEF PollTicket
<1>6. /\ control' \in PassType /\ control'.at = control.at /\ control'.root = control.root
      /\ control'.todo \subseteq control.todo /\ reconciling' = reconciling
  BY <1>4, <1>5 DEF PassType, PollTicket
<1>7. ListsOK'
  BY <1>3, <1>6, ListsKept DEF PlansInv
<1> QED BY <1>3, <1>4, <1>6, <1>7, PassKept

\* The reconcile-delivered process takes one from its own list.
LEMMA ReconcileTicketStep ==
    ASSUME PlansInv, NEW s \in reconciling, NEW pull, ReconcileTicket(s[1], s[2], pull)
    PROVE  Preserved
<1>1. ActiveVersion(s[1]) /\ s[2] \in s[1].tickets
  BY DEF PlansInv, ListsOK
<1>2. /\ ObservePull(s[1], s[2], pull) /\ control' = control
      /\ reconciling' \subseteq reconciling
  BY DEF ReconcileTicket
<1>3. /\ RecordsOK' /\ Grows /\ StatesKept /\ KeepsDelivered
      /\ UNCHANGED <<setting, plans, proposals, handoff, announced>> /\ cursor' = cursor
  BY <1>1, <1>2, ObserveStep
<1>4. control \in PassType /\ cursor \in Roots \cup {0}
  BY InvRecords
<1>5. ListsOK'
  BY <1>2, <1>3, ListsKept DEF PlansInv
<1> QED BY <1>2, <1>3, <1>4, <1>5, PassKept

-----------------------------------------------------------------------------
(* The answers.                                                             *)

\* An open question is about a ticket of an activated version.
LEMMA QuestionIs ==
    ASSUME PlansInv, NEW q \in questions
    PROVE  /\ q = Question(q.kind, q.version, q.ticket)
           /\ ActiveVersion(q.version) /\ q.version \in DOMAIN versions
           /\ q.ticket \in q.version.tickets
  BY DEF PlansInv, QuestionsOK, ActiveVersion

\* What a pass keeps when an answer writes rows of one version.
LEMMA AnswerKept ==
    ASSUME PlansInv, RecordsOK', Grows, StatesKept, KeepsDelivered,
           UNCHANGED <<plans, handoff, announced, control, reconciling>>, cursor' = cursor
    PROVE  Preserved
<1>1. control' \in PassType /\ cursor' \in Roots \cup {0}
  BY InvRecords
<1>2. ListsOK'
  BY ListsKept DEF PlansInv
<1> QED BY <1>1, <1>2, PassKept

\* The human lets a ticket go on.
LEMMA AnswerNeedsAttentionStep ==
    ASSUME PlansInv, NEW q \in questions, AnswerNeedsAttention(q.version, q.ticket)
    PROVE  Preserved
<1> DEFINE v == q.version
           t == q.ticket
           row == RecoveredOf(versions[v], t)
<1>1. ActiveVersion(v) /\ v \in DOMAIN versions /\ t \in v.tickets
  BY QuestionIs
<1>2. /\ Question("attention", v, t) \in questions /\ CurrentActive(v)
      /\ versions' = [versions EXCEPT ![v].frozen = Thawed(@, t),
                                      ![v].ticket[t] = Recovered(@)]
      /\ questions' = questions \ {Question("attention", v, t)}
      /\ UNCHANGED <<setting, plans, proposals, handoff, announced, control, reconciling>>
      /\ cursor' = cursor
  BY DEF AnswerNeedsAttention, Answerable
<1>3. RecordsOK /\ RowOK(v, versions[v])
  BY <1>1, InvRecords
<1>4. /\ versions[v] \in RowType(v) /\ versions[v].state = "active"
      /\ versions[v].terminal = "none"
  BY <1>2, <1>3 DEF RowOK, CurrentActive
<1>5. versions[v].ticket[t].state = "needs_attention"
  BY <1>1, <1>2, <1>3, ActiveAsks DEF AsksFor
<1>6. versions' = [versions EXCEPT ![v] = row]
  BY <1>1, <1>2, <1>4 DEF ThawedOf, RecoveredOf, RowType
<1>7. /\ RowOK(v, row) /\ Keeps(versions[v], row) /\ row.state = "active"
      /\ row.terminal = "none" => versions[v].terminal = "none"
      /\ row.frozen \in {Nil, versions[v].frozen} /\ (row.frozen = t => t = Nil)
      /\ row.ticket[t].run \in {"none", versions[v].ticket[t].run}
      /\ row.ticket[t].state # "needs_attention"
      /\ \A u \in v.tickets : u # t => row.ticket[u] = versions[v].ticket[u]
  <2>1. row.ticket[t].run = "none" /\ row.state = versions[v].state
    BY <1>1, <1>3, <1>4, <1>5, RecoveredRow
  <2> QED BY <1>1, <1>3, <1>4, <1>5, <2>1, RecoveredRow
<1> HIDE DEF row
<1>8. /\ questions' \subseteq questions /\ Question("attention", v, t) \notin questions'
      /\ \A x \in questions \ questions' :
            x.version = v /\ x.ticket = t /\ x.kind # "amendment"
  BY <1>2 DEF Question
<1>9. RecordsOK' /\ Grows /\ StatesKept /\ KeepsDelivered
  BY <1>1, <1>2, <1>6, <1>7, <1>8, SettledStep
<1> QED BY <1>2, <1>9, AnswerKept

\* The human cancels a plan whose pull request was closed.
LEMMA AnswerCancelPlanStep ==
    ASSUME PlansInv, NEW q \in questions, AnswerCancelPlan(q.version, q.ticket)
    PROVE  Preserved
<1> DEFINE v == q.version
<1>1. ActiveVersion(v)
  BY QuestionIs
<1>2. /\ versions' = [versions EXCEPT ![v] = CancelPlan(@)]
      /\ questions' = questions \ {Question("impact", v, q.ticket)}
      /\ UNCHANGED <<setting, plans, proposals, handoff, announced, control, reconciling>>
      /\ cursor' = cursor
  BY DEF AnswerCancelPlan
<1>3. questions' \subseteq questions /\ \A x \in questions : x.version # v => x \in questions'
  BY <1>2 DEF Question
<1> HIDE DEF v
<1>4. RecordsOK' /\ Grows /\ StatesKept /\ KeepsDelivered
  BY <1>1, <1>2, <1>3, CancelStep
<1> QED BY <1>2, <1>4, AnswerKept

\* Questions that are neither about attention nor about an amendment, or about
\* an amendment that is dropped with its question, may go.
LEMMA QuestionsDropped ==
    ASSUME PlansInv, UNCHANGED <<setting, plans, versions, announced>>,
           proposals' \subseteq proposals, questions' \subseteq questions,
           \A q \in questions \ questions' : q.kind # "attention",
           \A p \in proposals' : Question("amendment", p.version, p.ticket) \in questions =>
              Question("amendment", p.version, p.ticket) \in questions'
    PROVE  RecordsOK' /\ Grows /\ StatesKept /\ KeepsDelivered
<1>1. VersionsOK' /\ CurrentOK' /\ ActivatedIsShown'
  BY DEF PlansInv, VersionsOK, CurrentOK, ActivatedIsShown, Roots, Current, IsCurrent
<1>2. QuestionsOK'
  BY DEF PlansInv, QuestionsOK, ActiveVersion, CurrentActive, IsCurrent, At
<1>3. ProposalsOK' /\ PausesOK'
  BY DEF PlansInv, ProposalsOK, PausesOK, IsCurrent, At, ActiveVersion
<1>4. StoppedIsAskable'
  <2> SUFFICES ASSUME NEW w \in DOMAIN versions, CurrentActive(w)
               PROVE  /\ versions[w].frozen # Nil =>
                            Question("attention", w, versions[w].frozen) \in questions'
                      /\ \A t \in w.tickets : versions[w].ticket[t].state = "needs_attention" =>
                            Question("attention", w, t) \in questions'
                      /\ \A p \in proposals' : p.version = w =>
                            Question("amendment", w, p.ticket) \in questions'
    BY DEF StoppedIsAskable, Unfrozen, At, CurrentActive, IsCurrent
  <2>1. AsksFor(w, versions[w], questions, proposals)
    BY ActiveAsks, InvRecords
  <2>2. \A t : Question("attention", w, t) \in questions => Question("attention", w, t) \in questions'
    <3> TAKE t
    <3>1. Question("attention", w, t).kind = "attention"
      BY DEF Question
    <3> QED BY <3>1
  <2> QED BY <2>1, <2>2 DEF AsksFor
<1>5. Grows /\ StatesKept /\ KeepsDelivered
  BY DEF Grows, ActiveVersion, StatesKept, KeepsDelivered, Keeps
<1> QED BY <1>1, <1>2, <1>3, <1>4, <1>5 DEF RecordsOK

\* The human hands a frozen plan over to another one.
LEMMA AnswerReplaceStep ==
    ASSUME PlansInv, NEW q \in questions, NEW w \in DOMAIN versions,
           AnswerReplace(q.version, q.ticket, w)
    PROVE  Preserved
<1> DEFINE v == q.version
<1>1. ActiveVersion(v)
  BY QuestionIs
<1>2. /\ w # v /\ handoff' = WithRow(handoff, v, [state |-> "approved", target |-> w])
      /\ questions' = questions \ {Question("impact", v, q.ticket)}
      /\ UNCHANGED <<setting, plans, versions, proposals, announced, control, reconciling>>
      /\ cursor' = cursor
  BY DEF AnswerReplace
<1> HIDE DEF v
<1>3. /\ questions' \subseteq questions
      /\ \A x \in questions \ questions' : x.kind # "attention"
      /\ \A p \in proposals : Question("amendment", p.version, p.ticket) \in questions =>
            Question("amendment", p.version, p.ticket) \in questions'
  BY <1>2 DEF Question
<1>4. RecordsOK' /\ Grows /\ StatesKept /\ KeepsDelivered
  BY <1>2, <1>3, QuestionsDropped
<1>5. /\ DOMAIN handoff' = DOMAIN handoff \cup {v}
      /\ handoff'[v] = [state |-> "approved", target |-> w]
      /\ \A u \in DOMAIN handoff : u # v => handoff'[u] = handoff[u]
  BY <1>2 DEF WithRow
<1>6. HandoffOK'
  <2> SUFFICES ASSUME NEW u \in DOMAIN handoff'
               PROVE  /\ handoff'[u] \in [state : {"approved", "active"}, target : DOMAIN versions]
                      /\ ActiveVersion(u) /\ handoff'[u].target # u
    BY <1>2 DEF HandoffOK, ActiveVersion
  <2>1. CASE u = v
    BY <2>1, <1>1, <1>2, <1>5
  <2>2. CASE u # v
    BY <2>2, <1>5 DEF PlansInv, HandoffOK
  <2> QED BY <2>1, <2>2
<1>7. control' \in PassType /\ cursor' \in Roots \cup {0}
  BY <1>2, InvRecords
<1>8. ListsOK' /\ ControlOK'
  BY <1>2, <1>4, <1>7, ListsKept, ControlKept DEF PlansInv
<1> QED BY <1>2, <1>4, <1>6, <1>7, <1>8 DEF Preserved, PlansInv, RecordsOK, Roots

\* The human rejects an amendment: its pause and its question go with it.
LEMMA RejectAmendmentStep ==
    ASSUME PlansInv, NEW p \in proposals, RejectAmendment(p)
    PROVE  Preserved
<1>1. /\ proposals' = proposals \ {p} /\ CurrentActive(p.version)
      /\ questions' = questions \ {Question("amendment", p.version, p.ticket)}
      /\ UNCHANGED <<setting, plans, versions, handoff, announced, control, reconciling>>
      /\ cursor' = cursor
  BY DEF RejectAmendment, Answerable
<1>2. \A x \in proposals' : ~(x.version = p.version /\ x.ticket = p.ticket)
  BY <1>1 DEF PlansInv, ProposalsOK, CurrentActive
<1>3. /\ questions' \subseteq questions
      /\ \A x \in questions \ questions' : x.kind # "attention"
      /\ \A x \in proposals' : Question("amendment", x.version, x.ticket) \in questions =>
            Question("amendment", x.version, x.ticket) \in questions'
  BY <1>1, <1>2 DEF Question
<1>4. RecordsOK' /\ Grows /\ StatesKept /\ KeepsDelivered
  BY <1>1, <1>3, QuestionsDropped
<1> QED BY <1>1, <1>4, AnswerKept

-----------------------------------------------------------------------------
(* Amendments.                                                              *)

\* A set of changed tickets is among what depends on it.
LEMMA ChangedIsDownstream ==
    ASSUME NEW edges, NEW changed, NEW t \in changed
    PROVE  t \in Downstream(edges, changed)
  BY DEF Downstream

\* What agents may propose of a version stands for a version.
LEMMA AmendedIs ==
    ASSUME setting \in Settings, NEW v \in VersionsOf(setting), NEW c \in setting.changes
    PROVE  /\ Amended(v, c) \in VersionsOf(setting)
           /\ Amended(v, c).root = v.root /\ Amended(v, c).from = "amendment"
           /\ Amended(v, c).tickets = (v.tickets \ c.remove) \cup c.add
<1>1. c.add \subseteq TicketsOf(setting)
  BY DEF TicketsOf
<1>2. c.link \subseteq TicketsOf(setting) \X TicketsOf(setting)
  BY PlansConstants
<1>3. /\ v.root \in DOMAIN setting.graph /\ v.tickets \subseteq TicketsOf(setting)
      /\ v.blocks \subseteq TicketsOf(setting) \X TicketsOf(setting)
  BY DEF VersionsOf
<1>4. PICK ts : ts = AmendedTickets(v, c)
  OBVIOUS
<1>5. PICK bs : bs = AmendedBlocks(v, c)
  OBVIOUS
<1>6. ts = (v.tickets \ c.remove) \cup c.add /\ ts \subseteq TicketsOf(setting)
  BY <1>1, <1>3, <1>4 DEF AmendedTickets
<1>7. bs \subseteq TicketsOf(setting) \X TicketsOf(setting)
  BY <1>2, <1>3, <1>5 DEF AmendedBlocks
<1>8. Amended(v, c) = [root |-> v.root, tickets |-> ts, blocks |-> bs, from |-> "amendment"]
  BY <1>4, <1>5 DEF Amended
<1> QED BY <1>3, <1>6, <1>7, <1>8 DEF VersionsOf

\* A proposal pauses the tickets it affects and asks whether it may.  The run
\* that makes it works on a ticket that no other proposal has paused.
LEMMA ProposePlanAmendmentStep ==
    ASSUME PlansInv, NEW v \in DOMAIN versions, NEW c \in setting.changes,
           ProposePlanAmendment(v, c)
    PROVE  Preserved
<1> DEFINE A == Affected(v, c)
           row == [versions[v] EXCEPT !.ticket = [t \in v.tickets |->
                      IF t \in A THEN [@[t] EXCEPT !.run = "none"] ELSE @[t]]]
           new == [version |-> v, ticket |-> c.ticket, target |-> Amended(v, c),
                   affected |-> A]
<1>1. /\ CurrentActive(v) /\ versions[v].frozen = Nil
      /\ c.ticket \in v.tickets /\ c.remove \subseteq Undelivered(versions[v])
      /\ At(v, c.ticket).run = "work"
      /\ versions' = [versions EXCEPT ![v] = row]
      /\ proposals' = proposals \cup {new}
      /\ questions' = questions \cup {Question("amendment", v, c.ticket)}
      /\ UNCHANGED <<setting, plans, handoff, announced, control, reconciling>>
      /\ cursor' = cursor
  BY DEF ProposePlanAmendment, CurrentActiveUnfrozen, Unfrozen, ValidAmendment
<1>2. /\ RecordsOK /\ RowOK(v, versions[v]) /\ v \in VersionsOf(setting)
      /\ v.root \in Roots
  BY InvRecords
<1>3. /\ versions[v] \in RowType(v) /\ versions[v].ticket \in [v.tickets -> Ticket]
      /\ versions[v].state = "active" /\ versions[v].terminal = "none" /\ IsCurrent(v)
  BY <1>1, <1>2 DEF RowOK, RowType, CurrentActive
<1>4. Undelivered(versions[v]) = {t \in v.tickets : versions[v].ticket[t].state # "delivered"}
  BY <1>3 DEF Undelivered
<1>5. /\ A \subseteq v.tickets /\ c.remove \subseteq A /\ c.ticket \in A
  <2>1. A \subseteq v.tickets
    BY <1>4 DEF Affected
  <2>2. \A t \in Undelivered(versions[v]) : t \in ChangedTickets(c) => t \in A
    BY ChangedIsDownstream DEF Affected
  <2>3. c.remove \subseteq ChangedTickets(c) /\ c.ticket \in ChangedTickets(c)
    BY DEF ChangedTickets
  <2>4. c.ticket \in Undelivered(versions[v])
    BY <1>1, <1>2, <1>4 DEF RowOK, TicketOK, At
  <2> QED BY <1>1, <2>1, <2>2, <2>3, <2>4
<1> HIDE DEF A
<1>6. /\ RowOK(v, row) /\ Keeps(versions[v], row) /\ row.state = versions[v].state
      /\ row.terminal = versions[v].terminal /\ row.frozen = versions[v].frozen
      /\ \A t \in v.tickets :
            /\ row.ticket[t].state = versions[v].ticket[t].state
            /\ row.ticket[t].run = IF t \in A THEN "none" ELSE versions[v].ticket[t].run
  BY <1>2, <1>3, ProposedRow
<1> HIDE DEF row
<1>7. AsksFor(v, row, questions', proposals')
  <2>1. AsksFor(v, versions[v], questions, proposals)
    BY <1>1, <1>2, ActiveAsks
  <2>2. \A t : Question("attention", v, t) \in questions' <=> Question("attention", v, t) \in questions
    BY <1>1 DEF Question
  <2>3. \A p \in proposals' : p.version = v => Question("amendment", v, p.ticket) \in questions'
    BY <1>1, <2>1 DEF AsksFor
  <2> QED BY <1>6, <2>1, <2>2, <2>3 DEF AsksFor
<1>8. /\ VersionsOK' /\ CurrentOK' /\ QuestionsOK' /\ ActivatedIsShown'
      /\ StoppedIsAskable' /\ Grows /\ StatesKept /\ KeepsDelivered
  <2>1. /\ row.state = "active" /\ (LiveRow(row) => IsCurrent(v))
        /\ row.terminal = "none" => versions[v].terminal = "none"
        /\ CurrentActive(v) /\ row.terminal = "none" => AsksFor(v, row, questions', proposals')
    BY <1>3, <1>6, <1>7
  <2>2. \A p \in proposals' : p \in proposals \/ p.version = v
    BY <1>1
  <2>3. \A q \in questions' : \/ q \in questions
                              \/ \E t \in v.tickets : \E k \in {"attention", "impact", "amendment"} :
                                    q = Question(k, v, t)
    BY <1>1
  <2>4. \A q \in questions : q.version # v => q \in questions'
    BY <1>1
  <2>5. UNCHANGED <<setting, plans, announced>>
    BY <1>1
  <2> QED BY <1>1, <1>2, <1>3, <1>6, <2>1, <2>2, <2>3, <2>4, <2>5, RowWritten
<1>9. \A p \in proposals : ActiveVersion(p.version)'
  BY <1>8 DEF PlansInv, ProposalsOK, Grows, ActiveVersion
<1>10. /\ Amended(v, c) \in VersionsOf(setting) /\ Amended(v, c).root = v.root
       /\ Amended(v, c).from = "amendment"
       /\ Amended(v, c).tickets = (v.tickets \ c.remove) \cup c.add
  BY <1>2, AmendedIs DEF PlansInv
<1>11. /\ new.version = v /\ new.ticket = c.ticket /\ new.affected = A
       /\ new.target = Amended(v, c)
  OBVIOUS
<1> HIDE DEF new
<1>12. ActiveVersion(v)'
  BY <1>3, <1>8 DEF Grows, ActiveVersion
<1>13. ProposalsOK'
  <2>1. ASSUME NEW p \in proposals'
        PROVE  /\ ActiveVersion(p.version)'
               /\ p.target \in VersionsOf(setting) /\ p.target.from = "amendment"
               /\ p.target.root = p.version.root
               /\ p.ticket \in p.affected /\ p.affected \subseteq p.version.tickets
               /\ p.version.tickets \ p.target.tickets \subseteq p.affected
    <3>1. CASE p \in proposals
      BY <3>1, <1>9 DEF PlansInv, ProposalsOK
    <3>2. CASE p = new
      BY <3>2, <1>5, <1>10, <1>11, <1>12
    <3> QED BY <1>1, <3>1, <3>2
  <2>2. ASSUME NEW p \in proposals, p.version = v, p.ticket = c.ticket PROVE FALSE
    <3>1. c.ticket \in p.affected
      BY <2>2 DEF PlansInv, ProposalsOK
    <3>2. At(v, c.ticket).run \in {"none", "delivery"}
      BY <2>2, <1>3, <3>1 DEF PlansInv, PausesOK
    <3> QED BY <1>1, <3>2
  <2>3. ASSUME NEW p \in proposals', NEW q \in proposals', IsCurrent(p.version),
               p.version = q.version, p.ticket = q.ticket
        PROVE  p = q
    <3>1. CASE p \in proposals /\ q \in proposals
      BY <2>3, <3>1 DEF PlansInv, ProposalsOK
    <3>2. CASE p = new \/ q = new
      BY <2>2, <2>3, <3>2, <1>1, <1>11
    <3> QED BY <1>1, <3>1, <3>2
  <2> QED BY <1>1, <2>1, <2>3 DEF ProposalsOK, IsCurrent
<1>14. PausesOK'
  <2> SUFFICES ASSUME NEW p \in proposals', IsCurrent(p.version), NEW t \in p.affected
               PROVE  versions'[p.version].ticket[t].run \in {"none", "delivery"}
    BY <1>1 DEF PausesOK, IsCurrent, At
  <2>1. versions'[v] = row /\ \A w \in DOMAIN versions : w # v => versions'[w] = versions[w]
    BY <1>1
  <2>2. CASE p = new
    BY <2>1, <2>2, <1>5, <1>6, <1>11
  <2>3. CASE p \in proposals
    <3>1. /\ p.version \in DOMAIN versions /\ t \in p.version.tickets
          /\ versions[p.version].ticket[t].run \in {"none", "delivery"}
      BY <2>3 DEF PlansInv, ProposalsOK, PausesOK, ActiveVersion, At
    <3> QED BY <3>1, <2>1, <1>6
  <2> QED BY <1>1, <2>2, <2>3
<1>15. RecordsOK'
  BY <1>8, <1>13, <1>14 DEF RecordsOK
<1> QED BY <1>1, <1>8, <1>15, AnswerKept

\* What a version that is replaced keeps: the states of its tickets, no runs.
LEMMA SourceRowIs ==
    ASSUME NEW p, RowOK(p.version, versions[p.version]),
           versions[p.version].state = "active",
           p.version.tickets \ p.target.tickets \subseteq p.affected
    PROVE  LET new == SourceRow(p)
               row == versions[p.version]
           IN  /\ RowOK(p.version, new) /\ Keeps(row, new) /\ ~LiveRow(new)
               /\ new.state = "active" /\ new.terminal = row.terminal
<1> DEFINE row == versions[p.version]
           v == p.version
<1>1. row \in RowType(v) /\ row.ticket \in [v.tickets -> Ticket]
  BY DEF RowOK, RowType
<1>2. PICK f : f = [t \in v.tickets |->
            IF t \in Carried(p) THEN LeftBehind(row.ticket[t])
            ELSE IF t \in p.affected THEN [row.ticket[t] EXCEPT !.run = "none"]
            ELSE row.ticket[t]]
  OBVIOUS
<1>3. \A t \in v.tickets : t \in Carried(p) \/ t \in p.affected
  BY DEF Carried
<1>4. \A t \in v.tickets :
         f[t] \in Ticket /\ f[t].run = "none" /\ f[t].state = row.ticket[t].state
  <2> TAKE t \in v.tickets
  <2>1. row.ticket[t] \in Ticket
    BY <1>1
  <2>2. CASE t \in Carried(p)
    BY <2>1, <2>2, <1>2 DEF Ticket, LeftBehind
  <2>3. CASE t \notin Carried(p)
    BY <2>1, <2>3, <1>2, <1>3 DEF Ticket
  <2> QED BY <2>2, <2>3
<1>5. f \in [v.tickets -> Ticket]
  BY <1>2, <1>4
<1> DEFINE new == [row EXCEPT !.ticket = f]
<1>6. new = SourceRow(p)
  BY <1>1, <1>2 DEF SourceRow
<1>7. /\ new \in RowType(v) /\ new.ticket = f /\ new.state = row.state
      /\ new.terminal = row.terminal /\ new.frozen = row.frozen
  BY <1>1, <1>5 DEF RowType
<1> HIDE DEF new
<1>8. \A t \in v.tickets : TicketOK(new, new.ticket[t])
  BY <1>4, <1>7 DEF RowOK, TicketOK
<1>9. new.frozen # Nil => new.ticket[new.frozen].state # "delivered"
  BY <1>1, <1>4, <1>7 DEF RowOK, RowType
<1>10. RowOK(v, new)
  BY <1>7, <1>8, <1>9 DEF RowOK
<1>11. Keeps(row, new) /\ ~LiveRow(new)
  BY <1>1, <1>4, <1>5, <1>7 DEF Keeps, LiveRow
<1> QED BY <1>6, <1>7, <1>10, <1>11

\* The row of the version that replaces another: the carried tickets are what
\* they were, a run that worked goes on, and the rest is fresh.
LEMMA AmendedRowIs ==
    ASSUME NEW p, RowOK(p.version, versions[p.version]),
           versions[p.version].state = "active"
    PROVE  LET new == AmendedRow(p)
           IN  /\ RowOK(p.target, new) /\ new.state = "active"
               /\ new.terminal = "none" /\ new.frozen = Nil
               /\ \A t \in p.target.tickets : new.ticket[t].state =
                     IF t \in Carried(p) THEN versions[p.version].ticket[t].state
                     ELSE "queued"
<1> DEFINE row == versions[p.version]
<1>1. row.ticket \in [p.version.tickets -> Ticket]
  BY DEF RowOK, RowType
<1>2. PICK f : f = [t \in p.target.tickets |->
            IF t \in Carried(p) THEN TakenAlong(row.ticket[t]) ELSE FreshTicket]
  OBVIOUS
<1>3. Carried(p) \subseteq p.version.tickets
  BY DEF Carried
<1>4. \A t \in p.target.tickets :
         /\ f[t] \in Ticket
         /\ f[t].run # "none" => f[t].state = "running"
         /\ f[t].state = IF t \in Carried(p) THEN row.ticket[t].state ELSE "queued"
  <2> TAKE t \in p.target.tickets
  <2>1. CASE t \in Carried(p)
    <3>1. row.ticket[t] \in Ticket
      BY <2>1, <1>1, <1>3
    <3>2. row.ticket[t].run # "none" => row.ticket[t].state = "running"
      BY <2>1, <1>3 DEF RowOK, TicketOK
    <3>3. f[t] = TakenAlong(row.ticket[t])
      BY <2>1, <1>2
    <3> QED BY <2>1, <3>1, <3>2, <3>3 DEF TakenAlong, Ticket
  <2>2. CASE t \notin Carried(p)
    BY <2>2, <1>2 DEF FreshTicket, Ticket
  <2> QED BY <2>1, <2>2
<1>5. f \in [p.target.tickets -> Ticket]
  BY <1>2, <1>4
<1> DEFINE new == [state |-> "active", terminal |-> "none", frozen |-> Nil, ticket |-> f]
<1>6. new = AmendedRow(p)
  BY <1>2 DEF AmendedRow, NewVersion
<1>7. /\ new \in RowType(p.target) /\ new.ticket = f /\ new.state = "active"
      /\ new.terminal = "none" /\ new.frozen = Nil
  BY <1>5 DEF RowType
<1> HIDE DEF new
<1>8. \A t \in p.target.tickets : TicketOK(new, new.ticket[t])
  BY <1>4, <1>7 DEF TicketOK
<1>9. RowOK(p.target, new)
  BY <1>7, <1>8 DEF RowOK
<1> QED BY <1>4, <1>6, <1>7, <1>9

\* A question moves with the ticket it is about, or stays.
LEMMA MovedIs ==
    ASSUME NEW p, NEW q, q = Question(q.kind, q.version, q.ticket)
    PROVE  LET new == MovedQuestion(p, q)
           IN  /\ new = Question(new.kind, new.version, new.ticket)
               /\ new.kind = q.kind /\ new.ticket = q.ticket
               /\ \/ new = q
                  \/ /\ q.version = p.version /\ q.ticket \in Carried(p)
                     /\ new = Question(q.kind, p.target, q.ticket)
  BY DEF MovedQuestion, Question

\* An approved amendment replaces its version: the root's current version is
\* the target, what was taken along keeps its state and its questions, and
\* nothing of the old version runs.
LEMMA ApproveAmendmentStep ==
    ASSUME PlansInv, NEW p \in proposals, ApproveAmendment(p)
    PROVE  Preserved
<1> DEFINE v == p.version
           w == p.target
           old == SourceRow(p)
           new == AmendedRow(p)
           rest == questions \ {Question("amendment", v, p.ticket)}
<1>1. /\ control.at = "answers" /\ CurrentActive(v) /\ w \notin DOMAIN versions
      /\ versions' = WithRow([versions EXCEPT ![v] = old], w, new)
      /\ plans' = [plans EXCEPT ![v.root] = [current |-> w, state |-> "active"]]
      /\ proposals' = proposals \ {p}
      /\ questions' = {MovedQuestion(p, q) : q \in rest}
      /\ UNCHANGED <<setting, handoff, announced, control, reconciling>>
      /\ cursor' = cursor
  BY DEF ApproveAmendment, Answerable
<1>2. /\ v \in DOMAIN versions /\ versions[v].state = "active"
      /\ w \in VersionsOf(setting) /\ w.from = "amendment" /\ w.root = v.root
      /\ v.tickets \ w.tickets \subseteq p.affected
  BY DEF PlansInv, ProposalsOK, ActiveVersion
<1>3. RowOK(v, versions[v]) /\ v \in VersionsOf(setting) /\ v.root \in Roots
  BY <1>2, InvRecords
<1>4. /\ RowOK(v, old) /\ Keeps(versions[v], old) /\ ~LiveRow(old)
      /\ old.state = "active" /\ old.terminal = versions[v].terminal
  BY <1>2, <1>3, SourceRowIs
<1>5. /\ RowOK(w, new) /\ new.state = "active"
      /\ new.terminal = "none" /\ new.frozen = Nil
      /\ \A t \in w.tickets : new.ticket[t].state =
            IF t \in Carried(p) THEN versions[v].ticket[t].state ELSE "queued"
  BY <1>2, <1>3, AmendedRowIs
<1> HIDE DEF old, new
<1>6. v # w /\ w # Nil
  BY <1>1, <1>2, PlansConstants DEF PlansInv
<1>7. /\ DOMAIN versions' = DOMAIN versions \cup {w}
      /\ versions'[w] = new /\ versions'[v] = old
      /\ \A u \in DOMAIN versions : u # v => versions'[u] = versions[u]
  BY <1>1, <1>2, <1>6 DEF WithRow
<1>8. /\ plans' \in [Roots -> [current : VersionsOf(setting) \cup {Nil},
                               state : {"none", "projecting", "active"}]]
      /\ plans'[v.root].current = w /\ plans'[v.root].state = "active"
      /\ \A r \in Roots : r # v.root => plans'[r] = plans[r]
  BY <1>1, <1>2, <1>3 DEF PlansInv, CurrentOK
<1>9. \A u \in DOMAIN versions : u.root \in Roots /\ u # w
  BY <1>1, InvRecords
<1>10. IsCurrent(v) /\ Current(v.root) = v
  BY <1>1 DEF CurrentActive, IsCurrent, Current
\* Of the versions that are there, only those of other roots stay current.
<1>11. \A u \in DOMAIN versions : IsCurrent(u)' =>
          u.root # v.root /\ u # v /\ IsCurrent(u)
  BY <1>8, <1>9 DEF IsCurrent
<1>12. \A u \in DOMAIN versions : u # v /\ IsCurrent(u) => IsCurrent(u)'
  BY <1>8, <1>9, <1>10 DEF IsCurrent, Current
<1>13. \A u \in DOMAIN versions : CurrentActive(u)' => CurrentActive(u) /\ u # v
  BY <1>7, <1>8, <1>9, <1>11 DEF CurrentActive
<1>14. Grows /\ StatesKept
  BY <1>1, <1>2, <1>4, <1>7 DEF Grows, ActiveVersion, StatesKept
<1>15. KeepsDelivered
  BY <1>4, <1>7 DEF KeepsDelivered, Keeps
<1>16. VersionsOK'
  <2> SUFFICES ASSUME NEW u \in DOMAIN versions'
               PROVE  /\ u \in VersionsOf(setting) /\ Current(u.root)' # Nil
                      /\ RowOK(u, versions'[u])
                      /\ LiveRow(versions'[u]) => IsCurrent(u)'
    BY <1>1 DEF VersionsOK
  <2>1. CASE u = w
    BY <2>1, <1>2, <1>5, <1>6, <1>7, <1>8 DEF Current, IsCurrent
  <2>2. CASE u \in DOMAIN versions
    <3>1. /\ u \in VersionsOf(setting) /\ Current(u.root) # Nil
          /\ RowOK(u, versions[u]) /\ (LiveRow(versions[u]) => IsCurrent(u))
      BY <2>2 DEF PlansInv, VersionsOK
    <3>2. Current(u.root)' # Nil
      BY <2>2, <3>1, <1>6, <1>8, <1>9 DEF Current
    <3>3. CASE u = v
      BY <3>1, <3>2, <3>3, <1>4, <1>7
    <3>4. CASE u # v
      BY <2>2, <3>1, <3>2, <3>4, <1>7, <1>12
    <3> QED BY <3>3, <3>4
  <2> QED BY <2>1, <2>2, <1>7
<1>17. CurrentOK'
  <2>1. ASSUME NEW r \in Roots, plans'[r].current # Nil
        PROVE  /\ plans'[r].current \in DOMAIN versions' /\ plans'[r].current.root = r
               /\ plans'[r].state = versions'[plans'[r].current].state
    <3>1. CASE r = v.root
      BY <3>1, <1>2, <1>5, <1>7, <1>8
    <3>2. CASE r # v.root
      <4>1. /\ Current(r) \in DOMAIN versions /\ Current(r).root = r
            /\ plans[r].state = versions[Current(r)].state
        BY <2>1, <3>2, <1>8 DEF PlansInv, CurrentOK, Current
      <4> QED BY <3>2, <4>1, <1>7, <1>8 DEF Current
    <3> QED BY <3>1, <3>2
  <2> QED BY <2>1, <1>1, <1>8 DEF CurrentOK, Current, Roots
<1>18. QuestionsOK'
  <2> SUFFICES ASSUME NEW x \in questions'
               PROVE  /\ x = Question(x.kind, x.version, x.ticket)
                      /\ ActiveVersion(x.version)' /\ x.ticket \in x.version.tickets
                      /\ x.kind = "attention" /\ CurrentActive(x.version)' =>
                            versions'[x.version].ticket[x.ticket].state = "needs_attention"
    BY DEF QuestionsOK, At
  <2>1. PICK q \in questions : x = MovedQuestion(p, q)
    BY <1>1
  <2>2. /\ q = Question(q.kind, q.version, q.ticket)
        /\ ActiveVersion(q.version) /\ q.ticket \in q.version.tickets
        /\ q.kind = "attention" /\ CurrentActive(q.version) =>
              versions[q.version].ticket[q.ticket].state = "needs_attention"
    BY DEF PlansInv, QuestionsOK, At
  <2>3. /\ x = Question(x.kind, x.version, x.ticket)
        /\ x.kind = q.kind /\ x.ticket = q.ticket
        /\ \/ x = q
           \/ q.version = v /\ q.ticket \in Carried(p) /\ x = Question(q.kind, w, q.ticket)
    BY <2>1, <2>2, MovedIs
  <2>4. CASE x = q
    <3>1. ActiveVersion(q.version)'
      BY <2>2, <1>14 DEF Grows, ActiveVersion
    <3>2. ASSUME CurrentActive(q.version)'
          PROVE  CurrentActive(q.version) /\ versions'[q.version] = versions[q.version]
      BY <2>2, <3>2, <1>7, <1>13 DEF ActiveVersion
    <3> QED BY <2>2, <2>4, <3>1, <3>2
  <2>5. CASE q.version = v /\ q.ticket \in Carried(p) /\ x = Question(q.kind, w, q.ticket)
    <3>1. x.version = w /\ x.ticket \in w.tickets
      BY <2>3, <2>5 DEF Question, Carried
    <3>2. ActiveVersion(w)'
      BY <1>5, <1>7 DEF ActiveVersion
    <3>3. x.kind = "attention" => versions[v].ticket[q.ticket].state = "needs_attention"
      BY <2>2, <2>3, <2>5, <1>1
    <3>4. x.kind = "attention" => versions'[w].ticket[x.ticket].state = "needs_attention"
      BY <2>3, <2>5, <3>1, <3>3, <1>5, <1>7
    <3> QED BY <2>3, <3>1, <3>2, <3>4
  <2> QED BY <2>3, <2>4, <2>5
<1>19. \A q \in proposals : q.version \in DOMAIN versions /\ ActiveVersion(q.version)'
  BY <1>14 DEF PlansInv, ProposalsOK, Grows, ActiveVersion
<1>20. ProposalsOK'
  <2>1. \A q \in proposals' : q \in proposals
    BY <1>1
  <2>2. \A q \in proposals' : IsCurrent(q.version)' => IsCurrent(q.version)
    BY <2>1, <1>11, <1>19
  <2> QED BY <2>1, <2>2, <1>1, <1>19 DEF PlansInv, ProposalsOK
<1>21. PausesOK'
  <2> SUFFICES ASSUME NEW q \in proposals, IsCurrent(q.version)', NEW t \in q.affected
               PROVE  versions'[q.version].ticket[t].run \in {"none", "delivery"}
    BY <1>1 DEF PausesOK, At
  <2>1. IsCurrent(q.version) /\ versions'[q.version] = versions[q.version]
    BY <1>7, <1>11, <1>19
  <2> QED BY <2>1 DEF PlansInv, PausesOK, At
<1>22. ActivatedIsShown'
  <2>1. \A u \in DOMAIN versions : versions'[u].state = versions[u].state
    BY <1>14 DEF StatesKept
  <2> QED BY <2>1, <1>1, <1>2, <1>7 DEF PlansInv, ActivatedIsShown
<1>23. StoppedIsAskable'
  <2> SUFFICES ASSUME NEW u \in DOMAIN versions', CurrentActive(u)'
               PROVE  /\ versions'[u].frozen # Nil =>
                            Question("attention", u, versions'[u].frozen) \in questions'
                      /\ \A t \in u.tickets : versions'[u].ticket[t].state = "needs_attention" =>
                            Question("attention", u, t) \in questions'
                      /\ \A q \in proposals' : q.version = u =>
                            Question("amendment", u, q.ticket) \in questions'
    BY DEF StoppedIsAskable, Unfrozen, At
  <2>1. CASE u = w
    <3>1. versions'[u].frozen = Nil
      BY <2>1, <1>5, <1>7
    <3>2. \A q \in proposals' : q.version # u
      BY <2>1, <1>1, <1>19
    <3>3. ASSUME NEW t \in w.tickets, new.ticket[t].state = "needs_attention"
          PROVE  Question("attention", w, t) \in questions'
      <4>1. t \in Carried(p) /\ t \in v.tickets /\ versions[v].ticket[t].state = "needs_attention"
        BY <3>3, <1>5 DEF Carried
      <4>2. Question("attention", v, t) \in questions
        BY <4>1, <1>1, <1>2 DEF PlansInv, StoppedIsAskable, At
      <4>3. Question("attention", v, t) \in rest
        BY <4>2 DEF Question
      <4>4. MovedQuestion(p, Question("attention", v, t)) = Question("attention", w, t)
        BY <4>1 DEF MovedQuestion, Question
      <4> QED BY <4>3, <4>4, <1>1
    <3> QED BY <2>1, <3>1, <3>2, <3>3, <1>7
  <2>2. CASE u # w
    <3>1. /\ u \in DOMAIN versions /\ CurrentActive(u) /\ u # v
          /\ versions'[u] = versions[u]
      BY <2>2, <1>7, <1>13
    <3>2. /\ versions[u].frozen # Nil =>
                Question("attention", u, versions[u].frozen) \in questions
          /\ \A t \in u.tickets : versions[u].ticket[t].state = "needs_attention" =>
                Question("attention", u, t) \in questions
          /\ \A q \in proposals : q.version = u =>
                Question("amendment", u, q.ticket) \in questions
      BY <3>1 DEF PlansInv, StoppedIsAskable, Unfrozen, At
    <3>3. \A k, t : Question(k, u, t) \in questions => Question(k, u, t) \in questions'
      <4> SUFFICES ASSUME NEW k, NEW t, Question(k, u, t) \in questions
                   PROVE  Question(k, u, t) \in questions'
        OBVIOUS
      <4>1. Question(k, u, t).version = u
        BY DEF Question
      <4>2. Question(k, u, t) \in rest
        BY <3>1, <4>1 DEF Question
      <4>3. MovedQuestion(p, Question(k, u, t)) = Question(k, u, t)
        BY <3>1, <4>1 DEF MovedQuestion
      <4> QED BY <4>2, <4>3, <1>1
    <3> QED BY <3>1, <3>2, <3>3, <1>1
  <2> QED BY <2>1, <2>2
<1>24. ControlOK' /\ ListsOK' /\ HandoffOK'
  <2>1. control' \in PassType /\ PassType' = PassType
    BY <1>1, InvRecords DEF PassType, Roots
  <2>2. ControlOK'
    BY <1>1, <2>1 DEF ControlOK
  <2>3. ListsOK' /\ HandoffOK'
    BY <1>1, <1>14, ListsKept, HandoffKept DEF PlansInv
  <2> QED BY <2>2, <2>3
<1> QED BY <1>1, <1>15, <1>16, <1>17, <1>18, <1>20, <1>21, <1>22, <1>23, <1>24
        DEF Preserved, PlansInv, Roots

-----------------------------------------------------------------------------
(* The theorems.                                                            *)

\* A behaviour that stands still keeps everything.
LEMMA PlansStutter ==
    ASSUME PlansInv, UNCHANGED plansVars
    PROVE  Preserved
<1>1. /\ UNCHANGED <<setting, plans, versions, proposals, questions, handoff,
                     announced, control, reconciling>>
      /\ cursor' = cursor
  BY DEF plansVars
<1>2. RecordsOK' /\ Grows /\ StatesKept /\ KeepsDelivered
  BY <1>1, InvRecords, RecordsKept
<1> QED BY <1>1, <1>2, AnswerKept

\* Every step, of the control process, of a human, of a worker and of the
\* reconcile-delivered process, keeps the invariant and what was merged.
LEMMA PlansStep ==
    ASSUME PlansInv, [PlansNext]_plansVars
    PROVE  Preserved
<1>1. CASE ControlNext
  <2>1. CASE \E r \in Roots : SchedulerRoot(r)
    BY <2>1, SchedulerRootStep
  <2>2. CASE BeginActivation \/ ProjectBuilding \/ MarkActive
    BY <2>2, BeginActivationStep, ProjectBuildingStep, MarkActiveStep
  <2>3. CASE PassFails \/ DispatchPaused \/ NextStage
    BY <2>3, PassSteps
  <2>4. CASE \E s \in Slots : RetryDelivery(s[1], s[2])
    BY <2>4, RetryDeliveryStep
  <2>5. CASE ClaimNext
    BY <2>5, ClaimNextStep
  <2>6. CASE \E s \in control.todo, pull \in PullStates : PollTicket(s[1], s[2], pull)
    BY <2>6, PollTicketStep
  <2> QED BY <1>1, <2>1, <2>2, <2>3, <2>4, <2>5, <2>6 DEF ControlNext
<1>2. CASE AnswersNext
  <2>1. CASE \E q \in questions :
                \/ AnswerNeedsAttention(q.version, q.ticket)
                \/ AnswerCancelPlan(q.version, q.ticket)
                \/ \E w \in DOMAIN versions : AnswerReplace(q.version, q.ticket, w)
    BY <2>1, AnswerNeedsAttentionStep, AnswerCancelPlanStep, AnswerReplaceStep
  <2>2. CASE \E p \in proposals : RejectAmendment(p) \/ ApproveAmendment(p)
    BY <2>2, RejectAmendmentStep, ApproveAmendmentStep
  <2> QED BY <1>2, <2>1, <2>2 DEF AnswersNext
<1>3. CASE OthersNext
  <2>1. CASE StartReconcile \/ ReconcileFails
    BY <2>1, PassSteps
  <2>2. CASE \E s \in reconciling, pull \in PullStates : ReconcileTicket(s[1], s[2], pull)
    BY <2>2, ReconcileTicketStep
  <2>3. CASE \E s \in Slots, end \in {"delivered", "retry", "lost", "attention"} :
                RunEnds(s[1], s[2], end)
    BY <2>3, RunEndsStep
  <2>4. CASE \E v \in DOMAIN versions, c \in setting.changes : ProposePlanAmendment(v, c)
    BY <2>4, ProposePlanAmendmentStep
  <2> QED BY <1>3, <2>1, <2>2, <2>3, <2>4 DEF OthersNext
<1>4. CASE UNCHANGED plansVars
  BY <1>4, PlansStutter
<1> QED BY <1>1, <1>2, <1>3, <1>4 DEF PlansNext

\* The inductive invariant holds of every behaviour.
THEOREM PlansInvariant == PlansSpec => []PlansInv
<1>1. PlansInv /\ [PlansNext]_plansVars => PlansInv'
  BY PlansStep DEF Preserved
<1> QED BY <1>1, PlansInitInv, PTL DEF PlansSpec

\* Every row, question, handoff and turn has its type, whatever plans are on
\* GitHub: a root's current version is one of its own, and agrees with its plan
\* on whether it is activated (internal/plan/activate.go, store/sqlite.go).
THEOREM PlansTypesHold == PlansSpec => []PlansTypeOK
<1>1. PlansInv => PlansTypeOK
  BY DEF PlansInv, PlansTypeOK, VersionsOK, RowOK, RowType, CurrentOK, QuestionsOK,
         ActiveVersion, HandoffOK
<1> QED BY <1>1, PlansInvariant, PTL

\* A live run belongs to the current version of a plan that is active, neither
\* cancelled nor completed, and, unless it retries a delivery, not frozen: no
\* amendment, freeze or cancellation leaves a run behind (amendment.go:482,
\* feedback.go:471, poll.go:1580).
THEOREM RunsOfCurrentPlans == PlansSpec => []RunsAreCurrent
<1>1. ASSUME PlansInv, NEW s \in Slots, Live(s[1], s[2])
      PROVE  CurrentActive(s[1]) /\ (Unfrozen(s[1]) \/ At(s[1], s[2]).run = "delivery")
  <2>1. s[1] \in DOMAIN versions /\ s[2] \in s[1].tickets
    BY SlotIs
  <2>2. RowOK(s[1], versions[s[1]]) /\ (LiveRow(versions[s[1]]) => CurrentActive(s[1]))
    BY <1>1, <2>1, InvRecords
  <2>3. LiveRow(versions[s[1]])
    BY <1>1, <2>1, <2>2 DEF LiveRow, Live, At, RowOK, RowType
  <2> QED BY <1>1, <2>1, <2>2, <2>3 DEF RowOK, TicketOK, Live, At, Unfrozen
<1>2. PlansInv => RunsAreCurrent
  BY <1>1 DEF RunsAreCurrent
<1> QED BY <1>2, PlansInvariant, PTL

\* No run works on a ticket that a pending amendment affects, whoever claimed
\* it and when (claim.go:1466, amendment.go).
THEOREM PausesHold == PlansSpec => []PausedIsIdle
<1>1. ASSUME PlansInv, NEW v \in DOMAIN versions, NEW t, IsCurrent(v), t \in Paused(v)
      PROVE  At(v, t).run \in {"none", "delivery"}
  <2>1. PICK p \in proposals : p.version = v /\ t \in p.affected
    BY <1>1 DEF Paused
  <2> QED BY <1>1, <2>1 DEF PlansInv, PausesOK
<1>2. PlansInv => PausedIsIdle
  BY <1>1 DEF PausedIsIdle
<1> QED BY <1>2, PlansInvariant, PTL

\* Whatever stops a plan has an open question that ends it, through whatever
\* amendments, freezes and answers the plan has gone (feedback.go:462,
\* poll.go:1839, amendment.go:547).
THEOREM StopsAreAsked == PlansSpec => []StoppedIsAskable
  BY PlansInvariant, PTL DEF PlansInv

\* A completed plan has delivered every ticket, is not frozen and runs nothing,
\* for ever (claim.go:1393).
THEOREM CompletedHolds == PlansSpec => []CompletedIsDelivered
<1>1. ASSUME PlansInv, NEW v \in DOMAIN versions, versions[v].terminal = "completed"
      PROVE  /\ Undelivered(versions[v]) = {} /\ LiveIn(versions[v]) = {}
             /\ Unfrozen(v)
  <2>1. RowOK(v, versions[v]) /\ versions[v] \in RowType(v)
    BY <1>1, InvRecords DEF RowOK
  <2>2. \A t \in v.tickets : /\ versions[v].ticket[t].state = "delivered"
                             /\ versions[v].ticket[t].run = "none"
    BY <1>1, <2>1 DEF RowOK, TicketOK
  <2>3. Undelivered(versions[v]) = {} /\ LiveIn(versions[v]) = {}
    BY <2>1, <2>2 DEF Undelivered, LiveIn, RowType
  <2>4. Unfrozen(v)
    BY <2>1, <2>2 DEF RowOK, RowType, Unfrozen
  <2> QED BY <2>3, <2>4
<1>2. PlansInv => CompletedIsDelivered
  BY <1>1 DEF CompletedIsDelivered
<1> QED BY <1>2, PlansInvariant, PTL

\* No version that came from GitHub is dispatched before its root has shown it,
\* wherever an activation was cut short (sqlite.go:2086).
THEOREM ActivationsAreShown == PlansSpec => []ActivatedIsShown
  BY PlansInvariant, PTL DEF PlansInv

\* The version of a root is replaced by an approved amendment and by nothing
\* else.
LEMMA CurrentKept ==
    ASSUME PlansInv, [PlansNext]_plansVars, NEW r \in Roots, Current(r) # Nil,
           \A p \in proposals : ~ApproveAmendment(p)
    PROVE  Current(r)' = Current(r)
<1>1. CASE BeginActivation
  <2>1. CASE Current(control.root) = Nil
    <3>1. \E x : plans' = [plans EXCEPT ![control.root] = x]
      BY <1>1, <2>1 DEF BeginActivation
    <3> QED BY <2>1, <3>1 DEF Current, PlansInv, CurrentOK
  <2>2. CASE Current(control.root) # Nil
    BY <1>1, <2>2 DEF BeginActivation, Current
  <2> QED BY <2>1, <2>2
<1>2. CASE MarkActive
  <2>1. plans' = [plans EXCEPT ![control.root].state = "active"]
    BY <1>2 DEF MarkActive
  <2> QED BY <2>1 DEF Current, PlansInv, CurrentOK
<1>3. CASE ~BeginActivation /\ ~MarkActive
  <2>1. plans' = plans
    BY <1>3 DEF PlansNext, ControlNext, AnswersNext, OthersNext, plansVars,
       SchedulerRoot, ProjectBuilding, PassFails, RetryDelivery, ClaimNext,
       DispatchPaused, NextStage, PollTicket, ObservePull, AnswerNeedsAttention,
       AnswerCancelPlan, AnswerReplace, RejectAmendment, StartReconcile,
       ReconcileFails, ReconcileTicket, RunEnds, ProposePlanAmendment
  <2> QED BY <2>1 DEF Current
<1> QED BY <1>1, <1>2, <1>3

\* What was merged stays merged, in the current version and in the one that
\* replaces it, unless the amendment affects the ticket (amendment.go:547).
THEOREM MergedIsKept == PlansSpec => DeliveredIsKept
<1> DEFINE Kept ==
        \A r \in Roots : Current(r) # Nil =>
          \A t \in Current(r).tickets :
             /\ At(Current(r), t).state = "delivered"
             /\ \A p \in proposals : p.target = Current(r)' => t \notin p.affected
             => /\ t \in Current(r)'.tickets
                /\ versions'[Current(r)'].ticket[t].state = "delivered"
<1>1. ASSUME PlansInv, [PlansNext]_plansVars PROVE Kept
  <2> SUFFICES ASSUME NEW r \in Roots, Current(r) # Nil, NEW t \in Current(r).tickets,
                      At(Current(r), t).state = "delivered",
                      \A p \in proposals : p.target = Current(r)' => t \notin p.affected
               PROVE  /\ t \in Current(r)'.tickets
                      /\ versions'[Current(r)'].ticket[t].state = "delivered"
    OBVIOUS
  <2>1. /\ Current(r) \in DOMAIN versions /\ Current(r).root = r
        /\ versions[Current(r)].ticket \in [Current(r).tickets -> Ticket]
    BY <1>1 DEF PlansInv, CurrentOK, VersionsOK, RowOK, RowType
  <2>2. versions'[Current(r)].ticket[t].state = "delivered"
    BY <1>1, <2>1, PlansStep DEF Preserved, KeepsDelivered, Keeps, At
  <2>3. CASE Current(r)' = Current(r)
    BY <2>2, <2>3
  <2>4. CASE Current(r)' # Current(r)
    <3>1. PICK p \in proposals : ApproveAmendment(p)
      BY <1>1, <2>4, CurrentKept
    <3>2. /\ IsCurrent(p.version) /\ p.version \in DOMAIN versions
          /\ p.version.tickets \ p.target.tickets \subseteq p.affected
          /\ versions[p.version].state = "active" /\ RowOK(p.version, versions[p.version])
      BY <1>1, <3>1, InvRecords
      DEF PlansInv, ProposalsOK, ActiveVersion, ApproveAmendment, Answerable, CurrentActive
    <3>3. plans' = [plans EXCEPT ![p.version.root] = [current |-> p.target, state |-> "active"]]
      BY <3>1 DEF ApproveAmendment
    <3>4. p.version.root = r /\ Current(r)' = p.target /\ p.version = Current(r)
      BY <1>1, <2>4, <3>2, <3>3 DEF PlansInv, CurrentOK, Current, IsCurrent
    <3>5. t \in p.target.tickets /\ t \in Carried(p)
      BY <3>2, <3>4 DEF Carried
    <3>6. versions' = WithRow([versions EXCEPT ![p.version] = SourceRow(p)],
                              p.target, AmendedRow(p))
      BY <3>1 DEF ApproveAmendment
    <3>7. versions'[p.target] = AmendedRow(p)
      BY <3>6 DEF WithRow
    <3>8. AmendedRow(p).ticket[t].state = versions[p.version].ticket[t].state
      BY <3>2, <3>5, AmendedRowIs
    <3> QED BY <3>4, <3>5, <3>7, <3>8 DEF At
  <2> QED BY <2>3, <2>4
<1>2. PlansInv /\ [PlansNext]_plansVars => [Kept]_plansVars
  BY <1>1
<1> QED BY <1>2, PlansInvariant, PTL DEF PlansSpec, DeliveredIsKept

\* The plan that was dispatched last is dispatched again only if no other plan
\* has a ready ticket (dispatch.go:96).
THEOREM PlansTakeTurns == PlansSpec => FairTurn
<1> DEFINE Turn == \A r \in Roots :
                      ClaimNext /\ cursor' = r /\ cursor = r => ReadyRoots = {r}
<1>1. ASSUME PlansInv PROVE Turn
  <2> SUFFICES ASSUME NEW r \in Roots, ClaimNext, cursor' = r, cursor = r
               PROVE  ReadyRoots = {r}
    OBVIOUS
  <2>1. ReadyRoots # {} /\ NextRoot = cursor
    BY DEF ClaimNext, ClaimNextReady
  <2> QED BY <1>1, <2>1, NextRootIs
<1>2. PlansInv => [Turn]_plansVars
  BY <1>1
<1> QED BY <1>2, PlansInvariant, PTL DEF PlansSpec, FairTurn

=============================================================================
