------------------------ MODULE DeliveryOutboxProofs ------------------------
(* Proofs about DeliveryOutbox.tla, for any keys, generations, gateways and   *)
(* batches and any number of crashes: an entry is written to GitHub at most   *)
(* once, what is recorded of it is true and stays so, and the inbox that is   *)
(* recorded as delivered is the one that GitHub shows.                        *)
EXTENDS DeliveryOutbox, TLAPS

-----------------------------------------------------------------------------
(* The inductive invariant.                                                 *)

Places == {"idle", "ensured", "claimed", "admitted", "validated", "sending",
           "unanswered", "finishing", "pausing", "deferring"}
Verdicts == {"succeed", "reject", "uncertain", "retry", "defer", "refuse", "pause"}

Thread == [at : Places, key : Keys \cup {None}, reconcile : BOOLEAN,
           superseded : BOOLEAN, verdict : Verdicts \cup {None}]
Remote == [effects : [Keys -> Nat], shown : Nat, late : [Keys -> Nat], stray : BOOLEAN]
InboxRow == [generation : Nat, since : Nat, plan : {"active", "complete", "replaced"},
             question : [Keys -> {"none", "open", "answered"}],
             authorised : SUBSET Keys]

TypesOK ==
    /\ OutboxTypeOK
    /\ inbox \in InboxRow /\ thread \in [Gateways -> Thread] /\ remote \in Remote

\* A process has claimed the entry and goes on with what it read, whether it
\* still holds the claim or not.
Working(g, k) == thread[g].key = k /\ thread[g].at \notin {"idle", "ensured"}

\* It took the entry up as one that was never written.
Fresh(g, k) == Working(g, k) /\ ~thread[g].reconcile

\* What such a dispatch does next, or records, takes it for granted that
\* nothing was written.
Unsent(t) ==
    \/ t.at \in {"claimed", "admitted", "validated", "sending", "pausing", "deferring"}
    \/ t.at = "finishing" /\ t.verdict \in {"reject", "retry", "defer", "refuse", "pause"}

Written(k) == remote.effects[k] + remote.late[k]
Final(k) == outbox[k].state \in {"succeeded", "rejected"}

\* An entry that can neither be claimed nor be taken up by a person.
Closed(k) ==
    \/ outbox[k].state = "succeeded"
    \/ outbox[k].state = "rejected" /\ ~outbox[k].uncertain

\* A process with a claim of its own knows whether the entry is uncertain; one
\* that lost it leaves an entry that is, or that is settled.
ClaimsOK ==
    \A g \in Gateways, k \in Keys : Working(g, k) =>
        IF Holds(g, k) THEN outbox[k].uncertain = thread[g].reconcile
        ELSE outbox[k].uncertain \/ Final(k)

\* The last attempt is over, or it was the first and wrote nothing, and no
\* other will.
GivenUp(k) ==
    \/ Exhausted(k)
    \/ ~outbox[k].uncertain /\ Written(k) = 0 /\ \A g \in Gateways : ~Working(g, k)

\* An entry that is not uncertain was not written.  Nobody works on one that
\* is pending.
RowsOK ==
    \A k \in Keys :
        /\ outbox[k].state = "none" \/
              (outbox[k].state = "pending" /\ ~outbox[k].uncertain) =>
              Written(k) = 0 /\ \A g \in Gateways : ~Working(g, k)
        /\ IsInbox(k) /\ Gen[k] > inbox.generation => outbox[k].state = "none"
        /\ IsInbox(k) /\ outbox[k].state = "rejected" => GivenUp(k)
        /\ IsInbox(k) => remote.effects[k] = 0
        /\ inbox.question[k] = "open" => IsInbox(k)

\* An entry other than the inbox has one process that may write it.
WritersOK ==
    /\ \A g \in Gateways, k \in Keys :
          Fresh(g, k) /\ Unsent(thread[g]) /\ (IsInbox(k) => Holds(g, k)) => Written(k) = 0
    /\ \A g, h \in Gateways, k \in Keys :
          ~IsInbox(k) /\ Fresh(g, k) /\ Fresh(h, k) => g = h

\* What a process has found out.
FinishOK(g, t) ==
    /\ t.verdict \in Verdicts
    /\ t.verdict = "succeed" /\ ~IsInbox(t.key) => remote.effects[t.key] > 0
    /\ t.verdict = "reject" /\ IsInbox(t.key) => ~t.reconcile
    /\ /\ t.verdict = "succeed" /\ IsInbox(t.key) /\ Holds(g, t.key)
       /\ ~remote.stray /\ Gen[t.key] = inbox.generation
       => remote.shown = Gen[t.key]

ThreadOK(g, t) ==
    /\ t.key \in Keys
    /\ t.reconcile /\ t.at \in {"validated", "sending", "unanswered"} => IsInbox(t.key)
    /\ t.superseded => IsInbox(t.key) /\ Gen[t.key] < inbox.generation
    /\ t.at = "sending" => HeadExpected(t.key)
    /\ t.at = "finishing" => FinishOK(g, t)

ThreadsOK == \A g \in Gateways : thread[g].at # "idle" => ThreadOK(g, thread[g])

\* A write of this inbox is under way or may be sent.
MaySend(t) == t.at = "sending" \/ (t.at = "validated" /\ ~t.superseded)
MayLand(o) ==
    \/ remote.late[o] > 0
    \/ \E g \in Gateways : thread[g].key = o /\ MaySend(thread[g])

\* A newer inbox is only taken up when no write of an older one counts.
InboxOrder ==
    \A k, o \in Keys :
        /\ IsInbox(k) /\ IsInbox(o) /\ Gen[o] < Gen[k]
        /\ outbox[k].state \in {"processing", "succeeded"} /\ MayLand(o)
        => Closed(o)

\* InboxShown, whatever is under way.
ShownOK ==
    \A k \in Keys :
        /\ IsInbox(k) /\ outbox[k].state = "succeeded" /\ ~remote.stray
        /\ Gen[k] = inbox.generation
        => remote.shown = Gen[k]

OutboxInv ==
    /\ TypesOK /\ ClaimsOK /\ RowsOK /\ WritersOK /\ ThreadsOK /\ InboxOrder
    /\ WrittenOnce /\ SuccessIsReal /\ PullAfterPush /\ BlockedIsAskable /\ ShownOK

-----------------------------------------------------------------------------
(* What a step on the rows keeps.                                           *)

\* The types, as the proofs use them.
LEMMA TypeFacts ==
    ASSUME TypesOK
    PROVE  /\ outbox \in [Keys -> Row] /\ thread \in [Gateways -> Thread]
           /\ inbox \in InboxRow /\ remote \in Remote
           /\ \A k \in Keys : outbox[k] \in Row /\ Gen[k] \in Nat
           /\ \A g \in Gateways : thread[g] \in Thread
           /\ running \subseteq Gateways /\ requests \subseteq Keys
           /\ None \notin Gateways /\ Lost \notin Gateways
  BY OutboxConstants DEF TypesOK, OutboxTypeOK

\* An entry is left as it is, but for the name of a process that is gone.
RowSame(k) ==
    /\ outbox'[k].state = outbox[k].state /\ outbox'[k].attempts = outbox[k].attempts
    /\ outbox'[k].uncertain = outbox[k].uncertain
    /\ \A g \in Gateways : Working(g, k)' => (Holds(g, k)' <=> Holds(g, k))

\* An entry is queued for the first time.
RowQueued(k) ==
    outbox[k].state = "none" /\ outbox'[k].state = "pending" /\ ~outbox'[k].uncertain

\* A claim ends, or is not given: the entry is taken up later, or settled.
RowSettled(k) ==
    /\ outbox[k].state \in {"pending", "processing"}
    /\ outbox'[k].state \in {"pending", "succeeded", "rejected"}
    /\ outbox'[k].attempts = outbox[k].attempts
    /\ outbox'[k].state = "pending" /\ ~outbox'[k].uncertain =>
          Written(k) = 0 /\ \A g \in Gateways : ~Working(g, k)'
    /\ outbox'[k].state = "succeeded" =>
          /\ outbox[k].state = "processing"
          /\ ~IsInbox(k) => remote.effects[k] > 0
          /\ IsInbox(k) /\ ~remote.stray /\ Gen[k] = inbox'.generation =>
                remote.shown = Gen[k]
    /\ outbox'[k].state = "rejected" /\ IsInbox(k) =>
          \/ Exhausted(k)
          \/ ~outbox'[k].uncertain /\ Written(k) = 0 /\ \A g \in Gateways : ~Working(g, k)'

\* A person has an inbox entry taken up again.
RowRecovered(k) ==
    /\ outbox[k].state = "rejected" /\ outbox[k].uncertain
    /\ outbox'[k].state = "pending" /\ outbox'[k].uncertain

RowGoes(k) == RowSame(k) \/ RowQueued(k) \/ RowSettled(k) \/ RowRecovered(k)

\* The recovery questions that the rows call for, and the generations queued.
AsksRight ==
    \A k \in Keys :
        /\ inbox'.question[k] = "open" => IsInbox(k)
        /\ IsInbox(k) /\ outbox'[k].state = "rejected" /\ outbox'[k].uncertain =>
              inbox'.question[k] = "open"
        /\ IsInbox(k) /\ Gen[k] > inbox'.generation => outbox'[k].state = "none"

\* Processes go on as they were, give up, or go on to defer what they paused
\* the writes for.
ThreadRests(g) ==
    \/ thread'[g] = thread[g]
    \/ thread'[g].at = "idle"
    \/ /\ thread[g].at = "pausing" /\ thread'[g].at = "deferring"
       /\ thread'[g].key = thread[g].key /\ thread'[g].reconcile = thread[g].reconcile
       /\ thread'[g].superseded = thread[g].superseded
ThreadsRest == \A g \in Gateways : ThreadRests(g)

\* A step on the rows alone, each of which goes as above, keeps the invariant.
LEMMA RowsStep ==
    ASSUME OutboxInv, TypesOK', UNCHANGED remote, ThreadsRest,
           inbox.generation <= inbox'.generation,
           \A k \in Keys : RowGoes(k), AsksRight
    PROVE  OutboxInv'
<1>1. /\ TypesOK /\ ClaimsOK /\ RowsOK /\ WritersOK /\ ThreadsOK /\ InboxOrder
      /\ WrittenOnce /\ SuccessIsReal /\ PullAfterPush /\ BlockedIsAskable /\ ShownOK
  BY DEF OutboxInv
<1>2. \A k \in Keys : Written(k)' = Written(k)
  BY DEF Written
<1>3. \A g \in Gateways, k \in Keys : Working(g, k)' =>
         /\ Working(g, k) /\ thread'[g].reconcile = thread[g].reconcile
         /\ Unsent(thread'[g]) => Unsent(thread[g])
  BY DEF Working, ThreadsRest, ThreadRests, Unsent
<1>4. \A k \in Keys : outbox[k] \in Row /\ outbox'[k] \in Row
                      /\ Gen[k] \in Nat /\ inbox.generation \in Nat /\ inbox'.generation \in Nat
  BY <1>1, TypeFacts DEF TypesOK, OutboxTypeOK
\* The generation of an entry that is out is not a new one.
<1>5. \A k \in Keys : IsInbox(k) /\ outbox[k].state # "none" /\ Gen[k] = inbox'.generation
                      => Gen[k] = inbox.generation
  <2> SUFFICES ASSUME NEW k \in Keys, IsInbox(k), outbox[k].state # "none",
                      Gen[k] = inbox'.generation
               PROVE  Gen[k] = inbox.generation
    OBVIOUS
  <2>1. ~(Gen[k] > inbox.generation)
    BY <1>1 DEF RowsOK
  <2> QED BY <2>1, <1>4
<1>6. ClaimsOK'
  <2> SUFFICES ASSUME NEW g \in Gateways, NEW k \in Keys, Working(g, k)'
               PROVE  IF Holds(g, k)' THEN outbox'[k].uncertain = thread'[g].reconcile
                      ELSE outbox'[k].uncertain \/ Final(k)'
    BY DEF ClaimsOK
  <2>1. /\ thread'[g].reconcile = thread[g].reconcile /\ Working(g, k)
        /\ IF Holds(g, k) THEN outbox[k].uncertain = thread[g].reconcile
           ELSE outbox[k].uncertain \/ Final(k)
    BY <1>1, <1>3 DEF ClaimsOK
  <2>2. CASE RowSame(k)
    BY <2>1, <2>2 DEF RowSame, Final
  <2>3. CASE RowQueued(k)
    BY <2>1, <2>3, <1>1 DEF RowQueued, RowsOK
  <2>4. CASE RowSettled(k)
    BY <2>4 DEF RowSettled, Final, Holds
  <2>5. CASE RowRecovered(k)
    BY <2>5 DEF RowRecovered, Holds
  <2> QED BY <2>2, <2>3, <2>4, <2>5 DEF RowGoes
<1>7. RowsOK'
  <2> SUFFICES ASSUME NEW k \in Keys
               PROVE  /\ outbox'[k].state = "none" \/
                            (outbox'[k].state = "pending" /\ ~outbox'[k].uncertain) =>
                            Written(k)' = 0 /\ \A g \in Gateways : ~Working(g, k)'
                      /\ IsInbox(k) /\ Gen[k] > inbox'.generation => outbox'[k].state = "none"
                      /\ IsInbox(k) /\ outbox'[k].state = "rejected" => GivenUp(k)'
                      /\ IsInbox(k) => remote'.effects[k] = 0
                      /\ inbox'.question[k] = "open" => IsInbox(k)
    BY DEF RowsOK, IsInbox
  <2>1. /\ outbox[k].state = "none" \/
              (outbox[k].state = "pending" /\ ~outbox[k].uncertain) =>
              Written(k) = 0 /\ \A g \in Gateways : ~Working(g, k)
        /\ IsInbox(k) /\ outbox[k].state = "rejected" => GivenUp(k)
        /\ IsInbox(k) => remote.effects[k] = 0
    BY <1>1 DEF RowsOK
  <2>2. CASE RowSame(k)
    BY <2>1, <2>2, <1>2, <1>3 DEF RowSame, Exhausted, GivenUp, AsksRight
  <2>3. CASE RowQueued(k)
    BY <2>1, <2>3, <1>2, <1>3 DEF RowQueued, AsksRight
  <2>4. CASE RowSettled(k)
    BY <2>1, <2>4, <1>2 DEF RowSettled, Exhausted, GivenUp, AsksRight
  <2>5. CASE RowRecovered(k)
    BY <2>1, <2>5 DEF RowRecovered, AsksRight
  <2> QED BY <2>2, <2>3, <2>4, <2>5 DEF RowGoes
<1>8. \A g \in Gateways, k \in Keys : Working(g, k)' /\ Holds(g, k)' => Holds(g, k)
  <2> SUFFICES ASSUME NEW g \in Gateways, NEW k \in Keys, Working(g, k)', Holds(g, k)'
               PROVE  Holds(g, k)
    OBVIOUS
  <2>1. outbox'[k].state = "processing"
    BY DEF Holds
  <2> QED BY <2>1 DEF RowGoes, RowSame, RowQueued, RowSettled, RowRecovered
<1>9. WritersOK'
  <2>1. \A g \in Gateways, k \in Keys : Fresh(g, k)' =>
           Fresh(g, k) /\ (Unsent(thread'[g]) => Unsent(thread[g]))
    BY <1>3 DEF Fresh
  <2>2. \A g \in Gateways, k \in Keys : Fresh(g, k)' => Working(g, k)'
    BY DEF Fresh
  <2> QED BY <2>1, <2>2, <1>1, <1>2, <1>8 DEF WritersOK, IsInbox
<1>10. ThreadsOK'
  <2> SUFFICES ASSUME NEW g \in Gateways, thread'[g].at # "idle"
               PROVE  ThreadOK(g, thread[g])'
    BY DEF ThreadsOK
  <2>0. CASE thread'[g] # thread[g]
    <3>1. /\ thread[g].at = "pausing" /\ thread'[g].at = "deferring"
          /\ thread'[g].key = thread[g].key /\ thread'[g].superseded = thread[g].superseded
      BY <2>0 DEF ThreadsRest, ThreadRests
    <3>2. ThreadOK(g, thread[g])
      BY <3>1, <1>1 DEF ThreadsOK
    <3>3. thread[g].superseded => Gen[thread[g].key] < inbox'.generation
      BY <3>2, <1>4 DEF ThreadOK
    <3> QED BY <3>1, <3>2, <3>3 DEF ThreadOK, IsInbox
  <2> SUFFICES ASSUME thread'[g] = thread[g]
               PROVE  ThreadOK(g, thread[g])'
    BY <2>0
  <2>1. thread'[g] = thread[g] /\ ThreadOK(g, thread[g])
    BY <1>1 DEF ThreadsOK
  <2>2. thread[g].key \in Keys
    BY <2>1 DEF ThreadOK
  <2>3. ASSUME thread[g].at = "finishing", Holds(g, thread[g].key)', IsInbox(thread[g].key),
               Gen[thread[g].key] = inbox'.generation
        PROVE  Holds(g, thread[g].key) /\ Gen[thread[g].key] = inbox.generation
    <3>1. Working(g, thread[g].key)'
      BY <2>1, <2>3 DEF Working
    <3>2. Holds(g, thread[g].key)
      BY <2>1, <2>2, <2>3, <3>1, <1>8 DEF Holds
    <3> QED BY <2>2, <2>3, <3>2, <1>5 DEF Holds
  <2>4. thread[g].superseded => Gen[thread[g].key] < inbox'.generation
    BY <2>1, <2>2, <1>4 DEF ThreadOK
  <2>5. thread[g].at = "finishing" => FinishOK(g, thread[g])'
    BY <2>1, <2>3 DEF ThreadOK, FinishOK, IsInbox, Holds
  <2> QED BY <2>1, <2>4, <2>5 DEF ThreadOK, IsInbox, HeadExpected
<1>11. \A o \in Keys : MayLand(o)' => MayLand(o)
  BY DEF MayLand, MaySend, ThreadsRest, ThreadRests
<1>12. \A o \in Keys : Closed(o) => Closed(o)'
  BY DEF RowGoes, RowSame, RowQueued, RowSettled, RowRecovered, Closed
<1>13. \A k \in Keys : outbox'[k].state \in {"processing", "succeeded"} =>
          outbox[k].state \in {"processing", "succeeded"}
  BY DEF RowGoes, RowSame, RowQueued, RowSettled, RowRecovered
<1>14. InboxOrder'
  BY <1>1, <1>11, <1>12, <1>13 DEF InboxOrder, IsInbox
<1>15. WrittenOnce' /\ PullAfterPush'
  BY <1>1 DEF WrittenOnce, PullAfterPush, IsInbox
<1>16. SuccessIsReal' /\ ShownOK'
  <2> SUFFICES ASSUME NEW k \in Keys, outbox'[k].state = "succeeded"
               PROVE  /\ ~IsInbox(k) => remote.effects[k] > 0
                      /\ IsInbox(k) /\ ~remote.stray /\ Gen[k] = inbox'.generation =>
                            remote.shown = Gen[k]
    BY DEF SuccessIsReal, ShownOK, IsInbox
  <2>1. CASE RowSame(k)
    BY <2>1, <1>1, <1>5 DEF RowSame, SuccessIsReal, ShownOK
  <2>2. CASE RowSettled(k)
    BY <2>2 DEF RowSettled
  <2> QED BY <2>1, <2>2 DEF RowGoes, RowQueued, RowRecovered
<1>17. BlockedIsAskable'
  BY DEF BlockedIsAskable, AsksRight, IsInbox
<1> QED BY <1>6, <1>7, <1>9, <1>10, <1>14, <1>15, <1>16, <1>17 DEF OutboxInv

-----------------------------------------------------------------------------
(* What a step of one process keeps.                                        *)

\* A process gives up, takes an entry in hand, or goes on with the claim it
\* has: it does not learn that nothing was written, and only comes to send the
\* inbox of the current generation.
ThreadGoes(g) ==
    \/ thread'[g].at = "idle"
    \/ thread'[g].at = "ensured" /\ ThreadOK(g, thread'[g])
    \/ /\ thread[g].at \notin {"idle", "ensured"} /\ thread'[g].at \notin {"idle", "ensured"}
       /\ thread'[g].key = thread[g].key /\ thread'[g].reconcile = thread[g].reconcile
       /\ Unsent(thread'[g]) => Unsent(thread[g])
       /\ MaySend(thread'[g]) => MaySend(thread[g]) \/ ~IsInbox(thread[g].key)
                             \/ Gen[thread[g].key] = inbox.generation
       /\ ThreadOK(g, thread'[g])

\* A step of one process that goes on as above keeps the invariant.
LEMMA ThreadStep ==
    ASSUME OutboxInv, TypesOK', UNCHANGED <<outbox, inbox, remote>>,
           NEW g \in Gateways, \A h \in Gateways \ {g} : thread'[h] = thread[h],
           ThreadGoes(g)
    PROVE  OutboxInv'
<1>1. /\ TypesOK /\ ClaimsOK /\ RowsOK /\ WritersOK /\ ThreadsOK /\ InboxOrder
      /\ WrittenOnce /\ SuccessIsReal /\ PullAfterPush /\ BlockedIsAskable /\ ShownOK
  BY DEF OutboxInv
<1>2. \A k \in Keys : /\ Written(k)' = Written(k) /\ Final(k)' = Final(k)
                      /\ \A h \in Gateways : Holds(h, k)' = Holds(h, k)
  BY DEF Written, Final, Holds
<1>3. \A h \in Gateways, k \in Keys : Working(h, k)' =>
         Working(h, k) /\ thread'[h].reconcile = thread[h].reconcile
  BY DEF Working, ThreadGoes
<1>4. \A h \in Gateways, k \in Keys :
         /\ Fresh(h, k)' => Fresh(h, k)
         /\ Fresh(h, k)' /\ Unsent(thread'[h]) => Unsent(thread[h])
  BY DEF Working, Fresh, ThreadGoes
<1>5. ClaimsOK'
  BY <1>1, <1>2, <1>3 DEF ClaimsOK
<1>6. RowsOK'
  BY <1>1, <1>2, <1>3 DEF RowsOK, IsInbox, Exhausted, GivenUp
<1>7. WritersOK'
  BY <1>1, <1>2, <1>4 DEF WritersOK, IsInbox
<1>8. ThreadsOK'
  <2> SUFFICES ASSUME NEW h \in Gateways, thread'[h].at # "idle"
               PROVE  ThreadOK(h, thread[h])'
    BY DEF ThreadsOK
  <2>1. ThreadOK(h, thread'[h])
    BY <1>1 DEF ThreadsOK, ThreadGoes
  <2> QED BY <2>1 DEF ThreadOK, FinishOK, Holds, HeadExpected, IsInbox
<1>9. InboxOrder'
  <2> SUFFICES ASSUME NEW k \in Keys, NEW o \in Keys, IsInbox(k), IsInbox(o), Gen[o] < Gen[k],
                      outbox[k].state \in {"processing", "succeeded"}, MayLand(o)'
               PROVE  Closed(o)
    BY DEF InboxOrder, IsInbox, Closed
  <2>1. ~(Gen[k] > inbox.generation)
    BY <1>1 DEF RowsOK
  <2>2. Gen[o] # inbox.generation
    BY <1>1, <2>1, TypeFacts DEF InboxRow
  <2>3. MayLand(o)
    BY <2>2 DEF MayLand, ThreadGoes, MaySend
  <2> QED BY <1>1, <2>3 DEF InboxOrder
<1>10. /\ WrittenOnce' /\ SuccessIsReal' /\ PullAfterPush'
       /\ BlockedIsAskable' /\ ShownOK'
  BY <1>1 DEF WrittenOnce, SuccessIsReal, PullAfterPush, BlockedIsAskable, ShownOK, IsInbox
<1> QED BY <1>5, <1>6, <1>7, <1>8, <1>9, <1>10 DEF OutboxInv

-----------------------------------------------------------------------------
(* The steps of a process that only change what it knows.                   *)

GatewayRow == [paused : BOOLEAN, dispatcher : Tokens, live : BOOLEAN,
               rotation : Owners \cup {None}, rotating : BOOLEAN]

\* A step types what it changes.
LEMMA TypesStep ==
    ASSUME TypesOK, requests' = requests, running' \subseteq Gateways,
           outbox' \in [Keys -> Row], gateway' \in GatewayRow, inbox' \in InboxRow,
           thread' \in [Gateways -> Thread], suspended' \subseteq Gateways,
           remote' \in Remote, runLease' \in BOOLEAN, faults' \in 0..MaxFaults
    PROVE  TypesOK'
<1>1. inbox'.generation \in Nat /\ inbox'.plan \in {"active", "complete", "replaced"}
  BY DEF InboxRow
<1> QED BY <1>1 DEF TypesOK, OutboxTypeOK, GatewayRow

\* A fault is counted within its bound.
LEMMA FaultTypes ==
    ASSUME TypesOK, faults' = faults \/ (faults < MaxFaults /\ faults' = faults + 1)
    PROVE  faults' \in 0..MaxFaults
  BY OutboxConstants DEF TypesOK, OutboxTypeOK

\* What Verdict makes of a process.
LEMMA VerdictFacts ==
    ASSUME TypesOK, NEW g \in Gateways, NEW v \in Verdicts, thread' = Verdict(g, v)
    PROVE  /\ thread' \in [Gateways -> Thread]
           /\ \A h \in Gateways \ {g} : thread'[h] = thread[h]
           /\ thread'[g].at = "finishing" /\ thread'[g].verdict = v
           /\ thread'[g].key = thread[g].key /\ thread'[g].reconcile = thread[g].reconcile
           /\ thread'[g].superseded = thread[g].superseded
<1>1. thread \in [Gateways -> Thread] /\ thread[g] \in Thread
  BY DEF TypesOK
<1> QED BY <1>1 DEF Verdict, Thread, Places

\* What Step makes of a process.
LEMMA StepFacts ==
    ASSUME TypesOK, NEW g \in Gateways, NEW at \in Places, thread' = Step(g, at)
    PROVE  /\ thread' \in [Gateways -> Thread]
           /\ \A h \in Gateways \ {g} : thread'[h] = thread[h]
           /\ thread'[g].at = at /\ thread'[g].verdict = thread[g].verdict
           /\ thread'[g].key = thread[g].key /\ thread'[g].reconcile = thread[g].reconcile
           /\ thread'[g].superseded = thread[g].superseded
<1>1. thread \in [Gateways -> Thread] /\ thread[g] \in Thread
  BY DEF TypesOK
<1> QED BY <1>1 DEF Step, Thread, Places

\* What becomes of a process that gives up.
LEMMA IdleFacts ==
    ASSUME TypesOK, NEW g \in Gateways, thread' = [thread EXCEPT ![g] = Idle]
    PROVE  /\ thread' \in [Gateways -> Thread]
           /\ \A h \in Gateways \ {g} : thread'[h] = thread[h]
           /\ thread'[g].at = "idle"
<1>1. thread \in [Gateways -> Thread] /\ Idle \in Thread
  BY DEF TypesOK, Idle, Thread, Places
<1> QED BY <1>1 DEF Idle

\* The key of a process that is not idle.
LEMMA KeyFacts ==
    ASSUME OutboxInv, NEW g \in Gateways, thread[g].at # "idle"
    PROVE  thread[g].key \in Keys /\ ThreadOK(g, thread[g])
  BY DEF OutboxInv, ThreadsOK, ThreadOK

\* A thread step types what it changes.
LEMMA ThreadTypes ==
    ASSUME OutboxInv, UNCHANGED <<requests, running, outbox, inbox, suspended, remote, runLease>>,
           gateway' = gateway, thread' \in [Gateways -> Thread],
           faults' = faults \/ (faults < MaxFaults /\ faults' = faults + 1)
    PROVE  TypesOK'
<1>1. TypesOK
  BY DEF OutboxInv
<1>2. faults' \in 0..MaxFaults
  BY <1>1, FaultTypes
<1> QED BY <1>1, <1>2 DEF TypesOK, OutboxTypeOK

\* A process that takes an entry in hand claims nothing yet.
LEMMA EnsureGatewayDispatcherKeeps ==
    ASSUME OutboxInv, NEW g \in Gateways, NEW k \in Keys, EnsureGatewayDispatcher(g, k)
    PROVE  OutboxInv'
<1>1. /\ TypesOK /\ thread \in [Gateways -> Thread]
      /\ thread' = [thread EXCEPT ![g] = [Idle EXCEPT !.at = "ensured", !.key = k]]
      /\ gateway' = [gateway EXCEPT !.dispatcher = g, !.live = TRUE]
  BY DEF OutboxInv, EnsureGatewayDispatcher, TypesOK
<1>2. [Idle EXCEPT !.at = "ensured", !.key = k] \in Thread
  BY DEF Idle, Thread, Places
<1>3. thread' \in [Gateways -> Thread]
  BY <1>1, <1>2
<1>4. gateway' \in GatewayRow
  BY <1>1 DEF TypesOK, OutboxTypeOK, GatewayRow, Tokens
<1>5. TypesOK'
  BY <1>1, <1>3, <1>4 DEF EnsureGatewayDispatcher, TypesOK, OutboxTypeOK, GatewayRow
<1>6. thread'[g].at = "ensured" /\ thread'[g].key = k
      /\ thread'[g].superseded = FALSE /\ thread'[g].reconcile = FALSE
  BY <1>1 DEF Idle
<1>7. ThreadGoes(g)
  BY <1>6 DEF ThreadGoes, ThreadOK
<1>8. \A h \in Gateways \ {g} : thread'[h] = thread[h]
  BY <1>1
<1>9. UNCHANGED <<outbox, inbox, remote>>
  BY DEF EnsureGatewayDispatcher
<1> QED BY <1>5, <1>7, <1>8, <1>9, ThreadStep

\* ClaimRefused and FinishFenced: the process gives up and nothing is recorded.
LEMMA GivesUpKeeps ==
    ASSUME OutboxInv, NEW g \in Gateways, ClaimRefused(g) \/ FinishFenced(g)
    PROVE  OutboxInv'
<1>1. /\ TypesOK /\ thread' = [thread EXCEPT ![g] = Idle] /\ gateway' = gateway /\ faults' = faults
      /\ UNCHANGED <<requests, running, outbox, inbox, suspended, remote, runLease>>
  BY DEF OutboxInv, ClaimRefused, FinishFenced, Ends
<1>2. /\ thread' \in [Gateways -> Thread]
      /\ \A h \in Gateways \ {g} : thread'[h] = thread[h]
      /\ thread'[g].at = "idle"
  BY <1>1, IdleFacts
<1>3. TypesOK'
  BY <1>1, <1>2, ThreadTypes
<1> QED BY <1>1, <1>2, <1>3, ThreadStep DEF ThreadGoes

\* A process that goes on with its claim to a verdict.
LEMMA VerdictKeeps ==
    ASSUME OutboxInv, NEW g \in Gateways, NEW v \in Verdicts, thread' = Verdict(g, v),
           UNCHANGED <<requests, running, outbox, inbox, suspended, remote, runLease>>,
           gateway' = gateway, faults' = faults \/ (faults < MaxFaults /\ faults' = faults + 1),
           thread[g].at \notin {"idle", "ensured"},
           v \in {"reject", "retry", "defer", "refuse", "pause"} => Unsent(thread[g]),
           v = "reject" /\ IsInbox(thread[g].key) => ~thread[g].reconcile,
           v = "succeed" /\ ~IsInbox(thread[g].key) => remote.effects[thread[g].key] > 0,
           v = "succeed" /\ IsInbox(thread[g].key) =>
              \/ remote.shown = Gen[thread[g].key]
              \/ Gen[thread[g].key] # inbox.generation
    PROVE  OutboxInv'
<1>1. TypesOK
  BY DEF OutboxInv
<1>2. /\ thread' \in [Gateways -> Thread]
      /\ \A h \in Gateways \ {g} : thread'[h] = thread[h]
      /\ thread'[g].at = "finishing" /\ thread'[g].verdict = v
      /\ thread'[g].key = thread[g].key /\ thread'[g].reconcile = thread[g].reconcile
      /\ thread'[g].superseded = thread[g].superseded
  BY <1>1, VerdictFacts
<1>3. TypesOK'
  BY <1>2, ThreadTypes
<1>4. thread[g].key \in Keys /\ ThreadOK(g, thread[g])
  BY KeyFacts
<1>5. FinishOK(g, thread'[g])
  BY <1>2 DEF FinishOK
<1>6. ThreadOK(g, thread'[g])
  BY <1>2, <1>4, <1>5 DEF ThreadOK
<1>7. Unsent(thread'[g]) => Unsent(thread[g])
  BY <1>2 DEF Unsent
<1>8. ThreadGoes(g)
  BY <1>2, <1>6, <1>7 DEF ThreadGoes, MaySend
<1> QED BY <1>2, <1>3, <1>8, ThreadStep

\* A process that goes on with its claim to the next place.
LEMMA PlaceKeeps ==
    ASSUME OutboxInv, NEW g \in Gateways, NEW at \in {"admitted", "validated", "sending"},
           NEW s \in BOOLEAN,
           thread' \in [Gateways -> Thread],
           \A h \in Gateways \ {g} : thread'[h] = thread[h],
           thread'[g].at = at, thread'[g].superseded = s,
           thread'[g].key = thread[g].key, thread'[g].reconcile = thread[g].reconcile,
           UNCHANGED <<requests, running, outbox, inbox, suspended, remote, runLease>>,
           gateway' = gateway, faults' = faults,
           thread[g].at \in {"claimed", "admitted", "validated", "sending"},
           thread[g].reconcile /\ at # "admitted" => IsInbox(thread[g].key),
           s => IsInbox(thread[g].key) /\ Gen[thread[g].key] < inbox.generation,
           at = "sending" => HeadExpected(thread[g].key),
           at = "sending" => thread[g].at = "validated" /\ ~thread[g].superseded,
           at = "validated" /\ ~s /\ IsInbox(thread[g].key) =>
               Gen[thread[g].key] = inbox.generation
    PROVE  OutboxInv'
<1>1. TypesOK'
  BY ThreadTypes
<1>2. thread[g].key \in Keys /\ ThreadOK(g, thread[g])
  BY KeyFacts
<1>3. ThreadOK(g, thread'[g])
  BY <1>2 DEF ThreadOK
<1>4. Unsent(thread'[g]) => Unsent(thread[g])
  BY DEF Unsent
<1>5. MaySend(thread'[g]) =>
         MaySend(thread[g]) \/ ~IsInbox(thread[g].key) \/ Gen[thread[g].key] = inbox.generation
  BY DEF MaySend
<1>6. ThreadGoes(g)
  BY <1>3, <1>4, <1>5 DEF ThreadGoes
<1> QED BY <1>1, <1>6, ThreadStep

\* A process that learns of its credential has written nothing.
LEMMA CredentialAvailableKeeps ==
    ASSUME OutboxInv, NEW g \in Gateways, NEW a \in {"available", "unavailable", "refused"},
           CredentialAvailable(g, a)
    PROVE  OutboxInv'
<1>1. /\ thread[g].at = "claimed" /\ gateway' = gateway
      /\ faults' = faults \/ (faults < MaxFaults /\ faults' = faults + 1)
      /\ UNCHANGED <<requests, running, outbox, inbox, suspended, remote, runLease>>
  BY DEF CredentialAvailable, Runs
<1>2. TypesOK /\ Unsent(thread[g])
  BY <1>1 DEF OutboxInv, Unsent
<1>3. CASE thread' = Step(g, "admitted") /\ faults' = faults
  <2>1. /\ thread' \in [Gateways -> Thread]
        /\ \A h \in Gateways \ {g} : thread'[h] = thread[h]
        /\ thread'[g].at = "admitted" /\ thread'[g].verdict = thread[g].verdict
        /\ thread'[g].key = thread[g].key /\ thread'[g].reconcile = thread[g].reconcile
        /\ thread'[g].superseded = thread[g].superseded
    BY <1>2, <1>3, StepFacts DEF Places
  <2>2. /\ thread[g].superseded \in BOOLEAN
        /\ ThreadOK(g, thread[g])
    BY <1>1, <1>2, KeyFacts DEF TypesOK, Thread
  <2>3. thread[g].superseded => IsInbox(thread[g].key) /\ Gen[thread[g].key] < inbox.generation
    BY <2>2 DEF ThreadOK
  <2> QED BY <1>1, <1>3, <2>1, <2>2, <2>3, PlaceKeeps
<1>4. CASE thread' = Verdict(g, "defer")
  BY <1>1, <1>2, <1>4, VerdictKeeps DEF Verdicts
<1>5. CASE thread' = Verdict(g, "refuse")
  BY <1>1, <1>2, <1>5, VerdictKeeps DEF Verdicts
<1> QED BY <1>3, <1>4, <1>5 DEF CredentialAvailable

\* A target is validated before anything is written, and only a generation
\* that was reached is superseded.
LEMMA ValidateDeliveryKeeps ==
    ASSUME OutboxInv, NEW g \in Gateways, ValidateDelivery(g)
    PROVE  OutboxInv'
<1>1. /\ thread[g].at = "admitted" /\ gateway' = gateway /\ faults' = faults
      /\ UNCHANGED <<requests, running, outbox, inbox, suspended, remote, runLease>>
      /\ thread[g].reconcile => IsInbox(thread[g].key)
  BY DEF ValidateDelivery, Runs
<1>2. TypesOK /\ Unsent(thread[g]) /\ thread[g].key \in Keys /\ ThreadOK(g, thread[g])
      /\ thread[g] \in Thread /\ thread \in [Gateways -> Thread]
  BY <1>1, KeyFacts DEF OutboxInv, Unsent, TypesOK
<1>3. CASE thread' = Verdict(g, "retry")
  BY <1>1, <1>2, <1>3, VerdictKeeps DEF Verdicts
<1>4. CASE thread' = Verdict(g, "reject") /\ (IsInbox(thread[g].key) => ~thread[g].reconcile)
  BY <1>1, <1>2, <1>4, VerdictKeeps DEF Verdicts
<1>5. CASE thread' = Verdict(g, "succeed") /\ IsInbox(thread[g].key)
           /\ Gen[thread[g].key] # inbox.generation
  BY <1>1, <1>2, <1>5, VerdictKeeps DEF Verdicts
<1>6. CASE /\ thread' = Step(g, "validated")
           /\ ~(IsInbox(thread[g].key) /\ Gen[thread[g].key] # inbox.generation)
  <2>1. /\ thread' \in [Gateways -> Thread]
        /\ \A h \in Gateways \ {g} : thread'[h] = thread[h]
        /\ thread'[g].at = "validated" /\ thread'[g].verdict = thread[g].verdict
        /\ thread'[g].key = thread[g].key /\ thread'[g].reconcile = thread[g].reconcile
        /\ thread'[g].superseded = thread[g].superseded
    BY <1>2, <1>6, StepFacts DEF Places
  <2>2. /\ thread[g].superseded \in BOOLEAN
        /\ thread[g].superseded => IsInbox(thread[g].key) /\ Gen[thread[g].key] < inbox.generation
    BY <1>2 DEF ThreadOK, Thread
  <2>3. IsInbox(thread[g].key) => Gen[thread[g].key] = inbox.generation
    BY <1>6
  <2> QED BY <1>1, <1>6, <2>1, <2>2, <2>3, PlaceKeeps
<1>7. CASE /\ thread' = [thread EXCEPT ![g].at = "validated", ![g].superseded = TRUE]
           /\ IsInbox(thread[g].key) /\ Gen[thread[g].key] # inbox.generation
  <2>1. /\ thread' \in [Gateways -> Thread]
        /\ \A h \in Gateways \ {g} : thread'[h] = thread[h]
        /\ thread'[g].at = "validated" /\ thread'[g].superseded = TRUE
        /\ thread'[g].key = thread[g].key /\ thread'[g].reconcile = thread[g].reconcile
    BY <1>2, <1>7 DEF Thread, Places
  \* The generation of an entry that is out was reached.
  <2>2. Gen[thread[g].key] < inbox.generation
    <3>1. Working(g, thread[g].key)
      BY <1>1 DEF Working
    <3>2. outbox[thread[g].key].state # "none"
      BY <1>2, <3>1 DEF OutboxInv, RowsOK
    <3>3. ~(Gen[thread[g].key] > inbox.generation)
      BY <1>2, <1>7, <3>2 DEF OutboxInv, RowsOK
    <3> QED BY <1>2, <1>7, <3>3, TypeFacts DEF InboxRow
  <2> QED BY <1>1, <1>7, <2>1, <2>2, PlaceKeeps
<1> QED BY <1>3, <1>4, <1>5, <1>6, <1>7 DEF ValidateDelivery, Target

\* An observation succeeds on what GitHub shows, and only the inbox of the
\* current generation is sent after it.
LEMMA ObserveKeeps ==
    ASSUME OutboxInv, NEW g \in Gateways, Observe(g)
    PROVE  OutboxInv'
<1>1. /\ thread[g].at \in {"admitted", "validated"} /\ gateway' = gateway /\ faults' = faults
      /\ UNCHANGED <<requests, running, outbox, inbox, suspended, remote, runLease>>
      /\ thread[g].at = "admitted" => thread[g].reconcile /\ ~IsInbox(thread[g].key)
  BY DEF Observe, Observing, Runs
<1>2. TypesOK /\ Unsent(thread[g]) /\ thread[g].key \in Keys /\ ThreadOK(g, thread[g])
      /\ thread[g] \in Thread /\ thread \in [Gateways -> Thread]
  BY <1>1, KeyFacts DEF OutboxInv, Unsent, TypesOK
<1>3. CASE thread' = Verdict(g, "uncertain")
  BY <1>1, <1>2, <1>3, VerdictKeeps DEF Verdicts
<1>4. CASE thread' = Verdict(g, "reject") /\ ~IsInbox(thread[g].key)
  BY <1>1, <1>2, <1>4, VerdictKeeps DEF Verdicts
<1>5. CASE thread' = Verdict(g, "succeed") /\ Applied(thread[g].key)
  BY <1>1, <1>2, <1>5, VerdictKeeps DEF Verdicts, Applied
<1>6. CASE thread' = Verdict(g, "succeed") /\ thread[g].superseded
  <2>1. IsInbox(thread[g].key) /\ Gen[thread[g].key] # inbox.generation
    BY <1>2, <1>6, TypeFacts DEF ThreadOK, InboxRow
  <2> QED BY <1>1, <1>2, <1>6, <2>1, VerdictKeeps DEF Verdicts
<1>7. CASE /\ thread' = Step(g, "sending") /\ ~thread[g].superseded
           /\ HeadExpected(thread[g].key)
           /\ ~(thread[g].reconcile /\ ~IsInbox(thread[g].key))
  <2>1. /\ thread' \in [Gateways -> Thread]
        /\ \A h \in Gateways \ {g} : thread'[h] = thread[h]
        /\ thread'[g].at = "sending" /\ thread'[g].verdict = thread[g].verdict
        /\ thread'[g].key = thread[g].key /\ thread'[g].reconcile = thread[g].reconcile
        /\ thread'[g].superseded = thread[g].superseded
    BY <1>2, <1>7, StepFacts DEF Places
  <2>2. thread'[g].superseded = FALSE
    BY <1>2, <1>7, <2>1 DEF Thread
  <2> QED BY <1>1, <1>7, <2>1, <2>2, PlaceKeeps
<1>8. HeadExpected(thread[g].key) \/ ~IsInbox(thread[g].key)
  BY DEF HeadExpected, IsInbox
<1> QED BY <1>3, <1>4, <1>5, <1>6, <1>7, <1>8 DEF Observe

\* An observation that fails proves nothing about the write.
LEMMA ObserveFailsKeeps ==
    ASSUME OutboxInv, NEW g \in Gateways, ObserveFails(g)
    PROVE  OutboxInv'
<1>1. /\ thread[g].at \in {"admitted", "validated"} /\ gateway' = gateway
      /\ faults' = faults \/ (faults < MaxFaults /\ faults' = faults + 1)
      /\ UNCHANGED <<requests, running, outbox, inbox, suspended, remote, runLease>>
  BY DEF ObserveFails, Observing, Runs
<1>2. Unsent(thread[g])
  BY <1>1 DEF Unsent
<1>3. CASE thread' = Verdict(g, "uncertain")
  BY <1>1, <1>2, <1>3, VerdictKeeps DEF Verdicts
<1>4. CASE thread' = Verdict(g, "retry")
  BY <1>1, <1>2, <1>4, VerdictKeeps DEF Verdicts
<1>5. CASE thread' = Verdict(g, "reject") /\ Op[thread[g].key] \in {"push", "pull"}
  BY <1>1, <1>2, <1>5, VerdictKeeps DEF Verdicts, IsInbox
<1>6. CASE thread' = Verdict(g, "pause")
  BY <1>1, <1>2, <1>6, VerdictKeeps DEF Verdicts
<1> QED BY <1>3, <1>4, <1>5, <1>6 DEF ObserveFails

\* A refused write did not land.
LEMMA ApplyRefusedKeeps ==
    ASSUME OutboxInv, NEW g \in Gateways, ApplyRefused(g)
    PROVE  OutboxInv'
<1>1. /\ thread[g].at = "sending" /\ gateway' = gateway
      /\ faults' = faults \/ (faults < MaxFaults /\ faults' = faults + 1)
      /\ UNCHANGED <<requests, running, outbox, inbox, suspended, remote, runLease>>
      /\ \/ thread' = Verdict(g, "retry") \/ thread' = Verdict(g, "pause")
         \/ thread' = Verdict(g, "reject") /\ Op[thread[g].key] = "pull"
  BY DEF ApplyRefused, Runs
<1>2. Unsent(thread[g])
  BY <1>1 DEF Unsent
<1>3. CASE thread' = Verdict(g, "reject") /\ ~IsInbox(thread[g].key)
  BY <1>1, <1>2, <1>3, VerdictKeeps DEF Verdicts
<1>4. CASE thread' = Verdict(g, "retry") \/ thread' = Verdict(g, "pause")
  BY <1>1, <1>2, <1>4, VerdictKeeps DEF Verdicts
<1> QED BY <1>1, <1>3, <1>4 DEF IsInbox

\* After a write without an answer only an observation makes it a success.
LEMMA ObserveUncertainKeeps ==
    ASSUME OutboxInv, NEW g \in Gateways, ObserveUncertain(g)
    PROVE  OutboxInv'
<1>1. /\ thread[g].at = "unanswered" /\ gateway' = gateway /\ faults' = faults
      /\ UNCHANGED <<requests, running, outbox, inbox, suspended, remote, runLease>>
  BY DEF ObserveUncertain, Runs
<1>2. CASE thread' = Verdict(g, "uncertain")
  BY <1>1, <1>2, VerdictKeeps DEF Verdicts
<1>3. CASE thread' = Verdict(g, "succeed") /\ Applied(thread[g].key)
  BY <1>1, <1>3, VerdictKeeps DEF Verdicts, Applied
<1> QED BY <1>2, <1>3 DEF ObserveUncertain

-----------------------------------------------------------------------------
(* The steps that settle a claim, or that queue the inbox.                  *)

\* An entry that is not there, and one that is queued.
LEMMA QueuedFacts ==
    /\ NoRow \in Row /\ NoRow.state = "none" /\ NoRow.uncertain = FALSE
    /\ Queued \in Row /\ Queued.state = "pending" /\ Queued.uncertain = FALSE
<1>1. 0 \in 0..MaxDeliveryAttempts
  BY OutboxConstants
<1>2. NoRow \in Row /\ NoRow.state = "none" /\ NoRow.uncertain = FALSE
  BY <1>1 DEF NoRow, Row, Tokens
<1> QED BY <1>2 DEF Queued, Row

\* The rows of a step, with or without the inbox that is queued after them.
QueuesNext(rows) ==
    \/ outbox' = rows /\ inbox'.generation = inbox.generation
    \/ outbox' = EnqueueNext(rows) /\ inbox'.generation = NextGeneration

\* Only the entry of the next generation is queued, and it was not there yet.
LEMMA QueueFacts ==
    ASSUME OutboxInv, NEW rows \in [Keys -> Row], QueuesNext(rows),
           \A j \in Keys : outbox[j].state = "none" => rows[j].state = "none"
    PROVE  /\ inbox.generation <= inbox'.generation /\ inbox'.generation \in Nat
           /\ outbox' \in [Keys -> Row]
           /\ \A j \in Keys : outbox'[j] = rows[j] \/ RowQueued(j)
           /\ \A j \in Keys : IsInbox(j) /\ Gen[j] > inbox'.generation =>
                 outbox'[j].state = "none"
<1>1. /\ inbox.generation \in Nat /\ outbox \in [Keys -> Row]
      /\ \A j \in Keys : Gen[j] \in Nat /\ (Gen[j] # 0 <=> IsInbox(j))
      /\ \A j \in Keys : IsInbox(j) /\ Gen[j] > inbox.generation => outbox[j].state = "none"
  BY OutboxConstants, TypeFacts DEF OutboxInv, RowsOK, InboxRow, IsInbox
<1>2. CASE outbox' = rows /\ inbox'.generation = inbox.generation
  BY <1>1, <1>2
<1>3. CASE outbox' = EnqueueNext(rows) /\ inbox'.generation = NextGeneration
  <2>1. Queued \in Row /\ Queued.state = "pending" /\ Queued.uncertain = FALSE
    BY QueuedFacts
  <2>2. outbox' \in [Keys -> Row]
    BY <1>3, <2>1 DEF EnqueueNext
  <2>3. \/ inbox'.generation = inbox.generation + 1
        \/ inbox'.generation = inbox.generation /\ NextInbox = {}
    BY <1>1, <1>3 DEF NextGeneration
  <2>4. \A j \in NextInbox : j \in Keys /\ IsInbox(j) /\ outbox[j].state = "none"
                             /\ Gen[j] = inbox.generation + 1
    <3>1. requests \subseteq Keys
      BY TypeFacts DEF OutboxInv
    <3> QED BY <1>1, <3>1 DEF NextInbox
  <2>5. \A j \in Keys : outbox'[j] = IF j \in NextInbox THEN Queued ELSE rows[j]
    BY <1>3 DEF EnqueueNext
  <2>6. \A j \in NextInbox : RowQueued(j)
    BY <2>1, <2>4, <2>5 DEF RowQueued
  <2>7. \A j \in Keys : outbox'[j] = rows[j] \/ RowQueued(j)
    BY <2>5, <2>6
  <2>8. ASSUME NEW j \in Keys, IsInbox(j), Gen[j] > inbox'.generation
        PROVE  outbox'[j].state = "none"
    <3>1. j \notin NextInbox
      BY <1>1, <2>3, <2>4, <2>8
    <3>2. Gen[j] > inbox.generation
      BY <1>1, <2>3, <2>8
    <3> QED BY <1>1, <2>5, <2>8, <3>1, <3>2
  <2> QED BY <1>1, <2>2, <2>3, <2>7, <2>8
<1> QED BY <1>2, <1>3 DEF QueuesNext

\* The rows after a claim ended.
LEMMA SettledFacts ==
    ASSUME TypesOK, NEW k \in Keys, NEW st \in {"pending", "succeeded", "rejected"},
           NEW u \in BOOLEAN
    PROVE  /\ Settled(k, st, u) \in [Keys -> Row]
           /\ Settled(k, st, u)[k].state = st /\ Settled(k, st, u)[k].uncertain = u
           /\ Settled(k, st, u)[k].attempts = outbox[k].attempts
           /\ \A j \in Keys \ {k} : Settled(k, st, u)[j] = outbox[j]
<1>1. outbox \in [Keys -> Row] /\ outbox[k] \in Row /\ None \in Tokens
  BY TypeFacts DEF Tokens
<1> QED BY <1>1 DEF Settled, Row

\* What a rejection asks for.
LEMMA AttentionFacts ==
    ASSUME OutboxInv, NEW k \in Keys, NEW u \in BOOLEAN, NEW rows, NeedsAttention(k, u, rows)
    PROVE  /\ QueuesNext(rows)
           /\ inbox'.plan = inbox.plan /\ inbox'.authorised \subseteq Keys
           /\ inbox' = [generation |-> inbox'.generation, since |-> inbox.since, plan |-> inbox'.plan,
                        question |-> inbox'.question, authorised |-> inbox'.authorised]
           /\ inbox'.question \in [Keys -> {"none", "open", "answered"}]
           /\ \A j \in Keys : \/ inbox'.question[j] = inbox.question[j]
                              \/ j = k /\ IsInbox(k) /\ inbox'.question[j] = "open"
           /\ IsInbox(k) /\ u => inbox'.question[k] = "open"
<1> DEFINE asked == IF IsInbox(k) /\ u THEN AskRecovery(k) ELSE inbox
<1>1. inbox \in InboxRow
  BY TypeFacts DEF OutboxInv
<1>2. /\ asked \in InboxRow /\ asked.generation = inbox.generation
      /\ asked.plan = inbox.plan /\ asked.since = inbox.since
      /\ \A j \in Keys : \/ asked.question[j] = inbox.question[j]
                         \/ j = k /\ IsInbox(k) /\ asked.question[j] = "open"
      /\ IsInbox(k) /\ u => asked.question[k] = "open"
  BY <1>1 DEF AskRecovery, InboxRow
<1>3. \/ outbox' = rows /\ inbox' = asked
      \/ outbox' = EnqueueNext(rows) /\ inbox' = [asked EXCEPT !.generation = NextGeneration]
  BY DEF NeedsAttention
<1> HIDE DEF asked
<1> QED BY <1>2, <1>3 DEF QueuesNext, InboxRow

\* A claim that is taken up later, or settled, with what the row asks for.
LEMMA SettleKeeps ==
    ASSUME OutboxInv, TypesOK', UNCHANGED remote, ThreadsRest,
           NEW k \in Keys, NEW st \in {"pending", "succeeded", "rejected"}, NEW u \in BOOLEAN,
           QueuesNext(Settled(k, st, u)),
           outbox[k].state \in {"pending", "processing"},
           st = "pending" /\ ~u => Written(k) = 0 /\ \A g \in Gateways : ~Working(g, k)',
           st = "succeeded" =>
              /\ outbox[k].state = "processing" /\ ~u /\ inbox' = inbox
              /\ ~IsInbox(k) => remote.effects[k] > 0
              /\ IsInbox(k) /\ ~remote.stray /\ Gen[k] = inbox.generation =>
                    remote.shown = Gen[k],
           st = "rejected" /\ IsInbox(k) =>
              \/ Exhausted(k)
              \/ ~u /\ Written(k) = 0 /\ \A g \in Gateways : ~Working(g, k)',
           \A j \in Keys : \/ inbox'.question[j] = inbox.question[j]
                           \/ j = k /\ IsInbox(k) /\ inbox'.question[j] = "open",
           st = "rejected" /\ IsInbox(k) /\ u => inbox'.question[k] = "open"
    PROVE  OutboxInv'
<1>1. TypesOK /\ BlockedIsAskable /\ RowsOK
  BY DEF OutboxInv
<1> DEFINE rows == Settled(k, st, u)
<1>2. /\ rows \in [Keys -> Row]
      /\ rows[k].state = st /\ rows[k].uncertain = u /\ rows[k].attempts = outbox[k].attempts
      /\ \A j \in Keys \ {k} : rows[j] = outbox[j]
  BY <1>1, SettledFacts
<1>3. QueuesNext(rows)
  OBVIOUS
<1> HIDE DEF rows
<1>4. /\ inbox.generation <= inbox'.generation /\ inbox'.generation \in Nat
      /\ \A j \in Keys : outbox'[j] = rows[j] \/ RowQueued(j)
      /\ \A j \in Keys : IsInbox(j) /\ Gen[j] > inbox'.generation => outbox'[j].state = "none"
  BY <1>2, <1>3, QueueFacts
<1>5. outbox'[k] = rows[k]
  BY <1>4 DEF RowQueued
<1>6. RowSettled(k)
  BY <1>2, <1>5 DEF RowSettled
<1>7. ASSUME NEW j \in Keys \ {k} PROVE RowSame(j) \/ RowQueued(j)
  BY <1>2, <1>4, <1>7 DEF RowSame, Holds
<1>8. \A j \in Keys : RowGoes(j)
  BY <1>6, <1>7 DEF RowGoes
<1>9. AsksRight
  <2> SUFFICES ASSUME NEW j \in Keys
               PROVE  /\ inbox'.question[j] = "open" => IsInbox(j)
                      /\ IsInbox(j) /\ outbox'[j].state = "rejected" /\ outbox'[j].uncertain =>
                            inbox'.question[j] = "open"
                      /\ IsInbox(j) /\ Gen[j] > inbox'.generation => outbox'[j].state = "none"
    BY DEF AsksRight
  <2>1. inbox'.question[j] = "open" => IsInbox(j)
    BY <1>1 DEF RowsOK
  <2>2. j = k \/ RowQueued(j) \/ outbox'[j] = outbox[j]
    BY <1>2, <1>4
  <2>3. IsInbox(j) /\ outbox'[j].state = "rejected" /\ outbox'[j].uncertain =>
           inbox'.question[j] = "open"
    BY <1>1, <1>2, <1>5, <2>2 DEF BlockedIsAskable, RowQueued
  <2> QED BY <2>1, <2>3, <1>4
<1> QED BY <1>4, <1>8, <1>9, RowsStep

\* What a step on the rows leaves alone, or types.
RestOK ==
    /\ UNCHANGED <<requests, running, remote, runLease>>
    /\ gateway' \in GatewayRow /\ thread' \in [Gateways -> Thread]
    /\ suspended' \subseteq Gateways /\ faults' \in 0..MaxFaults /\ ThreadsRest

\* Such a step is typed when its rows and its inbox are.
LEMMA RestTypes ==
    ASSUME OutboxInv, RestOK, outbox' \in [Keys -> Row], inbox' \in InboxRow
    PROVE  TypesOK'
<1>1. TypesOK
  BY DEF OutboxInv
<1> QED BY <1>1, TypesStep DEF RestOK, TypesOK, OutboxTypeOK

\* An entry that is rejected, with the attention that it raises.
LEMMA AttentionKeeps ==
    ASSUME OutboxInv, RestOK, NEW k \in Keys, NEW u \in BOOLEAN,
           NeedsAttention(k, u, Settled(k, "rejected", u)),
           outbox[k].state \in {"pending", "processing"},
           IsInbox(k) => Exhausted(k)
    PROVE  OutboxInv'
<1>1. TypesOK
  BY DEF OutboxInv
<1>2. /\ Settled(k, "rejected", u) \in [Keys -> Row]
      /\ Settled(k, "rejected", u)[k].state = "rejected"
      /\ \A j \in Keys \ {k} : Settled(k, "rejected", u)[j] = outbox[j]
  BY <1>1, SettledFacts
<1>3. /\ QueuesNext(Settled(k, "rejected", u))
      /\ inbox'.plan = inbox.plan /\ inbox'.authorised \subseteq Keys
      /\ inbox' = [generation |-> inbox'.generation, since |-> inbox.since, plan |-> inbox'.plan,
                   question |-> inbox'.question, authorised |-> inbox'.authorised]
      /\ inbox'.question \in [Keys -> {"none", "open", "answered"}]
      /\ \A j \in Keys : \/ inbox'.question[j] = inbox.question[j]
                         \/ j = k /\ IsInbox(k) /\ inbox'.question[j] = "open"
      /\ IsInbox(k) /\ u => inbox'.question[k] = "open"
  BY AttentionFacts
<1>4. \A j \in Keys : outbox[j].state = "none" => Settled(k, "rejected", u)[j].state = "none"
  BY <1>2
<1>5. outbox' \in [Keys -> Row] /\ inbox'.generation \in Nat
  BY <1>2, <1>3, <1>4, QueueFacts
<1>6. inbox.plan \in {"active", "complete", "replaced"} /\ inbox.since \in Nat
  BY <1>1, TypeFacts DEF InboxRow
<1>7. inbox' \in InboxRow
  BY <1>3, <1>5, <1>6 DEF InboxRow
<1>8. TypesOK'
  BY <1>5, <1>7, RestTypes
<1> QED BY <1>3, <1>8, SettleKeeps DEF RestOK

\* An entry whose claim ends with nothing else to record.
LEMMA PlainKeeps ==
    ASSUME OutboxInv, RestOK, NEW k \in Keys, NEW u \in BOOLEAN,
           NEW st \in {"pending", "succeeded", "rejected"},
           outbox' = Settled(k, st, u), inbox' = inbox,
           outbox[k].state \in {"pending", "processing"},
           st = "pending" /\ ~u => Written(k) = 0 /\ \A g \in Gateways : ~Working(g, k)',
           st = "succeeded" =>
              /\ outbox[k].state = "processing" /\ ~u
              /\ ~IsInbox(k) => remote.effects[k] > 0
              /\ IsInbox(k) /\ ~remote.stray /\ Gen[k] = inbox.generation =>
                    remote.shown = Gen[k],
           st = "rejected" /\ IsInbox(k) =>
              ~u /\ Written(k) = 0 /\ \A g \in Gateways : ~Working(g, k)'
    PROVE  OutboxInv'
<1>1. TypesOK /\ inbox' \in InboxRow
  BY TypeFacts DEF OutboxInv
<1>2. outbox' \in [Keys -> Row]
  BY <1>1, SettledFacts
<1>3. TypesOK'
  BY <1>1, <1>2, RestTypes
<1>4. QueuesNext(Settled(k, st, u))
  BY DEF QueuesNext
<1> QED BY <1>3, <1>4, SettleKeeps DEF RestOK

\* The holder of a claim that has written nothing is alone with its entry.
LEMMA HolderAlone ==
    ASSUME OutboxInv, NEW g \in Gateways, NEW k \in Keys, Working(g, k), Holds(g, k),
           ~thread[g].reconcile, Unsent(thread[g]), ThreadsRest, thread'[g].at = "idle"
    PROVE  Written(k) = 0 /\ \A h \in Gateways : ~Working(h, k)'
<1>1. Fresh(g, k)
  BY DEF Fresh
<1>2. Written(k) = 0
  BY <1>1 DEF OutboxInv, WritersOK
<1>3. ~outbox[k].uncertain /\ ~Final(k)
  BY DEF OutboxInv, ClaimsOK, Holds, Final
<1>4. \A h \in Gateways \ {g} : ~Working(h, k)
  BY <1>3 DEF OutboxInv, ClaimsOK, Holds
<1>5. \A h \in Gateways : ~Working(h, k)'
  BY <1>4 DEF Working, ThreadsRest, ThreadRests
<1> QED BY <1>2, <1>5

\* A claim that is given back.
LEMMA RequeueKeeps ==
    ASSUME OutboxInv, RestOK, NEW g \in Gateways, NEW k \in Keys, NEW u \in BOOLEAN,
           Requeue(k, u), Holds(g, k), Working(g, k), thread'[g].at = "idle",
           ~u => ~thread[g].reconcile /\ Unsent(thread[g])
    PROVE  OutboxInv'
<1>1. outbox[k].state = "processing"
  BY DEF Holds
<1>2. ~u => Written(k) = 0 /\ \A h \in Gateways : ~Working(h, k)'
  BY HolderAlone DEF RestOK
<1>3. CASE Exhausted(k) /\ NeedsAttention(k, u, Settled(k, "rejected", u))
  BY <1>1, <1>3, AttentionKeeps
<1>4. CASE outbox' = Settled(k, "pending", u) /\ inbox' = inbox
  BY <1>1, <1>2, <1>4, PlainKeeps
<1> QED BY <1>3, <1>4 DEF Requeue

\* A claim that is rejected before its last attempt.
LEMMA RejectKeeps ==
    ASSUME OutboxInv, RestOK, NEW g \in Gateways, NEW k \in Keys, NEW u \in BOOLEAN,
           Reject(k, u), Holds(g, k), Working(g, k), thread'[g].at = "idle",
           u = thread[g].reconcile, IsInbox(k) => ~u, Unsent(thread[g])
    PROVE  OutboxInv'
<1>1. outbox[k].state \in {"pending", "processing"} /\ ThreadsRest
  BY DEF Holds, RestOK
<1>2. IsInbox(k) => ~u /\ Written(k) = 0 /\ \A h \in Gateways : ~Working(h, k)'
  BY <1>1, HolderAlone
<1>3. CASE NeedsAttention(k, u, Settled(k, "rejected", u)) /\ ~IsInbox(k)
  BY <1>1, <1>3, AttentionKeeps
<1>4. CASE outbox' = Settled(k, "rejected", u) /\ inbox' = inbox
  BY <1>1, <1>2, <1>4, PlainKeeps
<1> QED BY <1>2, <1>3, <1>4 DEF Reject, RejectRaisesAttention, IsInbox

\* The end of a dispatch.
LEMMA EndFacts ==
    ASSUME OutboxInv, NEW g \in Gateways, thread' = [thread EXCEPT ![g] = Idle],
           UNCHANGED <<requests, running, suspended, remote, runLease>>,
           gateway' = gateway \/ gateway' = [gateway EXCEPT !.paused = TRUE],
           faults' = faults \/ (faults < MaxFaults /\ faults' = faults + 1)
    PROVE  RestOK /\ thread'[g].at = "idle"
<1>1. TypesOK
  BY DEF OutboxInv
<1>2. /\ thread' \in [Gateways -> Thread]
      /\ \A h \in Gateways \ {g} : thread'[h] = thread[h]
      /\ thread'[g].at = "idle"
  BY <1>1, IdleFacts
<1>3. gateway' \in GatewayRow
  BY <1>1 DEF TypesOK, OutboxTypeOK, GatewayRow
<1>4. suspended' \subseteq Gateways
  BY <1>1 DEF TypesOK, OutboxTypeOK
<1>5. faults' \in 0..MaxFaults
  BY <1>1, FaultTypes
<1> QED BY <1>2, <1>3, <1>4, <1>5 DEF RestOK, ThreadsRest, ThreadRests

\* What a process has in hand when its dispatch ends.
LEMMA HandFacts ==
    ASSUME OutboxInv, NEW g \in Gateways, thread[g].at \notin {"idle", "ensured"}
    PROVE  /\ thread[g].key \in Keys /\ thread[g].reconcile \in BOOLEAN
           /\ Working(g, thread[g].key) /\ ThreadOK(g, thread[g])
           /\ thread[g].at = "finishing" => FinishOK(g, thread[g])
  BY KeyFacts, TypeFacts DEF OutboxInv, Working, Thread, ThreadOK

\* A process that lost the dispatcher gives back a claim it still has.
LEMMA DispatcherLostKeeps ==
    ASSUME OutboxInv, NEW g \in Gateways, DispatcherLost(g)
    PROVE  OutboxInv'
<1>1. /\ thread[g].at = "claimed" /\ RequeueClaim(g, thread[g].key, thread[g].reconcile)
      /\ RestOK /\ thread'[g].at = "idle" /\ UNCHANGED remote
  BY EndFacts DEF DispatcherLost, Runs
<1>2. /\ thread[g].key \in Keys /\ thread[g].reconcile \in BOOLEAN
      /\ Working(g, thread[g].key) /\ Unsent(thread[g])
  BY <1>1, HandFacts DEF Unsent
<1>3. CASE Holds(g, thread[g].key)
  <2>1. Requeue(thread[g].key, thread[g].reconcile)
    BY <1>1, <1>3 DEF RequeueClaim
  <2> QED BY <1>1, <1>2, <1>3, <2>1, RequeueKeeps
<1>4. CASE ~Holds(g, thread[g].key)
  <2>1. UNCHANGED <<outbox, inbox>>
    BY <1>1, <1>4 DEF RequeueClaim
  <2>2. TypesOK'
    BY <1>1, <2>1, TypeFacts, RestTypes DEF OutboxInv
  <2>3. \A h \in Gateways \ {g} : thread'[h] = thread[h]
    BY IdleFacts DEF DispatcherLost, OutboxInv
  <2> QED BY <1>1, <2>1, <2>2, <2>3, ThreadStep DEF ThreadGoes
<1> QED BY <1>3, <1>4

\* So does one whose dispatch ended, as uncertain unless nothing was tried.
LEMMA FinishWithoutLeaseKeeps ==
    ASSUME OutboxInv, NEW g \in Gateways, FinishWithoutLease(g)
    PROVE  OutboxInv'
<1>1. /\ thread[g].at = "finishing" /\ RequeueClaim(g, thread[g].key, Doubtful(g))
      /\ RestOK /\ thread'[g].at = "idle" /\ UNCHANGED remote
  BY EndFacts DEF FinishWithoutLease, Ends, Runs
<1>2. /\ thread[g].key \in Keys /\ thread[g].reconcile \in BOOLEAN /\ Doubtful(g) \in BOOLEAN
      /\ Working(g, thread[g].key)
  BY <1>1, HandFacts DEF Doubtful
<1>3. ~Doubtful(g) => ~thread[g].reconcile /\ Unsent(thread[g])
  BY <1>1 DEF Doubtful, Unsent
<1>4. CASE Holds(g, thread[g].key)
  <2>1. Requeue(thread[g].key, Doubtful(g))
    BY <1>1, <1>4 DEF RequeueClaim
  <2> QED BY <1>1, <1>2, <1>3, <1>4, <2>1, RequeueKeeps
<1>5. CASE ~Holds(g, thread[g].key)
  <2>1. UNCHANGED <<outbox, inbox>>
    BY <1>1, <1>5 DEF RequeueClaim
  <2>2. TypesOK'
    BY <1>1, <2>1, TypeFacts, RestTypes DEF OutboxInv
  <2>3. \A h \in Gateways \ {g} : thread'[h] = thread[h]
    BY IdleFacts DEF FinishWithoutLease, Ends, OutboxInv
  <2> QED BY <1>1, <2>1, <2>2, <2>3, ThreadStep DEF ThreadGoes
<1> QED BY <1>4, <1>5

\* The verdict of a dispatch is recorded by the holder of the claim.
LEMMA FinishDeliveryKeeps ==
    ASSUME OutboxInv, NEW g \in Gateways, FinishDelivery(g)
    PROVE  OutboxInv'
<1> DEFINE k == thread[g].key
           u == thread[g].reconcile
           v == thread[g].verdict
<1>1. /\ thread[g].at = "finishing" /\ RestOK /\ thread'[g].at = "idle" /\ Holds(g, k)
      /\ \/ v = "succeed" /\ CompleteDeliveryOutbox(k)
         \/ v = "reject" /\ Reject(k, u)
         \/ v = "uncertain" /\ Requeue(k, TRUE)
         \/ v \in {"retry", "defer"} /\ Requeue(k, u)
  BY EndFacts DEF FinishDelivery, Ends, Runs
<1>2. k \in Keys /\ u \in BOOLEAN /\ Working(g, k) /\ FinishOK(g, thread[g])
  BY <1>1, HandFacts
<1>3. outbox[k].state = "processing"
  BY <1>1 DEF Holds
<1>4. CASE v = "succeed" /\ CompleteDeliveryOutbox(k)
  <2>1. /\ ~IsInbox(k) => remote.effects[k] > 0
        /\ IsInbox(k) /\ ~remote.stray /\ Gen[k] = inbox.generation => remote.shown = Gen[k]
    BY <1>1, <1>2, <1>4 DEF FinishOK
  <2>2. outbox' = Settled(k, "succeeded", FALSE) /\ inbox' = inbox
    BY <1>4 DEF CompleteDeliveryOutbox
  <2> HIDE DEF k, u, v
  <2> QED BY <1>1, <1>2, <1>3, <2>1, <2>2, PlainKeeps
<1>5. CASE v = "reject" /\ Reject(k, u)
  <2>1. IsInbox(k) => ~u
    BY <1>2, <1>5 DEF FinishOK
  <2>2. Unsent(thread[g])
    BY <1>1, <1>5 DEF Unsent
  <2> QED BY <1>1, <1>2, <1>5, <2>1, <2>2, RejectKeeps
<1>6. CASE v = "uncertain" /\ Requeue(k, TRUE)
  <2> HIDE DEF k, u, v
  <2> QED BY <1>1, <1>2, <1>6, RequeueKeeps
<1>7. CASE v \in {"retry", "defer"} /\ Requeue(k, u)
  <2>1. Unsent(thread[g])
    BY <1>1, <1>7 DEF Unsent
  <2> QED BY <1>1, <1>2, <1>7, <2>1, RequeueKeeps
<1> QED BY <1>1, <1>4, <1>5, <1>6, <1>7

\* An outcome that cannot be stored leaves an entry that is uncertain.
LEMMA FinishUnrecordedKeeps ==
    ASSUME OutboxInv, NEW g \in Gateways, FinishUnrecorded(g)
    PROVE  OutboxInv'
<1> DEFINE k == thread[g].key
           u == thread[g].reconcile \/ thread[g].verdict \in {"succeed", "uncertain"}
<1>1. /\ thread[g].at = "finishing" /\ RestOK /\ thread'[g].at = "idle" /\ Holds(g, k)
      /\ Requeue(k, u)
  BY EndFacts DEF FinishUnrecorded, Ends, Runs
<1>2. k \in Keys /\ u \in BOOLEAN /\ Working(g, k) /\ FinishOK(g, thread[g])
  BY <1>1, HandFacts
<1>3. ~u => ~thread[g].reconcile /\ Unsent(thread[g])
  BY <1>1, <1>2 DEF Unsent, FinishOK, Verdicts
<1> HIDE DEF k, u
<1> QED BY <1>1, <1>2, <1>3, RequeueKeeps

\* An entry without attempts left is rejected with what is known of it.
LEMMA ClaimExhaustedKeeps ==
    ASSUME OutboxInv, NEW g \in Gateways, ClaimExhausted(g)
    PROVE  OutboxInv'
<1> DEFINE k == thread[g].key
<1>1. /\ thread[g].at = "ensured" /\ RestOK /\ Exhausted(k) /\ Claimable(k)
      /\ NeedsAttention(k, outbox[k].uncertain, Settled(k, "rejected", outbox[k].uncertain))
  BY EndFacts DEF ClaimExhausted, Runs
<1>2. k \in Keys
  BY <1>1, KeyFacts
<1>3. outbox[k].uncertain \in BOOLEAN /\ outbox[k].state \in {"pending", "processing"}
  BY <1>1, <1>2, TypeFacts DEF OutboxInv, Row, Claimable
<1> HIDE DEF k
<1> QED BY <1>1, <1>2, <1>3, AttentionKeeps

\* The inbox is queued for the next generation.
LEMMA NextTypes ==
    ASSUME TypesOK
    PROVE  [inbox EXCEPT !.generation = NextGeneration] \in InboxRow
<1>1. inbox \in InboxRow
  BY TypeFacts
<1>2. NextGeneration \in Nat
  BY <1>1 DEF NextGeneration, InboxRow
<1> QED BY <1>1, <1>2 DEF InboxRow

\* The rows stay, but for the inbox that is queued.
LEMMA QueueKeeps ==
    ASSUME OutboxInv, RestOK, QueuesNext(outbox), inbox' \in InboxRow,
           inbox'.question = inbox.question
    PROVE  OutboxInv'
<1>1. TypesOK /\ RowsOK /\ BlockedIsAskable /\ outbox \in [Keys -> Row]
  BY TypeFacts DEF OutboxInv
<1>2. /\ inbox.generation <= inbox'.generation /\ outbox' \in [Keys -> Row]
      /\ \A j \in Keys : outbox'[j] = outbox[j] \/ RowQueued(j)
      /\ \A j \in Keys : IsInbox(j) /\ Gen[j] > inbox'.generation =>
            outbox'[j].state = "none"
  BY <1>1, QueueFacts
<1>3. TypesOK'
  BY <1>2, RestTypes
<1>4. \A j \in Keys : RowGoes(j)
  BY <1>2 DEF RowGoes, RowSame, Holds
<1>5. AsksRight
  BY <1>1, <1>2 DEF AsksRight, RowsOK, BlockedIsAskable, RowQueued
<1>6. UNCHANGED remote /\ ThreadsRest
  BY DEF RestOK
<1> QED BY <1>2, <1>3, <1>4, <1>5, <1>6, RowsStep

\* Only the processes, the gateway or the faults change, in their types.
LEMMA ElsewhereKeeps ==
    ASSUME OutboxInv, TypesOK', UNCHANGED <<outbox, inbox, thread, remote>>
    PROVE  OutboxInv'
<1>1. RowsOK /\ BlockedIsAskable /\ inbox \in InboxRow
  BY TypeFacts DEF OutboxInv
<1>2. \A j \in Keys : RowGoes(j)
  BY DEF RowGoes, RowSame, Holds
<1>3. AsksRight
  BY <1>1 DEF AsksRight, RowsOK, BlockedIsAskable
<1>4. inbox.generation <= inbox'.generation /\ ThreadsRest
  BY <1>1 DEF InboxRow, ThreadsRest, ThreadRests
<1> QED BY <1>2, <1>3, <1>4, RowsStep

\* A refused credential pauses the writes.
LEMMA PauseForCredentialKeeps ==
    ASSUME OutboxInv, NEW g \in Gateways, PauseForCredential(g)
    PROVE  OutboxInv'
<1>1. /\ thread[g].at = "finishing" /\ thread[g].verdict \in {"refuse", "pause"}
      /\ thread' = Step(g, "pausing") /\ gateway' = [gateway EXCEPT !.paused = TRUE]
      /\ UNCHANGED <<requests, running, outbox, inbox, suspended, remote, runLease, faults>>
  BY DEF PauseForCredential, Refused, Runs
<1>2. TypesOK /\ ThreadOK(g, thread[g])
  BY <1>1, KeyFacts DEF OutboxInv
<1>3. /\ thread' \in [Gateways -> Thread]
      /\ \A h \in Gateways \ {g} : thread'[h] = thread[h]
      /\ thread'[g].at = "pausing"
      /\ thread'[g].key = thread[g].key /\ thread'[g].reconcile = thread[g].reconcile
      /\ thread'[g].superseded = thread[g].superseded
  BY <1>1, <1>2, StepFacts DEF Places
<1>4. gateway' \in GatewayRow
  BY <1>1, <1>2 DEF TypesOK, OutboxTypeOK, GatewayRow
<1>5. TypesOK'
  BY <1>1, <1>2, <1>3, <1>4 DEF TypesOK, OutboxTypeOK, GatewayRow
<1>6. ThreadOK(g, thread'[g]) /\ (Unsent(thread'[g]) => Unsent(thread[g]))
  BY <1>1, <1>2, <1>3 DEF ThreadOK, Unsent
<1>7. ThreadGoes(g)
  BY <1>1, <1>3, <1>6 DEF ThreadGoes, MaySend
<1> QED BY <1>1, <1>3, <1>5, <1>7, ThreadStep

\* The question about it is projected.
LEMMA ProjectCredentialQuestionKeeps ==
    ASSUME OutboxInv, NEW g \in Gateways, ProjectCredentialQuestion(g)
    PROVE  OutboxInv'
<1>1. /\ thread[g].at = "pausing" /\ thread' = Step(g, "deferring")
      /\ UNCHANGED <<requests, running, gateway, suspended, remote, runLease, faults>>
  BY DEF ProjectCredentialQuestion, Runs
<1>2. TypesOK /\ inbox \in InboxRow /\ [inbox EXCEPT !.generation = NextGeneration] \in InboxRow
  BY TypeFacts, NextTypes DEF OutboxInv
<1>3. /\ thread' \in [Gateways -> Thread]
      /\ \A h \in Gateways \ {g} : thread'[h] = thread[h]
      /\ thread'[g].at = "deferring"
      /\ thread'[g].key = thread[g].key /\ thread'[g].reconcile = thread[g].reconcile
      /\ thread'[g].superseded = thread[g].superseded
  BY <1>1, <1>2, StepFacts DEF Places
<1>4. RestOK
  <2>1. ThreadsRest
    BY <1>1, <1>3 DEF ThreadsRest, ThreadRests
  <2> QED BY <1>1, <1>2, <1>3, <2>1 DEF RestOK, TypesOK, OutboxTypeOK, GatewayRow
<1>5. \/ outbox' = EnqueueNext(outbox) /\ inbox' = [inbox EXCEPT !.generation = NextGeneration]
      \/ outbox' = outbox /\ inbox' = inbox
  BY DEF ProjectCredentialQuestion
<1>6. inbox' \in InboxRow /\ inbox'.question = inbox.question /\ QueuesNext(outbox)
  BY <1>2, <1>5 DEF QueuesNext, InboxRow
<1> QED BY <1>4, <1>6, QueueKeeps

\* A process that was refused gives back a claim it still has.
LEMMA DeferRefusedKeeps ==
    ASSUME OutboxInv, NEW g \in Gateways, DeferRefused(g)
    PROVE  OutboxInv'
<1>1. /\ thread[g].at \in {"finishing", "pausing", "deferring"} /\ Unsent(thread[g])
      /\ RequeueClaim(g, thread[g].key, thread[g].reconcile)
      /\ RestOK /\ thread'[g].at = "idle" /\ UNCHANGED remote
  BY EndFacts DEF DeferRefused, Runs, Refused, Unsent
<1>2. /\ thread[g].key \in Keys /\ thread[g].reconcile \in BOOLEAN
      /\ Working(g, thread[g].key)
  BY <1>1, HandFacts
<1>3. CASE Holds(g, thread[g].key)
  <2>1. Requeue(thread[g].key, thread[g].reconcile)
    BY <1>1, <1>3 DEF RequeueClaim
  <2> QED BY <1>1, <1>2, <1>3, <2>1, RequeueKeeps
<1>4. CASE ~Holds(g, thread[g].key)
  <2>1. UNCHANGED <<outbox, inbox>>
    BY <1>1, <1>4 DEF RequeueClaim
  <2>2. TypesOK'
    BY <1>1, <2>1, TypeFacts, RestTypes DEF OutboxInv
  <2>3. \A h \in Gateways \ {g} : thread'[h] = thread[h]
    BY IdleFacts DEF DeferRefused, OutboxInv
  <2> QED BY <1>1, <2>1, <2>2, <2>3, ThreadStep DEF ThreadGoes
<1> QED BY <1>3, <1>4

\* The steps that queue the inbox and settle nothing.
LEMMA QueueingKeeps ==
    ASSUME OutboxInv,
           \/ QueueWorkflowInboxProjection
           \/ \E to \in {"complete", "replaced"} : PlanChanges(to)
           \/ \E o \in Owners : ResumeGatewayWrites(o)
    PROVE  OutboxInv'
<1>1. TypesOK /\ inbox \in InboxRow /\ [inbox EXCEPT !.generation = NextGeneration] \in InboxRow
  BY TypeFacts, NextTypes DEF OutboxInv
<1>2. CASE QueueWorkflowInboxProjection
  <2>1. RestOK
    BY <1>1, <1>2 DEF QueueWorkflowInboxProjection, RestOK, TypesOK, OutboxTypeOK, GatewayRow,
                      ThreadsRest, ThreadRests
  <2>2. /\ inbox' \in InboxRow /\ inbox'.question = inbox.question
        /\ outbox' = EnqueueNext(outbox) /\ inbox'.generation = NextGeneration
    BY <1>1, <1>2 DEF QueueWorkflowInboxProjection, InboxRow
  <2>3. QueuesNext(outbox)
    BY <2>2 DEF QueuesNext
  <2> QED BY <2>1, <2>2, <2>3, QueueKeeps
<1>3. ASSUME NEW to \in {"complete", "replaced"}, PlanChanges(to)
      PROVE  OutboxInv'
  <2>1. RestOK
    BY <1>1, <1>3 DEF PlanChanges, RestOK, TypesOK, OutboxTypeOK, GatewayRow, ThreadsRest, ThreadRests
  <2>2. NextGeneration \in Nat
    BY <1>1 DEF InboxRow
  <2>3. /\ inbox' \in InboxRow /\ inbox'.question = inbox.question
        /\ inbox'.generation = IF inbox.generation > 0 THEN NextGeneration ELSE inbox.generation
    BY <1>1, <1>3, <2>2 DEF PlanChanges, InboxRow
  <2>4. QueuesNext(outbox)
    BY <1>3, <2>3 DEF QueuesNext, PlanChanges
  <2> QED BY <2>1, <2>3, <2>4, QueueKeeps
<1>4. ASSUME NEW o \in Owners, ResumeGatewayWrites(o)
      PROVE  OutboxInv'
  <2>1. gateway \in GatewayRow /\ gateway' = [gateway EXCEPT !.paused = FALSE, !.rotation = None,
                                                             !.rotating = FALSE]
    BY <1>1, <1>4 DEF TypesOK, OutboxTypeOK, GatewayRow, ResumeGatewayWrites
  <2>2. gateway' \in GatewayRow
    BY <2>1 DEF GatewayRow
  <2>3. RestOK
    BY <1>1, <1>4, <2>2 DEF ResumeGatewayWrites, RestOK, TypesOK, OutboxTypeOK, ThreadsRest, ThreadRests
  <2>4. \/ outbox' = EnqueueNext(outbox) /\ inbox' = [inbox EXCEPT !.generation = NextGeneration]
        \/ outbox' = outbox /\ inbox' = inbox
    BY <1>4 DEF ResumeGatewayWrites
  <2>5. inbox' \in InboxRow /\ inbox'.question = inbox.question /\ QueuesNext(outbox)
    BY <1>1, <2>4 DEF QueuesNext, InboxRow
  <2> QED BY <2>3, <2>5, QueueKeeps
<1> QED BY <1>2, <1>3, <1>4

\* A new entry is queued as one that was never written.
LEMMA EnqueueDeliveryKeeps ==
    ASSUME OutboxInv, NEW k \in Keys, EnqueueDelivery(k)
    PROVE  OutboxInv'
<1>1. TypesOK /\ RowsOK /\ BlockedIsAskable /\ outbox \in [Keys -> Row] /\ inbox \in InboxRow
  BY TypeFacts DEF OutboxInv
<1>2. Queued \in Row /\ Queued.state = "pending" /\ Queued.uncertain = FALSE
  BY QueuedFacts
<1>3. /\ outbox' \in [Keys -> Row] /\ outbox'[k] = Queued
      /\ \A j \in Keys \ {k} : outbox'[j] = outbox[j]
      /\ outbox[k].state = "none" /\ ~IsInbox(k)
  BY <1>1, <1>2 DEF EnqueueDelivery
<1>4. RestOK /\ inbox' = inbox
  BY <1>1 DEF EnqueueDelivery, RestOK, TypesOK, OutboxTypeOK, GatewayRow, ThreadsRest, ThreadRests
<1>5. TypesOK'
  BY <1>1, <1>3, <1>4, RestTypes
<1>6. \A j \in Keys : RowGoes(j)
  BY <1>2, <1>3 DEF RowGoes, RowSame, RowQueued, Holds
<1>7. AsksRight
  BY <1>1, <1>3, <1>4 DEF AsksRight, RowsOK, BlockedIsAskable
<1>8. inbox.generation <= inbox'.generation /\ UNCHANGED remote /\ ThreadsRest
  BY <1>1, <1>4 DEF RestOK, InboxRow
<1> QED BY <1>5, <1>6, <1>7, <1>8, RowsStep

\* A freed claim leaves an entry that is uncertain.
LEMMA RecoverExpiredKeeps ==
    ASSUME OutboxInv, RecoverExpiredGatewayDeliveryClaims
    PROVE  OutboxInv'
<1>1. TypesOK /\ RowsOK /\ BlockedIsAskable /\ outbox \in [Keys -> Row] /\ inbox \in InboxRow
  BY TypeFacts DEF OutboxInv
<1>2. RestOK /\ inbox' = inbox
  BY <1>1 DEF RecoverExpiredGatewayDeliveryClaims, RestOK, TypesOK, OutboxTypeOK, GatewayRow,
              ThreadsRest, ThreadRests
<1> DEFINE Freed(j) == [outbox[j] EXCEPT !.state = "pending", !.claim = None,
                                         !.dispatcher = None, !.uncertain = TRUE]
           expired == {j \in Keys : outbox[j].state = "processing" /\ Recoverable(j)}
<1>3. outbox' = [j \in Keys |-> IF j \in expired THEN Freed(j) ELSE outbox[j]]
  BY DEF RecoverExpiredGatewayDeliveryClaims
<1>4. \A j \in Keys : /\ Freed(j) \in Row /\ Freed(j).state = "pending" /\ Freed(j).uncertain = TRUE
                      /\ Freed(j).attempts = outbox[j].attempts
  BY <1>1 DEF Row, Tokens
<1>5. \A j \in expired : outbox[j].state = "processing"
  OBVIOUS
<1> HIDE DEF Freed, expired
<1>6. outbox' \in [Keys -> Row]
  BY <1>1, <1>3, <1>4
<1>7. TypesOK'
  BY <1>1, <1>2, <1>6, RestTypes
<1>8. \A j \in Keys : RowSettled(j) \/ RowSame(j)
  BY <1>3, <1>4, <1>5 DEF RowSettled, RowSame, Holds
<1>9. \A j \in Keys : \/ outbox'[j] = outbox[j]
                      \/ outbox[j].state = "processing" /\ outbox'[j].state = "pending"
  BY <1>3, <1>4, <1>5
<1>10. AsksRight
  BY <1>1, <1>2, <1>9 DEF AsksRight, RowsOK, BlockedIsAskable
<1>11. inbox.generation <= inbox'.generation /\ UNCHANGED remote /\ ThreadsRest
  BY <1>1, <1>2 DEF RestOK, InboxRow
<1>12. \A j \in Keys : RowGoes(j)
  BY <1>8 DEF RowGoes
<1> QED BY <1>7, <1>10, <1>11, <1>12, RowsStep

\* The person who releases an entry does not call it unwritten.
LEMMA RecoverUncertainKeeps ==
    ASSUME OutboxInv, NEW k \in Keys, RecoverUncertainInboxDelivery(k)
    PROVE  OutboxInv'
<1>1. TypesOK /\ RowsOK /\ BlockedIsAskable /\ outbox \in [Keys -> Row] /\ inbox \in InboxRow
  BY TypeFacts DEF OutboxInv
<1> DEFINE retried == [outbox EXCEPT ![k] = [Queued EXCEPT !.uncertain = TRUE]]
<1>2. /\ retried \in [Keys -> Row] /\ retried[k].state = "pending" /\ retried[k].uncertain = TRUE
      /\ \A j \in Keys \ {k} : retried[j] = outbox[j]
  <2>1. [Queued EXCEPT !.uncertain = TRUE] \in Row
    BY QueuedFacts DEF Row
  <2>2. /\ [Queued EXCEPT !.uncertain = TRUE].state = "pending"
        /\ [Queued EXCEPT !.uncertain = TRUE].uncertain = TRUE
    BY QueuedFacts DEF Row
  <2> QED BY <1>1, <2>1, <2>2
<1>3. /\ outbox[k].state = "rejected" /\ outbox[k].uncertain
      /\ outbox' = EnqueueNext(retried)
      /\ inbox' = [inbox EXCEPT !.question = [inbox.question EXCEPT ![k] = "answered"],
                                !.authorised = inbox.authorised \cup {k},
                                !.generation = NextGeneration]
  BY DEF RecoverUncertainInboxDelivery
<1>4. NextGeneration \in Nat
  BY <1>1 DEF NextGeneration, InboxRow
<1>5. /\ inbox' \in InboxRow /\ inbox'.generation = NextGeneration
      /\ inbox'.question[k] = "answered"
      /\ \A j \in Keys \ {k} : inbox'.question[j] = inbox.question[j]
  BY <1>1, <1>3, <1>4 DEF InboxRow
<1>6. RestOK
  BY <1>1 DEF RecoverUncertainInboxDelivery, RestOK, TypesOK, OutboxTypeOK, GatewayRow, ThreadsRest, ThreadRests
<1> HIDE DEF retried
<1>7. \A j \in Keys : outbox[j].state = "none" => retried[j].state = "none"
  BY <1>2, <1>3
<1>8. QueuesNext(retried)
  BY <1>3, <1>5 DEF QueuesNext
<1>9. /\ inbox.generation <= inbox'.generation /\ outbox' \in [Keys -> Row]
      /\ \A j \in Keys : outbox'[j] = retried[j] \/ RowQueued(j)
      /\ \A j \in Keys : IsInbox(j) /\ Gen[j] > inbox'.generation => outbox'[j].state = "none"
  BY <1>2, <1>7, <1>8, QueueFacts
<1>10. TypesOK'
  BY <1>5, <1>6, <1>9, RestTypes
<1>11. outbox'[k] = retried[k] /\ RowRecovered(k)
  BY <1>2, <1>3, <1>9 DEF RowRecovered, RowQueued
<1>12. \A j \in Keys : RowGoes(j)
  BY <1>2, <1>9, <1>11 DEF RowGoes, RowSame, Holds
<1>13. AsksRight
  BY <1>1, <1>2, <1>5, <1>9, <1>11 DEF AsksRight, RowsOK, BlockedIsAskable, RowQueued
<1>14. UNCHANGED remote /\ ThreadsRest
  BY <1>6 DEF RestOK
<1> QED BY <1>9, <1>10, <1>12, <1>13, <1>14, RowsStep

\* A crash renames the holder: its claims are nobody's, its rows stay.
LEMMA CrashGatewayKeeps ==
    ASSUME OutboxInv, NEW g \in Gateways, CrashGateway(g)
    PROVE  OutboxInv'
<1>1. TypesOK /\ RowsOK /\ BlockedIsAskable /\ outbox \in [Keys -> Row] /\ inbox \in InboxRow
  BY TypeFacts DEF OutboxInv
<1>2. /\ thread' \in [Gateways -> Thread]
      /\ \A h \in Gateways \ {g} : thread'[h] = thread[h]
      /\ thread'[g].at = "idle"
  BY <1>1, IdleFacts DEF CrashGateway
<1>3. /\ gateway' = [gateway EXCEPT !.dispatcher = Rename(gateway.dispatcher, g)]
      /\ outbox' = [j \in Keys |-> [outbox[j] EXCEPT !.claim = Rename(outbox[j].claim, g),
                                                     !.dispatcher = Rename(outbox[j].dispatcher, g)]]
      /\ UNCHANGED <<requests, running, inbox, remote, runLease>>
      /\ suspended' = suspended \ {g} /\ faults < MaxFaults /\ faults' = faults + 1
  BY DEF CrashGateway
<1>4. \A t \in Tokens : Rename(t, g) \in Tokens
  BY DEF Rename, Tokens
<1>5. gateway' \in GatewayRow
  <2>1. gateway \in GatewayRow
    BY <1>1 DEF TypesOK, OutboxTypeOK, GatewayRow
  <2> QED BY <1>3, <1>4, <2>1 DEF GatewayRow
<1>6. /\ outbox' \in [Keys -> Row]
      /\ \A j \in Keys : /\ outbox'[j].state = outbox[j].state
                         /\ outbox'[j].attempts = outbox[j].attempts
                         /\ outbox'[j].uncertain = outbox[j].uncertain
                         /\ outbox'[j].claim = Rename(outbox[j].claim, g)
  BY <1>1, <1>3, <1>4 DEF Row
<1>7. faults' \in 0..MaxFaults
  BY <1>1, <1>3, FaultTypes
<1>8. RestOK
  BY <1>1, <1>2, <1>3, <1>5, <1>7 DEF RestOK, TypesOK, OutboxTypeOK, ThreadsRest, ThreadRests
<1>9. TypesOK'
  BY <1>1, <1>3, <1>6, <1>8, RestTypes
\* The name of the process that is gone is nobody's.
<1>10. \A h \in Gateways \ {g}, j \in Keys : Holds(h, j)' <=> Holds(h, j)
  BY <1>1, <1>6, TypeFacts DEF Holds, Rename
<1>11. \A j \in Keys : ~Working(g, j)'
  BY <1>2 DEF Working
<1>12. \A j \in Keys : RowGoes(j)
  BY <1>6, <1>10, <1>11 DEF RowGoes, RowSame
<1>13. AsksRight
  BY <1>1, <1>3, <1>6 DEF AsksRight, RowsOK, BlockedIsAskable
<1>14. inbox.generation <= inbox'.generation /\ ThreadsRest
  <2>1. inbox.generation \in Nat /\ inbox' = inbox
    BY <1>1, <1>3 DEF InboxRow
  <2> QED BY <1>8, <2>1 DEF RestOK
<1> QED BY <1>3, <1>9, <1>12, <1>13, <1>14, RowsStep

\* The steps of the surroundings that no entry notices.
LEMMA SurroundingsKeep ==
    ASSUME OutboxInv,
           \/ PauseGatewayWrites \/ RotationLapses \/ RunLeaseEnds \/ DispatcherLapses
           \/ \E o \in Owners : BeginGatewayCredentialRotation(o)
           \/ \E o \in Owners : EndGatewayCredentialRotation(o)
           \/ \E g \in Gateways : SuspendGateway(g)
           \/ \E g \in Gateways : WakeGateway(g)
           \/ \E g \in Gateways : StartGateway(g)
    PROVE  OutboxInv'
<1>1. /\ TypesOK /\ outbox \in [Keys -> Row] /\ inbox \in InboxRow /\ thread \in [Gateways -> Thread]
      /\ remote \in Remote /\ gateway \in GatewayRow /\ running \subseteq Gateways
      /\ suspended \subseteq Gateways /\ runLease \in BOOLEAN
  BY TypeFacts DEF OutboxInv, TypesOK, OutboxTypeOK, GatewayRow
<1>2. /\ UNCHANGED <<requests, outbox, inbox, thread, remote>>
      /\ running' \subseteq Gateways /\ suspended' \subseteq Gateways /\ runLease' \in BOOLEAN
      /\ faults' = faults \/ (faults < MaxFaults /\ faults' = faults + 1)
  BY <1>1 DEF PauseGatewayWrites, RotationLapses, RunLeaseEnds, DispatcherLapses,
        BeginGatewayCredentialRotation, EndGatewayCredentialRotation, SuspendGateway,
        WakeGateway, StartGateway
<1>3. gateway' \in GatewayRow
  BY <1>1 DEF PauseGatewayWrites, RotationLapses, RunLeaseEnds, DispatcherLapses,
        BeginGatewayCredentialRotation, EndGatewayCredentialRotation, SuspendGateway,
        WakeGateway, StartGateway, GatewayRow
<1>4. faults' \in 0..MaxFaults
  BY <1>1, <1>2, FaultTypes
<1>5. TypesOK'
  BY <1>1, <1>2, <1>3, <1>4, TypesStep
<1> QED BY <1>2, <1>5, ElsewhereKeeps

-----------------------------------------------------------------------------
(* The claim, and the writes.                                               *)

\* A claim is fresh only on an entry that nobody wrote or works on, and a
\* newer inbox is claimed only when no write of an older one counts.
LEMMA ClaimDeliveryOutboxKeeps ==
    ASSUME OutboxInv, NEW g \in Gateways, ClaimDeliveryOutbox(g)
    PROVE  OutboxInv'
<1>0. thread[g].key \in Keys /\ thread[g].at = "ensured" /\ ThreadOK(g, thread[g])
  BY KeyFacts DEF ClaimDeliveryOutbox, Runs
<1> SUFFICES ASSUME NEW k \in Keys, k = thread[g].key
             PROVE  OutboxInv'
  BY <1>0
<1>1. /\ TypesOK /\ ClaimsOK /\ RowsOK /\ WritersOK /\ ThreadsOK /\ InboxOrder
      /\ WrittenOnce /\ SuccessIsReal /\ PullAfterPush /\ BlockedIsAskable /\ ShownOK
  BY DEF OutboxInv
<1>2. /\ outbox \in [Keys -> Row] /\ thread \in [Gateways -> Thread]
      /\ outbox[k] \in Row /\ ReconcileOnly(k) \in BOOLEAN
  BY <1>1, TypeFacts DEF ReconcileOnly, Row
<1>3. /\ outbox[k].state \in {"pending", "processing"} /\ ~Exhausted(k)
      /\ IsInbox(k) => ~InboxBlocked(k)
  BY DEF ClaimDeliveryOutbox, MayClaim, Claimable
<1>4. /\ outbox' \in [Keys -> Row] /\ \A j \in Keys \ {k} : outbox'[j] = outbox[j]
      /\ outbox'[k].state = "processing" /\ outbox'[k].claim = g
      /\ outbox'[k].uncertain = ReconcileOnly(k)
  <2>1. outbox[k].attempts + 1 \in 0..MaxDeliveryAttempts
    BY <1>2, <1>3, OutboxConstants DEF Exhausted, Row
  <2>2. g \in Tokens /\ None \in Tokens
    BY DEF Tokens
  <2> QED BY <1>2, <2>1, <2>2 DEF ClaimDeliveryOutbox, Row
<1>5. /\ thread' \in [Gateways -> Thread] /\ \A h \in Gateways \ {g} : thread'[h] = thread[h]
      /\ thread'[g].at = "claimed" /\ thread'[g].key = k /\ thread'[g].reconcile = ReconcileOnly(k)
      /\ thread'[g].superseded = thread[g].superseded
  BY <1>2 DEF ClaimDeliveryOutbox, Thread, Places
<1>6. /\ UNCHANGED <<requests, running, gateway, inbox, suspended, remote, runLease, faults>>
      /\ \A j \in Keys : Written(j)' = Written(j)
  BY DEF ClaimDeliveryOutbox, Written
<1>7. TypesOK'
  BY <1>1, <1>4, <1>5, <1>6 DEF TypesOK, OutboxTypeOK
<1>8. /\ Working(g, k)' /\ Holds(g, k)'
      /\ \A j \in Keys \ {k} : ~Working(g, j)'
      /\ \A h \in Gateways \ {g}, j \in Keys : Working(h, j)' <=> Working(h, j)
  BY <1>4, <1>5 DEF Working, Holds
<1>9. /\ \A h \in Gateways, j \in Keys \ {k} : Holds(h, j)' <=> Holds(h, j)
      /\ \A h \in Gateways \ {g} : ~Holds(h, k)'
  BY <1>4 DEF Holds
\* A claim that does not reconcile is the first word on its entry.
<1>10. ~ReconcileOnly(k) => Written(k) = 0 /\ \A h \in Gateways : ~Working(h, k)
  BY <1>1, <1>3 DEF ReconcileOnly, RowsOK
<1>11. ClaimsOK'
  <2> SUFFICES ASSUME NEW h \in Gateways, NEW j \in Keys, Working(h, j)'
               PROVE  IF Holds(h, j)' THEN outbox'[j].uncertain = thread'[h].reconcile
                      ELSE outbox'[j].uncertain \/ Final(j)'
    BY DEF ClaimsOK
  <2>1. CASE h = g
    BY <2>1, <1>4, <1>5, <1>8
  <2>2. CASE h # g /\ j = k
    BY <2>2, <1>2, <1>4, <1>8, <1>9, <1>10
  <2>3. CASE h # g /\ j # k
    BY <2>3, <1>1, <1>4, <1>5, <1>8, <1>9 DEF ClaimsOK, Final
  <2> QED BY <2>1, <2>2, <2>3
<1>12. RowsOK'
  <2> SUFFICES ASSUME NEW j \in Keys
               PROVE  /\ outbox'[j].state = "none" \/
                            (outbox'[j].state = "pending" /\ ~outbox'[j].uncertain) =>
                            Written(j)' = 0 /\ \A h \in Gateways : ~Working(h, j)'
                      /\ IsInbox(j) /\ Gen[j] > inbox'.generation => outbox'[j].state = "none"
                      /\ IsInbox(j) /\ outbox'[j].state = "rejected" => GivenUp(j)'
                      /\ IsInbox(j) => remote'.effects[j] = 0
                      /\ inbox'.question[j] = "open" => IsInbox(j)
    BY DEF RowsOK, IsInbox
  <2>1. CASE j = k
    BY <2>1, <1>1, <1>3, <1>4, <1>6 DEF RowsOK
  <2>2. CASE j # k
    BY <2>2, <1>1, <1>4, <1>6, <1>8 DEF RowsOK, Exhausted, GivenUp
  <2> QED BY <2>1, <2>2
<1>13. WritersOK'
  <2>1. Fresh(g, k)' => Written(k) = 0 /\ \A h \in Gateways : ~Working(h, k)
    BY <1>5, <1>10 DEF Fresh
  <2>2. \A h \in Gateways \ {g}, j \in Keys : /\ Fresh(h, j)' => Fresh(h, j) /\ Working(h, j)
                                              /\ thread'[h] = thread[h]
    BY <1>5, <1>8 DEF Fresh
  <2>3. \A j \in Keys \ {k} : ~Fresh(g, j)'
    BY <1>8 DEF Fresh
  <2>4. ASSUME NEW h \in Gateways, NEW j \in Keys, Fresh(h, j)', Unsent(thread'[h]),
               IsInbox(j) => Holds(h, j)'
        PROVE  Written(j)' = 0
    BY <2>1, <2>2, <2>3, <2>4, <1>1, <1>6, <1>9 DEF WritersOK
  <2>5. ASSUME NEW h \in Gateways, NEW i \in Gateways, NEW j \in Keys, ~IsInbox(j),
               Fresh(h, j)', Fresh(i, j)'
        PROVE  h = i
    BY <2>1, <2>2, <2>3, <2>5, <1>1 DEF WritersOK
  <2> QED BY <2>4, <2>5 DEF WritersOK, IsInbox
<1>14. ThreadsOK'
  <2> SUFFICES ASSUME NEW h \in Gateways, thread'[h].at # "idle"
               PROVE  ThreadOK(h, thread[h])'
    BY DEF ThreadsOK
  <2>1. CASE h = g
    BY <2>1, <1>0, <1>5, <1>6 DEF ThreadOK, IsInbox
  <2>2. CASE h # g
    <3>1. thread'[h] = thread[h] /\ ThreadOK(h, thread[h])
      BY <1>1, <1>5, <2>2 DEF ThreadsOK
    <3>2. thread[h].key \in Keys /\ (Holds(h, thread[h].key)' => Holds(h, thread[h].key))
      BY <3>1, <2>2, <1>9 DEF ThreadOK, Holds
    <3>3. thread[h].at = "finishing" => FinishOK(h, thread[h])'
      BY <3>1, <3>2, <1>6 DEF ThreadOK, FinishOK, IsInbox, Holds
    <3> QED BY <3>1, <3>3, <1>6 DEF ThreadOK, IsInbox, HeadExpected
  <2> QED BY <2>1, <2>2
<1>15. \A o \in Keys : MayLand(o)' => MayLand(o)
  BY <1>5, <1>6 DEF MayLand, MaySend
<1>16. InboxOrder'
  <2> SUFFICES ASSUME NEW n \in Keys, NEW o \in Keys, IsInbox(n), IsInbox(o), Gen[o] < Gen[n],
                      outbox'[n].state \in {"processing", "succeeded"}, MayLand(o)
               PROVE  Closed(o)'
    BY <1>15 DEF InboxOrder, IsInbox
  <2>1. CASE n # k
    <3>1. Closed(o)
      BY <2>1, <1>1, <1>4 DEF InboxOrder
    <3> QED BY <3>1, <1>3, <1>4 DEF Closed
  <2>2. CASE n = k
    <3>1. o # k
      BY <2>2, TypeFacts, <1>1
    <3>2. ~(outbox[o].state = "none" \/ (outbox[o].state = "pending" /\ ~outbox[o].uncertain))
      <4>1. ~(Written(o) = 0 /\ \A h \in Gateways : ~Working(h, o))
        <5>1. remote.late[o] \in Nat /\ remote.effects[o] \in Nat
          BY <1>1, TypeFacts DEF Remote
        <5> QED BY <5>1 DEF MayLand, MaySend, Written, Working
      <4> QED BY <4>1, <1>1 DEF RowsOK
    <3>3. /\ outbox[o].state # "processing"
          /\ ~(outbox[o].state \in {"pending", "rejected"} /\ outbox[o].uncertain)
      BY <2>2, <3>1, <1>3 DEF InboxBlocked
    <3>4. outbox[o] \in Row
      BY <1>1, TypeFacts
    <3> QED BY <3>1, <3>2, <3>3, <3>4, <1>4 DEF Closed, Row
  <2> QED BY <2>1, <2>2
<1>17. /\ WrittenOnce' /\ SuccessIsReal' /\ PullAfterPush'
       /\ BlockedIsAskable' /\ ShownOK'
  BY <1>1, <1>4, <1>6 DEF WrittenOnce, SuccessIsReal, PullAfterPush, BlockedIsAskable, ShownOK,
                         IsInbox
<1> QED BY <1>7, <1>11, <1>12, <1>13, <1>14, <1>16, <1>17 DEF OutboxInv

\* A process sends its write of the entry: it may have landed, or may land.
WriteBy(g, k) ==
    /\ thread[g].at = "sending" /\ thread[g].key = k
    /\ \A h \in Gateways \ {g} : thread'[h] = thread[h]
    /\ thread'[g].key = k /\ thread'[g].reconcile = thread[g].reconcile
    /\ thread'[g].superseded = thread[g].superseded
    /\ \/ thread'[g].at = "unanswered"
       \/ thread'[g].at = "finishing" /\ thread'[g].verdict = "uncertain"
       \/ /\ thread'[g].at = "finishing" /\ thread'[g].verdict = "succeed"
          /\ IF IsInbox(k) THEN remote'.shown = Gen[k] ELSE remote'.effects[k] > 0
    /\ Written(k)' <= Written(k) + 1

\* A write that was under way lands, or is lost.
WriteEnds(k) == thread' = thread /\ remote.late[k] > 0 /\ Written(k)' <= Written(k)

\* What GitHub has of the entry, and of the others.
RemoteGoes(k) ==
    /\ \A j \in Keys \ {k} : remote'.effects[j] = remote.effects[j] /\ remote'.late[j] = remote.late[j]
    /\ remote'.effects[k] >= remote.effects[k]
    /\ IsInbox(k) => remote'.effects[k] = remote.effects[k]
    /\ \/ remote'.shown = remote.shown /\ (remote.stray => remote'.stray)
       \/ /\ remote'.shown = Gen[k] /\ IsInbox(k)
          /\ remote.stray \/ outbox[k].state # "processing" => remote'.stray

\* A write that is sent, lands or is lost keeps the invariant: its sender was
\* the only one that could write the entry, and no newer inbox is out.
LEMMA RemoteStep ==
    ASSUME OutboxInv, TypesOK', UNCHANGED <<outbox, inbox>>, NEW k \in Keys,
           WriteEnds(k) \/ (\E g \in Gateways : WriteBy(g, k)),
           RemoteGoes(k)
    PROVE  OutboxInv'
<1>1. /\ TypesOK /\ ClaimsOK /\ RowsOK /\ WritersOK /\ ThreadsOK /\ InboxOrder
      /\ WrittenOnce /\ SuccessIsReal /\ PullAfterPush /\ BlockedIsAskable /\ ShownOK
  BY DEF OutboxInv
<1>2. /\ inbox \in InboxRow /\ inbox.generation \in Nat
      /\ \A j \in Keys : /\ Gen[j] \in Nat /\ outbox[j] \in Row
                         /\ remote.effects[j] \in Nat /\ remote.late[j] \in Nat
                         /\ remote'.effects[j] \in Nat /\ remote'.late[j] \in Nat
  BY <1>1, TypeFacts DEF InboxRow, Remote, TypesOK
<1>3. /\ \A j \in Keys : Written(j) \in Nat /\ Written(j)' \in Nat
      /\ \A j \in Keys \ {k} : Written(j)' = Written(j)
      /\ \A j \in Keys : remote'.effects[j] >= remote.effects[j]
  BY <1>2 DEF Written, RemoteGoes
<1>4. \A h \in Gateways, j \in Keys :
         /\ Working(h, j)' <=> Working(h, j)
         /\ Holds(h, j)' <=> Holds(h, j)
         /\ Fresh(h, j)' <=> Fresh(h, j)
         /\ Unsent(thread'[h]) => thread'[h] = thread[h]
  BY DEF Working, Holds, Fresh, Unsent, WriteBy, WriteEnds
<1>5. MayLand(k)
  BY DEF MayLand, MaySend, WriteBy, WriteEnds
\* The entry of a write is not one that was never claimed.
<1>6. ~(outbox[k].state = "none" \/ (outbox[k].state = "pending" /\ ~outbox[k].uncertain))
  <2>1. CASE WriteEnds(k)
    BY <2>1, <1>1, <1>2 DEF RowsOK, WriteEnds, Written
  <2>2. ASSUME NEW g \in Gateways, WriteBy(g, k)
        PROVE  Working(g, k)
    BY <2>2 DEF Working, WriteBy
  <2> QED BY <2>1, <2>2, <1>1 DEF RowsOK
<1>7. ClaimsOK'
  <2> SUFFICES ASSUME NEW g \in Gateways, NEW j \in Keys, Working(g, j)
               PROVE  IF Holds(g, j) THEN outbox[j].uncertain = thread'[g].reconcile
                      ELSE outbox[j].uncertain \/ Final(j)
    BY <1>4 DEF ClaimsOK, Final, Holds
  <2>1. thread'[g].reconcile = thread[g].reconcile
    BY DEF WriteBy, WriteEnds
  <2> QED BY <2>1, <1>1 DEF ClaimsOK
<1>8. RowsOK'
  <2> SUFFICES ASSUME NEW j \in Keys
               PROVE  /\ outbox[j].state = "none" \/
                            (outbox[j].state = "pending" /\ ~outbox[j].uncertain) =>
                            Written(j)' = 0 /\ \A h \in Gateways : ~Working(h, j)
                      /\ IsInbox(j) /\ Gen[j] > inbox.generation => outbox[j].state = "none"
                      /\ IsInbox(j) /\ outbox[j].state = "rejected" => GivenUp(j)'
                      /\ IsInbox(j) => remote'.effects[j] = 0
                      /\ inbox.question[j] = "open" => IsInbox(j)
    BY <1>4 DEF RowsOK, IsInbox, Exhausted
  <2>1. IsInbox(j) => remote'.effects[j] = remote.effects[j]
    BY DEF RemoteGoes
  <2>2. IsInbox(j) /\ outbox[j].state = "rejected" => GivenUp(j)'
    <3> SUFFICES ASSUME GivenUp(j), ~Exhausted(j) PROVE GivenUp(j)'
      BY <1>1 DEF RowsOK, GivenUp, Exhausted
    <3>1. Written(j) = 0 /\ \A h \in Gateways : ~Working(h, j)
      BY DEF GivenUp
    <3>2. CASE j # k
      BY <3>1, <3>2, <1>3, <1>4 DEF GivenUp
    <3>3. CASE j = k
      BY <3>1, <3>3, <1>2 DEF WriteEnds, WriteBy, Working, Written
    <3> QED BY <3>2, <3>3
  <2> QED BY <2>1, <2>2, <1>1, <1>3, <1>6 DEF RowsOK
\* Whoever else may still write has written nothing, and writes another entry.
<1>9. ASSUME NEW h \in Gateways, Fresh(h, k), Unsent(thread'[h]), IsInbox(k) => Holds(h, k)
      PROVE  FALSE
  <2>1. thread'[h] = thread[h] /\ Written(k) = 0
    BY <1>1, <1>4, <1>9 DEF WritersOK
  <2>2. CASE WriteEnds(k)
    BY <2>1, <2>2, <1>2 DEF WriteEnds, Written
  <2>3. ASSUME NEW g \in Gateways, WriteBy(g, k)
        PROVE  FALSE
    <3>1. g # h
      BY <2>1, <2>3 DEF WriteBy
    <3>2. Working(g, k)
      BY <2>3 DEF Working, WriteBy
    <3>3. CASE IsInbox(k)
      <4>1. Holds(h, k) /\ ~outbox[k].uncertain /\ ~Final(k) /\ ~Holds(g, k)
        BY <3>1, <3>3, <1>1, <1>9 DEF ClaimsOK, Fresh, Holds, Final
      <4> QED BY <4>1, <3>2, <1>1 DEF ClaimsOK
    <3>4. CASE ~IsInbox(k)
      <4>1. ~thread[g].reconcile
        BY <2>3, <3>4, <1>1 DEF ThreadsOK, ThreadOK, WriteBy
      <4> QED BY <4>1, <3>1, <3>2, <3>4, <1>1, <1>9 DEF WritersOK, Fresh
    <3> QED BY <3>3, <3>4
  <2> QED BY <2>2, <2>3
<1>10. WritersOK'
  <2>1. ASSUME NEW h \in Gateways, NEW j \in Keys, Fresh(h, j), Unsent(thread'[h]),
               IsInbox(j) => Holds(h, j)
        PROVE  Written(j)' = 0
    BY <2>1, <1>1, <1>3, <1>4, <1>9 DEF WritersOK
  <2>2. \A h, i \in Gateways, j \in Keys : ~IsInbox(j) /\ Fresh(h, j) /\ Fresh(i, j) => h = i
    BY <1>1 DEF WritersOK
  <2> QED BY <2>1, <2>2, <1>4 DEF WritersOK, IsInbox
\* The inbox that GitHub shows after the step is the newest that counts.
<1>11. ASSUME NEW j \in Keys, IsInbox(j), outbox[j].state \in {"processing", "succeeded"},
              Gen[j] = inbox.generation, ~remote'.stray,
              ~remote.stray => remote.shown = Gen[j]
       PROVE  remote'.shown = Gen[j]
  <2>1. CASE remote'.shown = remote.shown /\ (remote.stray => remote'.stray)
    BY <2>1, <1>11
  <2>2. CASE /\ remote'.shown = Gen[k] /\ IsInbox(k)
             /\ remote.stray \/ outbox[k].state # "processing" => remote'.stray
    <3>1. ~remote.stray /\ outbox[k].state = "processing"
      BY <2>2, <1>11
    <3>2. ~(Gen[k] > inbox.generation)
      BY <3>1, <2>2, <1>1 DEF RowsOK
    <3>3. ~(Gen[k] < Gen[j])
      BY <3>1, <2>2, <1>1, <1>5, <1>11 DEF InboxOrder, Closed
    <3> QED BY <3>2, <3>3, <2>2, <1>2, <1>11
  <2> QED BY <2>1, <2>2 DEF RemoteGoes
<1>12. ThreadsOK'
  <2> SUFFICES ASSUME NEW h \in Gateways, thread'[h].at # "idle"
               PROVE  ThreadOK(h, thread[h])'
    BY DEF ThreadsOK
  <2>1. \A j \in Keys : HeadExpected(j) => HeadExpected(j)'
    BY <1>2, <1>3 DEF HeadExpected
  <2>2. CASE thread'[h] = thread[h]
    <3>1. ThreadOK(h, thread[h]) /\ thread[h].key \in Keys
      BY <2>2, <1>1 DEF ThreadsOK, ThreadOK
    <3>2. ASSUME thread[h].at = "finishing"
          PROVE  FinishOK(h, thread[h])'
      <4> DEFINE j == thread[h].key
      <4>1. FinishOK(h, thread[h])
        BY <3>1, <3>2 DEF ThreadOK
      <4>2. thread[h].verdict = "succeed" /\ ~IsInbox(j) => remote'.effects[j] > 0
        BY <4>1, <3>1, <1>2, <1>3 DEF FinishOK
      <4>3. ASSUME thread[h].verdict = "succeed", IsInbox(j), Holds(h, j), ~remote'.stray,
                   Gen[j] = inbox.generation
            PROVE  remote'.shown = Gen[j]
        <5>1. ~remote.stray => remote.shown = Gen[j]
          BY <4>1, <4>3 DEF FinishOK
        <5>2. outbox[j].state \in {"processing", "succeeded"}
          BY <4>3 DEF Holds
        <5> HIDE DEF j
        <5>3. j \in Keys
          BY <3>1 DEF j
        <5> QED BY <4>3, <5>1, <5>2, <5>3, <1>11
      <4> QED BY <2>2, <3>1, <4>1, <4>2, <4>3, <1>4 DEF FinishOK, IsInbox, Holds
    <3> QED BY <2>1, <2>2, <3>1, <3>2 DEF ThreadOK, IsInbox
  <2>3. CASE WriteBy(h, k)
    <3>1. ThreadOK(h, thread[h])
      BY <2>3, <1>1 DEF ThreadsOK, WriteBy
    <3>2. thread'[h].at = "finishing" => FinishOK(h, thread[h])'
      BY <2>3 DEF WriteBy, FinishOK, Verdicts, IsInbox
    <3> QED BY <2>3, <3>1, <3>2 DEF WriteBy, ThreadOK, IsInbox
  <2> QED BY <2>2, <2>3 DEF WriteBy, WriteEnds
<1>13. \A o \in Keys : MayLand(o)' => MayLand(o)
  <2>1. \A o \in Keys \ {k} : remote'.late[o] = remote.late[o]
    BY DEF RemoteGoes
  <2>2. \A g \in Gateways : MaySend(thread'[g]) => thread'[g] = thread[g]
    BY DEF MaySend, WriteBy, WriteEnds
  <2> QED BY <2>1, <2>2, <1>5 DEF MayLand
<1>14. InboxOrder'
  BY <1>1, <1>13 DEF InboxOrder, IsInbox, Closed
<1>15. WrittenOnce'
  <2> SUFFICES ASSUME ~IsInbox(k) PROVE Written(k)' <= 1
    BY <1>1, <1>3 DEF WrittenOnce, Written, IsInbox
  <2>1. CASE WriteEnds(k)
    BY <2>1, <1>1, <1>3 DEF WriteEnds, WrittenOnce, Written
  <2>2. ASSUME NEW g \in Gateways, WriteBy(g, k)
        PROVE  Written(k)' <= 1
    <3>1. ~thread[g].reconcile
      BY <2>2, <1>1 DEF ThreadsOK, ThreadOK, WriteBy
    <3>2. Fresh(g, k) /\ Unsent(thread[g])
      BY <2>2, <3>1 DEF Fresh, Working, Unsent, WriteBy
    <3>3. Written(k) = 0
      BY <3>2, <1>1 DEF WritersOK
    <3> QED BY <2>2, <3>3 DEF WriteBy
  <2> QED BY <2>1, <2>2
<1>16. SuccessIsReal' /\ BlockedIsAskable'
  BY <1>1, <1>2, <1>3 DEF SuccessIsReal, BlockedIsAskable, IsInbox
<1>17. PullAfterPush'
  <2> SUFFICES ASSUME NEW j \in Keys, Op[j] = "pull", Written(j)' > 0
               PROVE  HeadExpected(j)
    BY <1>2, <1>3 DEF PullAfterPush, Written, HeadExpected
  <2>1. CASE Written(j) > 0
    BY <2>1, <1>1 DEF PullAfterPush, Written, HeadExpected
  <2>2. ASSUME NEW g \in Gateways, WriteBy(g, k), j = k
        PROVE  HeadExpected(j)
    BY <2>2, <1>1 DEF ThreadsOK, ThreadOK, WriteBy
  <2>3. j = k \/ Written(j) > 0
    BY <1>3
  <2>4. CASE WriteEnds(k)
    BY <2>1, <2>3, <2>4, <1>2, <1>3 DEF WriteEnds, Written
  <2> QED BY <2>1, <2>2, <2>3, <2>4
<1>18. ShownOK'
  <2> SUFFICES ASSUME NEW j \in Keys, IsInbox(j), outbox[j].state = "succeeded",
                      ~remote'.stray, Gen[j] = inbox.generation
               PROVE  remote'.shown = Gen[j]
    BY DEF ShownOK, IsInbox
  <2>1. ~remote.stray => remote.shown = Gen[j]
    BY <1>1 DEF ShownOK
  <2> QED BY <2>1, <1>11
<1> QED BY <1>7, <1>8, <1>10, <1>12, <1>14, <1>15, <1>16, <1>17, <1>18 DEF OutboxInv

\* What a write leaves at GitHub.
LEMMA EffectFacts ==
    ASSUME TypesOK, NEW k \in Keys, NEW stray \in BOOLEAN
    PROVE  /\ Effect(k, stray) \in Remote
           /\ \A j \in Keys \ {k} : Effect(k, stray).effects[j] = remote.effects[j]
           /\ Effect(k, stray).late = remote.late
           /\ Effect(k, stray).effects[k] = remote.effects[k] + IF IsInbox(k) THEN 0 ELSE 1
           /\ Effect(k, stray).shown = IF IsInbox(k) THEN Gen[k] ELSE remote.shown
           /\ remote.stray \/ stray => Effect(k, stray).stray
<1>1. remote \in Remote /\ remote.effects[k] \in Nat /\ Gen[k] \in Nat
  BY TypeFacts DEF Remote
<1>2. remote.effects[k] + 1 \in Nat /\ remote.effects[k] + 0 = remote.effects[k]
  BY <1>1
<1> QED BY <1>1, <1>2 DEF Effect, Remote

\* A write that is answered.
LEMMA ApplyKeeps ==
    ASSUME OutboxInv, NEW g \in Gateways, Apply(g)
    PROVE  OutboxInv'
<1>0. thread[g].key \in Keys /\ thread[g].at = "sending"
  BY KeyFacts DEF Apply, Runs
<1> SUFFICES ASSUME NEW k \in Keys, k = thread[g].key
             PROVE  OutboxInv'
  BY <1>0
<1>1. TypesOK /\ remote' = Effect(k, ~Holds(g, k)) /\ (~Holds(g, k)) \in BOOLEAN
  BY DEF OutboxInv, Apply, Holds
<1>2. /\ remote' \in Remote
      /\ \A j \in Keys \ {k} : remote'.effects[j] = remote.effects[j]
      /\ remote'.late = remote.late
      /\ remote'.effects[k] = remote.effects[k] + IF IsInbox(k) THEN 0 ELSE 1
      /\ remote'.shown = IF IsInbox(k) THEN Gen[k] ELSE remote.shown
      /\ remote.stray \/ ~Holds(g, k) => remote'.stray
  BY <1>1, EffectFacts
<1>3. PICK v \in {"succeed", "uncertain"} : thread' = Verdict(g, v)
  BY DEF Apply
<1>4. /\ thread' \in [Gateways -> Thread]
      /\ \A h \in Gateways \ {g} : thread'[h] = thread[h]
      /\ thread'[g].at = "finishing" /\ thread'[g].verdict = v
      /\ thread'[g].key = k /\ thread'[g].reconcile = thread[g].reconcile
      /\ thread'[g].superseded = thread[g].superseded
  BY <1>1, <1>3, VerdictFacts DEF Verdicts
<1>5. UNCHANGED <<requests, running, outbox, gateway, inbox, suspended, runLease, faults>>
  BY DEF Apply
<1>6. TypesOK'
  BY <1>1, <1>2, <1>4, <1>5 DEF TypesOK, OutboxTypeOK
<1>7. remote.effects[k] \in Nat /\ remote.late[k] \in Nat
  BY <1>1, TypeFacts DEF Remote
<1>8. WriteBy(g, k)
  BY <1>0, <1>2, <1>4, <1>7 DEF WriteBy, Written
<1>9. RemoteGoes(k)
  BY <1>2, <1>7 DEF RemoteGoes, Holds
<1> QED BY <1>5, <1>6, <1>8, <1>9, RemoteStep

\* A write without an answer may land later.
LEMMA ApplyUnansweredKeeps ==
    ASSUME OutboxInv, NEW g \in Gateways, ApplyUnanswered(g)
    PROVE  OutboxInv'
<1>0. thread[g].key \in Keys /\ thread[g].at = "sending"
  BY KeyFacts DEF ApplyUnanswered, Runs
<1> SUFFICES ASSUME NEW k \in Keys, k = thread[g].key
             PROVE  OutboxInv'
  BY <1>0
<1>1. TypesOK /\ remote \in Remote /\ remote.effects[k] \in Nat /\ remote.late[k] \in Nat
  BY TypeFacts DEF OutboxInv, Remote
<1>2. /\ remote' \in Remote /\ remote'.effects = remote.effects
      /\ \A j \in Keys \ {k} : remote'.late[j] = remote.late[j]
      /\ remote'.late[k] = remote.late[k] + 1
      /\ remote'.shown = remote.shown /\ remote'.stray = remote.stray
  BY <1>1 DEF ApplyUnanswered, Remote
<1>3. thread' = Step(g, "unanswered")
  BY DEF ApplyUnanswered
<1>4. /\ thread' \in [Gateways -> Thread]
      /\ \A h \in Gateways \ {g} : thread'[h] = thread[h]
      /\ thread'[g].at = "unanswered"
      /\ thread'[g].key = k /\ thread'[g].reconcile = thread[g].reconcile
      /\ thread'[g].superseded = thread[g].superseded
  BY <1>1, <1>3, StepFacts DEF Places
<1>5. UNCHANGED <<requests, running, outbox, gateway, inbox, suspended, runLease, faults>>
  BY DEF ApplyUnanswered
<1>6. TypesOK'
  BY <1>1, <1>2, <1>4, <1>5 DEF TypesOK, OutboxTypeOK
<1>7. WriteBy(g, k)
  BY <1>0, <1>1, <1>2, <1>4 DEF WriteBy, Written
<1>8. RemoteGoes(k)
  BY <1>1, <1>2 DEF RemoteGoes
<1> QED BY <1>5, <1>6, <1>7, <1>8, RemoteStep

\* WriteLands and WriteLost: the end of a write that was not answered.
LEMMA WriteEndsKeeps ==
    ASSUME OutboxInv, NEW k \in Keys, WriteLands(k) \/ WriteLost(k)
    PROVE  OutboxInv'
<1>1. TypesOK /\ remote \in Remote /\ remote.effects[k] \in Nat /\ remote.late[k] \in Nat
  BY TypeFacts DEF OutboxInv, Remote
<1>2. /\ remote.late[k] > 0 /\ thread' = thread
      /\ UNCHANGED <<requests, running, outbox, gateway, inbox, suspended, runLease, faults>>
  BY DEF WriteLands, WriteLost
<1>3. remote.late[k] - 1 \in Nat
  BY <1>1, <1>2
<1>4. CASE WriteLost(k)
  <2>1. /\ remote' \in Remote /\ remote'.effects = remote.effects
        /\ \A j \in Keys \ {k} : remote'.late[j] = remote.late[j]
        /\ remote'.late[k] = remote.late[k] - 1
        /\ remote'.shown = remote.shown /\ remote'.stray = remote.stray
    BY <1>1, <1>3, <1>4 DEF WriteLost, Remote
  <2>2. TypesOK'
    BY <1>1, <1>2, <2>1 DEF TypesOK, OutboxTypeOK
  <2>3. WriteEnds(k)
    BY <1>1, <1>2, <2>1 DEF WriteEnds, Written
  <2>4. RemoteGoes(k)
    BY <1>1, <2>1 DEF RemoteGoes
  <2> QED BY <1>2, <2>2, <2>3, <2>4, RemoteStep
<1>5. CASE WriteLands(k)
  <2> DEFINE stray == outbox[k].state # "processing"
             landed == Effect(k, stray)
  <2>1. /\ landed \in Remote
        /\ \A j \in Keys \ {k} : landed.effects[j] = remote.effects[j]
        /\ landed.late = remote.late
        /\ landed.effects[k] = remote.effects[k] + IF IsInbox(k) THEN 0 ELSE 1
        /\ landed.shown = IF IsInbox(k) THEN Gen[k] ELSE remote.shown
        /\ remote.stray \/ stray => landed.stray
    BY <1>1, EffectFacts
  <2>2. remote' = [landed EXCEPT !.late[k] = landed.late[k] - 1]
    BY <1>5 DEF WriteLands
  <2> HIDE DEF landed
  <2>3. /\ remote' \in Remote /\ remote'.effects = landed.effects
        /\ \A j \in Keys \ {k} : remote'.late[j] = remote.late[j]
        /\ remote'.late[k] = remote.late[k] - 1
        /\ remote'.shown = landed.shown /\ remote'.stray = landed.stray
    BY <1>3, <2>1, <2>2 DEF Remote
  <2>4. TypesOK'
    BY <1>1, <1>2, <2>3 DEF TypesOK, OutboxTypeOK
  <2>5. WriteEnds(k)
    BY <1>1, <1>2, <2>1, <2>3 DEF WriteEnds, Written
  <2>6. RemoteGoes(k)
    BY <1>1, <2>1, <2>3 DEF RemoteGoes
  <2> QED BY <1>2, <2>4, <2>5, <2>6, RemoteStep
<1> QED BY <1>4, <1>5

-----------------------------------------------------------------------------
(* The inductive invariant.                                                 *)

\* The empty outbox.
LEMMA InitInv ==
    ASSUME OutboxInit
    PROVE  OutboxInv
<1>1. /\ outbox = [k \in Keys |-> NoRow] /\ thread = [g \in Gateways |-> Idle]
      /\ inbox = [generation |-> 0, since |-> 0, plan |-> "active",
                  question |-> [k \in Keys |-> "none"], authorised |-> {}]
      /\ remote = [effects |-> [k \in Keys |-> 0], shown |-> 0,
                   late |-> [k \in Keys |-> 0], stray |-> FALSE]
      /\ suspended = {} /\ faults = 0
  BY DEF OutboxInit
<1>2. requests \subseteq Keys /\ running \subseteq Gateways
  BY OutboxConstants DEF OutboxInit
<1>3. /\ outbox \in [Keys -> Row]
      /\ \A k \in Keys : outbox[k].state = "none" /\ outbox[k].uncertain = FALSE
  BY <1>1, QueuedFacts
<1>4. Idle \in Thread /\ Idle.at = "idle"
  BY DEF Idle, Thread, Places
<1>5. thread \in [Gateways -> Thread] /\ \A g \in Gateways : thread[g].at = "idle"
  BY <1>1, <1>4
<1>6. gateway \in GatewayRow
  BY DEF OutboxInit, GatewayRow, Tokens
<1>7. inbox \in InboxRow /\ inbox.generation = 0 /\ \A k \in Keys : inbox.question[k] = "none"
  BY <1>1 DEF InboxRow
<1>8. /\ remote \in Remote
      /\ \A k \in Keys : remote.effects[k] = 0 /\ remote.late[k] = 0
  BY <1>1 DEF Remote
<1>9. runLease \in BOOLEAN
  <2>1. runLease = (\E k \in requests : Op[k] \in RunOps)
    BY DEF OutboxInit
  <2> QED BY <2>1
<1>10. faults \in 0..MaxFaults
  BY <1>1, OutboxConstants
<1>11. TypesOK
  BY <1>1, <1>2, <1>3, <1>5, <1>6, <1>7, <1>8, <1>9, <1>10
     DEF TypesOK, OutboxTypeOK, InboxRow, GatewayRow
<1>12. \A g \in Gateways, k \in Keys : ~Working(g, k)
  BY <1>5 DEF Working
<1>13. ClaimsOK /\ WritersOK /\ ThreadsOK
  BY <1>5, <1>12 DEF ClaimsOK, WritersOK, ThreadsOK, Fresh
<1>14. RowsOK
  BY <1>3, <1>7, <1>8, <1>12 DEF RowsOK, Written
<1>15. InboxOrder /\ SuccessIsReal /\ BlockedIsAskable /\ ShownOK
  BY <1>3 DEF InboxOrder, SuccessIsReal, BlockedIsAskable, ShownOK
<1>16. WrittenOnce /\ PullAfterPush
  BY <1>8 DEF WrittenOnce, PullAfterPush
<1> QED BY <1>11, <1>13, <1>14, <1>15, <1>16 DEF OutboxInv

\* Every step of a dispatch.
LEMMA DispatchingKeeps ==
    ASSUME OutboxInv, NEW g \in Gateways, Dispatching(g)
    PROVE  OutboxInv'
  BY EnsureGatewayDispatcherKeeps, ClaimDeliveryOutboxKeeps, GivesUpKeeps, ClaimExhaustedKeeps,
     DispatcherLostKeeps, CredentialAvailableKeeps, ValidateDeliveryKeeps, ObserveKeeps,
     ObserveFailsKeeps, ApplyKeeps, ApplyUnansweredKeeps, ApplyRefusedKeeps,
     ObserveUncertainKeeps, FinishWithoutLeaseKeeps, FinishDeliveryKeeps, FinishUnrecordedKeeps,
     PauseForCredentialKeeps, ProjectCredentialQuestionKeeps, DeferRefusedKeeps
  DEF Dispatching

\* Every step.
LEMMA NextInv ==
    ASSUME OutboxInv, [OutboxNext]_outboxVars
    PROVE  OutboxInv'
<1>1. ASSUME NEW g \in running, Dispatching(g)
      PROVE  OutboxInv'
  BY <1>1, DispatchingKeeps, TypeFacts DEF OutboxInv
<1>2. CASE Administration
  BY <1>2, SurroundingsKeep, QueueingKeeps, RecoverExpiredKeeps, RecoverUncertainKeeps
  DEF Administration
<1>3. CASE Surroundings
  BY <1>3, SurroundingsKeep, QueueingKeeps, EnqueueDeliveryKeeps, WriteEndsKeeps,
     CrashGatewayKeeps
  DEF Surroundings
<1>4. CASE UNCHANGED outboxVars
  <2>1. UNCHANGED <<outbox, inbox, thread, remote>> /\ TypesOK'
    BY <1>4 DEF outboxVars, OutboxInv, TypesOK, OutboxTypeOK
  <2> QED BY <2>1, ElsewhereKeeps
<1> QED BY <1>1, <1>2, <1>3, <1>4 DEF OutboxNext

\* Every reachable state has the inductive invariant.
THEOREM OutboxInvariant == OutboxSpec => []OutboxInv
<1>1. OutboxInit => OutboxInv
  BY InitInv
<1>2. OutboxInv /\ [OutboxNext]_outboxVars => OutboxInv'
  BY NextInv
<1> QED BY <1>1, <1>2, PTL DEF OutboxSpec

-----------------------------------------------------------------------------
(* What the outbox promises.                                                *)

\* The rows, the pause, the leases and the processes have their types, and no
\* entry is attempted more often than its limit.
THEOREM OutboxTypesHold == OutboxSpec => []OutboxTypeOK
<1>1. OutboxInv => OutboxTypeOK
  BY DEF OutboxInv, TypesOK
<1> QED BY <1>1, OutboxInvariant, PTL

\* A push, a pull request, a comment or a plan is written to GitHub at most
\* once per entry, for any number of processes, crashes and retries.
THEOREM WrittenOnceHolds == OutboxSpec => []WrittenOnce
<1>1. OutboxInv => WrittenOnce
  BY DEF OutboxInv
<1> QED BY <1>1, OutboxInvariant, PTL

\* What is recorded as delivered is at GitHub.
THEOREM SuccessIsTrue == OutboxSpec => []SuccessIsReal
<1>1. OutboxInv => SuccessIsReal
  BY DEF OutboxInv
<1> QED BY <1>1, OutboxInvariant, PTL

\* No pull request is written, or under way, before a branch was pushed.
THEOREM PullFollowsPush == OutboxSpec => []PullAfterPush
<1>1. OutboxInv => PullAfterPush
  BY DEF OutboxInv
<1> QED BY <1>1, OutboxInvariant, PTL

\* The delivered inbox of the current generation is the one that is shown.
THEOREM InboxIsShown == OutboxSpec => []InboxShown
<1>1. OutboxInv => InboxShown
  BY DEF OutboxInv, ShownOK, InboxShown
<1> QED BY <1>1, OutboxInvariant, PTL

\* An inbox entry that holds back the later ones has an open question.
THEOREM BlockedIsAsked == OutboxSpec => []BlockedIsAskable
<1>1. OutboxInv => BlockedIsAskable
  BY DEF OutboxInv
<1> QED BY <1>1, OutboxInvariant, PTL

\* While a newer inbox is written, no write of an older one counts.
THEOREM InboxIsFenced == OutboxSpec => InboxFence
<1> DEFINE Fenced ==
        \A k, o \in Keys :
           /\ IsInbox(k) /\ IsInbox(o) /\ Gen[o] < Gen[k]
           /\ remote.late[o] > 0
           /\ remote'.shown = Gen[k] \/ remote'.late[k] > remote.late[k]
           /\ remote'.shown # remote.shown \/ remote'.late[k] # remote.late[k]
           /\ outbox[k].state = "processing"
           => \/ outbox[o].state = "succeeded"
              \/ outbox[o].state = "rejected" /\ ~outbox[o].uncertain /\ Exhausted(o)
<1>1. OutboxInv => Fenced
  <2> SUFFICES ASSUME OutboxInv, NEW k \in Keys, NEW o \in Keys, IsInbox(k), IsInbox(o),
                      Gen[o] < Gen[k], remote.late[o] > 0, outbox[k].state = "processing"
               PROVE  \/ outbox[o].state = "succeeded"
                      \/ outbox[o].state = "rejected" /\ ~outbox[o].uncertain /\ Exhausted(o)
    OBVIOUS
  <2>1. Closed(o) /\ (outbox[o].state = "rejected" => GivenUp(o))
    BY DEF OutboxInv, InboxOrder, MayLand, RowsOK
  <2>2. Written(o) # 0
    BY TypeFacts DEF Written, OutboxInv, Remote
  <2> QED BY <2>1, <2>2 DEF Closed, GivenUp
<1>2. OutboxInv /\ [OutboxNext]_outboxVars => [remote' # remote => Fenced]_outboxVars
  BY <1>1
<1> QED BY <1>2, OutboxInvariant, PTL DEF OutboxSpec, InboxFence, Fenced

-----------------------------------------------------------------------------
(* What was recorded stays.                                                 *)

\* An entry that was settled is left alone.
FinalKept == \A j \in Keys : Final(j) => outbox'[j] = outbox[j]

\* The rows of a settled claim, or of the inbox that is queued, leave it alone.
LEMMA SettleKeepsFinal ==
    ASSUME OutboxInv, NEW k \in Keys, NEW st \in {"pending", "succeeded", "rejected"},
           NEW u \in BOOLEAN, QueuesNext(Settled(k, st, u)),
           outbox[k].state \in {"pending", "processing"}
    PROVE  FinalKept
<1> DEFINE rows == Settled(k, st, u)
<1>1. /\ rows \in [Keys -> Row] /\ rows[k].state = st
      /\ \A j \in Keys \ {k} : rows[j] = outbox[j]
  BY SettledFacts DEF OutboxInv
<1>2. QueuesNext(rows)
  OBVIOUS
<1> HIDE DEF rows
<1>3. \A j \in Keys : outbox'[j] = rows[j] \/ RowQueued(j)
  BY <1>1, <1>2, QueueFacts
<1> QED BY <1>1, <1>3 DEF FinalKept, Final, RowQueued

\* So does an inbox that is queued.
LEMMA QueueKeepsFinal ==
    ASSUME OutboxInv, QueuesNext(outbox)
    PROVE  FinalKept
<1>1. \A j \in Keys : outbox'[j] = outbox[j] \/ RowQueued(j)
  BY TypeFacts, QueueFacts DEF OutboxInv
<1> QED BY <1>1 DEF FinalKept, Final, RowQueued

\* So does a claim that is given back.
LEMMA RequeueKeepsFinal ==
    ASSUME OutboxInv, NEW k \in Keys, NEW u \in BOOLEAN, Requeue(k, u),
           outbox[k].state \in {"pending", "processing"}
    PROVE  FinalKept
<1>1. CASE NeedsAttention(k, u, Settled(k, "rejected", u))
  BY <1>1, AttentionFacts, SettleKeepsFinal
<1>2. CASE outbox' = Settled(k, "pending", u) /\ inbox' = inbox
  <2>1. QueuesNext(Settled(k, "pending", u))
    BY <1>2 DEF QueuesNext
  <2> QED BY <2>1, SettleKeepsFinal
<1> QED BY <1>1, <1>2 DEF Requeue

\* A process settles only the entry it took up, while it holds the claim.
LEMMA DispatchKeepsFinal ==
    ASSUME OutboxInv, NEW g \in Gateways, Dispatching(g)
    PROVE  FinalKept
<1>1. CASE outbox' = outbox
  BY <1>1 DEF FinalKept
<1> SUFFICES ASSUME NEW k \in Keys, k = thread[g].key, thread[g].at # "idle", outbox' # outbox
             PROVE  FinalKept
  <2>1. thread[g].at = "idle" => outbox' = outbox
    BY DEF Dispatching, EnsureGatewayDispatcher, ClaimDeliveryOutbox, ClaimRefused, ClaimExhausted,
           DispatcherLost, CredentialAvailable, ValidateDelivery, Observe, ObserveFails, Observing,
           Apply, ApplyUnanswered, ApplyRefused, ObserveUncertain, FinishWithoutLease, FinishFenced,
           FinishDelivery, FinishUnrecorded, PauseForCredential, ProjectCredentialQuestion,
           DeferRefused, Ends, Runs
  <2> QED BY <1>1, <2>1, KeyFacts
<1>2. /\ outbox \in [Keys -> Row] /\ thread[g].reconcile \in BOOLEAN
      /\ outbox[k].uncertain \in BOOLEAN
  BY TypeFacts DEF OutboxInv, Row, Thread
<1>3. CASE ClaimDeliveryOutbox(g)
  <2>1. \A j \in Keys \ {k} : outbox'[j] = outbox[j]
    BY <1>2, <1>3 DEF ClaimDeliveryOutbox
  <2>2. ~Final(k)
    BY <1>3 DEF ClaimDeliveryOutbox, MayClaim, Claimable, Final
  <2> QED BY <2>1, <2>2 DEF FinalKept
<1>4. CASE ClaimExhausted(g)
  <2>1. /\ NeedsAttention(k, outbox[k].uncertain, Settled(k, "rejected", outbox[k].uncertain))
        /\ outbox[k].state \in {"pending", "processing"}
    BY <1>4 DEF ClaimExhausted, Claimable
  <2> QED BY <1>2, <2>1, AttentionFacts, SettleKeepsFinal
<1>5. CASE DispatcherLost(g)
  <2>1. Requeue(k, thread[g].reconcile) /\ outbox[k].state = "processing"
    BY <1>5 DEF DispatcherLost, RequeueClaim, Holds
  <2> QED BY <1>2, <2>1, RequeueKeepsFinal
<1>6. CASE FinishWithoutLease(g)
  <2>1. /\ Requeue(k, Doubtful(g)) /\ outbox[k].state = "processing"
        /\ Doubtful(g) \in BOOLEAN
    BY <1>2, <1>6 DEF FinishWithoutLease, RequeueClaim, Holds, Doubtful
  <2> QED BY <2>1, RequeueKeepsFinal
<1>7. CASE FinishDelivery(g)
  <2>1. outbox[k].state = "processing"
    BY <1>7 DEF FinishDelivery, Holds
  <2>2. CASE CompleteDeliveryOutbox(k)
    <3>1. QueuesNext(Settled(k, "succeeded", FALSE))
      BY <2>2 DEF CompleteDeliveryOutbox, QueuesNext
    <3> QED BY <2>1, <3>1, SettleKeepsFinal
  <2>3. CASE Reject(k, thread[g].reconcile)
    <3>1. CASE NeedsAttention(k, thread[g].reconcile, Settled(k, "rejected", thread[g].reconcile))
      BY <1>2, <2>1, <3>1, AttentionFacts, SettleKeepsFinal
    <3>2. CASE outbox' = Settled(k, "rejected", thread[g].reconcile) /\ inbox' = inbox
      <4>1. QueuesNext(Settled(k, "rejected", thread[g].reconcile))
        BY <3>2 DEF QueuesNext
      <4> QED BY <1>2, <2>1, <4>1, SettleKeepsFinal
    <3> QED BY <2>3, <3>1, <3>2 DEF Reject
  <2>4. CASE Requeue(k, TRUE)
    BY <2>1, <2>4, RequeueKeepsFinal
  <2>5. CASE Requeue(k, thread[g].reconcile)
    BY <1>2, <2>1, <2>5, RequeueKeepsFinal
  <2> QED BY <1>7, <2>2, <2>3, <2>4, <2>5 DEF FinishDelivery
<1>8. CASE FinishUnrecorded(g)
  <2> DEFINE u == thread[g].reconcile \/ thread[g].verdict \in {"succeed", "uncertain"}
  <2>1. Requeue(k, u) /\ outbox[k].state = "processing" /\ u \in BOOLEAN
    BY <1>2, <1>8 DEF FinishUnrecorded, Holds
  <2> HIDE DEF u
  <2> QED BY <2>1, RequeueKeepsFinal
<1>9. CASE DeferRefused(g)
  <2>1. Requeue(k, thread[g].reconcile) /\ outbox[k].state = "processing"
    BY <1>9 DEF DeferRefused, RequeueClaim, Holds
  <2> QED BY <1>2, <2>1, RequeueKeepsFinal
<1>10. CASE ProjectCredentialQuestion(g)
  <2>1. inbox \in InboxRow
    BY TypeFacts DEF OutboxInv
  <2>2. QueuesNext(outbox)
    BY <1>10, <2>1 DEF ProjectCredentialQuestion, QueuesNext, InboxRow
  <2> QED BY <2>2, QueueKeepsFinal
<1>11. outbox' = outbox \/ ClaimDeliveryOutbox(g) \/ ClaimExhausted(g) \/ DispatcherLost(g)
       \/ FinishWithoutLease(g) \/ FinishDelivery(g) \/ FinishUnrecorded(g)
       \/ DeferRefused(g) \/ ProjectCredentialQuestion(g)
  BY DEF Dispatching, EnsureGatewayDispatcher, ClaimRefused, CredentialAvailable, ValidateDelivery,
         Observe, ObserveFails, Apply, ApplyUnanswered, ApplyRefused, ObserveUncertain, FinishFenced,
         PauseForCredential
<1> QED BY <1>3, <1>4, <1>5, <1>6, <1>7, <1>8, <1>9, <1>10, <1>11

\* A delivered entry stays so, and a rejected one is only taken up by a person.
SettledKept ==
    \A k \in Keys :
       /\ outbox[k].state = "succeeded" => outbox'[k].state = "succeeded"
       /\ outbox[k].state = "rejected" /\ outbox'[k].state # "rejected"
            => inbox'.question[k] = "answered" /\ outbox'[k].uncertain

\* Of the administration only a person takes up a rejected entry.
LEMMA AdministrationKeepsSettled ==
    ASSUME OutboxInv, Administration
    PROVE  SettledKept
<1>1. outbox \in [Keys -> Row] /\ inbox \in InboxRow
  BY TypeFacts DEF OutboxInv
<1>2. CASE outbox' = outbox
  BY <1>2 DEF SettledKept
<1>3. CASE RecoverExpiredGatewayDeliveryClaims
  <2>1. \A j \in Keys : outbox[j].state # "processing" => outbox'[j] = outbox[j]
    BY <1>3 DEF RecoverExpiredGatewayDeliveryClaims
  <2> QED BY <2>1 DEF SettledKept
<1>4. ASSUME NEW o \in Owners, ResumeGatewayWrites(o)
      PROVE  SettledKept
  <2>1. QueuesNext(outbox)
    BY <1>1, <1>4 DEF ResumeGatewayWrites, QueuesNext, InboxRow
  <2> QED BY <2>1, QueueKeepsFinal DEF FinalKept, Final, SettledKept
<1>5. ASSUME NEW k \in Keys, RecoverUncertainInboxDelivery(k)
      PROVE  SettledKept
  <2>1. RowsOK
    BY DEF OutboxInv
  <2> DEFINE retried == [outbox EXCEPT ![k] = [Queued EXCEPT !.uncertain = TRUE]]
  <2>2. /\ retried[k].uncertain = TRUE /\ retried[k].state = "pending"
        /\ \A j \in Keys \ {k} : retried[j] = outbox[j]
    <3>1. [Queued EXCEPT !.uncertain = TRUE].uncertain = TRUE
          /\ [Queued EXCEPT !.uncertain = TRUE].state = "pending"
      BY QueuedFacts DEF Row
    <3> QED BY <1>1, <3>1
  <2>3. outbox' = EnqueueNext(retried) /\ inbox'.question[k] = "answered"
        /\ outbox[k].state = "rejected"
    BY <1>1, <1>5 DEF RecoverUncertainInboxDelivery, InboxRow
  <2> HIDE DEF retried
  <2>4. \A j \in NextInbox : j \in Keys => outbox[j].state = "none"
    <3>1. inbox.generation \in Nat /\ \A j \in Keys : Gen[j] \in Nat /\ (Gen[j] # 0 <=> IsInbox(j))
      BY <1>1, OutboxConstants DEF InboxRow, IsInbox
    <3> QED BY <2>1, <3>1 DEF NextInbox, RowsOK
  <2>5. \A j \in Keys : outbox[j].state = "none" \/ outbox'[j] = retried[j]
    BY <2>3, <2>4 DEF EnqueueNext
  <2> QED BY <2>2, <2>3, <2>5 DEF SettledKept
<1> QED BY <1>2, <1>3, <1>4, <1>5
     DEF Administration, PauseGatewayWrites, RotationLapses, BeginGatewayCredentialRotation,
         EndGatewayCredentialRotation

\* Nothing around the outbox takes up an entry that is settled.
LEMMA SurroundingsKeepSettled ==
    ASSUME OutboxInv, Surroundings
    PROVE  SettledKept
<1>1. outbox \in [Keys -> Row] /\ inbox \in InboxRow
  BY TypeFacts DEF OutboxInv
<1>2. CASE outbox' = outbox
  BY <1>2 DEF SettledKept
<1>3. ASSUME NEW k \in Keys, EnqueueDelivery(k)
      PROVE  SettledKept
  BY <1>1, <1>3 DEF EnqueueDelivery, SettledKept
<1>4. CASE QueueWorkflowInboxProjection
  <2>1. QueuesNext(outbox)
    BY <1>1, <1>4 DEF QueueWorkflowInboxProjection, QueuesNext, InboxRow
  <2> QED BY <2>1, QueueKeepsFinal DEF FinalKept, Final, SettledKept
<1>5. ASSUME NEW to \in {"complete", "replaced"}, PlanChanges(to)
      PROVE  SettledKept
  <2>1. QueuesNext(outbox)
    BY <1>1, <1>5 DEF PlanChanges, QueuesNext, InboxRow
  <2> QED BY <2>1, QueueKeepsFinal DEF FinalKept, Final, SettledKept
<1>6. ASSUME NEW g \in Gateways, CrashGateway(g)
      PROVE  SettledKept
  <2>1. \A j \in Keys : outbox'[j].state = outbox[j].state
    BY <1>1, <1>6 DEF CrashGateway, Row
  <2> QED BY <2>1 DEF SettledKept
<1> QED BY <1>2, <1>3, <1>4, <1>5, <1>6
     DEF Surroundings, RunLeaseEnds, WriteLands, WriteLost, DispatcherLapses, SuspendGateway,
         WakeGateway, StartGateway

\* No late holder of a claim overturns what was recorded after it.
THEOREM SettledStaysFinal == OutboxSpec => SettledIsFinal
<1>1. OutboxInv /\ [OutboxNext]_outboxVars => [SettledKept]_outboxVars
  <2> SUFFICES ASSUME OutboxInv, OutboxNext
               PROVE  SettledKept
    OBVIOUS
  <2>1. ASSUME NEW g \in running, Dispatching(g)
        PROVE  SettledKept
    <3>1. FinalKept
      BY <2>1, DispatchKeepsFinal, TypeFacts DEF OutboxInv
    <3> QED BY <3>1 DEF FinalKept, Final, SettledKept
  <2> QED BY <2>1, AdministrationKeepsSettled, SurroundingsKeepSettled DEF OutboxNext
<1> QED BY <1>1, OutboxInvariant, PTL DEF OutboxSpec, SettledIsFinal, SettledKept

=============================================================================
