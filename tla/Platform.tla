------------------------------ MODULE Platform ------------------------------
(***************************************************************************)
(* The platform installation of one Workflow Home: the setup launcher's    *)
(* Apply (internal/launcher/engine.go), which installs, upgrades and       *)
(* repairs generations, and the Control Plane process it stops and starts  *)
(* (internal/controlplane, cmd/workflow/serve.go).  A generation is the    *)
(* unpacked payload of one bundle with a ledger (workflow.db) of its own;  *)
(* active.json names the one that counts.                                  *)
(*                                                                         *)
(* An action is one step that another process, or a crash, can come        *)
(* between: one rename, one transaction, one remote or process call.       *)
(* Refusals before the first write change nothing and are no action.       *)
(***************************************************************************)
EXTENDS Naturals, FiniteSets

CONSTANTS
    Bundles,       \* releases; a generation is named after its bundle
    Installers,    \* concurrent workflow-setup processes
    FirstHomes,    \* what the Home holds at first: a bundle, or Nothing
    MaxApplies,    \* bound: calls of Apply
    MaxMishaps,    \* bound: crashes and failing steps
    MaxClaims,     \* bound: claims of Worker Runs
    Nothing, Torn, Stale

\* What workflow.db and active.json hold, as far as it is modelled.  A stray is
\* a run that was claimed under the last fence; no row of the code says so.
Ledgers == [fence : [op : Nat, for : Bundles \cup {Nothing}],
            claims : SUBSET Nat, live : SUBSET Nat, strays : SUBSET Nat]
Actives == [gen : Bundles, ready : BOOLEAN, attempt : Nat, consent : Nat \cup {Nothing}]

ASSUME PlatformConstants ==
    /\ FirstHomes \subseteq Bundles \cup {Nothing}
    /\ MaxApplies \in Nat /\ MaxMishaps \in Nat /\ MaxClaims \in Nat
    /\ Nothing \notin Bundles \cup Installers /\ Torn # Nothing /\ Stale # Nothing
    /\ Stale \notin Bundles
    /\ Nothing \notin Ledgers \cup Actives /\ Torn \notin Ledgers

VARIABLES
    installed,    \* active.json, or Nothing
    payload,      \* the files of each generation: "absent", "partial", "whole"
    ledger,       \* workflow.db of each generation, Nothing or Torn
    consents,     \* Consent records, each with its bundle
    attempts,     \* Attempt records, each with its bundle and Consent
    dispatcher,   \* bin/workflow.exe is there
    homeLock,     \* platform/installation.lock: Nothing or its owner
    firstLock,    \* the prospective lock outside the Home
    job,          \* program counter and locals of each installer
    children,     \* serve-child processes that passed the identity check
    service,      \* the process that holds the runtime lock, and whether its
                  \*   poll-github child runs
    runtime,      \* runtime.json of each generation: Nothing, Stale or its writer
    pollers,      \* generations whose ledger a poll-github process works on
                  \*   that no Control Plane owns
    applies, claimed, mishaps,
    interrupted   \* operations that crashed or could not clear their fence

platformVars == <<installed, payload, ledger, consents, attempts, dispatcher,
                  homeLock, firstLock, job, children, service, runtime, pollers,
                  applies, claimed, mishaps, interrupted>>

homeFiles == <<installed, payload, ledger, consents, attempts, dispatcher>>
processes == <<children, service, runtime, pollers>>
counters  == <<applies, claimed, mishaps, interrupted>>

Ops == 0 .. MaxApplies
Down == [gen |-> Nothing, up |-> FALSE, polls |-> FALSE]
NoJob == [at |-> "idle"]
NoFence == [op |-> 0, for |-> Nothing]
Blank == [fence |-> NoFence, claims |-> {}, live |-> {}, strays |-> {}]

\* Where an upgrade is once active.json names its candidate.
Postactivation == {"verify", "start", "ready", "clear", "publish", "release"}

-----------------------------------------------------------------------------
(* Apply: how an installer moves on.                                       *)

Reached(i, l) == job[i].at = l
Goto(i, l) == job' = [job EXCEPT ![i].at = l]
CanFail == mishaps < MaxMishaps
Fails == CanFail /\ mishaps' = mishaps + 1 /\ UNCHANGED <<applies, claimed, interrupted>>

Upgrade(i) == job[i].mode = "upgrade"
FirstTime(i) == job[i].mode \in {"fresh", "recover"}
Installed == installed # Nothing
NothingStaged == ~dispatcher /\ \A b \in Bundles : payload[b] = "absent" /\ runtime[b] = Nothing
Empty == ~Installed /\ consents = {} /\ attempts = {} /\ NothingStaged /\ homeLock = Nothing

\* A Home that holds anything else is refused.
GenerationBased == Empty \/ Installed

Intact(g) == ledger[g] \notin {Nothing, Torn}
Fenced(g) == ledger[g].fence # NoFence

\* A request names a Consent that was given for its bundle, or brings a new one.
ConsentFits(c, b) == c = Nothing \/ [id |-> c, for |-> b] \in consents

\* freshRecoveryForApply: the Home holds one Consent, at most one Attempt of
\* it and nothing else.
ConsentOnly(c) == consents = {c} /\ attempts = {}
AttemptOf(c) == \E a \in attempts : attempts = {a} /\ a.consent = c.id /\ a.for = c.for
RecoverableFrom(c) == /\ ~Installed /\ consents = {c} /\ NothingStaged
                      /\ ConsentOnly(c) \/ AttemptOf(c)

NewJob(i, b, c, mode, l) ==
    /\ applies < MaxApplies /\ applies' = applies + 1
    /\ job' = [job EXCEPT ![i] = [at |-> l, op |-> applies + 1, for |-> b,
                 mode |-> mode, old |-> Nothing, consent |-> c, attempt |-> 0,
                 stopped |-> FALSE, backup |-> Nothing, holds |-> l = "read"]]

\* First installation: the prospective lock, under which the Home is still empty.
ApplyFirst(i, b) ==
    /\ Reached(i, "idle") /\ Empty /\ firstLock = Nothing
    /\ firstLock' = i
    /\ NewJob(i, b, Nothing, "fresh", "consent")
    /\ UNCHANGED <<homeFiles, homeLock, processes, claimed, mishaps, interrupted>>

\* Every other call: the lock in the Home, then what the Home holds is read again.
ApplyLocked(i, b, c) ==
    /\ Reached(i, "idle") /\ homeLock = Nothing /\ ~Empty
    /\ ConsentFits(c, b)
    /\ \/ GenerationBased /\ NewJob(i, b, c, "existing", "read")
       \/ /\ c # Nothing /\ RecoverableFrom([id |-> c, for |-> b])
          /\ NewJob(i, b, c, "recover", "read")
    /\ homeLock' = i
    /\ UNCHANGED <<homeFiles, firstLock, processes, claimed, mishaps, interrupted>>

Fenceable(g) == Intact(g) /\ ~Fenced(g) /\ ledger[g].live = {}

\* BeginMaintenanceFence: insert the singleton row, count the live runs, and
\* take the row back if there are any.
FenceOrLeave(i, g) ==
    \/ /\ Fenceable(g)
       /\ ledger' = [ledger EXCEPT ![g].strays = {},
                      ![g].fence = [op |-> job[i].op, for |-> job[i].for]]
       /\ job' = [job EXCEPT ![i].mode = "upgrade", ![i].old = g, ![i].at = "consent"]
    \/ ~Fenceable(g) /\ Goto(i, "unlock") /\ UNCHANGED ledger

\* ReadActive: an interrupted activation of this bundle is repaired, any other
\* active generation is fenced.
ReadInstalled(i) ==
    /\ Reached(i, "read")
    /\ IF ~Installed THEN Goto(i, "consent") /\ UNCHANGED ledger
       ELSE IF ~installed.ready /\ installed.gen = job[i].for
       THEN job' = [job EXCEPT ![i].mode = "repair", ![i].at = "consent"] /\ UNCHANGED ledger
       ELSE FenceOrLeave(i, installed.gen)
    /\ UNCHANGED <<installed, payload, consents, attempts, dispatcher, homeLock,
                   firstLock, processes, counters>>

\* Where an error before the switch leads: a first installation discards what
\* it staged (failFreshAttempt), the deferred function rolls an upgrade back.
Leave(i) == IF Upgrade(i) THEN "rollback" ELSE "unlock"

DiscardStaged(i) ==
    LET b == job[i].for IN
    /\ payload' = [payload EXCEPT ![b] = "absent"]
    /\ ledger' = [ledger EXCEPT ![b] = Nothing]
    /\ runtime' = [runtime EXCEPT ![b] = Nothing]
    /\ dispatcher' = (dispatcher /\ \E o \in Bundles \ {b} : payload[o] # "absent")
    /\ UNCHANGED <<installed, consents, attempts, children, service, pollers>>

\* A step at l fails: nothing of it is left but what its code leaves behind.
StepFails(i) ==
    /\ job[i].at \in {"prepare", "backup", "copy", "open", "commit"}
    /\ Fails /\ Goto(i, Leave(i))
    /\ IF FirstTime(i) THEN DiscardStaged(i) ELSE UNCHANGED <<homeFiles, processes>>
    /\ UNCHANGED <<homeLock, firstLock>>

\* A record could not be written: Apply returns, and nothing is discarded.
WriteFails(i) ==
    /\ job[i].at \in {"consent", "attempt", "record", "publish", "republish"}
    /\ Reached(i, "consent") => job[i].consent = Nothing
    /\ Fails /\ Goto(i, IF Reached(i, "publish") THEN "unlock" ELSE Leave(i))
    /\ UNCHANGED <<homeFiles, processes, homeLock, firstLock>>

-----------------------------------------------------------------------------
(* Apply: consent to copy.                                                 *)

RecordConsent(i) ==
    /\ Reached(i, "consent")
    /\ LET c == IF job[i].consent = Nothing THEN job[i].op ELSE job[i].consent
       IN  /\ consents' = consents \cup {[id |-> c, for |-> job[i].for]}
           /\ job' = [job EXCEPT ![i].consent = c,
                        ![i].at = IF FirstTime(i) THEN "attempt"
                                  ELSE IF Upgrade(i) THEN "stop" ELSE "prepare"]
    /\ UNCHANGED <<installed, payload, ledger, attempts, dispatcher, homeLock,
                   firstLock, processes, counters>>

\* A recovered installation goes on with the Attempt that is there.
RecordFirstAttempt(i) ==
    /\ Reached(i, "attempt")
    /\ LET kept == IF job[i].mode = "recover" THEN attempts ELSE {}
           new == [id |-> job[i].op, for |-> job[i].for, consent |-> job[i].consent]
       IN  /\ attempts' = IF kept = {} THEN attempts \cup {new} ELSE attempts
           /\ job' = [job EXCEPT ![i].at = IF job[i].mode = "fresh" THEN "lock" ELSE "prepare",
                        ![i].attempt = IF kept = {} THEN new.id
                                       ELSE (CHOOSE a \in kept : TRUE).id]
    /\ UNCHANGED <<installed, payload, ledger, consents, dispatcher, homeLock,
                   firstLock, processes, counters>>

\* Only now does a first installation take the lock in the Home.
LockHome(i) ==
    /\ Reached(i, "lock")
    /\ \/ /\ homeLock = Nothing /\ homeLock' = i
          /\ job' = [job EXCEPT ![i].at = "prepare", ![i].holds = TRUE]
       \/ homeLock # Nothing /\ Goto(i, "unlock") /\ UNCHANGED homeLock
    /\ UNCHANGED <<homeFiles, firstLock, processes, counters>>

\* The runtime record of generation g; of a process that is gone it is Stale.
RecordedAt(g) == runtime[g]
Serving(g) == service.up /\ service.gen = g

\* A process that ends leaves its runtime record behind.
Ended(r) == [g \in Bundles |-> IF r[g] # Nothing THEN Stale ELSE Nothing]

\* Stop: without a record nothing is stopped; a record of a process that is
\* gone, or of another generation, is an error.
StopOld(i) ==
    /\ Reached(i, "stop")
    /\ LET r == RecordedAt(installed.gen) IN
       \/ r = Nothing /\ Goto(i, "prepare") /\ UNCHANGED <<service, runtime>>
       \/ /\ r = installed.gen /\ Serving(r)
          /\ service' = Down /\ runtime' = Ended(runtime)
          /\ job' = [job EXCEPT ![i].at = "prepare", ![i].stopped = TRUE]
       \/ /\ r \notin {Nothing, installed.gen}
          /\ Goto(i, "rollback") /\ UNCHANGED <<service, runtime>>
    /\ UNCHANGED <<homeFiles, homeLock, firstLock, children, pollers, counters>>

\* The credential, Docker and the worker image, then the dispatcher.
Prepare(i) ==
    /\ Reached(i, "prepare")
    /\ dispatcher' = TRUE
    /\ Goto(i, CASE job[i].mode = "repair" -> "reverify"
                 [] Upgrade(i) -> "record" [] OTHER -> "stage")
    /\ UNCHANGED <<installed, payload, ledger, consents, attempts, homeLock,
                   firstLock, processes, counters>>

RecordAttempt(i) ==
    /\ Reached(i, "record")
    /\ attempts' = attempts \cup {[id |-> job[i].op, for |-> job[i].for,
                                   consent |-> job[i].consent]}
    /\ job' = [job EXCEPT ![i].attempt = job[i].op, ![i].at = "stage"]
    /\ UNCHANGED <<installed, payload, ledger, consents, dispatcher, homeLock,
                   firstLock, processes, counters>>

\* stageGeneration: a directory that exists is taken as it is.  A copy that
\* fails leaves what it copied, unless the installation is a first one.
StageGeneration(i) ==
    /\ Reached(i, "stage")
    /\ LET b == job[i].for
           next == IF Upgrade(i) THEN "backup" ELSE "open"
       IN  \/ /\ payload[b] # "absent" /\ Goto(i, next)
              /\ UNCHANGED <<homeFiles, processes, counters>>
           \/ /\ payload[b] = "absent" /\ Goto(i, next)
              /\ payload' = [payload EXCEPT ![b] = "whole"]
              /\ UNCHANGED <<installed, ledger, consents, attempts, dispatcher,
                             processes, counters>>
           \/ /\ payload[b] = "absent" /\ Fails /\ Goto(i, Leave(i))
              /\ IF FirstTime(i) THEN DiscardStaged(i)
                 ELSE /\ payload' = [payload EXCEPT ![b] = "partial"]
                      /\ UNCHANGED <<installed, ledger, consents, attempts,
                                     dispatcher, processes>>
    /\ UNCHANGED <<homeLock, firstLock>>

\* The online backup is a consistent copy; copyFile then writes it over the
\* candidate's workflow.db, which is torn until the copy is complete.
BackupLedger(i) ==
    /\ Reached(i, "backup")
    /\ job' = [job EXCEPT ![i].at = "copy", ![i].backup = ledger[job[i].old]]
    /\ ledger' = [ledger EXCEPT ![job[i].for] = Torn]
    /\ UNCHANGED <<installed, payload, consents, attempts, dispatcher, homeLock,
                   firstLock, processes, counters>>

CopyLedger(i) ==
    /\ Reached(i, "copy") /\ Goto(i, "open")
    /\ ledger' = [ledger EXCEPT ![job[i].for] = job[i].backup]
    /\ UNCHANGED <<installed, payload, consents, attempts, dispatcher, homeLock,
                   firstLock, processes, counters>>

\* Migrate is one transaction that keeps every row; a database that is not
\* there is created empty.
Migrated(l) == IF l = Nothing THEN Blank ELSE l

\* store.Open migrates the candidate; the worker release and the credential's
\* verification are recorded in it.
OpenCandidate(i) ==
    /\ Reached(i, "open") /\ Goto(i, "commit")
    /\ ledger' = [ledger EXCEPT ![job[i].for] = Migrated(@)]
    /\ UNCHANGED <<installed, payload, consents, attempts, dispatcher, homeLock,
                   firstLock, processes, counters>>

\* The active record is now the sole authority.
CommitActivation(i) ==
    /\ Reached(i, "commit") /\ Goto(i, "verify")
    /\ installed' = [gen |-> job[i].for, ready |-> FALSE, attempt |-> job[i].attempt,
                     consent |-> job[i].consent]
    /\ UNCHANGED <<payload, ledger, consents, attempts, dispatcher, homeLock,
                   firstLock, processes, counters>>

-----------------------------------------------------------------------------
(* Apply after the switch, and the repair of an activation that stopped there. *)

Verified(g) == payload[g] = "whole" /\ ledger[g] # Nothing

VerifyGeneration(i) ==
    /\ Reached(i, "verify")
    /\ Goto(i, IF Verified(installed.gen) THEN "start" ELSE "unlock")
    /\ UNCHANGED <<homeFiles, homeLock, firstLock, processes, counters>>

\* repairActiveGeneration: the Attempt of the interrupted activation has to be
\* of the Consent at hand; nothing is staged or copied again.
VerifyRepair(i) ==
    /\ Reached(i, "reverify")
    /\ Goto(i, IF /\ installed.consent = job[i].consent
                  /\ Verified(installed.gen) /\ Intact(installed.gen)
               THEN "restart" ELSE "unlock")
    /\ UNCHANGED <<homeFiles, homeLock, firstLock, processes, counters>>

\* controlplane.Start: a process that is ready is kept, or refused if it is of
\* another generation; otherwise a serve-child is launched.
Launched(g) == IF RecordedAt(g) \in {Nothing, Stale} THEN children \cup {g} ELSE children

StartActive(i) ==
    /\ job[i].at \in {"start", "restart"}
    /\ LET g == installed.gen IN
       \/ /\ RecordedAt(g) \in {Nothing, Stale, g}
          /\ children' = Launched(g)
          /\ Goto(i, IF Reached(i, "start") THEN "ready" ELSE "reready")
       \/ /\ RecordedAt(g) \notin {Nothing, Stale, g}
          /\ Goto(i, "unlock") /\ UNCHANGED children
    /\ UNCHANGED <<homeFiles, homeLock, firstLock, service, runtime, pollers, counters>>

ReadyAs(g) == RecordedAt(g) = g

\* Ready: a live process that identifies itself as the active generation, or
\* the wait times out.
AwaitReady(i) ==
    /\ job[i].at \in {"ready", "reready"}
    /\ \/ /\ ReadyAs(installed.gen)
          /\ Goto(i, IF Reached(i, "ready") THEN "clear" ELSE "reclear")
       \/ Goto(i, "unlock")
    /\ UNCHANGED <<homeFiles, homeLock, firstLock, processes, counters>>

\* ClearMaintenanceFence(operation) and ClearMaintenanceFenceForBundle.
ClearedOf(g, op) == IF Intact(g) /\ ledger[g].fence.op = op
                    THEN [ledger EXCEPT ![g].fence = NoFence] ELSE ledger
ClearedFor(g, b) == IF Intact(g) /\ ledger[g].fence.for = b
                    THEN [ledger EXCEPT ![g].fence = NoFence] ELSE ledger

\* Mutation: the fence of the old generation is cleared instead.
OldCleared(i) == IF Upgrade(i) THEN ClearedOf(job[i].old, job[i].op) ELSE ledger
\* The copy of the fence in the candidate's ledger.
CandidateCleared(i) == ClearedOf(job[i].for, job[i].op)

\* An error of the clearing is ignored.
ClearFence(i) ==
    /\ job[i].at \in {"clear", "reclear"}
    /\ Goto(i, IF Reached(i, "clear") THEN "publish" ELSE "republish")
    /\ \/ /\ ledger' = IF Reached(i, "clear") THEN CandidateCleared(i)
                       ELSE ClearedFor(job[i].for, job[i].for)
          /\ UNCHANGED counters
       \/ /\ CanFail /\ Intact(job[i].for) /\ Fenced(job[i].for) /\ mishaps' = mishaps + 1
          /\ interrupted' = interrupted \cup {ledger[job[i].for].fence.op}
          /\ UNCHANGED <<ledger, applies, claimed>>
    /\ UNCHANGED <<installed, payload, consents, attempts, dispatcher, homeLock,
                   firstLock, processes>>

PublishReady(i) ==
    /\ job[i].at \in {"publish", "republish"}
    /\ installed' = [installed EXCEPT !.ready = TRUE]
    /\ Goto(i, IF Upgrade(i) THEN "release" ELSE "unlock")
    /\ UNCHANGED <<payload, ledger, consents, attempts, dispatcher, homeLock,
                   firstLock, processes, counters>>

\* Last, the old ledger is released (clearOldFence).
ReleaseOld(i) ==
    /\ Reached(i, "release") /\ Goto(i, "unlock")
    /\ ledger' = ClearedOf(job[i].old, job[i].op)
    /\ UNCHANGED <<installed, payload, consents, attempts, dispatcher, homeLock,
                   firstLock, processes, counters>>

-----------------------------------------------------------------------------
(* How Apply ends.                                                         *)

\* The deferred function of an upgrade that did not switch.
RollBack(i) ==
    /\ Reached(i, "rollback")
    /\ Goto(i, IF job[i].stopped THEN "bringback" ELSE "unlock")
    /\ \/ /\ ledger' = ClearedOf(job[i].old, job[i].op)
          /\ UNCHANGED counters
       \/ /\ CanFail /\ mishaps' = mishaps + 1
          /\ interrupted' = interrupted \cup {job[i].op}
          /\ UNCHANGED <<ledger, applies, claimed>>
    /\ UNCHANGED <<installed, payload, consents, attempts, dispatcher, homeLock,
                   firstLock, processes>>

BringBack(i) ==
    /\ Reached(i, "bringback") /\ Goto(i, "unlock")
    /\ children' = Launched(job[i].old)
    /\ UNCHANGED <<homeFiles, homeLock, firstLock, service, runtime, pollers, counters>>

Unlock(i) ==
    /\ Reached(i, "unlock")
    /\ homeLock' = IF job[i].holds THEN Nothing ELSE homeLock
    /\ firstLock' = IF firstLock = i THEN Nothing ELSE firstLock
    /\ job' = [job EXCEPT ![i] = NoJob]
    /\ UNCHANGED <<homeFiles, processes, counters>>

\* The installer dies; nobody removes its lock files.
InstallerDies(i) ==
    /\ job[i] # NoJob /\ CanFail
    /\ mishaps' = mishaps + 1 /\ interrupted' = interrupted \cup {job[i].op}
    /\ homeLock' = IF job[i].holds THEN Stale ELSE homeLock
    /\ firstLock' = IF firstLock = i THEN Stale ELSE firstLock
    /\ payload' = IF Reached(i, "stage") /\ payload[job[i].for] = "absent"
                  THEN [payload EXCEPT ![job[i].for] = "partial"] ELSE payload
    /\ job' = [job EXCEPT ![i] = NoJob]
    /\ UNCHANGED <<installed, ledger, consents, attempts, dispatcher, processes,
                   applies, claimed>>

-----------------------------------------------------------------------------
(* The Control Plane: serve, serve-child and the loops of the service.     *)

home == <<homeFiles, homeLock, firstLock, job>>

\* OpenActivated: the ledger of an activated generation is never migrated.
Activated(g) == Intact(g)
LoopsReady(g) == Activated(g)

\* workflow serve, by hand: only for a generation that is ready.
Serve ==
    /\ Installed /\ installed.ready /\ dispatcher /\ Activated(installed.gen)
    /\ children' = Launched(installed.gen) /\ children' # children
    /\ UNCHANGED <<home, service, runtime, pollers, counters>>

RuntimeLockFree == service = Down

\* A child takes the runtime lock, or fails if another process holds it.
ChildLocks(g) ==
    /\ g \in children /\ children' = children \ {g}
    /\ service' = IF RuntimeLockFree THEN [gen |-> g, up |-> FALSE, polls |-> FALSE] ELSE service
    /\ UNCHANGED <<home, runtime, pollers, counters>>

Recorded(g) == [runtime EXCEPT ![installed.gen] = g]

\* The loops are built on the ledger of the child's generation, then the
\* runtime record is written: where active.json points at that moment.
ServiceUp ==
    /\ ~RuntimeLockFree /\ ~service.up /\ LoopsReady(service.gen)
    /\ service' = [service EXCEPT !.up = TRUE]
    /\ runtime' = Recorded(service.gen)
    /\ UNCHANGED <<home, children, pollers, counters>>

\* A poll-github process starts on the ledger of the generation that is active
\* and ready, and of no other (activeCommandDatabaseForHome).
IsActive(g) == Installed /\ installed.ready /\ installed.gen = g /\ Activated(g)

\* The lock file of the ledger: one poll-github process at a time.
Polled(g) == g \in pollers \/ (Serving(g) /\ service.polls)
MayPoll(g) == IsActive(g) /\ ~Polled(g)

\* The supervisor starts its poll-github child, again if it has ended.
SupervisorPolls ==
    /\ service.up /\ MayPoll(service.gen)
    /\ service' = [service EXCEPT !.polls = TRUE]
    /\ UNCHANGED <<home, children, runtime, pollers, counters>>

\* The process ends by itself; its poll-github child ends with it.
ServiceEnds ==
    /\ ~RuntimeLockFree
    /\ service' = Down /\ runtime' = IF service.up THEN Ended(runtime) ELSE runtime
    /\ UNCHANGED <<home, children, pollers, counters>>

\* It is killed: its poll-github child goes on alone.
ServiceKilled ==
    /\ service.up /\ CanFail /\ mishaps' = mishaps + 1
    /\ service' = Down /\ runtime' = Ended(runtime)
    /\ pollers' = IF service.polls THEN pollers \cup {service.gen} ELSE pollers
    /\ UNCHANGED <<home, children, applies, claimed, interrupted>>

\* workflow poll-github, by hand.
PollByHand(g) ==
    /\ MayPoll(g) /\ pollers' = pollers \cup {g}
    /\ UNCHANGED <<home, children, service, runtime, counters>>

PollerEnds(g) ==
    /\ g \in pollers /\ pollers' = pollers \ {g}
    /\ UNCHANGED <<home, children, service, runtime, counters>>

Works(g) == Polled(g) /\ Intact(g)

\* Mutation: the claim does not look for the fence.
ClaimsUnderFence(g) == Works(g)
\* claimReady: no claim under a maintenance fence.
MayClaimRun(g) == Works(g) /\ ~Fenced(g)

\* A claim makes a run that is live.
Claimed(g, strays) ==
    /\ claimed < MaxClaims /\ claimed' = claimed + 1
    /\ ledger' = [ledger EXCEPT ![g].claims = @ \cup {claimed + 1},
                                ![g].live = @ \cup {claimed + 1},
                                ![g].strays = strays]
    /\ UNCHANGED <<installed, payload, consents, attempts, dispatcher, homeLock,
                   firstLock, job, processes, applies, mishaps, interrupted>>

ClaimRun(g) == MayClaimRun(g) /\ Claimed(g, ledger[g].strays)

\* The claim of a pending delivery or of a queued review does not ask for a
\* fence: the run it makes may be a stray.
ClaimNextRun(g) ==
    /\ Works(g)
    /\ Claimed(g, ledger[g].strays \cup {r \in {claimed + 1} : Fenced(g)})

\* A run's delivery ends, or its lease expires.
RunOver(g, r) ==
    /\ Intact(g) /\ r \in ledger[g].live
    /\ ledger' = [ledger EXCEPT ![g].live = @ \ {r}]
    /\ UNCHANGED <<installed, payload, consents, attempts, dispatcher, homeLock,
                   firstLock, job, processes, counters>>

-----------------------------------------------------------------------------

PlatformInit ==
    \E b \in FirstHomes :
      /\ installed = IF b = Nothing THEN Nothing
                     ELSE [gen |-> b, ready |-> TRUE, attempt |-> 0, consent |-> 0]
      /\ payload = [g \in Bundles |-> IF g = b THEN "whole" ELSE "absent"]
      /\ ledger = [g \in Bundles |-> IF g = b THEN Blank ELSE Nothing]
      /\ consents = IF b = Nothing THEN {} ELSE {[id |-> 0, for |-> b]}
      /\ attempts = IF b = Nothing THEN {} ELSE {[id |-> 0, for |-> b, consent |-> 0]}
      /\ dispatcher = (b # Nothing)
      /\ homeLock = Nothing /\ firstLock = Nothing
      /\ job = [i \in Installers |-> NoJob]
      /\ children = {} /\ pollers = {}
      /\ service = IF b = Nothing THEN Down ELSE [gen |-> b, up |-> TRUE, polls |-> TRUE]
      /\ runtime = [g \in Bundles |-> IF g = b THEN b ELSE Nothing]
      /\ applies = 0 /\ claimed = 0 /\ mishaps = 0 /\ interrupted = {}

InstallerNext ==
    \E i \in Installers :
      \/ \E b \in Bundles : ApplyFirst(i, b)
      \/ \E b \in Bundles, c \in Ops \cup {Nothing} : ApplyLocked(i, b, c)
      \/ ReadInstalled(i) \/ RecordConsent(i) \/ RecordFirstAttempt(i)
      \/ LockHome(i) \/ StopOld(i) \/ Prepare(i) \/ RecordAttempt(i)
      \/ StageGeneration(i) \/ BackupLedger(i) \/ CopyLedger(i)
      \/ OpenCandidate(i) \/ CommitActivation(i) \/ VerifyGeneration(i) \/ VerifyRepair(i)
      \/ StartActive(i) \/ AwaitReady(i) \/ ClearFence(i) \/ PublishReady(i)
      \/ ReleaseOld(i) \/ StepFails(i) \/ WriteFails(i) \/ RollBack(i)
      \/ BringBack(i) \/ Unlock(i) \/ InstallerDies(i)

ServiceNext ==
    \/ Serve \/ ServiceUp \/ ServiceEnds \/ ServiceKilled \/ SupervisorPolls
    \/ \E g \in Bundles : \/ ChildLocks(g) \/ PollByHand(g) \/ PollerEnds(g)
                          \/ ClaimRun(g) \/ ClaimNextRun(g)
                          \/ \E r \in 1 .. MaxClaims : RunOver(g, r)

PlatformNext == InstallerNext \/ ServiceNext

PlatformSpec == PlatformInit /\ [][PlatformNext]_platformVars

-----------------------------------------------------------------------------
(* What an upgrade promises.                                               *)

\* While an upgrade is past its switch, every run that the old ledger ever
\* recorded is in the new one and none of them is live, whatever pollers ran,
\* and wherever installers and Control Planes died (engine.go, maintenance.go).
\* Excepted are the deliveries and reviews that were claimed under its fence.
UpgradeKeepsRuns ==
    \A i \in Installers :
      job[i].at \in Postactivation /\ Upgrade(i) /\ job[i].old # job[i].for =>
        LET old == ledger[job[i].old] new == ledger[job[i].for]
        IN  /\ old.claims \ old.strays \subseteq new.claims
            /\ old.live \subseteq old.strays

\* Scheduling is never left paused behind: the fence in the ledger of a ready
\* generation is the one of an upgrade that is still running, unless that
\* upgrade died or could not clear it (maintenance.go:45-47, engine.go:258-275).
FenceHasOwner ==
    Installed /\ installed.ready /\ Intact(installed.gen)
      /\ Fenced(installed.gen) =>
        LET op == ledger[installed.gen].fence.op
        IN  op \in interrupted \/ \E i \in Installers : job[i] # NoJob /\ job[i].op = op

=============================================================================
