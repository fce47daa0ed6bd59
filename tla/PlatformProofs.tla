--------------------------- MODULE PlatformProofs ---------------------------
(***************************************************************************)
(* Proofs about Platform.tla, for any bundles and installers and any       *)
(* number of applies, claims, crashes and failing steps: from the switch   *)
(* until the old ledger is released, the new ledger has every run that the *)
(* old one recorded, but for the strays claimed under its fence; and in a  *)
(* Home that is installed no fence is left without an owner.               *)
(*                                                                         *)
(* Both follow the fence of an upgrade from one ledger to the other.  What *)
(* is written to the old ledger after it was found quiet are strays, the   *)
(* copy carries fence and claims over, and whoever copies or switches has  *)
(* the lock of the Home, so that no second installer comes in between.     *)
(***************************************************************************)
EXTENDS Platform, TLAPS

-----------------------------------------------------------------------------
(* The inductive invariant of an upgrade.                                  *)

Staging == {"consent", "stop", "prepare", "record", "stage", "backup"}
Copied == {"open", "commit", "verify", "start", "ready", "clear"}
Upgrading == {"stop", "record", "backup", "copy", "release", "rollback", "bringback"}
Repairing == {"reverify", "restart", "reready", "reclear", "republish"}
Switched == {"verify", "start", "ready", "clear", "publish"}
Places == Staging \cup Copied \cup Upgrading \cup Repairing
            \cup {"read", "attempt", "lock", "publish", "unlock"}

JobRow == [at : Places, op : Nat, for : Bundles,
           mode : {"fresh", "recover", "existing", "upgrade", "repair"},
           old : Bundles \cup {Nothing}, consent : Nat \cup {Nothing}, attempt : Nat,
           stopped : BOOLEAN, backup : Ledgers \cup {Nothing, Torn}, holds : BOOLEAN]
AttemptRow == [id : Nat, for : Bundles, consent : Nat \cup {Nothing}]

PlatformTypes ==
    /\ installed \in Actives \cup {Nothing}
    /\ ledger \in [Bundles -> Ledgers \cup {Nothing, Torn}]
    /\ attempts \subseteq AttemptRow
    /\ job \in [Installers -> JobRow \cup {NoJob}]
    /\ applies \in Nat /\ claimed \in Nat

\* Only a first installation works without the lock, until it has an Attempt;
\* only an upgrade fences, copies and rolls back.
ShapeOK(j) ==
    /\ j.op # 0
    /\ ~j.holds => j.mode = "fresh" /\ j.at \in {"consent", "attempt", "lock", "unlock"}
    /\ j.mode = "fresh" => j.at # "read"
    /\ j.mode = "existing" => j.at \in {"read", "unlock"}
    /\ j.mode = "upgrade" => /\ j.old \in Bundles
                             /\ j.at \notin {"read", "attempt", "lock"} \cup Repairing
    /\ j.mode = "repair" => j.at \in {"consent", "prepare", "unlock"} \cup Repairing
    /\ j.at \in Upgrading => j.mode = "upgrade"
    /\ j.at \in Repairing => j.mode = "repair"

\* The ledger l is fenced by the apply j, and only strays are live in it.
Marked(j, l) ==
    /\ l \in Ledgers /\ l.live \subseteq l.strays
    /\ l.fence = [op |-> j.op, for |-> j.for]

\* The runs that a row has to hand over.
Settled(l) == l.claims \ l.strays

\* Unless the generation replaces itself, l has what the old ledger had to hand
\* over, and that one is still fenced.
CopyOf(j, led, l) ==
    j.old # j.for => Marked(j, led[j.old]) /\ Settled(led[j.old]) \subseteq l.claims

UpgradeOK(j, led) ==
    j.mode = "upgrade" =>
    /\ j.at \in Staging => Marked(j, led[j.old])
    /\ j.at = "copy" => /\ Marked(j, j.backup) /\ CopyOf(j, led, j.backup)
                        /\ led[j.for] = Torn
    /\ j.at \in Copied => Marked(j, led[j.for])
    /\ j.at \in Copied \cup {"publish", "release"} =>
          led[j.for] \in Ledgers /\ CopyOf(j, led, led[j.for])
    /\ j.at = "rollback" /\ led[j.old] \in Ledgers => Marked(j, led[j.old])

\* What is only done in a Home with an active generation.
OnActive(j) == j.mode \in {"existing", "upgrade", "repair"} \/ j.at \in Switched

JobOK(i) ==
    /\ job[i].holds => homeLock = i
    /\ OnActive(job[i]) => Installed
    /\ ShapeOK(job[i]) /\ UpgradeOK(job[i], ledger)

UpgradeInv == PlatformTypes /\ \A i \in Installers : job[i] # NoJob => JobOK(i)

-----------------------------------------------------------------------------
(* Rows and frames.                                                        *)

\* A job row is told from no job by its place.
LEMMA JobOrNot ==
    ASSUME PlatformTypes, NEW i \in Installers
    PROVE  /\ job[i] \in JobRow \cup {NoJob}
           /\ job[i] \in JobRow <=> job[i] # NoJob
           /\ job[i] # NoJob <=> ~Reached(i, "idle")
<1>1. \A j \in JobRow : j.at # "idle"
  BY DEF JobRow, Places, Staging, Copied, Upgrading, Repairing
<1> QED BY <1>1 DEF PlatformTypes, Reached, NoJob

LEMMA IntactIsLedger ==
    ASSUME PlatformTypes, NEW g \in Bundles
    PROVE  Intact(g) <=> ledger[g] \in Ledgers
BY PlatformConstants DEF PlatformTypes, Intact

\* Installer i moves to l; what it is doing stays the same.
SameWork(j, r) ==
    /\ r.op = j.op /\ r.for = j.for /\ r.mode = j.mode
    /\ r.old = j.old /\ r.backup = j.backup /\ r.holds = j.holds
MovesTo(i, l) ==
    /\ job' \in [Installers -> JobRow \cup {NoJob}] /\ job'[i] \in JobRow
    /\ job'[i] # NoJob /\ job'[i].at = l /\ SameWork(job[i], job'[i])
    /\ \A k \in Installers : k # i => job'[k] = job[k]

LEMMA UpdateMoves ==
    ASSUME PlatformTypes, NEW i \in Installers, NEW r \in JobRow,
           job' = [job EXCEPT ![i] = r], SameWork(job[i], r)
    PROVE  MovesTo(i, r.at)
<1>1. job' \in [Installers -> JobRow \cup {NoJob}] /\ job'[i] = r
      /\ \A k \in Installers : k # i => job'[k] = job[k]
  BY DEF PlatformTypes
<1>2. r # NoJob
  BY DEF NoJob, JobRow, Places, Staging, Copied, Upgrading, Repairing
<1> QED BY <1>1, <1>2 DEF MovesTo

LEMMA GotoMoves ==
    ASSUME PlatformTypes, NEW i \in Installers, job[i] # NoJob, NEW l \in Places, Goto(i, l)
    PROVE  MovesTo(i, l)
<1> DEFINE r == [job[i] EXCEPT !.at = l]
<1>1. job[i] \in JobRow
  BY JobOrNot
<1>2. r \in JobRow /\ r.at = l /\ SameWork(job[i], r)
  BY <1>1 DEF JobRow, SameWork
<1>3. job' = [job EXCEPT ![i] = r]
  BY DEF Goto
<1> HIDE DEF r
<1> QED BY <1>2, <1>3, UpdateMoves

\* What a step of installer i leaves to the others: it writes to a ledger, and
\* takes or gives away the lock, only with the lock in its hands.
Frame(i) ==
    /\ \A k \in Installers : k # i => job'[k] = job[k]
    /\ ledger' = ledger \/ (job[i] # NoJob /\ job[i].holds)
    /\ \/ homeLock' = homeLock
       \/ homeLock = Nothing /\ homeLock' = i
       \/ job[i] # NoJob /\ job[i].holds
    /\ Installed => Installed'

LEMMA OthersOK ==
    ASSUME UpgradeInv, NEW i \in Installers, Frame(i), NEW k \in Installers, k # i,
           job'[k] # NoJob
    PROVE  JobOK(k)'
<1>1. job'[k] = job[k] /\ JobOK(k)
  BY DEF Frame, UpgradeInv
<1>2. job[k].holds => homeLock' = k /\ ledger' = ledger
  <2>1. job[i] # NoJob /\ job[i].holds => homeLock = i
    BY DEF UpgradeInv, JobOK
  <2> QED BY <1>1, <2>1, PlatformConstants DEF Frame, JobOK
<1>3. ~job[k].holds => job[k].mode # "upgrade"
  BY <1>1 DEF JobOK, ShapeOK
<1>4. UpgradeOK(job[k], ledger')
  BY <1>1, <1>2, <1>3 DEF JobOK, UpgradeOK
<1>5. OnActive(job[k]) => Installed'
  BY <1>1 DEF JobOK, Frame
<1> QED BY <1>1, <1>2, <1>4, <1>5 DEF JobOK

\* What has to be shown of a step of installer i.
Upheld(i) == PlatformTypes' /\ Frame(i) /\ (job'[i] # NoJob => JobOK(i)')

LEMMA UpheldHolds ==
    ASSUME UpgradeInv, NEW i \in Installers, Upheld(i)
    PROVE  UpgradeInv'
BY OthersOK DEF Upheld, UpgradeInv

\* Where an upgrade may go with the ledgers as they are.
Advance(a, l) ==
    \/ a \in Staging /\ l \in Staging \cup {"rollback"}
    \/ a \in Copied /\ l \in Copied
    \/ a \in {"copy", "open", "commit"} /\ l = "rollback"
    \/ a = "publish" /\ l = "release"
    \/ l \in {"unlock", "bringback"}

LEMMA AdvanceOK ==
    ASSUME UpgradeInv, NEW i \in Installers, job[i] # NoJob, NEW l \in Places, MovesTo(i, l),
           job[i].mode = "upgrade" => Advance(job[i].at, l)
    PROVE  UpgradeOK(job'[i], ledger)
<1> SUFFICES ASSUME job[i].mode = "upgrade" PROVE UpgradeOK(job'[i], ledger)
  BY DEF UpgradeOK, MovesTo, SameWork
<1>1. UpgradeOK(job[i], ledger) /\ ShapeOK(job[i])
  BY DEF UpgradeInv, JobOK
<1>2. \A x : Marked(job'[i], x) <=> Marked(job[i], x)
  BY DEF MovesTo, SameWork, Marked
<1>3. \A x : CopyOf(job'[i], ledger, x) <=> CopyOf(job[i], ledger, x)
  BY <1>2 DEF MovesTo, SameWork, CopyOf
<1>4. CASE job[i].at \in Staging /\ l \in Staging \cup {"rollback"}
  BY <1>1, <1>2, <1>3, <1>4 DEF UpgradeOK, MovesTo, SameWork, Staging, Copied
<1>5. CASE job[i].at \in Copied /\ l \in Copied
  BY <1>1, <1>2, <1>3, <1>5 DEF UpgradeOK, MovesTo, SameWork, Staging, Copied
<1>6. CASE job[i].at \in {"copy", "open", "commit"} /\ l = "rollback"
  <2>1. ledger[job[i].old] \in Ledgers => Marked(job[i], ledger[job[i].old])
    <3>1. CASE job[i].old # job[i].for
      BY <1>1, <1>6, <3>1 DEF UpgradeOK, CopyOf, Copied
    <3>2. CASE job[i].old = job[i].for
      BY <1>1, <1>6, <3>2, PlatformConstants DEF UpgradeOK, Copied
    <3> QED BY <3>1, <3>2
  <2> QED BY <1>2, <1>6, <2>1 DEF UpgradeOK, MovesTo, SameWork, Staging, Copied
<1>7. CASE job[i].at = "publish" /\ l = "release"
  BY <1>1, <1>2, <1>3, <1>7 DEF UpgradeOK, MovesTo, SameWork, Staging, Copied
<1>8. CASE l \in {"unlock", "bringback"}
  BY <1>8 DEF UpgradeOK, MovesTo, SameWork, Staging, Copied
<1> QED BY <1>4, <1>5, <1>6, <1>7, <1>8 DEF Advance, UpgradeOK, MovesTo

\* The other files keep their types and the Home stays installed.
OthersTyped ==
    /\ installed' \in Actives \cup {Nothing} /\ (Installed => Installed')
    /\ attempts' \subseteq AttemptRow /\ applies' \in Nat /\ claimed' \in Nat

LEMMA SameTyped ==
    ASSUME PlatformTypes, UNCHANGED <<installed, attempts, applies, claimed>>
    PROVE  OthersTyped
BY DEF OthersTyped, PlatformTypes, Installed

\* A step that moves and writes to no ledger.
LEMMA MoveUpheld ==
    ASSUME UpgradeInv, NEW i \in Installers, job[i] # NoJob, NEW l \in Places, MovesTo(i, l),
           OthersTyped, UNCHANGED <<ledger, homeLock>>, l # "read",
           ShapeOK(job'[i]), OnActive(job'[i]) => Installed',
           job[i].mode = "upgrade" => Advance(job[i].at, l)
    PROVE  Upheld(i)
<1>1. PlatformTypes'
  BY DEF PlatformTypes, UpgradeInv, MovesTo, OthersTyped
<1>2. Frame(i)
  BY DEF Frame, MovesTo, OthersTyped
<1>3. UpgradeOK(job'[i], ledger')
  BY AdvanceOK
<1>4. JobOK(i)'
  BY <1>3 DEF JobOK, UpgradeInv, MovesTo, SameWork
<1> QED BY <1>1, <1>2, <1>4 DEF Upheld

-----------------------------------------------------------------------------
(* The steps of an installer that write to no ledger.                      *)

LEMMA AtPlace ==
    ASSUME UpgradeInv, NEW i \in Installers, NEW a, Reached(i, a), a # "idle"
    PROVE  /\ job[i] # NoJob /\ job[i] \in JobRow /\ job[i].at = a /\ a \in Places
           /\ ShapeOK(job[i]) /\ UpgradeOK(job[i], ledger) /\ PlatformTypes
<1>1. job[i] # NoJob /\ job[i] \in JobRow
  BY JobOrNot DEF UpgradeInv, Reached, NoJob
<1> QED BY <1>1 DEF UpgradeInv, JobOK, Reached, JobRow

\* Whether a job at place a may be at place l instead.
MayBeAt(j, l) ==
    /\ ~j.holds => l \in {"consent", "attempt", "lock", "unlock"}
    /\ j.mode = "existing" => l = "unlock"
    /\ j.mode = "upgrade" => l \notin {"attempt", "lock"} \cup Repairing
    /\ j.mode = "repair" => l \in {"consent", "prepare", "unlock"} \cup Repairing
    /\ l \in Upgrading => j.mode = "upgrade"
    /\ l \in Repairing => j.mode = "repair"
    /\ l \in Switched => l = "verify" \/ j.at \in Switched

LEMMA GoUpheld ==
    ASSUME UpgradeInv, NEW i \in Installers, job[i] # NoJob, NEW l \in Places, MovesTo(i, l),
           OthersTyped, UNCHANGED <<ledger, homeLock>>, l # "read", MayBeAt(job[i], l),
           l = "verify" => Installed',
           job[i].mode = "upgrade" => Advance(job[i].at, l)
    PROVE  Upheld(i)
<1>1. ShapeOK(job[i]) /\ job[i].at \in Places /\ (OnActive(job[i]) => Installed)
  BY JobOrNot DEF UpgradeInv, JobOK, JobRow
<1>2. ShapeOK(job'[i])
  BY <1>1 DEF ShapeOK, MayBeAt, MovesTo, SameWork
<1>3. OnActive(job'[i]) => Installed'
  BY <1>1 DEF OnActive, OthersTyped, MayBeAt, MovesTo, SameWork
<1> QED BY <1>2, <1>3, MoveUpheld

LEMMA RecordConsentUpheld ==
    ASSUME UpgradeInv, NEW i \in Installers, RecordConsent(i)
    PROVE  Upheld(i)
<1> DEFINE c == IF job[i].consent = Nothing THEN job[i].op ELSE job[i].consent
           l == IF FirstTime(i) THEN "attempt" ELSE IF Upgrade(i) THEN "stop" ELSE "prepare"
           r == [job[i] EXCEPT !.consent = c, !.at = l]
<1>1. /\ job[i] # NoJob /\ job[i] \in JobRow /\ job[i].at = "consent" /\ ShapeOK(job[i])
      /\ PlatformTypes
  BY AtPlace DEF RecordConsent, Reached
<1>2. c \in Nat \cup {Nothing} /\ l \in Places /\ l \notin {"read", "verify"}
  BY <1>1 DEF JobRow, Places, Upgrading, Staging
<1>3. job' = [job EXCEPT ![i] = r]
  BY DEF RecordConsent
<1>4. OthersTyped /\ UNCHANGED <<ledger, homeLock>>
  BY <1>1, SameTyped DEF RecordConsent, counters
<1>5. MayBeAt(job[i], l)
  BY <1>1 DEF MayBeAt, Switched, ShapeOK, FirstTime, Upgrade, Upgrading, Repairing
<1>6. job[i].mode = "upgrade" => Advance(job[i].at, l)
  BY <1>1 DEF Advance, Staging, FirstTime, Upgrade
<1> HIDE DEF c, l
<1>7. r \in JobRow /\ r.at = l /\ SameWork(job[i], r)
  BY <1>1, <1>2 DEF JobRow, SameWork
<1> HIDE DEF r
<1>8. MovesTo(i, l)
  BY <1>1, <1>3, <1>7, UpdateMoves
<1> QED BY <1>1, <1>2, <1>4, <1>5, <1>6, <1>8, GoUpheld

LEMMA RecordFirstAttemptUpheld ==
    ASSUME UpgradeInv, NEW i \in Installers, RecordFirstAttempt(i)
    PROVE  Upheld(i)
<1> DEFINE kept == IF job[i].mode = "recover" THEN attempts ELSE {}
           new == [id |-> job[i].op, for |-> job[i].for, consent |-> job[i].consent]
           l == IF job[i].mode = "fresh" THEN "lock" ELSE "prepare"
           a == IF kept = {} THEN new.id ELSE (CHOOSE x \in kept : TRUE).id
           r == [job[i] EXCEPT !.at = l, !.attempt = a]
<1>1. /\ job[i] # NoJob /\ job[i] \in JobRow /\ job[i].at = "attempt" /\ ShapeOK(job[i])
      /\ PlatformTypes
  BY AtPlace DEF RecordFirstAttempt, Reached
<1>2. new \in AttemptRow /\ new.id \in Nat
  BY <1>1 DEF JobRow, AttemptRow
<1>3. kept \subseteq AttemptRow
  BY <1>1 DEF PlatformTypes
<1>4. a \in Nat
  <2>1. CASE kept = {}
    BY <1>2, <2>1
  <2>2. CASE kept # {}
    <3>1. (CHOOSE x \in kept : TRUE) \in AttemptRow
      BY <1>3, <2>2
    <3> QED BY <2>2, <3>1 DEF AttemptRow
  <2> QED BY <2>1, <2>2
<1>5. l \in Places /\ l \notin {"read", "verify"}
  BY DEF Places, Staging
<1>6. job' = [job EXCEPT ![i] = r]
  BY DEF RecordFirstAttempt
<1>7. OthersTyped /\ UNCHANGED <<ledger, homeLock>>
  BY <1>1, <1>2 DEF RecordFirstAttempt, OthersTyped, PlatformTypes, counters, Installed
<1>8. MayBeAt(job[i], l) /\ job[i].mode # "upgrade"
  BY <1>1 DEF MayBeAt, Switched, ShapeOK, Upgrading, Repairing
<1> HIDE DEF a, l
<1>9. r \in JobRow /\ r.at = l /\ SameWork(job[i], r)
  BY <1>1, <1>4, <1>5 DEF JobRow, SameWork
<1> HIDE DEF r
<1>10. MovesTo(i, l)
  BY <1>1, <1>6, <1>9, UpdateMoves
<1> QED BY <1>1, <1>5, <1>7, <1>8, <1>10, GoUpheld

LEMMA StopOldUpheld ==
    ASSUME UpgradeInv, NEW i \in Installers, StopOld(i)
    PROVE  Upheld(i)
<1>1. /\ job[i] # NoJob /\ job[i] \in JobRow /\ job[i].at = "stop" /\ ShapeOK(job[i])
      /\ PlatformTypes
  BY AtPlace DEF StopOld, Reached
<1>2. OthersTyped /\ UNCHANGED <<ledger, homeLock>>
  BY <1>1, SameTyped DEF StopOld, homeFiles, counters
<1>3. job[i].mode = "upgrade"
  BY <1>1 DEF ShapeOK, Upgrading
<1>4. ASSUME NEW l \in {"prepare", "rollback"}, MovesTo(i, l)
      PROVE  Upheld(i)
  <2>1. l \in Places /\ l # "read" /\ MayBeAt(job[i], l)
    BY <1>1, <1>3 DEF Places, Staging, Upgrading, Repairing, MayBeAt, Switched, ShapeOK
  <2>2. Advance(job[i].at, l)
    BY <1>1 DEF Advance, Staging
  <2> QED BY <1>1, <1>2, <1>4, <2>1, <2>2, GoUpheld
<1>5. ASSUME Goto(i, "prepare") \/ Goto(i, "rollback")
      PROVE  Upheld(i)
  BY <1>1, <1>4, <1>5, GotoMoves DEF Places, Staging, Upgrading
<1>6. ASSUME job' = [job EXCEPT ![i].at = "prepare", ![i].stopped = TRUE]
      PROVE  Upheld(i)
  <2> DEFINE r == [job[i] EXCEPT !.at = "prepare", !.stopped = TRUE]
  <2>1. r \in JobRow /\ r.at = "prepare" /\ SameWork(job[i], r)
    BY <1>1 DEF JobRow, SameWork, Places, Staging
  <2>2. job' = [job EXCEPT ![i] = r]
    BY <1>6
  <2> HIDE DEF r
  <2> QED BY <1>1, <1>4, <2>1, <2>2, UpdateMoves
<1> QED BY <1>5, <1>6 DEF StopOld

LEMMA GotoUpheld ==
    ASSUME UpgradeInv, NEW i \in Installers, job[i] # NoJob, NEW l \in Places, Goto(i, l),
           l = "verify" => Installed',
           OthersTyped, UNCHANGED <<ledger, homeLock>>, l # "read", MayBeAt(job[i], l),
           job[i].mode = "upgrade" => Advance(job[i].at, l)
    PROVE  Upheld(i)
BY GotoMoves, GoUpheld DEF UpgradeInv

\* Every job may give up where it is, and an upgrade may have to roll back.
LEMMA GiveUpUpheld ==
    ASSUME UpgradeInv, NEW i \in Installers, job[i] # NoJob, Goto(i, "unlock"),
           OthersTyped, UNCHANGED <<ledger, homeLock>>
    PROVE  Upheld(i)
<1>1. "unlock" \in Places /\ MayBeAt(job[i], "unlock") /\ Advance(job[i].at, "unlock")
  BY DEF Places, MayBeAt, Switched, Advance, Upgrading, Repairing
<1> QED BY <1>1, GotoUpheld

LEMMA PrepareUpheld ==
    ASSUME UpgradeInv, NEW i \in Installers, Prepare(i)
    PROVE  Upheld(i)
<1> DEFINE l == CASE job[i].mode = "repair" -> "reverify"
                  [] Upgrade(i) -> "record" [] OTHER -> "stage"
<1>1. /\ job[i] # NoJob /\ job[i] \in JobRow /\ job[i].at = "prepare" /\ ShapeOK(job[i])
      /\ PlatformTypes
  BY AtPlace DEF Prepare, Reached
<1>2. OthersTyped /\ UNCHANGED <<ledger, homeLock>>
  BY <1>1, SameTyped DEF Prepare, counters
<1>3. /\ job[i].mode = "repair" => l = "reverify"
      /\ job[i].mode = "upgrade" => l = "record"
      /\ job[i].mode \notin {"repair", "upgrade"} => l = "stage"
  BY DEF Upgrade
<1>4. Goto(i, l)
  BY DEF Prepare
<1> HIDE DEF l
<1>5. l \in Places /\ l \notin {"read", "verify"}
  BY <1>3 DEF Places, Staging, Upgrading, Repairing
<1>6. MayBeAt(job[i], l)
  BY <1>1, <1>3 DEF MayBeAt, Switched, ShapeOK, Upgrading, Repairing
<1>7. job[i].mode = "upgrade" => Advance(job[i].at, l)
  BY <1>1, <1>3 DEF Advance, Staging
<1> QED BY <1>1, <1>2, <1>4, <1>5, <1>6, <1>7, GotoUpheld

LEMMA RecordAttemptUpheld ==
    ASSUME UpgradeInv, NEW i \in Installers, RecordAttempt(i)
    PROVE  Upheld(i)
<1> DEFINE r == [job[i] EXCEPT !.attempt = job[i].op, !.at = "stage"]
<1>1. /\ job[i] # NoJob /\ job[i] \in JobRow /\ job[i].at = "record" /\ ShapeOK(job[i])
      /\ PlatformTypes
  BY AtPlace DEF RecordAttempt, Reached
<1>2. OthersTyped /\ UNCHANGED <<ledger, homeLock>>
  BY <1>1 DEF RecordAttempt, OthersTyped, PlatformTypes, counters, Installed, JobRow, AttemptRow
<1>3. "stage" \in Places
  BY DEF Places, Staging
<1>4. MayBeAt(job[i], "stage") /\ Advance(job[i].at, "stage")
  BY <1>1 DEF MayBeAt, Switched, ShapeOK, Advance, Upgrading, Repairing, Staging
<1>5. r \in JobRow /\ r.at = "stage" /\ SameWork(job[i], r)
  BY <1>1, <1>3 DEF JobRow, SameWork
<1>6. job' = [job EXCEPT ![i] = r]
  BY DEF RecordAttempt
<1> HIDE DEF r
<1>7. MovesTo(i, "stage")
  BY <1>1, <1>5, <1>6, UpdateMoves
<1> QED BY <1>1, <1>2, <1>3, <1>4, <1>7, GoUpheld

LEMMA CommitActivationUpheld ==
    ASSUME UpgradeInv, NEW i \in Installers, CommitActivation(i)
    PROVE  Upheld(i)
<1>1. /\ job[i] # NoJob /\ job[i] \in JobRow /\ job[i].at = "commit" /\ ShapeOK(job[i])
      /\ PlatformTypes
  BY AtPlace DEF CommitActivation, Reached
<1>2. installed' \in Actives
  BY <1>1 DEF CommitActivation, JobRow, Actives
<1>3. OthersTyped /\ UNCHANGED <<ledger, homeLock>>
  BY <1>1, <1>2, PlatformConstants
     DEF CommitActivation, OthersTyped, PlatformTypes, counters, Installed
<1>4. "verify" \in Places /\ MayBeAt(job[i], "verify") /\ Advance(job[i].at, "verify")
  BY <1>1 DEF Places, MayBeAt, Switched, ShapeOK, Advance, Upgrading, Repairing, Copied
<1>5. Installed'
  BY <1>2, PlatformConstants DEF Installed
<1> QED BY <1>1, <1>3, <1>4, <1>5, GotoUpheld DEF CommitActivation

LEMMA VerifyUpheld ==
    ASSUME UpgradeInv, NEW i \in Installers, VerifyGeneration(i) \/ VerifyRepair(i)
    PROVE  Upheld(i)
<1>1. /\ job[i] # NoJob /\ job[i].at \in {"verify", "reverify"} /\ ShapeOK(job[i])
      /\ PlatformTypes
  BY AtPlace DEF VerifyGeneration, VerifyRepair, Reached
<1>2. OthersTyped /\ UNCHANGED <<ledger, homeLock>>
  BY <1>1, SameTyped DEF VerifyGeneration, VerifyRepair, homeFiles, counters
<1>3. CASE Goto(i, "unlock")
  BY <1>1, <1>2, <1>3, GiveUpUpheld
<1>4. CASE job[i].at = "verify" /\ Goto(i, "start")
  <2>1. "start" \in Places /\ MayBeAt(job[i], "start") /\ Advance(job[i].at, "start")
    BY <1>1, <1>4 DEF Places, MayBeAt, Switched, ShapeOK, Advance, Upgrading, Repairing, Copied
  <2> QED BY <1>1, <1>2, <1>4, <2>1, GotoUpheld
<1>5. CASE job[i].at = "reverify" /\ Goto(i, "restart")
  <2>1. "restart" \in Places /\ MayBeAt(job[i], "restart") /\ job[i].mode = "repair"
    BY <1>1, <1>5 DEF Places, MayBeAt, Switched, ShapeOK, Upgrading, Repairing
  <2> QED BY <1>1, <1>2, <1>5, <2>1, GotoUpheld
<1> QED BY <1>3, <1>4, <1>5 DEF VerifyGeneration, VerifyRepair, Reached

LEMMA StartUpheld ==
    ASSUME UpgradeInv, NEW i \in Installers, StartActive(i) \/ AwaitReady(i)
    PROVE  Upheld(i)
<1>1. job[i].at \in {"start", "restart", "ready", "reready"}
  BY DEF StartActive, AwaitReady
<1>2. job[i] # NoJob /\ ShapeOK(job[i]) /\ PlatformTypes
  BY <1>1, AtPlace DEF Reached
<1>3. OthersTyped /\ UNCHANGED <<ledger, homeLock>>
  BY <1>2, SameTyped DEF StartActive, AwaitReady, homeFiles, counters
<1>4. CASE Goto(i, "unlock")
  BY <1>2, <1>3, <1>4, GiveUpUpheld
<1>5. ASSUME NEW l \in {"ready", "clear"}, job[i].at \in {"start", "ready"}, Goto(i, l)
      PROVE  Upheld(i)
  <2>1. l \in Places /\ MayBeAt(job[i], l) /\ Advance(job[i].at, l) /\ l # "read"
    BY <1>2, <1>5 DEF Places, MayBeAt, Switched, ShapeOK, Advance, Upgrading, Repairing, Copied
  <2> QED BY <1>2, <1>3, <1>5, <2>1, GotoUpheld
<1>6. ASSUME NEW l \in {"reready", "reclear"}, job[i].at \in {"restart", "reready"}, Goto(i, l)
      PROVE  Upheld(i)
  <2>1. l \in Places /\ MayBeAt(job[i], l) /\ job[i].mode = "repair" /\ l # "read"
    BY <1>2, <1>6 DEF Places, MayBeAt, Switched, ShapeOK, Upgrading, Repairing
  <2> QED BY <1>2, <1>3, <1>6, <2>1, GotoUpheld
<1>7. CASE StartActive(i)
  BY <1>4, <1>5, <1>6, <1>7 DEF StartActive, Reached
<1>8. CASE AwaitReady(i)
  BY <1>4, <1>5, <1>6, <1>8 DEF AwaitReady, Reached
<1> QED BY <1>7, <1>8

LEMMA PublishReadyUpheld ==
    ASSUME UpgradeInv, NEW i \in Installers, PublishReady(i)
    PROVE  Upheld(i)
<1>1. job[i].at \in {"publish", "republish"}
  BY DEF PublishReady
<1>2. job[i] # NoJob /\ ShapeOK(job[i]) /\ PlatformTypes /\ Installed
  <2>1. job[i] # NoJob /\ ShapeOK(job[i]) /\ PlatformTypes
    BY <1>1, AtPlace DEF Reached
  <2>2. OnActive(job[i])
    BY <1>1, <2>1 DEF OnActive, Switched, ShapeOK, Repairing
  <2> QED BY <2>1, <2>2 DEF UpgradeInv, JobOK
<1>3. installed' \in Actives
  BY <1>2 DEF PublishReady, PlatformTypes, Installed, Actives
<1>4. OthersTyped /\ UNCHANGED <<ledger, homeLock>>
  BY <1>2, <1>3, PlatformConstants
     DEF PublishReady, OthersTyped, PlatformTypes, counters, Installed
<1>5. CASE Goto(i, "unlock")
  BY <1>2, <1>4, <1>5, GiveUpUpheld
<1>6. CASE Upgrade(i) /\ Goto(i, "release")
  <2>1. "release" \in Places /\ MayBeAt(job[i], "release") /\ job[i].at = "publish"
    BY <1>1, <1>2, <1>6 DEF Places, MayBeAt, Switched, ShapeOK, Upgrading, Repairing, Upgrade
  <2>2. Advance(job[i].at, "release")
    BY <2>1 DEF Advance
  <2> QED BY <1>2, <1>4, <1>6, <2>1, <2>2, GotoUpheld
<1> QED BY <1>5, <1>6 DEF PublishReady

LEMMA BringBackUpheld ==
    ASSUME UpgradeInv, NEW i \in Installers, BringBack(i)
    PROVE  Upheld(i)
<1>1. job[i] # NoJob /\ PlatformTypes
  BY AtPlace DEF BringBack, Reached
<1>2. OthersTyped /\ UNCHANGED <<ledger, homeLock>>
  BY <1>1, SameTyped DEF BringBack, homeFiles, counters
<1> QED BY <1>1, <1>2, GiveUpUpheld DEF BringBack

LEMMA WriteFailsUpheld ==
    ASSUME UpgradeInv, NEW i \in Installers, WriteFails(i)
    PROVE  Upheld(i)
<1>1. job[i].at \in {"consent", "attempt", "record", "publish", "republish"}
  BY DEF WriteFails
<1>2. job[i] # NoJob /\ ShapeOK(job[i]) /\ PlatformTypes
  BY <1>1, AtPlace DEF Reached
<1>3. OthersTyped /\ UNCHANGED <<ledger, homeLock>>
  BY <1>2, SameTyped DEF WriteFails, homeFiles, Fails
<1>4. CASE Goto(i, "unlock")
  BY <1>2, <1>3, <1>4, GiveUpUpheld
<1>5. CASE Upgrade(i) /\ ~Reached(i, "publish") /\ Goto(i, "rollback")
  <2>1. job[i].at \in Staging
    BY <1>1, <1>2, <1>5 DEF ShapeOK, Upgrade, Reached, Staging, Repairing
  <2>2. "rollback" \in Places /\ MayBeAt(job[i], "rollback") /\ Advance(job[i].at, "rollback")
    BY <1>2, <1>5, <2>1 DEF Places, MayBeAt, Switched, ShapeOK, Advance, Upgrading, Repairing, Upgrade
  <2> QED BY <1>2, <1>3, <1>5, <2>2, GotoUpheld
<1> QED BY <1>4, <1>5 DEF WriteFails, Leave

-----------------------------------------------------------------------------
(* How a job begins and ends.                                              *)

LedgerTyped == ledger' \in [Bundles -> Ledgers \cup {Nothing, Torn}]
HoldsLock(i) == job[i] # NoJob /\ job[i].holds

LEMMA RowUpheld ==
    ASSUME UpgradeInv, NEW i \in Installers, NEW r \in JobRow, job' = [job EXCEPT ![i] = r],
           OthersTyped, LedgerTyped, ledger' = ledger \/ HoldsLock(i),
           \/ homeLock' = homeLock
           \/ homeLock = Nothing /\ homeLock' = i
           \/ HoldsLock(i),
           r.holds => homeLock' = i, OnActive(r) => Installed',
           ShapeOK(r), UpgradeOK(r, ledger')
    PROVE  Upheld(i)
<1>1. job' \in [Installers -> JobRow \cup {NoJob}] /\ job'[i] = r
      /\ \A k \in Installers : k # i => job'[k] = job[k]
  BY DEF UpgradeInv, PlatformTypes
<1>2. PlatformTypes'
  BY <1>1 DEF PlatformTypes, OthersTyped, LedgerTyped
<1>3. Frame(i)
  BY <1>1 DEF Frame, OthersTyped, HoldsLock
<1>4. JobOK(i)'
  BY <1>1 DEF JobOK
<1> QED BY <1>2, <1>3, <1>4 DEF Upheld

LEMMA LedgerSame == ASSUME PlatformTypes, UNCHANGED ledger PROVE LedgerTyped
BY DEF PlatformTypes, LedgerTyped

LEMMA HolderHasLock ==
    ASSUME UpgradeInv, NEW i \in Installers, HoldsLock(i)
    PROVE  homeLock = i
BY DEF UpgradeInv, JobOK, HoldsLock

LEMMA ApplyFirstUpheld ==
    ASSUME UpgradeInv, NEW i \in Installers, NEW b \in Bundles, ApplyFirst(i, b)
    PROVE  Upheld(i)
<1> DEFINE r == [at |-> "consent", op |-> applies + 1, for |-> b, mode |-> "fresh",
                 old |-> Nothing, consent |-> Nothing, attempt |-> 0,
                 stopped |-> FALSE, backup |-> Nothing, holds |-> FALSE]
<1>1. PlatformTypes
  BY DEF UpgradeInv
<1>2. r \in JobRow
  BY <1>1 DEF PlatformTypes, JobRow, Places, Staging
<1>3. job' = [job EXCEPT ![i] = r] /\ applies' \in Nat
  <2>1. ("consent" = "read") = FALSE
    OBVIOUS
  <2>2. job' = [job EXCEPT ![i] = r]
    BY <2>1, Zenon DEF ApplyFirst, NewJob
  <2>3. applies' \in Nat
    BY <1>1 DEF ApplyFirst, NewJob, PlatformTypes
  <2> QED BY <2>2, <2>3, Zenon
<1>4. OthersTyped /\ UNCHANGED <<ledger, homeLock>>
  BY <1>1, <1>3 DEF ApplyFirst, OthersTyped, PlatformTypes, homeFiles, Installed
<1>5. ShapeOK(r) /\ ~OnActive(r) /\ UpgradeOK(r, ledger') /\ ~r.holds
  BY <1>1 DEF ShapeOK, OnActive, UpgradeOK, Switched, Upgrading, Repairing, PlatformTypes
<1> HIDE DEF r
<1> QED BY <1>1, <1>2, <1>3, <1>4, <1>5, LedgerSame, RowUpheld

LEMMA ApplyLockedUpheld ==
    ASSUME UpgradeInv, NEW i \in Installers, NEW b \in Bundles, NEW c \in Ops \cup {Nothing},
           ApplyLocked(i, b, c)
    PROVE  Upheld(i)
<1>1. PlatformTypes /\ c \in Nat \cup {Nothing}
  BY PlatformConstants DEF UpgradeInv, Ops
<1>2. PICK m \in {"existing", "recover"} : /\ NewJob(i, b, c, m, "read")
                                           /\ m = "existing" => Installed
  BY DEF ApplyLocked, GenerationBased
<1> DEFINE r == [at |-> "read", op |-> applies + 1, for |-> b, mode |-> m,
                 old |-> Nothing, consent |-> c, attempt |-> 0,
                 stopped |-> FALSE, backup |-> Nothing, holds |-> TRUE]
<1>3. r \in JobRow
  BY <1>1 DEF PlatformTypes, JobRow, Places
<1>4. job' = [job EXCEPT ![i] = r] /\ applies' \in Nat
  <2>1. ("read" = "read") = TRUE
    OBVIOUS
  <2>2. job' = [job EXCEPT ![i] = r]
    BY <1>2, <2>1, Zenon DEF NewJob
  <2>3. applies' \in Nat
    BY <1>1, <1>2 DEF NewJob, PlatformTypes
  <2> QED BY <2>2, <2>3, Zenon
<1>5. OthersTyped /\ ledger' = ledger
  BY <1>1, <1>4 DEF ApplyLocked, OthersTyped, PlatformTypes, homeFiles, Installed
<1>6. homeLock = Nothing /\ homeLock' = i
  BY DEF ApplyLocked
<1>7. ShapeOK(r) /\ UpgradeOK(r, ledger')
  BY <1>1 DEF ShapeOK, UpgradeOK, Upgrading, Repairing, PlatformTypes
<1>8. OnActive(r) => Installed'
  BY <1>2, <1>5 DEF OnActive, Switched, OthersTyped
<1> HIDE DEF r
<1> QED BY <1>1, <1>3, <1>4, <1>5, <1>6, <1>7, <1>8, LedgerSame, RowUpheld

LEMMA LockHomeUpheld ==
    ASSUME UpgradeInv, NEW i \in Installers, LockHome(i)
    PROVE  Upheld(i)
<1>1. /\ job[i] # NoJob /\ job[i] \in JobRow /\ job[i].at = "lock" /\ ShapeOK(job[i])
      /\ PlatformTypes
  BY AtPlace DEF LockHome, Reached
<1>2. OthersTyped /\ ledger' = ledger
  BY <1>1, SameTyped DEF LockHome, homeFiles, counters
<1>3. CASE Goto(i, "unlock") /\ UNCHANGED homeLock
  BY <1>1, <1>2, <1>3, GiveUpUpheld
<1>4. CASE /\ homeLock = Nothing /\ homeLock' = i
           /\ job' = [job EXCEPT ![i].at = "prepare", ![i].holds = TRUE]
  <2> DEFINE r == [job[i] EXCEPT !.at = "prepare", !.holds = TRUE]
  <2>1. /\ r \in JobRow /\ r.at = "prepare" /\ r.holds
        /\ r.op = job[i].op /\ r.mode = job[i].mode
    BY <1>1 DEF JobRow, Places, Staging
  <2>2. job' = [job EXCEPT ![i] = r]
    BY <1>4
  <2> HIDE DEF r
  <2>3. job[i].mode \in {"fresh", "recover"}
    BY <1>1 DEF ShapeOK, JobRow, Repairing
  <2>4. ShapeOK(r) /\ ~OnActive(r) /\ UpgradeOK(r, ledger')
    BY <1>1, <2>1, <2>3 DEF ShapeOK, OnActive, UpgradeOK, Switched, Upgrading, Repairing
  <2> QED BY <1>1, <1>2, <1>4, <2>1, <2>2, <2>4, LedgerSame, RowUpheld
<1> QED BY <1>3, <1>4 DEF LockHome

LEMMA EndUpheld ==
    ASSUME UpgradeInv, NEW i \in Installers, Unlock(i) \/ InstallerDies(i)
    PROVE  Upheld(i)
<1>1. PlatformTypes /\ job[i] # NoJob
  BY AtPlace DEF Unlock, InstallerDies, UpgradeInv, Reached
<1>2. job' = [job EXCEPT ![i] = NoJob]
  BY DEF Unlock, InstallerDies
<1>3. OthersTyped
  BY <1>1, SameTyped DEF Unlock, InstallerDies, homeFiles, counters
<1>4. ledger' = ledger /\ (job[i].holds \/ homeLock' = homeLock)
  BY DEF Unlock, InstallerDies, homeFiles
<1>5. PlatformTypes' /\ job'[i] = NoJob /\ \A k \in Installers : k # i => job'[k] = job[k]
  BY <1>1, <1>2, <1>3, <1>4 DEF PlatformTypes, OthersTyped
<1>6. Frame(i)
  BY <1>1, <1>3, <1>4, <1>5 DEF Frame, OthersTyped
<1> QED BY <1>5, <1>6 DEF Upheld

-----------------------------------------------------------------------------
(* The steps of an installer that write to a ledger.                       *)

\* Such a step moves as the others do, and holds the lock.
LEMMA WriteUpheld ==
    ASSUME UpgradeInv, NEW i \in Installers, job[i].holds, job[i] # NoJob,
           NEW l \in Places, Goto(i, l), OthersTyped, LedgerTyped, UNCHANGED homeLock,
           l \notin {"read", "verify"}, MayBeAt(job[i], l),
           job[i].mode = "upgrade" => UpgradeOK([job[i] EXCEPT !.at = l], ledger')
    PROVE  Upheld(i)
<1> DEFINE r == [job[i] EXCEPT !.at = l]
<1>1. /\ job[i] \in JobRow /\ ShapeOK(job[i]) /\ (OnActive(job[i]) => Installed)
      /\ homeLock = i /\ PlatformTypes
  BY JobOrNot DEF UpgradeInv, JobOK
<1>2. r \in JobRow /\ r.at = l /\ SameWork(job[i], r)
  BY <1>1 DEF JobRow, SameWork
<1>3. job' = [job EXCEPT ![i] = r]
  BY DEF Goto
<1>4. UpgradeOK(r, ledger')
  BY <1>2 DEF UpgradeOK, SameWork
<1> HIDE DEF r
<1>5. ShapeOK(r)
  BY <1>1, <1>2 DEF ShapeOK, MayBeAt, SameWork
<1>6. OnActive(r) => Installed'
  BY <1>1, <1>2 DEF OnActive, OthersTyped, MayBeAt, SameWork
<1>7. HoldsLock(i)
  BY DEF HoldsLock
<1> QED BY <1>1, <1>2, <1>3, <1>4, <1>5, <1>6, <1>7, RowUpheld

LEMMA ReadInstalledUpheld ==
    ASSUME UpgradeInv, NEW i \in Installers, ReadInstalled(i)
    PROVE  Upheld(i)
<1>1. /\ job[i] # NoJob /\ job[i] \in JobRow /\ job[i].at = "read" /\ ShapeOK(job[i])
      /\ PlatformTypes
  BY AtPlace DEF ReadInstalled, Reached
<1>2. OthersTyped /\ homeLock' = homeLock
  BY <1>1, SameTyped DEF ReadInstalled, counters
<1>3. job[i].mode \in {"existing", "recover"} /\ job[i].holds /\ homeLock = i
  BY <1>1 DEF ShapeOK, JobRow, Repairing, UpgradeInv, JobOK
<1>4. HoldsLock(i)
  BY <1>1, <1>3 DEF HoldsLock
<1>5. CASE ~Installed
  <2>1. Goto(i, "consent") /\ UNCHANGED ledger
    BY <1>5 DEF ReadInstalled
  <2>2. job[i].mode = "recover"
    BY <1>1, <1>3, <1>5 DEF UpgradeInv, JobOK, OnActive
  <2>3. "consent" \in Places /\ MayBeAt(job[i], "consent")
    BY <1>3, <2>2 DEF Places, Staging, MayBeAt, Switched, Upgrading, Repairing
  <2> QED BY <1>1, <1>2, <2>1, <2>2, <2>3, GotoUpheld
<1>6. CASE /\ Installed /\ UNCHANGED ledger
           /\ job' = [job EXCEPT ![i].mode = "repair", ![i].at = "consent"]
  <2> DEFINE r == [job[i] EXCEPT !.mode = "repair", !.at = "consent"]
  <2>1. /\ r \in JobRow /\ r.at = "consent" /\ r.mode = "repair" /\ r.holds
        /\ r.op = job[i].op
    BY <1>1, <1>3 DEF JobRow, Places, Staging
  <2>2. job' = [job EXCEPT ![i] = r]
    BY <1>6
  <2> HIDE DEF r
  <2>3. ShapeOK(r) /\ UpgradeOK(r, ledger') /\ Installed'
    BY <1>1, <1>2, <1>6, <2>1 DEF ShapeOK, UpgradeOK, Upgrading, Repairing, OthersTyped
  <2> QED BY <1>1, <1>2, <1>3, <1>4, <1>6, <2>1, <2>2, <2>3, LedgerSame, RowUpheld
<1>7. CASE Installed /\ FenceOrLeave(i, installed.gen)
  <2> DEFINE g == installed.gen
             f == [op |-> job[i].op, for |-> job[i].for]
             x == [ledger[g] EXCEPT !.strays = {}, !.fence = f]
             r == [job[i] EXCEPT !.mode = "upgrade", !.old = g, !.at = "consent"]
  <2>1. g \in Bundles
    BY <1>1, <1>7 DEF PlatformTypes, Installed, Actives
  <2>2. CASE Goto(i, "unlock") /\ UNCHANGED ledger
    BY <1>1, <1>2, <2>2, GiveUpUpheld
  <2>3. CASE /\ Fenceable(g) /\ ledger' = [ledger EXCEPT ![g].strays = {}, ![g].fence = f]
             /\ job' = [job EXCEPT ![i].mode = "upgrade", ![i].old = g, ![i].at = "consent"]
    <3>1. /\ r \in JobRow /\ r.at = "consent" /\ r.mode = "upgrade" /\ r.holds
          /\ r.op = job[i].op /\ r.for = job[i].for /\ r.old = g
      BY <1>1, <1>3, <2>1 DEF JobRow, Places, Staging
    <3>2. job' = [job EXCEPT ![i] = r]
      BY <2>3
    <3>3. ledger[g] \in Ledgers /\ ledger[g].live = {}
      BY <1>1, <2>1, <2>3, IntactIsLedger DEF Fenceable
    <3>4. x \in Ledgers /\ x.live = {} /\ x.fence = f
      BY <1>1, <3>3 DEF Ledgers, JobRow
    <3>5. ledger' = [ledger EXCEPT ![g] = x]
      BY <2>3
    <3> HIDE DEF x, r, g
    <3>6. LedgerTyped /\ ledger'[g] = x
      BY <1>1, <2>1, <3>4, <3>5 DEF LedgerTyped, PlatformTypes
    <3>7. Marked(r, ledger'[g])
      BY <3>1, <3>4, <3>6 DEF Marked
    <3>8. UpgradeOK(r, ledger')
      BY <3>1, <3>7 DEF UpgradeOK, Staging, Copied
    <3>9. ShapeOK(r) /\ Installed'
      BY <1>1, <1>2, <1>7, <2>1, <3>1 DEF ShapeOK, Upgrading, Repairing, OthersTyped
    <3> QED BY <1>1, <1>2, <1>3, <1>4, <3>1, <3>2, <3>6, <3>8, <3>9, RowUpheld
  <2> QED BY <1>7, <2>2, <2>3 DEF FenceOrLeave
<1> QED BY <1>5, <1>6, <1>7 DEF ReadInstalled

LEMMA DiscardUpheld ==
    ASSUME UpgradeInv, NEW i \in Installers, job[i] # NoJob, job[i].holds, FirstTime(i),
           DiscardStaged(i), Goto(i, "unlock"), UNCHANGED <<homeLock, applies, claimed>>
    PROVE  Upheld(i)
<1>1. PlatformTypes /\ job[i] \in JobRow
  BY JobOrNot DEF UpgradeInv
<1>2. OthersTyped
  BY <1>1, SameTyped DEF DiscardStaged
<1>3. ledger' = [ledger EXCEPT ![job[i].for] = Nothing]
  BY DEF DiscardStaged
<1>4. LedgerTyped
  BY <1>1, <1>3 DEF LedgerTyped, PlatformTypes
<1>5. job[i].mode # "upgrade"
  BY DEF FirstTime
<1>6. "unlock" \in Places /\ MayBeAt(job[i], "unlock")
  BY DEF Places, MayBeAt, Switched, Upgrading, Repairing
<1> QED BY <1>1, <1>2, <1>4, <1>5, <1>6, WriteUpheld

LEMMA StepFailsUpheld ==
    ASSUME UpgradeInv, NEW i \in Installers, StepFails(i)
    PROVE  Upheld(i)
<1>1. job[i].at \in {"prepare", "backup", "copy", "open", "commit"}
  BY DEF StepFails
<1>2. job[i] # NoJob /\ ShapeOK(job[i]) /\ PlatformTypes
  BY <1>1, AtPlace DEF Reached
<1>3. job[i].holds /\ UNCHANGED <<homeLock, applies, claimed>>
  BY <1>1, <1>2 DEF StepFails, ShapeOK, Fails
<1>4. CASE FirstTime(i)
  BY <1>2, <1>3, <1>4, DiscardUpheld DEF StepFails, Leave, Upgrade, FirstTime
<1>5. CASE ~FirstTime(i)
  <2>1. UNCHANGED homeFiles
    BY <1>5 DEF StepFails
  <2>2. OthersTyped /\ UNCHANGED <<ledger, homeLock>>
    BY <1>2, <1>3, <2>1, SameTyped DEF homeFiles
  <2>3. CASE ~Upgrade(i)
    BY <1>2, <2>2, <2>3, GiveUpUpheld DEF StepFails, Leave
  <2>4. CASE Upgrade(i)
    <3>1. "rollback" \in Places /\ MayBeAt(job[i], "rollback") /\ Advance(job[i].at, "rollback")
      BY <1>1, <1>3, <2>4
         DEF Places, MayBeAt, Switched, Advance, Upgrading, Repairing, Upgrade, Staging
    <3> QED BY <1>2, <2>2, <2>4, <3>1, GotoUpheld DEF StepFails, Leave
  <2> QED BY <2>3, <2>4
<1> QED BY <1>4, <1>5

LEMMA StageGenerationUpheld ==
    ASSUME UpgradeInv, NEW i \in Installers, StageGeneration(i)
    PROVE  Upheld(i)
<1>1. /\ job[i] # NoJob /\ job[i] \in JobRow /\ job[i].at = "stage" /\ ShapeOK(job[i])
      /\ PlatformTypes
  BY AtPlace DEF StageGeneration, Reached
<1>2. job[i].holds /\ homeLock' = homeLock
  BY <1>1 DEF StageGeneration, ShapeOK
<1> DEFINE l == IF Upgrade(i) THEN "backup" ELSE "open"
<1>3. CASE Goto(i, l) /\ OthersTyped /\ ledger' = ledger
  <2>1. l \in Places /\ l \notin {"read", "verify"}
    BY DEF Places, Staging, Copied
  <2>2. MayBeAt(job[i], l) /\ (job[i].mode = "upgrade" => Advance(job[i].at, l))
    BY <1>1, <1>2 DEF MayBeAt, Switched, ShapeOK, Advance, Staging, Upgrading, Repairing, Upgrade
  <2> HIDE DEF l
  <2> QED BY <1>1, <1>2, <1>3, <2>1, <2>2, GotoUpheld
<1>4. ASSUME Goto(i, Leave(i)), FirstTime(i), DiscardStaged(i), UNCHANGED <<applies, claimed>>
      PROVE  Upheld(i)
  BY <1>1, <1>2, <1>4, DiscardUpheld DEF Leave, Upgrade, FirstTime
<1>5. ASSUME Goto(i, Leave(i)), OthersTyped, ledger' = ledger
      PROVE  Upheld(i)
  <2>1. CASE ~Upgrade(i)
    BY <1>1, <1>2, <1>5, <2>1, GiveUpUpheld DEF Leave
  <2>2. CASE Upgrade(i)
    <3>1. "rollback" \in Places /\ MayBeAt(job[i], "rollback") /\ Advance(job[i].at, "rollback")
      BY <1>1, <1>2, <2>2
         DEF Places, MayBeAt, Switched, Advance, Upgrading, Repairing, Upgrade, Staging
    <3> QED BY <1>1, <1>2, <1>5, <2>2, <3>1, GotoUpheld DEF Leave
  <2> QED BY <2>1, <2>2
<1>6. CASE UNCHANGED <<installed, ledger, attempts, applies, claimed>>
  <2>1. OthersTyped
    BY <1>1, <1>6, SameTyped
  <2>2. Goto(i, l) \/ Goto(i, Leave(i))
    BY DEF StageGeneration
  <2> QED BY <1>3, <1>5, <1>6, <2>1, <2>2
<1>7. CASE FirstTime(i) /\ DiscardStaged(i) /\ Goto(i, Leave(i)) /\ UNCHANGED <<applies, claimed>>
  BY <1>4, <1>7
<1> QED BY <1>6, <1>7 DEF StageGeneration, homeFiles, counters, Fails

LEMMA BackupLedgerUpheld ==
    ASSUME UpgradeInv, NEW i \in Installers, BackupLedger(i)
    PROVE  Upheld(i)
<1>1. /\ job[i] # NoJob /\ job[i] \in JobRow /\ job[i].at = "backup" /\ ShapeOK(job[i])
      /\ UpgradeOK(job[i], ledger) /\ PlatformTypes
  BY AtPlace DEF BackupLedger, Reached
<1>2. OthersTyped /\ homeLock' = homeLock
  BY <1>1, SameTyped DEF BackupLedger, counters
<1>3. job[i].holds /\ job[i].mode = "upgrade" /\ job[i].old \in Bundles /\ job[i].for \in Bundles
  BY <1>1 DEF ShapeOK, Upgrading, JobRow
<1>4. HoldsLock(i) /\ homeLock = i /\ Installed
  BY <1>1, <1>3 DEF HoldsLock, UpgradeInv, JobOK, OnActive
<1> DEFINE l == ledger[job[i].old]
           r == [job[i] EXCEPT !.at = "copy", !.backup = l]
<1>5. Marked(job[i], l)
  BY <1>1, <1>3 DEF UpgradeOK, Staging
<1>6. /\ r \in JobRow /\ r.at = "copy" /\ r.mode = "upgrade" /\ r.holds /\ r.backup = l
      /\ r.op = job[i].op /\ r.for = job[i].for /\ r.old = job[i].old
  BY <1>1, <1>3, <1>5 DEF JobRow, Places, Upgrading, Marked
<1>7. job' = [job EXCEPT ![i] = r] /\ ledger' = [ledger EXCEPT ![job[i].for] = Torn]
  BY DEF BackupLedger
<1>8. /\ LedgerTyped /\ ledger'[job[i].for] = Torn
      /\ job[i].old # job[i].for => ledger'[job[i].old] = l
  BY <1>1, <1>3, <1>7 DEF LedgerTyped, PlatformTypes
<1> HIDE DEF l, r
<1>9. Marked(r, l)
  BY <1>5, <1>6 DEF Marked
<1>10. CopyOf(r, ledger', l)
  BY <1>6, <1>8, <1>9 DEF CopyOf, Settled
<1>11. UpgradeOK(r, ledger')
  BY <1>6, <1>8, <1>9, <1>10 DEF UpgradeOK, Staging, Copied
<1>12. ShapeOK(r) /\ Installed'
  BY <1>1, <1>2, <1>3, <1>4, <1>6 DEF ShapeOK, Upgrading, Repairing, OthersTyped
<1> QED BY <1>1, <1>2, <1>4, <1>6, <1>7, <1>8, <1>11, <1>12, RowUpheld

\* The marked copy is complete: old and new ledger have the same claims.
LEMMA CopyLedgerUpheld ==
    ASSUME UpgradeInv, NEW i \in Installers, CopyLedger(i)
    PROVE  Upheld(i)
<1>1. /\ job[i] # NoJob /\ job[i] \in JobRow /\ job[i].at = "copy" /\ ShapeOK(job[i])
      /\ UpgradeOK(job[i], ledger) /\ PlatformTypes
  BY AtPlace DEF CopyLedger, Reached
<1>2. OthersTyped /\ homeLock' = homeLock
  BY <1>1, SameTyped DEF CopyLedger, counters
<1>3. job[i].holds /\ job[i].mode = "upgrade" /\ job[i].old \in Bundles /\ job[i].for \in Bundles
  BY <1>1 DEF ShapeOK, Upgrading, JobRow
<1> DEFINE r == [job[i] EXCEPT !.at = "open"]
<1>4. Marked(job[i], job[i].backup) /\ CopyOf(job[i], ledger, job[i].backup)
  BY <1>1, <1>3 DEF UpgradeOK
<1>5. ledger' = [ledger EXCEPT ![job[i].for] = job[i].backup]
  BY DEF CopyLedger
<1>6. /\ LedgerTyped /\ ledger'[job[i].for] = job[i].backup
      /\ job[i].old # job[i].for => ledger'[job[i].old] = ledger[job[i].old]
  BY <1>1, <1>3, <1>5 DEF LedgerTyped, PlatformTypes, JobRow
<1>7. /\ r.at = "open" /\ r.mode = "upgrade"
      /\ r.op = job[i].op /\ r.for = job[i].for /\ r.old = job[i].old
  BY <1>1, <1>3 DEF JobRow
<1> HIDE DEF r
<1>8. Marked(r, ledger'[r.for]) /\ CopyOf(r, ledger', ledger'[r.for])
  BY <1>4, <1>6, <1>7 DEF Marked, CopyOf
<1>9. UpgradeOK(r, ledger')
  BY <1>7, <1>8 DEF UpgradeOK, Staging, Copied, Marked
<1>10. "open" \in Places /\ MayBeAt(job[i], "open") /\ Goto(i, "open")
  BY <1>1, <1>3
     DEF CopyLedger, Places, Copied, MayBeAt, Switched, ShapeOK, Upgrading, Repairing
<1> QED BY <1>1, <1>2, <1>3, <1>6, <1>9, <1>10, WriteUpheld DEF r

LEMMA OpenCandidateUpheld ==
    ASSUME UpgradeInv, NEW i \in Installers, OpenCandidate(i)
    PROVE  Upheld(i)
<1>1. /\ job[i] # NoJob /\ job[i] \in JobRow /\ job[i].at = "open" /\ ShapeOK(job[i])
      /\ UpgradeOK(job[i], ledger) /\ PlatformTypes
  BY AtPlace DEF OpenCandidate, Reached
<1>2. OthersTyped /\ homeLock' = homeLock /\ Goto(i, "commit")
  BY <1>1, SameTyped DEF OpenCandidate, counters
<1>3. "commit" \in Places /\ MayBeAt(job[i], "commit") /\ job[i].for \in Bundles
  BY <1>1 DEF Places, Copied, MayBeAt, Switched, ShapeOK, Upgrading, Repairing, JobRow
<1>4. ledger' = [ledger EXCEPT ![job[i].for] = Migrated(ledger[job[i].for])]
  BY DEF OpenCandidate
<1>5. CASE job[i].mode = "upgrade"
  <2>1. ledger[job[i].for] \in Ledgers
    BY <1>1, <1>5 DEF UpgradeOK, Copied
  <2>2. ledger' = ledger
    BY <1>1, <1>3, <1>4, <2>1, PlatformConstants DEF Migrated, PlatformTypes
  <2>3. Advance(job[i].at, "commit")
    BY <1>1 DEF Advance, Copied
  <2> QED BY <1>1, <1>2, <1>3, <2>2, <2>3, GotoUpheld
<1>6. CASE job[i].mode # "upgrade"
  <2>1. Blank \in Ledgers
    BY DEF Blank, NoFence, Ledgers
  <2>2. Migrated(ledger[job[i].for]) \in Ledgers \cup {Nothing, Torn}
    BY <1>1, <1>3, <2>1 DEF Migrated, PlatformTypes
  <2>3. LedgerTyped
    BY <1>1, <1>4, <2>2 DEF LedgerTyped, PlatformTypes
  <2>4. job[i].holds
    BY <1>1 DEF ShapeOK
  <2> QED BY <1>1, <1>2, <1>3, <1>6, <2>3, <2>4, WriteUpheld
<1> QED BY <1>5, <1>6

\* A step that takes a fence away, and what it keeps.
Unfences(g) ==
    /\ LedgerTyped
    /\ \A h \in Bundles \ {g} : ledger'[h] = ledger[h]
    /\ ledger[g] \in Ledgers =>
         /\ ledger'[g] \in Ledgers /\ ledger'[g].claims = ledger[g].claims
         /\ ledger'[g].fence \in {ledger[g].fence, NoFence}
    /\ ledger[g] \notin Ledgers => ledger'[g] = ledger[g]

LEMMA UnfencedRow ==
    ASSUME PlatformTypes, NEW g \in Bundles,
           \/ ledger' = ledger
           \/ ledger[g] \in Ledgers /\ ledger' = [ledger EXCEPT ![g].fence = NoFence]
    PROVE  Unfences(g)
<1>1. CASE ledger' = ledger
  BY <1>1 DEF Unfences, LedgerTyped, PlatformTypes
<1>2. CASE ledger[g] \in Ledgers /\ ledger' = [ledger EXCEPT ![g].fence = NoFence]
  <2> DEFINE x == [ledger[g] EXCEPT !.fence = NoFence]
  <2>1. x \in Ledgers /\ x.claims = ledger[g].claims /\ x.fence = NoFence
    BY <1>2 DEF Ledgers, NoFence
  <2>2. ledger' = [ledger EXCEPT ![g] = x]
    BY <1>2
  <2> HIDE DEF x
  <2> QED BY <2>1, <2>2 DEF Unfences, LedgerTyped, PlatformTypes
<1> QED BY <1>1, <1>2

LEMMA ClearedUnfences ==
    ASSUME PlatformTypes, NEW g \in Bundles, NEW x,
           ledger' = ClearedOf(g, x) \/ ledger' = ClearedFor(g, x)
    PROVE  Unfences(g)
BY UnfencedRow, IntactIsLedger DEF ClearedOf, ClearedFor

LEMMA ClearFenceUpheld ==
    ASSUME UpgradeInv, NEW i \in Installers, ClearFence(i)
    PROVE  Upheld(i)
<1> DEFINE l == IF Reached(i, "clear") THEN "publish" ELSE "republish"
           r == [job[i] EXCEPT !.at = l]
<1>1. job[i].at \in {"clear", "reclear"}
  BY DEF ClearFence
<1>2. /\ job[i] # NoJob /\ job[i] \in JobRow /\ ShapeOK(job[i])
      /\ UpgradeOK(job[i], ledger) /\ PlatformTypes
  BY <1>1, AtPlace DEF Reached
<1>3. OthersTyped /\ homeLock' = homeLock /\ Goto(i, l)
  BY <1>2, SameTyped DEF ClearFence, counters
<1>4. job[i].holds /\ job[i].for \in Bundles
  BY <1>1, <1>2 DEF ShapeOK, JobRow
<1>5. Unfences(job[i].for)
  <2>1. \/ ledger' = ledger
        \/ ledger' = ClearedOf(job[i].for, job[i].op)
        \/ ledger' = ClearedFor(job[i].for, job[i].for)
    BY DEF ClearFence, CandidateCleared
  <2> QED BY <1>2, <1>4, <2>1, UnfencedRow, ClearedUnfences
<1>6. job[i].mode = "upgrade" => UpgradeOK(r, ledger')
  <2> SUFFICES ASSUME job[i].mode = "upgrade" PROVE UpgradeOK(r, ledger')
    OBVIOUS
  <2>1. job[i].at = "clear" /\ job[i].old \in Bundles
    BY <1>1, <1>2 DEF ShapeOK, Repairing
  <2>2. ledger[job[i].for] \in Ledgers /\ CopyOf(job[i], ledger, ledger[job[i].for])
    BY <1>2, <2>1 DEF UpgradeOK, Copied
  <2>3. /\ r.at = "publish" /\ r.mode = "upgrade"
        /\ r.op = job[i].op /\ r.for = job[i].for /\ r.old = job[i].old
    BY <1>2, <2>1 DEF JobRow, Reached
  <2> HIDE DEF r
  <2>4. ledger'[r.for] \in Ledgers /\ CopyOf(r, ledger', ledger'[r.for])
    BY <1>4, <1>5, <2>1, <2>2, <2>3 DEF Unfences, CopyOf, Marked
  <2> QED BY <2>3, <2>4 DEF UpgradeOK, Staging, Copied
<1>7. l \in Places /\ l \notin {"read", "verify"} /\ MayBeAt(job[i], l)
  BY <1>1, <1>2, <1>4
     DEF Places, MayBeAt, Switched, ShapeOK, Upgrading, Repairing, Reached
<1>8. LedgerTyped
  BY <1>5 DEF Unfences
<1> HIDE DEF l
<1> QED BY <1>2, <1>3, <1>4, <1>6, <1>7, <1>8, WriteUpheld

LEMMA LetGoUpheld ==
    ASSUME UpgradeInv, NEW i \in Installers, ReleaseOld(i) \/ RollBack(i)
    PROVE  Upheld(i)
<1>1. job[i].at \in {"release", "rollback"}
  BY DEF ReleaseOld, RollBack, Reached
<1>2. /\ job[i] # NoJob /\ job[i] \in JobRow /\ ShapeOK(job[i]) /\ PlatformTypes
  BY <1>1, AtPlace DEF Reached
<1>3. OthersTyped /\ homeLock' = homeLock
  BY <1>2, SameTyped DEF ReleaseOld, RollBack, counters
<1>4. job[i].holds /\ job[i].mode = "upgrade" /\ job[i].old \in Bundles
  BY <1>1, <1>2 DEF ShapeOK, Upgrading
<1>5. LedgerTyped
  <2>1. ledger' = ledger \/ ledger' = ClearedOf(job[i].old, job[i].op)
    BY DEF ReleaseOld, RollBack
  <2> QED BY <1>2, <1>4, <2>1, UnfencedRow, ClearedUnfences DEF Unfences
<1>6. ASSUME NEW l \in {"unlock", "bringback"}, Goto(i, l)
      PROVE  Upheld(i)
  <2>1. l \in Places /\ l \notin {"read", "verify"} /\ MayBeAt(job[i], l)
    BY <1>4 DEF Places, MayBeAt, Switched, Upgrading, Repairing
  <2>2. UpgradeOK([job[i] EXCEPT !.at = l], ledger')
    <3> DEFINE r == [job[i] EXCEPT !.at = l]
    <3>1. r.at = l
      BY <1>2 DEF JobRow
    <3> HIDE DEF r
    <3>2. UpgradeOK(r, ledger')
      BY <3>1 DEF UpgradeOK, Staging, Copied
    <3> QED BY <3>2 DEF r
  <2> QED BY <1>2, <1>3, <1>4, <1>5, <1>6, <2>1, <2>2, WriteUpheld
<1> QED BY <1>6 DEF ReleaseOld, RollBack

-----------------------------------------------------------------------------
(* The Control Plane, and all steps.                                       *)

\* Nothing is live but strays.
Quiet(l) == l.live \subseteq l.strays

\* Pollers write to ledgers, but what they add to one that is fenced are strays.
Worked(l, m) ==
    m = l \/ /\ l \in Ledgers /\ m \in Ledgers
             /\ m.fence = l.fence /\ l.claims \subseteq m.claims
             /\ l.fence # NoFence => Settled(m) \subseteq Settled(l)
             /\ l.fence # NoFence /\ Quiet(l) => Quiet(m)

WorksOn ==
    /\ LedgerTyped /\ UNCHANGED <<installed, attempts, homeLock, job, applies, interrupted>>
    /\ claimed' \in Nat
    /\ \A g \in Bundles : Worked(ledger[g], ledger'[g])

LEMMA RowWorks ==
    ASSUME PlatformTypes, NEW g \in Bundles, NEW m, Worked(ledger[g], m),
           ledger' = [ledger EXCEPT ![g] = m]
    PROVE  LedgerTyped /\ \A h \in Bundles : Worked(ledger[h], ledger'[h])
BY DEF PlatformTypes, LedgerTyped, Worked

\* A claim works if it makes a stray of the run wherever there is a fence.
LEMMA ClaimedWorks ==
    ASSUME PlatformTypes, NEW g \in Bundles, ledger[g] \in Ledgers, NEW x \in SUBSET Nat,
           ledger[g].strays \subseteq x,
           Fenced(g) => x = ledger[g].strays \cup {claimed + 1},
           Claimed(g, x)
    PROVE  WorksOn
<1> DEFINE n == claimed + 1
           l == ledger[g]
           m == [l EXCEPT !.claims = l.claims \cup {n}, !.live = l.live \cup {n}, !.strays = x]
<1>1. l \in Ledgers /\ (l.fence # NoFence => x = l.strays \cup {n})
  BY DEF Fenced
<1>2. n \in Nat
  BY DEF PlatformTypes
<1>3. ledger' = [ledger EXCEPT ![g] = m]
  BY DEF Claimed
<1>4. claimed' = n
  BY DEF Claimed
<1> HIDE DEF l, n
<1>5. /\ m \in Ledgers /\ m.fence = l.fence /\ m.claims = l.claims \cup {n}
      /\ m.live = l.live \cup {n} /\ m.strays = x
  BY <1>1, <1>2 DEF Ledgers
<1> HIDE DEF m
<1>6. Worked(l, m)
  BY <1>1, <1>5 DEF Worked, Settled, Quiet
<1>7. LedgerTyped /\ \A h \in Bundles : Worked(ledger[h], ledger'[h])
  BY <1>3, <1>6, RowWorks DEF l
<1> QED BY <1>2, <1>4, <1>7 DEF WorksOn, Claimed

LEMMA ClaimRunWorks ==
    ASSUME PlatformTypes, NEW g \in Bundles, ClaimRun(g) \/ ClaimNextRun(g)
    PROVE  WorksOn
<1>1. ledger[g] \in Ledgers
  BY IntactIsLedger DEF ClaimRun, MayClaimRun, ClaimNextRun, Works
<1>2. ledger[g].strays \in SUBSET Nat /\ claimed + 1 \in Nat
  BY <1>1 DEF Ledgers, PlatformTypes
<1>3. CASE ClaimRun(g)
  BY <1>1, <1>2, <1>3, ClaimedWorks DEF ClaimRun, MayClaimRun
<1>4. CASE ClaimNextRun(g)
  <2> DEFINE x == ledger[g].strays \cup {r \in {claimed + 1} : Fenced(g)}
  <2>1. x \in SUBSET Nat /\ ledger[g].strays \subseteq x
    BY <1>2
  <2>2. Fenced(g) => x = ledger[g].strays \cup {claimed + 1}
    OBVIOUS
  <2>3. Claimed(g, x)
    BY <1>4 DEF ClaimNextRun
  <2> HIDE DEF x
  <2> QED BY <1>1, <2>1, <2>2, <2>3, ClaimedWorks
<1> QED BY <1>3, <1>4

LEMMA RunOverWorks ==
    ASSUME PlatformTypes, NEW g \in Bundles, NEW x, RunOver(g, x)
    PROVE  WorksOn
<1> DEFINE l == ledger[g]
           m == [l EXCEPT !.live = l.live \ {x}]
<1>1. l \in Ledgers
  BY IntactIsLedger DEF RunOver
<1>2. ledger' = [ledger EXCEPT ![g] = m]
  BY DEF RunOver
<1> HIDE DEF l
<1>3. /\ m \in Ledgers /\ m.fence = l.fence /\ m.claims = l.claims
      /\ m.live \subseteq l.live /\ m.strays = l.strays
  BY <1>1 DEF Ledgers
<1> HIDE DEF m
<1>4. Worked(l, m)
  BY <1>1, <1>3 DEF Worked, Settled, Quiet
<1>5. LedgerTyped /\ \A h \in Bundles : Worked(ledger[h], ledger'[h])
  BY <1>2, <1>4, RowWorks DEF l
<1> QED BY <1>5 DEF WorksOn, RunOver, counters, PlatformTypes

LEMMA ServiceWorks ==
    ASSUME PlatformTypes, ServiceNext \/ UNCHANGED platformVars
    PROVE  WorksOn
<1>1. CASE \/ Serve \/ ServiceUp \/ ServiceEnds \/ ServiceKilled \/ SupervisorPolls
           \/ \E g \in Bundles : ChildLocks(g) \/ PollByHand(g) \/ PollerEnds(g)
           \/ UNCHANGED platformVars
  <2>1. UNCHANGED <<installed, ledger, attempts, homeLock, job, applies, claimed, interrupted>>
    BY <1>1 DEF Serve, ServiceUp, ServiceEnds, ServiceKilled, SupervisorPolls, ChildLocks,
                PollByHand, PollerEnds, platformVars, home, homeFiles, counters
  <2> QED BY <2>1 DEF WorksOn, Worked, LedgerTyped, PlatformTypes
<1>2. ASSUME NEW g \in Bundles, ClaimRun(g) \/ ClaimNextRun(g)
      PROVE  WorksOn
  BY <1>2, ClaimRunWorks
<1>3. ASSUME NEW g \in Bundles, NEW x \in 1 .. MaxClaims, RunOver(g, x)
      PROVE  WorksOn
  BY <1>3, RunOverWorks
<1> QED BY <1>1, <1>2, <1>3 DEF ServiceNext

\* What is marked stays marked, and has no more to hand over.
LEMMA MarkedStays ==
    ASSUME WorksOn, NEW j, j.op # 0, NEW g \in Bundles, Marked(j, ledger[g])
    PROVE  Marked(j, ledger'[g]) /\ Settled(ledger'[g]) \subseteq Settled(ledger[g])
<1>1. ledger[g].fence # NoFence
  BY DEF Marked, NoFence
<1>2. CASE ledger'[g] = ledger[g]
  BY <1>2
<1>3. CASE ledger'[g] # ledger[g]
  BY <1>1, <1>3 DEF WorksOn, Worked, Marked, Quiet
<1> QED BY <1>2, <1>3

LEMMA WorksUpheld ==
    ASSUME UpgradeInv, WorksOn
    PROVE  UpgradeInv'
<1>1. PlatformTypes'
  BY DEF UpgradeInv, PlatformTypes, WorksOn, LedgerTyped
<1>2. ASSUME NEW i \in Installers, job[i] # NoJob
      PROVE  UpgradeOK(job[i], ledger')
  <2> SUFFICES ASSUME job[i].mode = "upgrade" PROVE UpgradeOK(job[i], ledger')
    BY DEF UpgradeOK
  <2>1. /\ ShapeOK(job[i]) /\ UpgradeOK(job[i], ledger) /\ job[i] \in JobRow
    BY <1>2, JobOrNot DEF UpgradeInv, JobOK
  <2>2. job[i].op # 0 /\ job[i].old \in Bundles /\ job[i].for \in Bundles
    BY <2>1 DEF ShapeOK, JobRow
  <2>3. \A g \in Bundles : Marked(job[i], ledger[g]) =>
           Marked(job[i], ledger'[g]) /\ Settled(ledger'[g]) \subseteq Settled(ledger[g])
    BY <2>2, MarkedStays
  <2>4. \A g \in Bundles : /\ ledger[g] \in Ledgers <=> ledger'[g] \in Ledgers
                           /\ ledger[g] \in Ledgers => ledger[g].claims \subseteq ledger'[g].claims
    BY DEF WorksOn, Worked
  <2>5. ASSUME CopyOf(job[i], ledger, ledger[job[i].for]), ledger[job[i].for] \in Ledgers
        PROVE  CopyOf(job[i], ledger', ledger'[job[i].for])
    BY <2>2, <2>3, <2>4, <2>5 DEF CopyOf
  <2>6. ASSUME CopyOf(job[i], ledger, job[i].backup)
        PROVE  CopyOf(job[i], ledger', job[i].backup)
    BY <2>2, <2>3, <2>6 DEF CopyOf
  <2>7. ledger[job[i].for] = Torn => ledger'[job[i].for] = Torn
    BY <2>2, PlatformConstants DEF WorksOn, Worked
  <2> QED BY <2>1, <2>2, <2>3, <2>4, <2>5, <2>6, <2>7 DEF UpgradeOK
<1>3. ASSUME NEW i \in Installers, job'[i] # NoJob
      PROVE  JobOK(i)'
  BY <1>2, <1>3 DEF UpgradeInv, JobOK, WorksOn, Installed
<1> QED BY <1>1, <1>3 DEF UpgradeInv

LEMMA InstallerUpheld ==
    ASSUME UpgradeInv, NEW i \in Installers,
      \/ \E b \in Bundles : ApplyFirst(i, b)
      \/ \E b \in Bundles, c \in Ops \cup {Nothing} : ApplyLocked(i, b, c)
      \/ ReadInstalled(i) \/ RecordConsent(i) \/ RecordFirstAttempt(i)
      \/ LockHome(i) \/ StopOld(i) \/ Prepare(i) \/ RecordAttempt(i)
      \/ StageGeneration(i) \/ BackupLedger(i) \/ CopyLedger(i)
      \/ OpenCandidate(i) \/ CommitActivation(i) \/ VerifyGeneration(i) \/ VerifyRepair(i)
      \/ StartActive(i) \/ AwaitReady(i) \/ ClearFence(i) \/ PublishReady(i)
      \/ ReleaseOld(i) \/ StepFails(i) \/ WriteFails(i) \/ RollBack(i)
      \/ BringBack(i) \/ Unlock(i) \/ InstallerDies(i)
    PROVE  Upheld(i)
<1>1. CASE \/ \E b \in Bundles : ApplyFirst(i, b)
           \/ \E b \in Bundles, c \in Ops \cup {Nothing} : ApplyLocked(i, b, c)
           \/ ReadInstalled(i) \/ LockHome(i) \/ Unlock(i) \/ InstallerDies(i)
  BY <1>1, ApplyFirstUpheld, ApplyLockedUpheld, ReadInstalledUpheld, LockHomeUpheld, EndUpheld
<1>2. CASE \/ RecordConsent(i) \/ RecordFirstAttempt(i) \/ StopOld(i) \/ Prepare(i)
           \/ RecordAttempt(i) \/ StageGeneration(i) \/ StepFails(i) \/ WriteFails(i)
  BY <1>2, RecordConsentUpheld, RecordFirstAttemptUpheld, StopOldUpheld, PrepareUpheld,
     RecordAttemptUpheld, StageGenerationUpheld, StepFailsUpheld, WriteFailsUpheld
<1>3. CASE \/ BackupLedger(i) \/ CopyLedger(i) \/ OpenCandidate(i) \/ CommitActivation(i)
           \/ VerifyGeneration(i) \/ VerifyRepair(i) \/ StartActive(i) \/ AwaitReady(i)
  BY <1>3, BackupLedgerUpheld, CopyLedgerUpheld, OpenCandidateUpheld, CommitActivationUpheld,
     VerifyUpheld, StartUpheld
<1>4. CASE \/ ClearFence(i) \/ PublishReady(i) \/ ReleaseOld(i) \/ RollBack(i) \/ BringBack(i)
  BY <1>4, ClearFenceUpheld, PublishReadyUpheld, LetGoUpheld, BringBackUpheld
<1> QED BY <1>1, <1>2, <1>3, <1>4

LEMMA UpgradeInit == PlatformInit => UpgradeInv
<1> SUFFICES ASSUME PlatformInit PROVE UpgradeInv
  OBVIOUS
<1>1. PICK b \in FirstHomes :
        /\ installed = IF b = Nothing THEN Nothing
                       ELSE [gen |-> b, ready |-> TRUE, attempt |-> 0, consent |-> 0]
        /\ ledger = [g \in Bundles |-> IF g = b THEN Blank ELSE Nothing]
        /\ attempts = IF b = Nothing THEN {} ELSE {[id |-> 0, for |-> b, consent |-> 0]}
        /\ job = [i \in Installers |-> NoJob]
        /\ applies = 0 /\ claimed = 0
  BY DEF PlatformInit
<1>2. b \in Bundles \cup {Nothing}
  BY PlatformConstants
<1>3. installed \in Actives \cup {Nothing}
  BY <1>1, <1>2 DEF Actives
<1>4. ledger \in [Bundles -> Ledgers \cup {Nothing, Torn}]
  <2>1. Blank \in Ledgers
    BY DEF Blank, NoFence, Ledgers
  <2> QED BY <1>1, <2>1
<1>5. attempts \subseteq AttemptRow
  BY <1>1, <1>2 DEF AttemptRow
<1> QED BY <1>1, <1>3, <1>4, <1>5 DEF UpgradeInv, PlatformTypes

LEMMA UpgradeNext == UpgradeInv /\ [PlatformNext]_platformVars => UpgradeInv'
<1> SUFFICES ASSUME UpgradeInv, [PlatformNext]_platformVars PROVE UpgradeInv'
  OBVIOUS
<1>1. CASE InstallerNext
  BY <1>1, InstallerUpheld, UpheldHolds DEF InstallerNext
<1>2. CASE ServiceNext \/ UNCHANGED platformVars
  BY <1>2, ServiceWorks, WorksUpheld DEF UpgradeInv
<1> QED BY <1>1, <1>2 DEF PlatformNext

\* Whoever applies what and dies where: the types, who holds the lock of the
\* Home, and what the ledgers of an upgrade are at each of its steps.
THEOREM UpgradeInvHolds == PlatformSpec => []UpgradeInv
BY UpgradeInit, UpgradeNext, PTL DEF PlatformSpec

\* From the switch of active.json until the old ledger is released, the new
\* one has every run that the old one ever recorded, and none of them is live,
\* but for the deliveries and reviews that were claimed under this fence
\* (UpgradeKeepsRuns): the copy was taken under it, and claimReady looks for it.
THEOREM UpgradeKeepsRunsHolds == PlatformSpec => []UpgradeKeepsRuns
<1>1. UpgradeInv => UpgradeKeepsRuns
  <2> SUFFICES ASSUME UpgradeInv, NEW i \in Installers,
                      job[i].at \in Postactivation, Upgrade(i), job[i].old # job[i].for
               PROVE  /\ Settled(ledger[job[i].old]) \subseteq ledger[job[i].for].claims
                      /\ ledger[job[i].old].live \subseteq ledger[job[i].old].strays
    BY DEF UpgradeKeepsRuns, Settled
  <2>1. UpgradeOK(job[i], ledger)
    BY AtPlace DEF Postactivation, Reached
  <2>2. CopyOf(job[i], ledger, ledger[job[i].for])
    BY <2>1 DEF UpgradeOK, Postactivation, Copied, Upgrade
  <2> QED BY <2>2 DEF CopyOf, Marked
<1> QED BY <1>1, UpgradeInvHolds, PTL

-----------------------------------------------------------------------------
(* The fence of the active generation.                                     *)
(*                                                                         *)
(* A first installation reads the Home before it has the lock, and may     *)
(* overtake others.  Where the Home is installed from the start, every job *)
(* holds the lock, so there is one at most.  The fence of the active       *)
(* generation then belongs to an interrupted operation, to an upgrade that *)
(* is still going to clear it, or to an activation that is not ready: it   *)
(* names the bundle that its repair will clear it for.                     *)

Before == Staging \cup {"copy", "open", "commit", "rollback"}

ActiveFence == ledger[installed.gen].fence
IsFenced == ledger[installed.gen] \in Ledgers /\ ActiveFence # NoFence
Interrupted == IsFenced => ActiveFence.op \in interrupted
Excused == \/ ActiveFence.op \in interrupted
           \/ ~installed.ready /\ ActiveFence.for = installed.gen

Carries(j) == j.mode = "upgrade" /\ j.at \notin {"unlock", "bringback"}

\* What a job knows of active.json, and of the fence it cleared.
SoloOK(j) ==
    /\ j.mode \notin {"fresh", "recover"}
    /\ j.mode = "upgrade" /\ j.at \in Before => installed.gen = j.old
    /\ j.mode = "upgrade" /\ j.at \in Switched => installed.gen = j.for /\ ~installed.ready
    /\ j.at = "release" => installed.gen = j.for
    /\ j.mode = "repair" /\ j.at # "unlock" => installed.gen = j.for /\ ~installed.ready
    /\ j.at \in {"publish", "republish", "release"} => Interrupted

CarriedBy(i) == job[i] # NoJob /\ Carries(job[i]) /\ job[i].op = ActiveFence.op
Owned(i) == IsFenced => Excused \/ CarriedBy(i)
FenceKept == IsFenced => Excused \/ \E i \in Installers : CarriedBy(i)

FenceInv == /\ Installed /\ FenceKept
            /\ \A i \in Installers : job[i] # NoJob => SoloOK(job[i])

LEMMA Alone ==
    ASSUME UpgradeInv, FenceInv, NEW i \in Installers, job[i] # NoJob
    PROVE  /\ homeLock = i /\ \A k \in Installers : k # i => job[k] = NoJob
           /\ job[i] \in JobRow /\ ShapeOK(job[i]) /\ UpgradeOK(job[i], ledger) /\ SoloOK(job[i])
           /\ job[i].for \in Bundles /\ installed \in Actives /\ installed.gen \in Bundles
           /\ PlatformTypes /\ Owned(i)
<1>1. \A k \in Installers : job[k] # NoJob => homeLock = k
  BY DEF UpgradeInv, JobOK, ShapeOK, FenceInv, SoloOK
<1>2. job[i] \in JobRow /\ PlatformTypes /\ installed \in Actives
  BY JobOrNot DEF UpgradeInv, PlatformTypes, FenceInv, Installed
<1>3. Owned(i)
  BY <1>1 DEF FenceInv, FenceKept, Owned, CarriedBy
<1> QED BY <1>1, <1>2, <1>3 DEF UpgradeInv, JobOK, FenceInv, JobRow, Actives

\* A step of the only job there is.
LEMMA SoloStep ==
    ASSUME UpgradeInv, FenceInv, NEW i \in Installers, job[i] # NoJob, Upheld(i),
           job'[i] # NoJob => SoloOK(job[i])',
           Owned(i)'
    PROVE  FenceInv'
<1>1. \A k \in Installers : k # i => job'[k] = NoJob
  BY Alone DEF Upheld, Frame
<1>2. Installed'
  BY DEF FenceInv, Upheld, Frame
<1>3. FenceKept'
  BY DEF FenceKept, Owned
<1> QED BY <1>1, <1>2, <1>3 DEF FenceInv

LEMMA UpheldMoves ==
    ASSUME UpgradeInv, NEW i \in Installers, Upheld(i), job'[i] # NoJob,
           SameWork(job[i], job'[i])
    PROVE  MovesTo(i, job'[i].at)
<1>1. job'[i] \in JobRow
  BY DEF Upheld, PlatformTypes
<1> QED BY <1>1 DEF Upheld, Frame, PlatformTypes, MovesTo

\* Steps that leave ledgers and active.json alone, and what they may leave behind.
Calm(j, l) ==
    \/ j.mode # "upgrade" /\ j.at # "unlock" /\ l \notin {"publish", "republish", "release"}
    \/ j.at \in Before /\ l \in Before
    \/ j.at \in {"verify", "start", "ready"} /\ l \in {"start", "ready", "clear"}
    \/ j.at \in {"verify", "start", "ready", "publish", "bringback"} /\ l = "unlock"

LEMMA CalmStep ==
    ASSUME UpgradeInv, FenceInv, NEW i \in Installers, job[i] # NoJob, Upheld(i),
           NEW l, MovesTo(i, l), Calm(job[i], l), UNCHANGED <<installed, ledger, interrupted>>
    PROVE  FenceInv'
<1> DEFINE j == job[i]
           r == job'[i]
<1>1. /\ \A k \in Installers : k # i => job[k] = NoJob
      /\ j \in JobRow /\ ShapeOK(j) /\ UpgradeOK(j, ledger) /\ SoloOK(j)
  BY Alone
<1>2. /\ r # NoJob /\ r.at = l /\ r.op = j.op /\ r.for = j.for /\ r.mode = j.mode /\ r.old = j.old
  BY DEF MovesTo, SameWork
<1>3. /\ IsFenced' = IsFenced /\ ActiveFence' = ActiveFence /\ Excused' = Excused
      /\ Interrupted' = Interrupted /\ (IsFenced' <=> IsFenced) /\ (Excused' <=> Excused)
  BY DEF IsFenced, ActiveFence, Excused, Interrupted
<1>4. SoloOK(job[i])'
  BY <1>1, <1>2, <1>3 DEF SoloOK, Calm, Before, Switched, Staging
<1>5. CASE ~Carries(j) \/ Carries(r)
  <2>1. Owned(i)'
    BY <1>2, <1>3, <1>5, Alone DEF Owned, CarriedBy
  <2> QED BY <1>4, <2>1, SoloStep
<1>6. CASE Carries(j) /\ ~Carries(r)
  <2>1. j.at \in {"verify", "start", "ready", "publish"} /\ j.mode = "upgrade"
    BY <1>2, <1>6 DEF Carries, Calm, Before, Staging
  <2>2. CASE j.at = "publish"
    <3>1. Interrupted
      BY <1>1, <2>2 DEF SoloOK
    <3>2. Owned(i)'
      BY <1>3, <3>1 DEF Interrupted, Excused, Owned
    <3> QED BY <1>4, <3>2, SoloStep
  <2>3. CASE j.at # "publish"
    <3>1. Marked(j, ledger[j.for]) /\ installed.gen = j.for /\ ~installed.ready
      BY <1>1, <2>1, <2>3 DEF SoloOK, UpgradeOK, Copied, Switched
    <3>2. Owned(i)'
      BY <1>3, <3>1 DEF Owned, Excused, Marked, ActiveFence
    <3> QED BY <1>4, <3>2, SoloStep
  <2> QED BY <2>1, <2>2, <2>3
<1> QED BY <1>5, <1>6

LEMMA CalmSteps ==
    ASSUME UpgradeInv, FenceInv, NEW i \in Installers,
           \/ RecordConsent(i) \/ StopOld(i) \/ Prepare(i) \/ RecordAttempt(i)
           \/ VerifyGeneration(i) \/ VerifyRepair(i) \/ StartActive(i) \/ AwaitReady(i)
           \/ WriteFails(i) \/ BringBack(i)
    PROVE  FenceInv'
<1> DEFINE j == job[i]
           r == job'[i]
<1>1. job[i] # NoJob
  BY AtPlace DEF RecordConsent, StopOld, Prepare, RecordAttempt, VerifyGeneration, VerifyRepair,
       StartActive, AwaitReady, WriteFails, BringBack, UpgradeInv, Reached, NoJob
<1>2. /\ j \in JobRow /\ ShapeOK(j) /\ SoloOK(j) /\ PlatformTypes
  BY <1>1, Alone
<1>3. Upheld(i)
  BY RecordConsentUpheld, StopOldUpheld, PrepareUpheld, RecordAttemptUpheld, VerifyUpheld,
     StartUpheld, WriteFailsUpheld, BringBackUpheld
<1>4. UNCHANGED <<installed, ledger, interrupted>>
  BY DEF RecordConsent, StopOld, Prepare, RecordAttempt, VerifyGeneration, VerifyRepair,
         StartActive, AwaitReady, WriteFails, BringBack, homeFiles, counters, Fails
<1>5. SameWork(j, r) /\ r # NoJob /\ Calm(j, r.at)
  <2>1. ASSUME NEW l \in Places, Goto(i, l), Calm(j, l)
        PROVE  SameWork(j, r) /\ r # NoJob /\ Calm(j, r.at)
    BY <1>1, <1>2, <2>1, GotoMoves DEF MovesTo
  <2>2. ASSUME NEW x \in JobRow, job' = [job EXCEPT ![i] = x], SameWork(j, x), Calm(j, x.at)
        PROVE  SameWork(j, r) /\ r # NoJob /\ Calm(j, r.at)
    BY <1>2, <2>2, UpdateMoves DEF MovesTo
  <2>3. CASE RecordConsent(i)
    <3> DEFINE c == IF j.consent = Nothing THEN j.op ELSE j.consent
               l == IF FirstTime(i) THEN "attempt" ELSE IF Upgrade(i) THEN "stop" ELSE "prepare"
               x == [j EXCEPT !.consent = c, !.at = l]
    <3>1. j.at = "consent" /\ job' = [job EXCEPT ![i] = x]
      BY <2>3 DEF RecordConsent, Reached
    <3>2. c \in Nat \cup {Nothing}
      BY <1>2 DEF JobRow
    <3>3. l \in Places /\ Calm(j, l)
      BY <1>2, <3>1 DEF Places, Upgrading, Staging, Calm, Before, SoloOK, FirstTime, Upgrade
    <3> HIDE DEF c, l
    <3>4. x \in JobRow /\ x.at = l /\ SameWork(j, x)
      BY <1>2, <3>2, <3>3 DEF JobRow, SameWork
    <3> HIDE DEF x
    <3> QED BY <2>2, <3>1, <3>3, <3>4
  <2>4. CASE StopOld(i)
    <3>1. j.at = "stop" /\ j.mode = "upgrade"
      BY <1>2, <2>4 DEF StopOld, Reached, ShapeOK, Upgrading
    <3>2. \A l \in {"prepare", "rollback"} : l \in Places /\ Calm(j, l)
      BY <3>1 DEF Places, Staging, Upgrading, Calm, Before
    <3>3. CASE Goto(i, "prepare") \/ Goto(i, "rollback")
      BY <2>1, <3>2, <3>3
    <3>4. CASE job' = [job EXCEPT ![i].at = "prepare", ![i].stopped = TRUE]
      <4> DEFINE x == [j EXCEPT !.at = "prepare", !.stopped = TRUE]
      <4>1. x \in JobRow /\ x.at = "prepare" /\ SameWork(j, x)
        BY <1>2, <3>2 DEF JobRow, SameWork
      <4>2. job' = [job EXCEPT ![i] = x]
        BY <3>4
      <4> HIDE DEF x
      <4> QED BY <2>2, <3>2, <4>1, <4>2
    <3> QED BY <2>4, <3>3, <3>4 DEF StopOld
  <2>5. CASE RecordAttempt(i)
    <3> DEFINE x == [j EXCEPT !.attempt = j.op, !.at = "stage"]
    <3>1. j.at = "record" /\ job' = [job EXCEPT ![i] = x]
      BY <2>5 DEF RecordAttempt, Reached
    <3>2. x \in JobRow /\ x.at = "stage" /\ SameWork(j, x)
      BY <1>2 DEF JobRow, SameWork, Places, Staging
    <3> HIDE DEF x
    <3>3. Calm(j, "stage")
      BY <3>1 DEF Calm, Before, Staging
    <3> QED BY <2>2, <3>1, <3>2, <3>3
  <2>6. CASE Prepare(i)
    <3> DEFINE l == CASE j.mode = "repair" -> "reverify"
                      [] Upgrade(i) -> "record" [] OTHER -> "stage"
    <3>1. j.at = "prepare" /\ Goto(i, l)
      BY <2>6 DEF Prepare, Reached
    <3>2. l \in {"reverify", "record", "stage"} /\ (j.mode = "upgrade" => l = "record")
      BY DEF Upgrade
    <3> HIDE DEF l
    <3>3. l \in Places /\ Calm(j, l)
      BY <3>1, <3>2 DEF Places, Upgrading, Staging, Repairing, Calm, Before
    <3> QED BY <2>1, <3>1, <3>3
  <2>7. CASE VerifyGeneration(i) \/ VerifyRepair(i)
    <3>1. \E l \in {"start", "unlock", "restart"} :
             Goto(i, l) /\ ((j.at = "verify" /\ l # "restart") \/ j.at = "reverify")
      BY <2>7 DEF VerifyGeneration, VerifyRepair, Reached
    <3>2. PICK l \in {"start", "unlock", "restart"} :
             Goto(i, l) /\ ((j.at = "verify" /\ l # "restart") \/ j.at = "reverify")
      BY <3>1
    <3>3. j.at = "reverify" => j.mode = "repair"
      BY <1>2 DEF ShapeOK, Repairing
    <3>4. l \in Places /\ Calm(j, l)
      BY <3>2, <3>3 DEF Places, Copied, Repairing, Calm
    <3> QED BY <2>1, <3>2, <3>4
  <2>8. CASE StartActive(i) \/ AwaitReady(i)
    <3>1. \/ j.at \in {"start", "ready"} /\ \E l \in {"ready", "clear", "unlock"} : Goto(i, l)
          \/ j.at \in {"restart", "reready"} /\ \E l \in {"reready", "reclear", "unlock"} : Goto(i, l)
      BY <2>8 DEF StartActive, AwaitReady, Reached
    <3>2. CASE j.at \in {"start", "ready"} /\ \E l \in {"ready", "clear", "unlock"} : Goto(i, l)
      <4>1. \A l \in {"ready", "clear", "unlock"} : l \in Places /\ Calm(j, l)
        BY <3>2 DEF Places, Copied, Calm
      <4> QED BY <2>1, <3>2, <4>1
    <3>3. CASE j.at \in {"restart", "reready"}
                 /\ \E l \in {"reready", "reclear", "unlock"} : Goto(i, l)
      <4>1. \A l \in {"reready", "reclear", "unlock"} : l \in Places /\ Calm(j, l)
        BY <1>2, <3>3 DEF Places, Repairing, ShapeOK, Calm
      <4> QED BY <2>1, <3>3, <4>1
    <3> QED BY <3>1, <3>2, <3>3
  <2>9. CASE WriteFails(i)
    <3>1. PICK l \in {"unlock", "rollback"} :
             /\ Goto(i, l) /\ (l = "rollback" <=> Upgrade(i) /\ j.at # "publish")
             /\ j.at \in {"consent", "attempt", "record", "publish", "republish"}
      <4>1. Goto(i, IF Reached(i, "publish") THEN "unlock" ELSE Leave(i))
        BY <2>9 DEF WriteFails
      <4>2. Leave(i) = IF Upgrade(i) THEN "rollback" ELSE "unlock"
        BY DEF Leave
      <4>3. j.at \in {"consent", "attempt", "record", "publish", "republish"}
        BY <2>9 DEF WriteFails
      <4> QED BY <4>1, <4>2, <4>3 DEF Reached
    <3>2. l \in Places
      BY DEF Places, Upgrading
    <3>3. Calm(j, l)
      BY <1>2, <3>1 DEF Calm, Before, Staging, ShapeOK, Repairing, Upgrade
    <3> QED BY <2>1, <3>1, <3>2, <3>3
  <2>10. CASE BringBack(i)
    <3>1. "unlock" \in Places /\ Calm(j, "unlock") /\ Goto(i, "unlock")
      BY <2>10 DEF BringBack, Reached, Places, Calm
    <3> QED BY <2>1, <3>1
  <2> QED BY <2>3, <2>4, <2>5, <2>6, <2>7, <2>8, <2>9, <2>10
<1> QED BY <1>1, <1>3, <1>4, <1>5, UpheldMoves, CalmStep

\* A failing step of an upgrade leads to its roll back, which clears the fence.
LEMMA FailedSteps ==
    ASSUME UpgradeInv, FenceInv, NEW i \in Installers, StepFails(i) \/ StageGeneration(i)
    PROVE  FenceInv'
<1> DEFINE j == job[i]
<1>1. j.at \in {"prepare", "backup", "copy", "open", "commit", "stage"}
  BY DEF StepFails, StageGeneration, Reached
<1>2. job[i] # NoJob
  BY <1>1, AtPlace DEF Reached
<1>3. /\ j \in JobRow /\ ShapeOK(j) /\ SoloOK(j) /\ PlatformTypes
  BY <1>2, Alone
<1>4. Upheld(i)
  BY StepFailsUpheld, StageGenerationUpheld
<1>5. ~FirstTime(i)
  BY <1>3 DEF SoloOK, FirstTime
<1>6. UNCHANGED <<installed, ledger, interrupted>>
  BY <1>5 DEF StepFails, StageGeneration, homeFiles, counters, Fails
<1>7. PICK l \in {"unlock", "rollback", "backup", "open"} :
         Goto(i, l) /\ (j.mode = "upgrade" => l \in {"rollback", "backup"})
  <2>1. Leave(i) = IF Upgrade(i) THEN "rollback" ELSE "unlock"
    BY DEF Leave
  <2>2. CASE StepFails(i)
    BY <2>1, <2>2 DEF StepFails, Upgrade
  <2>3. CASE StageGeneration(i)
    BY <2>1, <2>3 DEF StageGeneration, Upgrade
  <2> QED BY <2>2, <2>3
<1>8. l \in Places
  BY DEF Places, Staging, Copied, Upgrading
<1>9. Calm(j, l)
  BY <1>1, <1>7 DEF Calm, Before, Staging
<1>10. MovesTo(i, l)
  BY <1>2, <1>3, <1>7, <1>8, GotoMoves
<1> QED BY <1>2, <1>4, <1>6, <1>9, <1>10, CalmStep

\* Of the only job, at a place that only an upgrade reaches.
LEMMA SoloUpgrade ==
    ASSUME UpgradeInv, FenceInv, NEW i \in Installers,
           job[i].at \in {"backup", "copy", "open", "commit", "release", "rollback"}
    PROVE  /\ job[i] # NoJob /\ job[i] \in JobRow /\ PlatformTypes /\ job[i].mode = "upgrade"
           /\ SoloOK(job[i]) /\ UpgradeOK(job[i], ledger) /\ job[i].op # 0
           /\ job[i].old \in Bundles /\ job[i].for \in Bundles
           /\ installed \in Actives /\ installed.gen \in Bundles
           /\ Owned(i)
<1>1. job[i] # NoJob
  BY DEF NoJob
<1>2. /\ \A k \in Installers : k # i => job[k] = NoJob
      /\ job[i] \in JobRow /\ ShapeOK(job[i]) /\ UpgradeOK(job[i], ledger) /\ SoloOK(job[i])
      /\ job[i].for \in Bundles /\ installed \in Actives /\ installed.gen \in Bundles
      /\ PlatformTypes /\ Owned(i)
  BY <1>1, Alone
<1>3. job[i].mode = "upgrade"
  BY <1>2 DEF ShapeOK, SoloOK, Upgrading, Repairing, JobRow
<1> QED BY <1>1, <1>2, <1>3 DEF ShapeOK

LEMMA BackupLedgerFenced ==
    ASSUME UpgradeInv, FenceInv, NEW i \in Installers, BackupLedger(i)
    PROVE  FenceInv'
<1> DEFINE j == job[i]
           r == [j EXCEPT !.at = "copy", !.backup = ledger[j.old]]
<1>1. j.at = "backup"
  BY DEF BackupLedger, Reached
<1>2. /\ job[i] # NoJob /\ job[i] \in JobRow /\ PlatformTypes /\ job[i].mode = "upgrade"
      /\ SoloOK(job[i]) /\ job[i].old \in Bundles /\ job[i].for \in Bundles
      /\ installed.gen \in Bundles /\ Owned(i)
  BY <1>1, SoloUpgrade
<1>3. job' = [job EXCEPT ![i] = r] /\ ledger' = [ledger EXCEPT ![j.for] = Torn]
      /\ UNCHANGED <<installed, interrupted>>
  BY DEF BackupLedger, counters
<1>4. r.at = "copy" /\ r.mode = "upgrade" /\ r.op = j.op /\ r.for = j.for /\ r.old = j.old
  BY <1>2 DEF JobRow
<1>5. job'[i] = r
  BY <1>2, <1>3 DEF PlatformTypes
<1> HIDE DEF r
<1>6. installed.gen = j.old
  BY <1>1, <1>2 DEF SoloOK, Before, Staging
<1>7. SoloOK(job[i])'
  BY <1>3, <1>4, <1>5, <1>6 DEF SoloOK, Switched
<1>8. job'[i] # NoJob /\ Carries(job'[i]) /\ job'[i].op = j.op
  BY <1>4, <1>5 DEF Carries, NoJob
<1>9. IsFenced' => IsFenced /\ ActiveFence' = ActiveFence /\ (Excused => Excused')
  BY <1>2, <1>3, PlatformConstants DEF IsFenced, ActiveFence, Excused, PlatformTypes
<1>10. Owned(i)'
  BY <1>2, <1>8, <1>9 DEF Owned, CarriedBy
<1> QED BY <1>2, <1>7, <1>10, BackupLedgerUpheld, SoloStep

LEMMA CopyLedgerFenced ==
    ASSUME UpgradeInv, FenceInv, NEW i \in Installers, CopyLedger(i)
    PROVE  FenceInv'
<1> DEFINE j == job[i]
<1>1. j.at = "copy"
  BY DEF CopyLedger, Reached
<1>2. /\ job[i] # NoJob /\ job[i] \in JobRow /\ PlatformTypes /\ job[i].mode = "upgrade"
      /\ SoloOK(job[i]) /\ UpgradeOK(job[i], ledger)
      /\ job[i].old \in Bundles /\ job[i].for \in Bundles
      /\ installed.gen \in Bundles /\ Owned(i)
  BY <1>1, SoloUpgrade
<1>3. /\ Goto(i, "open") /\ ledger' = [ledger EXCEPT ![j.for] = j.backup]
      /\ UNCHANGED <<installed, interrupted>>
  BY DEF CopyLedger, counters
<1>4. MovesTo(i, "open")
  BY <1>2, <1>3, GotoMoves DEF Places, Copied
<1>5. installed.gen = j.old
  BY <1>1, <1>2 DEF SoloOK, Before
<1>6. SoloOK(job[i])'
  BY <1>2, <1>3, <1>4, <1>5 DEF SoloOK, Switched, MovesTo, SameWork
<1>7. job'[i] # NoJob /\ Carries(job'[i]) /\ job'[i].op = j.op
  BY <1>2, <1>4 DEF Carries, MovesTo, SameWork
<1>8. Owned(i)'
  <2>1. CASE j.for = installed.gen
    <3>1. Marked(j, j.backup)
      BY <1>1, <1>2 DEF UpgradeOK
    <3>2. ActiveFence'.op = j.op
      BY <1>2, <1>3, <2>1, <3>1 DEF ActiveFence, Marked, PlatformTypes
    <3> QED BY <1>7, <3>2 DEF Owned, CarriedBy
  <2>2. CASE j.for # installed.gen
    <3>1. IsFenced' => IsFenced /\ ActiveFence' = ActiveFence /\ (Excused => Excused')
      BY <1>2, <1>3, <2>2 DEF IsFenced, ActiveFence, Excused, PlatformTypes
    <3> QED BY <1>2, <1>7, <3>1 DEF Owned, CarriedBy
  <2> QED BY <2>1, <2>2
<1> QED BY <1>2, <1>6, <1>8, CopyLedgerUpheld, SoloStep

LEMMA OpenCandidateFenced ==
    ASSUME UpgradeInv, FenceInv, NEW i \in Installers, OpenCandidate(i)
    PROVE  FenceInv'
<1> DEFINE j == job[i]
<1>1. j.at = "open"
  BY DEF OpenCandidate, Reached
<1>2. /\ job[i] # NoJob /\ PlatformTypes /\ j.mode = "upgrade"
      /\ UpgradeOK(j, ledger) /\ j.for \in Bundles
  BY <1>1, SoloUpgrade
<1>3. ledger[j.for] \in Ledgers
  BY <1>1, <1>2 DEF UpgradeOK, Copied
<1>4. ledger' = ledger
  <2>1. ledger' = [ledger EXCEPT ![j.for] = Migrated(ledger[j.for])]
    BY DEF OpenCandidate
  <2> QED BY <1>2, <1>3, <2>1, PlatformConstants DEF Migrated, PlatformTypes
<1>5. MovesTo(i, "commit") /\ UNCHANGED <<installed, interrupted>>
  BY <1>2, GotoMoves DEF OpenCandidate, counters, Places, Copied
<1>6. Calm(j, "commit")
  BY <1>1 DEF Calm, Before
<1> QED BY <1>2, <1>4, <1>5, <1>6, OpenCandidateUpheld, CalmStep

\* The generation that becomes active is fenced for itself, and not ready.
LEMMA CommitFenced ==
    ASSUME UpgradeInv, FenceInv, NEW i \in Installers, CommitActivation(i)
    PROVE  FenceInv'
<1> DEFINE j == job[i]
<1>1. j.at = "commit"
  BY DEF CommitActivation, Reached
<1>2. /\ job[i] # NoJob /\ PlatformTypes /\ j.mode = "upgrade" /\ UpgradeOK(j, ledger)
  BY <1>1, SoloUpgrade
<1>3. /\ Goto(i, "verify") /\ installed'.gen = j.for /\ ~installed'.ready
      /\ UNCHANGED <<ledger, interrupted>>
  BY DEF CommitActivation, counters
<1>4. MovesTo(i, "verify")
  BY <1>2, <1>3, GotoMoves DEF Places, Copied
<1>5. Marked(j, ledger[j.for])
  BY <1>1, <1>2 DEF UpgradeOK, Copied
<1>6. Owned(i)'
  BY <1>3, <1>5 DEF Owned, Excused, ActiveFence, Marked
<1>7. SoloOK(job[i])'
  BY <1>2, <1>3, <1>4 DEF SoloOK, Before, Staging, MovesTo, SameWork
<1> QED BY <1>2, <1>6, <1>7, CommitActivationUpheld, SoloStep

\* What is left of the fence when that of a ledger is taken away.
LEMMA Lifted ==
    ASSUME UpgradeInv, FenceInv, NEW g \in Bundles, Unfences(g), installed' = installed,
           interrupted \subseteq interrupted'
    PROVE  /\ IsFenced' => IsFenced /\ ActiveFence' = ActiveFence
           /\ Interrupted => Interrupted'
<1>1. installed.gen \in Bundles
  BY DEF UpgradeInv, PlatformTypes, FenceInv, Installed, Actives
<1>2. IsFenced' => IsFenced /\ ActiveFence' = ActiveFence
  <2>1. CASE installed.gen # g
    BY <1>1, <2>1 DEF Unfences, IsFenced, ActiveFence
  <2>2. CASE installed.gen = g /\ ledger[g] \in Ledgers
    BY <2>2 DEF Unfences, IsFenced, ActiveFence
  <2>3. CASE installed.gen = g /\ ledger[g] \notin Ledgers
    BY <2>3 DEF Unfences, IsFenced
  <2> QED BY <2>1, <2>2, <2>3
<1> QED BY <1>2 DEF Interrupted

\* A fence that the clearing leaves is one of an operation that was interrupted.
LEMMA ClearFenceFenced ==
    ASSUME UpgradeInv, FenceInv, NEW i \in Installers, ClearFence(i)
    PROVE  FenceInv'
<1> DEFINE j == job[i]
           l == IF Reached(i, "clear") THEN "publish" ELSE "republish"
<1>1. j.at \in {"clear", "reclear"} /\ job[i] # NoJob
  BY DEF ClearFence, NoJob
<1>2. /\ j \in JobRow /\ ShapeOK(j) /\ UpgradeOK(j, ledger) /\ SoloOK(j)
      /\ j.for \in Bundles /\ PlatformTypes /\ Owned(i)
  BY <1>1, Alone
<1>3. IF Reached(i, "clear") THEN j.mode = "upgrade" ELSE j.at = "reclear" /\ j.mode = "repair"
  BY <1>1, <1>2 DEF Reached, ShapeOK, SoloOK, Repairing, JobRow
<1>4. installed.gen = j.for /\ ~installed.ready
  BY <1>1, <1>2, <1>3 DEF SoloOK, Reached, Switched
<1>5. Goto(i, l) /\ installed' = installed /\ l \in {"publish", "republish"}
  BY DEF ClearFence
<1>6. MovesTo(i, l)
  BY <1>1, <1>2, <1>5, GotoMoves DEF Places, Repairing
<1>7. Interrupted'
  <2>1. CASE Reached(i, "clear") /\ ledger' = ClearedOf(j.for, j.op)
    <3>1. Marked(j, ledger[j.for])
      BY <1>2, <1>3, <2>1 DEF UpgradeOK, Copied, Reached
    <3>2. Intact(j.for) /\ ledger[j.for].fence.op = j.op
      BY <1>2, <3>1, IntactIsLedger DEF Marked
    <3>3. ledger'[j.for].fence = NoFence
      BY <1>2, <2>1, <3>1, <3>2 DEF ClearedOf, PlatformTypes, Marked, Ledgers
    <3> QED BY <1>4, <1>5, <3>3 DEF Interrupted, IsFenced, ActiveFence
  <2>2. CASE ~Reached(i, "clear") /\ ledger' = ClearedFor(j.for, j.for)
                /\ interrupted' = interrupted
    <3>1. IsFenced => Excused
      BY <1>3, <2>2, <1>2 DEF Owned, CarriedBy, Carries
    <3>2. CASE Intact(j.for) /\ ledger[j.for].fence.for = j.for
      <4>1. ledger[j.for] \in Ledgers
        BY <1>2, <3>2, IntactIsLedger
      <4>2. ledger'[j.for].fence = NoFence
        BY <1>2, <2>2, <3>2, <4>1 DEF ClearedFor, PlatformTypes, Ledgers
      <4> QED BY <1>4, <1>5, <4>2 DEF Interrupted, IsFenced, ActiveFence
    <3>3. CASE ~(Intact(j.for) /\ ledger[j.for].fence.for = j.for)
      <4>1. ledger' = ledger
        BY <2>2, <3>3 DEF ClearedFor
      <4>2. Interrupted
        BY <1>2, <1>4, <3>1, <3>3, IntactIsLedger DEF Interrupted, Excused, IsFenced, ActiveFence
      <4> QED BY <1>5, <2>2, <4>1, <4>2 DEF Interrupted, IsFenced, ActiveFence
    <3> QED BY <3>2, <3>3
  <2>3. CASE ledger' = ledger /\ interrupted' = interrupted \cup {ledger[j.for].fence.op}
    BY <1>4, <1>5, <2>3 DEF Interrupted, IsFenced, ActiveFence
  <2> QED BY <2>1, <2>2, <2>3 DEF ClearFence, CandidateCleared, counters
<1>8. Owned(i)'
  BY <1>7 DEF Interrupted, Excused, Owned
<1>9. SoloOK(job[i])'
  BY <1>2, <1>4, <1>5, <1>6, <1>7 DEF SoloOK, Before, Staging, MovesTo, SameWork
<1> QED BY <1>1, <1>8, <1>9, ClearFenceUpheld, SoloStep

LEMMA PublishReadyFenced ==
    ASSUME UpgradeInv, FenceInv, NEW i \in Installers, PublishReady(i)
    PROVE  FenceInv'
<1> DEFINE j == job[i]
           l == IF Upgrade(i) THEN "release" ELSE "unlock"
<1>1. j.at \in {"publish", "republish"} /\ job[i] # NoJob
  BY DEF PublishReady, NoJob
<1>2. /\ j \in JobRow /\ ShapeOK(j) /\ SoloOK(j) /\ PlatformTypes /\ installed \in Actives
  BY <1>1, Alone
<1>3. /\ Goto(i, l) /\ l \in {"release", "unlock"} /\ (l = "release" => j.mode = "upgrade")
      /\ installed' = [installed EXCEPT !.ready = TRUE] /\ UNCHANGED <<ledger, interrupted>>
  BY DEF PublishReady, counters, Upgrade
<1> HIDE DEF l
<1>4. MovesTo(i, l)
  BY <1>1, <1>2, <1>3, GotoMoves DEF Places, Upgrading
<1>5. installed'.gen = installed.gen
  BY <1>2, <1>3 DEF Actives
<1>6. Interrupted'
  BY <1>1, <1>2, <1>3, <1>5 DEF SoloOK, Interrupted, IsFenced, ActiveFence
<1>7. Owned(i)'
  BY <1>6 DEF Interrupted, Excused, Owned
<1>8. l = "release" => j.mode = "upgrade" /\ j.at \in Switched
  BY <1>1, <1>2, <1>3 DEF ShapeOK, Repairing, Switched
<1>9. SoloOK(job[i])'
  BY <1>2, <1>3, <1>4, <1>5, <1>6, <1>8 DEF SoloOK, Before, Staging, Switched, MovesTo, SameWork
<1> QED BY <1>1, <1>7, <1>9, PublishReadyUpheld, SoloStep

LEMMA ReleaseOldFenced ==
    ASSUME UpgradeInv, FenceInv, NEW i \in Installers, ReleaseOld(i)
    PROVE  FenceInv'
<1> DEFINE j == job[i]
<1>1. j.at = "release"
  BY DEF ReleaseOld, Reached
<1>2. /\ job[i] # NoJob /\ PlatformTypes /\ j.mode = "upgrade" /\ SoloOK(j) /\ j.old \in Bundles
  BY <1>1, SoloUpgrade
<1>3. /\ Goto(i, "unlock") /\ ledger' = ClearedOf(j.old, j.op)
      /\ UNCHANGED <<installed, interrupted>>
  BY DEF ReleaseOld, counters
<1>4. MovesTo(i, "unlock")
  BY <1>2, <1>3, GotoMoves DEF Places
<1>5. Unfences(j.old)
  BY <1>2, <1>3, ClearedUnfences
<1>6. Interrupted'
  BY <1>1, <1>2, <1>3, <1>5, Lifted DEF SoloOK
<1>7. Owned(i)'
  BY <1>6 DEF Interrupted, Excused, Owned
<1>8. SoloOK(job[i])'
  BY <1>2, <1>4 DEF SoloOK, Before, Staging, Switched, MovesTo, SameWork
<1> QED BY <1>2, <1>7, <1>8, LetGoUpheld, SoloStep

LEMMA RollBackFenced ==
    ASSUME UpgradeInv, FenceInv, NEW i \in Installers, RollBack(i)
    PROVE  FenceInv'
<1> DEFINE j == job[i]
           l == IF j.stopped THEN "bringback" ELSE "unlock"
<1>1. j.at = "rollback"
  BY DEF RollBack, Reached
<1>2. /\ job[i] # NoJob /\ PlatformTypes /\ j.mode = "upgrade" /\ SoloOK(j)
      /\ UpgradeOK(j, ledger) /\ j.old \in Bundles
  BY <1>1, SoloUpgrade
<1>3. installed.gen = j.old
  BY <1>1, <1>2 DEF SoloOK, Before
<1>4. Goto(i, l) /\ l \in {"unlock", "bringback"} /\ installed' = installed
  BY DEF RollBack
<1> HIDE DEF l
<1>5. MovesTo(i, l)
  BY <1>2, <1>4, GotoMoves DEF Places, Upgrading
<1>6. ledger[j.old] \in Ledgers => ledger[j.old].fence.op = j.op
  BY <1>1, <1>2 DEF UpgradeOK, Marked
<1>7. Interrupted'
  <2>1. CASE ledger' = ClearedOf(j.old, j.op) /\ interrupted' = interrupted
    <3>1. CASE ledger[j.old] \in Ledgers
      <4>1. ledger'[j.old].fence = NoFence
        BY <1>2, <1>6, <2>1, <3>1, IntactIsLedger DEF ClearedOf, PlatformTypes, Ledgers
      <4> QED BY <1>3, <1>4, <4>1 DEF Interrupted, IsFenced, ActiveFence
    <3>2. CASE ledger[j.old] \notin Ledgers
      <4>1. ledger' = ledger
        BY <1>2, <2>1, <3>2, IntactIsLedger DEF ClearedOf
      <4> QED BY <1>3, <1>4, <3>2, <4>1 DEF Interrupted, IsFenced
    <3> QED BY <3>1, <3>2
  <2>2. CASE ledger' = ledger /\ interrupted' = interrupted \cup {j.op}
    BY <1>3, <1>4, <1>6, <2>2 DEF Interrupted, IsFenced, ActiveFence
  <2> QED BY <2>1, <2>2 DEF RollBack, counters
<1>8. Owned(i)'
  BY <1>7 DEF Interrupted, Excused, Owned
<1>9. SoloOK(job[i])'
  BY <1>2, <1>4, <1>5 DEF SoloOK, Before, Staging, Switched, MovesTo, SameWork
<1> QED BY <1>2, <1>8, <1>9, LetGoUpheld, SoloStep

\* The Home is read under its lock: a repair finds an activation that stopped,
\* everybody else leaves his mark or goes.
LEMMA ReadInstalledFenced ==
    ASSUME UpgradeInv, FenceInv, NEW i \in Installers, ReadInstalled(i)
    PROVE  FenceInv'
<1> DEFINE j == job[i]
<1>1. j.at = "read"
  BY DEF ReadInstalled, Reached
<1>2. job[i] # NoJob
  BY <1>1 DEF NoJob
<1>3. /\ j \in JobRow /\ ShapeOK(j) /\ SoloOK(j) /\ PlatformTypes /\ Owned(i)
      /\ installed \in Actives /\ installed.gen \in Bundles
  BY <1>2, Alone
<1>4. j.mode = "existing"
  BY <1>1, <1>3 DEF ShapeOK, SoloOK, Repairing, JobRow
<1>5. Upheld(i) /\ UNCHANGED <<installed, interrupted>>
  BY ReadInstalledUpheld DEF ReadInstalled, counters
<1>6. IsFenced => Excused
  BY <1>3, <1>4 DEF Owned, CarriedBy, Carries
<1>7. CASE /\ job' = [job EXCEPT ![i].mode = "repair", ![i].at = "consent"]
           /\ UNCHANGED ledger /\ ~installed.ready /\ installed.gen = j.for
  <2> DEFINE r == [j EXCEPT !.mode = "repair", !.at = "consent"]
  <2>1. r.mode = "repair" /\ r.at = "consent" /\ r.for = j.for
    BY <1>3 DEF JobRow
  <2>2. job'[i] = r
    BY <1>3, <1>7 DEF PlatformTypes
  <2> HIDE DEF r
  <2>3. SoloOK(job[i])'
    BY <1>5, <1>7, <2>1, <2>2 DEF SoloOK
  <2>4. Owned(i)'
    BY <1>5, <1>6, <1>7 DEF Owned, IsFenced, Excused, ActiveFence
  <2> QED BY <1>2, <1>5, <2>3, <2>4, SoloStep
<1>8. CASE FenceOrLeave(i, installed.gen)
  <2> DEFINE g == installed.gen
             f == [op |-> j.op, for |-> j.for]
             r == [j EXCEPT !.mode = "upgrade", !.old = g, !.at = "consent"]
  <2>1. CASE /\ Fenceable(g) /\ ledger' = [ledger EXCEPT ![g].strays = {}, ![g].fence = f]
             /\ job' = [job EXCEPT ![i].mode = "upgrade", ![i].old = g, ![i].at = "consent"]
    <3>1. r.mode = "upgrade" /\ r.at = "consent" /\ r.old = installed.gen /\ r.op = j.op
      BY <1>3 DEF JobRow
    <3>2. job'[i] = r
      BY <1>3, <2>1 DEF PlatformTypes
    <3>3. ledger[g] \in Ledgers
      BY <1>3, <2>1, IntactIsLedger DEF Fenceable
    <3>4. ledger'[g].fence = f
      BY <1>3, <2>1, <3>3 DEF PlatformTypes, Ledgers
    <3>5. ActiveFence'.op = j.op
      BY <1>5, <3>4 DEF ActiveFence
    <3> HIDE DEF r
    <3>6. SoloOK(job[i])'
      BY <1>5, <3>1, <3>2 DEF SoloOK, Switched
    <3>7. job'[i] # NoJob /\ Carries(job'[i])
      BY <3>1, <3>2 DEF Carries, NoJob
    <3>8. Owned(i)'
      BY <3>1, <3>2, <3>5, <3>7 DEF Owned, CarriedBy
    <3> QED BY <1>2, <1>5, <3>6, <3>8, SoloStep
  <2>2. CASE Goto(i, "unlock") /\ UNCHANGED ledger
    <3>1. MovesTo(i, "unlock")
      BY <1>2, <1>3, <2>2, GotoMoves DEF Places
    <3>2. Calm(job[i], "unlock")
      BY <1>1, <1>4 DEF Calm
    <3> QED BY <1>2, <1>5, <2>2, <3>1, <3>2, CalmStep
  <2> QED BY <1>8, <2>1, <2>2 DEF FenceOrLeave
<1>9. Installed
  BY DEF FenceInv
<1> QED BY <1>7, <1>8, <1>9 DEF ReadInstalled

\* Whoever goes away has cleared his fence, or died.
LEMMA EndFenced ==
    ASSUME UpgradeInv, FenceInv, NEW i \in Installers, Unlock(i) \/ InstallerDies(i)
    PROVE  FenceInv'
<1>1. job[i] # NoJob
  BY DEF Unlock, InstallerDies, Reached, NoJob
<1>2. PlatformTypes /\ Owned(i)
  BY <1>1, Alone
<1>3. job'[i] = NoJob /\ UNCHANGED <<installed, ledger>>
  BY <1>2 DEF Unlock, InstallerDies, PlatformTypes, homeFiles
<1>4. Owned(i)'
  <2>1. CASE Unlock(i)
    <3>1. interrupted' = interrupted /\ ~Carries(job[i])
      BY <2>1 DEF Unlock, counters, Reached, Carries
    <3> QED BY <1>2, <1>3, <3>1 DEF Owned, CarriedBy, IsFenced, Excused, ActiveFence
  <2>2. CASE InstallerDies(i)
    <3>1. interrupted' = interrupted \cup {job[i].op}
      BY <2>2 DEF InstallerDies
    <3> QED BY <1>2, <1>3, <3>1 DEF Owned, CarriedBy, IsFenced, Excused, ActiveFence
  <2> QED BY <2>1, <2>2
<1>5. Upheld(i)
  BY EndUpheld
<1> QED BY <1>1, <1>3, <1>4, <1>5, SoloStep

\* An apply begins when nobody else is at work.
LEMMA ApplyFenced ==
    ASSUME UpgradeInv, FenceInv, NEW i \in Installers, NEW b \in Bundles,
           NEW c \in Ops \cup {Nothing}, ApplyLocked(i, b, c)
    PROVE  FenceInv'
<1>1. \A k \in Installers : job[k] = NoJob
  <2> SUFFICES ASSUME NEW k \in Installers, job[k] # NoJob PROVE FALSE
    OBVIOUS
  <2>1. homeLock = k
    BY Alone
  <2> QED BY <2>1, PlatformConstants DEF ApplyLocked
<1>2. NewJob(i, b, c, "existing", "read") /\ UNCHANGED <<installed, ledger, interrupted>>
  BY DEF ApplyLocked, RecoverableFrom, FenceInv, homeFiles
<1>3. /\ job'[i].mode = "existing" /\ job'[i].at = "read"
      /\ \A k \in Installers : k # i => job'[k] = NoJob
  BY <1>1, <1>2 DEF NewJob, UpgradeInv, PlatformTypes
<1>4. SoloOK(job[i])'
  BY <1>3 DEF SoloOK
<1>5. FenceKept'
  BY <1>1, <1>2 DEF FenceInv, FenceKept, CarriedBy, IsFenced, Excused, ActiveFence
<1> QED BY <1>2, <1>3, <1>4, <1>5 DEF FenceInv, Installed

\* In a Home that is installed there is no first installation.
LEMMA NoFirst ==
    ASSUME UpgradeInv, FenceInv, NEW i \in Installers
    PROVE  /\ ~RecordFirstAttempt(i) /\ ~LockHome(i)
           /\ \A b \in Bundles : ~ApplyFirst(i, b)
<1>1. ASSUME job[i].at \in {"attempt", "lock"}
      PROVE  FALSE
  <2>1. job[i] # NoJob
    BY <1>1 DEF NoJob
  <2>2. job[i] \in JobRow /\ ShapeOK(job[i]) /\ SoloOK(job[i])
    BY <2>1, Alone
  <2> QED BY <1>1, <2>2 DEF JobRow, ShapeOK, SoloOK, Repairing
<1> QED BY <1>1 DEF RecordFirstAttempt, LockHome, Reached, ApplyFirst, Empty, FenceInv

\* A poller works on the ledgers, and neither sets nor clears a fence.
LEMMA WorksFenced ==
    ASSUME UpgradeInv, FenceInv, WorksOn
    PROVE  FenceInv'
<1>1. installed.gen \in Bundles
  BY DEF UpgradeInv, PlatformTypes, FenceInv, Installed, Actives
<1>2. /\ IsFenced' <=> IsFenced
      /\ IsFenced => ActiveFence' = ActiveFence
  BY <1>1 DEF WorksOn, Worked, IsFenced, ActiveFence
<1>3. UNCHANGED <<installed, job, interrupted>>
  BY DEF WorksOn
<1>4. Interrupted' <=> Interrupted
  BY <1>2, <1>3 DEF Interrupted
<1>5. ASSUME NEW i \in Installers, job'[i] # NoJob
      PROVE  SoloOK(job[i])'
  BY <1>3, <1>4, <1>5 DEF FenceInv, SoloOK
<1>6. FenceKept'
  BY <1>2, <1>3 DEF FenceInv, FenceKept, Excused, CarriedBy
<1> QED BY <1>3, <1>5, <1>6 DEF FenceInv, Installed

LEMMA FenceNext == UpgradeInv /\ FenceInv /\ [PlatformNext]_platformVars => FenceInv'
<1> SUFFICES ASSUME UpgradeInv, FenceInv, [PlatformNext]_platformVars PROVE FenceInv'
  OBVIOUS
<1>1. ASSUME NEW i \in Installers,
             \/ RecordConsent(i) \/ StopOld(i) \/ Prepare(i) \/ RecordAttempt(i)
             \/ VerifyGeneration(i) \/ VerifyRepair(i) \/ StartActive(i) \/ AwaitReady(i)
             \/ WriteFails(i) \/ BringBack(i) \/ StepFails(i) \/ StageGeneration(i)
      PROVE  FenceInv'
  BY <1>1, CalmSteps, FailedSteps
<1>2. ASSUME NEW i \in Installers,
             \/ \E b \in Bundles : ApplyFirst(i, b)
             \/ \E b \in Bundles, c \in Ops \cup {Nothing} : ApplyLocked(i, b, c)
             \/ ReadInstalled(i) \/ RecordFirstAttempt(i) \/ LockHome(i)
             \/ Unlock(i) \/ InstallerDies(i)
      PROVE  FenceInv'
  BY <1>2, NoFirst, ApplyFenced, ReadInstalledFenced, EndFenced
<1>3. ASSUME NEW i \in Installers,
             \/ BackupLedger(i) \/ CopyLedger(i) \/ OpenCandidate(i) \/ CommitActivation(i)
             \/ ClearFence(i) \/ PublishReady(i) \/ ReleaseOld(i) \/ RollBack(i)
      PROVE  FenceInv'
  BY <1>3, BackupLedgerFenced, CopyLedgerFenced, OpenCandidateFenced, CommitFenced,
     ClearFenceFenced, PublishReadyFenced, ReleaseOldFenced, RollBackFenced
<1>4. CASE InstallerNext
  BY <1>1, <1>2, <1>3, <1>4 DEF InstallerNext
<1>5. CASE ServiceNext \/ UNCHANGED platformVars
  BY <1>5, ServiceWorks, WorksFenced DEF UpgradeInv
<1> QED BY <1>4, <1>5 DEF PlatformNext

LEMMA FenceInit ==
    ASSUME Nothing \notin FirstHomes
    PROVE  PlatformInit => FenceInv
<1> SUFFICES ASSUME PlatformInit PROVE FenceInv
  OBVIOUS
<1>1. PICK b \in FirstHomes :
        /\ installed = IF b = Nothing THEN Nothing
                       ELSE [gen |-> b, ready |-> TRUE, attempt |-> 0, consent |-> 0]
        /\ ledger = [g \in Bundles |-> IF g = b THEN Blank ELSE Nothing]
        /\ job = [i \in Installers |-> NoJob]
  BY DEF PlatformInit
<1>2. b \in Bundles /\ b # Nothing
  BY PlatformConstants
<1>3. installed = [gen |-> b, ready |-> TRUE, attempt |-> 0, consent |-> 0]
  BY <1>1, <1>2
<1>4. Installed
  <2>1. installed \in Actives
    BY <1>2, <1>3 DEF Actives
  <2> QED BY <2>1, PlatformConstants DEF Installed
<1>5. ~IsFenced
  BY <1>1, <1>2, <1>3 DEF IsFenced, ActiveFence, Blank
<1> QED BY <1>1, <1>4, <1>5 DEF FenceInv, FenceKept

\* In a Home that holds a generation from the start, the fence of the active
\* generation is at every step one that somebody will clear, or that an
\* interruption left behind.  In an empty Home a first installation that
\* has read it may be overtaken by a whole installation and an upgrade, and
\* then activates the generation whose fence nobody is going to clear.
THEOREM FenceInvHolds ==
    ASSUME Nothing \notin FirstHomes
    PROVE  PlatformSpec => []FenceInv
<1>1. PlatformInit => FenceInv
  BY FenceInit
<1> QED BY <1>1, FenceNext, UpgradeInvHolds, PTL DEF PlatformSpec

\* In such a Home scheduling is never left paused behind (FenceHasOwner): the
\* fence of a ready generation is that of an upgrade which still runs, or which
\* died or could not clear it.
THEOREM FenceHasOwnerHolds ==
    ASSUME Nothing \notin FirstHomes
    PROVE  PlatformSpec => []FenceHasOwner
<1>1. UpgradeInv /\ FenceInv => FenceHasOwner
  <2> SUFFICES ASSUME UpgradeInv, FenceInv, Installed, installed.ready, Intact(installed.gen),
                      Fenced(installed.gen), ActiveFence.op \notin interrupted
               PROVE  \E i \in Installers : job[i] # NoJob /\ job[i].op = ActiveFence.op
    BY DEF FenceHasOwner, ActiveFence
  <2>1. installed.gen \in Bundles /\ PlatformTypes
    BY DEF UpgradeInv, PlatformTypes, Installed, Actives
  <2>2. IsFenced /\ ~Excused
    BY <2>1, IntactIsLedger DEF IsFenced, Fenced, ActiveFence, Excused
  <2> QED BY <2>2 DEF FenceInv, FenceKept, CarriedBy
<1> QED BY <1>1, UpgradeInvHolds, FenceInvHolds, PTL

=============================================================================
