----------------------------- MODULE MCRunStore -----------------------------
(* Instances of RunStore for TLC. *)
EXTENDS RunStore, TLC

CONSTANTS t1, t2, poller, operator

\* One ticket, nothing blocks it.
Alone == (t1 :> {})

\* Two tickets that compete for the capacity.
Independent == (t1 :> {}) @@ (t2 :> {})

\* The second ticket waits for the first.
Chain == (t1 :> {}) @@ (t2 :> {t1})

\* Bound: the second ticket stays in its first generation, while the first one
\* goes on to the delivery that is claimed again; no poll escalates them.
Lopsided == session[t2].gen <= 1 /\ \A t \in Ticket : "poll_failure" \notin questions[t]

=============================================================================
