---------------------------- MODULE MCWorkerRuns ----------------------------
(* Instances of WorkerRuns for TLC. *)
EXTENDS WorkerRuns, TLC

CONSTANT t1

Alone == (t1 :> {})

\* Control and the goroutine of each run.
Callers == 0..MaxGen

=============================================================================
