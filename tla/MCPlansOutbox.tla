--------------------------- MODULE MCPlansOutbox ----------------------------
(***************************************************************************)
(* One instance for two components that meet the Run Store only through    *)
(* rows of their own: the plans with their control process, and the        *)
(* delivery outbox with its gateways.  A behaviour runs one of them while  *)
(* the other stays in one initial state, so the two state spaces add up    *)
(* instead of multiplying.                                                 *)
(***************************************************************************)
EXTENDS Plans, DeliveryOutbox, TLC

CONSTANTS push, pull, note, project, in1, in2, g1, g2, o1

VARIABLE scope    \* the component that runs

-----------------------------------------------------------------------------
(* The outbox: a run's push and pull request, a comment, the projection of *)
(* a plan, and two generations of the inbox.                               *)

MCOp == push :> "push" @@ pull :> "pull" @@ note :> "note" @@ project :> "plan"
        @@ in1 :> "inbox" @@ in2 :> "inbox"
MCGen == push :> 0 @@ pull :> 0 @@ note :> 0 @@ project :> 0 @@ in1 :> 1 @@ in2 :> 2
MCBatches == {{push, pull}, {note}, {project}, {in1, in2}}

-----------------------------------------------------------------------------
(* The plans.                                                              *)

Graph(tickets, blocks) == [tickets |-> tickets, blocks |-> blocks]
Change(t, remove, add, link, unlink) ==
    [ticket |-> t, remove |-> remove, add |-> add, link |-> link, unlink |-> unlink]

\* Two tickets, the second blocked by the first: either may drop the second.
Chain == [graph |-> 1 :> Graph({"a", "b"}, {<<"b", "a">>}),
          changes |-> {Change("a", {"b"}, {}, {}, {<<"b", "a">>}),
                       Change("b", {"b"}, {}, {}, {<<"b", "a">>}),
                       Change("b", {}, {"c"}, {<<"b", "c">>}, {})}]
\* Two independent tickets that propose independent changes.
Pair == [graph |-> 1 :> Graph({"a", "b"}, {}),
         changes |-> {Change("a", {}, {"c"}, {}, {}),
                      Change("b", {}, {}, {<<"b", "a">>}, {})}]
\* Two plans.
Two == [graph |-> 1 :> Graph({"a"}, {}) @@ 2 :> Graph({"b", "c"}, {}), changes |-> {}]
\* A plan that is amended while another one keeps the control process going.
Mixed == [graph |-> 1 :> Graph({"a"}, {}) @@ 2 :> Graph({"b"}, {}),
          changes |-> {Change("a", {}, {"c"}, {<<"a", "c">>}, {}),
                       Change("c", {"a"}, {}, {}, {<<"a", "c">>})}]
MCSettings == {Chain, Pair, Two, Mixed}

-----------------------------------------------------------------------------

Init ==
    /\ scope \in {"plans", "outbox"}
    /\ PlansInit /\ OutboxInit
    /\ scope = "plans" => requests = {note}
    /\ scope = "outbox" => setting = Two

Next ==
    \/ scope = "plans" /\ PlansNext /\ UNCHANGED <<outboxVars, scope>>
    \/ scope = "outbox" /\ OutboxNext /\ UNCHANGED <<plansVars, scope>>

Spec == Init /\ [][Next]_<<plansVars, outboxVars, scope>>
=============================================================================
