--------------------------- MODULE MCPollPlatform ---------------------------
(***************************************************************************)
(* One instance for two components that share no state: the GitHub poller  *)
(* with its lease and failure budget, and the platform installation.  A    *)
(* behaviour runs one of them while the other stays in one initial state,  *)
(* so the two state spaces add up instead of multiplying.                  *)
(***************************************************************************)
EXTENDS GitHubPoll, Platform, TLC

CONSTANTS poller1, poller2, plan1, plan2,    \* two passes and two plans
          bundle1, bundle2, setup1, setup2   \* two bundles and two installers

VARIABLE scope    \* the component that runs

\* Two roots, each polled by a pass of its own; their plans are the two, or
\* one of them.
OwnPlans == (poller1 :> plan1) @@ (poller2 :> plan2)
MCRoots == {OwnPlans, (poller1 :> plan1) @@ (poller2 :> plan1), (poller1 :> plan2) @@ (poller2 :> plan2)}

\* Swapping both the passes and the plans, or the installers, changes nothing.
Swaps == {(poller1 :> poller2) @@ (poller2 :> poller1) @@ (plan1 :> plan2) @@ (plan2 :> plan1)}
         \cup Permutations({setup1, setup2})

Init ==
    /\ scope \in {"poll", "platform"}
    /\ PollInit /\ PlatformInit
    /\ scope = "poll" => installed = Nothing
    /\ scope = "platform" => rootOf = OwnPlans

\* Bounds: one plan at a time is closed or replaced; a claimed run takes the
\* place of one of the mishaps.
OneImpact == Cardinality(impact \cup {v \in PlanIds : replacement[v] # Nobody}) <= 1
RunsInsteadOfMishaps == claimed + mishaps <= MaxMishaps

Next ==
    \/ scope = "poll" /\ PollNext /\ UNCHANGED <<platformVars, scope>>
    \/ scope = "platform" /\ PlatformNext /\ UNCHANGED <<pollVars, scope>>

Spec == Init /\ [][Next]_<<pollVars, platformVars, scope>>
=============================================================================
