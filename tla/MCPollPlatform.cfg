SPECIFICATION Spec
CONSTANTS
  poller1 = poller1 poller2 = poller2 plan1 = plan1 plan2 = plan2
  Nobody = Nobody
  Passes = {poller1, poller2}
  PlanIds = {plan1, plan2}
  ConfiguredRoots <- MCRoots
  MaxPollFailures = 2
  MaxPollFaults = 1
  bundle1 = bundle1 bundle2 = bundle2 setup1 = setup1 setup2 = setup2
  Bundles = {bundle1, bundle2}
  Installers = {setup1, setup2}
  FirstHomes = {bundle1, Nothing}
  MaxApplies = 2
  MaxMishaps = 2
  MaxClaims = 1
  Nothing = Nothing
  Torn = Torn
  Stale = Stale
CONSTRAINTS OneImpact RunsInsteadOfMishaps
SYMMETRY Swaps
INVARIANTS PollTypeOK NoWorkPastBudget BudgetBound UpgradeKeepsRuns FenceHasOwner
PROPERTIES CursorFence PauseIsSticky
CHECK_DEADLOCK FALSE
