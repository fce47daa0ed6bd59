SPECIFICATION Spec
CONSTANTS
  Settings <- MCSettings
  MaxParallelRuns = 2
  MaxAmendments = 2
  MaxCloses = 1
  Nil = Nil
  push = push pull = pull note = note project = project in1 = in1 in2 = in2
  g1 = g1 g2 = g2 o1 = o1
  Keys = {push, pull, note, project, in1, in2}
  Op <- MCOp
  Gen <- MCGen
  Batches <- MCBatches
  Gateways = {g1, g2}
  Owners = {o1}
  None = None
  Lost = Lost
  MaxDeliveryAttempts = 2
  MaxFaults = 1
INVARIANTS PlansTypeOK RunsAreCurrent PausedIsIdle StoppedIsAskable CompletedIsDelivered ActivatedIsShown
           OutboxTypeOK WrittenOnce SuccessIsReal PullAfterPush InboxShown BlockedIsAskable
PROPERTIES DeliveredIsKept FairTurn InboxFence SettledIsFinal
CHECK_DEADLOCK FALSE
