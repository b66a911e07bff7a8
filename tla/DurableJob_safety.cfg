\* Replays, restarts and roll-backs against every safety property.
SPECIFICATION Spec
CONSTANTS
  j1 = j1
  c2 = c2
  j2 = j2
  t1 = t1
  t2 = t2
  NoJob = NoJob
  Intents = {j1, c2, j2}
  Cancels = {c2}
  Txs = {t1, t2}
  Program <- MCProgram
  MaxAttempts = 2
  MaxUnsettled = 2
  MaxDeliveries = 2
  MaxCrashes = 1
INVARIANTS
  OnlyCommittedApplies
  AppliedAtMostOnce
  AcknowledgedIsStored
  NeverStranded
  LatestIntentDecides
  FailureIsReported
PROPERTIES
  NoSupersededRun
CHECK_DEADLOCK FALSE
