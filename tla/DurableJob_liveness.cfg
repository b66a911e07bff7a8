\* The object keeps the promise of JobLedger, and every receipt and job gets its due.
SPECIFICATION FairSpec
CONSTANTS
  j1 = j1
  c2 = c2
  j2 = j2
  t1 = t1
  t2 = t2
  NoJob = NoJob
  Intents = {j1, c2, j2}
  Cancels = {c2}
  Txs = {t1, t2}
  Program <- MCProgram
  MaxAttempts = 1
  MaxUnsettled = 2
  MaxDeliveries = 1
  MaxCrashes = 1

PROPERTIES
  ImplementsLedger
  CommittedTakesEffect
  ReceiptsAreReclaimed
  JobsAreNotForgotten
CHECK_DEADLOCK FALSE
