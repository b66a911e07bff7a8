\* The deletion, cut off and repeated, beside a payer who returns, also with a
\* subscription bought while the cancelled one is live.
SPECIFICATION FairSpec
CONSTANTS
  Requests = {r1, r2}
  Subs = {1, 2}
  Callers = {c1}
  Objects = {o1, o2, o3}
  Batch = 2
  Overlap = {2}
  MaxAttempts = 2
  MaxEvents = 3
  MaxCalls = 3
  MaxFaults = 1
INVARIANTS
  CondemnedHasJob
  AtMostOneLate
  DeletedIsComplete
PROPERTIES
  CondemnedIsSettled
  DeletionIsAnnounced
CHECK_DEADLOCK FALSE
