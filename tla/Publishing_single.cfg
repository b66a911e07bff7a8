\* One resumable target through three commands and two failures.
SPECIFICATION FairSpec
CONSTANTS
  a = a
  b = b
  c = c
  Targets = {a}
  First = {a}
  Resumable = {a}
  Unguarded = {}
  MaxAttempts = 2
  MaxCommands = 3
  MaxFaults = 2
INVARIANTS
  OneCreationPerRequest
  NoneIsStranded
  ConfirmedIsPublished
PROPERTIES
  RequestsSettle
  ConfirmedSettles
CHECK_DEADLOCK FALSE
