\* An event that overtakes the subscription.active before it.
SPECIFICATION Spec
CONSTANTS
  Requests = {r1}
  Subs = {1, 2}
  Callers = {c1}
  Objects = {o1}
  Batch = 1
  Overlap = {}
  MaxAttempts = 2
  MaxEvents = 5
  MaxCalls = 2
  MaxFaults = 0
SYMMETRY Symmetry
PROPERTIES
  PayerIsNotDeleted
CHECK_DEADLOCK FALSE
