\* Two calls of the service and the events of two subscriptions in any order.
SPECIFICATION Spec
CONSTANTS
  Requests = {r1, r2}
  Subs = {1, 2}
  Callers = {c1, c2}
  Objects = {o1}
  Batch = 1
  Overlap = {}
  MaxAttempts = 2
  MaxEvents = 3
  MaxCalls = 4
  MaxFaults = 1
SYMMETRY Symmetry
INVARIANTS
  TypeOK
  CondemnedHasEnded
CHECK_DEADLOCK FALSE
