\* Two runs that overlap, also across midnight, with decisions, interruptions
\* and maintenance in any order.
SPECIFICATION Spec
CONSTANTS
  r1 = r1
  r2 = r2
  a1 = a1
  a2 = a2
  Runs = {r1, r2}
  Asking = {r1}
  Actions = {a1, a2}
  MaxConcurrent = 1
  Turns = 2
  Daily = 1
  MaxFaults = 1
SYMMETRY Symmetry
INVARIANTS
  SpendIsBounded
  EndedIsSettled
  DecisionsCount
PROPERTIES
  EndIsFinalUnlessCut
CHECK_DEADLOCK FALSE
