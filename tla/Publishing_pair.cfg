\* Two targets whose transactions overlap, with one command and one failure; c
\* takes their place when the post is updated.
SPECIFICATION Spec
CONSTANTS
  a = a
  b = b
  c = c
  Targets = {a, b, c}
  First = {a, b}
  Resumable = {}
  Unguarded = {b}
  MaxAttempts = 1
  MaxCommands = 1
  MaxFaults = 1
INVARIANTS
  PublishedMeansAll
PROPERTIES
  ImplementsPublication
CHECK_DEADLOCK FALSE
