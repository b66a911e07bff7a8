\* Two targets publish side by side and nothing goes wrong.
SPECIFICATION Spec
CONSTANTS
  a = a
  b = b
  c = c
  Targets = {a, b}
  First = {a, b}
  Resumable = {}
  Unguarded = {}
  MaxAttempts = 1
  MaxCommands = 0
  MaxFaults = 0
INVARIANTS
  PostSummarizesTargets
CHECK_DEADLOCK FALSE
