\* Uploads, an import that is taken over, deletions and sweeps side by side, with
\* jobs that fail as often as they have attempts.
SPECIFICATION Spec
CONSTANTS
  c1 = c1
  c2 = c2
  Callers = {c1, c2}
  Keys = {"key"}
  Limit = 2
  MaxAttempts = 2
  MaxFiles = 2
  MaxCommands = 2
  MaxFaults = 2
SYMMETRY Symmetry
INVARIANTS
  StorageIsCounted
  LiveHasObject
  ImportIsSingle
  NothingLeaks
CHECK_DEADLOCK FALSE
