\* An event that is delivered twice, two invocations, and a DM beside another.
SPECIFICATION Spec
CONSTANTS
  opening = opening
  check = check
  reward = reward
  again = again
  i1 = i1
  i2 = i2
  End = End
  Text = Text
  Invocations = {i1, i2}
  Comments = {"comment"}
  Messages = {"taps opening"}
  Taps <- MCTaps
  Dms = {opening, reward, again}
  Waits = {opening, again}
  Conditions = {check}
  First = opening
  Then <- MCThen
  OnTap <- MCOnTap
  Outcomes <- MCOutcomes
  StepLimit = 4
  SoftLimit = 2
  MaxSessions = 2
  MaxMonths = 1
  MaxLapses = 1
  MaxFaults = 1
SYMMETRY Symmetry
INVARIANTS
  TypeOK
  HandledByOne
  RepeatsAreExcused
  CommentIsAnsweredOnce
  SoftLimitHolds
CHECK_DEADLOCK FALSE
