\* Any number of commands and decisions, two of which overlap.
SPECIFICATION Spec
CONSTANTS
  text1 = text1
  text2 = text2
  s1 = s1
  s2 = s2
  e1 = e1
  c1 = c1
  c2 = c2
  Contents = {text1, text2}
  Slots = {s1, s2}
  Editors = {e1}
  Admin = "admin"
  Callers = {c1, c2}
SYMMETRY Symmetry
INVARIANTS
  UnreviewedIsExcused
  ReviewMatchesContent
CHECK_DEADLOCK FALSE
