\* Every list of up to four assessments, revealed one at a time.
SPECIFICATION Spec
CONSTANTS
  Subjects = {s1, s2}
  Diffs = {d1, d2}
  s1 = s1
  s2 = s2
  d1 = d1
  d2 = d2
  MaxLen = 4
SYMMETRY Interchangeable
INVARIANTS
  TypeOK
  WinnerIsStrictest
  NoHiddenDiff
  EscalationIsReal
CHECK_DEADLOCK FALSE
