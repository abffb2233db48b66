\* The same calls over SQLite, which takes no row lock.
CONSTANTS
  Items = {i1}
  Reviewers = {r1, r2}
  NoOne = NoOne
  Calls = {c1, c2, c3}
  RowLocks = FALSE
SPECIFICATION Spec
SYMMETRY Interchangeable
PROPERTIES ResolvedIsTerminal
CHECK_DEADLOCK FALSE
