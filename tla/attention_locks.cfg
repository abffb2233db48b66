\* Three contending calls on two items, over a database with row locks.
CONSTANTS
  Items = {i1, i2}
  Reviewers = {r1, r2}
  NoOne = NoOne
  Calls = {c1, c2, c3}
  RowLocks = TRUE
SPECIFICATION FairSpec
INVARIANTS TypeOK OneTaker VersionCounts OwnerResolves
PROPERTIES ResolvedIsTerminal ImplementsQueue EveryCallAnswered
CHECK_DEADLOCK FALSE
