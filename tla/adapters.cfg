CONSTANTS
  maker = maker
  c1 = c1
  c2 = c2
  Calls <- MCCalls
  Work <- MCWork
  MaxAttempts = 2
  MaxVersion = 1
SPECIFICATION Spec
SYMMETRY Interchangeable
CHECK_DEADLOCK FALSE
INVARIANTS
  TypeOK
  AnswersAreTrue
  OneIsTold
  OldEvidenceOnlyAfterFailure
