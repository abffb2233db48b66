\* Two assessments, with one change of what they are given.
CONSTANTS
  Items = {i1, i2}
  Acceptances = {a, b}
  Required = {a, b}
  Roles = {r}
  Packets <- MCPackets
  Obligations <- MCObligations
  MaxAssessments = 2
  MaxChanges = 1
  MaxFiled = 1
SPECIFICATION Spec
SYMMETRY Interchangeable
INVARIANTS TypeOK TraceNamesCauses AdviceSuffices ApprovalOutlivesOnlyUnhashed RetentionAgrees MiscountHasCause
CHECK_DEADLOCK FALSE
