\* The status changes of one item, against the documented ones.
CONSTANTS
  Items = {i1}
  Reviewers = {r1}
  NoOne = NoOne
  Roles = {"owner", "project_lead", "governance_board"}
  GovernanceBoard = "governance_board"
  Ack <- MCAck
  Decide <- MCDecide
  Chain <- MCChain
  MaxClock = 4
  MaxLevel = 2
SPECIFICATION Spec
PROPERTIES MovesAreDocumented
CHECK_DEADLOCK FALSE
