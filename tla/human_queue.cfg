\* Two items, every severity, sweeps at every tick.
CONSTANTS
  Items = {i1, i2}
  Reviewers = {r1}
  NoOne = NoOne
  Roles = {"owner", "project_lead", "governance_board"}
  GovernanceBoard = "governance_board"
  Ack <- MCAck
  Decide <- MCDecide
  Chain <- LongChain
  MaxClock = 4
  MaxLevel = 2
SPECIFICATION Spec
SYMMETRY Interchangeable
INVARIANTS TypeOK ClimbsOncePerTurn
PROPERTIES SweepSettles OnlyEscalationReopens
CHECK_DEADLOCK FALSE
