\* Two evaluations of one run: replay as of the time of the first.
CONSTANTS
  Evals = {e1, e2}
  Callers = {"alice", "bob"}
  Tenants = {"t1", "t2"}
  TenantOf <- PairTenantOf
  Admins = {}
  Admitted = {"alice", "bob"}
  Runs = {"r1"}
  Actions = {"edit"}
  Roles <- MCRoles
  ApprovalMatrix <- MCMatrix
  RiskLevels = {"low"}
  Fallible = {"memx"}
  TaskViews <- PairTasks
  RunViews <- PairRuns
  Strengths = {85}
  Packets <- PairPackets
  Policies = {"v1"}
  ConfigVersion = "v1"
  AuditIds = {"a1", "a2"}
  NoAudit = NoAudit
SPECIFICATION Spec
INVARIANTS ReplayFindsHistory
CHECK_DEADLOCK FALSE
