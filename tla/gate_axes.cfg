\* One evaluation: every adapter outcome, every branch of the decision table.
CONSTANTS
  Evals = {e1}
  Callers = {"alice", "root", "anonymous"}
  Tenants = {"t1"}
  TenantOf <- OneTenantOf
  Admins = {"root"}
  Admitted = {"alice", "root"}
  Runs = {"r1"}
  Actions <- AxesActions
  Roles <- MCRoles
  ApprovalMatrix <- MCMatrix
  RiskLevels = {"low", "high", "critical"}
  Fallible = {"taskstate", "protocols", "memx", "workflow", "gatefield", "shipyard"}
  TaskViews <- AxesTasks
  RunViews <- AxesRuns
  Strengths <- AxesStrengths
  Packets <- AxesPackets
  Policies = {"v0", "v1"}
  ConfigVersion = "v1"
  AuditIds = {"a1"}
  NoAudit = NoAudit
SPECIFICATION Spec
INVARIANTS TypeOK VerdictIsStrictestGround FailSafe AllowIsEarned ReplayVerifies
CHECK_DEADLOCK FALSE
