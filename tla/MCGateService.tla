--------------------------- MODULE MCGateService ---------------------------
(* Small instances of GateService for TLC.  A record of views keeps only   *)
(* the values on the two sides of each threshold the code compares with.   *)
EXTENDS GateService

\* protocols_adapter.APPROVAL_MATRIX, lines 47-58.
MCRoles  == {"project_lead", "security_reviewer", "release_manager"}
MCMatrix == [low |-> {}, medium |-> {},
             high |-> {"project_lead", "security_reviewer"}, critical |-> MCRoles]

Unmet(critical, high) == [rate |-> 50, critical |-> critical, high |-> high]
Task(hard, sla, obligation) == [hard |-> hard, sla |-> sla, obligation |-> obligation]
Run(approved, bundle) == [hard |-> FALSE, sla |-> FALSE, approved |-> approved,
                          bundle |-> bundle]
Packet(decision, uncertainty, corrections, policy) ==
  [decision |-> decision, uncertainty |-> uncertainty, corrections |-> corrections,
   policy |-> policy]

(* One evaluation, every branch of the fold and of the decision table.     *)
OneTenantOf   == [c \in Callers |-> "t1"]
AxesActions   == {"edit", "publish"}
AxesTasks     == {Task(h, s, Fulfilled) : h, s \in BOOLEAN}
                   \cup {Task(FALSE, FALSE, Unmet(c, h)) : c, h \in BOOLEAN}
AxesRuns      == {Run(MCRoles, FALSE), Run({}, TRUE)}
AxesStrengths == {84, 85}
AxesPackets   == {Packet("pass", 0, 0, "v1"), Packet("pass", 0, 0, "v0"),
                  Packet("block", 0, 0, "v1"),
                  Packet("warn", 15, 1, "v1"), Packet("warn", 15, 2, "v1"),
                  Packet("warn", 14, 2, "v1"),
                  Packet("hold", 24, 0, "v1"), Packet("hold", 25, 0, "v1")}

(* Concurrent evaluations of two tenants over one run name.                *)
PairTenantOf == [c \in Callers |-> IF c = "alice" THEN "t1" ELSE "t2"]
PairTasks    == {Task(FALSE, FALSE, Fulfilled)}
PairRuns     == {Run({}, FALSE)}
PairPackets  == {Packet("pass", 0, 0, "v1"), Packet("hold", 0, 0, "v1")}
=============================================================================
