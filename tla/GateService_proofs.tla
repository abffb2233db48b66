------------------------- MODULE GateService_proofs -------------------------
(***************************************************************************)
(* Proofs about GateService, for every set of evaluations, callers, runs   *)
(* and adapter answers.  TLC checks the same formulas on the instances of  *)
(* MCGateService.                                                          *)
(***************************************************************************)
EXTENDS GateService, Verdicts_proofs, TLAPS

-----------------------------------------------------------------------------
(* Verdicts.  Verdicts_proofs has the facts about the algebra itself.      *)

\* An axis contributes a verdict.
LEMMA ContributionType ==
  ASSUME NEW axis, NEW ok, NEW level, NEW action
  PROVE  Contribution(axis, ok, level, action) \in Verdicts
  BY FailureVerdictFloor DEF Contribution, Verdicts

\* The decision table is total on what evaluate can have read.
LEMMA TransformedType ==
  ASSUME NEW context \in ContextType, NEW admin
  PROVE  Transformed(context, admin) \in Verdicts
  <1>1. CASE context.packet = NoPacket
    BY <1>1 DEF Transformed, Verdicts
  <1>2. CASE context.packet # NoPacket
    <2>1. context.packet.decision \in Decisions /\ context.fresh \in BOOLEAN
      BY <1>2 DEF ContextType, PacketType
    <2>2. /\ PassVerdict(context.obligation, context.strength) \in Verdicts
          /\ WarnVerdict(context.packet, context.required, admin) \in Verdicts
          /\ HoldVerdict(context.packet, context.required \ context.approved, FALSE) \in Verdicts
      BY DEF PassVerdict, WarnVerdict, HoldVerdict, ObligationVerdict, Verdicts
    <2>3. QED
      BY <1>2, <2>1, <2>2 DEF Transformed, ResolveVerdict, Decisions, Verdicts
  <1>3. QED
    BY <1>1, <1>2

\* A safety indicator contributes a verdict.
LEMMA DenyIfType ==
  ASSUME NEW condition
  PROVE  DenyIf(condition) \in {"deny", "allow"} /\ DenyIf(condition) \in Verdicts
  BY DEF DenyIf, Verdicts

\* What Fold does to the running verdict.
LEMMA FoldIsMax ==
  ASSUME TypeOK, NEW e \in Evals, NEW first \in Verdicts, NEW second \in Verdicts,
         Fold(e, first, second)
  PROVE  /\ verdict' \in [Evals -> Verdicts]
         /\ \A f \in Evals : f # e => verdict'[f] = verdict[f]
         /\ verdict'[e] \in {verdict[e], first, second}
         /\ AtLeast(verdict'[e], verdict[e])
         /\ AtLeast(verdict'[e], first)
         /\ AtLeast(verdict'[e], second)
  <1> DEFINE mid == MoreRestrictive(verdict[e], first)
             end == MoreRestrictive(mid, second)
  <1>1. verdict \in [Evals -> Verdicts] /\ verdict[e] \in Verdicts
    BY DEF TypeOK
  <1>2. mid \in Verdicts /\ mid \in {verdict[e], first}
        /\ AtLeast(mid, verdict[e]) /\ AtLeast(mid, first)
    BY <1>1, MoreRestrictiveIsMax
  <1>3. end \in Verdicts /\ end \in {mid, second} /\ AtLeast(end, mid) /\ AtLeast(end, second)
    BY <1>2, MoreRestrictiveIsMax
  <1>4. AtLeast(end, verdict[e]) /\ AtLeast(end, first)
    BY <1>1, <1>2, <1>3, AtLeastOrder
  <1>5. verdict' = [verdict EXCEPT ![e] = end]
    BY DEF Fold
  <1>6. QED
    BY <1>1, <1>2, <1>3, <1>4, <1>5
-----------------------------------------------------------------------------
(* Type correctness.                                                       *)

\* An evaluation about to write its snapshot has the id of its audit packet.
AuditNamed == \A e \in Evals : pc[e] = "snapshot" => auditId[e] \in AuditIds

TypeInv == TypeOK /\ AuditNamed

\* The initial state is well typed.
LEMMA TypeInit == Init => TypeInv
  BY GateAssumptions
  DEF Init, TypeInv, TypeOK, AuditNamed, PCs, Verdicts, Risks, NothingKnown, ContextType,
      ObligationType, Fulfilled, Percent

\* Every step keeps the evaluations' variables and the tables well typed.
LEMMA TypeStep == TypeInv /\ [Next]_vars => TypeInv'
  <1> SUFFICES ASSUME TypeOK, AuditNamed, [Next]_vars PROVE TypeOK' /\ AuditNamed'
    BY DEF TypeInv
  <1> USE GateAssumptions
  <1>1. ASSUME NEW e \in Evals, Start(e) PROVE TypeOK'
    BY <1>1 DEF TypeOK, Start, Goto, tables, PCs, AdapterPhase, WritePhase, Ended
  <1>a. ASSUME NEW e \in Evals, NEW axis \in Axes, NEW ok, NEW level, NoteAxis(e, axis, ok, level)
        PROVE  /\ lost' \in [Evals -> SUBSET Axes]
               /\ applied' \in [Evals -> [Axes -> Verdicts]]
    BY <1>a, ContributionType DEF TypeOK, NoteAxis
  <1>2. ASSUME NEW e \in Evals, ReadTaskstate(e) PROVE TypeOK'
    <2>1. PICK taskOk \in Answers("taskstate"), runOk \in Answers("taskstate"),
               bundleOk \in Answers("taskstate"), task \in TaskViews, run \in RunViews :
            ReadTaskstate(e)!2!(taskOk, runOk, bundleOk, task, run)
      BY <1>2 DEF ReadTaskstate
    <2> DEFINE t  == IF taskOk THEN task ELSE NoTask
               r  == IF runOk THEN run ELSE NoRun
               ok == taskOk /\ runOk /\ (r.bundle => bundleOk)
    <2>2. t \in TaskType /\ r \in RunType
      BY DEF NoTask, NoRun, TaskType, RunType, Fulfilled, ObligationType, Percent
    <2>3. /\ NoteAxis(e, "taskstate", ok, risk[e])
          /\ Fold(e, Contribution("taskstate", ok, risk[e], req[e].action), "allow")
          /\ known' = [known EXCEPT ![e].hard = t.hard \/ r.hard, ![e].sla = t.sla \/ r.sla,
                       ![e].obligation = t.obligation, ![e].approved = r.approved]
      BY <2>1
    <2>4. known' \in [Evals -> ContextType]
      <3>1. known[e] \in ContextType
        BY DEF TypeOK
      <3> HIDE DEF t, r
      <3>2. [known[e] EXCEPT !.hard = t.hard \/ r.hard, !.sla = t.sla \/ r.sla,
               !.obligation = t.obligation, !.approved = r.approved] \in ContextType
        BY <3>1, <2>2 DEF ContextType, TaskType, RunType
      <3>3. QED
        BY <2>3, <3>2 DEF TypeOK
    <2>5. verdict' \in [Evals -> Verdicts]
      BY <2>3, FoldIsMax, ContributionType DEF Verdicts
    <2>6. QED
      BY <1>2, <1>a, <2>3, <2>4, <2>5 DEF TypeOK, ReadTaskstate, Goto, tables, PCs,
         AdapterPhase, Axes
  <1>3. ASSUME NEW e \in Evals, ReadProtocols(e) PROVE TypeOK'
    <2>1. PICK level \in RiskLevels, riskOk \in Answers("protocols"),
               approvalsOk \in Answers("protocols") :
            ReadProtocols(e)!2!(level, riskOk, approvalsOk)
      BY <1>3 DEF ReadProtocols
    <2> DEFINE ok == riskOk /\ approvalsOk
               at == IF riskOk THEN level ELSE risk[e]
    <2>2. at \in Risks /\ risk[e] \in Risks /\ known[e] \in ContextType
      BY DEF TypeOK
    <2>3. /\ risk' = [risk EXCEPT ![e] = at]
          /\ known' = [known EXCEPT ![e].required = IF ok THEN ApprovalMatrix[at] ELSE {}]
          /\ NoteAxis(e, "protocols", ok, at)
          /\ Fold(e, Contribution("protocols", ok, at, req[e].action), DenyIf(known[e].hard))
      BY <2>1
    <2>4. known' \in [Evals -> ContextType]
      <3> DEFINE roles == IF ok THEN ApprovalMatrix[at] ELSE {}
      <3>1. roles \in SUBSET Roles
        BY <2>2
      <3> HIDE DEF roles, ok, at
      <3>2. [known[e] EXCEPT !.required = roles] \in ContextType
        BY <2>2, <3>1 DEF ContextType
      <3>3. known' = [known EXCEPT ![e].required = roles]
        BY <2>3 DEF roles
      <3>4. QED
        BY <3>2, <3>3 DEF TypeOK
    <2>5. verdict' \in [Evals -> Verdicts]
      BY <2>3, FoldIsMax, ContributionType, DenyIfType
    <2>6. risk' \in [Evals -> Risks]
      BY <2>2, <2>3 DEF TypeOK
    <2>7. QED
      BY <1>3, <1>a, <2>3, <2>4, <2>5, <2>6 DEF TypeOK, ReadProtocols, Goto, tables, PCs,
         AdapterPhase, Axes
  <1>4. ASSUME NEW e \in Evals, ReadMemx(e) PROVE TypeOK'
    <2>1. PICK ok \in Answers("memx"), fresh \in BOOLEAN : ReadMemx(e)!2!(ok, fresh)
      BY <1>4 DEF ReadMemx
    <2>2. known' \in [Evals -> ContextType]
      <3> DEFINE f == ok /\ fresh
      <3>1. f \in BOOLEAN /\ known[e] \in ContextType
        BY DEF TypeOK
      <3>2. known' = [known EXCEPT ![e].fresh = f]
        BY <2>1
      <3> HIDE DEF f
      <3>3. [known[e] EXCEPT !.fresh = f] \in ContextType
        BY <3>1 DEF ContextType
      <3>4. QED
        BY <3>2, <3>3 DEF TypeOK
    <2>3. verdict' \in [Evals -> Verdicts]
      BY <2>1, FoldIsMax, ContributionType DEF Verdicts
    <2>4. QED
      BY <1>4, <1>a, <2>1, <2>2, <2>3 DEF TypeOK, ReadMemx, Goto, tables, PCs,
         AdapterPhase, Axes
  <1>5. ASSUME NEW e \in Evals, ReadWorkflow(e) PROVE TypeOK'
    <2>1. PICK ok \in Answers("workflow"), strength \in Strengths :
            ReadWorkflow(e)!2!(ok, strength)
      BY <1>5 DEF ReadWorkflow
    <2>2. known' \in [Evals -> ContextType]
      <3> DEFINE n == IF ok THEN strength ELSE 0
      <3>1. n \in Percent /\ known[e] \in ContextType
        BY DEF TypeOK, Percent
      <3>2. known' = [known EXCEPT ![e].strength = n]
        BY <2>1
      <3> HIDE DEF n
      <3>3. [known[e] EXCEPT !.strength = n] \in ContextType
        BY <3>1 DEF ContextType
      <3>4. QED
        BY <3>2, <3>3 DEF TypeOK
    <2>3. verdict' \in [Evals -> Verdicts]
      BY <2>1, FoldIsMax, ContributionType, DenyIfType
    <2>4. QED
      BY <1>5, <1>a, <2>1, <2>2, <2>3 DEF TypeOK, ReadWorkflow, Goto, tables, PCs,
         AdapterPhase, Axes
  <1>6. ASSUME NEW e \in Evals, ReadGatefield(e) PROVE TypeOK'
    <2>1. PICK ok \in Answers("gatefield"), packet \in Packets :
            ReadGatefield(e)!2!(ok, packet)
      BY <1>6 DEF ReadGatefield
    <2> DEFINE context == [known[e] EXCEPT !.packet = IF ok THEN packet ELSE NoPacket]
    <2>2. context \in ContextType
      <3> DEFINE p == IF ok THEN packet ELSE NoPacket
      <3>1. p \in PacketType(Policies) \cup {NoPacket} /\ known[e] \in ContextType
        BY DEF TypeOK
      <3> HIDE DEF p
      <3>2. [known[e] EXCEPT !.packet = p] \in ContextType
        BY <3>1 DEF ContextType
      <3>3. QED
        BY <3>2 DEF p
    <2>3. known' \in [Evals -> ContextType]
      BY <2>1, <2>2 DEF TypeOK
    <2>4. verdict' \in [Evals -> Verdicts]
      BY <2>1, <2>2, FoldIsMax, ContributionType, TransformedType
    <2>5. QED
      BY <1>6, <1>a, <2>1, <2>3, <2>4 DEF TypeOK, ReadGatefield, Goto, tables, PCs,
         AdapterPhase, Axes
  <1>7. ASSUME NEW e \in Evals, ReadShipyard(e) PROVE TypeOK'
    <2>1. PICK ok \in Answers("shipyard") : ReadShipyard(e)!2!(ok)
      BY <1>7 DEF ReadShipyard
    <2>2. verdict' \in [Evals -> Verdicts]
      BY <2>1, FoldIsMax, ContributionType DEF Verdicts
    <2>3. QED
      BY <1>7, <1>a, <2>1, <2>2 DEF TypeOK, ReadShipyard, Goto, tables, PCs,
         AdapterPhase, WritePhase, Axes
  <1>b. ASSUME NEW e \in Evals
        PROVE  /\ Tenant(e) \in Tenants /\ Identity(e) \in Callers /\ req[e].run \in Runs
               /\ Policy(e) \in Policies
    BY DEF TypeOK, Requests, Tenant, Identity, Policy, ContextType, PacketType
  <1>8. ASSUME NEW e \in Evals, SaveAssessment(e) PROVE TypeOK'
    <2>1. [id |-> e, tenant |-> Tenant(e), run |-> req[e].run, verdict |-> verdict[e],
           lost |-> lost[e], policy |-> Policy(e)] \in AssessmentType
      BY <1>b DEF TypeOK, AssessmentType
    <2>2. QED
      BY <1>8, <2>1 DEF TypeOK, SaveAssessment, Goto, PCs, WritePhase
  <1>9. ASSUME NEW e \in Evals, AppendAudit(e) PROVE TypeOK'
    <2>1. ASSUME NEW id \in AuditIds
          PROVE  [id |-> id, tenant |-> Tenant(e), assessment |-> e,
                  class |-> IF verdict[e] = "allow" THEN "ops" ELSE "audit"] \in AuditType
      BY <1>b DEF AuditType
    <2>2. PICK id \in AuditIds : AppendAudit(e)!1!(id)
      BY <1>9 DEF AppendAudit
    <2>3. audits' \subseteq AuditType
      BY <2>1, <2>2 DEF TypeOK
    <2>4. auditId' \in [Evals -> AuditIds \cup {NoAudit}]
      BY <2>2 DEF TypeOK
    <2>5. pc' \in [Evals -> PCs]
      BY <2>2 DEF TypeOK, Goto, PCs, WritePhase, Ended
    <2>6. QED
      BY <1>9, <2>3, <2>4, <2>5 DEF TypeOK, AppendAudit
  <1>10. ASSUME NEW e \in Evals, SaveSnapshot(e), auditId[e] \in AuditIds PROVE TypeOK'
    <2>1. clock' \in Nat
      BY <1>10 DEF SaveSnapshot, TypeOK
    <2>2. [assessment |-> e, tenant |-> Tenant(e), run |-> req[e].run, risk |-> risk[e],
           identity |-> Identity(e), context |-> known[e], lost |-> lost[e],
           applied |-> applied[e], expected |-> verdict[e], policy |-> Policy(e),
           audit |-> auditId[e], at |-> clock'] \in SnapshotType
      BY <1>b, <1>10, <2>1 DEF TypeOK, SnapshotType
    <2>3. QED
      BY <1>10, <2>1, <2>2 DEF TypeOK, SaveSnapshot, Goto, PCs, WritePhase
  <1>11. ASSUME NEW e \in Evals, EnqueueAttention(e) PROVE TypeOK'
    <2>1. [assessment |-> e, tenant |-> Tenant(e), severity |-> risk[e]] \in ItemType
      BY <1>b DEF TypeOK, ItemType
    <2>2. QED
      BY <1>11, <2>1 DEF TypeOK, EnqueueAttention, Goto, PCs, Ended
  <1>12. ASSUME NEW e \in Evals, Abort(e) PROVE TypeOK'
    BY <1>12 DEF TypeOK, Abort, tables, PCs, Ended
  <1>13. ASSUME UNCHANGED vars PROVE TypeOK'
    BY <1>13 DEF TypeOK, vars, locals, tables
  <1>14. AuditNamed'
    <2>1. ASSUME NEW f \in Evals, pc'[f] = "snapshot" PROVE auditId'[f] \in AuditIds
      <3>1. CASE UNCHANGED vars
        BY <2>1, <3>1 DEF AuditNamed, vars, locals
      <3>2. ASSUME NEW e \in Evals, Start(e) \/ Proceed(e) \/ Abort(e)
            PROVE  auditId'[f] \in AuditIds
        <4>1. CASE AppendAudit(e)
          BY <2>1, <4>1 DEF AuditNamed, TypeOK, AppendAudit, Goto
        <4>2. CASE ~AppendAudit(e)
          BY <2>1, <3>2, <4>2
          DEF AuditNamed, TypeOK, Proceed, Goto, Start, ReadTaskstate, ReadProtocols, ReadMemx,
              ReadWorkflow, ReadGatefield, ReadShipyard, SaveAssessment, SaveSnapshot,
              EnqueueAttention, Abort
        <4>3. QED
          BY <4>1, <4>2
      <3>3. QED
        BY <3>1, <3>2 DEF Next
    <2>2. QED
      BY <2>1 DEF AuditNamed
  <1>15. ASSUME NEW e \in Evals, Start(e) \/ Proceed(e) \/ Abort(e) PROVE TypeOK'
    <2>1. SaveSnapshot(e) => auditId[e] \in AuditIds
      BY DEF AuditNamed, SaveSnapshot, Goto
    <2>2. QED
      BY <1>1, <1>2, <1>3, <1>4, <1>5, <1>6, <1>7, <1>8, <1>9, <1>10, <1>11, <1>12, <1>15, <2>1
      DEF Proceed
  <1>16. QED
    BY <1>13, <1>14, <1>15 DEF Next

\* Type correctness: whatever the adapters answer, every row written to the four
\* tables is well formed and every snapshot names an audit packet's id.
THEOREM TypeCorrect == Spec => []TypeOK
  <1>1. Spec => []TypeInv
    BY TypeInit, TypeStep, PTL DEF Spec
  <1>2. TypeInv => TypeOK
    BY DEF TypeInv
  <1>3. QED
    BY <1>1, <1>2, PTL
-----------------------------------------------------------------------------
(* The inductive invariant.  Judged relates an evaluation's verdict to what *)
(* it has read at every step; Stage adds what the program counter implies;  *)
(* RowInv ties each row to the evaluation that wrote it, whose variables no *)
(* step changes any more; WrittenInv says which rows exist when.            *)

Denied(level, context) == context.hard \/ (level = "critical" /\ context.sla)

\* The running verdict v is as strict as every axis and as the decision table, and
\* one of them, or a safety indicator, is why it is not "allow".
Judged(caller, action, v, level, gone, policy, context) ==
  /\ \A x \in Axes : policy[x] = Contribution(x, x \notin gone, level, action)
  /\ \A x \in Axes : AtLeast(v, policy[x])
  /\ AtLeast(v, Transformed(context, caller \in Admins))
  /\ \/ v = "allow"
     \/ \E x \in Axes : v = policy[x]
     \/ v = "deny" /\ Denied(level, context)
     \/ context.packet # NoPacket /\ v = Transformed(context, caller \in Admins)

JudgedAt(e) ==
  Judged(req[e].caller, req[e].action, verdict[e], risk[e], lost[e], applied[e], known[e])
JudgedInv == \A e \in Evals : JudgedAt(e)

\* The axes evaluate asks at phase p or later.
Unasked(p) == IF p \in {"idle", "taskstate"} THEN Axes
              ELSE IF p = "protocols" THEN Axes \ {"taskstate"}
              ELSE IF p = "memx" THEN {"memx", "workflow", "gatefield", "shipyard"}
              ELSE IF p = "workflow" THEN {"workflow", "gatefield", "shipyard"}
              ELSE IF p = "gatefield" THEN {"gatefield", "shipyard"}
              ELSE IF p = "shipyard" THEN {"shipyard"}
              ELSE {}

\* All six axes and both safety indicators have been looked at.
Settled(v, level, gone, context) ==
  /\ context.packet = NoPacket => "gatefield" \in gone
  /\ AtLeast(v, DenyIf(context.hard))
  /\ AtLeast(v, DenyIf(level = "critical" /\ context.sla))

Early == {"idle", "taskstate", "protocols"}
Late  == {"shipyard"} \cup WritePhase \cup {"returned"}

Stage(p, v, level, gone, context) ==
  /\ gone \cap Unasked(p) = {}
  /\ p \in {"idle", "taskstate"} => v = "allow"
  /\ p \in Early => level = "medium"
  /\ p \in Early \cup {"memx", "workflow", "gatefield"} => context.packet = NoPacket
  /\ p \in {"memx", "workflow", "gatefield"} => AtLeast(v, DenyIf(context.hard))
  /\ p = "gatefield" => AtLeast(v, DenyIf(level = "critical" /\ context.sla))
  /\ p \in Late => Settled(v, level, gone, context)

StageAt(e) == Stage(pc[e], verdict[e], risk[e], lost[e], known[e])
StageInv == \A e \in Evals : StageAt(e)

\* The phases an evaluation can be in once its row is in a table.
PastAssessment == {"audit", "snapshot", "enqueue", "returned", "failed"}
PastSnapshot   == {"enqueue", "returned", "failed"}

RowInv ==
  /\ \A row \in assessments :
       /\ pc[row.id] \in PastAssessment
       /\ Settled(verdict[row.id], risk[row.id], lost[row.id], known[row.id])
       /\ row.tenant = Tenant(row.id) /\ row.run = req[row.id].run
       /\ row.verdict = verdict[row.id] /\ row.lost = lost[row.id]
  /\ \A s \in snapshots :
       LET e == s.assessment
       IN  /\ pc[e] \in PastSnapshot
           /\ s.tenant = Tenant(e) /\ s.identity = Identity(e) /\ s.risk = risk[e]
           /\ s.context = known[e] /\ s.applied = applied[e] /\ s.expected = verdict[e]

\* The rows an evaluation at phase p has written.
WrittenAt(e) ==
  /\ pc[e] \in {"audit", "snapshot", "enqueue", "returned"} =>
       \E a \in assessments : /\ a.id = e /\ a.tenant = Tenant(e)
                              /\ a.run = req[e].run /\ a.verdict = verdict[e]
  /\ pc[e] \in {"snapshot", "enqueue", "returned"} =>
       \E row \in audits : row.id = auditId[e] /\ row.tenant = Tenant(e) /\ row.assessment = e
  /\ pc[e] \in {"enqueue", "returned"} =>
       \E s \in snapshots : s.assessment = e /\ s.tenant = Tenant(e)
  /\ pc[e] = "returned" /\ verdict[e] \in HumanVerdicts =>
       \E item \in queue : item.assessment = e
WrittenInv == \A e \in Evals : WrittenAt(e)

GateInv == TypeInv /\ JudgedInv /\ StageInv /\ RowInv /\ WrittenInv /\ RowsAreBacked
-----------------------------------------------------------------------------
(* Frames.                                                                 *)

\* A step is one evaluation's: the others' variables do not change, no step
\* changes a request, and no table loses a row.
LEMMA Frame ==
  ASSUME TypeOK, NEW e \in Evals, Start(e) \/ Proceed(e) \/ Abort(e)
  PROVE  /\ req' = req
         /\ \A f \in Evals \ {e} :
              /\ pc'[f] = pc[f] /\ verdict'[f] = verdict[f] /\ risk'[f] = risk[f]
              /\ lost'[f] = lost[f] /\ applied'[f] = applied[f] /\ known'[f] = known[f]
              /\ auditId'[f] = auditId[f]
         /\ assessments \subseteq assessments' /\ audits \subseteq audits'
         /\ snapshots \subseteq snapshots' /\ queue \subseteq queue'
  <1>a. ASSUME NEW axis, NEW ok, NEW level, NoteAxis(e, axis, ok, level),
               NEW first, NEW second, Fold(e, first, second), NEW f \in Evals \ {e}
        PROVE  lost'[f] = lost[f] /\ applied'[f] = applied[f] /\ verdict'[f] = verdict[f]
    BY <1>a DEF TypeOK, NoteAxis, Fold
  <1>0. CASE ReadTaskstate(e)
    <2>1. ASSUME NEW f \in Evals \ {e} PROVE known'[f] = known[f]
      BY <1>0, <2>1 DEF TypeOK, ReadTaskstate
    <2>2. QED
      BY <1>0, <1>a, <2>1 DEF TypeOK, ReadTaskstate, Goto, tables
  <1>1. CASE ReadProtocols(e) \/ ReadMemx(e)
    <2>1. CASE ReadProtocols(e)
      BY <1>a, <2>1 DEF TypeOK, ReadProtocols, Goto, tables
    <2>2. CASE ReadMemx(e)
      BY <1>a, <2>2 DEF TypeOK, ReadMemx, Goto, tables
    <2>3. QED
      BY <1>1, <2>1, <2>2
  <1>2. CASE ReadWorkflow(e) \/ ReadGatefield(e) \/ ReadShipyard(e)
    <2>1. CASE ReadWorkflow(e)
      BY <1>a, <2>1 DEF TypeOK, ReadWorkflow, Goto, tables
    <2>2. CASE ReadGatefield(e)
      BY <1>a, <2>2 DEF TypeOK, ReadGatefield, Goto, tables
    <2>3. CASE ReadShipyard(e)
      BY <1>a, <2>3 DEF TypeOK, ReadShipyard, Goto, tables
    <2>4. QED
      BY <1>2, <2>1, <2>2, <2>3
  <1>3. CASE Start(e) \/ Abort(e) \/ SaveAssessment(e)
    BY <1>3 DEF TypeOK, Start, Abort, SaveAssessment, Goto, tables
  <1>4. CASE AppendAudit(e) \/ SaveSnapshot(e) \/ EnqueueAttention(e)
    BY <1>4 DEF TypeOK, AppendAudit, SaveSnapshot, EnqueueAttention, Goto
  <1>5. QED
    BY <1>0, <1>1, <1>2, <1>3, <1>4 DEF Proceed

\* Outside the adapter phase a step leaves alone what the evaluation has read and
\* concluded.
LEMMA Frozen ==
  ASSUME NEW e \in Evals, Start(e) \/ Proceed(e) \/ Abort(e),
         pc[e] \notin AdapterPhase \/ Abort(e)
  PROVE  /\ verdict' = verdict /\ risk' = risk /\ lost' = lost
         /\ applied' = applied /\ known' = known
  BY DEF Start, Proceed, Abort, Goto, AdapterPhase, ReadTaskstate, ReadProtocols, ReadMemx,
     ReadWorkflow, ReadGatefield, ReadShipyard, SaveAssessment, AppendAudit, SaveSnapshot,
     EnqueueAttention
-----------------------------------------------------------------------------
(* One adapter call.                                                       *)

\* A call's result is a verdict at most as strict as the new one, and it leaves
\* Judged true: "second" is what the call adds beside the axis's own contribution.
LEMMA JudgedStep ==
  ASSUME TypeOK, TypeOK', JudgedInv, req' = req,
         NEW e \in Evals, NEW axis \in Axes, NEW ok \in BOOLEAN, NEW second \in Verdicts,
         axis \notin lost[e],
         NoteAxis(e, axis, ok, risk'[e]),
         Fold(e, Contribution(axis, ok, risk'[e], req[e].action), second),
         risk'[e] = risk[e] \/ lost[e] \subseteq {"taskstate"},
         verdict[e] = "allow" \/ (Denied(risk[e], known[e]) => Denied(risk'[e], known'[e])),
         known[e].packet # NoPacket => known'[e] = known[e],
         \/ second = "allow"
         \/ second = "deny" /\ Denied(risk'[e], known'[e])
         \/ /\ known'[e].packet # NoPacket
            /\ second = Transformed(known'[e], req[e].caller \in Admins),
         \/ known'[e].packet = NoPacket
         \/ known'[e] = known[e]
         \/ second = Transformed(known'[e], req[e].caller \in Admins)
  PROVE  JudgedAt(e)'
  <1> DEFINE action == req[e].action
             admin  == req[e].caller \in Admins
             c      == Contribution(axis, ok, risk'[e], action)
  <1>1. Judged(req[e].caller, action, verdict[e], risk[e], lost[e], applied[e], known[e])
    BY DEF JudgedInv, JudgedAt
  <1>2. /\ verdict[e] \in Verdicts /\ verdict'[e] \in Verdicts /\ c \in Verdicts
        /\ lost[e] \subseteq Axes /\ applied[e] \in [Axes -> Verdicts]
        /\ known[e] \in ContextType /\ known'[e] \in ContextType
    BY ContributionType DEF TypeOK
  <1>3. /\ lost'[e] = IF ok THEN lost[e] ELSE lost[e] \cup {axis}
        /\ applied'[e] = [applied[e] EXCEPT ![axis] = c]
    BY DEF NoteAxis, TypeOK
  <1>4. /\ verdict'[e] \in {verdict[e], c, second}
        /\ AtLeast(verdict'[e], verdict[e]) /\ AtLeast(verdict'[e], c)
        /\ AtLeast(verdict'[e], second)
    BY <1>2, FoldIsMax
  <1>5. applied[e][axis] = "allow"
    BY <1>1 DEF Judged, Contribution
  <1>6. ASSUME NEW x \in Axes
        PROVE  applied'[e][x] = Contribution(x, x \notin lost'[e], risk'[e], action)
    <2>1. CASE x = axis
      <3>1. (axis \notin lost'[e]) = ok
        BY <1>3
      <3>2. QED
        BY <1>2, <1>3, <2>1, <3>1
    <2>2. CASE x # axis
      <3>1. applied'[e][x] = applied[e][x] /\ (x \notin lost'[e]) = (x \notin lost[e])
        BY <1>2, <1>3, <2>2
      <3>2. applied[e][x] = Contribution(x, x \notin lost[e], risk[e], action)
        BY <1>1 DEF Judged
      <3>3. risk'[e] = risk[e] \/ x \notin lost[e] \/ x = "taskstate"
        OBVIOUS
      <3>4. Contribution(x, x \notin lost[e], risk[e], action)
              = Contribution(x, x \notin lost[e], risk'[e], action)
        BY <3>3 DEF Contribution, FailureVerdict
      <3>5. QED
        BY <3>1, <3>2, <3>4
    <2>3. QED
      BY <2>1, <2>2
  <1>7. ASSUME NEW x \in Axes PROVE AtLeast(verdict'[e], applied'[e][x])
    <2>1. CASE x = axis
      BY <1>2, <1>3, <1>4, <2>1
    <2>2. CASE x # axis
      <3>1. applied'[e][x] = applied[e][x] /\ applied[e][x] \in Verdicts
        BY <1>2, <1>3, <2>2
      <3>2. AtLeast(verdict[e], applied[e][x])
        BY <1>1 DEF Judged
      <3>3. QED
        BY <1>2, <1>4, <3>1, <3>2, AtLeastOrder
    <2>3. QED
      BY <2>1, <2>2
  <1>8. AtLeast(verdict'[e], Transformed(known'[e], admin))
    <2>1. CASE known'[e].packet = NoPacket
      BY <1>2, <2>1, AtLeastOrder DEF Transformed
    <2>2. CASE known'[e] = known[e]
      <3>1. AtLeast(verdict[e], Transformed(known[e], admin))
        BY <1>1 DEF Judged
      <3>2. Transformed(known[e], admin) \in Verdicts
        BY <1>2, TransformedType
      <3>3. QED
        BY <1>2, <1>4, <2>2, <3>1, <3>2, AtLeastOrder
    <2>3. CASE second = Transformed(known'[e], admin)
      BY <1>4, <2>3
    <2>4. QED
      BY <2>1, <2>2, <2>3
  <1>9. \/ verdict'[e] = "allow"
        \/ \E x \in Axes : verdict'[e] = applied'[e][x]
        \/ verdict'[e] = "deny" /\ Denied(risk'[e], known'[e])
        \/ known'[e].packet # NoPacket /\ verdict'[e] = Transformed(known'[e], admin)
    <2>1. CASE verdict'[e] = c
      BY <1>2, <1>3, <2>1
    <2>2. CASE verdict'[e] = second
      BY <2>2
    <2>3. CASE verdict'[e] = verdict[e] /\ verdict[e] # "allow"
      <3>1. CASE \E x \in Axes : verdict[e] = applied[e][x]
        <4>1. PICK x \in Axes : verdict[e] = applied[e][x]
          BY <3>1
        <4>2. x # axis
          BY <1>5, <2>3, <4>1
        <4>3. applied'[e][x] = applied[e][x]
          BY <1>2, <1>3, <4>2
        <4>4. QED
          BY <2>3, <4>1, <4>3
      <3>2. CASE verdict[e] = "deny" /\ Denied(risk[e], known[e])
        BY <2>3, <3>2
      <3>3. CASE known[e].packet # NoPacket /\ verdict[e] = Transformed(known[e], admin)
        BY <2>3, <3>3
      <3>4. QED
        BY <1>1, <2>3, <3>1, <3>2, <3>3 DEF Judged
    <2>4. QED
      BY <1>4, <2>1, <2>2, <2>3
  <1>10. QED
    BY <1>6, <1>7, <1>8, <1>9 DEF Judged, JudgedAt

\* What every call leaves true of the phases: "level" and "context" are the new
\* risk and context.
LEMMA CallEffect ==
  ASSUME TypeOK, NEW e \in Evals, NEW axis \in Axes, NEW ok \in BOOLEAN, NEW level,
         NEW second \in Verdicts,
         NoteAxis(e, axis, ok, level),
         Fold(e, Contribution(axis, ok, level, req[e].action), second)
  PROVE  /\ lost'[e] = IF ok THEN lost[e] ELSE lost[e] \cup {axis}
         /\ verdict'[e] \in Verdicts /\ AtLeast(verdict'[e], second)
         /\ \A floor \in Verdicts : AtLeast(verdict[e], floor) => AtLeast(verdict'[e], floor)
  <1>1. lost'[e] = IF ok THEN lost[e] ELSE lost[e] \cup {axis}
    BY DEF NoteAxis, TypeOK
  <1>2. /\ verdict[e] \in Verdicts /\ verdict'[e] \in Verdicts
        /\ AtLeast(verdict'[e], verdict[e]) /\ AtLeast(verdict'[e], second)
    BY ContributionType, FoldIsMax DEF TypeOK
  <1>3. QED
    BY <1>1, <1>2, AtLeastOrder

\* An adapter's answer leaves the evaluation judged and at its next stage.
LEMMA CallStep ==
  ASSUME TypeInv, TypeInv', JudgedInv, StageInv, NEW e \in Evals,
         Proceed(e), pc[e] \in AdapterPhase
  PROVE  JudgedAt(e)' /\ StageAt(e)'
  <1>1. TypeOK /\ TypeOK' /\ req' = req
    <2>1. TypeOK /\ TypeOK'
      BY DEF TypeInv
    <2>2. QED
      BY <2>1, Frame
  <1>2. Stage(pc[e], verdict[e], risk[e], lost[e], known[e])
    BY DEF StageInv, StageAt
  <1>3. "allow" \in Verdicts /\ known[e] \in ContextType /\ pc[e] \in PCs
    BY <1>1 DEF TypeOK, Verdicts
  <1>4. CASE ReadTaskstate(e)
    <2>1. PICK taskOk \in Answers("taskstate"), runOk \in Answers("taskstate"),
               bundleOk \in Answers("taskstate"), task \in TaskViews, run \in RunViews :
            ReadTaskstate(e)!2!(taskOk, runOk, bundleOk, task, run)
      BY <1>4 DEF ReadTaskstate
    <2> DEFINE t  == IF taskOk THEN task ELSE NoTask
               r  == IF runOk THEN run ELSE NoRun
               ok == taskOk /\ runOk /\ (r.bundle => bundleOk)
    <2>2. /\ NoteAxis(e, "taskstate", ok, risk[e])
          /\ Fold(e, Contribution("taskstate", ok, risk[e], req[e].action), "allow")
          /\ known'[e] = [known[e] EXCEPT !.hard = t.hard \/ r.hard, !.sla = t.sla \/ r.sla,
                                          !.obligation = t.obligation, !.approved = r.approved]
      BY <1>1, <2>1 DEF TypeOK
    <2>3. ok \in BOOLEAN
      OBVIOUS
    <2> HIDE DEF ok, r, t
    <2>4. /\ pc[e] = "taskstate" /\ pc'[e] = "protocols" /\ risk' = risk
      BY <1>1, <1>4 DEF ReadTaskstate, Goto, TypeOK
    <2>5. known'[e].packet = NoPacket /\ known[e].packet = NoPacket
      BY <1>2, <1>3, <2>2, <2>4 DEF Stage, Early, ContextType
    <2>6. "taskstate" \notin lost[e] /\ verdict[e] = "allow" /\ risk[e] = "medium"
          /\ lost[e] = {}
      BY <1>1, <1>2, <2>4 DEF Stage, Unasked, Early, Axes, TypeOK
    <2>7. JudgedAt(e)'
      BY <1>1, <1>3, <2>2, <2>3, <2>4, <2>5, <2>6, JudgedStep DEF Axes
    <2>8. lost'[e] \subseteq {"taskstate"}
      <3>1. lost'[e] = IF ok THEN lost[e] ELSE lost[e] \cup {"taskstate"}
        BY <1>1, <1>3, <2>2, <2>3, CallEffect DEF Axes
      <3>2. QED
        BY <2>6, <3>1
    <2>9. StageAt(e)'
      BY <2>4, <2>5, <2>6, <2>8 DEF StageAt, Stage, Unasked, Early, Late, WritePhase
    <2>10. QED
      BY <2>7, <2>9
  <1>5. CASE ReadProtocols(e)
    <2>1. PICK level \in RiskLevels, riskOk \in Answers("protocols"),
               approvalsOk \in Answers("protocols") :
            ReadProtocols(e)!2!(level, riskOk, approvalsOk)
      BY <1>5 DEF ReadProtocols
    <2> DEFINE ok    == riskOk /\ approvalsOk
               at    == IF riskOk THEN level ELSE risk[e]
               roles == IF ok THEN ApprovalMatrix[at] ELSE {}
    <2>2. /\ risk'[e] = at
          /\ NoteAxis(e, "protocols", ok, at)
          /\ Fold(e, Contribution("protocols", ok, at, req[e].action), DenyIf(known[e].hard))
          /\ known'[e] = [known[e] EXCEPT !.required = roles]
      BY <1>1, <2>1 DEF TypeOK
    <2>3. ok \in BOOLEAN
      OBVIOUS
    <2> HIDE DEF ok, at, roles
    <2>4. pc[e] = "protocols" /\ pc'[e] = "memx"
      BY <1>1, <1>5 DEF ReadProtocols, Goto, TypeOK
    <2>5. /\ known'[e].packet = NoPacket /\ known[e].packet = NoPacket
          /\ known'[e].hard = known[e].hard /\ known'[e].sla = known[e].sla
      BY <1>2, <1>3, <2>2, <2>4 DEF Stage, Early, ContextType
    <2>6. lost[e] \subseteq {"taskstate"} /\ risk[e] = "medium"
      BY <1>1, <1>2, <2>4 DEF Stage, Unasked, Early, Axes, TypeOK
    <2>7. /\ DenyIf(known[e].hard) \in Verdicts
          /\ Denied(risk[e], known[e]) => Denied(risk'[e], known'[e])
          /\ \/ DenyIf(known[e].hard) = "allow"
             \/ DenyIf(known[e].hard) = "deny" /\ Denied(risk'[e], known'[e])
      BY <2>5, <2>6, DenyIfType DEF Denied, DenyIf
    <2>8. JudgedAt(e)'
      BY <1>1, <2>2, <2>3, <2>5, <2>6, <2>7, JudgedStep DEF Axes
    <2>9. /\ lost'[e] \subseteq {"taskstate", "protocols"}
          /\ AtLeast(verdict'[e], DenyIf(known[e].hard))
      <3>1. /\ lost'[e] = IF ok THEN lost[e] ELSE lost[e] \cup {"protocols"}
            /\ AtLeast(verdict'[e], DenyIf(known[e].hard))
        BY <1>1, <2>2, <2>3, <2>7, CallEffect DEF Axes
      <3>2. QED
        BY <2>3, <2>6, <3>1
    <2>10. StageAt(e)'
      BY <2>4, <2>5, <2>9 DEF StageAt, Stage, Unasked, Early, Late, WritePhase
    <2>11. QED
      BY <2>8, <2>10
  <1>6. CASE ReadMemx(e)
    <2>1. PICK ok \in Answers("memx"), fresh \in BOOLEAN : ReadMemx(e)!2!(ok, fresh)
      BY <1>6 DEF ReadMemx
    <2> DEFINE f == ok /\ fresh
    <2>2. /\ ok \in BOOLEAN /\ risk' = risk
          /\ NoteAxis(e, "memx", ok, risk[e])
          /\ Fold(e, Contribution("memx", ok, risk[e], req[e].action), "allow")
          /\ known'[e] = [known[e] EXCEPT !.fresh = f]
      BY <1>1, <1>6, <2>1 DEF TypeOK, ReadMemx, Answers
    <2> HIDE DEF f
    <2>4. pc[e] = "memx" /\ pc'[e] = "workflow"
      BY <1>1, <1>6 DEF ReadMemx, Goto, TypeOK
    <2>5. /\ known'[e].packet = NoPacket /\ known[e].packet = NoPacket
          /\ known'[e].hard = known[e].hard /\ known'[e].sla = known[e].sla
      BY <1>2, <1>3, <2>2, <2>4 DEF Stage, Early, ContextType
    <2>6. /\ lost[e] \subseteq {"taskstate", "protocols"}
          /\ AtLeast(verdict[e], DenyIf(known[e].hard))
      BY <1>1, <1>2, <2>4 DEF Stage, Unasked, Early, Axes, TypeOK
    <2>7. Denied(risk[e], known[e]) => Denied(risk'[e], known'[e])
      BY <2>2, <2>5 DEF Denied
    <2>8. JudgedAt(e)'
      BY <1>1, <1>3, <2>2, <2>5, <2>6, <2>7, JudgedStep DEF Axes
    <2>9. /\ lost'[e] \subseteq {"taskstate", "protocols", "memx"}
          /\ AtLeast(verdict'[e], DenyIf(known[e].hard))
      <3>1. /\ lost'[e] = IF ok THEN lost[e] ELSE lost[e] \cup {"memx"}
            /\ \A floor \in Verdicts : AtLeast(verdict[e], floor) => AtLeast(verdict'[e], floor)
        BY <1>1, <1>3, <2>2, CallEffect DEF Axes
      <3>2. AtLeast(verdict'[e], DenyIf(known[e].hard))
        BY <2>6, <3>1, DenyIfType
      <3>3. QED
        BY <2>6, <3>1, <3>2
    <2>10. StageAt(e)'
      BY <2>4, <2>5, <2>9 DEF StageAt, Stage, Unasked, Early, Late, WritePhase
    <2>11. QED
      BY <2>8, <2>10
  <1>7. CASE ReadWorkflow(e)
    <2>1. PICK ok \in Answers("workflow"), strength \in Strengths :
            ReadWorkflow(e)!2!(ok, strength)
      BY <1>7 DEF ReadWorkflow
    <2> DEFINE n == IF ok THEN strength ELSE 0
               late == DenyIf(risk[e] = "critical" /\ known[e].sla)
    <2>2. /\ ok \in BOOLEAN /\ risk' = risk
          /\ NoteAxis(e, "workflow", ok, risk[e])
          /\ Fold(e, Contribution("workflow", ok, risk[e], req[e].action), late)
          /\ known'[e] = [known[e] EXCEPT !.strength = n]
      BY <1>1, <1>7, <2>1 DEF TypeOK, ReadWorkflow, Answers
    <2> HIDE DEF n
    <2>4. pc[e] = "workflow" /\ pc'[e] = "gatefield"
      BY <1>1, <1>7 DEF ReadWorkflow, Goto, TypeOK
    <2>5. /\ known'[e].packet = NoPacket /\ known[e].packet = NoPacket
          /\ known'[e].hard = known[e].hard /\ known'[e].sla = known[e].sla
      BY <1>2, <1>3, <2>2, <2>4 DEF Stage, Early, ContextType
    <2>6. /\ lost[e] \subseteq {"taskstate", "protocols", "memx"}
          /\ AtLeast(verdict[e], DenyIf(known[e].hard))
      BY <1>1, <1>2, <2>4 DEF Stage, Unasked, Early, Axes, TypeOK
    <2>7. /\ late \in Verdicts
          /\ Denied(risk[e], known[e]) => Denied(risk'[e], known'[e])
          /\ late = "allow" \/ (late = "deny" /\ Denied(risk'[e], known'[e]))
      BY <2>2, <2>5, DenyIfType DEF Denied, DenyIf
    <2> HIDE DEF late
    <2>8. JudgedAt(e)'
      BY <1>1, <2>2, <2>5, <2>6, <2>7, JudgedStep DEF Axes
    <2>9. /\ lost'[e] \subseteq {"taskstate", "protocols", "memx", "workflow"}
          /\ AtLeast(verdict'[e], DenyIf(known[e].hard))
          /\ AtLeast(verdict'[e], late)
      <3>1. /\ lost'[e] = IF ok THEN lost[e] ELSE lost[e] \cup {"workflow"}
            /\ AtLeast(verdict'[e], late)
            /\ \A floor \in Verdicts : AtLeast(verdict[e], floor) => AtLeast(verdict'[e], floor)
        BY <1>1, <2>2, <2>7, CallEffect DEF Axes
      <3>2. AtLeast(verdict'[e], DenyIf(known[e].hard))
        BY <2>6, <3>1, DenyIfType
      <3>3. QED
        BY <2>6, <3>1, <3>2
    <2>10. StageAt(e)'
      BY <2>2, <2>4, <2>5, <2>9 DEF late, StageAt, Stage, Unasked, Early, Late, WritePhase
    <2>11. QED
      BY <2>8, <2>10
  <1>8. CASE ReadGatefield(e)
    <2>1. PICK ok \in Answers("gatefield"), packet \in Packets :
            ReadGatefield(e)!2!(ok, packet)
      BY <1>8 DEF ReadGatefield
    <2> DEFINE p == IF ok THEN packet ELSE NoPacket
               result == Transformed(known'[e], req[e].caller \in Admins)
    <2>2. /\ ok \in BOOLEAN /\ risk' = risk
          /\ NoteAxis(e, "gatefield", ok, risk[e])
          /\ known'[e] = [known[e] EXCEPT !.packet = p]
      BY <1>1, <1>8, <2>1 DEF TypeOK, ReadGatefield, Answers
    <2>3. Fold(e, Contribution("gatefield", ok, risk[e], req[e].action), result)
      <3>1. known'[e] = [known[e] EXCEPT !.packet = IF ok THEN packet ELSE NoPacket]
        BY <2>2
      <3>2. QED
        BY <2>1, <3>1 DEF Identity
    <2>4. pc[e] = "gatefield" /\ pc'[e] = "shipyard"
      BY <1>1, <1>8 DEF ReadGatefield, Goto, TypeOK
    <2>5. /\ known'[e].packet = p /\ known[e].packet = NoPacket
          /\ known'[e].hard = known[e].hard /\ known'[e].sla = known[e].sla
      BY <1>2, <1>3, <2>2, <2>4 DEF Stage, Early, ContextType
    <2>6. /\ lost[e] \subseteq {"taskstate", "protocols", "memx", "workflow"}
          /\ AtLeast(verdict[e], DenyIf(known[e].hard))
          /\ AtLeast(verdict[e], DenyIf(risk[e] = "critical" /\ known[e].sla))
      BY <1>1, <1>2, <2>4 DEF Stage, Unasked, Early, Axes, TypeOK
    <2>7. /\ result \in Verdicts
          /\ known'[e].packet = NoPacket => result = "allow"
          /\ Denied(risk[e], known[e]) => Denied(risk'[e], known'[e])
      <3>1. known'[e] \in ContextType
        BY <1>1 DEF TypeOK
      <3>2. QED
        BY <2>2, <2>5, <3>1, TransformedType DEF Denied, Transformed
    <2> HIDE DEF result
    <2>8. JudgedAt(e)'
      BY <1>1, <2>2, <2>3, <2>5, <2>6, <2>7, JudgedStep DEF Axes, result
    <2>9. /\ lost'[e] \subseteq {"taskstate", "protocols", "memx", "workflow", "gatefield"}
          /\ p = NoPacket => "gatefield" \in lost'[e]
          /\ AtLeast(verdict'[e], DenyIf(known[e].hard))
          /\ AtLeast(verdict'[e], DenyIf(risk[e] = "critical" /\ known[e].sla))
      <3>1. packet # NoPacket
        <4>1. packet.decision \in Decisions
          BY GateAssumptions DEF PacketType
        <4>2. NoPacket.decision = "none"
          BY DEF NoPacket
        <4>3. QED
          BY <4>1, <4>2 DEF Decisions
      <3>2. /\ lost'[e] = IF ok THEN lost[e] ELSE lost[e] \cup {"gatefield"}
            /\ \A floor \in Verdicts : AtLeast(verdict[e], floor) => AtLeast(verdict'[e], floor)
        BY <1>1, <2>2, <2>3, <2>7, CallEffect DEF Axes
      <3>3. AtLeast(verdict'[e], DenyIf(known[e].hard))
        BY <2>6, <3>2, DenyIfType
      <3>4. AtLeast(verdict'[e], DenyIf(risk[e] = "critical" /\ known[e].sla))
        BY <2>6, <3>2, DenyIfType
      <3>5. QED
        BY <2>2, <2>6, <3>1, <3>2, <3>3, <3>4
    <2> HIDE DEF p
    <2>10. StageAt(e)'
      BY <2>2, <2>4, <2>5, <2>9 DEF StageAt, Stage, Settled, Unasked, Early, Late, WritePhase
    <2>11. QED
      BY <2>8, <2>10
  <1>9. CASE ReadShipyard(e)
    <2>1. PICK ok \in Answers("shipyard") : ReadShipyard(e)!2!(ok)
      BY <1>9 DEF ReadShipyard
    <2>2. /\ ok \in BOOLEAN /\ risk' = risk /\ known' = known
          /\ NoteAxis(e, "shipyard", ok, risk[e])
          /\ Fold(e, Contribution("shipyard", ok, risk[e], req[e].action), "allow")
      BY <1>9, <2>1 DEF ReadShipyard, Answers
    <2>3. pc[e] = "shipyard" /\ pc'[e] = "assessment"
      BY <1>1, <1>9 DEF ReadShipyard, Goto, TypeOK
    <2>4. Settled(verdict[e], risk[e], lost[e], known[e]) /\ "shipyard" \notin lost[e]
      BY <1>1, <1>2, <2>3 DEF Stage, Unasked, Late
    <2>5. JudgedAt(e)'
      BY <1>1, <1>3, <2>2, <2>4, JudgedStep DEF Axes
    <2>6. /\ lost[e] \subseteq lost'[e]
          /\ AtLeast(verdict'[e], DenyIf(known[e].hard))
          /\ AtLeast(verdict'[e], DenyIf(risk[e] = "critical" /\ known[e].sla))
      <3>1. /\ lost'[e] = IF ok THEN lost[e] ELSE lost[e] \cup {"shipyard"}
            /\ \A floor \in Verdicts : AtLeast(verdict[e], floor) => AtLeast(verdict'[e], floor)
        BY <1>1, <1>3, <2>2, CallEffect DEF Axes
      <3>2. /\ AtLeast(verdict[e], DenyIf(known[e].hard))
            /\ AtLeast(verdict[e], DenyIf(risk[e] = "critical" /\ known[e].sla))
        BY <2>4 DEF Settled
      <3>3. QED
        BY <3>1, <3>2, DenyIfType
    <2>7. StageAt(e)'
      BY <2>2, <2>3, <2>4, <2>6 DEF StageAt, Stage, Settled, Unasked, Early, WritePhase
    <2>8. QED
      BY <2>5, <2>7
  <1>10. QED
    BY <1>4, <1>5, <1>6, <1>7, <1>8, <1>9
    DEF Proceed, SaveAssessment, AppendAudit, SaveSnapshot, EnqueueAttention, Goto, AdapterPhase

\* Judged and Stage hold of every evaluation after every step.
LEMMA LocalStep ==
  ASSUME TypeInv, TypeInv', JudgedInv, StageInv, [Next]_vars
  PROVE  JudgedInv' /\ StageInv'
  <1>1. ASSUME UNCHANGED vars PROVE JudgedInv' /\ StageInv'
    BY <1>1 DEF JudgedInv, StageInv, JudgedAt, StageAt, vars, locals
  <1>2. ASSUME NEW e \in Evals, Start(e) \/ Proceed(e) \/ Abort(e), NEW f \in Evals
        PROVE  JudgedAt(f)' /\ StageAt(f)'
    <2>1. TypeOK /\ TypeOK'
      BY DEF TypeInv
    <2>2. JudgedAt(f) /\ StageAt(f)
      BY DEF JudgedInv, StageInv
    <2>3. CASE f # e
      <3>1. /\ req' = req
            /\ pc'[f] = pc[f] /\ verdict'[f] = verdict[f] /\ risk'[f] = risk[f]
            /\ lost'[f] = lost[f] /\ applied'[f] = applied[f] /\ known'[f] = known[f]
        BY <1>2, <2>1, <2>3, Frame
      <3>2. QED
        BY <2>2, <3>1 DEF JudgedAt, StageAt
    <2>4. CASE f = e /\ Proceed(e) /\ pc[e] \in AdapterPhase
      BY <2>4, CallStep
    <2>5. CASE f = e /\ ~(Proceed(e) /\ pc[e] \in AdapterPhase)
      <3>1. pc[e] \notin AdapterPhase \/ Abort(e)
        BY <1>2, <2>5 DEF Start, Goto, AdapterPhase
      <3>2. /\ req' = req
            /\ verdict' = verdict /\ risk' = risk /\ lost' = lost /\ applied' = applied
            /\ known' = known
        BY <1>2, <2>1, <3>1, Frame, Frozen
      <3>3. JudgedAt(f)'
        BY <2>2, <3>2 DEF JudgedAt
      <3>4. \/ pc[e] = "idle" /\ pc'[e] \in {"taskstate", "failed"}
            \/ pc'[e] = "failed"
            \/ pc[e] \in WritePhase /\ pc'[e] \in WritePhase \cup {"returned"}
        <4>1. pc \in [Evals -> PCs]
          BY <2>1 DEF TypeOK
        <4>2. CASE Start(e)
          BY <4>1, <4>2 DEF Start, Goto
        <4>3. CASE Abort(e)
          BY <4>1, <4>3 DEF Abort
        <4>4. CASE Proceed(e) /\ pc[e] \notin AdapterPhase
          <5>1. SaveAssessment(e) \/ AppendAudit(e) \/ SaveSnapshot(e) \/ EnqueueAttention(e)
            BY <4>4 DEF Proceed, AdapterPhase, Goto, ReadTaskstate, ReadProtocols,
                        ReadMemx, ReadWorkflow, ReadGatefield, ReadShipyard
          <5>2. QED
            BY <4>1, <5>1 DEF Goto, WritePhase, SaveAssessment, AppendAudit,
                              SaveSnapshot, EnqueueAttention
        <4>5. QED
          BY <1>2, <2>5, <4>2, <4>3, <4>4
      <3>5. StageAt(f)'
        <4>1. Stage(pc[e], verdict[e], risk[e], lost[e], known[e])
          BY <2>2, <2>5 DEF StageAt
        <4>2. Stage(pc'[e], verdict[e], risk[e], lost[e], known[e])
          BY <3>4, <4>1 DEF Stage, Unasked, Early, Late, WritePhase
        <4>3. QED
          BY <2>5, <3>2, <4>2 DEF StageAt
      <3>6. QED
        BY <3>3, <3>5
    <2>6. QED
      BY <2>3, <2>4, <2>5
  <1>3. QED
    BY <1>1, <1>2 DEF Next, JudgedInv, StageInv
-----------------------------------------------------------------------------
(* The rows.                                                               *)

\* The state functions a row was made from.
Judgement(f) == <<req[f], verdict[f], risk[f], lost[f], applied[f], known[f]>>

\* An evaluation past its first write never changes what its rows were made from.
LEMMA Kept ==
  ASSUME TypeOK, NEW e \in Evals, Start(e) \/ Proceed(e) \/ Abort(e),
         NEW f \in Evals, pc[f] \in WritePhase \cup Ended
  PROVE  /\ Judgement(f)' = Judgement(f)
         /\ Tenant(f)' = Tenant(f) /\ Identity(f)' = Identity(f)
         /\ pc[f] \in PastAssessment => pc'[f] \in PastAssessment
         /\ pc[f] \in PastSnapshot => pc'[f] \in PastSnapshot
  <1>1. req' = req
    BY Frame
  <1>2. /\ verdict'[f] = verdict[f] /\ risk'[f] = risk[f] /\ lost'[f] = lost[f]
        /\ applied'[f] = applied[f] /\ known'[f] = known[f]
    <2>1. CASE f # e
      BY <2>1, Frame
    <2>2. CASE f = e
      BY <2>2, Frozen DEF WritePhase, Ended, AdapterPhase
    <2>3. QED
      BY <2>1, <2>2
  <1>3. /\ pc[f] \in PastAssessment => pc'[f] \in PastAssessment
        /\ pc[f] \in PastSnapshot => pc'[f] \in PastSnapshot
    <2>1. CASE f # e
      BY <2>1, Frame
    <2>2. CASE f = e
      BY <2>2
      DEF TypeOK, PastAssessment, PastSnapshot, Start, Proceed, Abort, Goto, ReadTaskstate,
          ReadProtocols, ReadMemx, ReadWorkflow, ReadGatefield, ReadShipyard,
          SaveAssessment, AppendAudit, SaveSnapshot, EnqueueAttention
    <2>3. QED
      BY <2>1, <2>2
  <1>4. QED
    BY <1>1, <1>2, <1>3 DEF Judgement, Tenant, Identity

\* Which step adds a row to which table.
LEMMA Writers ==
  ASSUME NEW e \in Evals, Start(e) \/ Proceed(e) \/ Abort(e)
  PROVE  /\ SaveAssessment(e) \/ assessments' = assessments
         /\ AppendAudit(e) \/ audits' = audits
         /\ SaveSnapshot(e) \/ snapshots' = snapshots
         /\ EnqueueAttention(e) \/ queue' = queue
  BY DEF Start, Proceed, Abort, ReadTaskstate, ReadProtocols, ReadMemx, ReadWorkflow,
     ReadGatefield, ReadShipyard, SaveAssessment, AppendAudit, SaveSnapshot,
     EnqueueAttention, tables

\* Every row stays what its evaluation's variables say.
LEMMA RowStep ==
  ASSUME TypeInv, TypeInv', StageInv, RowInv, [Next]_vars
  PROVE  RowInv'
  <1>1. ASSUME UNCHANGED vars PROVE RowInv'
    BY <1>1 DEF RowInv, Tenant, Identity, vars, locals, tables
  <1>2. ASSUME NEW e \in Evals, Start(e) \/ Proceed(e) \/ Abort(e) PROVE RowInv'
    <2>1. TypeOK /\ TypeOK'
      BY DEF TypeInv
    <2>2. ASSUME NEW row \in assessments'
          PROVE  /\ pc'[row.id] \in PastAssessment
                 /\ Settled(verdict'[row.id], risk'[row.id], lost'[row.id], known'[row.id])
                 /\ row.tenant = Tenant(row.id)' /\ row.run = req'[row.id].run
                 /\ row.verdict = verdict'[row.id] /\ row.lost = lost'[row.id]
      <3>1. CASE row \in assessments
        <4>1. row.id \in Evals /\ pc[row.id] \in PastAssessment
          BY <2>1, <3>1 DEF RowInv, TypeOK, AssessmentType
        <4>2. /\ Judgement(row.id)' = Judgement(row.id) /\ Tenant(row.id)' = Tenant(row.id)
              /\ pc'[row.id] \in PastAssessment
          BY <1>2, <2>1, <4>1, Kept DEF PastAssessment, WritePhase, Ended
        <4>3. QED
          BY <3>1, <4>2 DEF RowInv, Judgement
      <3>2. CASE row \notin assessments
        <4>1. SaveAssessment(e)
          BY <1>2, <3>2, Writers
        <4>2. /\ row.id = e /\ row.tenant = Tenant(e) /\ row.run = req[e].run
              /\ row.verdict = verdict[e] /\ row.lost = lost[e]
          BY <3>2, <4>1 DEF SaveAssessment
        <4>3. /\ req' = req /\ verdict' = verdict /\ risk' = risk /\ lost' = lost
              /\ known' = known /\ pc[e] = "assessment" /\ pc'[e] = "audit"
          BY <2>1, <4>1 DEF SaveAssessment, Goto, TypeOK
        <4>4. Settled(verdict[e], risk[e], lost[e], known[e])
          BY <4>3 DEF StageInv, StageAt, Stage, Late, WritePhase
        <4>5. QED
          BY <4>2, <4>3, <4>4 DEF PastAssessment, Tenant
      <3>3. QED
        BY <3>1, <3>2
    <2>3. ASSUME NEW s \in snapshots'
          PROVE  /\ pc'[s.assessment] \in PastSnapshot
                 /\ s.tenant = Tenant(s.assessment)' /\ s.identity = Identity(s.assessment)'
                 /\ s.risk = risk'[s.assessment] /\ s.context = known'[s.assessment]
                 /\ s.applied = applied'[s.assessment] /\ s.expected = verdict'[s.assessment]
      <3>1. CASE s \in snapshots
        <4>1. s.assessment \in Evals /\ pc[s.assessment] \in PastSnapshot
          BY <2>1, <3>1 DEF RowInv, TypeOK, SnapshotType
        <4>2. /\ Judgement(s.assessment)' = Judgement(s.assessment)
              /\ Tenant(s.assessment)' = Tenant(s.assessment)
              /\ Identity(s.assessment)' = Identity(s.assessment)
              /\ pc'[s.assessment] \in PastSnapshot
          BY <1>2, <2>1, <4>1, Kept DEF PastSnapshot, WritePhase, Ended
        <4>3. QED
          BY <3>1, <4>2 DEF RowInv, Judgement
      <3>2. CASE s \notin snapshots
        <4>1. SaveSnapshot(e)
          BY <1>2, <3>2, Writers
        <4>2. /\ s.assessment = e /\ s.tenant = Tenant(e) /\ s.identity = Identity(e)
              /\ s.risk = risk[e] /\ s.context = known[e] /\ s.applied = applied[e]
              /\ s.expected = verdict[e]
          BY <3>2, <4>1 DEF SaveSnapshot
        <4>3. /\ req' = req /\ verdict' = verdict /\ risk' = risk /\ applied' = applied
              /\ known' = known /\ pc'[e] = "enqueue"
          BY <2>1, <4>1 DEF SaveSnapshot, Goto, TypeOK
        <4>4. QED
          BY <4>2, <4>3 DEF PastSnapshot, Tenant, Identity
      <3>3. QED
        BY <3>1, <3>2
    <2>4. QED
      BY <2>2, <2>3 DEF RowInv
  <1>3. QED
    BY <1>1, <1>2 DEF Next

\* An evaluation's rows are there when its program counter says so.
LEMMA WrittenStep ==
  ASSUME TypeInv, TypeInv', WrittenInv, [Next]_vars
  PROVE  WrittenInv'
  <1>1. ASSUME UNCHANGED vars PROVE WrittenInv'
    BY <1>1 DEF WrittenInv, WrittenAt, Tenant, vars, locals, tables
  <1>2. ASSUME NEW e \in Evals, Start(e) \/ Proceed(e) \/ Abort(e), NEW f \in Evals
        PROVE  WrittenAt(f)'
    <2>1. TypeOK /\ TypeOK'
      BY DEF TypeInv
    <2>2. /\ WrittenAt(f) /\ req' = req /\ Tenant(f)' = Tenant(f)
          /\ assessments \subseteq assessments' /\ audits \subseteq audits'
          /\ snapshots \subseteq snapshots' /\ queue \subseteq queue'
      BY <1>2, <2>1, Frame DEF WrittenInv, WrittenAt, Tenant
    <2>3. CASE f # e
      <3>1. pc'[f] = pc[f] /\ verdict'[f] = verdict[f] /\ auditId'[f] = auditId[f]
        BY <1>2, <2>1, <2>3, Frame
      <3>2. QED
        BY <2>2, <3>1 DEF WrittenAt, Tenant
    <2>4. CASE f = e /\ SaveAssessment(e)
      <3>1. pc'[e] = "audit"
        BY <2>1, <2>4 DEF SaveAssessment, Goto, TypeOK
      <3>2. \E a \in assessments' : /\ a.id = e /\ a.tenant = Tenant(e)
                                    /\ a.run = req[e].run /\ a.verdict = verdict'[e]
        <4> DEFINE new == [id |-> e, tenant |-> Tenant(e), run |-> req[e].run,
                           verdict |-> verdict[e], lost |-> lost[e], policy |-> Policy(e)]
        <4>1. new \in assessments' /\ verdict' = verdict
          BY <2>4 DEF SaveAssessment
        <4>2. /\ new.id = e /\ new.tenant = Tenant(e) /\ new.run = req[e].run
              /\ new.verdict = verdict[e]
          OBVIOUS
        <4> HIDE DEF new
        <4>3. QED
          BY <4>1, <4>2
      <3>3. QED
        BY <2>2, <2>4, <3>1, <3>2 DEF WrittenAt, Tenant
    <2>5. CASE f = e /\ AppendAudit(e)
      <3>1. PICK id \in AuditIds : AppendAudit(e)!1!(id)
        BY <2>5 DEF AppendAudit
      <3>2. pc[e] = "audit" /\ verdict' = verdict
        BY <2>5, <3>1 DEF AppendAudit, Goto
      <3>3. \/ pc'[e] = "failed"
            \/ /\ pc'[e] = "snapshot"
               /\ \E row \in audits' : /\ row.id = auditId'[e] /\ row.tenant = Tenant(e)
                                       /\ row.assessment = e
        <4> DEFINE new == [id |-> id, tenant |-> Tenant(e), assessment |-> e,
                           class |-> IF verdict[e] = "allow" THEN "ops" ELSE "audit"]
        <4>1. new.id = id /\ new.tenant = Tenant(e) /\ new.assessment = e
          OBVIOUS
        <4>2. \/ pc'[e] = "failed"
              \/ pc'[e] = "snapshot" /\ auditId'[e] = id /\ new \in audits'
          BY <2>1, <3>1 DEF Goto, TypeOK
        <4> HIDE DEF new
        <4>3. QED
          BY <4>1, <4>2
      <3>4. QED
        BY <2>2, <2>5, <3>2, <3>3 DEF WrittenAt, Tenant
    <2>6. CASE f = e /\ SaveSnapshot(e)
      <3>1. pc[e] = "snapshot" /\ pc'[e] = "enqueue" /\ verdict' = verdict /\ auditId' = auditId
        BY <2>1, <2>6 DEF SaveSnapshot, Goto, TypeOK
      <3>2. \E s \in snapshots' : s.assessment = e /\ s.tenant = Tenant(e)
        <4> DEFINE new == [assessment |-> e, tenant |-> Tenant(e), run |-> req[e].run,
                           risk |-> risk[e], identity |-> Identity(e), context |-> known[e],
                           lost |-> lost[e], applied |-> applied[e], expected |-> verdict[e],
                           policy |-> Policy(e), audit |-> auditId[e], at |-> clock']
        <4>1. new \in snapshots'
          BY <2>6 DEF SaveSnapshot
        <4>2. new.assessment = e /\ new.tenant = Tenant(e)
          OBVIOUS
        <4> HIDE DEF new
        <4>3. QED
          BY <4>1, <4>2
      <3>3. QED
        BY <2>2, <2>6, <3>1, <3>2 DEF WrittenAt, Tenant
    <2>7. CASE f = e /\ EnqueueAttention(e)
      <3>1. pc[e] = "enqueue" /\ pc'[e] = "returned" /\ verdict' = verdict /\ auditId' = auditId
        BY <2>1, <2>7 DEF EnqueueAttention, Goto, TypeOK
      <3>2. verdict[e] \in HumanVerdicts => \E item \in queue' : item.assessment = e
        <4> DEFINE new == [assessment |-> e, tenant |-> Tenant(e), severity |-> risk[e]]
        <4>1. verdict[e] \in HumanVerdicts => new \in queue'
          BY <2>7 DEF EnqueueAttention
        <4>2. new.assessment = e
          OBVIOUS
        <4> HIDE DEF new
        <4>3. QED
          BY <4>1, <4>2
      <3>3. QED
        BY <2>2, <2>7, <3>1, <3>2 DEF WrittenAt, Tenant
    <2>8. CASE f = e /\ ~(\/ SaveAssessment(e) \/ AppendAudit(e) \/ SaveSnapshot(e)
                          \/ EnqueueAttention(e))
      <3>1. pc'[e] \notin {"audit", "snapshot", "enqueue", "returned"}
        BY <1>2, <2>1, <2>8
        DEF TypeOK, Start, Proceed, Abort, Goto, ReadTaskstate, ReadProtocols, ReadMemx,
            ReadWorkflow, ReadGatefield, ReadShipyard
      <3>2. QED
        BY <2>8, <3>1 DEF WrittenAt
    <2>9. QED
      BY <2>3, <2>4, <2>5, <2>6, <2>7, <2>8
  <1>3. QED
    BY <1>1, <1>2 DEF Next, WrittenInv

\* Every new row refers to rows that are there already, and no row ever goes away.
LEMMA BackedStep ==
  ASSUME TypeInv, WrittenInv, RowsAreBacked, [Next]_vars
  PROVE  RowsAreBacked'
  <1>1. ASSUME UNCHANGED vars PROVE RowsAreBacked'
    BY <1>1 DEF RowsAreBacked, vars, tables
  <1>2. ASSUME NEW e \in Evals, Start(e) \/ Proceed(e) \/ Abort(e) PROVE RowsAreBacked'
    <2>1. /\ assessments \subseteq assessments' /\ audits \subseteq audits'
          /\ snapshots \subseteq snapshots' /\ queue \subseteq queue'
      BY <1>2, Frame DEF TypeInv
    <2>2. WrittenAt(e)
      BY DEF WrittenInv, WrittenAt
    <2>3. ASSUME NEW row \in audits'
          PROVE  \E a \in assessments' : a.id = row.assessment /\ a.tenant = row.tenant
      <3>1. CASE row \in audits
        BY <2>1, <3>1 DEF RowsAreBacked
      <3>2. CASE row \notin audits
        <4>1. AppendAudit(e)
          BY <1>2, <3>2, Writers
        <4>2. pc[e] = "audit" /\ row.assessment = e /\ row.tenant = Tenant(e)
          BY <3>2, <4>1 DEF AppendAudit, Goto
        <4>3. QED
          BY <2>1, <2>2, <4>2 DEF WrittenAt
      <3>3. QED
        BY <3>1, <3>2
    <2>4. ASSUME NEW s \in snapshots'
          PROVE  /\ \E a \in assessments' : /\ a.id = s.assessment /\ a.tenant = s.tenant
                                            /\ a.run = s.run /\ a.verdict = s.expected
                 /\ \E row \in audits' : /\ row.id = s.audit /\ row.tenant = s.tenant
                                         /\ row.assessment = s.assessment
      <3>1. CASE s \in snapshots
        BY <2>1, <3>1 DEF RowsAreBacked
      <3>2. CASE s \notin snapshots
        <4>1. SaveSnapshot(e)
          BY <1>2, <3>2, Writers
        <4>2. /\ pc[e] = "snapshot" /\ s.assessment = e /\ s.tenant = Tenant(e)
              /\ s.run = req[e].run /\ s.expected = verdict[e] /\ s.audit = auditId[e]
          BY <3>2, <4>1 DEF SaveSnapshot, Goto
        <4>3. QED
          BY <2>1, <2>2, <4>2 DEF WrittenAt
      <3>3. QED
        BY <3>1, <3>2
    <2>5. ASSUME NEW item \in queue'
          PROVE  \E s \in snapshots' : s.assessment = item.assessment /\ s.tenant = item.tenant
      <3>1. CASE item \in queue
        BY <2>1, <3>1 DEF RowsAreBacked
      <3>2. CASE item \notin queue
        <4>1. EnqueueAttention(e)
          BY <1>2, <3>2, Writers
        <4>2. pc[e] = "enqueue" /\ item.assessment = e /\ item.tenant = Tenant(e)
          BY <3>2, <4>1 DEF EnqueueAttention, Goto
        <4>3. QED
          BY <2>1, <2>2, <4>2 DEF WrittenAt
      <3>3. QED
        BY <3>1, <3>2
    <2>6. QED
      BY <2>3, <2>4, <2>5 DEF RowsAreBacked
  <1>3. QED
    BY <1>1, <1>2 DEF Next
-----------------------------------------------------------------------------
(* The inductive invariant holds.                                          *)

\* Initially nothing is judged and nothing is written.
LEMMA GateInit == Init => GateInv
  <1> SUFFICES ASSUME Init PROVE GateInv
    OBVIOUS
  <1>1. TypeInv
    BY TypeInit
  <1>2. ASSUME NEW e \in Evals PROVE JudgedAt(e) /\ StageAt(e)
    <2>1. /\ pc[e] = "idle" /\ verdict[e] = "allow" /\ risk[e] = "medium" /\ lost[e] = {}
          /\ known[e] = NothingKnown /\ \A x \in Axes : applied[e][x] = "allow"
      BY DEF Init
    <2>2. NothingKnown.packet = NoPacket
      BY DEF NothingKnown
    <2>3. Transformed(known[e], req[e].caller \in Admins) = "allow"
      BY <2>1, <2>2 DEF Transformed
    <2>4. JudgedAt(e)
      BY <2>1, <2>3 DEF JudgedAt, Judged, Contribution, AtLeast, Priority
    <2>5. StageAt(e)
      BY <2>1, <2>2 DEF StageAt, Stage, Late, WritePhase
    <2>6. QED
      BY <2>4, <2>5
  <1>3. RowInv /\ WrittenInv /\ RowsAreBacked
    BY DEF Init, RowInv, WrittenInv, WrittenAt, RowsAreBacked
  <1>4. QED
    BY <1>1, <1>2, <1>3 DEF GateInv, JudgedInv, StageInv

\* GateInv is inductive.
LEMMA GateStep == GateInv /\ [Next]_vars => GateInv'
  BY TypeStep, LocalStep, RowStep, WrittenStep, BackedStep DEF GateInv

\* It holds in every reachable state.
LEMMA GateInvariant == Spec => []GateInv
  BY GateInit, GateStep, PTL DEF Spec
-----------------------------------------------------------------------------
(* What the invariant is for.                                              *)

\* A row in hand: its evaluation is judged, settled and in the row.
LEMMA AssessmentFacts ==
  ASSUME GateInv, NEW row \in assessments
  PROVE  /\ row.id \in Evals /\ row.verdict = verdict[row.id] /\ row.lost = lost[row.id]
         /\ row.tenant = Tenant(row.id)
         /\ verdict[row.id] \in Verdicts /\ lost[row.id] \subseteq Axes
         /\ known[row.id] \in ContextType
         /\ JudgedAt(row.id)
         /\ Settled(verdict[row.id], risk[row.id], lost[row.id], known[row.id])
  BY DEF GateInv, TypeInv, TypeOK, AssessmentType, RowInv, JudgedInv

\* A snapshot in hand: it is what its judged and settled evaluation says, and the
\* assessment it names is there.
LEMMA SnapshotFacts ==
  ASSUME GateInv, NEW s \in snapshots
  PROVE  LET e == s.assessment
         IN  /\ e \in Evals /\ s.expected = verdict[e] /\ s.applied = applied[e]
             /\ s.context = known[e] /\ s.risk = risk[e] /\ s.identity = req[e].caller
             /\ verdict[e] \in Verdicts /\ applied[e] \in [Axes -> Verdicts]
             /\ known[e] \in ContextType
             /\ JudgedAt(e)
             /\ Settled(verdict[e], risk[e], lost[e], known[e])
             /\ \E row \in assessments : /\ row.id = e /\ row.tenant = s.tenant
                                         /\ row.verdict = s.expected
  <1> DEFINE e == s.assessment
  <1>1. /\ e \in Evals /\ verdict[e] \in Verdicts /\ applied[e] \in [Axes -> Verdicts]
        /\ known[e] \in ContextType
    BY DEF GateInv, TypeInv, TypeOK, SnapshotType
  <1>2. /\ s.expected = verdict[e] /\ s.applied = applied[e]
        /\ s.context = known[e] /\ s.risk = risk[e] /\ s.identity = req[e].caller
    BY DEF GateInv, RowInv, Identity
  <1>3. PICK row \in assessments : row.id = e /\ row.tenant = s.tenant /\ row.verdict = s.expected
    BY DEF GateInv, RowsAreBacked
  <1>4. JudgedAt(e) /\ Settled(verdict[e], risk[e], lost[e], known[e])
    BY <1>3, AssessmentFacts
  <1>5. QED
    BY <1>1, <1>2, <1>3, <1>4

\* An unavailable adapter keeps its own floor under every assessment ever saved.
LEMMA GateInvFailSafe == GateInv => FailSafe
  <1> SUFFICES ASSUME GateInv, NEW row \in assessments
               PROVE  /\ row.lost # {}                 => AtLeast(row.verdict, "needs_approval")
                      /\ "memx" \in row.lost           => AtLeast(row.verdict, "stale_blocked")
                      /\ "taskstate" \in row.lost      => row.verdict = "deny"
                      /\ "gatefield" \in row.lost /\ req[row.id].action \in PublishActions
                                                       => row.verdict = "deny"
                      /\ "gatefield" \in row.lost /\ risk[row.id] \in HighRisks
                                                       => AtLeast(row.verdict, "require_human")
                      /\ "shipyard" \in row.lost /\ risk[row.id] \in HighRisks
                                                       => row.verdict = "deny"
    BY DEF FailSafe
  <1> DEFINE e == row.id
             floor(x) == FailureVerdict(x, risk[e], req[e].action)
  <1>1. /\ row.verdict = verdict[e] /\ row.lost = lost[e] /\ lost[e] \subseteq Axes
        /\ verdict[e] \in Verdicts /\ JudgedAt(e)
    BY AssessmentFacts
  <1>2. ASSUME NEW x \in row.lost
        PROVE  AtLeast(row.verdict, floor(x)) /\ floor(x) \in Verdicts
               /\ AtLeast(floor(x), "needs_approval")
    <2>1. x \in Axes /\ applied[e][x] = floor(x) /\ AtLeast(verdict[e], applied[e][x])
      BY <1>1 DEF JudgedAt, Judged, Contribution
    <2>2. QED
      BY <1>1, <2>1, FailureVerdictFloor
  <1>3. row.verdict \in Verdicts /\ "needs_approval" \in Verdicts
    BY <1>1 DEF Verdicts
  <1>4. row.lost # {} => AtLeast(row.verdict, "needs_approval")
    BY <1>2, <1>3, AtLeastOrder
  <1>5. "memx" \in row.lost => AtLeast(row.verdict, "stale_blocked")
    BY <1>2 DEF FailureVerdict
  <1>6. ASSUME AtLeast(row.verdict, "deny") PROVE row.verdict = "deny"
    BY <1>3, <1>6, AtLeastOrder DEF Verdicts
  <1>7. "taskstate" \in row.lost => row.verdict = "deny"
    BY <1>2, <1>6 DEF FailureVerdict
  <1>8. /\ "gatefield" \in row.lost /\ req[e].action \in PublishActions => row.verdict = "deny"
        /\ "gatefield" \in row.lost /\ risk[e] \in HighRisks
             => AtLeast(row.verdict, "require_human")
    <2>1. floor("gatefield") = GatefieldFailure(risk[e], req[e].action)
      BY DEF FailureVerdict
    <2>2. /\ req[e].action \in PublishActions => floor("gatefield") = "deny"
          /\ risk[e] \in HighRisks => floor("gatefield") \in {"deny", "require_human"}
      BY <2>1 DEF GatefieldFailure
    <2>3. AtLeast("deny", "require_human")
      BY DEF AtLeast, Priority
    <2> HIDE DEF floor
    <2>4. QED
      BY <1>2, <1>6, <2>2, <2>3
  <1>9. "shipyard" \in row.lost /\ risk[e] \in HighRisks => row.verdict = "deny"
    BY <1>2, <1>6 DEF FailureVerdict, ShipyardFailure
  <1>10. QED
    BY <1>4, <1>5, <1>7, <1>8, <1>9

\* FailSafe for every choice of what may fail, in whatever order calls interleave.
THEOREM FailSafeHolds == Spec => []FailSafe
  BY GateInvariant, GateInvFailSafe, PTL

\* The four tables refer to each other as RowsAreBacked says.
THEOREM RowsAreBackedHolds == Spec => []RowsAreBacked
  <1>1. GateInv => RowsAreBacked
    BY DEF GateInv
  <1>2. QED
    BY <1>1, GateInvariant, PTL

\* An answered call has all its rows.
LEMMA GateInvRecorded == GateInv => AnsweredIsRecorded
  <1> SUFFICES ASSUME GateInv, NEW e \in Evals, pc[e] = "returned"
               PROVE  /\ \E a \in assessments : a.id = e /\ a.verdict = verdict[e]
                      /\ \E row \in audits : row.assessment = e
                      /\ \E s \in snapshots : s.assessment = e
                      /\ verdict[e] \in HumanVerdicts => \E item \in queue : item.assessment = e
    BY DEF AnsweredIsRecorded
  <1>1. WrittenAt(e)
    BY DEF GateInv, WrittenInv
  <1>2. QED
    BY <1>1 DEF WrittenAt

\* Whatever crashes or collides, a verdict that was answered is on record.
THEOREM AnsweredIsRecordedHolds == Spec => []AnsweredIsRecorded
  BY GateInvariant, GateInvRecorded, PTL

\* No step of the fold ever loosens a verdict.
THEOREM VerdictOnlyTightensHolds == Spec => VerdictOnlyTightens
  <1>1. GateInv /\ [Next]_vars => \A e \in Evals : AtLeast(verdict'[e], verdict[e])
    <2> SUFFICES ASSUME GateInv, [Next]_vars, NEW f \in Evals
                 PROVE  AtLeast(verdict'[f], verdict[f])
      OBVIOUS
    <2>1. TypeOK /\ verdict[f] \in Verdicts /\ AtLeast(verdict[f], verdict[f])
      BY AtLeastOrder DEF GateInv, TypeInv, TypeOK
    <2>2. CASE UNCHANGED vars
      BY <2>1, <2>2 DEF vars, locals
    <2>3. ASSUME NEW e \in Evals, Start(e) \/ Proceed(e) \/ Abort(e)
          PROVE  AtLeast(verdict'[f], verdict[f])
      <3>1. CASE f # e
        BY <2>1, <2>3, <3>1, Frame
      <3>2. CASE f = e /\ verdict' = verdict
        BY <2>1, <3>2
      <3>3. CASE f = e /\ \E first, second \in Verdicts : Fold(e, first, second)
        BY <2>1, <3>3, FoldIsMax
      <3>4. verdict' = verdict \/ \E first, second \in Verdicts : Fold(e, first, second)
        <4>1. CASE ReadGatefield(e)
          <5>1. PICK ok \in Answers("gatefield"), packet \in Packets :
                  ReadGatefield(e)!2!(ok, packet)
            BY <4>1 DEF ReadGatefield
          <5> DEFINE context == [known[e] EXCEPT !.packet = IF ok THEN packet ELSE NoPacket]
          <5>2. known'[e] = context /\ context \in ContextType
            <6>1. TypeOK'
              BY TypeStep DEF GateInv, TypeInv
            <6>2. QED
              BY <2>1, <5>1, <6>1 DEF TypeOK
          <5>3. Transformed(context, Identity(e) \in Admins) \in Verdicts
            BY <5>2, TransformedType
          <5>4. QED
            BY <5>1, <5>3, ContributionType
        <4>2. CASE ReadTaskstate(e) \/ ReadProtocols(e) \/ ReadMemx(e) \/ ReadWorkflow(e)
                   \/ ReadShipyard(e)
          <5>1. "allow" \in Verdicts
            BY DEF Verdicts
          <5>2. \E axis, ok, level, action :
                  \/ Fold(e, Contribution(axis, ok, level, action), "allow")
                  \/ \E denied : Fold(e, Contribution(axis, ok, level, action), DenyIf(denied))
            <6>1. CASE ReadTaskstate(e)
              BY <6>1 DEF ReadTaskstate
            <6>2. CASE ReadProtocols(e)
              BY <6>2 DEF ReadProtocols
            <6>3. CASE ReadMemx(e) \/ ReadShipyard(e)
              BY <6>3 DEF ReadMemx, ReadShipyard
            <6>4. CASE ReadWorkflow(e)
              BY <6>4 DEF ReadWorkflow
            <6>5. QED
              BY <4>2, <6>1, <6>2, <6>3, <6>4
          <5>3. QED
            BY <5>1, <5>2, ContributionType, DenyIfType
        <4>3. CASE Start(e) \/ Abort(e) \/ SaveAssessment(e) \/ AppendAudit(e)
                   \/ SaveSnapshot(e) \/ EnqueueAttention(e)
          BY <4>3 DEF Start, Abort, SaveAssessment, AppendAudit, SaveSnapshot,
             EnqueueAttention
        <4>4. QED
          BY <2>3, <4>1, <4>2, <4>3 DEF Proceed
      <3>5. QED
        BY <3>1, <3>2, <3>3, <3>4
    <2>4. QED
      BY <2>2, <2>3 DEF Next
  <1>2. QED
    BY <1>1, GateInvariant, PTL DEF Spec, VerdictOnlyTightens

\* An attested verdict is one of its grounds and as strict as each of them.
LEMMA GateInvStrictest == GateInv => VerdictIsStrictestGround
  <1> SUFFICES ASSUME GateInv, NEW s \in snapshots
               PROVE  /\ s.expected \in Grounds(s)
                      /\ \A ground \in Grounds(s) : AtLeast(s.expected, ground)
    BY DEF VerdictIsStrictestGround
  <1> DEFINE e == s.assessment
             table == Transformed(s.context, s.identity \in Admins)
  <1>1. /\ s.expected \in Verdicts
        /\ Judged(s.identity, req[e].action, s.expected, s.risk, lost[e], s.applied, s.context)
        /\ Settled(s.expected, s.risk, lost[e], s.context)
    BY SnapshotFacts DEF JudgedAt
  <1>2. AtLeast(s.expected, DenyIf(SafetyDenied(s)))
    BY <1>1, AtLeastOrder DEF Settled, SafetyDenied, DenyIf
  <1>3. ASSUME NEW ground \in Grounds(s) PROVE AtLeast(s.expected, ground)
    BY <1>1, <1>2, <1>3 DEF Grounds, Judged
  <1>4. s.expected \in Grounds(s)
    <2>1. CASE s.expected = "allow"
      <3>1. s.applied["taskstate"] \in Verdicts /\ AtLeast("allow", s.applied["taskstate"])
        BY <1>1, <2>1, SnapshotFacts DEF Judged, Axes
      <3>2. s.applied["taskstate"] = "allow"
        BY <1>1, <2>1, <3>1, AtLeastOrder
      <3>3. QED
        BY <2>1, <3>2 DEF Grounds, Axes
    <2>2. CASE \E x \in Axes : s.expected = s.applied[x]
      BY <2>2 DEF Grounds
    <2>3. CASE s.expected = "deny" /\ Denied(s.risk, s.context)
      BY <2>3 DEF Grounds, Denied, SafetyDenied, DenyIf
    <2>4. CASE s.expected = table
      BY <2>4 DEF Grounds
    <2>5. QED
      BY <1>1, <2>1, <2>2, <2>3, <2>4 DEF Judged
  <1>5. QED
    BY <1>3, <1>4

\* The fold over the six calls is the strictest ground, for every snapshot written.
THEOREM VerdictIsStrictestGroundHolds == Spec => []VerdictIsStrictestGround
  BY GateInvariant, GateInvStrictest, PTL

\* "allow" is only ever saved when everything evaluate asks about was in order.
LEMMA GateInvAllow == GateInv => AllowIsEarned
  <1> SUFFICES ASSUME GateInv, NEW row \in assessments, row.verdict = "allow"
               PROVE  LET c == known[row.id]
                      IN  /\ row.lost = {}
                          /\ c.packet.decision = "pass" /\ c.fresh
                          /\ c.strength >= MinStrength /\ c.obligation.rate = 100
                          /\ ~c.hard /\ ~(risk[row.id] = "critical" /\ c.sla)
    BY DEF AllowIsEarned
  <1> DEFINE e == row.id
             c == known[e]
             table == Transformed(c, req[e].caller \in Admins)
  <1>1. /\ verdict[e] = "allow" /\ row.lost = lost[e] /\ lost[e] \subseteq Axes
        /\ c \in ContextType
        /\ Judged(req[e].caller, req[e].action, "allow", risk[e], lost[e], applied[e], c)
        /\ Settled("allow", risk[e], lost[e], c)
    BY AssessmentFacts DEF JudgedAt
  <1>2. ASSUME NEW v \in Verdicts, AtLeast("allow", v) PROVE v = "allow"
    BY <1>2, AtLeastOrder DEF Verdicts
  <1>3. lost[e] = {}
    <2>1. ASSUME NEW x \in lost[e] PROVE FALSE
      <3>1. /\ applied[e][x] = FailureVerdict(x, risk[e], req[e].action)
            /\ AtLeast("allow", applied[e][x])
        BY <1>1 DEF Judged, Contribution
      <3>2. applied[e][x] = "allow" /\ AtLeast(applied[e][x], "needs_approval")
        BY <1>2, <3>1, FailureVerdictFloor
      <3>3. QED
        BY <3>2 DEF AtLeast, Priority
    <2>2. QED
      BY <2>1
  <1>4. ~c.hard /\ ~(risk[e] = "critical" /\ c.sla)
    BY <1>1 DEF Settled, DenyIf, AtLeast, Priority
  <1>5. c.packet # NoPacket /\ table = "allow"
    <2>1. AtLeast("allow", table) /\ table \in Verdicts
      BY <1>1, TransformedType DEF Judged
    <2>2. QED
      BY <1>1, <1>2, <1>3, <2>1 DEF Settled
  <1>6. /\ c.packet.decision \in Decisions /\ c.fresh \in BOOLEAN
        /\ c.obligation.rate \in Percent /\ c.strength \in Percent
    BY <1>1, <1>5 DEF ContextType, PacketType, ObligationType
  <1>7. c.packet.decision = "pass" /\ c.fresh /\ PassVerdict(c.obligation, c.strength) = "allow"
    <2>1. /\ WarnVerdict(c.packet, c.required, req[e].caller \in Admins) # "allow"
          /\ HoldVerdict(c.packet, c.required \ c.approved, FALSE) # "allow"
      BY DEF WarnVerdict, HoldVerdict
    <2>2. QED
      BY <1>5, <1>6, <2>1 DEF Transformed, ResolveVerdict, Decisions
  <1>8. c.strength >= MinStrength /\ c.obligation.rate = 100
    BY <1>6, <1>7 DEF PassVerdict, ObligationVerdict, Percent, MinStrength
  <1>9. QED
    BY <1>1, <1>3, <1>4, <1>7, <1>8

\* No adapter outage and no order of calls lets an unearned allow through.
THEOREM AllowIsEarnedHolds == Spec => []AllowIsEarned
  BY GateInvariant, GateInvAllow, PTL

\* replay recomputes the verdict evaluate attested: the strictest of the decision
\* table and the recorded failure policies is unique.
LEMMA GateInvReplay == GateInv => ReplayVerifies
  <1> SUFFICES ASSUME GateInv, NEW s \in snapshots,
                      s.policy = ConfigVersion, ~SafetyDenied(s)
               PROVE  ReplayStatus(s, s.identity, s.at) = "verified"
    BY DEF ReplayVerifies
  <1> DEFINE admin == s.identity \in Admins
             S == {Transformed(s.context, admin)} \cup {s.applied[a] : a \in Axes}
  <1>1. /\ s.expected \in S /\ \A w \in S : AtLeast(s.expected, w)
        /\ s.expected \in Verdicts /\ S \subseteq Verdicts
    <2>1. /\ s.expected \in Grounds(s) /\ \A ground \in Grounds(s) : AtLeast(s.expected, ground)
      BY GateInvStrictest DEF VerdictIsStrictestGround
    <2>2. /\ s.expected \in Verdicts /\ s.applied \in [Axes -> Verdicts]
          /\ s.context \in ContextType
      BY SnapshotFacts
    <2>3. S \subseteq Grounds(s) /\ Grounds(s) = S \cup {"allow"}
      BY DEF Grounds, DenyIf
    <2>4. S \subseteq Verdicts
      BY <2>2, TransformedType
    <2>5. s.expected \in S
      <3>1. CASE s.expected = "allow"
        <4>1. AtLeast("allow", s.applied["taskstate"]) /\ s.applied["taskstate"] \in S
          BY <2>1, <2>3, <3>1 DEF Axes
        <4>2. s.applied["taskstate"] = "allow"
          BY <2>2, <2>4, <3>1, <4>1, AtLeastOrder
        <4>3. QED
          BY <3>1, <4>1, <4>2
      <3>2. CASE s.expected # "allow"
        BY <2>1, <2>3, <3>2
      <3>3. QED
        BY <3>1, <3>2
    <2>6. QED
      BY <2>1, <2>2, <2>3, <2>4, <2>5
  <1>2. MostRestrictive(S) = s.expected
    <2>1. ASSUME NEW v \in S, \A w \in S : AtLeast(v, w) PROVE v = s.expected
      BY <1>1, <2>1, AtLeastOrder
    <2>2. QED
      BY <1>1, <2>1 DEF MostRestrictive
  <1>3. s.expected = Recompute(s, admin)
    BY <1>2 DEF Recompute
  <1>4. /\ ~(s.at > s.at)
        /\ \E row \in assessments : /\ row.id = s.assessment /\ row.tenant = s.tenant
                                    /\ row.verdict = s.expected
    <2>1. s.at \in Nat
      BY DEF GateInv, TypeInv, TypeOK, SnapshotType
    <2>2. QED
      BY <2>1, SnapshotFacts
  <1>5. QED
    BY <1>3, <1>4 DEF ReplayStatus

\* replay agrees with evaluate wherever ReplayVerifies says it can.
THEOREM ReplayVerifiesHolds == Spec => []ReplayVerifies
  BY GateInvariant, GateInvReplay, PTL
-----------------------------------------------------------------------------
(* The refinement.                                                         *)

PastAudit   == {"snapshot", "enqueue", "returned", "failed"}
ClassFor(v) == IF v = "allow" THEN "ops" ELSE "audit"

\* An audit packet is of its evaluation's class, and only an answered evaluation has a
\* queue item.
RecordInv ==
  /\ \A row \in audits : pc[row.assessment] \in PastAudit
                         /\ row.class = ClassFor(verdict[row.assessment])
  /\ \A item \in queue : pc[item.assessment] = "returned"

\* What a step may do to the phase of an evaluation that is past a write.
LEMMA PhaseOrder ==
  ASSUME TypeOK, NEW e \in Evals, Start(e) \/ Proceed(e) \/ Abort(e), NEW f \in Evals
  PROVE  /\ pc[f] \in PastAudit => pc'[f] \in PastAudit
         /\ pc[f] = "returned" => pc'[f] = "returned"
         /\ EnqueueAttention(e) \/ (pc'[f] = "returned" => pc[f] = "returned")
  <1>1. CASE f # e
    BY <1>1, Frame
  <1>2. CASE f = e
    <2>1. pc \in [Evals -> PCs]
      BY DEF TypeOK
    <2>2. CASE Start(e) \/ Abort(e)
      <3>1. pc[e] \in {"idle"} \cup AdapterPhase \cup WritePhase /\ pc'[e] \in {"taskstate", "failed"}
        BY <2>1, <2>2 DEF Start, Abort, Goto
      <3>2. pc'[e] = "taskstate" => pc[e] = "idle"
        BY <2>1, <2>2 DEF Start, Abort, Goto
      <3>3. QED
        BY <1>2, <3>1, <3>2 DEF PastAudit, AdapterPhase, WritePhase
    <2>3. CASE Proceed(e) /\ pc[e] \in AdapterPhase
      BY <1>2, <2>1, <2>3
      DEF PastAudit, AdapterPhase, Proceed, Goto, ReadTaskstate, ReadProtocols, ReadMemx,
          ReadWorkflow, ReadGatefield, ReadShipyard, SaveAssessment, AppendAudit,
          SaveSnapshot, EnqueueAttention
    <2>4. CASE Proceed(e) /\ pc[e] \notin AdapterPhase
      <3>1. SaveAssessment(e) \/ AppendAudit(e) \/ SaveSnapshot(e) \/ EnqueueAttention(e)
        BY <2>4 DEF Proceed, AdapterPhase, Goto, ReadTaskstate, ReadProtocols, ReadMemx,
                    ReadWorkflow, ReadGatefield, ReadShipyard
      <3>2. \/ pc[e] = "assessment" /\ pc'[e] = "audit"
            \/ pc[e] = "audit" /\ pc'[e] \in {"failed", "snapshot"}
            \/ pc[e] = "snapshot" /\ pc'[e] = "enqueue"
            \/ EnqueueAttention(e) /\ pc[e] = "enqueue" /\ pc'[e] = "returned"
        BY <2>1, <3>1 DEF Goto, SaveAssessment, AppendAudit, SaveSnapshot, EnqueueAttention
      <3>3. QED
        BY <1>2, <3>2 DEF PastAudit
    <2>5. QED
      BY <2>2, <2>3, <2>4
  <1>3. QED
    BY <1>1, <1>2

\* Every step keeps audit packets and queue items what RecordInv says.
LEMMA RecordStep ==
  ASSUME GateInv, RecordInv, [Next]_vars
  PROVE  RecordInv'
  <1>1. CASE UNCHANGED vars
    BY <1>1 DEF vars, locals, tables, RecordInv
  <1>2. ASSUME NEW e \in Evals, Start(e) \/ Proceed(e) \/ Abort(e)
        PROVE  RecordInv'
    <2>1. TypeOK
      BY DEF GateInv, TypeInv
    <2>2. ASSUME NEW row \in audits'
          PROVE  pc'[row.assessment] \in PastAudit
                 /\ row.class = ClassFor(verdict'[row.assessment])
      <3>1. CASE row \in audits
        <4>1. PICK f \in Evals : f = row.assessment
          BY <2>1, <3>1 DEF TypeOK, AuditType
        <4>2. pc[f] \in PastAudit /\ row.class = ClassFor(verdict[f])
          BY <3>1, <4>1 DEF RecordInv
        <4>3. pc'[f] \in PastAudit
          BY <1>2, <2>1, <4>2, PhaseOrder
        <4>4. Judgement(f)' = Judgement(f)
          BY <1>2, <2>1, <4>2, Kept DEF PastAudit, WritePhase, Ended
        <4>5. QED
          BY <4>1, <4>2, <4>3, <4>4 DEF Judgement
      <3>2. CASE row \notin audits
        <4>1. AppendAudit(e)
          BY <1>2, <2>2, <3>2, Writers
        <4>2. /\ row.assessment = e /\ row.class = ClassFor(verdict[e])
              /\ pc'[e] = "snapshot" /\ verdict' = verdict
          BY <2>1, <2>2, <3>2, <4>1 DEF AppendAudit, Goto, TypeOK, ClassFor
        <4>3. QED
          BY <4>2 DEF PastAudit
      <3>3. QED
        BY <3>1, <3>2
    <2>3. ASSUME NEW item \in queue'
          PROVE  pc'[item.assessment] = "returned"
      <3>1. CASE item \in queue
        <4>1. PICK f \in Evals : f = item.assessment
          BY <2>1, <3>1 DEF TypeOK, ItemType
        <4>2. QED
          BY <1>2, <2>1, <3>1, <4>1, PhaseOrder DEF RecordInv
      <3>2. CASE item \notin queue
        <4>1. EnqueueAttention(e)
          BY <1>2, <2>3, <3>2, Writers
        <4>2. QED
          BY <2>1, <2>3, <3>2, <4>1 DEF EnqueueAttention, Goto, TypeOK
      <3>3. QED
        BY <3>1, <3>2
    <2>4. QED
      BY <2>2, <2>3 DEF RecordInv
  <1>3. QED
    BY <1>1, <1>2 DEF Next

LEMMA RecordInvariant == Spec => [](GateInv /\ RecordInv)
  <1>1. Init => RecordInv
    BY DEF Init, RecordInv
  <1>2. QED
    BY <1>1, GateInit, GateStep, RecordStep, PTL DEF Spec

\* The record maps every evaluation, before and after a step.
LEMMA RecordFunctions ==
  /\ Recorded = [e \in Evals |-> Recorded[e]] /\ Recorded' = [e \in Evals |-> Recorded'[e]]
  /\ Audited = [e \in Evals |-> Audited[e]]   /\ Audited' = [e \in Evals |-> Audited'[e]]
  /\ Attested = [e \in Evals |-> Attested[e]] /\ Attested' = [e \in Evals |-> Attested'[e]]
  /\ Answered = [e \in Evals |-> Answered[e]] /\ Answered' = [e \in Evals |-> Answered'[e]]
  BY DEF Recorded, Audited, Attested, Answered

\* Each write has a phase of its own.
LEMMA WritePhases ==
  ASSUME NEW e \in Evals
  PROVE  /\ SaveAssessment(e) => pc[e] = "assessment"
         /\ AppendAudit(e) => pc[e] = "audit"
         /\ SaveSnapshot(e) => pc[e] = "snapshot"
         /\ EnqueueAttention(e) => pc[e] = "enqueue"
  BY DEF SaveAssessment, AppendAudit, SaveSnapshot, EnqueueAttention, Goto

\* The record of an evaluation, table by table, is of the verdict it stands at.
LEMMA RecordFacts ==
  ASSUME GateInv, RecordInv, NEW e \in Evals
  PROVE  /\ Recorded[e] = IF \E a \in assessments : a.id = e THEN {verdict[e]} ELSE {}
         /\ Audited[e] = IF \E row \in audits : row.assessment = e
                           THEN {ClassFor(verdict[e])} ELSE {}
         /\ Attested[e] = IF \E s \in snapshots : s.assessment = e
                            THEN {verdict[e]} ELSE {}
         /\ (\E a \in assessments : a.id = e) => pc[e] \in PastAssessment
         /\ (\E row \in audits : row.assessment = e) => pc[e] \in PastAudit
         /\ (\E s \in snapshots : s.assessment = e) => pc[e] \in PastSnapshot
  <1>1. \A a \in assessments : a.id = e => a.verdict = verdict[e] /\ pc[e] \in PastAssessment
    BY DEF GateInv, RowInv
  <1>2. \A row \in audits : row.assessment = e =>
          row.class = ClassFor(verdict[e]) /\ pc[e] \in PastAudit
    BY DEF RecordInv
  <1>3. \A s \in snapshots : s.assessment = e => s.expected = verdict[e] /\ pc[e] \in PastSnapshot
    BY DEF GateInv, RowInv
  <1>4. QED
    BY <1>1, <1>2, <1>3 DEF Recorded, Audited, Attested

\* The record of an evaluation changes only by the write that adds to it.
LEMMA RecordFrame ==
  ASSUME GateInv, RecordInv, NEW e \in Evals, Start(e) \/ Proceed(e) \/ Abort(e),
         NEW f \in Evals
  PROVE  /\ Recorded'[f] = Recorded[f] \/ (SaveAssessment(e) /\ f = e)
         /\ Audited'[f] = Audited[f] \/ (AppendAudit(e) /\ f = e)
         /\ Attested'[f] = Attested[f] \/ (SaveSnapshot(e) /\ f = e)
         /\ Answered'[f] = Answered[f] \/ (EnqueueAttention(e) /\ f = e)
         /\ Queued' = Queued \/ EnqueueAttention(e)
  <1>0. TypeOK
    BY DEF GateInv, TypeInv
  <1>1. Recorded'[f] = Recorded[f] \/ (SaveAssessment(e) /\ f = e)
    <2>1. \A a \in assessments' \ assessments : SaveAssessment(e) /\ a.id = e
      BY Writers DEF SaveAssessment
    <2>2. assessments \subseteq assessments'
      BY <1>0, Frame
    <2>3. QED
      BY <2>1, <2>2 DEF Recorded
  <1>2. Audited'[f] = Audited[f] \/ (AppendAudit(e) /\ f = e)
    <2>1. \A row \in audits' \ audits : AppendAudit(e) /\ row.assessment = e
      BY Writers DEF AppendAudit
    <2>2. audits \subseteq audits'
      BY <1>0, Frame
    <2>3. QED
      BY <2>1, <2>2 DEF Audited
  <1>3. Attested'[f] = Attested[f] \/ (SaveSnapshot(e) /\ f = e)
    <2>1. \A s \in snapshots' \ snapshots : SaveSnapshot(e) /\ s.assessment = e
      BY Writers DEF SaveSnapshot
    <2>2. snapshots \subseteq snapshots'
      BY <1>0, Frame
    <2>3. QED
      BY <2>1, <2>2 DEF Attested
  <1>4. Answered'[f] = Answered[f] \/ (EnqueueAttention(e) /\ f = e)
    <2>1. CASE f # e
      BY <1>0, <2>1, Frame DEF Answered
    <2>2. CASE f = e /\ ~EnqueueAttention(e)
      <3>1. pc'[e] = "returned" <=> pc[e] = "returned"
        BY <1>0, <2>2, PhaseOrder
      <3>2. pc[e] = "returned" => verdict'[e] = verdict[e]
        BY <1>0, Kept DEF Judgement, Ended
      <3>3. QED
        BY <2>2, <3>1, <3>2 DEF Answered
    <2>3. QED
      BY <2>1, <2>2
  <1>5. Queued' = Queued \/ EnqueueAttention(e)
    BY Writers DEF Queued
  <1>6. QED
    BY <1>1, <1>2, <1>3, <1>4, <1>5

\* An evaluation's transactions are the steps of DecisionRecord; its adapter calls, a
\* collision of audit ids and a crash are stuttering steps.
THEOREM RecordImplemented == Spec => ImplementsRecord
  <1> DEFINE record == <<Recorded, Audited, Attested, Answered, Queued>>
  <1>1. Init => Decision!Init
    BY DEF Init, Decision!Init, Decision!Nothing, Recorded, Audited, Attested, Answered, Queued
  <1>2. GateInv /\ RecordInv /\ [Next]_vars => [Decision!Next]_record
    <2> SUFFICES ASSUME GateInv, RecordInv, [Next]_vars PROVE [Decision!Next]_record
      OBVIOUS
    <2>1. CASE UNCHANGED vars
      BY <2>1 DEF vars, locals, tables, Recorded, Audited, Attested, Answered, Queued
    <2>2. ASSUME NEW e \in Evals, Start(e) \/ Proceed(e) \/ Abort(e)
          PROVE  [Decision!Next]_record
      <3>0. TypeOK /\ verdict[e] \in Verdicts
        BY DEF GateInv, TypeInv, TypeOK
      <3>1. CASE SaveAssessment(e)
        <4>1. PICK v \in Verdicts : v = verdict[e]
          BY <3>0
        <4>2. Recorded[e] = {}
          BY <3>1, RecordFacts, WritePhases DEF PastAssessment
        <4>3. Recorded'[e] = {v}
          <5>1. PICK a : a.id = e /\ a.verdict = v /\ assessments' = assessments \cup {a}
            BY <3>1, <4>1 DEF SaveAssessment
          <5>2. QED
            BY <4>2, <5>1 DEF Recorded
        <4>4. /\ \A f \in Evals \ {e} : Recorded'[f] = Recorded[f]
              /\ UNCHANGED <<Audited, Attested, Answered, Queued>>
          BY <2>2, <3>1, RecordFrame, RecordFunctions, WritePhases
        <4>5. Recorded' = [Recorded EXCEPT ![e] = {v}]
          BY <4>3, <4>4, RecordFunctions
        <4>6. Decision!Record(e, v)
          BY <4>2, <4>4, <4>5 DEF Decision!Record
        <4>7. QED
          BY <4>6 DEF Decision!Next
      <3>2. CASE AppendAudit(e)
        <4>1. Audited[e] = {} /\ Recorded[e] = {verdict[e]}
          <5>1. pc[e] = "audit" /\ \E a \in assessments : a.id = e
            BY <3>2, WritePhases DEF GateInv, WrittenInv, WrittenAt
          <5>2. QED
            BY <5>1, RecordFacts DEF PastAudit
        <4>2. \/ audits' = audits
              \/ \E row : /\ row.assessment = e /\ row.class = ClassFor(verdict[e])
                          /\ audits' = audits \cup {row}
          BY <3>2 DEF AppendAudit, ClassFor
        <4>3. Audited'[e] = {} \/ Audited'[e] = {ClassFor(verdict[e])}
          BY <4>1, <4>2 DEF Audited
        <4>4. /\ \A f \in Evals \ {e} : Audited'[f] = Audited[f]
              /\ UNCHANGED <<Recorded, Attested, Answered, Queued>>
          BY <2>2, <3>2, RecordFrame, RecordFunctions, WritePhases
        <4>5. CASE Audited'[e] = {}
          BY <4>1, <4>4, <4>5, RecordFunctions
        <4>6. CASE Audited'[e] = {ClassFor(verdict[e])}
          <5>1. Audited' = [Audited EXCEPT ![e] =
                              IF Recorded[e] = {"allow"} THEN {"ops"} ELSE {"audit"}]
            BY <4>1, <4>4, <4>6, RecordFunctions DEF ClassFor
          <5>2. Decision!Audit(e)
            BY <4>1, <4>4, <5>1 DEF Decision!Audit
          <5>3. QED
            BY <5>2 DEF Decision!Next
        <4>7. QED
          BY <4>3, <4>5, <4>6
      <3>3. CASE SaveSnapshot(e)
        <4>1. /\ Recorded[e] = {verdict[e]} /\ Audited[e] = {ClassFor(verdict[e])}
              /\ Attested[e] = {}
          <5>1. /\ pc[e] = "snapshot"
                /\ \E a \in assessments : a.id = e
                /\ \E row \in audits : row.assessment = e
            BY <3>3, WritePhases DEF GateInv, WrittenInv, WrittenAt
          <5>2. QED
            BY <5>1, RecordFacts DEF PastSnapshot
        <4>2. Attested'[e] = Recorded[e]
          <5>1. PICK s : /\ s.assessment = e /\ s.expected = verdict[e]
                         /\ snapshots' = snapshots \cup {s}
            BY <3>3 DEF SaveSnapshot
          <5>2. QED
            BY <4>1, <5>1 DEF Attested
        <4>3. /\ \A f \in Evals \ {e} : Attested'[f] = Attested[f]
              /\ UNCHANGED <<Recorded, Audited, Answered, Queued>>
          BY <2>2, <3>3, RecordFrame, RecordFunctions, WritePhases
        <4>4. Attested' = [Attested EXCEPT ![e] = Recorded[e]]
          BY <4>2, <4>3, RecordFunctions
        <4>5. Decision!Attest(e)
          BY <4>1, <4>3, <4>4 DEF Decision!Attest
        <4>6. QED
          BY <4>5 DEF Decision!Next
      <3>4. CASE EnqueueAttention(e)
        <4>1. /\ pc[e] = "enqueue" /\ pc'[e] = "returned" /\ verdict'[e] = verdict[e]
              /\ Queued' = IF verdict[e] \in HumanVerdicts THEN Queued \cup {e} ELSE Queued
          <5>1. verdict[e] \in HumanVerdicts =>
                  \E item : item.assessment = e /\ queue' = queue \cup {item}
            BY <3>4 DEF EnqueueAttention
          <5>2. verdict[e] \notin HumanVerdicts => queue' = queue
            BY <3>4 DEF EnqueueAttention
          <5>3. Queued' = IF verdict[e] \in HumanVerdicts THEN Queued \cup {e} ELSE Queued
            BY <5>1, <5>2 DEF Queued
          <5>4. QED
            BY <3>0, <3>4, <5>3 DEF EnqueueAttention, Goto, TypeOK
        <4>2. /\ Recorded[e] = {verdict[e]} /\ Attested[e] = {verdict[e]}
              /\ Answered[e] = {} /\ Answered'[e] = {verdict[e]}
          <5>1. (\E a \in assessments : a.id = e) /\ \E s \in snapshots : s.assessment = e
            BY <4>1 DEF GateInv, WrittenInv, WrittenAt
          <5>2. QED
            BY <4>1, <5>1, RecordFacts DEF Answered
        <4>3. /\ \A f \in Evals \ {e} : Answered'[f] = Answered[f]
              /\ UNCHANGED <<Recorded, Audited, Attested>>
          BY <2>2, <3>4, RecordFrame, RecordFunctions, WritePhases
        <4>4. Answered' = [Answered EXCEPT ![e] = Recorded[e]]
          BY <4>2, <4>3, RecordFunctions
        <4>5. Decision!Answer(e)
          BY <4>1, <4>2, <4>3, <4>4 DEF Decision!Answer
        <4>6. QED
          BY <4>5 DEF Decision!Next
      <3>5. CASE ~(SaveAssessment(e) \/ AppendAudit(e) \/ SaveSnapshot(e) \/ EnqueueAttention(e))
        BY <2>2, <3>5, RecordFrame, RecordFunctions
      <3>6. QED
        BY <3>1, <3>2, <3>3, <3>4, <3>5
    <2>3. QED
      BY <2>1, <2>2 DEF Next
  <1>3. QED
    BY <1>1, <1>2, RecordInvariant, PTL DEF Spec, ImplementsRecord, Decision!Spec
=============================================================================
