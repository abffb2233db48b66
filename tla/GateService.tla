---------------------------- MODULE GateService ----------------------------
(***************************************************************************)
(* GateService.evaluate and GateService.replay over the tenant-scoped      *)
(* database (service.py, persistence.py).                                  *)
(*                                                                         *)
(* An evaluation asks six adapters in a fixed order, folds what each       *)
(* answer (or failure) means into one verdict, and then writes four rows   *)
(* in four separate transactions: assessment, audit packet, attested       *)
(* snapshot and, for some verdicts, a human-queue item.  Any number of     *)
(* evaluations run concurrently; each may raise or die between two steps.  *)
(*                                                                         *)
(* What an adapter answers is chosen afresh at each call: the services     *)
(* behind the adapters are other programs and may change at any time.      *)
(* Between two calls evaluate computes on local data only, so one action   *)
(* runs from one call's result to the next call.                           *)
(*                                                                         *)
(* Nothing is purged here: purge_expired deletes audit packets and leaves  *)
(* the rows that name them, so what is said below of a row's audit packet  *)
(* is said of the time before its retention ends (see AuditRetention).     *)
(***************************************************************************)
EXTENDS Verdicts

CONSTANTS
  Evals,          \* calls of evaluate; one is also the assessment_id it generates
  Callers,        \* RequestContexts: tenant, subject and roles
  Tenants,
  TenantOf,       \* [Callers -> Tenants]
  Admins,         \* callers whose roles contain "admin"
  Admitted,       \* callers _require_context lets through
  Runs,
  Actions,        \* request.action
  Roles,          \* approver roles
  ApprovalMatrix, \* [Risks -> SUBSET Roles], protocols_adapter.APPROVAL_MATRIX
  RiskLevels,     \* what derive_risk_level returns for the requests considered
  Fallible,       \* axes that may be unavailable, unregistered or fail a call
  TaskViews,      \* what taskstate knows of a task
  RunViews,       \* what taskstate knows of a run
  Strengths,      \* evidence strengths, in percent
  Packets,        \* DecisionPackets gatefield returns
  Policies,
  ConfigVersion,  \* AppConfig.version
  AuditIds,       \* values generate_audit_packet_id can take (32 random bits)
  NoAudit

TaskType == [hard : BOOLEAN, sla : BOOLEAN, obligation : ObligationType]
RunType  == [hard : BOOLEAN, sla : BOOLEAN, approved : SUBSET Roles, bundle : BOOLEAN]

ASSUME GateAssumptions ==
  /\ TenantOf \in [Callers -> Tenants]
  /\ ApprovalMatrix \in [Risks -> SUBSET Roles]
  /\ RiskLevels \subseteq Risks
  /\ Fallible \subseteq Axes
  /\ TaskViews \subseteq TaskType
  /\ RunViews \subseteq RunType
  /\ Strengths \subseteq Percent
  /\ ConfigVersion \in Policies
  /\ Packets \subseteq PacketType(Policies)
  /\ NoAudit \notin AuditIds

\* The placeholders evaluate uses for a task and a run it could not read.
NoTask == [hard |-> FALSE, sla |-> FALSE, obligation |-> Fulfilled]
NoRun  == [hard |-> FALSE, sla |-> FALSE, approved |-> {}, bundle |-> FALSE]

Requests == [caller : Callers, run : Runs, action : Actions]

\* Everything evaluate puts into context_payload.
ContextType == [hard : BOOLEAN, sla : BOOLEAN, obligation : ObligationType,
                approved : SUBSET Roles, required : SUBSET Roles, fresh : BOOLEAN,
                strength : Percent, packet : PacketType(Policies) \cup {NoPacket}]
NothingKnown == [hard |-> FALSE, sla |-> FALSE, obligation |-> Fulfilled,
                 approved |-> {}, required |-> {}, fresh |-> FALSE,
                 strength |-> 0, packet |-> NoPacket]

AdapterPhase == {"taskstate", "protocols", "memx", "workflow", "gatefield", "shipyard"}
WritePhase   == {"assessment", "audit", "snapshot", "enqueue"}
Ended        == {"returned", "failed"}
PCs          == {"idle"} \cup AdapterPhase \cup WritePhase \cup Ended

\* The verdicts a human is asked to look at.
HumanVerdicts == {"needs_approval", "require_human", "stale_blocked"}

VARIABLES
  pc,           \* where each evaluation stands: the call or write it does next
  req,          \* its request and caller
  verdict,      \* the running verdict
  risk,         \* risk_level, MEDIUM until protocols answers
  lost,         \* unavailable_axes
  applied,      \* failure_policy_applied; "allow" for an axis that did not fail
  known,        \* what it has read so far
  auditId,      \* audit_id
  assessments,  \* the four tables
  audits,
  snapshots,
  queue,
  clock         \* the database writers' wall clock

locals == <<pc, req, verdict, risk, lost, applied, known, auditId>>
tables == <<assessments, audits, snapshots, queue>>
vars   == <<locals, tables, clock>>

Identity(e) == req[e].caller
Tenant(e)   == TenantOf[req[e].caller]
Policy(e)   == IF known[e].packet = NoPacket THEN ConfigVersion
               ELSE known[e].packet.policy
-----------------------------------------------------------------------------
Init ==
  /\ pc = [e \in Evals |-> "idle"]
  /\ req \in [Evals -> Requests]
  /\ verdict = [e \in Evals |-> "allow"]
  /\ risk = [e \in Evals |-> "medium"]
  /\ lost = [e \in Evals |-> {}]
  /\ applied = [e \in Evals |-> [a \in Axes |-> "allow"]]
  /\ known = [e \in Evals |-> NothingKnown]
  /\ auditId = [e \in Evals |-> NoAudit]
  /\ assessments = {} /\ audits = {} /\ snapshots = {} /\ queue = {}
  /\ clock = 0

\* _adapter_call: whether the call gives a result or an error.
Answers(axis) == IF axis \in Fallible THEN BOOLEAN ELSE {TRUE}

Goto(e, from, to) == pc[e] = from /\ pc' = [pc EXCEPT ![e] = to]

\* What an axis adds to the verdict: nothing when it answered.
Contribution(axis, ok, level, action) ==
  IF ok THEN "allow" ELSE FailureVerdict(axis, level, action)

NoteAxis(e, axis, ok, level) ==
  /\ lost' = [lost EXCEPT ![e] = IF ok THEN @ ELSE @ \cup {axis}]
  /\ applied' = [applied EXCEPT ![e][axis] = Contribution(axis, ok, level, req[e].action)]

\* Fold two more verdicts into the running one.
Fold(e, first, second) ==
  verdict' = [verdict EXCEPT ![e] = MoreRestrictive(MoreRestrictive(@, first), second)]

DenyIf(condition) == IF condition THEN "deny" ELSE "allow"
-----------------------------------------------------------------------------
(* evaluate is called.  A context _require_context rejects raises.         *)
Start(e) ==
  /\ Goto(e, "idle", IF Identity(e) \in Admitted THEN "taskstate" ELSE "failed")
  /\ UNCHANGED <<req, verdict, risk, lost, applied, known, auditId, tables, clock>>

(* get_task, get_run and, when the run names one and the task was read,    *)
(* get_context_bundle: at most one taskstate failure comes of the three.   *)
ReadTaskstate(e) ==
  /\ Goto(e, "taskstate", "protocols")
  /\ \E taskOk, runOk, bundleOk \in Answers("taskstate"), task \in TaskViews, run \in RunViews :
       LET t  == IF taskOk THEN task ELSE NoTask
           r  == IF runOk THEN run ELSE NoRun
           ok == taskOk /\ runOk /\ (r.bundle => bundleOk)
       IN  /\ known' = [known EXCEPT ![e].hard       = t.hard \/ r.hard,
                                     ![e].sla        = t.sla \/ r.sla,
                                     ![e].obligation = t.obligation,
                                     ![e].approved   = r.approved]
           /\ NoteAxis(e, "taskstate", ok, risk[e])
           /\ Fold(e, Contribution("taskstate", ok, risk[e], req[e].action), "allow")
  /\ UNCHANGED <<req, risk, auditId, tables, clock>>

(* derive_risk_level, then derive_required_approvals; then the hard safety *)
(* indicators of task and run are looked at.                               *)
ReadProtocols(e) ==
  /\ Goto(e, "protocols", "memx")
  /\ \E level \in RiskLevels, riskOk, approvalsOk \in Answers("protocols") :
       LET ok == riskOk /\ approvalsOk
           at == IF riskOk THEN level ELSE risk[e]
       IN  /\ risk' = [risk EXCEPT ![e] = at]
           /\ known' = [known EXCEPT ![e].required = IF ok THEN ApprovalMatrix[at] ELSE {}]
           /\ NoteAxis(e, "protocols", ok, at)
           /\ Fold(e, Contribution("protocols", ok, at, req[e].action),
                      DenyIf(known[e].hard))
  /\ UNCHANGED <<req, auditId, tables, clock>>

(* stale_check: memx unavailable, or no "fresh" in its answer, is stale.   *)
ReadMemx(e) ==
  /\ Goto(e, "memx", "workflow")
  /\ \E ok \in Answers("memx"), fresh \in BOOLEAN :
       /\ known' = [known EXCEPT ![e].fresh = ok /\ fresh]
       /\ NoteAxis(e, "memx", ok, risk[e])
       /\ Fold(e, Contribution("memx", ok, risk[e], req[e].action), "allow")
  /\ UNCHANGED <<req, risk, auditId, tables, clock>>

(* get_evidence_report; an unreadable or invalid report counts as one      *)
(* missing evidence.  Then the critical SLA timeout is looked at.          *)
ReadWorkflow(e) ==
  /\ Goto(e, "workflow", "gatefield")
  /\ \E ok \in Answers("workflow"), strength \in Strengths :
       /\ known' = [known EXCEPT ![e].strength = IF ok THEN strength ELSE 0]
       /\ NoteAxis(e, "workflow", ok, risk[e])
       /\ Fold(e, Contribution("workflow", ok, risk[e], req[e].action),
                  DenyIf(risk[e] = "critical" /\ known[e].sla))
  /\ UNCHANGED <<req, risk, auditId, tables, clock>>

\* resolve_verdict on what a context holds; nothing when there is no packet.
\* evaluate and replay pass no sla_status, so it is never "timeout".
Transformed(context, admin) ==
  IF context.packet = NoPacket THEN "allow"
  ELSE ResolveVerdict(context.packet, context.fresh, context.obligation,
                      context.required, context.required \ context.approved,
                      context.strength, admin, FALSE)

(* gatefield.evaluate; a packet that does not validate is a failure.       *)
ReadGatefield(e) ==
  /\ Goto(e, "gatefield", "shipyard")
  /\ \E ok \in Answers("gatefield"), packet \in Packets :
       LET context == [known[e] EXCEPT !.packet = IF ok THEN packet ELSE NoPacket]
       IN  /\ known' = [known EXCEPT ![e] = context]
           /\ NoteAxis(e, "gatefield", ok, risk[e])
           /\ Fold(e, Contribution("gatefield", ok, risk[e], req[e].action),
                      Transformed(context, Identity(e) \in Admins))
  /\ UNCHANGED <<req, risk, auditId, tables, clock>>

(* get_pipeline_stage: only whether it answers matters to the verdict.     *)
ReadShipyard(e) ==
  /\ Goto(e, "shipyard", "assessment")
  /\ \E ok \in Answers("shipyard") :
       /\ NoteAxis(e, "shipyard", ok, risk[e])
       /\ Fold(e, Contribution("shipyard", ok, risk[e], req[e].action), "allow")
  /\ UNCHANGED <<req, risk, known, auditId, tables, clock>>
-----------------------------------------------------------------------------
SaveAssessment(e) ==
  /\ Goto(e, "assessment", "audit")
  /\ assessments' = assessments \cup
       {[id |-> e, tenant |-> Tenant(e), run |-> req[e].run, verdict |-> verdict[e],
         lost |-> lost[e], policy |-> Policy(e)]}
  /\ UNCHANGED <<req, verdict, risk, lost, applied, known, auditId, audits, snapshots,
                 queue, clock>>

\* Mutant: the audit packet is deferred, the snapshot is written first.
AppendAudit_Deferred(e) ==
  /\ Goto(e, "audit", "snapshot")
  /\ UNCHANGED <<req, verdict, risk, lost, applied, known, auditId, tables, clock>>

\* Mutant: an audit packet whose id is taken replaces the one that has it.
AppendAudit_Merge(e) ==
  /\ Goto(e, "audit", "snapshot")
  /\ \E id \in AuditIds :
       /\ auditId' = [auditId EXCEPT ![e] = id]
       /\ audits' = {row \in audits : row.id # id \/ row.tenant # Tenant(e)} \cup
            {[id |-> id, tenant |-> Tenant(e), assessment |-> e,
              class |-> IF verdict[e] = "allow" THEN "ops" ELSE "audit"]}
  /\ UNCHANGED <<req, verdict, risk, lost, applied, known, assessments, snapshots,
                 queue, clock>>

(* The audit id is short: an id its tenant already has breaks the primary  *)
(* key and the call raises, after the assessment was committed.            *)
AppendAudit(e) ==
  /\ \E id \in AuditIds :
       IF \E row \in audits : row.id = id /\ row.tenant = Tenant(e)
       THEN /\ Goto(e, "audit", "failed")
            /\ UNCHANGED <<auditId, audits>>
       ELSE /\ Goto(e, "audit", "snapshot")
            /\ auditId' = [auditId EXCEPT ![e] = id]
            /\ audits' = audits \cup
                 {[id |-> id, tenant |-> Tenant(e), assessment |-> e,
                   class |-> IF verdict[e] = "allow" THEN "ops" ELSE "audit"]}
  /\ UNCHANGED <<req, verdict, risk, lost, applied, known, assessments, snapshots,
                 queue, clock>>

\* Mutant: the snapshot is taken without the failure policies.
SaveSnapshot_NoPolicies(e) ==
  /\ Goto(e, "snapshot", "enqueue")
  /\ clock' \in {clock, clock + 1}
  /\ snapshots' = snapshots \cup
       {[assessment |-> e, tenant |-> Tenant(e), run |-> req[e].run, risk |-> risk[e],
         identity |-> Identity(e), context |-> known[e], lost |-> lost[e],
         applied |-> [a \in Axes |-> "allow"], expected |-> verdict[e],
         policy |-> Policy(e), audit |-> auditId[e], at |-> clock']}
  /\ UNCHANGED <<req, verdict, risk, lost, applied, known, auditId, assessments, audits,
                 queue>>

(* The snapshot freezes the context, the verdict and the failure policies. *)
(* Its created_at may equal another snapshot's.  "risk" stands for the     *)
(* request's capabilities, from which protocols derived it.                *)
SaveSnapshot(e) ==
  /\ Goto(e, "snapshot", "enqueue")
  /\ clock' \in {clock, clock + 1}
  /\ snapshots' = snapshots \cup
       {[assessment |-> e, tenant |-> Tenant(e), run |-> req[e].run, risk |-> risk[e],
         identity |-> Identity(e), context |-> known[e], lost |-> lost[e],
         applied |-> applied[e], expected |-> verdict[e], policy |-> Policy(e),
         audit |-> auditId[e], at |-> clock']}
  /\ UNCHANGED <<req, verdict, risk, lost, applied, known, auditId, assessments, audits,
                 queue>>

\* Mutant: stale_blocked is not among the verdicts a human gets to see.
EnqueueAttention_NotStale(e) ==
  /\ Goto(e, "enqueue", "returned")
  /\ queue' = IF verdict[e] \in HumanVerdicts \ {"stale_blocked"}
              THEN queue \cup {[assessment |-> e, tenant |-> Tenant(e), severity |-> risk[e]]}
              ELSE queue
  /\ UNCHANGED <<req, verdict, risk, lost, applied, known, auditId, assessments, audits,
                 snapshots, clock>>

(* A verdict that needs a human is queued; then evaluate returns.          *)
EnqueueAttention(e) ==
  /\ Goto(e, "enqueue", "returned")
  /\ queue' = IF verdict[e] \in HumanVerdicts
              THEN queue \cup {[assessment |-> e, tenant |-> Tenant(e), severity |-> risk[e]]}
              ELSE queue
  /\ UNCHANGED <<req, verdict, risk, lost, applied, known, auditId, assessments, audits,
                 snapshots, clock>>

(* The call ends without an answer: an adapter's answer that does not      *)
(* convert (RiskLevel, float) or a database error raises out of evaluate,  *)
(* or the process dies.  Committed rows stay.                              *)
Abort(e) ==
  /\ pc[e] \in AdapterPhase \cup WritePhase
  /\ pc' = [pc EXCEPT ![e] = "failed"]
  /\ UNCHANGED <<req, verdict, risk, lost, applied, known, auditId, tables, clock>>

Proceed(e) ==
  \/ ReadTaskstate(e)  \/ ReadProtocols(e) \/ ReadMemx(e)    \/ ReadWorkflow(e)
  \/ ReadGatefield(e)  \/ ReadShipyard(e)  \/ SaveAssessment(e)
  \/ AppendAudit(e)    \/ SaveSnapshot(e)  \/ EnqueueAttention(e)

Next == \E e \in Evals : Start(e) \/ Proceed(e) \/ Abort(e)

Spec == Init /\ [][Next]_vars
-----------------------------------------------------------------------------
(* replay reads one snapshot and writes nothing.                           *)

\* latest_snapshot: newest created_at of the tenant's run; a tie goes either way.
LatestSnapshots(tenant, run) ==
  LET mine == {s \in snapshots : s.tenant = tenant /\ s.run = run}
  IN  {s \in mine : \A other \in mine : other.at <= s.at}

\* _recompute_snapshot_verdict: the decision table again, then the recorded
\* failure policies.
Recompute(s, admin) ==
  MostRestrictive({Transformed(s.context, admin)} \cup {s.applied[a] : a \in Axes})

\* The status replay reports for snapshot s.  The payload's hash is left out:
\* no code rewrites a snapshot, so the stored hash always matches.
ReplayStatus(s, caller, asOf) ==
  IF s.at > asOf \/ ~\E row \in assessments : row.id = s.assessment /\ row.tenant = s.tenant
  THEN "unavailable"
  ELSE IF /\ s.expected = Recompute(s, caller \in Admins)
          /\ \E row \in assessments : /\ row.id = s.assessment
                                      /\ row.tenant = s.tenant
                                      /\ row.verdict = s.expected
          /\ s.identity = caller
          /\ s.policy = ConfigVersion
       THEN "verified" ELSE "mismatch"

\* The statuses replay(run, as_of) may report to caller.
Replay(caller, run, asOf) ==
  LET latest == LatestSnapshots(TenantOf[caller], run)
  IN  IF latest = {} THEN {"unavailable"}
      ELSE {ReplayStatus(s, caller, asOf) : s \in latest}
-----------------------------------------------------------------------------
(***************************************************************************)
(* Properties.                                                             *)
(***************************************************************************)

AssessmentType == [id : Evals, tenant : Tenants, run : Runs, verdict : Verdicts,
                   lost : SUBSET Axes, policy : Policies]
AuditType      == [id : AuditIds, tenant : Tenants, assessment : Evals,
                   class : {"ops", "audit"}]
SnapshotType   == [assessment : Evals, tenant : Tenants, run : Runs, risk : Risks,
                   identity : Callers, context : ContextType, lost : SUBSET Axes,
                   applied : [Axes -> Verdicts], expected : Verdicts,
                   policy : Policies, audit : AuditIds, at : Nat]
ItemType       == [assessment : Evals, tenant : Tenants, severity : Risks]

\* The state is well typed; a snapshot always names a real audit packet id.
TypeOK ==
  /\ pc \in [Evals -> PCs]
  /\ req \in [Evals -> Requests]
  /\ verdict \in [Evals -> Verdicts]
  /\ risk \in [Evals -> Risks]
  /\ lost \in [Evals -> SUBSET Axes]
  /\ applied \in [Evals -> [Axes -> Verdicts]]
  /\ known \in [Evals -> ContextType]
  /\ auditId \in [Evals -> AuditIds \cup {NoAudit}]
  /\ assessments \subseteq AssessmentType
  /\ audits \subseteq AuditType
  /\ snapshots \subseteq SnapshotType
  /\ queue \subseteq ItemType
  /\ clock \in Nat

\* The verdicts that had a say in a snapshot's verdict: each axis, the hard
\* safety indicators, the critical SLA timeout and the decision table.
SafetyDenied(s) == s.context.hard \/ (s.risk = "critical" /\ s.context.sla)
Grounds(s) == {s.applied[a] : a \in Axes}
              \cup {DenyIf(SafetyDenied(s)), Transformed(s.context, s.identity \in Admins)}

\* Folding verdicts call by call as evaluate does loses none and adds none: the
\* verdict attested is one of the grounds, and no ground is more restrictive.
VerdictIsStrictestGround ==
  \A s \in snapshots :
    /\ s.expected \in Grounds(s)
    /\ \A ground \in Grounds(s) : AtLeast(s.expected, ground)

\* README "adapter unknown never falls to allow" and GUARDRAILS section 7: whatever
\* else the other adapters said, an unavailable one keeps its own floor.
FailSafe ==
  \A row \in assessments :
    /\ row.lost # {}                 => AtLeast(row.verdict, "needs_approval")
    /\ "memx" \in row.lost           => AtLeast(row.verdict, "stale_blocked")
    /\ "taskstate" \in row.lost      => row.verdict = "deny"
    /\ "gatefield" \in row.lost /\ req[row.id].action \in PublishActions
                                     => row.verdict = "deny"
    /\ "gatefield" \in row.lost /\ risk[row.id] \in HighRisks
                                     => AtLeast(row.verdict, "require_human")
    /\ "shipyard" \in row.lost /\ risk[row.id] \in HighRisks
                                     => row.verdict = "deny"

\* An assessment says allow only when every adapter answered, gatefield said pass,
\* the documents were fresh, evidence and obligations were complete and no safety
\* indicator was seen.
AllowIsEarned ==
  \A row \in assessments : row.verdict = "allow" =>
    LET c == known[row.id]
    IN  /\ row.lost = {}
        /\ c.packet.decision = "pass" /\ c.fresh
        /\ c.strength >= MinStrength /\ c.obligation.rate = 100
        /\ ~c.hard /\ ~(risk[row.id] = "critical" /\ c.sla)

\* The write order: no row refers to one that is not there, in another tenant or
\* with another verdict, however evaluations interleave and wherever one stops,
\* until a purge takes the audit packets past their retention.
RowsAreBacked ==
  /\ \A row \in audits : \E a \in assessments : a.id = row.assessment /\ a.tenant = row.tenant
  /\ \A s \in snapshots :
       /\ \E a \in assessments : /\ a.id = s.assessment /\ a.tenant = s.tenant
                                 /\ a.run = s.run /\ a.verdict = s.expected
       /\ \E row \in audits : /\ row.id = s.audit /\ row.tenant = s.tenant
                             /\ row.assessment = s.assessment
  /\ \A item \in queue :
       \E s \in snapshots : s.assessment = item.assessment /\ s.tenant = item.tenant

\* A verdict handed to the caller has all its rows, and one that needs a human has
\* its queue item: what a crash or an id collision leaves half-written was never
\* answered.
AnsweredIsRecorded ==
  \A e \in Evals : pc[e] = "returned" =>
    /\ \E a \in assessments : a.id = e /\ a.verdict = verdict[e]
    /\ \E row \in audits : row.assessment = e
    /\ \E s \in snapshots : s.assessment = e
    /\ verdict[e] \in HumanVerdicts => \E item \in queue : item.assessment = e

\* The four transactions of an evaluation implement DecisionRecord: they write one
\* decision, first to last, whatever other evaluations, id collisions and crashes do
\* between them.
Recorded == [e \in Evals |-> {a.verdict : a \in {a \in assessments : a.id = e}}]
Audited  == [e \in Evals |-> {row.class : row \in {row \in audits : row.assessment = e}}]
Attested == [e \in Evals |-> {s.expected : s \in {s \in snapshots : s.assessment = e}}]
Answered == [e \in Evals |-> IF pc[e] = "returned" THEN {verdict[e]} ELSE {}]
Queued   == {item.assessment : item \in queue}
Decision == INSTANCE DecisionRecord WITH recorded <- Recorded, audited <- Audited,
  attested <- Attested, answered <- Answered, queued <- Queued
ImplementsRecord == Decision!Spec

\* replay of a snapshot by the identity that made it, at the time it was made,
\* verifies, unless a safety indicator denied the run or the packet carries
\* another policy version than the configuration.
ReplayVerifies ==
  \A s \in snapshots :
    s.policy = ConfigVersion /\ ~SafetyDenied(s)
      => ReplayStatus(s, s.identity, s.at) = "verified"

\* While evaluate runs, its verdict only ever becomes more restrictive.
VerdictOnlyTightens ==
  [][\A e \in Evals : AtLeast(verdict'[e], verdict[e])]_vars

\* docs/requirements.md AC-009, "historical decision" reproduced with "verdict match":
\* a snapshot under the current policy version verifies for the identity that made it.
ReplayReproduces ==
  \A s \in snapshots :
    s.policy = ConfigVersion => ReplayStatus(s, s.identity, s.at) = "verified"

\* docs/api_spec.md 1.6, as_of is a "historical timestamp": replay as of the time a
\* snapshot was taken finds a snapshot.
ReplayFindsHistory ==
  \A s \in snapshots : "unavailable" \notin Replay(s.identity, s.run, s.at)
=============================================================================
