-------------------------- MODULE AssessmentEngine --------------------------
(***************************************************************************)
(* The in-memory assessment path (core/assessment/engine.py) and what is   *)
(* derived from an assessment: the verdict the transformer gives it, its   *)
(* causal trace, its counterfactuals, its context hash, the queue item it  *)
(* is routed to and the retention class of its audit packet.               *)
(*                                                                         *)
(* An input is the results the engine is given.  Its fields are            *)
(*   id, packet   the DecisionPacket: its decision_id, the decision with   *)
(*                its score and self-corrections, hard_override, and       *)
(*                whether a factor's name makes a rationale sensitive      *)
(*   fresh        "yes", "no" or "absent": the key of the stale result     *)
(*   obligation, required, missing                                         *)
(*   acceptances  required_evidence                                        *)
(*   collected    collected_evidence, a list, as pairs of evidence item    *)
(*                and acceptance                                           *)
(*   reported     the key evidence_strength, 100 when it is absent         *)
(***************************************************************************)
EXTENDS Verdicts, FiniteSets

Checks == {"stale_check", "obligation_check", "approval_check", "evidence_check"}
-----------------------------------------------------------------------------
(* Two measures of evidence, as percentages.                               *)

PerCent(n, of) == IF of = 0 THEN 100 ELSE (100 * n) \div of

\* Mutant: the transformer rounds up to the minimum when all but one are there.
CountedStrength_ButOne(acceptances, collected) ==
  PerCent(Cardinality(collected), Cardinality(acceptances) - 1)

\* VerdictTransformer._build_evidence_summary: the lists' lengths.
CountedStrength(acceptances, collected) ==
  PerCent(Cardinality(collected), Cardinality(acceptances))

\* EvidenceReport.computed_strength, the measure of the gate: which are covered.
CoveredStrength(acceptances, collected) ==
  PerCent(Cardinality({a \in acceptances : \E c \in collected : c[2] = a}),
          Cardinality(acceptances))

\* VerdictTransformer.transform.  A hard override is what makes the permission level
\* "admin", the composite score stands for the uncertainty, and no SLA has run out.
EngineVerdict(x) ==
  ResolveVerdict(x.packet, x.fresh # "no", x.obligation, x.required, x.missing,
                 CountedStrength(x.acceptances, x.collected), x.packet.override, FALSE)
-----------------------------------------------------------------------------
(* What the engine says about a verdict.                                   *)

\* Mutant: an unmet obligation has a step only when it is critical.
TraceSteps_CriticalOnly(x) == {s \in Checks :
  \/ s = "stale_check"      /\ x.fresh # "yes"
  \/ s = "obligation_check" /\ x.obligation.critical
  \/ s = "approval_check"   /\ x.missing # {}
  \/ s = "evidence_check"   /\ x.reported < MinStrength}

\* _build_causal_trace: the checks with a step beside gatefield's own.  Whether the
\* inputs are fresh is absent counts as stale here, and evidence is as reported.
TraceSteps(x) == {s \in Checks :
  \/ s = "stale_check"      /\ x.fresh # "yes"
  \/ s = "obligation_check" /\ x.obligation.rate < 100
  \/ s = "approval_check"   /\ x.missing # {}
  \/ s = "evidence_check"   /\ x.reported < MinStrength}

\* Mutant: evidence is advised on only when nothing else is.
Advice_FirstOnly(x) == {s \in Checks :
  \/ s = "stale_check"    /\ x.fresh = "no"
  \/ s = "approval_check" /\ x.missing # {}
  \/ s = "evidence_check" /\ x.reported < MinStrength /\ x.fresh # "no"}

\* _build_counterfactuals: the checks it says to repair.
Advice(x) == {s \in Checks :
  \/ s = "stale_check"    /\ x.fresh = "no"
  \/ s = "approval_check" /\ x.missing # {}
  \/ s = "evidence_check" /\ x.reported < MinStrength}

\* Mutant: the missing approvals are left out of the hash.
ContextHash_NoApprovals(x) ==
  [decision_id |-> x.id, fresh |-> x.fresh, rate |-> x.obligation.rate,
   missing |-> {}, reported |-> x.reported]

\* _build_context_hash: hashes are equal when what is hashed is.
ContextHash(x) ==
  [decision_id |-> x.id, fresh |-> x.fresh, rate |-> x.obligation.rate,
   missing |-> x.missing, reported |-> x.reported]
-----------------------------------------------------------------------------
(* What is made of an assessment.                                          *)

\* _derive_queue_params: reason code, severity and required role.  The reason given
\* with require_human is always "Requires human review", so the words it is searched
\* for are never found.
QueueParams(x, verdict) ==
  IF verdict = "deny"               THEN <<"HIGH_RISK", "critical", "governance_board">>
  ELSE IF verdict = "stale_blocked" THEN <<"STALE", "high", "project_lead">>
  ELSE IF verdict = "require_human" THEN <<"HIGH_RISK", "high", "project_lead">>
  ELSE IF verdict = "revise"        THEN <<"HIGH_RISK", "low", "owner">>
  ELSE IF /\ x.missing = {}
          /\ CountedStrength(x.acceptances, x.collected) < MinStrength
       THEN <<"EVIDENCE_GAP", "medium", "qa_owner">>
       ELSE <<"APPROVAL_MISSING", "medium", "project_lead">>

\* Mutant: a sensitive rationale is looked for before the verdict.
PacketClass_SensitiveFirst(x, verdict) ==
  IF x.packet.sensitive THEN "pii-sensitive"
  ELSE IF verdict \in {"deny", "require_human", "needs_approval"} THEN "audit"
  ELSE "ops"

\* AuditPacketGenerator._determine_retention_class.
PacketClass(x, verdict) ==
  IF verdict = "deny" THEN "audit"
  ELSE IF x.packet.sensitive THEN "pii-sensitive"
  ELSE IF verdict \in {"require_human", "needs_approval"} THEN "audit"
  ELSE "ops"

\* The class the gate stores the packet of an evaluation under.
GateClass(verdict) == IF verdict = "allow" THEN "ops" ELSE "audit"

\* The days of a class, for the generator and for the database alike.
KeptDays(class) == IF class = "audit" THEN 365 ELSE IF class = "ops" THEN 90 ELSE 30
=============================================================================
