------------------------------ MODULE Verdicts ------------------------------
(***************************************************************************)
(* The verdict algebra of agent-state-gate: the order on verdicts and the  *)
(* fold that combines them (service.py), the verdict an unavailable        *)
(* adapter imposes (GateService._apply_failure), and the fixed decision    *)
(* table that turns a gatefield decision into a verdict                    *)
(* (core/verdict_transformer.resolve_verdict).                             *)
(*                                                                         *)
(* Scores in [0,1] are whole percentages, so 0.85 is 85.                   *)
(***************************************************************************)
EXTENDS Integers

Verdicts == {"allow", "revise", "needs_approval", "require_human",
             "stale_blocked", "deny"}

Axes  == {"taskstate", "protocols", "memx", "workflow", "gatefield", "shipyard"}
Risks == {"low", "medium", "high", "critical"}

HighRisks      == {"high", "critical"}
PublishActions == {"publish", "publish_release", "release"}

\* A DecisionPacket is NoPacket when gatefield gave none that validates.
Decisions  == {"pass", "warn", "hold", "block"}
Percent    == 0..100
PacketType(policies) ==
  [decision : Decisions, uncertainty : Percent, corrections : Nat, policy : policies]
NoPacket == [decision |-> "none", uncertainty |-> 0, corrections |-> 0, policy |-> ""]

ObligationType == [rate : Percent, critical : BOOLEAN, high : BOOLEAN]
Fulfilled      == [rate |-> 100, critical |-> FALSE, high |-> FALSE]
-----------------------------------------------------------------------------
(* The order _VERDICT_PRIORITY and the fold _more_restrictive.             *)

Priority(v) == IF v = "allow"               THEN 1
               ELSE IF v = "revise"         THEN 2
               ELSE IF v = "needs_approval" THEN 3
               ELSE IF v = "require_human"  THEN 4
               ELSE IF v = "stale_blocked"  THEN 5
               ELSE 6

AtLeast(v, floor) == Priority(v) >= Priority(floor)

\* Mutant: the later verdict wins whatever its priority.
MoreRestrictive_LastWins(current, candidate) == candidate

MoreRestrictive(current, candidate) ==
  IF Priority(candidate) > Priority(current) THEN candidate ELSE current

\* What folding _more_restrictive over the members of S from "allow" gives.
MostRestrictive(S) == CHOOSE v \in S : \A w \in S : AtLeast(v, w)
-----------------------------------------------------------------------------
(* The verdict an axis that did not answer imposes.                        *)

GatefieldFailure(risk, action) ==
  IF action \in PublishActions THEN "deny"
  ELSE IF risk \in HighRisks THEN "require_human"
  ELSE "needs_approval"

ShipyardFailure(risk) == IF risk \in HighRisks THEN "deny" ELSE "require_human"

\* Mutant: a gatefield outage is judged by risk only, the action is not looked at.
FailureVerdict_ActionIgnored(axis, risk, action) ==
  IF axis = "taskstate"      THEN "deny"
  ELSE IF axis = "memx"      THEN "stale_blocked"
  ELSE IF axis = "gatefield" THEN GatefieldFailure(risk, "none")
  ELSE IF axis = "shipyard"  THEN ShipyardFailure(risk)
  ELSE "needs_approval"

FailureVerdict(axis, risk, action) ==
  IF axis = "taskstate"      THEN "deny"
  ELSE IF axis = "memx"      THEN "stale_blocked"
  ELSE IF axis = "gatefield" THEN GatefieldFailure(risk, action)
  ELSE IF axis = "shipyard"  THEN ShipyardFailure(risk)
  ELSE "needs_approval"
-----------------------------------------------------------------------------
(* resolve_verdict: block first, then staleness, then one table per        *)
(* decision.  "required" and "missing" are sets of approver roles.         *)

MinStrength == 85

ObligationVerdict(obligation) ==
  IF obligation.critical THEN "deny"
  ELSE IF obligation.high THEN "require_human"
  ELSE "needs_approval"

PassVerdict(obligation, strength) ==
  IF strength < MinStrength THEN "needs_approval"
  ELSE IF obligation.rate < 100 THEN ObligationVerdict(obligation)
  ELSE "allow"

WarnVerdict(packet, required, admin) ==
  IF /\ packet.corrections >= 2
     /\ \/ admin /\ packet.uncertainty >= 15
        \/ required # {}
  THEN "require_human"
  ELSE "revise"

HoldVerdict(packet, missing, slaTimeout) ==
  IF missing # {} THEN "needs_approval"
  ELSE IF packet.uncertainty >= 25 THEN "require_human"
  ELSE IF slaTimeout THEN "deny"
  ELSE "needs_approval"

\* Mutant: the pass branch is taken before staleness is looked at.
ResolveVerdict_PassFirst(packet, fresh, obligation, required, missing, strength, admin, slaTimeout) ==
  IF packet.decision = "block"     THEN "deny"
  ELSE IF packet.decision = "pass" THEN PassVerdict(obligation, strength)
  ELSE IF ~fresh                   THEN "stale_blocked"
  ELSE IF packet.decision = "warn" THEN WarnVerdict(packet, required, admin)
  ELSE HoldVerdict(packet, missing, slaTimeout)

ResolveVerdict(packet, fresh, obligation, required, missing, strength, admin, slaTimeout) ==
  IF packet.decision = "block"     THEN "deny"
  ELSE IF ~fresh                   THEN "stale_blocked"
  ELSE IF packet.decision = "pass" THEN PassVerdict(obligation, strength)
  ELSE IF packet.decision = "warn" THEN WarnVerdict(packet, required, admin)
  ELSE HoldVerdict(packet, missing, slaTimeout)
=============================================================================
