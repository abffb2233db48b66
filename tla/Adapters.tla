------------------------------ MODULE Adapters ------------------------------
(***************************************************************************)
(* What each adapter (adapters/) makes of what the system behind it did:   *)
(* a table from replies to results, per adapter; what the protocols        *)
(* adapter derives from capabilities; which of its two sources the         *)
(* workflow adapter answers from; and the two surfaces of the service that *)
(* show adapters directly, assess_state and health.                        *)
(***************************************************************************)
EXTENDS Verdicts

(* Replies.  "ok" is a success whose body says that it was done; "garbled" *)
(* is one whose body is not JSON; "409g" is a conflict whose body is not.  *)
(* Of a command, "not_found" is a failure whose message has those words,   *)
(* "undecodable" a success whose output is not UTF-8, "missing" that there *)
(* is no such program, "unset" that the adapter finds nothing it could     *)
(* run: workflow's script is not there, memx has no cli_path.              *)
HttpReplies == {"ok", "garbled", "400", "401", "403", "404", "409", "409g", "429", "500",
                "503", "timeout", "refused"}
CliReplies  == {"ok", "garbled", "undecodable", "failed", "not_found", "timeout", "missing",
                "unset"}

\* What only the operating system or the decoder objects to; no adapter catches it.
Uncaught == {"missing", "undecodable"}

(* Results: an answer, one of the error classes of base.py, the ValueError *)
(* gatefield's contract errors become, or "raw", an exception that is none *)
(* of the adapter's own: the HTTP library's, the JSON parser's, the        *)
(* operating system's.  resume_from_review returns False for "not_resumed".*)
Results == {"ok", "unavailable", "not_found", "not_allowed", "not_resumed", "ack_failed",
            "stale_failed", "contract", "raw"}

\* Which errors a caller may retry.
Retryable(result) == result \in {"unavailable", "stale_failed"}
-----------------------------------------------------------------------------
\* GatefieldAdapter's five calls; byId for the one that looks a decision up.
GatefieldResult(reply, byId) ==
  IF reply = "ok" THEN "ok"
  ELSE IF reply \in {"429", "503", "timeout", "refused"} THEN "unavailable"
  ELSE IF reply \in {"400", "401", "403"} THEN "contract"
  ELSE IF reply = "404" /\ byId THEN "not_found"
  ELSE "raw"

\* Mutant: whatever goes wrong on the way is a transition that was not allowed.
ShipyardResult_AllRefused(reply, ofRun) ==
  IF reply = "ok" THEN "ok"
  ELSE IF reply = "503" THEN "unavailable"
  ELSE IF reply = "404" THEN IF ofRun THEN "not_found" ELSE "unavailable"
  ELSE "not_allowed"

\* ShipyardAdapter._http_call; ofRun for the calls that name a run.
ShipyardResult(reply, ofRun) ==
  IF reply = "ok" THEN "ok"
  ELSE IF reply \in {"503", "timeout", "refused"} THEN "unavailable"
  ELSE IF reply = "404" THEN IF ofRun THEN "not_found" ELSE "unavailable"
  ELSE IF reply = "409" THEN "not_allowed"
  ELSE "raw"

\* Mutant: any error of the adapter is the answer False.
ResumeResult_AnyError(reply) ==
  IF ShipyardResult(reply, TRUE) \in {"unavailable", "not_found", "not_allowed"}
  THEN "not_resumed" ELSE ShipyardResult(reply, TRUE)

\* resume_from_review: a transition that is not allowed is an answer.
ResumeResult(reply) ==
  IF ShipyardResult(reply, TRUE) = "not_allowed" THEN "not_resumed"
  ELSE ShipyardResult(reply, TRUE)

\* MemxAdapter._http_call and _cli_call.
MemxResult(reply, http) ==
  IF reply = "ok" THEN "ok"
  ELSE IF http
  THEN IF reply \in {"503", "timeout", "refused"} THEN "unavailable"
       ELSE IF reply = "404" THEN "not_found"
       ELSE "raw"
  ELSE IF reply \in Uncaught THEN "raw" ELSE "unavailable"

\* Mutant: ack_reads lets an outage through as it is.
AckResult_Unwrapped(reply, http) == MemxResult(reply, http)

\* ack_reads: an outage is an error that is not to be retried.
AckResult(reply, http) ==
  IF MemxResult(reply, http) = "unavailable" THEN "ack_failed" ELSE MemxResult(reply, http)

\* stale_check: an outage is an error of its own, to be retried.
StaleCheckResult(reply, http) ==
  IF MemxResult(reply, http) = "unavailable" THEN "stale_failed" ELSE MemxResult(reply, http)

\* TaskstateAdapter._run_cli and the calls that look an entity up by id.
TaskstateResult(reply, byId) ==
  IF reply = "ok" THEN "ok"
  ELSE IF reply \in Uncaught THEN "raw"
  ELSE IF reply = "not_found" /\ byId THEN "not_found"
  ELSE "unavailable"

\* WorkflowAdapter._run_cli.
WorkflowResult(reply) ==
  IF reply = "ok" THEN "ok" ELSE IF reply \in Uncaught THEN "raw" ELSE "unavailable"

\* The evidence cache file: an object that can be read; none, or one that is not JSON;
\* one that cannot be opened or decoded, or that is no object.
FileStates == {"readable", "none", "broken"}

\* Mutant: the file is looked at first.
EvidenceSource_FileFirst(reply, file) ==
  IF file = "readable" THEN "file"
  ELSE IF WorkflowResult(reply) = "ok" THEN "command"
  ELSE IF WorkflowResult(reply) = "raw" \/ file = "broken" THEN "raw"
  ELSE "none"

\* get_evidence_report: the command, or the cache file when there is an outage.
\* "raw" stands for an exception that leaves the adapter as it is.
EvidenceSource(reply, file) ==
  IF WorkflowResult(reply) = "ok" THEN "command"
  ELSE IF WorkflowResult(reply) = "raw" THEN "raw"
  ELSE IF file = "readable" THEN "file"
  ELSE IF file = "broken" THEN "raw"
  ELSE "none"
-----------------------------------------------------------------------------
(* ProtocolsAdapter.                                                       *)

CriticalCapabilities == {"production_data_access", "external_secret", "rollback_impossible"}
HighCapabilities     == {"install_deps", "network_access", "read_secrets", "publish_release"}
MediumCapabilities   == {"write_repo"}

\* derive_risk_level.
RiskLevel(capabilities) ==
  IF capabilities \cap CriticalCapabilities # {}  THEN "critical"
  ELSE IF capabilities \cap HighCapabilities # {} THEN "high"
  ELSE IF capabilities \cap MediumCapabilities # {} THEN "medium"
  ELSE "low"

\* derive_required_approvals and is_auto_approved.
RequiredApprovals(risk) ==
  IF risk = "critical"  THEN {"project_lead", "security_reviewer", "release_manager"}
  ELSE IF risk = "high" THEN {"project_lead", "security_reviewer"}
  ELSE {}
AutoApproved(risk) == risk \in {"low", "medium"}
-----------------------------------------------------------------------------
(* GateService.assess_state: one gatefield evaluation and a recommendation.*)
(* The packet is NoPacket when the answer does not validate.               *)

Recommendation(failed, packet, stage) ==
  IF failed THEN IF stage \in {"publish", "release"} THEN "block" ELSE "hold_for_review"
  ELSE IF packet.decision = "pass" THEN "continue"
  ELSE IF packet.decision = "warn" THEN "self_correct"
  ELSE IF packet.decision = "block" THEN "block"
  ELSE "hold_for_review"

HumanQueueRequired(failed, packet) ==
  \/ failed \/ packet = NoPacket
  \/ packet.decision = "hold"
  \/ packet.decision = "warn" /\ packet.corrections >= 2
-----------------------------------------------------------------------------
(* The checks of a configuration, and GateService.health.                  *)

Profiles == {"local_advisory", "ci_contract", "staging_enforce", "production_shadow",
             "production_enforce"}
Production == {"production_shadow", "production_enforce"}

\* enabled is the set of adapters switched on, the ones the registry is given.
Configs == [profile : Profiles, postgresql : BOOLEAN, oidc : BOOLEAN, oidcNamed : BOOLEAN,
            enabled : SUBSET Axes]

\* AppConfig._validate_runtime_requirements.
Accepted(config) ==
  /\ config.profile \in Production \cup {"staging_enforce"} => config.postgresql
  /\ config.profile \in Production =>
       config.oidc /\ config.oidcNamed /\ config.enabled = Axes

\* health: "ready" is what it reports, given which registered adapters say they are
\* healthy, whether gatefield has its vector store, and who asks.
Ready(config, healthy, pgvector, database, authenticated) ==
  /\ database
  /\ Axes \subseteq config.enabled
  /\ Axes \subseteq healthy
  /\ config.profile \in Production =>
       pgvector /\ authenticated /\ config.postgresql /\ config.oidc
-----------------------------------------------------------------------------
(* Properties.                                                             *)

Capabilities == CriticalCapabilities \cup HighCapabilities \cup MediumCapabilities

\* To ask for more capabilities never takes an approver away and never turns
\* a contract that needs approval into one that is approved by itself.
CapabilitiesOnlyAddApproval ==
  \A asked \in SUBSET Capabilities : \A more \in SUBSET Capabilities :
    /\ RequiredApprovals(RiskLevel(asked)) \subseteq RequiredApprovals(RiskLevel(asked \cup more))
    /\ AutoApproved(RiskLevel(asked \cup more)) => AutoApproved(RiskLevel(asked))

\* assess_state looks at gatefield alone. Where evaluate, with nothing else wrong,
\* would send the same packet to a person, so does it; what evaluate would deny
\* for the packet it does not let continue, and what it lets continue evaluate
\* would allow.
AssessStateQueuesEnough(packets) ==
  \A packet \in packets : \A required, missing \in SUBSET {"lead", "security"} :
    \A admin, slaTimeout \in BOOLEAN : \A stage \in {"implement", "publish"} :
      LET verdict == ResolveVerdict(packet, TRUE, Fulfilled, required, missing, 100, admin,
                                    slaTimeout)
          recommended == Recommendation(FALSE, packet, stage)
      IN /\ verdict \in {"needs_approval", "require_human"} => HumanQueueRequired(FALSE, packet)
         /\ verdict = "deny" => recommended \in {"block", "hold_for_review"}
         /\ recommended = "continue" <=> verdict = "allow"

\* An accepted production configuration is ready when its adapters, its database
\* and its vector store are up and the caller is authenticated, and only then.
ReadyIsComplete(configs) ==
  \A config \in configs : config.profile \in Production /\ Accepted(config) =>
    \A healthy \in SUBSET Axes : \A pgvector, database, authenticated \in BOOLEAN :
      Ready(config, healthy, pgvector, database, authenticated)
        <=> database /\ healthy = Axes /\ pgvector /\ authenticated
=============================================================================
