--------------------------- MODULE AssessmentTrail ---------------------------
(***************************************************************************)
(* Assessments over time: evidence is recorded and linked                  *)
(* (audit/evidence_recorder.py), the results the engine is given change,   *)
(* assessments are made and stored (core/assessment), routed to the human  *)
(* queue, written to audit packets, and approved by an approval that is    *)
(* bound to an assessment's hashes (persistence.py, models.py).            *)
(*                                                                         *)
(* Nothing in src/ calls the engine, so its caller is modelled after what  *)
(* each part is for: collected_evidence lists the acceptance of every      *)
(* linked item, evidence_strength is absent or the recorder's, and an      *)
(* approval is bound to the hashes of an assessment.                       *)
(***************************************************************************)
EXTENDS AssessmentEngine, Sequences

CONSTANTS Items,        \* evidence items
          Acceptances,  \* acceptance criteria,
          Required,     \* and those of the task
          Roles,        \* approver roles
          Packets,      \* the decisions gatefield may come to
          Obligations,  \* the obligation results that may come back
          MaxAssessments, MaxChanges,
          MaxFiled      \* bounds: on assessments, changes, queue items and audit packets

PacketFields == [decision : Decisions \cup {"PASS"}, uncertainty : Percent, corrections : Nat,
                 override : BOOLEAN, sensitive : BOOLEAN]

ASSUME TrailAssumptions ==
  /\ Items \cap Acceptances = {}
  /\ IsFiniteSet(Items) /\ IsFiniteSet(Acceptances) /\ Required \subseteq Acceptances
  /\ Packets \subseteq PacketFields
  /\ Obligations \subseteq ObligationType
  /\ {MaxAssessments, MaxChanges, MaxFiled} \subseteq Nat

Unlinked == "unlinked"
Absent   == "absent"

VARIABLES
  evidence,   \* the recorder's store: an item's acceptance, Unlinked, or Absent
  world,      \* the results the next assessment will be given
  changes,    \* how often the world has changed: the count that bounds it
  trail,      \* the assessments stored, in order
  tickets,    \* queue items, each with its assessment
  packets,    \* audit packets, each with its assessment
  bound       \* the assessment the approval is bound to, 0 for none

vars == <<evidence, world, changes, trail, tickets, packets, bound>>

\* required and missing are the roles of the approval result.
Worlds == [id : 0..MaxChanges, packet : Packets, fresh : {"yes", "no", Absent},
           obligation : Obligations, required : SUBSET Roles, missing : SUBSET Roles]

Init ==
  /\ evidence = [i \in Items |-> Absent]
  /\ world \in {w \in Worlds : w.id = 0 /\ w.missing \subseteq w.required}
  /\ changes = 0
  /\ trail = <<>>
  /\ tickets = {} /\ packets = {} /\ bound = 0
-----------------------------------------------------------------------------
(* The evidence recorder.  An item's status is never changed and its       *)
(* expiry never looked at: every item recorded counts as collected.        *)

(* record, with or without an acceptance; record_test_result and           *)
(* record_approval are without.                                            *)
Record(i, a) ==
  /\ Len(trail) < MaxAssessments
  /\ evidence[i] = Absent
  /\ evidence' = [evidence EXCEPT ![i] = a]
  /\ UNCHANGED <<world, changes, trail, tickets, packets, bound>>

(* link_to_acceptance.                                                     *)
Link(i, a) ==
  /\ Len(trail) < MaxAssessments
  /\ evidence[i] # Absent
  /\ evidence' = [evidence EXCEPT ![i] = a]
  /\ UNCHANGED <<world, changes, trail, tickets, packets, bound>>

Collected == {<<i, evidence[i]>> : i \in {j \in Items : evidence[j] \in Acceptances}}

\* get_evidence_strength.
RecorderStrength ==
  LET strength == PerCent(Cardinality({i \in Items : evidence[i] # Absent}),
                          Cardinality(Required))
  IN  IF strength > 100 THEN 100 ELSE strength
-----------------------------------------------------------------------------
(* The world: gatefield decides again, under a new id; sources go stale or *)
(* fresh; obligations and approvals come and go.                           *)

Change(w) ==
  /\ changes < MaxChanges
  /\ 0 < Len(trail) /\ Len(trail) < MaxAssessments   \* Init has every first world
  /\ world' = w /\ changes' = changes + 1
  /\ UNCHANGED <<evidence, trail, tickets, packets, bound>>

ChangeWorld ==
  \/ \E p \in Packets : Change([world EXCEPT !.packet = p, !.id = @ + 1])
  \/ \E f \in {"yes", "no", Absent} : Change([world EXCEPT !.fresh = f])
  \/ \E o \in Obligations : Change([world EXCEPT !.obligation = o])
  \/ \E r \in SUBSET Roles : \E m \in SUBSET r :
       Change([world EXCEPT !.required = r, !.missing = m])
-----------------------------------------------------------------------------
(* Assessments and what is made of them.                                   *)

\* What the engine is given: evidence_strength is absent or the recorder's.
Inputs == {[id |-> world.id, packet |-> world.packet, fresh |-> world.fresh,
            obligation |-> world.obligation, required |-> world.required,
            missing |-> world.missing, acceptances |-> Required,
            collected |-> Collected, reported |-> r] : r \in {100, RecorderStrength}}

\* The assessment of an input.
Assessment(x) ==
  [input |-> x, steps |-> TraceSteps(x), advice |-> Advice(x), hash |-> ContextHash(x),
   verdict |-> EngineVerdict(x)]

\* Mutant: a decision that cannot be read falls through the table.
Assess_Unread(x) ==
  /\ Len(trail) < MaxAssessments
  /\ trail' = Append(trail, Assessment(x))
  /\ UNCHANGED <<evidence, world, changes, tickets, packets, bound>>

(* assemble_assessment.  A decision that cannot be read, or is not in      *)
(* lower case, raises before anything is stored.                           *)
Assess(x) ==
  /\ Len(trail) < MaxAssessments
  /\ x.packet.decision \in Decisions
  /\ trail' = Append(trail, Assessment(x))
  /\ UNCHANGED <<evidence, world, changes, tickets, packets, bound>>

(* route_assessment_to_queue.                                              *)
Route(n) ==
  /\ trail[n].verdict # "allow"
  /\ Cardinality(tickets \cup packets) < MaxFiled
  /\ tickets' = tickets \cup {[of |-> n, params |-> QueueParams(trail[n].input, trail[n].verdict)]}
  /\ UNCHANGED <<evidence, world, changes, trail, packets, bound>>

(* AuditPacketGenerator.generate and AuditPacketStore.save.                *)
Audit(n) ==
  /\ Cardinality(tickets \cup packets) < MaxFiled
  /\ packets' = packets \cup {[of |-> n, class |-> PacketClass(trail[n].input, trail[n].verdict)]}
  /\ UNCHANGED <<evidence, world, changes, trail, tickets, bound>>

(* save_approval_binding, for the hashes of an assessment.  It overwrites  *)
(* the approval's earlier binding.                                         *)
Bind(n) ==
  /\ bound' = n
  /\ UNCHANGED <<evidence, world, changes, trail, tickets, packets>>

(* The approval expires: the row stays, but is current for nothing.        *)
Expire ==
  /\ bound # 0
  /\ bound' = 0
  /\ UNCHANGED <<evidence, world, changes, trail, tickets, packets>>

Next == \/ \E i \in Items : \E a \in Acceptances \cup {Unlinked} : Record(i, a)
        \/ \E i \in Items : \E a \in Acceptances : Link(i, a)
        \/ ChangeWorld
        \/ \E x \in Inputs : Assess(x)
        \/ \E n \in DOMAIN trail : Route(n) \/ Audit(n) \/ Bind(n)
        \/ Expire

Spec == Init /\ [][Next]_vars

\* approval_is_current, for the hashes of an assessment.  The diff belongs to the
\* decision, so it is the same when the decision_id is.
IsCurrent(n) == bound # 0 /\ trail[n].hash = trail[bound].hash
-----------------------------------------------------------------------------
\* The input once the checks in S are repaired: what is stale refreshed, obligations
\* met, approvals granted, an item added for every acceptance without one.
Repaired(x, S) ==
  LET bare == {a \in x.acceptances : \A c \in x.collected : c[2] # a}
      put(s, new, old) == IF s \in S THEN new ELSE old
  IN  [x EXCEPT !.fresh      = put("stale_check", "yes", @),
                !.obligation = put("obligation_check", Fulfilled, @),
                !.missing    = put("approval_check", {}, @),
                !.collected  = put("evidence_check", @ \cup {<<a, a>> : a \in bare}, @)]

\* The strength that is reported and the one that is counted say the same.
Consistent(x) ==
  x.reported < MinStrength <=> CountedStrength(x.acceptances, x.collected) < MinStrength

AssessmentType ==
  [input : [id : 0..MaxChanges, packet : {p \in Packets : p.decision \in Decisions},
            fresh : {"yes", "no", Absent}, obligation : Obligations,
            required : SUBSET Roles, missing : SUBSET Roles, acceptances : {Required},
            collected : SUBSET (Items \X Acceptances), reported : Percent],
   steps : SUBSET Checks, advice : SUBSET Checks,
   hash : [decision_id : 0..MaxChanges, fresh : {"yes", "no", Absent}, rate : Percent,
           missing : SUBSET Roles, reported : Percent],
   verdict : Verdicts]

\* The state is well typed.
TypeOK ==
  /\ evidence \in [Items -> Acceptances \cup {Unlinked, Absent}]
  /\ world \in Worlds
  /\ changes \in 0..MaxChanges
  /\ trail \in Seq(AssessmentType) /\ Len(trail) <= MaxAssessments
  /\ \A t \in tickets : t.of \in DOMAIN trail
  /\ \A p \in packets : p.of \in DOMAIN trail
  /\ bound \in 0..Len(trail)

\* The causal trace does not miss a cause: when repairing one check alone would have
\* changed the verdict, that check has a step (if the strength reported to the engine
\* agrees with the evidence it counts).
TraceNamesCauses == \A n \in DOMAIN trail : \A s \in Checks :
  /\ Consistent(trail[n].input)
  /\ EngineVerdict(Repaired(trail[n].input, {s})) # trail[n].verdict
  => s \in trail[n].steps

\* The counterfactuals of a pass are enough: whoever follows all of them is left with
\* what the unmet obligations ask for, and with allow when there is none.
AdviceSuffices == \A n \in DOMAIN trail :
  LET x == trail[n].input
  IN  x.packet.decision = "pass" /\ Consistent(x)
      => EngineVerdict(Repaired(x, trail[n].advice)) = PassVerdict(x.obligation, 100)

\* An approval that is still current for a later assessment was given for the same
\* verdict, unless what changed is what the hash leaves out: the severities and the
\* evidence behind a pass, the roles that must review a warning.  The approval of a
\* hold never outlives the verdict it was given for.
ApprovalOutlivesOnlyUnhashed == \A n \in DOMAIN trail :
  IsCurrent(n) /\ trail[n].verdict # trail[bound].verdict
  => LET now == trail[n].input
         then == trail[bound].input
     IN  \/ /\ now.packet.decision = "pass"
            /\ now.obligation # then.obligation \/ now.collected # then.collected
         \/ now.packet.decision = "warn" /\ now.required # then.required

\* The two places that choose a retention class: an audit packet never outlives the
\* gate's copy, a deny is kept as long as it, and only a sensitive rationale or one of
\* the verdicts revise and stale_blocked makes it shorter.
RetentionAgrees == \A p \in packets :
  LET verdict == trail[p.of].verdict
      days    == KeptDays(p.class)
  IN  /\ days <= KeptDays(GateClass(verdict))
      /\ days < KeptDays(GateClass(verdict)) =>
           /\ verdict # "deny"
           /\ trail[p.of].input.packet.sensitive \/ verdict \in {"revise", "stale_blocked"}

\* Counting evidence items and covering acceptances lead to different verdicts only for
\* a pass, and only when an acceptance has two items or an item is for none of the
\* task's acceptances.
MiscountHasCause == \A n \in DOMAIN trail :
  LET x == trail[n].input
      covered == ResolveVerdict(x.packet, x.fresh # "no", x.obligation, x.required, x.missing,
                                CoveredStrength(x.acceptances, x.collected),
                                x.packet.override, FALSE)
  IN  trail[n].verdict # covered
      => /\ x.packet.decision = "pass"
         /\ \/ \E c, d \in x.collected : c # d /\ c[2] = d[2]
            \/ \E c \in x.collected : c[2] \notin x.acceptances
=============================================================================
