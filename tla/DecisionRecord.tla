--------------------------- MODULE DecisionRecord ---------------------------
(***************************************************************************)
(* What an evaluation promises to whoever reads the database, without      *)
(* adapters, row ids or failures: its verdict is decided once; the audit   *)
(* packet, the snapshot and the answer come after it, in that order, each  *)
(* once and each of that verdict; a verdict that needs a person is queued  *)
(* by the time it is answered; and nothing written is ever changed.  The   *)
(* record of an evaluation may stop anywhere on this way.                  *)
(***************************************************************************)
CONSTANTS Evals, Verdicts,
          HumanVerdicts  \* the verdicts a human is asked to look at

VARIABLES
  \* Of each evaluation, as a set of at most one element:
  recorded,  \* the verdict of its assessment
  audited,   \* the retention class of its audit packet
  attested,  \* the verdict its snapshot expects of a replay
  answered,  \* the verdict its caller was given
  queued     \* the evaluations in the human queue

Nothing == [e \in Evals |-> {}]

Init == /\ recorded = Nothing /\ audited = Nothing
        /\ attested = Nothing /\ answered = Nothing
        /\ queued = {}

Record(e, v) ==
  /\ recorded[e] = {}
  /\ recorded' = [recorded EXCEPT ![e] = {v}]
  /\ UNCHANGED <<audited, attested, answered, queued>>

Audit(e) ==
  /\ recorded[e] # {} /\ audited[e] = {}
  /\ audited' = [audited EXCEPT ![e] = IF recorded[e] = {"allow"} THEN {"ops"} ELSE {"audit"}]
  /\ UNCHANGED <<recorded, attested, answered, queued>>

Attest(e) ==
  /\ audited[e] # {} /\ attested[e] = {}
  /\ attested' = [attested EXCEPT ![e] = recorded[e]]
  /\ UNCHANGED <<recorded, audited, answered, queued>>

Answer(e) ==
  /\ attested[e] # {} /\ answered[e] = {}
  /\ answered' = [answered EXCEPT ![e] = recorded[e]]
  /\ queued' = IF recorded[e] \subseteq HumanVerdicts THEN queued \cup {e} ELSE queued
  /\ UNCHANGED <<recorded, audited, attested>>

Next == \E e \in Evals :
  \/ \E v \in Verdicts : Record(e, v)
  \/ Audit(e) \/ Attest(e) \/ Answer(e)

Spec == Init /\ [][Next]_<<recorded, audited, attested, answered, queued>>
=============================================================================
