-------------------------- MODULE Verdicts_proofs --------------------------
(***************************************************************************)
(* Proofs about the verdict algebra and the decision table: what combining *)
(* verdicts does whatever the order, and which inputs of the table, made   *)
(* worse, can make its verdict less strict.                                *)
(***************************************************************************)
EXTENDS Verdicts, TLAPS

-----------------------------------------------------------------------------
(* The order and the fold.                                                 *)

\* _more_restrictive gives one of its arguments, and neither is stricter.
LEMMA MoreRestrictiveIsMax ==
  ASSUME NEW v \in Verdicts, NEW w \in Verdicts
  PROVE  /\ MoreRestrictive(v, w) \in {v, w}
         /\ MoreRestrictive(v, w) \in Verdicts
         /\ AtLeast(MoreRestrictive(v, w), v)
         /\ AtLeast(MoreRestrictive(v, w), w)
  BY DEF MoreRestrictive, AtLeast, Priority, Verdicts

\* The priorities order the verdicts totally.
LEMMA AtLeastOrder ==
  ASSUME NEW u \in Verdicts, NEW v \in Verdicts, NEW w \in Verdicts
  PROVE  /\ AtLeast(u, u)
         /\ AtLeast(u, v) /\ AtLeast(v, w) => AtLeast(u, w)
         /\ AtLeast(u, v) /\ AtLeast(v, u) => u = v
         /\ AtLeast(u, v) \/ AtLeast(v, u)
         /\ AtLeast(u, "allow")
         /\ AtLeast("deny", u)
  BY DEF AtLeast, Priority, Verdicts

\* A floor under both arguments, or under one, is a floor under the result.
LEMMA RestrictionKeepsFloor ==
  ASSUME NEW v \in Verdicts, NEW w \in Verdicts, NEW floor \in Verdicts
  PROVE  AtLeast(MoreRestrictive(v, w), floor) <=> AtLeast(v, floor) \/ AtLeast(w, floor)
  BY MoreRestrictiveIsMax, AtLeastOrder

\* The order in which evaluate and replay_context combine the axes does not matter, an
\* axis combined twice (a retried read) counts once, and no axis undoes a deny.
THEOREM CombiningIsOrderFree ==
  ASSUME NEW u \in Verdicts, NEW v \in Verdicts, NEW w \in Verdicts
  PROVE  /\ MoreRestrictive(u, v) = MoreRestrictive(v, u)
         /\ MoreRestrictive(MoreRestrictive(u, v), w) = MoreRestrictive(u, MoreRestrictive(v, w))
         /\ MoreRestrictive(MoreRestrictive(u, v), v) = MoreRestrictive(u, v)
         /\ MoreRestrictive("allow", v) = v
         /\ MoreRestrictive("deny", v) = "deny"
         /\ AtLeast(u, v) => AtLeast(MoreRestrictive(u, w), MoreRestrictive(v, w))
  <1> DEFINE uv == MoreRestrictive(u, v)
             vw == MoreRestrictive(v, w)
  <1>1. uv \in Verdicts /\ vw \in Verdicts /\ "allow" \in Verdicts /\ "deny" \in Verdicts
    BY MoreRestrictiveIsMax DEF Verdicts
  <1>2. uv = MoreRestrictive(v, u)
    BY MoreRestrictiveIsMax, AtLeastOrder
  <1>3. MoreRestrictive(uv, w) = MoreRestrictive(u, vw)
    <2> DEFINE left  == MoreRestrictive(uv, w)
               right == MoreRestrictive(u, vw)
    <2>1. left \in Verdicts /\ right \in Verdicts
      BY <1>1, MoreRestrictiveIsMax
    <2>2. \A x \in Verdicts : AtLeast(left, x) <=> AtLeast(right, x)
      BY <1>1, RestrictionKeepsFloor
    <2>3. AtLeast(left, right) /\ AtLeast(right, left)
      BY <2>1, <2>2, AtLeastOrder
    <2>4. QED
      BY <2>1, <2>3, AtLeastOrder
  <1>4. MoreRestrictive(uv, v) = uv
    BY <1>1, MoreRestrictiveIsMax, AtLeastOrder
  <1>5. MoreRestrictive("allow", v) = v /\ MoreRestrictive("deny", v) = "deny"
    BY <1>1, MoreRestrictiveIsMax, AtLeastOrder
  <1>6. AtLeast(u, v) => AtLeast(MoreRestrictive(u, w), vw)
    BY <1>1, MoreRestrictiveIsMax, RestrictionKeepsFloor, AtLeastOrder
  <1>7. QED
    BY <1>2, <1>3, <1>4, <1>5, <1>6
-----------------------------------------------------------------------------
(* The verdict an axis that did not answer imposes.                        *)

\* A failed axis always asks for a human at least.
LEMMA FailureVerdictFloor ==
  ASSUME NEW axis, NEW level, NEW action
  PROVE  /\ FailureVerdict(axis, level, action) \in Verdicts
         /\ AtLeast(FailureVerdict(axis, level, action), "needs_approval")
  BY DEF FailureVerdict, GatefieldFailure, ShipyardFailure, AtLeast, Priority, Verdicts

\* An outage is never judged more leniently for a riskier request, nor for one that
\* publishes: a caller gains nothing by asking for more while an adapter is down.
THEOREM OutageGrowsWithRisk ==
  ASSUME NEW axis, NEW low \in Risks \ HighRisks, NEW high \in HighRisks,
         NEW action, NEW publish \in PublishActions
  PROVE  /\ AtLeast(FailureVerdict(axis, high, action), FailureVerdict(axis, low, action))
         /\ AtLeast(FailureVerdict(axis, low, publish), FailureVerdict(axis, low, action))
         /\ AtLeast(FailureVerdict(axis, high, publish), FailureVerdict(axis, high, action))
  BY DEF FailureVerdict, GatefieldFailure, ShipyardFailure, AtLeast, Priority, HighRisks
-----------------------------------------------------------------------------
(* The decision table.                                                     *)

\* The four decisions, one at a time.
LEMMA TableRows ==
  ASSUME NEW packet, packet.decision \in Decisions, NEW fresh \in BOOLEAN, NEW obligation,
         NEW required, NEW missing, NEW strength, NEW admin, NEW timeout
  PROVE  LET verdict == ResolveVerdict(packet, fresh, obligation, required, missing,
                                       strength, admin, timeout)
         IN  /\ packet.decision = "block" => verdict = "deny"
             /\ packet.decision # "block" /\ ~fresh => verdict = "stale_blocked"
             /\ packet.decision = "pass" /\ fresh => verdict = PassVerdict(obligation, strength)
             /\ packet.decision = "warn" /\ fresh =>
                  verdict = WarnVerdict(packet, required, admin)
             /\ packet.decision = "hold" /\ fresh =>
                  verdict = HoldVerdict(packet, missing, timeout)
  BY DEF ResolveVerdict, Decisions

\* One row of the table allows, and three deny: a block, a critical obligation that is
\* open beside good evidence, and a hold nobody answered in time and nothing else holds up.
THEOREM TableAllowsAndDenies ==
  ASSUME NEW packet, packet.decision \in Decisions, NEW fresh \in BOOLEAN,
         NEW obligation \in ObligationType, NEW required, NEW missing,
         NEW strength \in Percent, NEW admin \in BOOLEAN, NEW timeout \in BOOLEAN,
         packet.uncertainty \in Percent
  PROVE  LET verdict == ResolveVerdict(packet, fresh, obligation, required, missing,
                                       strength, admin, timeout)
         IN  /\ verdict = "allow" <=>
                  /\ packet.decision = "pass" /\ fresh
                  /\ strength >= MinStrength /\ obligation.rate = 100
             /\ verdict = "deny" <=>
                  \/ packet.decision = "block"
                  \/ /\ packet.decision = "pass" /\ fresh /\ strength >= MinStrength
                     /\ obligation.rate < 100 /\ obligation.critical
                  \/ /\ packet.decision = "hold" /\ fresh /\ timeout
                     /\ missing = {} /\ packet.uncertainty < 25
  <1>1. obligation.rate \in 0..100 /\ strength \in 0..100 /\ packet.uncertainty \in 0..100
    BY DEF ObligationType, Percent
  <1>2. /\ PassVerdict(obligation, strength) = "allow" <=>
             strength >= MinStrength /\ obligation.rate = 100
        /\ PassVerdict(obligation, strength) = "deny" <=>
             strength >= MinStrength /\ obligation.rate < 100 /\ obligation.critical
    BY <1>1 DEF PassVerdict, ObligationVerdict, MinStrength
  <1>3. WarnVerdict(packet, required, admin) \notin {"allow", "deny"}
    BY DEF WarnVerdict
  <1>4. /\ HoldVerdict(packet, missing, timeout) # "allow"
        /\ HoldVerdict(packet, missing, timeout) = "deny" <=>
             missing = {} /\ packet.uncertainty < 25 /\ timeout
    BY <1>1 DEF HoldVerdict
  <1>5. QED
    BY <1>2, <1>3, <1>4, TableRows DEF Decisions

\* An obligation in a worse state: less of it met, and nothing taken off the open list.
Worse(worse, obligation) ==
  /\ worse.rate <= obligation.rate
  /\ obligation.critical => worse.critical
  /\ obligation.high => worse.high

\* Worse obligations, more corrections, more required reviewers, the admin permission and
\* an SLA that ran out never make the verdict less strict, alone or together.
THEOREM WorseNeverLoosens ==
  ASSUME NEW packet, packet.decision \in Decisions, packet.corrections \in Nat,
         NEW worsePacket, worsePacket.decision = packet.decision,
         worsePacket.uncertainty = packet.uncertainty,
         worsePacket.corrections \in Nat, worsePacket.corrections >= packet.corrections,
         NEW fresh \in BOOLEAN,
         NEW obligation \in ObligationType, NEW worse \in ObligationType,
         Worse(worse, obligation),
         NEW required, NEW moreRequired, required \subseteq moreRequired,
         NEW missing, NEW strength \in Percent,
         NEW admin \in BOOLEAN, NEW admin2 \in BOOLEAN, admin => admin2,
         NEW timeout \in BOOLEAN, NEW timeout2 \in BOOLEAN, timeout => timeout2
  PROVE  AtLeast(ResolveVerdict(worsePacket, fresh, worse, moreRequired, missing,
                                strength, admin2, timeout2),
                 ResolveVerdict(packet, fresh, obligation, required, missing,
                                strength, admin, timeout))
  <1>1. AtLeast(PassVerdict(worse, strength), PassVerdict(obligation, strength))
    BY DEF Worse, ObligationType, Percent, PassVerdict, ObligationVerdict, MinStrength,
           AtLeast, Priority
  <1>2. AtLeast(WarnVerdict(worsePacket, moreRequired, admin2),
                WarnVerdict(packet, required, admin))
    BY DEF WarnVerdict, AtLeast, Priority
  <1>3. AtLeast(HoldVerdict(worsePacket, missing, timeout2),
                HoldVerdict(packet, missing, timeout))
    BY DEF HoldVerdict, AtLeast, Priority
  <1>4. AtLeast("deny", "deny") /\ AtLeast("stale_blocked", "stale_blocked")
    BY DEF AtLeast, Priority
  <1>5. QED
    BY <1>1, <1>2, <1>3, <1>4, TableRows DEF Decisions

\* The rest of the table is not monotone, and this is all of it: a check that comes first
\* hides a stricter one behind it.  Stale documents and weak evidence hide an open
\* obligation, a missing approval hides an uncertain or overdue hold, and an uncertain
\* hold hides that it is overdue.
THEOREM WhatHidesAStricterVerdict ==
  ASSUME NEW packet, packet.decision \in Decisions, packet.uncertainty \in Percent,
         NEW uncertain, uncertain.decision = packet.decision,
         uncertain.corrections = packet.corrections,
         uncertain.uncertainty \in Percent, uncertain.uncertainty >= packet.uncertainty,
         NEW fresh \in BOOLEAN, NEW obligation \in ObligationType,
         NEW required, NEW missing, NEW more, missing \subseteq more,
         NEW strength \in Percent, NEW weaker \in Percent, weaker <= strength,
         NEW admin \in BOOLEAN, NEW timeout \in BOOLEAN
  PROVE  LET verdict == ResolveVerdict(packet, fresh, obligation, required, missing,
                                       strength, admin, timeout)
         IN  /\ ~AtLeast(ResolveVerdict(packet, FALSE, obligation, required, missing,
                                        strength, admin, timeout), verdict)
                  <=> verdict = "deny" /\ packet.decision # "block"
             /\ ~AtLeast(ResolveVerdict(packet, fresh, obligation, required, missing,
                                        weaker, admin, timeout), verdict)
                  <=> /\ packet.decision = "pass" /\ fresh /\ obligation.rate < 100
                      /\ obligation.critical \/ obligation.high
                      /\ weaker < MinStrength /\ MinStrength <= strength
             /\ ~AtLeast(ResolveVerdict(packet, fresh, obligation, required, more,
                                        strength, admin, timeout), verdict)
                  <=> /\ packet.decision = "hold" /\ fresh
                      /\ missing = {} /\ more # {}
                      /\ timeout \/ packet.uncertainty >= 25
             /\ ~AtLeast(ResolveVerdict(uncertain, fresh, obligation, required, missing,
                                        strength, admin, timeout), verdict)
                  <=> /\ packet.decision = "hold" /\ fresh /\ missing = {} /\ timeout
                      /\ packet.uncertainty < 25 /\ 25 <= uncertain.uncertainty
  <1> DEFINE pass  == PassVerdict(obligation, strength)
             warn  == WarnVerdict(packet, required, admin)
             hold  == HoldVerdict(packet, missing, timeout)
             is    == ResolveVerdict(packet, fresh, obligation, required, missing,
                                     strength, admin, timeout)
             stale == ResolveVerdict(packet, FALSE, obligation, required, missing,
                                     strength, admin, timeout)
             weak  == ResolveVerdict(packet, fresh, obligation, required, missing,
                                     weaker, admin, timeout)
             open  == ResolveVerdict(packet, fresh, obligation, required, more,
                                     strength, admin, timeout)
             vague == ResolveVerdict(uncertain, fresh, obligation, required, missing,
                                     strength, admin, timeout)
  <1>1. obligation.rate \in 0..100 /\ strength \in 0..100 /\ weaker \in 0..100
        /\ packet.uncertainty \in 0..100 /\ uncertain.uncertainty \in 0..100
    BY DEF ObligationType, Percent
  <1>2. /\ ~AtLeast("stale_blocked", pass) <=> pass = "deny"
        /\ ~AtLeast("stale_blocked", warn) <=> warn = "deny"
        /\ ~AtLeast("stale_blocked", hold) <=> hold = "deny"
    BY DEF PassVerdict, ObligationVerdict, WarnVerdict, HoldVerdict, AtLeast, Priority
  <1>3. AtLeast(pass, pass) /\ AtLeast(warn, warn) /\ AtLeast(hold, hold)
        /\ AtLeast("deny", "deny") /\ AtLeast("stale_blocked", "stale_blocked")
    BY DEF PassVerdict, ObligationVerdict, WarnVerdict, HoldVerdict, AtLeast, Priority
  <1>4. ~AtLeast(PassVerdict(obligation, weaker), pass)
          <=> /\ obligation.rate < 100 /\ (obligation.critical \/ obligation.high)
              /\ weaker < MinStrength /\ MinStrength <= strength
    BY <1>1 DEF PassVerdict, ObligationVerdict, MinStrength, AtLeast, Priority
  <1>5. ~AtLeast(HoldVerdict(packet, more, timeout), hold)
          <=> missing = {} /\ more # {} /\ (timeout \/ packet.uncertainty >= 25)
    BY <1>1 DEF HoldVerdict, AtLeast, Priority
  <1>6. ~AtLeast(HoldVerdict(uncertain, missing, timeout), hold)
          <=> /\ missing = {} /\ timeout
              /\ packet.uncertainty < 25 /\ 25 <= uncertain.uncertainty
    BY <1>1 DEF HoldVerdict, AtLeast, Priority
  <1>7. AtLeast(WarnVerdict(uncertain, required, admin), warn)
    BY <1>1 DEF WarnVerdict, AtLeast, Priority
  <1>8. CASE packet.decision = "block"
    <2>1. is = "deny" /\ stale = "deny" /\ weak = "deny" /\ open = "deny" /\ vague = "deny"
      BY <1>8 DEF ResolveVerdict
    <2>2. QED
      BY <1>3, <1>8, <2>1
  <1>9. CASE packet.decision # "block" /\ ~fresh
    <2>1. /\ is = "stale_blocked" /\ stale = "stale_blocked" /\ weak = "stale_blocked"
          /\ open = "stale_blocked" /\ vague = "stale_blocked"
      BY <1>9 DEF ResolveVerdict
    <2>2. QED
      BY <1>3, <1>9, <2>1
  <1>10. CASE packet.decision = "pass" /\ fresh
    <2>1. /\ is = pass /\ stale = "stale_blocked" /\ weak = PassVerdict(obligation, weaker)
          /\ open = pass /\ vague = pass
      BY <1>10 DEF ResolveVerdict
    <2>2. QED
      BY <1>2, <1>3, <1>4, <1>10, <2>1
  <1>11. CASE packet.decision = "warn" /\ fresh
    <2>1. /\ is = warn /\ stale = "stale_blocked" /\ weak = warn /\ open = warn
          /\ vague = WarnVerdict(uncertain, required, admin)
      BY <1>11 DEF ResolveVerdict
    <2>2. QED
      BY <1>2, <1>3, <1>7, <1>11, <2>1
  <1>12. CASE packet.decision = "hold" /\ fresh
    <2>1. /\ is = hold /\ stale = "stale_blocked" /\ weak = hold
          /\ open = HoldVerdict(packet, more, timeout)
          /\ vague = HoldVerdict(uncertain, missing, timeout)
      BY <1>12 DEF ResolveVerdict
    <2>2. QED
      BY <1>2, <1>3, <1>5, <1>6, <1>12, <2>1
  <1>13. QED
    BY <1>8, <1>9, <1>10, <1>11, <1>12 DEF Decisions
=============================================================================
