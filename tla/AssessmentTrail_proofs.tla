------------------------ MODULE AssessmentTrail_proofs ------------------------
(***************************************************************************)
(* Proofs about AssessmentTrail, for any evidence items, acceptances,      *)
(* roles, decisions and obligations, and any number of assessments.        *)
(***************************************************************************)
EXTENDS AssessmentTrail, FiniteSetTheorems, FunctionTheorems, TLAPS

InputType ==
  [id : 0..MaxChanges, packet : {p \in Packets : p.decision \in Decisions},
   fresh : {"yes", "no", Absent}, obligation : Obligations,
   required : SUBSET Roles, missing : SUBSET Roles, acceptances : {Required},
   collected : SUBSET (Items \X Acceptances), reported : Percent]

\* What is known of the trail: each assessment is what the engine makes of its input,
\* and the decision of an input belongs to its id.
Made ==
  /\ \A n \in DOMAIN trail : /\ trail[n].input \in InputType
                             /\ trail[n] = Assessment(trail[n].input)
                             /\ trail[n].input.id <= world.id
                             /\ trail[n].input.id = world.id => trail[n].input.packet = world.packet
  /\ \A m, n \in DOMAIN trail : trail[m].input.id = trail[n].input.id
                                  => trail[m].input.packet = trail[n].input.packet

IdsAreChanges == world.id <= changes

\* An audit packet is classed by its assessment.
Classed == \A p \in packets :
  p.class = PacketClass(trail[p.of].input, trail[p.of].verdict)
-----------------------------------------------------------------------------
(* Measures of evidence.                                                   *)

\* A percentage is a natural number, and grows with what is counted.
LEMMA PerCentGrows ==
  ASSUME NEW m \in Nat, NEW n \in Nat, NEW of \in Nat, m <= n
  PROVE  PerCent(m, of) \in Nat /\ PerCent(m, of) <= PerCent(n, of)
<1>1. CASE of = 0
  BY <1>1 DEF PerCent
<1>2. CASE of # 0
  BY <1>2 DEF PerCent
<1> QED BY <1>1, <1>2

\* As many as are asked for are all of it.
LEMMA PerCentAll ==
  ASSUME NEW n \in Nat, NEW of \in Nat, of <= n
  PROVE  PerCent(n, of) >= 100
<1>1. CASE of = 0
  BY <1>1 DEF PerCent
<1>2. CASE of # 0
  <2>1. (100 * of) \div of = 100
    BY <1>2
  <2> QED BY <1>2, <2>1, PerCentGrows DEF PerCent
<1> QED BY <1>1, <1>2

\* What is collected is finite, and so is what it covers.
LEMMA CollectedFinite ==
  ASSUME NEW C \in SUBSET (Items \X Acceptances)
  PROVE  IsFiniteSet(C) /\ Cardinality(C) \in Nat
<1>1. IsFiniteSet(Items \X Acceptances)
  BY FS_Product, TrailAssumptions
<1> QED BY <1>1, FS_Subset, FS_CardinalityType

LEMMA RequiredFinite == IsFiniteSet(Required) /\ Cardinality(Required) \in Nat
  BY FS_Subset, FS_CardinalityType, TrailAssumptions

\* Pairs that have every acceptance as a second component are at least as many.
LEMMA CoveringIsEnough ==
  ASSUME NEW C, IsFiniteSet(C), NEW A, \A a \in A : \E c \in C : c[2] = a
  PROVE  Cardinality(A) <= Cardinality(C)
<1> DEFINE D == {c \in C : c[2] \in A}
           f == [c \in D |-> c[2]]
<1>1. f \in Surjection(D, A)
  <2>1. f \in [D -> A]
    OBVIOUS
  <2>2. \A a \in A : \E c \in D : f[c] = a
    OBVIOUS
  <2> QED BY <2>1, <2>2 DEF Surjection
<1>2. IsFiniteSet(D) /\ Cardinality(D) <= Cardinality(C)
  BY FS_Subset
<1>3. Cardinality(A) <= Cardinality(D) /\ IsFiniteSet(A)
  BY <1>1, <1>2, FS_Surjection
<1> HIDE DEF D, f
<1> QED BY <1>2, <1>3, FS_CardinalityType

\* Without a second item for an acceptance, and without an item for none, what is
\* counted is what is covered.
LEMMA CountedIsCovered ==
  ASSUME NEW C, IsFiniteSet(C), NEW A,
         \A c, d \in C : c[2] = d[2] => c = d, \A c \in C : c[2] \in A
  PROVE  Cardinality({a \in A : \E c \in C : c[2] = a}) = Cardinality(C)
<1> DEFINE B == {a \in A : \E c \in C : c[2] = a}
           f == [c \in C |-> c[2]]
<1>1. f \in Bijection(C, B)
  <2>1. f \in [C -> B]
    OBVIOUS
  <2>2. \A a \in B : \E c \in C : f[c] = a
    OBVIOUS
  <2>3. \A c, d \in C : f[c] = f[d] => c = d
    OBVIOUS
  <2> HIDE DEF f, B
  <2> QED BY <2>1, <2>2, <2>3 DEF Bijection, Surjection, Injection, IsInjective
<1>2. ExistsBijection(C, B)
  BY <1>1 DEF ExistsBijection
<1> QED BY <1>2, FS_Bijection
-----------------------------------------------------------------------------
(* What the engine makes of one input.                                     *)

\* Repairing leaves everything alone but the checks it names.
LEMMA RepairedFields ==
  ASSUME NEW x \in InputType, NEW S
  PROVE  LET y == Repaired(x, S)
             bare == {a \in x.acceptances : \A c \in x.collected : c[2] # a}
         IN  /\ y.packet = x.packet /\ y.required = x.required
             /\ y.acceptances = x.acceptances
             /\ y.fresh = IF "stale_check" \in S THEN "yes" ELSE x.fresh
             /\ y.obligation = IF "obligation_check" \in S THEN Fulfilled ELSE x.obligation
             /\ y.missing = IF "approval_check" \in S THEN {} ELSE x.missing
             /\ y.collected = IF "evidence_check" \in S
                              THEN x.collected \cup {<<a, a>> : a \in bare} ELSE x.collected
BY DEF Repaired, InputType

LEMMA EvidenceLeft ==
  ASSUME NEW x \in InputType, NEW S, "evidence_check" \notin S
  PROVE  Repaired(x, S).collected = x.collected
BY DEF Repaired, InputType

\* Repaired evidence counts at least as much, and all that is asked for.
LEMMA RepairedStrength ==
  ASSUME NEW x \in InputType, NEW S, "evidence_check" \in S
  PROVE  LET strength == CountedStrength(Repaired(x, S).acceptances, Repaired(x, S).collected)
         IN  strength \in Nat /\ strength >= 100
             /\ strength >= CountedStrength(x.acceptances, x.collected)
<1> DEFINE bare == {a \in x.acceptances : \A c \in x.collected : c[2] # a}
           more == {<<a, a>> : a \in bare}
           all == x.collected \cup more
<1>1. x.acceptances = Required /\ x.collected \in SUBSET (Items \X Acceptances)
  BY DEF InputType
<1>2. IsFiniteSet(bare)
  BY <1>1, RequiredFinite, FS_Subset
<1>3. IsFiniteSet(more)
  <2> DEFINE f == [a \in bare |-> <<a, a>>]
  <2>1. f \in Surjection(bare, more)
    BY DEF Surjection
  <2> HIDE DEF f, more, bare
  <2> QED BY <1>2, <2>1, FS_Surjection
<1>4. IsFiniteSet(all) /\ Cardinality(all) \in Nat
  BY <1>1, <1>3, CollectedFinite, FS_Union, FS_CardinalityType
<1>5. Cardinality(x.collected) <= Cardinality(all) /\ Cardinality(x.collected) \in Nat
  BY <1>1, <1>4, CollectedFinite, FS_Subset
<1>6. Cardinality(Required) <= Cardinality(all)
  <2>1. \A a \in Required : \E c \in all : c[2] = a
    <3> SUFFICES ASSUME NEW a \in Required PROVE \E c \in all : c[2] = a
      OBVIOUS
    <3>1. CASE a \in bare
      <4>1. <<a, a>> \in all /\ <<a, a>>[2] = a
        BY <3>1
      <4> QED BY <4>1
    <3>2. CASE a \notin bare
      BY <1>1, <3>2
    <3> QED BY <3>1, <3>2
  <2> HIDE DEF all
  <2> QED BY <1>4, <2>1, CoveringIsEnough
<1>7. Repaired(x, S).acceptances = Required /\ Repaired(x, S).collected = all
  BY <1>1, RepairedFields
<1> HIDE DEF all
<1> QED BY <1>1, <1>4, <1>5, <1>6, <1>7, RequiredFinite, PerCentGrows, PerCentAll
        DEF CountedStrength

\* The verdict does not depend on a check that has no step in the trace.
LEMMA NoStepNoCause ==
  ASSUME NEW x \in InputType, Consistent(x), NEW s \in Checks, s \notin TraceSteps(x)
  PROVE  EngineVerdict(Repaired(x, {s})) = EngineVerdict(x)
<1> DEFINE y == Repaired(x, {s})
<1>1. x.obligation.rate \in 0..100 /\ x.fresh \in {"yes", "no", Absent}
  BY TrailAssumptions DEF InputType, ObligationType, Percent
<1>2. CASE s = "stale_check"
  <2>1. /\ x.fresh = "yes" /\ y.packet = x.packet /\ y.fresh = "yes"
        /\ y.obligation = x.obligation /\ y.required = x.required /\ y.missing = x.missing
        /\ y.acceptances = x.acceptances /\ y.collected = x.collected
    BY <1>2, RepairedFields DEF TraceSteps
  <2> HIDE DEF y
  <2> QED BY <2>1 DEF EngineVerdict, y
<1>3. CASE s = "obligation_check"
  <2>1. /\ y.packet = x.packet /\ y.fresh = x.fresh
        /\ y.obligation = Fulfilled /\ y.required = x.required /\ y.missing = x.missing
        /\ y.acceptances = x.acceptances /\ y.collected = x.collected
    BY <1>3, RepairedFields
  <2> HIDE DEF y
  <2>2. x.obligation.rate = 100
    BY <1>1, <1>3 DEF TraceSteps
  <2>3. \A strength : PassVerdict(Fulfilled, strength) = PassVerdict(x.obligation, strength)
    BY <2>2 DEF PassVerdict, Fulfilled
  <2>4. EngineVerdict(y) = EngineVerdict(x)
    BY <2>1, <2>3 DEF EngineVerdict, ResolveVerdict
  <2> QED BY <2>4 DEF y
<1>4. CASE s = "approval_check"
  <2>1. /\ x.missing = {} /\ y.packet = x.packet /\ y.fresh = x.fresh
        /\ y.obligation = x.obligation /\ y.required = x.required /\ y.missing = {}
        /\ y.acceptances = x.acceptances /\ y.collected = x.collected
    BY <1>4, RepairedFields DEF TraceSteps
  <2> QED BY <2>1 DEF EngineVerdict
<1>5. CASE s = "evidence_check"
  <2>1. /\ y.packet = x.packet /\ y.fresh = x.fresh
        /\ y.obligation = x.obligation /\ y.required = x.required /\ y.missing = x.missing
    BY <1>5, RepairedFields
  <2>2. ~(x.reported < MinStrength)
    BY <1>5 DEF TraceSteps
  <2>3. ~(CountedStrength(x.acceptances, x.collected) < MinStrength)
    BY <2>2 DEF Consistent
  <2>4. ~(CountedStrength(y.acceptances, y.collected) < MinStrength)
    BY <1>5, RepairedStrength DEF MinStrength
  <2> HIDE DEF y
  <2> QED BY <2>1, <2>3, <2>4 DEF EngineVerdict, ResolveVerdict, PassVerdict, y
<1> QED BY <1>2, <1>3, <1>4, <1>5 DEF Checks

\* Following all the advice of a pass leaves its obligations.
LEMMA AdviceLeavesObligations ==
  ASSUME NEW x \in InputType, x.packet.decision = "pass", Consistent(x)
  PROVE  EngineVerdict(Repaired(x, Advice(x))) = PassVerdict(x.obligation, 100)
<1> DEFINE y == Repaired(x, Advice(x))
<1>1. /\ y.packet.decision = "pass" /\ y.obligation = x.obligation /\ y.fresh # "no"
  <2>1. "obligation_check" \notin Advice(x) /\ (x.fresh = "no" => "stale_check" \in Advice(x))
    BY DEF Advice, Checks
  <2>2. /\ y.packet = x.packet /\ y.obligation = x.obligation
        /\ y.fresh = IF "stale_check" \in Advice(x) THEN "yes" ELSE x.fresh
    BY <2>1, RepairedFields
  <2> HIDE DEF y
  <2> QED BY <2>1, <2>2
<1>2. ~(CountedStrength(y.acceptances, y.collected) < MinStrength)
  <2>1. CASE x.reported < MinStrength
    <3>1. "evidence_check" \in Advice(x)
      BY <2>1 DEF Advice, Checks
    <3> QED BY <3>1, RepairedStrength DEF MinStrength
  <2>2. CASE ~(x.reported < MinStrength)
    <3>1. "evidence_check" \notin Advice(x)
      BY <2>2 DEF Advice
    <3>2. y.acceptances = x.acceptances
      BY RepairedFields
    <3>3. y.collected = x.collected
      BY <3>1, EvidenceLeft
    <3> QED BY <2>2, <3>2, <3>3 DEF Consistent
  <2> QED BY <2>1, <2>2
<1> HIDE DEF y
<1>3. EngineVerdict(y) = PassVerdict(x.obligation, 100)
  BY <1>1, <1>2 DEF EngineVerdict, ResolveVerdict, PassVerdict, MinStrength
<1> QED BY <1>3 DEF y

\* Counting differs from covering only with a double or a stray item, and matters only
\* for a pass.
LEMMA MiscountCause ==
  ASSUME NEW x \in InputType,
         EngineVerdict(x) # ResolveVerdict(x.packet, x.fresh # "no", x.obligation, x.required,
                                           x.missing,
                                           CoveredStrength(x.acceptances, x.collected),
                                           x.packet.override, FALSE)
  PROVE  /\ x.packet.decision = "pass"
         /\ \/ \E c, d \in x.collected : c # d /\ c[2] = d[2]
            \/ \E c \in x.collected : c[2] \notin x.acceptances
<1>1. x.packet.decision = "pass"
  BY DEF EngineVerdict, ResolveVerdict
<1>2. SUFFICES ASSUME \A c, d \in x.collected : c[2] = d[2] => c = d,
                      \A c \in x.collected : c[2] \in x.acceptances
               PROVE  FALSE
  BY <1>1
<1>3. IsFiniteSet(x.collected)
  BY CollectedFinite DEF InputType
<1>4. CoveredStrength(x.acceptances, x.collected) = CountedStrength(x.acceptances, x.collected)
  BY <1>2, <1>3, CountedIsCovered DEF CoveredStrength, CountedStrength
<1> QED BY <1>4 DEF EngineVerdict
-----------------------------------------------------------------------------
(* Types.                                                                  *)

\* What the recorder reports is a percentage.
LEMMA StrengthTyped == RecorderStrength \in Percent
<1> DEFINE held == {i \in Items : evidence[i] # Absent}
<1>1. Cardinality(held) \in Nat
  BY FS_Subset, FS_CardinalityType, TrailAssumptions
<1>2. PerCent(Cardinality(held), Cardinality(Required)) \in Nat
  BY <1>1, RequiredFinite, PerCentGrows
<1> HIDE DEF held
<1>3. \A p \in Nat : (IF p > 100 THEN 100 ELSE p) \in Percent
  BY DEF Percent
<1> QED BY <1>2, <1>3 DEF RecorderStrength, held

\* The engine is given inputs of their type, with the world's decision.
LEMMA InputTyped ==
  ASSUME TypeOK, NEW x \in Inputs, x.packet.decision \in Decisions
  PROVE  x \in InputType /\ x.id = world.id /\ x.packet = world.packet
<1>1. PICK p \in {100, RecorderStrength} :
        x = [id |-> world.id, packet |-> world.packet, fresh |-> world.fresh,
             obligation |-> world.obligation, required |-> world.required,
             missing |-> world.missing, acceptances |-> Required,
             collected |-> Collected, reported |-> p]
  BY DEF Inputs
<1>2. p \in Percent
  BY StrengthTyped DEF Percent
<1>3. Collected \in SUBSET (Items \X Acceptances)
  BY DEF Collected
<1>4. world.packet = x.packet
  BY <1>1
<1>5. world \in Worlds
  BY DEF TypeOK
<1> HIDE DEF Worlds
<1> QED BY <1>1, <1>2, <1>3, <1>4, <1>5 DEF InputType, Worlds

\* An assessment of a typed input is typed.
LEMMA AssessmentTyped ==
  ASSUME NEW x \in InputType
  PROVE  Assessment(x) \in AssessmentType /\ Assessment(x).input = x
<1>1. EngineVerdict(x) \in Verdicts
  BY DEF EngineVerdict, ResolveVerdict, PassVerdict, WarnVerdict, HoldVerdict,
         ObligationVerdict, Verdicts
<1>2. TraceSteps(x) \in SUBSET Checks /\ Advice(x) \in SUBSET Checks
  BY DEF TraceSteps, Advice
<1>3. x.obligation.rate \in Percent
  BY TrailAssumptions DEF InputType, ObligationType
<1>4. ContextHash(x) \in [decision_id : 0..MaxChanges, fresh : {"yes", "no", Absent},
                          rate : Percent, missing : SUBSET Roles, reported : Percent]
  BY <1>3 DEF ContextHash, InputType
<1> QED BY <1>1, <1>2, <1>4 DEF Assessment, AssessmentType, InputType

\* Initially nothing is assessed.
LEMMA TrailInit == Init => TypeOK /\ Made /\ IdsAreChanges /\ Classed
<1> SUFFICES ASSUME Init PROVE TypeOK /\ Made /\ IdsAreChanges /\ Classed
  OBVIOUS
<1> USE TrailAssumptions
<1>1. TypeOK
  BY DEF Init, TypeOK
<1> QED BY <1>1 DEF Init, Made, IdsAreChanges, Classed, Worlds

\* A change of the world is to a world that can be.
LEMMA WorldStep ==
  ASSUME TypeOK, IdsAreChanges, ChangeWorld
  PROVE  /\ world' \in Worlds /\ changes' \in 0..MaxChanges /\ world'.id <= changes'
         /\ world'.id >= world.id
         /\ world'.id = world.id => world'.packet = world.packet
         /\ UNCHANGED <<evidence, trail, tickets, packets, bound>>
<1> USE TrailAssumptions
<1>1. /\ changes < MaxChanges /\ changes' = changes + 1
      /\ UNCHANGED <<evidence, trail, tickets, packets, bound>>
  BY DEF ChangeWorld, Change
<1>2. world \in Worlds /\ changes \in 0..MaxChanges /\ world.id <= changes
  BY DEF TypeOK, IdsAreChanges
<1>3. ASSUME NEW p \in Packets, world' = [world EXCEPT !.packet = p, !.id = @ + 1]
      PROVE  world' \in Worlds /\ world'.id = world.id + 1
  <2>1. world.id \in Nat /\ world.id + 1 \in 0..MaxChanges
    BY <1>1, <1>2 DEF Worlds
  <2>2. world' = [id |-> world.id + 1, packet |-> p, fresh |-> world.fresh,
                  obligation |-> world.obligation, required |-> world.required,
                  missing |-> world.missing]
    BY <1>2, <1>3 DEF Worlds
  <2> QED BY <1>2, <2>1, <2>2 DEF Worlds
<1>4. ASSUME NEW f \in {"yes", "no", Absent}, world' = [world EXCEPT !.fresh = f]
      PROVE  world' \in Worlds /\ world'.id = world.id /\ world'.packet = world.packet
  BY <1>2, <1>4 DEF Worlds
<1>5. ASSUME NEW o \in Obligations, world' = [world EXCEPT !.obligation = o]
      PROVE  world' \in Worlds /\ world'.id = world.id /\ world'.packet = world.packet
  BY <1>2, <1>5 DEF Worlds
<1>6. ASSUME NEW r \in SUBSET Roles, NEW m \in SUBSET r,
             world' = [world EXCEPT !.required = r, !.missing = m]
      PROVE  world' \in Worlds /\ world'.id = world.id /\ world'.packet = world.packet
  BY <1>2, <1>6 DEF Worlds
<1>7. world.id \in Nat
  BY <1>2 DEF Worlds
<1>8. /\ world' \in Worlds
      /\ \/ world'.id = world.id + 1
         \/ world'.id = world.id /\ world'.packet = world.packet
  BY <1>3, <1>4, <1>5, <1>6 DEF ChangeWorld, Change
<1> QED BY <1>1, <1>2, <1>7, <1>8

\* An assessment is appended and the rest stays.
LEMMA AssessStep ==
  ASSUME TypeOK, NEW x \in Inputs, Assess(x)
  PROVE  /\ x \in InputType /\ x.id = world.id /\ x.packet = world.packet
         /\ trail' \in Seq(AssessmentType) /\ Len(trail') = Len(trail) + 1
         /\ \A n \in DOMAIN trail : n \in DOMAIN trail' /\ trail'[n] = trail[n]
         /\ trail'[Len(trail) + 1] = Assessment(x)
         /\ UNCHANGED <<evidence, world, changes, tickets, packets, bound>>
<1>1. x \in InputType /\ x.id = world.id /\ x.packet = world.packet
  BY InputTyped DEF Assess
<1>2. Assessment(x) \in AssessmentType /\ trail \in Seq(AssessmentType)
  BY <1>1, AssessmentTyped DEF TypeOK
<1>3. trail' = Append(trail, Assessment(x))
  BY DEF Assess
<1> QED BY <1>1, <1>2, <1>3 DEF Assess

\* Every step keeps the types.
LEMMA TrailTypeStep == TypeOK /\ IdsAreChanges /\ [Next]_vars => TypeOK' /\ IdsAreChanges'
<1> SUFFICES ASSUME TypeOK, IdsAreChanges, [Next]_vars PROVE TypeOK' /\ IdsAreChanges'
  OBVIOUS
<1> USE TrailAssumptions
<1>1. ASSUME NEW i \in Items, NEW a \in Acceptances \cup {Unlinked}, Record(i, a)
      PROVE  TypeOK' /\ IdsAreChanges'
  BY <1>1 DEF Record, TypeOK, IdsAreChanges
<1>2. ASSUME NEW i \in Items, NEW a \in Acceptances, Link(i, a)
      PROVE  TypeOK' /\ IdsAreChanges'
  BY <1>2 DEF Link, TypeOK, IdsAreChanges
<1>3. CASE ChangeWorld
  BY <1>3, WorldStep DEF TypeOK, IdsAreChanges
<1>4. ASSUME NEW x \in Inputs, Assess(x) PROVE TypeOK' /\ IdsAreChanges'
  <2>1. Len(trail') <= MaxAssessments /\ Len(trail) \in Nat
    BY <1>4, AssessStep DEF Assess, TypeOK
  <2>2. bound' \in 0..Len(trail')
    BY <1>4, <2>1, AssessStep DEF TypeOK
  <2> QED BY <1>4, <2>1, <2>2, AssessStep DEF TypeOK, IdsAreChanges
<1>5. ASSUME NEW n \in DOMAIN trail, Route(n) PROVE TypeOK' /\ IdsAreChanges'
  BY <1>5 DEF Route, TypeOK, IdsAreChanges
<1>6. ASSUME NEW n \in DOMAIN trail, Audit(n) PROVE TypeOK' /\ IdsAreChanges'
  BY <1>6 DEF Audit, TypeOK, IdsAreChanges
<1>7. ASSUME NEW n \in DOMAIN trail, Bind(n) PROVE TypeOK' /\ IdsAreChanges'
  BY <1>7 DEF Bind, TypeOK, IdsAreChanges
<1>8. CASE Expire
  BY <1>8 DEF Expire, TypeOK, IdsAreChanges
<1>9. CASE UNCHANGED vars
  BY <1>9 DEF vars, TypeOK, IdsAreChanges
<1> QED BY <1>1, <1>2, <1>3, <1>4, <1>5, <1>6, <1>7, <1>8, <1>9 DEF Next

\* The state is well typed in every reachable state.
THEOREM TrailTypeCorrect == Spec => []TypeOK
  BY TrailInit, TrailTypeStep, PTL DEF Spec
-----------------------------------------------------------------------------
(* What is stored is what the engine made, and is never changed.           *)

\* Every step but an assessment leaves the trail, and every step but a change the world.
LEMMA TrailKept ==
  ASSUME [Next]_vars, ~(\E x \in Inputs : Assess(x))
  PROVE  trail' = trail /\ (ChangeWorld \/ world' = world)
BY DEF Next, Record, Link, ChangeWorld, Change, Route, Audit, Bind, Expire, vars

\* Every step keeps the trail as the engine made it.
LEMMA MadeStep == TypeOK /\ IdsAreChanges /\ Made /\ [Next]_vars => Made'
<1> SUFFICES ASSUME TypeOK, IdsAreChanges, Made, [Next]_vars PROVE Made'
  OBVIOUS
<1>0. world.id \in Nat
  BY DEF TypeOK, Worlds
<1>1. ASSUME NEW x \in Inputs, Assess(x) PROVE Made'
  <2>1. /\ x \in InputType /\ x.id = world.id /\ x.packet = world.packet /\ world' = world
        /\ trail \in Seq(AssessmentType) /\ trail' \in Seq(AssessmentType)
        /\ Len(trail') = Len(trail) + 1
        /\ \A n \in DOMAIN trail : trail'[n] = trail[n]
        /\ trail'[Len(trail) + 1] = Assessment(x)
    BY <1>1, AssessStep DEF TypeOK
  <2>2. Assessment(x).input = x
    BY <2>1, AssessmentTyped
  <2>3. \A n \in DOMAIN trail' : n \in DOMAIN trail \/ n = Len(trail) + 1
    BY <2>1
  <2>4. \A n \in DOMAIN trail' :
          /\ trail'[n].input \in InputType /\ trail'[n] = Assessment(trail'[n].input)
          /\ trail'[n].input.id <= world.id
          /\ trail'[n].input.id = world.id => trail'[n].input.packet = world.packet
    BY <1>0, <2>1, <2>2, <2>3 DEF Made
  <2>5. \A m, n \in DOMAIN trail' : trail'[m].input.id = trail'[n].input.id
                                      => trail'[m].input.packet = trail'[n].input.packet
    <3> TAKE m, n \in DOMAIN trail'
    <3>1. CASE m \in DOMAIN trail /\ n \in DOMAIN trail
      BY <2>1, <3>1 DEF Made
    <3>2. CASE m = Len(trail) + 1
      BY <2>1, <2>2, <2>4, <3>2
    <3>3. CASE n = Len(trail) + 1
      BY <2>1, <2>2, <2>4, <3>3
    <3> QED BY <2>3, <3>1, <3>2, <3>3
  <2> QED BY <2>1, <2>4, <2>5 DEF Made
<1>2. CASE ~(\E x \in Inputs : Assess(x)) /\ ChangeWorld
  <2>1. trail' = trail /\ world' \in Worlds /\ world'.id >= world.id
        /\ (world'.id = world.id => world'.packet = world.packet)
    BY <1>2, WorldStep, TrailKept
  <2>2. world'.id \in Nat /\ \A n \in DOMAIN trail : trail[n].input.id \in Nat
    BY <2>1 DEF Worlds, Made, InputType
  <2>3. \A n \in DOMAIN trail :
          /\ trail[n].input.id <= world'.id
          /\ trail[n].input.id = world'.id => trail[n].input.packet = world'.packet
    BY <1>0, <2>1, <2>2 DEF Made
  <2> QED BY <2>1, <2>3 DEF Made
<1>3. CASE ~(\E x \in Inputs : Assess(x)) /\ world' = world
  BY <1>3, TrailKept DEF Made
<1> QED BY <1>1, <1>2, <1>3, TrailKept

\* Every step keeps the audit packets classed by their assessments.
LEMMA ClassedStep == TypeOK /\ Classed /\ [Next]_vars => Classed'
<1> SUFFICES ASSUME TypeOK, Classed, [Next]_vars PROVE Classed'
  OBVIOUS
<1>1. ASSUME NEW x \in Inputs, Assess(x) PROVE Classed'
  <2>1. packets' = packets /\ \A n \in DOMAIN trail : trail'[n] = trail[n]
    BY <1>1, AssessStep
  <2> QED BY <2>1 DEF Classed, TypeOK
<1>2. ASSUME NEW n \in DOMAIN trail, Audit(n) PROVE Classed'
  BY <1>2 DEF Audit, Classed
<1>3. CASE packets' = packets /\ trail' = trail
  BY <1>3 DEF Classed
<1>4. \/ \E x \in Inputs : Assess(x)
      \/ \E n \in DOMAIN trail : Audit(n)
      \/ packets' = packets /\ trail' = trail
  BY DEF Next, Record, Link, ChangeWorld, Change, Route, Bind, Expire, vars
<1> QED BY <1>1, <1>2, <1>3, <1>4
-----------------------------------------------------------------------------
(* The theorems.                                                           *)

\* The causal trace misses no cause.
THEOREM TraceNamesCausesCorrect == Spec => []TraceNamesCauses
<1>1. Made => TraceNamesCauses
  <2> SUFFICES ASSUME Made, NEW n \in DOMAIN trail, NEW s \in Checks,
                      Consistent(trail[n].input), s \notin trail[n].steps
               PROVE  EngineVerdict(Repaired(trail[n].input, {s})) = trail[n].verdict
    BY DEF TraceNamesCauses
  <2>1. trail[n].input \in InputType /\ trail[n] = Assessment(trail[n].input)
    BY DEF Made
  <2>2. /\ trail[n].steps = TraceSteps(trail[n].input)
        /\ trail[n].verdict = EngineVerdict(trail[n].input)
    BY <2>1 DEF Assessment
  <2> QED BY <2>1, <2>2, NoStepNoCause
<1> QED BY <1>1, TrailInit, TrailTypeStep, MadeStep, PTL DEF Spec

\* Following the counterfactuals of a pass leaves what its obligations ask for.
THEOREM AdviceSufficesCorrect == Spec => []AdviceSuffices
<1>1. Made => AdviceSuffices
  <2> SUFFICES ASSUME Made, NEW n \in DOMAIN trail,
                      trail[n].input.packet.decision = "pass", Consistent(trail[n].input)
               PROVE  EngineVerdict(Repaired(trail[n].input, trail[n].advice))
                        = PassVerdict(trail[n].input.obligation, 100)
    BY DEF AdviceSuffices
  <2>1. trail[n].input \in InputType /\ trail[n] = Assessment(trail[n].input)
    BY DEF Made
  <2>2. trail[n].advice = Advice(trail[n].input)
    BY <2>1 DEF Assessment
  <2> QED BY <2>1, <2>2, AdviceLeavesObligations
<1> QED BY <1>1, TrailInit, TrailTypeStep, MadeStep, PTL DEF Spec

\* Counting items and covering acceptances part only over double or stray items.
THEOREM MiscountHasCauseCorrect == Spec => []MiscountHasCause
<1>1. Made => MiscountHasCause
  <2> SUFFICES ASSUME Made, NEW n \in DOMAIN trail, NEW x, x = trail[n].input,
                      trail[n].verdict #
                        ResolveVerdict(x.packet, x.fresh # "no", x.obligation, x.required,
                                       x.missing, CoveredStrength(x.acceptances, x.collected),
                                       x.packet.override, FALSE)
               PROVE  /\ x.packet.decision = "pass"
                      /\ \/ \E c, d \in x.collected : c # d /\ c[2] = d[2]
                         \/ \E c \in x.collected : c[2] \notin x.acceptances
    BY DEF MiscountHasCause
  <2>1. x \in InputType /\ trail[n] = Assessment(x)
    BY DEF Made
  <2>2. trail[n].verdict = EngineVerdict(x)
    BY <2>1 DEF Assessment
  <2> QED BY <2>1, <2>2, MiscountCause
<1> QED BY <1>1, TrailInit, TrailTypeStep, MadeStep, PTL DEF Spec

\* The two retention classes of a verdict agree but where they are said to differ.
THEOREM RetentionAgreesCorrect == Spec => []RetentionAgrees
<1>1. TypeOK /\ Classed => RetentionAgrees
  <2> SUFFICES ASSUME TypeOK, Classed, NEW p \in packets,
                      NEW x, x = trail[p.of].input, NEW verdict, verdict = trail[p.of].verdict
               PROVE  /\ KeptDays(p.class) <= KeptDays(GateClass(verdict))
                      /\ KeptDays(p.class) < KeptDays(GateClass(verdict)) =>
                           /\ verdict # "deny"
                           /\ x.packet.sensitive \/ verdict \in {"revise", "stale_blocked"}
    BY DEF RetentionAgrees
  <2>1. p.class = PacketClass(x, verdict)
    BY DEF Classed
  <2>2. trail[p.of] \in AssessmentType
    BY DEF TypeOK
  <2>3. verdict \in Verdicts
    BY <2>2 DEF AssessmentType
  <2> QED BY <2>1, <2>3 DEF PacketClass, GateClass, KeptDays, Verdicts
<1> QED BY <1>1, TrailInit, TrailTypeStep, ClassedStep, PTL DEF Spec

\* An approval outlives a verdict only over what its hash leaves out.
THEOREM ApprovalOutlivesOnlyUnhashedCorrect == Spec => []ApprovalOutlivesOnlyUnhashed
<1>1. TypeOK /\ Made => ApprovalOutlivesOnlyUnhashed
  <2> SUFFICES ASSUME TypeOK, Made, NEW n \in DOMAIN trail, IsCurrent(n),
                      trail[n].verdict # trail[bound].verdict,
                      NEW now, now = trail[n].input, NEW then, then = trail[bound].input
               PROVE  \/ /\ now.packet.decision = "pass"
                         /\ now.obligation # then.obligation \/ now.collected # then.collected
                      \/ now.packet.decision = "warn" /\ now.required # then.required
    BY DEF ApprovalOutlivesOnlyUnhashed
  <2>1. bound \in DOMAIN trail
    BY DEF IsCurrent, TypeOK
  <2>2. /\ now \in InputType /\ trail[n] = Assessment(now)
        /\ then \in InputType /\ trail[bound] = Assessment(then)
    BY <2>1 DEF Made
  <2>3. /\ trail[n].verdict = EngineVerdict(now) /\ trail[n].hash = ContextHash(now)
        /\ trail[bound].verdict = EngineVerdict(then) /\ trail[bound].hash = ContextHash(then)
    BY <2>2 DEF Assessment
  <2>4. now.id = then.id /\ now.fresh = then.fresh /\ now.missing = then.missing
    <3>1. ContextHash(now) = ContextHash(then)
      BY <2>3 DEF IsCurrent
    <3>2. /\ ContextHash(now).decision_id = now.id /\ ContextHash(then).decision_id = then.id
          /\ ContextHash(now).fresh = now.fresh /\ ContextHash(then).fresh = then.fresh
          /\ ContextHash(now).missing = now.missing /\ ContextHash(then).missing = then.missing
      BY DEF ContextHash
    <3> QED BY <3>1, <3>2
  <2>5. now.packet = then.packet /\ now.acceptances = then.acceptances
    BY <2>1, <2>2, <2>4 DEF Made, InputType
  <2>6. now.packet.decision \in Decisions
    BY <2>2 DEF InputType
  <2>7. EngineVerdict(now) # EngineVerdict(then)
    BY <2>3
  <2>8. CASE now.packet.decision = "pass"
    BY <2>4, <2>5, <2>7, <2>8 DEF EngineVerdict, ResolveVerdict, PassVerdict
  <2>9. CASE now.packet.decision = "warn"
    BY <2>4, <2>5, <2>7, <2>9 DEF EngineVerdict, ResolveVerdict, WarnVerdict
  <2>10. CASE now.packet.decision \in {"hold", "block"}
    BY <2>4, <2>5, <2>7, <2>10 DEF EngineVerdict, ResolveVerdict, HoldVerdict
  <2> QED BY <2>6, <2>8, <2>9, <2>10 DEF Decisions
<1> QED BY <1>1, TrailInit, TrailTypeStep, MadeStep, PTL DEF Spec
=============================================================================
