----------------------- MODULE ConflictResolver_proofs -----------------------
(***************************************************************************)
(* The fold of resolve_assessments is right for lists of any length and    *)
(* any sets of subjects and diffs.                                         *)
(***************************************************************************)
EXTENDS ConflictResolver, TLAPS

\* Priorities are numbers that tell verdicts apart.
LEMMA PriorityIsOrder ==
  /\ \A v \in Verdicts : Priority(v) \in 1..6
  /\ \A v, w \in Verdicts : Priority(v) = Priority(w) => v = w
  BY DEF Verdicts, Priority

\* An assessment that outranks another outranks whatever does not outrank the other.
LEMMA OutranksCarries ==
  ASSUME NEW a \in Assessments, NEW b \in Assessments, NEW c \in Assessments,
         Outranks(a, b), ~Outranks(c, b)
  PROVE  Outranks(a, c) /\ ~Outranks(c, a)
  BY PriorityIsOrder DEF Outranks, Assessments

\* Nothing outranks itself or what agrees with it, and nobody is outranked both ways.
LEMMA OutranksIsStrict ==
  ASSUME NEW a \in Assessments, NEW b \in Assessments
  PROVE  /\ ~Outranks(a, a)
         /\ Outranks(a, b) => ~Outranks(b, a) /\ ~Agree(a, b)
         /\ Agree(a, b) => ~Outranks(b, a)
  BY PriorityIsOrder DEF Outranks, Agree, Assessments

\* What a comparison without escalation makes of two assessments.
LEMMA ResolvedCases ==
  ASSUME NEW a \in Assessments, NEW b \in Assessments,
         Conflict(a, b) # "diff_hash_changed"
  PROVE  \/ a.subject # b.subject /\ Resolved(a, b) = a
         \/ a.subject = b.subject /\ Outranks(b, a) /\ Resolved(a, b) = b
         \/ a.subject = b.subject /\ Outranks(a, b) /\ Resolved(a, b) = a
         \/ Agree(a, b) /\ a.diff = b.diff /\ Resolved(a, b) = a
  <1>0. a.verdict \in Verdicts /\ b.verdict \in Verdicts
    BY DEF Assessments
  <1>f. a.fresh \in BOOLEAN /\ b.fresh \in BOOLEAN
    BY DEF Assessments
  <1>1. CASE a.subject # b.subject
    BY <1>1 DEF Resolved, Conflict
  <1>2. CASE a.subject = b.subject /\ a.verdict # b.verdict
    <2>1. Resolved(a, b) = ByPriority(a, b)
      BY <1>2 DEF Resolved, Conflict
    <2>2. Priority(a.verdict) > Priority(b.verdict) \/ Priority(b.verdict) > Priority(a.verdict)
      BY <1>0, <1>2, PriorityIsOrder
    <2>3. QED
      BY <1>0, <1>2, <2>1, <2>2, PriorityIsOrder DEF ByPriority, AtLeast, Outranks
  <1>3. CASE a.subject = b.subject /\ a.verdict = b.verdict /\ a.fresh # b.fresh
    <2>1. Resolved(a, b) = ByFreshness(a, b)
      BY <1>3 DEF Resolved, Conflict
    <2>2. CASE a.fresh
      BY <1>3, <1>f, <2>1, <2>2 DEF ByFreshness, Outranks
    <2>3. CASE ~a.fresh
      BY <1>3, <1>f, <2>1, <2>3 DEF ByFreshness, Outranks
    <2>4. QED
      BY <2>2, <2>3
  <1>4. CASE a.subject = b.subject /\ a.verdict = b.verdict /\ a.fresh = b.fresh
    <2>1. a.diff = b.diff
      BY <1>4 DEF Conflict
    <2>2. Resolved(a, b) = a
      BY <1>4, <2>1 DEF Resolved, Conflict
    <2>3. QED
      BY <1>4, <2>1, <2>2 DEF Agree
  <1>5. QED
    BY <1>1, <1>2, <1>3, <1>4
-----------------------------------------------------------------------------
ResolverInv == TypeOK /\ WinnerIsStrictest /\ NoHiddenDiff /\ EscalationIsReal

LEMMA InitEstablishes == Init => ResolverInv
  BY ResolverAssumptions
  DEF Init, ResolverInv, TypeOK, WinnerIsStrictest, NoHiddenDiff, EscalationIsReal

LEMMA BeginPreserves ==
  ASSUME ResolverInv, NEW a \in Assessments, Begin(a)
  PROVE  ResolverInv'
  <1>1. read' = <<a>> /\ winner' = a /\ outcome' = "running" /\ MaxLen > 0
    BY DEF Begin
  <1>2. Len(read') = 1 /\ read'[1] = a /\ read' \in Seq(Assessments)
    BY <1>1
  <1>3. TypeOK'
    BY <1>1, <1>2, ResolverAssumptions DEF TypeOK
  <1>4. WinnerIsStrictest'
    BY <1>1, <1>2, OutranksIsStrict DEF WinnerIsStrictest
  <1>5. NoHiddenDiff' /\ EscalationIsReal'
    BY <1>1, <1>2 DEF NoHiddenDiff, EscalationIsReal
  <1>6. QED
    BY <1>3, <1>4, <1>5 DEF ResolverInv

\* What reading one more assessment does to the list.
LEMMA ReadOneMore ==
  ASSUME TypeOK, NEW b \in Assessments, Len(read) < MaxLen, read' = Append(read, b)
  PROVE  /\ read' \in Seq(Assessments)
         /\ Len(read) \in Nat
         /\ Len(read') = Len(read) + 1 /\ Len(read') <= MaxLen
         /\ read'[Len(read) + 1] = b
         /\ \A j \in 1..Len(read) : read'[j] = read[j] /\ read[j] \in Assessments
         /\ \A j \in 1..Len(read') : j \in 1..Len(read) \/ j = Len(read) + 1
  BY ResolverAssumptions DEF TypeOK

LEMMA EscalatePreserves ==
  ASSUME ResolverInv, NEW b \in Assessments, Escalate(b)
  PROVE  ResolverInv'
  <1>1. /\ outcome = "running" /\ outcome' = "escalated" /\ winner' = winner
        /\ Len(read) < MaxLen /\ read' = Append(read, b)
        /\ Conflict(winner, b) = "diff_hash_changed" /\ winner \in Assessments
    BY DEF Escalate, ResolverInv, TypeOK
  <1>2. /\ read' \in Seq(Assessments) /\ Len(read) \in Nat
        /\ Len(read') = Len(read) + 1 /\ Len(read') <= MaxLen
        /\ read'[Len(read) + 1] = b
        /\ \A j \in 1..Len(read) : read'[j] = read[j] /\ read[j] \in Assessments
        /\ \A j \in 1..Len(read') : j \in 1..Len(read) \/ j = Len(read) + 1
    BY <1>1, ReadOneMore DEF ResolverInv
  <1>3. TypeOK'
    BY <1>1, <1>2 DEF TypeOK
  <1>4. WinnerIsStrictest' /\ NoHiddenDiff'
    BY <1>1 DEF WinnerIsStrictest, NoHiddenDiff
  <1>5. Agree(winner, b) /\ winner.diff # b.diff
    BY <1>1 DEF Conflict, Agree
  <1>6. PICK k \in 1..Len(read) :
          /\ winner = read[k]
          /\ \A j \in 1..Len(read) :
               read[j].subject = winner.subject => ~Outranks(read[j], winner)
    BY <1>1 DEF ResolverInv, WinnerIsStrictest
  <1>7. ~Outranks(b, winner)
    BY <1>1, <1>5, OutranksIsStrict
  <1>8. \A j \in 1..Len(read') :
          read'[j].subject = winner.subject => ~Outranks(read'[j], winner)
    BY <1>2, <1>6, <1>7
  <1>9. k \in 1..Len(read') /\ read'[k] = winner /\ read'[Len(read')] = b
    BY <1>2, <1>6
  <1>10. EscalationIsReal'
    BY <1>5, <1>8, <1>9 DEF EscalationIsReal
  <1>11. QED
    BY <1>3, <1>4, <1>10 DEF ResolverInv

LEMMA SettlePreserves ==
  ASSUME ResolverInv, NEW b \in Assessments, Settle(b)
  PROVE  ResolverInv'
  <1>1. /\ outcome = "running" /\ outcome' = "running"
        /\ winner' = Resolved(winner, b) /\ Len(read) < MaxLen /\ read' = Append(read, b)
        /\ Conflict(winner, b) # "diff_hash_changed" /\ winner \in Assessments
    BY DEF Settle, ResolverInv, TypeOK
  <1>2. /\ read' \in Seq(Assessments) /\ Len(read) \in Nat
        /\ Len(read') = Len(read) + 1 /\ Len(read') <= MaxLen
        /\ read'[Len(read) + 1] = b
        /\ \A j \in 1..Len(read) : read'[j] = read[j] /\ read[j] \in Assessments
        /\ \A j \in 1..Len(read') : j \in 1..Len(read) \/ j = Len(read) + 1
    BY <1>1, ReadOneMore DEF ResolverInv
  <1>3. PICK k \in 1..Len(read) :
          /\ winner = read[k] /\ winner.subject = read[1].subject
          /\ \A j \in 1..Len(read) :
               read[j].subject = winner.subject =>
                 /\ ~Outranks(read[j], winner)
                 /\ j < k => Outranks(winner, read[j])
    BY <1>1 DEF ResolverInv, WinnerIsStrictest
  <1>4. \A j \in 1..Len(read) : Agree(read[j], winner) => read[j].diff = winner.diff
    BY <1>1 DEF ResolverInv, NoHiddenDiff
  <1>5. read'[1] = read[1]
    BY <1>2, <1>3
  <1>6. winner' \in Assessments
    BY <1>1, ResolvedCases
  <1>7. TypeOK'
    BY <1>1, <1>2, <1>6 DEF TypeOK
  <1>8. EscalationIsReal'
    BY <1>1 DEF EscalationIsReal
  <1>9. CASE winner.subject = b.subject /\ Outranks(b, winner) /\ winner' = b
    <2>1. \A j \in 1..Len(read) :
            read[j].subject = b.subject => Outranks(b, read[j]) /\ ~Outranks(read[j], b)
      BY <1>1, <1>2, <1>3, <1>9, OutranksCarries
    <2>2. WinnerIsStrictest'
      <3>1. Len(read) + 1 \in 1..Len(read') /\ winner' = read'[Len(read) + 1]
        BY <1>2, <1>9
      <3>2. winner'.subject = read'[1].subject
        BY <1>3, <1>5, <1>9
      <3>3. \A j \in 1..Len(read') :
              read'[j].subject = winner'.subject =>
                /\ ~Outranks(read'[j], winner')
                /\ j < Len(read) + 1 => Outranks(winner', read'[j])
        BY <1>2, <1>9, <2>1, OutranksIsStrict
      <3>4. QED
        BY <3>1, <3>2, <3>3 DEF WinnerIsStrictest
    <2>3. \A j \in 1..Len(read) : ~Agree(read[j], b)
      <3>1. SUFFICES ASSUME NEW j \in 1..Len(read), Agree(read[j], b) PROVE FALSE
        OBVIOUS
      <3>2. Outranks(b, read[j])
        BY <2>1, <3>1 DEF Agree
      <3>3. ~Agree(b, read[j])
        BY <1>2, <3>2, OutranksIsStrict
      <3>4. QED
        BY <3>1, <3>3 DEF Agree
    <2>4. NoHiddenDiff'
      BY <1>2, <1>9, <2>3 DEF NoHiddenDiff
    <2>5. QED
      BY <1>7, <1>8, <2>2, <2>4 DEF ResolverInv
  <1>10. CASE /\ winner' = winner
              /\ b.subject = winner.subject => ~Outranks(b, winner)
              /\ Agree(b, winner) => b.diff = winner.diff
    <2>1. WinnerIsStrictest'
      <3>1. k \in 1..Len(read') /\ winner' = read'[k] /\ winner'.subject = read'[1].subject
        BY <1>2, <1>3, <1>5, <1>10
      <3>2. \A j \in 1..Len(read') :
              read'[j].subject = winner'.subject =>
                /\ ~Outranks(read'[j], winner')
                /\ j < k => Outranks(winner', read'[j])
        BY <1>2, <1>3, <1>10
      <3>3. QED
        BY <3>1, <3>2 DEF WinnerIsStrictest
    <2>2. NoHiddenDiff'
      BY <1>2, <1>4, <1>10 DEF NoHiddenDiff
    <2>3. QED
      BY <1>7, <1>8, <2>1, <2>2 DEF ResolverInv
  <1>11. \/ winner.subject # b.subject /\ winner' = winner
         \/ winner.subject = b.subject /\ Outranks(b, winner) /\ winner' = b
         \/ winner.subject = b.subject /\ Outranks(winner, b) /\ winner' = winner
         \/ Agree(winner, b) /\ winner.diff = b.diff /\ winner' = winner
    BY <1>1, ResolvedCases
  <1>12. CASE winner.subject # b.subject /\ winner' = winner
    BY <1>10, <1>12 DEF Agree
  <1>13. CASE winner.subject = b.subject /\ Outranks(winner, b) /\ winner' = winner
    <2>1. ~Outranks(b, winner) /\ ~Agree(b, winner)
      BY <1>1, <1>13, OutranksIsStrict DEF Agree
    <2>2. QED
      BY <1>10, <1>13, <2>1
  <1>14. CASE Agree(winner, b) /\ winner.diff = b.diff /\ winner' = winner
    <2>1. ~Outranks(b, winner)
      BY <1>1, <1>14, OutranksIsStrict
    <2>2. QED
      BY <1>10, <1>14, <2>1
  <1>15. QED
    BY <1>9, <1>11, <1>12, <1>13, <1>14

\* Returning changes neither the list nor the winner.
LEMMA ReturnPreserves ==
  ASSUME ResolverInv, ReturnNothing \/ ReturnWinner \/ UNCHANGED vars
  PROVE  ResolverInv'
  <1>1. read' = read /\ winner' = winner
    BY DEF ReturnNothing, ReturnWinner, vars
  <1>2. \/ outcome' = "nothing"
        \/ outcome = "running" /\ outcome' = "won"
        \/ outcome' = outcome
    BY DEF ReturnNothing, ReturnWinner, vars
  <1>3. QED
    BY <1>1, <1>2
    DEF ResolverInv, TypeOK, WinnerIsStrictest, NoHiddenDiff, EscalationIsReal

LEMMA NextPreserves == ResolverInv /\ [Next]_vars => ResolverInv'
  <1>1. SUFFICES ASSUME ResolverInv, [Next]_vars PROVE ResolverInv'
    OBVIOUS
  <1>2. CASE ReturnNothing \/ ReturnWinner \/ UNCHANGED vars
    BY <1>1, <1>2, ReturnPreserves
  <1>3. ASSUME NEW a \in Assessments, Begin(a) \/ Escalate(a) \/ Settle(a)
        PROVE  ResolverInv'
    BY <1>1, <1>3, BeginPreserves, EscalatePreserves, SettlePreserves
  <1>4. QED
    BY <1>1, <1>2, <1>3 DEF Next
-----------------------------------------------------------------------------
LEMMA ResolverInvHolds == Spec => []ResolverInv
  BY InitEstablishes, NextPreserves, PTL DEF Spec

\* The state is well typed, and a loop that runs has a winner, for lists of any length.
THEOREM ResolverTypeCorrect == Spec => []TypeOK
  <1>1. ResolverInv => TypeOK
    BY DEF ResolverInv
  <1>2. QED
    BY <1>1, ResolverInvHolds, PTL

\* resolve_assessments returns the first of the strictest, whatever the list's order.
THEOREM WinnerIsStrictestHolds == Spec => []WinnerIsStrictest
  <1>1. ResolverInv => WinnerIsStrictest
    BY DEF ResolverInv
  <1>2. QED
    BY <1>1, ResolverInvHolds, PTL

\* The winner it returns agrees with no assessment of another diff.
THEOREM NoHiddenDiffHolds == Spec => []NoHiddenDiff
  <1>1. ResolverInv => NoHiddenDiff
    BY DEF ResolverInv
  <1>2. QED
    BY <1>1, ResolverInvHolds, PTL

\* It asks a person only over a tie that nothing read so far outranks.
THEOREM EscalationIsRealHolds == Spec => []EscalationIsReal
  <1>1. ResolverInv => EscalationIsReal
    BY DEF ResolverInv
  <1>2. QED
    BY <1>1, ResolverInvHolds, PTL
=============================================================================
