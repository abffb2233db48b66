-------------------------- MODULE ConflictResolver --------------------------
(***************************************************************************)
(* One call of resolve_assessments (core/conflict_resolver.py): the        *)
(* assessments of a task and run are folded from the left, each against    *)
(* the winner so far, and the call ends with a winner or with nothing      *)
(* because a person has to decide.                                         *)
(*                                                                         *)
(* The caller's list is revealed as the loop reads it.  An assessment is   *)
(* what detect_conflict compares of it.  A score is a function of the      *)
(* verdict, so equal verdicts never drift: that branch is left out.  So    *)
(* are the resolver's records, which no step reads.                        *)
(***************************************************************************)
EXTENDS Verdicts, Sequences

CONSTANTS Subjects,   \* task and run
          Diffs,      \* diff_hash
          MaxLen      \* bound: the longest list

ASSUME ResolverAssumptions == MaxLen \in Nat

Assessments == [subject : Subjects, verdict : Verdicts, fresh : BOOLEAN, diff : Diffs]
NoAssessment == [subject |-> "none", verdict |-> "none", fresh |-> FALSE, diff |-> "none"]

VARIABLES read,      \* the assessments of the list read so far
          winner,    \* current_winner
          outcome

vars == <<read, winner, outcome>>

Init == read = <<>> /\ winner = NoAssessment /\ outcome = "called"
-----------------------------------------------------------------------------
\* Mutant: staleness is compared before the verdicts.
Conflict_StaleFirst(a, b) ==
  IF a.subject # b.subject      THEN "none"
  ELSE IF a.fresh # b.fresh     THEN "stale_vs_fresh"
  ELSE IF a.verdict # b.verdict THEN "verdict_mismatch"
  ELSE IF a.diff # b.diff       THEN "diff_hash_changed"
  ELSE "none"

\* Mutant: a stale assessment of another diff is not told from a fresh one.
Conflict_DiffFirst(a, b) ==
  IF a.subject # b.subject      THEN "none"
  ELSE IF a.verdict # b.verdict THEN "verdict_mismatch"
  ELSE IF a.diff # b.diff       THEN "diff_hash_changed"
  ELSE IF a.fresh # b.fresh     THEN "stale_vs_fresh"
  ELSE "none"

\* Mutant: stale assessments are not asked for their diff.
Conflict_FreshDiffs(a, b) ==
  IF a.subject # b.subject           THEN "none"
  ELSE IF a.verdict # b.verdict      THEN "verdict_mismatch"
  ELSE IF a.fresh # b.fresh          THEN "stale_vs_fresh"
  ELSE IF a.fresh /\ a.diff # b.diff THEN "diff_hash_changed"
  ELSE "none"

Conflict(a, b) ==
  IF a.subject # b.subject      THEN "none"
  ELSE IF a.verdict # b.verdict THEN "verdict_mismatch"
  ELSE IF a.fresh # b.fresh     THEN "stale_vs_fresh"
  ELSE IF a.diff # b.diff       THEN "diff_hash_changed"
  ELSE "none"

ByPriority(a, b) == IF AtLeast(a.verdict, b.verdict) THEN a ELSE b

ByFreshness(a, b) == IF a.fresh THEN a ELSE b

\* The winner of two assessments that need nobody to decide between them.
Resolved(a, b) ==
  IF Conflict(a, b) = "verdict_mismatch"    THEN ByPriority(a, b)
  ELSE IF Conflict(a, b) = "stale_vs_fresh" THEN ByFreshness(a, b)
  ELSE a
-----------------------------------------------------------------------------
ReturnNothing == /\ outcome = "called"
                 /\ outcome' = "nothing"
                 /\ UNCHANGED <<read, winner>>

\* Mutant: the loop starts without a winner.
Begin_NoWinner(a) == /\ outcome = "called" /\ MaxLen > 0
                     /\ read' = <<a>> /\ winner' = NoAssessment /\ outcome' = "running"

Begin(a) == /\ outcome = "called" /\ MaxLen > 0
            /\ read' = <<a>> /\ winner' = a /\ outcome' = "running"

Escalate(b) == /\ outcome = "running" /\ Len(read) < MaxLen
               /\ Conflict(winner, b) = "diff_hash_changed"
               /\ read' = Append(read, b) /\ outcome' = "escalated"
               /\ UNCHANGED winner

Settle(b) == /\ outcome = "running" /\ Len(read) < MaxLen
             /\ Conflict(winner, b) # "diff_hash_changed"
             /\ read' = Append(read, b) /\ winner' = Resolved(winner, b)
             /\ UNCHANGED outcome

ReturnWinner == /\ outcome = "running"
                /\ outcome' = "won"
                /\ UNCHANGED <<read, winner>>

Next == \/ ReturnNothing
        \/ \E a \in Assessments : Begin(a) \/ Escalate(a) \/ Settle(a)
        \/ ReturnWinner

Spec == Init /\ [][Next]_vars
-----------------------------------------------------------------------------
\* The state is well typed, and a loop that runs has a winner.
TypeOK == /\ read \in Seq(Assessments) /\ Len(read) <= MaxLen
          /\ outcome \in {"called", "nothing", "running", "escalated", "won"}
          /\ winner \in Assessments \cup {NoAssessment}
          /\ outcome \in {"running", "won"} => winner \in Assessments

Outranks(a, b) ==
  \/ Priority(a.verdict) > Priority(b.verdict)
  \/ a.verdict = b.verdict /\ a.fresh /\ ~b.fresh

Agree(a, b) == a.subject = b.subject /\ a.verdict = b.verdict /\ a.fresh = b.fresh

\* In whatever order the list has them, the winner is the first of the strictest: no
\* assessment of the same subject has a stricter verdict or, with the same verdict, is
\* fresh while it is stale, and it outranks each one before it.
WinnerIsStrictest ==
  outcome \in {"running", "won"} =>
    \E k \in 1..Len(read) :
      /\ winner = read[k] /\ winner.subject = read[1].subject
      /\ \A j \in 1..Len(read) :
           read[j].subject = winner.subject =>
             /\ ~Outranks(read[j], winner)
             /\ j < k => Outranks(winner, read[j])

\* A winner never stands for two diffs: whatever was read that agrees with it, at any
\* place of the list, is about the same diff.
NoHiddenDiff ==
  outcome \in {"running", "won"} =>
    \A j \in 1..Len(read) : Agree(read[j], winner) => read[j].diff = winner.diff

\* A person is asked only over a genuine tie: the last two contenders agree on verdict
\* and freshness, differ in their diff, and nothing read outranks them.
EscalationIsReal ==
  outcome = "escalated" =>
    \E k \in 1..Len(read) :
      /\ Agree(read[k], read[Len(read)]) /\ read[k].diff # read[Len(read)].diff
      /\ \A j \in 1..Len(read) :
           read[j].subject = read[k].subject => ~Outranks(read[j], read[k])
=============================================================================
