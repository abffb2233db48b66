----------------------- MODULE MCHumanAttentionQueue -----------------------
(* A small instance of HumanAttentionQueue for TLC: the default chains of  *)
(* types.py, and its default deadlines in their order.                     *)
EXTENDS HumanAttentionQueue, TLC

MCAck == [s \in Severities |->
  CASE s = "critical" -> 1 [] s = "high" -> 1 [] s = "medium" -> 2 [] s = "low" -> 0]

MCDecide == [s \in Severities |->
  CASE s = "critical" -> 2 [] s = "high" -> 3 [] s = "medium" -> 3 [] s = "low" -> 0]

MCChain == [s \in Severities |->
  CASE s = "critical" -> <<"project_lead", "governance_board">>
    [] s = "high"     -> <<"project_lead">>
    [] s = "medium"   -> <<"owner">>
    [] s = "low"      -> <<>>]

\* A chain long enough for a level between the first and the board.
LongChain == [MCChain EXCEPT !["high"] = <<"owner", "project_lead">>]

Interchangeable == Permutations(Items) \cup Permutations(Reviewers)
=============================================================================
