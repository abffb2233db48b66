--------------------------- MODULE AttentionQueue ---------------------------
(***************************************************************************)
(* What the persistent human-attention queue promises, without its         *)
(* transactions: an offered item is taken once, by one reviewer, and only  *)
(* that reviewer resolves it, once and for all.                            *)
(***************************************************************************)
CONSTANTS Items,     \* queue items; one stands for a pair of tenant and item_id
          Reviewers,
          NoOne

VARIABLES status, owner

Init == /\ status = [i \in Items |-> "absent"]
        /\ owner  = [i \in Items |-> NoOne]

Offer(i) ==
  /\ status[i] = "absent"
  /\ status' = [status EXCEPT ![i] = "pending"]
  /\ UNCHANGED owner

Take(i, r) ==
  /\ status[i] = "pending"
  /\ status' = [status EXCEPT ![i] = "taken"]
  /\ owner'  = [owner EXCEPT ![i] = r]

Resolve(i, r) ==
  /\ status[i] = "taken" /\ owner[i] = r
  /\ status' = [status EXCEPT ![i] = "resolved"]
  /\ UNCHANGED owner

Next == \E i \in Items :
  \/ Offer(i)
  \/ \E r \in Reviewers : Take(i, r) \/ Resolve(i, r)

Spec == Init /\ [][Next]_<<status, owner>>
=============================================================================
