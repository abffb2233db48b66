--------------------- MODULE HumanAttentionQueue_proofs ---------------------
(***************************************************************************)
(* Theorems about HumanAttentionQueue.  The inductive invariant says of    *)
(* every item whom it is with, and that a sweep finds it late only when    *)
(* it was taken as often as sweeps moved it up.                            *)
(***************************************************************************)
EXTENDS HumanAttentionQueue, TLAPS

FollowsChain(item) ==
  item.target = IF item.level = 0 THEN NoOne
                ELSE EscalationTarget(item.severity, item.level)

ItemInv(item) ==
  /\ item \in ItemType
  /\ FollowsChain(item)
  /\ item.status = "escalated" => item.level > 0

\* The statuses a sweep can move up.
Climbers == {"absent", "pending", "taken"}

CountInv(status, taken, climbed) ==
  climbed + (IF status \in Climbers THEN 1 ELSE 0) <= taken + 1

QueueInv ==
  /\ clock \in 0..MaxClock
  /\ queue = [i \in Items |-> queue[i]]
  /\ takes \in [Items -> Nat] /\ climbs \in [Items -> Nat]
  /\ \A i \in Items : ItemInv(queue[i])
  /\ \A i \in Items : CountInv(queue[i].status, takes[i], climbs[i])

\* Escalation chains name roles, and so does what follows them.
LEMMA TargetIsRole ==
  ASSUME NEW s \in Severities, NEW l \in Nat
  PROVE  EscalationTarget(s, l) \in Roles
<1>1. Chain[s] \in Seq(Roles) /\ GovernanceBoard \in Roles
  BY QueueAssumptions DEF QueueAssumptions
<1>2. CASE l >= Len(Chain[s])
  BY <1>1, <1>2 DEF EscalationTarget
<1>3. CASE ~(l >= Len(Chain[s]))
  <2>1. Len(Chain[s]) \in Nat /\ \A k \in 1..Len(Chain[s]) : Chain[s][k] \in Roles
    BY <1>1
  <2>2. l + 1 \in 1..Len(Chain[s])
    BY <1>3, <2>1
  <2> QED
    BY <1>3, <2>1, <2>2 DEF EscalationTarget
<1> QED
  BY <1>2, <1>3

\* An item that is escalated keeps the invariant and is one level higher.
LEMMA EscalatedKeeps ==
  ASSUME NEW item, ItemInv(item), item.level < MaxLevel, NEW why \in Reasons
  PROVE  /\ ItemInv(Escalated(item, why))
         /\ Escalated(item, why).status = "escalated"
         /\ Escalated(item, why).level = item.level + 1
<1>1. /\ item \in ItemType /\ item.level \in Nat /\ item.severity \in Severities
      /\ MaxLevel \in Nat
  BY QueueAssumptions DEF ItemInv, ItemType, QueueAssumptions
<1>2. PICK r \in Roles : r = EscalationTarget(item.severity, item.level + 1)
  BY <1>1, TargetIsRole
<1>3. PICK l \in 0..MaxLevel : l = item.level + 1
  BY <1>1
<1>4. PICK given \in Reasons :
        given = IF item.level + 1 >= Len(Chain[item.severity]) /\ why = ""
                THEN "max_escalation_reached" ELSE why
  BY DEF Reasons
<1> DEFINE new == [item EXCEPT !.status = "escalated", !.level = l, !.target = r,
                               !.reason = given]
<1>5. Escalated(item, why) = new
  BY <1>1, <1>2, <1>3, <1>4 DEF Escalated
<1>6. /\ new \in ItemType /\ new.status = "escalated" /\ new.level = l
      /\ new.target = r /\ new.severity = item.severity
  BY <1>1 DEF ItemType, Statuses
<1> HIDE DEF new
<1>7. FollowsChain(new)
  BY <1>1, <1>2, <1>3, <1>6 DEF FollowsChain
<1> QED
  BY <1>1, <1>3, <1>5, <1>6, <1>7 DEF ItemInv

\* An item past its chain's end is with the board, whatever brought it there.
LEMMA WithTheBoard ==
  ASSUME NEW item, ItemInv(item), NotifiesBoard(item)
  PROVE  item.target = GovernanceBoard
<1> QED
  BY DEF ItemInv, FollowsChain, NotifiesBoard, EscalationTarget, ItemType

\* A sweep is one of four things to an item, and no item is due twice.
LEMMA SweptCases ==
  ASSUME NEW item, ItemInv(item), Swept(item).level <= MaxLevel
  PROVE  /\ ItemInv(Swept(item))
         /\ Swept(item).level = item.level + (IF Escalates(item) THEN 1 ELSE 0)
         /\ ~AutoBlocks(Swept(item)) /\ ~Escalates(Swept(item))
         /\ Escalates(item) => /\ item.status \in {"pending", "taken"}
                              /\ Swept(item).status = "escalated"
         /\ ~Escalates(item) => Swept(item).status \in {item.status, "resolved"}
<1>1. item \in ItemType /\ item.level \in Nat /\ MaxLevel \in Nat
  BY QueueAssumptions DEF ItemInv, ItemType, QueueAssumptions
<1>2. CASE AutoBlocks(item)
  <2> DEFINE new == [item EXCEPT !.status = "resolved", !.decidedBy = "sla"]
  <2>1. /\ new \in ItemType /\ new.status = "resolved" /\ new.level = item.level
        /\ new.target = item.target /\ new.severity = item.severity
    BY <1>1 DEF ItemType, Statuses
  <2>2. Swept(item) = new /\ ~Escalates(item)
    BY <1>2 DEF Swept, AutoBlocks, Escalates
  <2> HIDE DEF new
  <2>3. ItemInv(new)
    BY <2>1 DEF ItemInv, FollowsChain
  <2>4. ~AutoBlocks(new) /\ ~Escalates(new)
    BY <2>1 DEF AutoBlocks, Escalates
  <2> QED
    BY <1>1, <2>1, <2>2, <2>3, <2>4
<1>3. CASE ~AutoBlocks(item) /\ Escalates(item)
  <2>1. Timeout(item) \in Reasons
    BY DEF Timeout, Reasons
  <2> DEFINE new == Escalated(item, Timeout(item))
  <2>2. Swept(item) = new /\ item.status \in {"pending", "taken"}
    BY <1>3 DEF Swept, Escalates
  <2>3. new.level = item.level + 1
    BY <1>1 DEF Escalated, ItemType
  <2>4. item.level < MaxLevel
    BY <1>1, <2>2, <2>3
  <2>5. ItemInv(new) /\ new.status = "escalated"
    BY <2>1, <2>4, EscalatedKeeps
  <2> HIDE DEF new
  <2>6. ~AutoBlocks(new) /\ ~Escalates(new)
    BY <2>5 DEF AutoBlocks, Escalates
  <2> QED
    BY <1>3, <2>2, <2>3, <2>5, <2>6
<1>4. CASE ~AutoBlocks(item) /\ ~Escalates(item) /\ NotifiesBoard(item)
  <2>0. item.target = GovernanceBoard
    BY <1>4, WithTheBoard
  <2> DEFINE new == [item EXCEPT !.target = GovernanceBoard,
                                 !.reason = "escalation_chain_exceeded"]
  <2>1. /\ new \in ItemType /\ new.status = item.status /\ new.level = item.level
        /\ new.target = item.target /\ new.severity = item.severity
    BY <1>1, <2>0 DEF ItemType, Reasons
  <2>2. Swept(item) = new /\ new.status = "escalated"
    BY <1>4, <2>1 DEF Swept, NotifiesBoard
  <2> HIDE DEF new
  <2>3. ItemInv(new)
    BY <2>1 DEF ItemInv, FollowsChain
  <2>4. ~AutoBlocks(new) /\ ~Escalates(new)
    BY <2>2 DEF AutoBlocks, Escalates
  <2> QED
    BY <1>1, <1>4, <2>1, <2>2, <2>3, <2>4
<1>5. CASE ~AutoBlocks(item) /\ ~Escalates(item) /\ ~NotifiesBoard(item)
  <2>1. Swept(item) = item
    BY <1>5 DEF Swept
  <2> QED
    BY <1>1, <1>5, <2>1
<1> QED
  BY <1>2, <1>3, <1>4, <1>5

\* The invariant holds initially.
LEMMA QueueInvInit == Init => QueueInv
<1> SUFFICES ASSUME Init PROVE QueueInv
  OBVIOUS
<1> DEFINE new == NewItem("absent", "low")
<1>0. clock \in Nat /\ queue = [i \in Items |-> new]
  BY DEF Init
<1>1. /\ new \in ItemType /\ new.status = "absent" /\ new.level = 0 /\ new.target = NoOne
  <2>1. 0 \in 0..MaxLevel /\ "" \in Reasons
    BY QueueAssumptions DEF QueueAssumptions, Reasons, GivenReasons
  <2> QED
    BY <1>0, <2>1 DEF NewItem, ItemType, Statuses, Severities
<1> HIDE DEF new
<1>3. ItemInv(new) /\ CountInv(new.status, 0, 0)
  BY <1>1 DEF ItemInv, FollowsChain, CountInv, Climbers
<1>4. takes = [i \in Items |-> 0] /\ climbs = [i \in Items |-> 0] /\ clock = 0
  BY DEF Init
<1> QED
  BY <1>0, <1>3, <1>4, QueueAssumptions DEF QueueInv, QueueAssumptions

\* A step of one item, to one with the invariant, keeps the invariant.
LEMMA OneItemKeeps ==
  ASSUME QueueInv, NEW i \in Items, NEW new, NEW n \in Nat,
         ItemInv(new), CountInv(new.status, n, climbs[i]),
         queue' = [queue EXCEPT ![i] = new], takes' = [takes EXCEPT ![i] = n],
         UNCHANGED <<clock, climbs>>
  PROVE  QueueInv'
<1>1. \A j \in Items : queue'[j] = IF j = i THEN new ELSE queue[j]
  BY DEF QueueInv
<1>2. /\ takes' \in [Items -> Nat]
      /\ \A j \in Items : takes'[j] = IF j = i THEN n ELSE takes[j]
  BY DEF QueueInv
<1>3. \A j \in Items : ItemInv(queue'[j])
  BY <1>1 DEF QueueInv
<1>4. \A j \in Items : CountInv(queue'[j].status, takes'[j], climbs'[j])
  BY <1>1, <1>2 DEF QueueInv
<1>5. queue' = [j \in Items |-> queue'[j]]
  BY DEF QueueInv
<1> QED
  BY <1>2, <1>3, <1>4, <1>5 DEF QueueInv

\* Every step keeps the invariant.
LEMMA QueueInvStep == QueueInv /\ [Next]_vars => QueueInv'
<1> SUFFICES ASSUME QueueInv, [Next]_vars PROVE QueueInv'
  OBVIOUS
<1>0. \A i \in Items :
        /\ ItemInv(queue[i]) /\ queue[i] \in ItemType
        /\ CountInv(queue[i].status, takes[i], climbs[i])
        /\ takes[i] \in Nat /\ climbs[i] \in Nat
        /\ [takes EXCEPT ![i] = takes[i]] = takes
  BY DEF QueueInv, ItemInv
<1>1. ASSUME NEW i \in Items, NEW s \in Severities, AddItem(i, s)
      PROVE  QueueInv'
  <2> DEFINE new == NewItem("pending", s)
  <2>1. /\ new \in ItemType /\ new.status = "pending" /\ new.level = 0
        /\ new.target = NoOne
    BY QueueAssumptions
    DEF QueueInv, NewItem, ItemType, Statuses, Reasons, GivenReasons, QueueAssumptions
  <2>2. /\ queue' = [queue EXCEPT ![i] = new] /\ UNCHANGED <<clock, takes, climbs>>
        /\ queue[i].status = "absent"
    BY <1>1 DEF AddItem, counts
  <2> HIDE DEF new
  <2>3. ItemInv(new) /\ CountInv(new.status, takes[i], climbs[i])
    BY <1>0, <2>1, <2>2 DEF ItemInv, FollowsChain, CountInv, Climbers
  <2> QED
    BY <1>0, <2>2, <2>3, OneItemKeeps
<1>2. ASSUME NEW i \in Items, NEW r \in Reviewers, TakeItem(i, r)
      PROVE  QueueInv'
  <2> DEFINE old == queue[i]
             new == [queue[i] EXCEPT !.status = "taken", !.owner = r]
  <2>1. /\ new \in ItemType /\ new.status = "taken"
        /\ new.level = old.level /\ new.target = old.target
        /\ new.severity = old.severity
    BY <1>0 DEF ItemType, Statuses
  <2>2. /\ queue' = [queue EXCEPT ![i] = new] /\ UNCHANGED <<clock, climbs>>
        /\ takes' = [takes EXCEPT ![i] = takes[i] + 1]
    BY <1>2 DEF TakeItem
  <2>3. ItemInv(old) /\ CountInv(old.status, takes[i], climbs[i])
    BY <1>0
  <2> HIDE DEF new, old
  <2>4. ItemInv(new)
    BY <2>1, <2>3 DEF ItemInv, FollowsChain
  <2>5. PICK n \in Nat : n = takes[i] + 1
    BY <1>0
  <2>6. CountInv(new.status, n, climbs[i])
    BY <1>0, <2>1, <2>3, <2>5 DEF CountInv, Climbers
  <2> QED
    BY <2>2, <2>4, <2>5, <2>6, OneItemKeeps
<1>3. ASSUME NEW i \in Items, ResolveItem(i)
      PROVE  QueueInv'
  <2> DEFINE old == queue[i]
             new == [queue[i] EXCEPT !.status = "resolved", !.decidedBy = "reviewer"]
  <2>1. /\ new \in ItemType /\ new.status = "resolved"
        /\ new.level = old.level /\ new.target = old.target
        /\ new.severity = old.severity
    BY <1>0 DEF ItemType, Statuses
  <2>2. queue' = [queue EXCEPT ![i] = new] /\ UNCHANGED <<clock, takes, climbs>>
    BY <1>3 DEF ResolveItem, counts
  <2>3. ItemInv(old) /\ CountInv(old.status, takes[i], climbs[i])
    BY <1>0
  <2> HIDE DEF new, old
  <2>4. ItemInv(new)
    BY <2>1, <2>3 DEF ItemInv, FollowsChain
  <2>5. CountInv(new.status, takes[i], climbs[i])
    BY <1>0, <2>1, <2>3 DEF CountInv, Climbers
  <2> QED
    BY <1>0, <2>2, <2>4, <2>5, OneItemKeeps
<1>4. ASSUME NEW i \in Items, NEW why \in GivenReasons, EscalateItem(i, why)
      PROVE  QueueInv'
  <2> DEFINE new == Escalated(queue[i], why)
  <2>1. ItemInv(new) /\ new.status = "escalated"
    BY <1>0, <1>4, EscalatedKeeps DEF EscalateItem, Reasons
  <2>2. queue' = [queue EXCEPT ![i] = new] /\ UNCHANGED <<clock, takes, climbs>>
    BY <1>4 DEF EscalateItem, counts
  <2> HIDE DEF new
  <2>3. CountInv(new.status, takes[i], climbs[i])
    BY <1>0, <2>1 DEF CountInv, Climbers
  <2> QED
    BY <1>0, <2>1, <2>2, <2>3, OneItemKeeps
<1>5. ASSUME EnforceSla PROVE QueueInv'
  <2>1. /\ queue' = [i \in Items |-> Swept(queue[i])] /\ UNCHANGED <<clock, takes>>
        /\ climbs' = [i \in Items |-> climbs[i] + Swept(queue[i]).level - queue[i].level]
        /\ \A i \in Items : Swept(queue[i]).level <= MaxLevel
    BY <1>5 DEF EnforceSla
  <2>2. ASSUME NEW i \in Items
        PROVE  /\ ItemInv(Swept(queue[i])) /\ climbs'[i] \in Nat
               /\ CountInv(Swept(queue[i]).status, takes[i], climbs'[i])
    <3> DEFINE old == queue[i]
               new == Swept(queue[i])
    <3>1. ItemInv(old) /\ new.level <= MaxLevel /\ old.level \in Nat
      BY <1>0, <2>1 DEF ItemType
    <3>2. /\ ItemInv(new)
          /\ new.level = old.level + (IF Escalates(old) THEN 1 ELSE 0)
          /\ Escalates(old) => /\ old.status \in {"pending", "taken"}
                              /\ new.status = "escalated"
          /\ ~Escalates(old) => new.status \in {old.status, "resolved"}
      BY <3>1, SweptCases
    <3>3. climbs'[i] = climbs[i] + new.level - old.level
      BY <2>1
    <3>4. climbs[i] \in Nat /\ takes[i] \in Nat /\ CountInv(old.status, takes[i], climbs[i])
      BY <1>0
    <3> HIDE DEF new, old
    <3>5. climbs'[i] = climbs[i] + (IF Escalates(old) THEN 1 ELSE 0)
      BY <3>1, <3>2, <3>3, <3>4
    <3>6. CountInv(new.status, takes[i], climbs'[i])
      <4>1. CASE Escalates(old)
        BY <3>2, <3>4, <3>5, <4>1 DEF CountInv, Climbers
      <4>2. CASE ~Escalates(old)
        BY <3>2, <3>4, <3>5, <4>2 DEF CountInv, Climbers
      <4> QED
        BY <4>1, <4>2
    <3> QED
      BY <3>2, <3>4, <3>5, <3>6 DEF new
  <2>3. climbs' \in [Items -> Nat]
    BY <2>1, <2>2
  <2> QED
    BY <2>1, <2>2, <2>3 DEF QueueInv
<1>6. ASSUME Tick PROVE QueueInv'
  <2>1. clock' \in 0..MaxClock /\ UNCHANGED <<queue, takes, climbs>>
    BY <1>6, QueueAssumptions DEF Tick, counts, QueueInv, QueueAssumptions
  <2> QED
    BY <2>1 DEF QueueInv
<1>7. CASE UNCHANGED vars
  BY <1>7 DEF vars, counts, QueueInv
<1> QED
  BY <1>1, <1>2, <1>3, <1>4, <1>5, <1>6, <1>7 DEF Next

LEMMA QueueInvAlways == Spec => []QueueInv
<1> QED
  BY QueueInvInit, QueueInvStep, PTL DEF Spec

\* The state is always well typed.
THEOREM QueueTypeCorrect == Spec => []TypeOK
<1>1. QueueInv => TypeOK
  BY DEF QueueInv, ItemInv, TypeOK
<1> QED
  BY <1>1, QueueInvAlways, PTL

\* Sweeps move an item up at most once more than it was taken, for any chains,
\* deadlines and number of sweeps.
THEOREM ClimbsOncePerTurnHolds == Spec => []ClimbsOncePerTurn
<1>1. ASSUME QueueInv PROVE ClimbsOncePerTurn
  <2> SUFFICES ASSUME NEW i \in Items PROVE climbs[i] <= takes[i] + 1
    BY DEF ClimbsOncePerTurn
  <2>1. climbs[i] \in Nat /\ takes[i] \in Nat
        /\ CountInv(queue[i].status, takes[i], climbs[i])
    BY <1>1 DEF QueueInv
  <2> QED
    BY <2>1 DEF CountInv
<1> QED
  BY <1>1, QueueInvAlways, PTL

\* Of all that may happen to a resolved item only an escalation changes it.
THEOREM OnlyEscalationReopensHolds == Spec => OnlyEscalationReopens
<1> DEFINE Reopens(i) ==
      \/ queue'[i] = queue[i]
      \/ \E why \in GivenReasons : queue'[i] = Escalated(queue[i], why)
<1>1. ASSUME QueueInv, Next
      PROVE  \A i \in Items : queue[i].status = "resolved" => Reopens(i)
  <2> SUFFICES ASSUME NEW j \in Items, queue[j].status = "resolved"
               PROVE  Reopens(j)
    OBVIOUS
  <2>0. DOMAIN queue = Items
    BY <1>1 DEF QueueInv
  <2>1. ASSUME NEW i \in Items, NEW s \in Severities, AddItem(i, s)
        PROVE  queue'[j] = queue[j]
    BY <2>0, <2>1 DEF AddItem
  <2>2. ASSUME NEW i \in Items, NEW r \in Reviewers, TakeItem(i, r)
        PROVE  queue'[j] = queue[j]
    BY <2>0, <2>2 DEF TakeItem
  <2>3. ASSUME NEW i \in Items, ResolveItem(i)
        PROVE  queue'[j] = queue[j]
    BY <2>0, <2>3 DEF ResolveItem
  <2>4. ASSUME NEW i \in Items, NEW why \in GivenReasons, EscalateItem(i, why)
        PROVE  Reopens(j)
    BY <2>0, <2>4 DEF EscalateItem
  <2>5. ASSUME EnforceSla PROVE queue'[j] = queue[j]
    BY <2>5 DEF EnforceSla, Swept, AutoBlocks, Escalates, NotifiesBoard
  <2>6. ASSUME Tick PROVE queue'[j] = queue[j]
    BY <2>6 DEF Tick
  <2> QED
    BY <1>1, <2>1, <2>2, <2>3, <2>4, <2>5, <2>6 DEF Next
<1> QED
  BY <1>1, QueueInvAlways, PTL DEF Spec, OnlyEscalationReopens

\* What is left of a sweep for one that follows it at once: the notice to the board,
\* given again to every item past its chain's end, and nothing for any other item.
THEOREM SweepSettlesHolds == Spec => SweepSettles
<1> DEFINE Settled ==
      /\ UpdatedItems' = AtTheBoard'
      /\ \A i \in Items :
           Swept(queue[i])' = IF i \in UpdatedItems'
                              THEN [queue'[i] EXCEPT !.reason = "escalation_chain_exceeded"]
                              ELSE queue'[i]
<1>1. ASSUME QueueInv, Next PROVE EnforceSla => Settled
  <2> SUFFICES ASSUME EnforceSla PROVE Settled
    OBVIOUS
  <2>1. clock' = clock
    BY DEF EnforceSla
  <2>2. ASSUME NEW i \in Items
        PROVE  /\ ~AutoBlocks(queue[i])' /\ ~Escalates(queue[i])'
               /\ queue'[i] \in ItemType
               /\ NotifiesBoard(queue[i])' => queue'[i].target = GovernanceBoard
    <3>1. queue'[i] = Swept(queue[i]) /\ ItemInv(queue[i])
          /\ Swept(queue[i]).level <= MaxLevel
      BY <1>1 DEF EnforceSla, QueueInv
    <3>2. ItemInv(queue'[i]) /\ ~AutoBlocks(queue'[i]) /\ ~Escalates(queue'[i])
      BY <3>1, SweptCases
    <3>3. NotifiesBoard(queue'[i]) => queue'[i].target = GovernanceBoard
      BY <3>2, WithTheBoard
    <3> QED
      BY <2>1, <3>2, <3>3 DEF AutoBlocks, Escalates, NotifiesBoard, Past, ItemInv
  <2>3. UpdatedItems' = AtTheBoard'
    BY <2>2 DEF UpdatedItems, AtTheBoard, NotifiesBoard
  <2>4. ASSUME NEW i \in Items
        PROVE  Swept(queue[i])' = IF i \in UpdatedItems'
                                  THEN [queue'[i] EXCEPT !.reason = "escalation_chain_exceeded"]
                                  ELSE queue'[i]
    <3>1. i \in UpdatedItems' <=> NotifiesBoard(queue[i])'
      BY <2>2 DEF UpdatedItems
    <3>2. Swept(queue[i])' =
            IF NotifiesBoard(queue[i])'
            THEN [queue'[i] EXCEPT !.target = GovernanceBoard,
                                   !.reason = "escalation_chain_exceeded"]
            ELSE queue'[i]
      BY <2>2 DEF Swept
    <3>3. ASSUME queue'[i].target = GovernanceBoard
          PROVE  [queue'[i] EXCEPT !.target = GovernanceBoard,
                                   !.reason = "escalation_chain_exceeded"]
                   = [queue'[i] EXCEPT !.reason = "escalation_chain_exceeded"]
      BY <2>2, <3>3 DEF ItemType
    <3> QED
      BY <2>2, <3>1, <3>2, <3>3
  <2> QED
    BY <2>3, <2>4
<1> QED
  BY <1>1, QueueInvAlways, PTL DEF Spec, SweepSettles
=============================================================================
