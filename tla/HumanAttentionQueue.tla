------------------------ MODULE HumanAttentionQueue ------------------------
(***************************************************************************)
(* The in-memory human-attention queue (queue/human_attention/queue.py):   *)
(* reviewers take and resolve items, operators escalate them, and a sweep  *)
(* of enforce_sla escalates or blocks the items whose deadlines passed.    *)
(*                                                                         *)
(* Time is counted in ticks.  Of a resolution the model keeps who decided, *)
(* a reviewer or the sweep; comments are left out.                         *)
(***************************************************************************)
EXTENDS Integers, Sequences

CONSTANTS Items,
          Reviewers,
          NoOne,
          Roles,            \* who an item can be escalated to
          GovernanceBoard,  \* the role an escalation chain ends with
          Ack,              \* ticks to acknowledge, by severity; 0: no deadline
          Decide,           \* ticks to decide, by severity; 0: no deadline
          Chain,            \* the escalation chain of a severity, maybe <<>>
          MaxClock,         \* bound: the last tick
          MaxLevel          \* bound: the highest escalation level

Severities == {"critical", "high", "medium", "low"}

ASSUME QueueAssumptions ==
  /\ NoOne \notin Reviewers \cup Roles
  /\ GovernanceBoard \in Roles
  /\ Ack \in [Severities -> Nat] /\ Decide \in [Severities -> Nat]
  /\ Chain \in [Severities -> Seq(Roles)]
  /\ MaxClock \in Nat /\ MaxLevel \in Nat

Statuses == {"absent", "pending", "taken", "escalated", "resolved"}

\* escalation_reason: "asked" stands for any text an operator gives.
GivenReasons == {"", "asked"}
Reasons == GivenReasons \cup {"ack_timeout", "decision_timeout", "max_escalation_reached",
                             "escalation_chain_exceeded"}

ItemType == [status    : Statuses,
             severity  : Severities,
             created   : Nat,                          \* created_at
             owner     : Reviewers \cup {NoOne},       \* assigned_to
             level     : 0..MaxLevel,                  \* escalation_level
             target    : Roles \cup {NoOne},           \* escalated_to
             reason    : Reasons,                      \* escalation_reason
             decidedBy : {"nobody", "reviewer", "sla"}]

VARIABLES
  queue,
  clock,
  \* Counts for the properties; no action reads them.
  takes,        \* how often an item was taken
  climbs        \* how many levels sweeps moved it up

counts == <<takes, climbs>>
vars   == <<queue, clock, counts>>

NewItem(status, s) ==
  [status |-> status, severity |-> s, created |-> clock, owner |-> NoOne,
   level |-> 0, target |-> NoOne, reason |-> "", decidedBy |-> "nobody"]

Init == /\ clock = 0
        /\ queue = [i \in Items |-> NewItem("absent", "low")]
        /\ takes = [i \in Items |-> 0] /\ climbs = [i \in Items |-> 0]

AddItem(i, s) ==
  /\ queue[i].status = "absent"
  /\ queue' = [queue EXCEPT ![i] = NewItem("pending", s)]
  /\ UNCHANGED <<clock, counts>>

\* Mutant: only the items somebody else holds are refused.
TakeItem_NotHeld(i, r) ==
  /\ queue[i].status \notin {"absent", "taken"}
  /\ queue' = [queue EXCEPT ![i].status = "taken", ![i].owner = r]
  /\ takes' = [takes EXCEPT ![i] = @ + 1]
  /\ UNCHANGED <<clock, climbs>>

TakeItem(i, r) ==
  /\ queue[i].status \in {"pending", "escalated"}
  /\ queue' = [queue EXCEPT ![i].status = "taken", ![i].owner = r]
  /\ takes' = [takes EXCEPT ![i] = @ + 1]
  /\ UNCHANGED <<clock, climbs>>

(* Nothing compares who resolves with who took the item.                   *)
ResolveItem(i) ==
  /\ queue[i].status = "taken"
  /\ queue' = [queue EXCEPT ![i].status = "resolved", ![i].decidedBy = "reviewer"]
  /\ UNCHANGED <<clock, counts>>

\* Who is asked at a level.  Levels count from 1 and the code's chain from 0, so the
\* chain's first role is never asked.
EscalationTarget(severity, level) ==
  IF level >= Len(Chain[severity]) THEN GovernanceBoard ELSE Chain[severity][level + 1]

\* At the end of the chain an escalation without a reason is given one.
Escalated(item, why) ==
  LET level     == item.level + 1
      exhausted == level >= Len(Chain[item.severity])
  IN  [item EXCEPT !.status = "escalated", !.level = level,
                   !.target = EscalationTarget(item.severity, level),
                   !.reason = IF exhausted /\ why = "" THEN "max_escalation_reached" ELSE why]

(* escalate_item: whatever the item's status.                              *)
EscalateItem(i, why) ==
  /\ queue[i].status # "absent"
  /\ queue[i].level < MaxLevel
  /\ queue' = [queue EXCEPT ![i] = Escalated(@, why)]
  /\ UNCHANGED <<clock, counts>>

\* Has the deadline of so many ticks after the item's creation passed?
Past(item, ticks) == ticks > 0 /\ clock > item.created + ticks

AutoBlocks(item) ==
  /\ item.status = "taken" /\ item.severity = "critical"
  /\ Past(item, Decide["critical"])

\* Mutant: an item stays due for as long as it is late.
Escalates_WhileLate(item) ==
  \/ item.status \in {"pending", "escalated"} /\ Past(item, Ack[item.severity])
  \/ /\ item.status = "taken" /\ item.severity # "critical"
     /\ Past(item, Decide[item.severity])

Escalates(item) ==
  \/ item.status = "pending" /\ Past(item, Ack[item.severity])
  \/ /\ item.status = "taken" /\ item.severity # "critical"
     /\ Past(item, Decide[item.severity])

\* Mutant: the chain counts as exhausted at its last role.
NotifiesBoard_AtLast(item) ==
  item.status = "escalated" /\ item.level + 1 >= Len(Chain[item.severity])

NotifiesBoard(item) ==
  item.status = "escalated" /\ item.level >= Len(Chain[item.severity])

\* What a deadline that passed is called as the reason of an escalation.
Timeout(item) == IF item.status = "pending" THEN "ack_timeout" ELSE "decision_timeout"

\* Mutant: the automatic block is a status of its own.
Swept_Blocked(item) ==
  IF AutoBlocks(item) THEN [item EXCEPT !.status = "blocked", !.decidedBy = "sla"]
  ELSE IF Escalates(item) THEN Escalated(item, Timeout(item))
  ELSE IF NotifiesBoard(item) THEN [item EXCEPT !.target = GovernanceBoard,
                                                !.reason = "escalation_chain_exceeded"]
  ELSE item

\* What a sweep makes of an item (_check_sla_action and _apply_sla_action).
Swept(item) ==
  IF AutoBlocks(item) THEN [item EXCEPT !.status = "resolved", !.decidedBy = "sla"]
  ELSE IF Escalates(item) THEN Escalated(item, Timeout(item))
  ELSE IF NotifiesBoard(item) THEN [item EXCEPT !.target = GovernanceBoard,
                                                !.reason = "escalation_chain_exceeded"]
  ELSE item

\* The items enforce_sla returns: all it acts on, whether or not they change.
UpdatedItems ==
  {i \in Items : AutoBlocks(queue[i]) \/ Escalates(queue[i]) \/ NotifiesBoard(queue[i])}

EnforceSla ==
  /\ \A i \in Items : Swept(queue[i]).level <= MaxLevel
  /\ queue' = [i \in Items |-> Swept(queue[i])]
  /\ climbs' = [i \in Items |-> climbs[i] + Swept(queue[i]).level - queue[i].level]
  /\ UNCHANGED <<clock, takes>>

Tick == clock < MaxClock /\ clock' = clock + 1 /\ UNCHANGED <<queue, counts>>

Next ==
  \/ \E i \in Items : \/ \E s \in Severities : AddItem(i, s)
                      \/ \E r \in Reviewers : TakeItem(i, r)
                      \/ ResolveItem(i)
                      \/ \E why \in GivenReasons : EscalateItem(i, why)
  \/ EnforceSla
  \/ Tick

Spec == Init /\ [][Next]_vars
-----------------------------------------------------------------------------
\* The state is well typed.
TypeOK == /\ clock \in 0..MaxClock /\ queue \in [Items -> ItemType]
          /\ takes \in [Items -> Nat] /\ climbs \in [Items -> Nat]

\* The items enforce_sla takes to be past the end of their chain.
AtTheBoard ==
  {i \in Items : /\ queue[i].status = "escalated" /\ queue[i].target = GovernanceBoard
                 /\ queue[i].level >= Len(Chain[queue[i].severity])}

\* A sweep repeated at the same time finds no item late.  All it acts on, and returns
\* again, are the items that are with the board already, and of those it rewrites the
\* reason and nothing else: whom the first sweep left an item with, it stays with.
SweepSettles ==
  [][EnforceSla =>
       /\ UpdatedItems' = AtTheBoard'
       /\ \A i \in Items :
            Swept(queue[i])' = IF i \in UpdatedItems'
                               THEN [queue'[i] EXCEPT !.reason = "escalation_chain_exceeded"]
                               ELSE queue'[i]]_vars

\* However often sweeps run while an item is late, they move it up once, and once more
\* each time somebody took it since: being late is not held against it twice.
ClimbsOncePerTurn == \A i \in Items : climbs[i] <= takes[i] + 1

\* Once an item is resolved no late take, second resolution or sweep touches it; only
\* escalate_item does.
OnlyEscalationReopens ==
  [][\A i \in Items : queue[i].status = "resolved" =>
       \/ queue'[i] = queue[i]
       \/ \E why \in GivenReasons : queue'[i] = Escalated(queue[i], why)]_vars

\* docs/architecture.md VALID_QUEUE_TRANSITIONS: the statuses an item may go through,
\* "resolved" being a "terminal state".
DocumentedMoves ==
  {<<"pending", "taken">>, <<"pending", "escalated">>, <<"taken", "resolved">>,
   <<"taken", "escalated">>, <<"escalated", "taken">>, <<"escalated", "resolved">>}

\* Every change of an item's status is one that document lists.
MovesAreDocumented ==
  [][\A i \in Items :
       queue[i].status \notin {"absent", queue'[i].status} =>
         <<queue[i].status, queue'[i].status>> \in DocumentedMoves]_vars
=============================================================================
