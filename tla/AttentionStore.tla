--------------------------- MODULE AttentionStore ---------------------------
(***************************************************************************)
(* The persistent human-attention queue (persistence.py): reviewers' take  *)
(* and resolve calls, each a transaction that selects the item's row and   *)
(* writes it back.  The select asks for a row lock (with_for_update);      *)
(* PostgreSQL gives it, SQLite, the default database, ignores it.          *)
(*                                                                         *)
(* An item stands for a pair of tenant and item_id, the table's key: a     *)
(* call of another tenant names another item.                              *)
(***************************************************************************)
EXTENDS Integers, FiniteSets

CONSTANTS Items,
          Reviewers,
          NoOne,
          Calls,     \* calls of take_attention and resolve_attention, each made once
          RowLocks   \* does the database honour SELECT ... FOR UPDATE?

ASSUME StoreAssumptions ==
  /\ NoOne \notin Reviewers
  /\ IsFiniteSet(Calls)
  /\ RowLocks \in BOOLEAN

Statuses == {"absent", "pending", "taken", "escalated", "resolved"}
RowType  == [status : Statuses, owner : Reviewers \cup {NoOne}, version : Nat]
JobType  == [op : {"take", "resolve"}, item : Items, reviewer : Reviewers]
Absent   == [status |-> "absent", owner |-> NoOne, version |-> 0]

VARIABLES
  rows,   \* human_queue_items: status, assigned_to and version
  job,    \* what each call asks for
  pc,     \* "idle", "waiting" for its select, "holding" the row it read, or ended:
          \* "done" (committed), "refused" (returned None) or "died"
  seen    \* the row a call has read

vars == <<rows, job, pc, seen>>

Ended == {"done", "refused", "died"}
PCs   == {"idle", "waiting", "holding"} \cup Ended

Init ==
  /\ rows = [i \in Items |-> Absent]
  /\ job \in [Calls -> JobType]
  /\ pc = [c \in Calls |-> "idle"]
  /\ seen = [c \in Calls |-> Absent]

(* enqueue_attention; every caller passes status "pending".                *)
Enqueue(i) ==
  /\ rows[i].status = "absent"
  /\ rows' = [rows EXCEPT ![i] = [status |-> "pending", owner |-> NoOne, version |-> 1]]
  /\ UNCHANGED <<job, pc, seen>>

Call(c) ==
  /\ pc[c] = "idle"
  /\ pc' = [pc EXCEPT ![c] = "waiting"]
  /\ UNCHANGED <<rows, job, seen>>

\* Mutant: a take looks only at whether the item is there.
Permits_AnyStatus(j, row) ==
  \/ j.op = "take" /\ row.status # "absent"
  \/ j.op = "resolve" /\ row.status = "taken" /\ row.owner = j.reviewer

\* Mutant: whoever asks may resolve a taken item.
Permits_AnyReviewer(j, row) ==
  \/ j.op = "take" /\ row.status \in {"pending", "escalated"}
  \/ j.op = "resolve" /\ row.status = "taken"

\* The early returns: may the call go on with the row it read?
Permits(j, row) ==
  \/ j.op = "take" /\ row.status \in {"pending", "escalated"}
  \/ j.op = "resolve" /\ row.status = "taken" /\ row.owner = j.reviewer

Locked(i) == RowLocks /\ \E d \in Calls : pc[d] = "holding" /\ job[d].item = i

\* Mutant: the select takes no lock.
Select_NoLock(c) ==
  /\ pc[c] = "waiting"
  /\ LET row == rows[job[c].item]
     IN  /\ pc' = [pc EXCEPT ![c] = IF Permits(job[c], row) THEN "holding" ELSE "refused"]
         /\ seen' = [seen EXCEPT ![c] = row]
  /\ UNCHANGED <<rows, job>>

\* Mutant: the call waits until the item can be taken instead of returning None.
Select_Waits(c) ==
  /\ pc[c] = "waiting" /\ ~Locked(job[c].item)
  /\ Permits(job[c], rows[job[c].item])
  /\ pc' = [pc EXCEPT ![c] = "holding"]
  /\ seen' = [seen EXCEPT ![c] = rows[job[c].item]]
  /\ UNCHANGED <<rows, job>>

(* The select.  A call that may not go on returns None, which ends its     *)
(* transaction.                                                            *)
Select(c) ==
  /\ pc[c] = "waiting" /\ ~Locked(job[c].item)
  /\ LET row == rows[job[c].item]
     IN  /\ pc' = [pc EXCEPT ![c] = IF Permits(job[c], row) THEN "holding" ELSE "refused"]
         /\ seen' = [seen EXCEPT ![c] = row]
  /\ UNCHANGED <<rows, job>>

\* Mutant: resolving does not count as a version.
Written_SameVersion(j, row, read) ==
  IF j.op = "take"
  THEN [status |-> "taken", owner |-> j.reviewer, version |-> read.version + 1]
  ELSE [row EXCEPT !.status = "resolved"]

\* Mutant: the reviewer's decision is stored as the item's status.
Written_Decision(j, row, read) ==
  IF j.op = "take"
  THEN [status |-> "taken", owner |-> j.reviewer, version |-> read.version + 1]
  ELSE [row EXCEPT !.status = "approved", !.version = read.version + 1]

\* The row after the UPDATE, which sets the columns the call assigned: values
\* computed from the row as it was read.
Written(j, row, read) ==
  IF j.op = "take"
  THEN [status |-> "taken", owner |-> j.reviewer, version |-> read.version + 1]
  ELSE [row EXCEPT !.status = "resolved", !.version = read.version + 1]

(* The update and the commit.                                              *)
Commit(c) ==
  /\ pc[c] = "holding"
  /\ pc' = [pc EXCEPT ![c] = "done"]
  /\ rows' = [rows EXCEPT ![job[c].item] = Written(job[c], @, seen[c])]
  /\ UNCHANGED <<job, seen>>

(* The caller or its connection goes before the commit: a rollback.        *)
Die(c) ==
  /\ pc[c] \in {"waiting", "holding"}
  /\ pc' = [pc EXCEPT ![c] = "died"]
  /\ UNCHANGED <<rows, job, seen>>

Next == \/ \E i \in Items : Enqueue(i)
        \/ \E c \in Calls : Call(c) \/ Select(c) \/ Commit(c) \/ Die(c)

Spec == Init /\ [][Next]_vars

\* A transaction under way goes on when the database lets it; nobody has to call.
FairSpec == Spec /\ \A c \in Calls : WF_vars(Select(c)) /\ WF_vars(Commit(c))
-----------------------------------------------------------------------------
Committed(i)  == {c \in Calls : pc[c] = "done" /\ job[c].item = i}
Takes(i)      == {c \in Committed(i) : job[c].op = "take"}
Resolves(i)   == {c \in Committed(i) : job[c].op = "resolve"}

\* The state is well typed.
TypeOK ==
  /\ rows \in [Items -> RowType]
  /\ job \in [Calls -> JobType]
  /\ pc \in [Calls -> PCs]
  /\ seen \in [Calls -> RowType]

\* tests/integration/test_postgresql_runtime.py: however many reviewers take an item
\* at once, one gets it.
OneTaker == \A i \in Items : \A c, d \in Takes(i) : c = d

\* No update is lost: an item's version counts the calls that changed it.
VersionCounts == \A i \in Items :
  rows[i].status # "absent" => rows[i].version = 1 + Cardinality(Committed(i))

\* Who resolved an item is who had taken it, and the row still names that reviewer.
OwnerResolves == \A i \in Items : \A c \in Resolves(i) :
  /\ rows[i].owner = job[c].reviewer
  /\ \E d \in Takes(i) : job[d].reviewer = job[c].reviewer

\* docs/architecture.md VALID_QUEUE_TRANSITIONS, "resolved" is a "terminal state": no
\* late transaction opens a resolved item again or rewrites it.
ResolvedIsTerminal ==
  [][\A i \in Items : rows[i].status = "resolved" => rows'[i] = rows[i]]_vars

\* Locks or none, who resolves an item has taken it: each resolution is by a reviewer
\* whose own take was committed, and the owner a row names is one of those.
TakerResolves == \A i \in Items :
  LET takers == {job[d].reviewer : d \in Takes(i)}
  IN  /\ \A c \in Resolves(i) : job[c].reviewer \in takers
      /\ rows[i].owner \in takers \cup {NoOne}

\* Locks or none, a row's version says no more than its status does: an update that was
\* lost leaves no trace in it, so comparing versions would not find one.
VersionFollowsStatus == \A i \in Items : <<rows[i].status, rows[i].version>> \in
  {<<"absent", 0>>, <<"pending", 1>>, <<"taken", 2>>, <<"resolved", 3>>}

\* Locks or none, what opens a resolved item again is a take that had read it when it
\* was still pending, and was still to commit when the item was taken and resolved.
ReopenedByStaleTake ==
  [][\A i \in Items : rows[i].status = "resolved" /\ rows'[i] # rows[i] =>
       \E c \in Calls : /\ pc[c] = "holding"
                       /\ job[c] = [op |-> "take", item |-> i,
                                    reviewer |-> rows'[i].owner]
                       /\ seen[c].status = "pending"]_vars

\* Every call is answered, however many contend for one row.
EveryCallAnswered == \A c \in Calls : pc[c] = "waiting" ~> pc[c] \in Ended

\* The transactions implement the queue of AttentionQueue.
Queue == INSTANCE AttentionQueue WITH status <- [i \in Items |-> rows[i].status],
                                      owner  <- [i \in Items |-> rows[i].owner]
ImplementsQueue == Queue!Spec
=============================================================================
