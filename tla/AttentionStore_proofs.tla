------------------------ MODULE AttentionStore_proofs ------------------------
(***************************************************************************)
(* Proofs about AttentionStore, for any number of items, reviewers and     *)
(* calls.  Over a database with row locks the transactions implement the   *)
(* queue of AttentionQueue.                                                *)
(***************************************************************************)
EXTENDS AttentionStore, FiniteSetTheorems, TLAPS

-----------------------------------------------------------------------------
(* Type correctness, with or without locks.                                *)

\* What a call writes is a row.
LEMMA WrittenType ==
  ASSUME NEW j \in JobType, NEW row \in RowType, NEW read \in RowType
  PROVE  /\ Written(j, row, read) \in RowType
         /\ Written(j, row, read).version = read.version + 1
         /\ j.op = "take" => /\ Written(j, row, read).status = "taken"
                             /\ Written(j, row, read).owner = j.reviewer
         /\ j.op = "resolve" => /\ Written(j, row, read).status = "resolved"
                                /\ Written(j, row, read).owner = row.owner
  <1>1. read.version + 1 \in Nat /\ j.reviewer \in Reviewers
    BY DEF RowType, JobType
  <1>2. CASE j.op = "take"
    BY <1>1, <1>2 DEF Written, RowType, Statuses
  <1>3. CASE j.op # "take"
    <2> DEFINE n == read.version + 1
               new == [row EXCEPT !.status = "resolved", !.version = n]
    <2>1. n \in Nat
      BY <1>1
    <2> HIDE DEF n
    <2>2. new \in RowType /\ new.status = "resolved" /\ new.version = n /\ new.owner = row.owner
      BY <2>1 DEF RowType, Statuses
    <2>3. Written(j, row, read) = new
      BY <1>3 DEF Written, n
    <2> HIDE DEF new
    <2>4. QED
      BY <1>3, <2>2, <2>3 DEF n
  <1>4. QED
    BY <1>2, <1>3

\* Initially nothing is in the queue.
LEMMA StoreTypeInit == Init => TypeOK
  BY DEF Init, TypeOK, Absent, RowType, Statuses, PCs

\* Every step keeps the rows and the calls well typed.
LEMMA StoreTypeStep == TypeOK /\ [Next]_vars => TypeOK'
  <1> SUFFICES ASSUME TypeOK, [Next]_vars PROVE TypeOK'
    OBVIOUS
  <1>1. ASSUME NEW i \in Items, Enqueue(i) PROVE TypeOK'
    BY <1>1 DEF TypeOK, Enqueue, RowType, Statuses
  <1>2. ASSUME NEW c \in Calls, Call(c) PROVE TypeOK'
    BY <1>2 DEF TypeOK, Call, PCs
  <1>3. ASSUME NEW c \in Calls, Select(c) PROVE TypeOK'
    <2>1. rows[job[c].item] \in RowType
      BY DEF TypeOK, JobType
    <2>2. QED
      BY <1>3, <2>1 DEF TypeOK, Select, PCs, Ended
  <1>4. ASSUME NEW c \in Calls, Commit(c) PROVE TypeOK'
    <2>1. job[c] \in JobType /\ rows[job[c].item] \in RowType /\ seen[c] \in RowType
      BY DEF TypeOK, JobType
    <2>2. Written(job[c], rows[job[c].item], seen[c]) \in RowType
      BY <2>1, WrittenType
    <2>3. QED
      BY <1>4, <2>2 DEF TypeOK, Commit, PCs, Ended
  <1>5. ASSUME NEW c \in Calls, Die(c) PROVE TypeOK'
    BY <1>5 DEF TypeOK, Die, PCs, Ended
  <1>6. ASSUME UNCHANGED vars PROVE TypeOK'
    BY <1>6 DEF TypeOK, vars
  <1>7. QED
    BY <1>1, <1>2, <1>3, <1>4, <1>5, <1>6 DEF Next

\* Whatever the database locks, every row stays a row.
THEOREM StoreTypeCorrect == Spec => []TypeOK
  BY StoreTypeInit, StoreTypeStep, PTL DEF Spec
-----------------------------------------------------------------------------
(* The inductive invariant under row locks.                                *)

\* A call that holds an item holds it alone, and has read what is in the row.
HoldInv ==
  /\ \A c \in Calls : pc[c] = "holding" =>
       seen[c] = rows[job[c].item] /\ Permits(job[c], seen[c])
  /\ \A c, d \in Calls :
       pc[c] = "holding" /\ pc[d] = "holding" /\ job[c].item = job[d].item => c = d

\* A row's status and owner are those of the one take and of the resolve behind it.
RowInv == \A i \in Items :
  /\ rows[i].status # "escalated"
  /\ rows[i].status = "absent" => rows[i].owner = NoOne
  /\ rows[i].status \in {"absent", "pending"} => Committed(i) = {}
  /\ rows[i].status = "taken" => Resolves(i) = {}
  /\ rows[i].status \in {"taken", "resolved"} => Takes(i) # {}
  /\ \A c \in Takes(i) : rows[i].owner = job[c].reviewer

StoreInv == TypeOK /\ HoldInv /\ RowInv /\ OneTaker /\ VersionCounts /\ OwnerResolves

\* Initially no call has been made.
LEMMA StoreInit == Init => StoreInv
  <1> SUFFICES ASSUME Init PROVE StoreInv
    OBVIOUS
  <1>1. \A i \in Items : rows[i].status = "absent" /\ Committed(i) = {}
    BY DEF Init, Absent, Committed
  <1>2. QED
    BY <1>1, StoreTypeInit
    DEF Init, Absent, StoreInv, HoldInv, RowInv, OneTaker, VersionCounts, OwnerResolves, Takes,
        Resolves

\* What the tables and the outcomes determine is kept by a step that changes neither.
LEMMA QuietStep ==
  ASSUME StoreInv, rows' = rows, job' = job,
         \A c \in Calls : (pc'[c] = "done") = (pc[c] = "done")
  PROVE  RowInv' /\ OneTaker' /\ VersionCounts' /\ OwnerResolves'
  <1>1. \A i : /\ Committed(i)' = Committed(i)
               /\ Takes(i)' = Takes(i)
               /\ Resolves(i)' = Resolves(i)
    BY DEF Committed, Takes, Resolves
  <1>2. QED
    BY <1>1 DEF StoreInv, RowInv, OneTaker, VersionCounts, OwnerResolves

\* A new item is nobody's.
LEMMA EnqueueStep ==
  ASSUME StoreInv, NEW i \in Items, Enqueue(i)
  PROVE  HoldInv' /\ RowInv' /\ OneTaker' /\ VersionCounts' /\ OwnerResolves'
  <1>1. /\ rows[i].status = "absent"
        /\ rows'[i] = [status |-> "pending", owner |-> NoOne, version |-> 1]
        /\ \A k \in Items \ {i} : rows'[k] = rows[k]
        /\ job' = job /\ pc' = pc /\ seen' = seen
    BY DEF Enqueue, StoreInv, TypeOK
  <1>2. \A k : Committed(k)' = Committed(k) /\ Takes(k)' = Takes(k) /\ Resolves(k)' = Resolves(k)
    BY <1>1 DEF Committed, Takes, Resolves
  <1>3. Committed(i) = {} /\ Takes(i) = {} /\ Resolves(i) = {}
    BY <1>1 DEF StoreInv, RowInv, Takes, Resolves
  <1>4. HoldInv'
    <2>1. ASSUME NEW c \in Calls, pc[c] = "holding" PROVE job[c].item \in Items \ {i}
      BY <1>1, <2>1 DEF StoreInv, TypeOK, JobType, HoldInv, Permits
    <2>2. QED
      BY <1>1, <2>1 DEF StoreInv, HoldInv, Permits
  <1>5. RowInv'
    BY <1>1, <1>2, <1>3 DEF StoreInv, RowInv
  <1>6. OneTaker' /\ OwnerResolves'
    BY <1>1, <1>2, <1>3 DEF StoreInv, OneTaker, OwnerResolves
  <1>7. VersionCounts'
    BY <1>1, <1>2, <1>3, FS_EmptySet DEF StoreInv, VersionCounts
  <1>8. QED
    BY <1>4, <1>5, <1>6, <1>7

\* A call holds an item only when no other call does.
LEMMA SelectStep ==
  ASSUME RowLocks, StoreInv, NEW c \in Calls, Select(c)
  PROVE  HoldInv' /\ RowInv' /\ OneTaker' /\ VersionCounts' /\ OwnerResolves'
  <1> DEFINE row == rows[job[c].item]
  <1>1. /\ rows' = rows /\ job' = job /\ pc[c] = "waiting"
        /\ pc'[c] = IF Permits(job[c], row) THEN "holding" ELSE "refused"
        /\ seen'[c] = row
        /\ \A d \in Calls \ {c} : pc'[d] = pc[d] /\ seen'[d] = seen[d]
        /\ \A d \in Calls : pc[d] = "holding" => job[d].item # job[c].item
    BY DEF Select, Locked, StoreInv, TypeOK
  <1>2. RowInv' /\ OneTaker' /\ VersionCounts' /\ OwnerResolves'
    BY <1>1, QuietStep
  <1>3. HoldInv'
    <2>1. ASSUME NEW d \in Calls, pc'[d] = "holding"
          PROVE  seen'[d] = rows'[job'[d].item] /\ Permits(job'[d], seen'[d])
      BY <1>1, <2>1 DEF StoreInv, HoldInv
    <2>2. ASSUME NEW d \in Calls, NEW f \in Calls, pc'[d] = "holding", pc'[f] = "holding",
                 job'[d].item = job'[f].item
          PROVE  d = f
      BY <1>1, <2>2 DEF StoreInv, HoldInv
    <2>3. QED
      BY <2>1, <2>2 DEF HoldInv
  <1>4. QED
    BY <1>2, <1>3

\* The one holder of an item writes the row it read; the others hold other items.
LEMMA CommitStep ==
  ASSUME StoreInv, NEW c \in Calls, Commit(c)
  PROVE  HoldInv' /\ RowInv' /\ OneTaker' /\ VersionCounts' /\ OwnerResolves'
  <1>0. PICK i \in Items : i = job[c].item
    BY DEF StoreInv, TypeOK, JobType
  <1> USE <1>0
  <1> DEFINE new == Written(job[c], rows[i], seen[c])
  <1>1. job[c] \in JobType /\ i \in Items /\ rows[i] \in RowType /\ seen[c] \in RowType
    BY DEF StoreInv, TypeOK, JobType
  <1>2. /\ pc[c] = "holding" /\ pc'[c] = "done" /\ job' = job /\ seen' = seen
        /\ \A d \in Calls \ {c} : pc'[d] = pc[d]
        /\ rows'[i] = new /\ \A k \in Items \ {i} : rows'[k] = rows[k]
    BY <1>1 DEF Commit, StoreInv, TypeOK
  <1>3. /\ seen[c] = rows[i] /\ Permits(job[c], rows[i])
        /\ \A d \in Calls \ {c} : pc[d] = "holding" => job[d].item # i
    BY <1>2 DEF StoreInv, HoldInv
  <1>4. /\ new.version = rows[i].version + 1
        /\ job[c].op = "take" => new.status = "taken" /\ new.owner = job[c].reviewer
        /\ job[c].op = "resolve" => new.status = "resolved" /\ new.owner = rows[i].owner
    BY <1>1, <1>3, WrittenType
  <1> HIDE DEF new
  <1>5. /\ Committed(i)' = Committed(i) \cup {c} /\ c \notin Committed(i)
        /\ \A k \in Items \ {i} : /\ Committed(k)' = Committed(k)
                                  /\ Takes(k)' = Takes(k)
                                  /\ Resolves(k)' = Resolves(k)
    BY <1>2 DEF Committed, Takes, Resolves
  <1>6. HoldInv'
    <2>1. ASSUME NEW d \in Calls, pc'[d] = "holding"
          PROVE  pc[d] = "holding" /\ d # c /\ job[d].item \in Items \ {i}
      BY <1>2, <1>3, <2>1 DEF StoreInv, TypeOK, JobType
    <2>2. ASSUME NEW d \in Calls, pc'[d] = "holding"
          PROVE  seen'[d] = rows'[job'[d].item] /\ Permits(job'[d], seen'[d])
      BY <1>2, <2>1, <2>2 DEF StoreInv, HoldInv
    <2>3. ASSUME NEW d \in Calls, NEW f \in Calls, pc'[d] = "holding", pc'[f] = "holding",
                 job'[d].item = job'[f].item
          PROVE  d = f
      BY <1>2, <2>1, <2>3 DEF StoreInv, HoldInv
    <2>4. QED
      BY <2>2, <2>3 DEF HoldInv
  <1>7. VersionCounts'
    <2>1. IsFiniteSet(Committed(i))
      BY StoreAssumptions, FS_Subset DEF Committed
    <2>2. Cardinality(Committed(i)') = Cardinality(Committed(i)) + 1
      BY <1>5, <2>1, FS_AddElement
    <2>3. /\ rows[i].version = 1 + Cardinality(Committed(i))
          /\ Cardinality(Committed(i)) \in Nat
      BY <1>1, <1>3, <2>1, FS_CardinalityType DEF StoreInv, VersionCounts, Permits
    <2>4. rows'[i].version = 1 + Cardinality(Committed(i)')
      BY <1>2, <1>4, <2>2, <2>3
    <2>5. ASSUME NEW k \in Items \ {i}, rows'[k].status # "absent"
          PROVE  rows'[k].version = 1 + Cardinality(Committed(k)')
      BY <1>2, <1>5, <2>5 DEF StoreInv, VersionCounts
    <2>6. QED
      BY <2>4, <2>5 DEF VersionCounts
  <1>8. RowInv' /\ OneTaker' /\ OwnerResolves'
    <2>1. CASE job[c].op = "take"
      <3>1. Takes(i)' = {c} /\ Resolves(i)' = {}
        <4>1. Committed(i) = {}
          BY <1>1, <1>3, <2>1 DEF StoreInv, RowInv, Permits
        <4>2. Committed(i)' = {c}
          BY <1>5, <4>1
        <4>3. QED
          BY <1>2, <2>1, <4>2 DEF Takes, Resolves
      <3>2. RowInv'
        BY <1>2, <1>4, <1>5, <2>1, <3>1 DEF StoreInv, RowInv
      <3>3. OneTaker' /\ OwnerResolves'
        BY <1>2, <1>5, <3>1 DEF StoreInv, OneTaker, OwnerResolves
      <3>4. QED
        BY <3>2, <3>3
    <2>2. CASE job[c].op = "resolve"
      <3>1. /\ Takes(i)' = Takes(i) /\ Takes(i) # {} /\ Resolves(i)' = {c}
            /\ rows[i].owner = job[c].reviewer
        <4>1. /\ rows[i].status = "taken" /\ rows[i].owner = job[c].reviewer
              /\ Resolves(i) = {} /\ Takes(i) # {}
          BY <1>1, <1>3, <2>2 DEF StoreInv, RowInv, Permits
        <4>2. Takes(i)' = Takes(i) /\ Resolves(i)' = Resolves(i) \cup {c}
          BY <1>2, <1>5, <2>2 DEF Takes, Resolves
        <4>3. QED
          BY <4>1, <4>2
      <3>2. RowInv'
        <4>1. \A d \in Takes(i)' : rows'[i].owner = job'[d].reviewer
          BY <1>1, <1>2, <1>4, <2>2, <3>1 DEF StoreInv, RowInv
        <4>2. rows'[i].status = "resolved" /\ Takes(i)' # {}
          BY <1>2, <1>4, <2>2, <3>1
        <4>3. QED
          BY <1>2, <1>5, <4>1, <4>2 DEF StoreInv, RowInv
      <3>3. OneTaker'
        BY <1>5, <3>1 DEF StoreInv, OneTaker
      <3>4. OwnerResolves'
        <4>1. \A d \in Takes(i) : job[d].reviewer = job[c].reviewer
          BY <1>1, <3>1 DEF StoreInv, RowInv
        <4>2. QED
          BY <1>2, <1>4, <1>5, <2>2, <3>1, <4>1 DEF StoreInv, OwnerResolves
      <3>5. QED
        BY <3>2, <3>3, <3>4
    <2>3. QED
      BY <1>1, <2>1, <2>2 DEF JobType
  <1>9. QED
    BY <1>6, <1>7, <1>8

\* StoreInv is inductive when the database locks rows.
LEMMA StoreStep ==
  ASSUME RowLocks, StoreInv, [Next]_vars
  PROVE  StoreInv'
  <1>1. TypeOK'
    BY StoreTypeStep DEF StoreInv
  <1>2. ASSUME NEW c \in Calls, Call(c) \/ Die(c)
        PROVE  HoldInv' /\ RowInv' /\ OneTaker' /\ VersionCounts' /\ OwnerResolves'
    <2>1. /\ rows' = rows /\ job' = job /\ seen' = seen
          /\ \A d \in Calls : /\ (pc'[d] = "done") = (pc[d] = "done")
                              /\ pc'[d] = "holding" => pc[d] = "holding"
      BY <1>2 DEF Call, Die, StoreInv, TypeOK
    <2>2. HoldInv'
      BY <2>1 DEF StoreInv, HoldInv
    <2>3. QED
      BY <2>1, <2>2, QuietStep
  <1>3. ASSUME UNCHANGED vars
        PROVE  HoldInv' /\ RowInv' /\ OneTaker' /\ VersionCounts' /\ OwnerResolves'
    <2>1. rows' = rows /\ job' = job /\ pc' = pc /\ seen' = seen
      BY <1>3 DEF vars
    <2>2. HoldInv'
      BY <2>1 DEF StoreInv, HoldInv
    <2>3. QED
      BY <2>1, <2>2, QuietStep
  <1>4. QED
    BY <1>1, <1>2, <1>3, EnqueueStep, SelectStep, CommitStep DEF Next, StoreInv

\* With row locks every reachable state satisfies StoreInv.
LEMMA StoreInvariant == ASSUME RowLocks PROVE Spec => []StoreInv
  <1>1. StoreInv /\ [Next]_vars => StoreInv'
    BY StoreStep
  <1>2. QED
    BY <1>1, StoreInit, PTL DEF Spec
-----------------------------------------------------------------------------
(* What the invariant is for.                                              *)

\* However many reviewers take an item at once, one gets it.
THEOREM OneTakerHolds == ASSUME RowLocks PROVE Spec => []OneTaker
  <1>1. StoreInv => OneTaker
    BY DEF StoreInv
  <1>2. QED
    BY <1>1, StoreInvariant, PTL

\* No update is lost.
THEOREM VersionCountsHolds == ASSUME RowLocks PROVE Spec => []VersionCounts
  <1>1. StoreInv => VersionCounts
    BY DEF StoreInv
  <1>2. QED
    BY <1>1, StoreInvariant, PTL

\* Only the reviewer that took an item has resolved it.
THEOREM OwnerResolvesHolds == ASSUME RowLocks PROVE Spec => []OwnerResolves
  <1>1. StoreInv => OwnerResolves
    BY DEF StoreInv
  <1>2. QED
    BY <1>1, StoreInvariant, PTL

\* A commit changes an item that its call may take or resolve.
LEMMA CommitFacts ==
  ASSUME StoreInv, NEW c \in Calls, Commit(c), NEW i \in Items, i = job[c].item
  PROVE  /\ Permits(job[c], rows[i]) /\ job[c].reviewer \in Reviewers
         /\ \A k \in Items \ {i} : rows'[k] = rows[k]
         /\ \/ /\ rows[i].status = "pending"
               /\ rows'[i].status = "taken" /\ rows'[i].owner = job[c].reviewer
            \/ /\ rows[i].status = "taken" /\ rows[i].owner = job[c].reviewer
               /\ rows'[i].status = "resolved" /\ rows'[i].owner = rows[i].owner
  <1>1. job[c] \in JobType /\ rows[i] \in RowType /\ seen[c] \in RowType
    BY DEF StoreInv, TypeOK, JobType
  <1>2. Permits(job[c], rows[i])
    BY DEF Commit, StoreInv, HoldInv
  <1>3. /\ rows'[i] = Written(job[c], rows[i], seen[c])
        /\ \A k \in Items \ {i} : rows'[k] = rows[k]
    BY <1>1 DEF Commit, StoreInv, TypeOK
  <1>4. rows[i].status # "escalated"
    BY DEF StoreInv, RowInv
  <1>5. QED
    BY <1>1, <1>2, <1>3, <1>4, WrittenType DEF Permits, JobType

\* A resolved item is never opened or rewritten.
THEOREM ResolvedIsTerminalHolds == ASSUME RowLocks PROVE Spec => ResolvedIsTerminal
  <1>1. StoreInv /\ [Next]_vars
          => \A i \in Items : rows[i].status = "resolved" => rows'[i] = rows[i]
    <2> SUFFICES ASSUME StoreInv, [Next]_vars, NEW i \in Items, rows[i].status = "resolved"
                 PROVE  rows'[i] = rows[i]
      OBVIOUS
    <2>1. ASSUME NEW k \in Items, Enqueue(k) PROVE rows'[i] = rows[i]
      BY <2>1 DEF Enqueue, StoreInv, TypeOK
    <2>2. ASSUME NEW c \in Calls, Commit(c) PROVE rows'[i] = rows[i]
      <3>1. PICK k \in Items : k = job[c].item
        BY DEF StoreInv, TypeOK, JobType
      <3>2. k # i
        BY <2>2, <3>1, CommitFacts
      <3>3. QED
        BY <2>2, <3>1, <3>2, CommitFacts
    <2>3. ASSUME NEW c \in Calls, Call(c) \/ Select(c) \/ Die(c) PROVE rows'[i] = rows[i]
      BY <2>3 DEF Call, Select, Die
    <2>4. QED
      BY <2>1, <2>2, <2>3 DEF Next, vars
  <1>2. QED
    BY <1>1, StoreInvariant, PTL DEF Spec, ResolvedIsTerminal

\* A transaction is one step of the queue, or none: the select, the commits that
\* change nothing in the queue and the calls that die are stuttering steps.
THEOREM QueueImplemented == ASSUME RowLocks PROVE Spec => ImplementsQueue
  <1> DEFINE status == [i \in Items |-> rows[i].status]
             owner  == [i \in Items |-> rows[i].owner]
  <1>1. Init => Queue!Init
    BY DEF Init, Queue!Init, Absent
  <1>2. StoreInv /\ [Next]_vars => [Queue!Next]_<<status, owner>>
    <2> SUFFICES ASSUME StoreInv, [Next]_vars, ~UNCHANGED <<status, owner>>
                 PROVE  Queue!Next
      OBVIOUS
    <2>1. ASSUME NEW i \in Items, Enqueue(i) PROVE Queue!Next
      <3>1. /\ rows[i].status = "absent" /\ rows[i].owner = NoOne
            /\ rows'[i].status = "pending" /\ rows'[i].owner = NoOne
            /\ \A k \in Items \ {i} : rows'[k] = rows[k]
        BY <2>1 DEF Enqueue, StoreInv, TypeOK, RowInv
      <3>2. status' = [status EXCEPT ![i] = "pending"] /\ owner' = owner
        BY <3>1
      <3>3. Queue!Offer(i)
        BY <3>1, <3>2 DEF Queue!Offer
      <3>4. QED
        BY <3>3 DEF Queue!Next
    <2>2. ASSUME NEW c \in Calls, Commit(c) PROVE Queue!Next
      <3>1. PICK i \in Items : i = job[c].item
        BY DEF StoreInv, TypeOK, JobType
      <3>r. PICK r \in Reviewers : r = job[c].reviewer
        BY <2>2, <3>1, CommitFacts
      <3>2. \A k \in Items \ {i} : rows'[k] = rows[k]
        BY <2>2, <3>1, CommitFacts
      <3>3. CASE /\ rows[i].status = "pending"
                 /\ rows'[i].status = "taken" /\ rows'[i].owner = r
        <4>1. status' = [status EXCEPT ![i] = "taken"] /\ owner' = [owner EXCEPT ![i] = r]
          BY <3>2, <3>3
        <4>2. Queue!Take(i, r)
          BY <3>3, <4>1 DEF Queue!Take
        <4>3. QED
          BY <3>2, <4>2 DEF Queue!Next
      <3>4. CASE /\ rows[i].status = "taken" /\ rows[i].owner = r
                 /\ rows'[i].status = "resolved" /\ rows'[i].owner = rows[i].owner
        <4>1. status' = [status EXCEPT ![i] = "resolved"] /\ owner' = owner
          BY <3>2, <3>4
        <4>2. Queue!Resolve(i, r)
          BY <3>4, <4>1 DEF Queue!Resolve
        <4>3. QED
          BY <3>2, <4>2 DEF Queue!Next
      <3>5. QED
        BY <2>2, <3>1, <3>r, <3>3, <3>4, CommitFacts
    <2>3. ASSUME rows' = rows PROVE FALSE
      BY <2>3
    <2>4. QED
      BY <2>1, <2>2, <2>3 DEF Next, vars, Call, Select, Die
  <1>3. QED
    BY <1>1, <1>2, StoreInvariant, PTL DEF Spec, ImplementsQueue, Queue!Spec
-----------------------------------------------------------------------------
(* What holds whether or not the database locks rows.                      *)

Takers(i) == {job[d].reviewer : d \in Takes(i)}
VersionOf(status) == IF status = "absent" THEN 0 ELSE IF status = "pending" THEN 1
                     ELSE IF status = "taken" THEN 2 ELSE 3

\* A row as some sequence of commits can have left it.
Plausible(takers, row) ==
  /\ row.status \in {"absent", "pending", "taken", "resolved"}
  /\ row.version = VersionOf(row.status)
  /\ row.owner \in takers \cup {NoOne}

\* A call that is to write read a plausible row, which may be gone by now.
UnlockedInv ==
  /\ \A i \in Items : Plausible(Takers(i), rows[i])
  /\ \A c \in Calls : pc[c] = "holding" =>
       Plausible(Takers(job[c].item), seen[c]) /\ Permits(job[c], seen[c])
  /\ \A i \in Items : \A c \in Resolves(i) : job[c].reviewer \in Takers(i)

\* Initially no call has been made.
LEMMA UnlockedInit == Init => UnlockedInv
  BY DEF Init, UnlockedInv, Plausible, VersionOf, Absent, Resolves, Committed

\* A commit adds its reviewer to the takers if it is a take, and loses none.
LEMMA TakersStep ==
  ASSUME TypeOK, [Next]_vars
  PROVE  /\ job' = job
         /\ \A i \in Items : Takers(i) \subseteq Takers(i)'
         /\ \A c \in Calls : Commit(c) /\ job[c].op = "take" =>
              job[c].reviewer \in Takers(job[c].item)'
  <1>1. job' = job /\ \A d \in Calls : pc[d] = "done" => pc'[d] = "done"
    BY DEF TypeOK, Next, vars, Enqueue, Call, Select, Commit, Die
  <1>2. \A c \in Calls : Commit(c) => pc'[c] = "done"
    BY DEF Commit, TypeOK
  <1>3. \A i \in Items : Takes(i) \subseteq Takes(i)'
    BY <1>1 DEF Takes, Committed
  <1>4. \A c \in Calls : Commit(c) /\ job[c].op = "take" => c \in Takes(job[c].item)'
    BY <1>1, <1>2 DEF Takes, Committed
  <1>5. QED
    BY <1>1, <1>3, <1>4 DEF Takers

\* What a commit writes over a plausible row is plausible, stale or not.
LEMMA UnlockedCommit ==
  ASSUME TypeOK, UnlockedInv, NEW c \in Calls, Commit(c), NEW i \in Items, i = job[c].item
  PROVE  /\ rows'[i] = Written(job[c], rows[i], seen[c])
         /\ \A k \in Items \ {i} : rows'[k] = rows[k]
         /\ Plausible(Takers(i)', rows'[i])
         /\ job[c].op = "take" => rows'[i].owner = job[c].reviewer /\ seen[c].status = "pending"
         /\ job[c].op = "resolve" => /\ job[c].reviewer \in Takers(i)
                                     /\ rows'[i].owner = rows[i].owner
                                     /\ rows'[i].version = 3
                                     /\ rows'[i].status = "resolved"
  <1>1. job[c] \in JobType /\ rows[i] \in RowType /\ seen[c] \in RowType
    BY DEF TypeOK, JobType
  <1>2. rows' = [rows EXCEPT ![i] = Written(job[c], @, seen[c])]
    BY DEF Commit
  <1>3. rows'[i] = Written(job[c], rows[i], seen[c]) /\ \A k \in Items \ {i} : rows'[k] = rows[k]
    BY <1>2 DEF TypeOK
  <1>4. Plausible(Takers(i), seen[c]) /\ Permits(job[c], seen[c]) /\ Plausible(Takers(i), rows[i])
    BY DEF Commit, UnlockedInv
  <1>5. job' = job /\ Takers(i) \subseteq Takers(i)'
        /\ (job[c].op = "take" => job[c].reviewer \in Takers(i)')
    BY TakersStep DEF Next
  <1>6. CASE job[c].op = "take"
    <2>1. seen[c].status = "pending" /\ seen[c].version = 1
      BY <1>4, <1>6 DEF Permits, Plausible, VersionOf
    <2>2. /\ rows'[i].status = "taken" /\ rows'[i].owner = job[c].reviewer
          /\ rows'[i].version = 2
      BY <1>1, <1>3, <1>6, <2>1, WrittenType
    <2>3. QED
      BY <1>3, <1>5, <1>6, <2>1, <2>2 DEF Plausible, VersionOf
  <1>7. CASE job[c].op = "resolve"
    <2>1. seen[c].status = "taken" /\ seen[c].version = 2 /\ job[c].reviewer = seen[c].owner
      BY <1>4, <1>7 DEF Permits, Plausible, VersionOf
    <2>2. job[c].reviewer \in Takers(i)
      BY <1>1, <1>4, <2>1, StoreAssumptions DEF Plausible, JobType
    <2>3. /\ rows'[i].status = "resolved" /\ rows'[i].owner = rows[i].owner
          /\ rows'[i].version = 3
      BY <1>1, <1>3, <1>7, <2>1, WrittenType
    <2>4. Plausible(Takers(i)', rows'[i])
      BY <1>4, <1>5, <2>3 DEF Plausible, VersionOf
    <2>5. QED
      BY <1>3, <1>7, <2>2, <2>3, <2>4
  <1>8. QED
    BY <1>1, <1>6, <1>7 DEF JobType

\* Every step keeps rows and pending writes plausible.
LEMMA UnlockedStep ==
  ASSUME TypeOK, UnlockedInv, [Next]_vars
  PROVE  UnlockedInv'
  <1>0. job' = job /\ \A i \in Items : Takers(i) \subseteq Takers(i)'
    BY TakersStep
  <1>1. \A c \in Calls : job[c].item \in Items /\ seen[c] \in RowType
    BY DEF TypeOK, JobType
  <1>2. \A i \in Items, row \in RowType : Plausible(Takers(i), row) => Plausible(Takers(i)', row)
    BY <1>0 DEF Plausible
  <1>3. \A i \in Items : Plausible(Takers(i)', rows'[i])
    <2> SUFFICES ASSUME NEW i \in Items PROVE Plausible(Takers(i)', rows'[i])
      OBVIOUS
    <2>1. CASE rows'[i] = rows[i]
      BY <1>2, <2>1 DEF UnlockedInv, TypeOK
    <2>2. ASSUME NEW k \in Items, Enqueue(k), rows'[i] # rows[i] PROVE Plausible(Takers(i)', rows'[i])
      BY <2>2 DEF Enqueue, TypeOK, Plausible, VersionOf
    <2>3. ASSUME NEW c \in Calls, Commit(c), rows'[i] # rows[i] PROVE Plausible(Takers(i)', rows'[i])
      <3>1. PICK k \in Items : k = job[c].item
        BY <1>1
      <3>2. QED
        BY <2>3, <3>1, UnlockedCommit
    <2>4. QED
      BY <2>1, <2>2, <2>3 DEF Next, vars, Call, Select, Die
  <1>4. ASSUME NEW c \in Calls, pc'[c] = "holding"
        PROVE  Plausible(Takers(job[c].item)', seen'[c]) /\ Permits(job[c], seen'[c])
    <2>1. PICK i \in Items : i = job[c].item
      BY <1>1
    <2>2. CASE pc[c] = "holding" /\ seen'[c] = seen[c]
      <3>1. Plausible(Takers(i), seen[c]) /\ Permits(job[c], seen[c])
        BY <2>1, <2>2 DEF UnlockedInv
      <3>2. Plausible(Takers(i)', seen'[c]) /\ Permits(job[c], seen'[c])
        BY <1>1, <1>2, <2>2, <3>1
      <3>3. QED
        BY <1>0, <2>1, <3>2
    <2>3. CASE Select(c)
      <3>1. seen'[c] = rows[i] /\ Permits(job[c], rows[i])
        BY <1>4, <2>1, <2>3 DEF Select, TypeOK
      <3>2. Plausible(Takers(i)', rows[i])
        BY <1>2 DEF UnlockedInv, TypeOK
      <3>3. QED
        BY <1>0, <2>1, <3>1, <3>2
    <2>4. (pc[c] = "holding" /\ seen'[c] = seen[c]) \/ Select(c)
      BY <1>4 DEF TypeOK, Next, vars, Enqueue, Call, Select, Commit, Die
    <2>5. QED
      BY <2>2, <2>3, <2>4
  <1>5. ASSUME NEW i \in Items, NEW c \in Resolves(i)' PROVE job[c].reviewer \in Takers(i)'
    <2>1. CASE c \in Resolves(i)
      BY <1>0, <2>1 DEF UnlockedInv
    <2>2. CASE c \notin Resolves(i)
      <3>1. /\ c \in Calls /\ job[c].item = i /\ job[c].op = "resolve"
            /\ pc'[c] = "done" /\ pc[c] # "done"
        BY <1>0, <2>2 DEF Resolves, Committed
      <3>2. Commit(c)
        BY <3>1 DEF TypeOK, Next, vars, Enqueue, Call, Select, Commit, Die
      <3>3. QED
        BY <1>0, <3>1, <3>2, UnlockedCommit
    <2>3. QED
      BY <2>1, <2>2
  <1>6. QED
    BY <1>0, <1>3, <1>4, <1>5 DEF UnlockedInv, Plausible

\* Locks or none, every reachable state satisfies UnlockedInv.
LEMMA UnlockedInvariant == Spec => [](TypeOK /\ UnlockedInv)
  BY StoreTypeInit, StoreTypeStep, UnlockedInit, UnlockedStep, PTL DEF Spec

\* Over any database, a resolution and an owner have a committed take behind them.
THEOREM TakerResolvesHolds == Spec => []TakerResolves
  <1>1. UnlockedInv => TakerResolves
    BY DEF UnlockedInv, TakerResolves, Plausible, Takers
  <1>2. QED
    BY <1>1, UnlockedInvariant, PTL

\* Over any database, lost updates included, the version adds nothing to the status.
THEOREM VersionFollowsStatusHolds == Spec => []VersionFollowsStatus
  <1>1. UnlockedInv => VersionFollowsStatus
    BY DEF UnlockedInv, VersionFollowsStatus, Plausible, VersionOf
  <1>2. QED
    BY <1>1, UnlockedInvariant, PTL

\* Over any database, only a take that read the item while it was pending reopens it.
THEOREM ReopenedByStaleTakeHolds == Spec => ReopenedByStaleTake
  <1>1. ASSUME TypeOK, UnlockedInv, [Next]_vars,
               NEW i \in Items, rows[i].status = "resolved", rows'[i] # rows[i]
        PROVE  \E c \in Calls : /\ pc[c] = "holding"
                                /\ job[c] = [op |-> "take", item |-> i,
                                             reviewer |-> rows'[i].owner]
                                /\ seen[c].status = "pending"
    <2>1. ~\E k \in Items : Enqueue(k) /\ k = i
      BY <1>1 DEF Enqueue, TypeOK
    <2>2. PICK c \in Calls : Commit(c)
      BY <1>1, <2>1 DEF Next, vars, Enqueue, Call, Select, Die, TypeOK
    <2>3. PICK k \in Items : k = job[c].item
      BY <1>1 DEF TypeOK, JobType
    <2>4. k = i
      BY <1>1, <2>2, <2>3, UnlockedCommit
    <2>5. /\ i = job[c].item /\ job[c] \in JobType /\ pc[c] = "holding"
          /\ rows[i] \in RowType /\ rows'[i] = Written(job[c], rows[i], seen[c])
          /\ job[c].op = "take" => rows'[i].owner = job[c].reviewer /\ seen[c].status = "pending"
          /\ job[c].op = "resolve" => rows'[i].version = 3
      <3>1. job[c] \in JobType /\ pc[c] = "holding" /\ rows[i] \in RowType
        BY <1>1, <2>2 DEF TypeOK, Commit
      <3>2. QED
        BY <1>1, <2>2, <2>3, <2>4, <3>1, UnlockedCommit
    <2>6. job[c].op = "take"
      <3>1. CASE job[c].op = "resolve"
        <4>1. rows'[i] = [rows[i] EXCEPT !.status = "resolved", !.version = seen[c].version + 1]
          BY <2>5, <3>1 DEF Written
        <4>2. rows[i].version = 3 /\ rows'[i].version = 3
          BY <1>1, <2>5, <3>1 DEF UnlockedInv, Plausible, VersionOf
        <4>3. seen[c].version + 1 = 3
          BY <2>5, <4>1, <4>2 DEF RowType
        <4>4. \A row \in RowType : \A n : row.status = "resolved" /\ row.version = 3 /\ n = 3 =>
                [row EXCEPT !.status = "resolved", !.version = n] = row
          BY DEF RowType
        <4>5. rows'[i] = rows[i]
          BY <1>1, <2>5, <4>1, <4>2, <4>3, <4>4
        <4>6. QED
          BY <1>1, <4>5
      <3>2. QED
        BY <2>5, <3>1 DEF JobType
    <2>7. job[c] = [op |-> "take", item |-> i, reviewer |-> rows'[i].owner]
      <3>1. \A j \in JobType : j = [op |-> j.op, item |-> j.item, reviewer |-> j.reviewer]
        BY DEF JobType
      <3>2. QED
        BY <2>5, <2>6, <3>1
    <2>8. seen[c].status = "pending"
      BY <2>5, <2>6
    <2>9. QED
      BY <2>5, <2>7, <2>8, Zenon
  <1>2. TypeOK /\ UnlockedInv /\ [Next]_vars =>
          \A i \in Items : rows[i].status = "resolved" /\ rows'[i] # rows[i] =>
            \E c \in Calls : /\ pc[c] = "holding"
                            /\ job[c] = [op |-> "take", item |-> i,
                                         reviewer |-> rows'[i].owner]
                            /\ seen[c].status = "pending"
    BY <1>1
  <1>3. QED
    BY <1>2, UnlockedInvariant, PTL DEF Spec, ReopenedByStaleTake
=============================================================================
