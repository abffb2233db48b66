--------------------------- MODULE AuditRetention ---------------------------
(***************************************************************************)
(* The audit packets of the database and their purge (persistence.py).     *)
(* An evaluation appends its packet in a transaction; an administrator     *)
(* purges a tenant (cli.py, maintenance purge) in one transaction, a       *)
(* DELETE per retention class and then the manifest that counts what went. *)
(* Purges of one tenant may run at the same time.  A deleted row stays     *)
(* locked, and visible to the others, until its transaction ends.          *)
(* A DELETE locks its rows in one step here; PostgreSQL locks them one at  *)
(* a time, so two DELETEs of one class that meet in the middle (its        *)
(* deadlock detector fails one of them) are not in the model, Fail aside.  *)
(*                                                                         *)
(* Only the gate appends packets, so a row is of class "audit" or "ops":   *)
(* the purge's third DELETE never finds one.                               *)
(***************************************************************************)
EXTENDS Integers, Sequences

CONSTANTS Packets,    \* audit packets, one per evaluation
          Purges,     \* calls of purge_expired, each made once
          Tenants, NoTenant,
          Retention,  \* RETENTION_DAYS: the days a class is kept
          MaxDay      \* bound on the calendar

Classes == {"audit", "ops", "pii-sensitive"}
Rounds  == 3   \* a DELETE per class

ASSUME RetentionAssumptions ==
  /\ Retention \in [Classes -> Nat]
  /\ Retention["ops"] <= Retention["audit"]
  /\ MaxDay \in Nat

VARIABLES
  today,
  packet,    \* what each packet is: its tenant and verdict, and the day it was appended
  written,   \* the packets appended so far
  stored,    \* the packets in the table, as committed
  tenant,    \* whose packets each purge asks for
  status,    \* of a purge: "idle", "deleting", "done" (its manifest is stored) or "failed"
  now,       \* the day a purge computed its cutoffs on
  round,     \* how many of its DELETEs a purge has made
  deleted    \* the rows a purge deleted: what its manifest counts

vars == <<today, packet, written, stored, tenant, status, now, round, deleted>>

PacketType == [tenant : Tenants \cup {NoTenant}, verdict : {"allow", "deny"}, day : 0..MaxDay]

Init ==
  /\ today = 0
  /\ packet = [k \in Packets |-> [tenant |-> NoTenant, verdict |-> "allow", day |-> 0]]
  /\ written = {} /\ stored = {}
  /\ tenant = [p \in Purges |-> NoTenant]
  /\ status = [p \in Purges |-> "idle"]
  /\ now = [p \in Purges |-> 0]
  /\ round = [p \in Purges |-> 0]
  /\ deleted = [p \in Purges |-> {}]

\* The class the gate stores a packet under; "deny" stands for every verdict but allow.
RetentionClass(verdict) == IF verdict = "allow" THEN "ops" ELSE "audit"

\* Mutant: the day a packet expires is stored for the day it was created.
AppendPacket_Expiry(k, t, v) ==
  /\ k \notin written
  /\ written' = written \cup {k} /\ stored' = stored \cup {k}
  /\ packet' = [packet EXCEPT ![k] = [tenant |-> t, verdict |-> v, day |-> today + Retention[RetentionClass(v)]]]
  /\ UNCHANGED <<today, tenant, status, now, round, deleted>>

(* append_audit_packet.                                                    *)
AppendPacket(k, t, v) ==
  /\ k \notin written
  /\ written' = written \cup {k} /\ stored' = stored \cup {k}
  /\ packet' = [packet EXCEPT ![k] = [tenant |-> t, verdict |-> v, day |-> today]]
  /\ UNCHANGED <<today, tenant, status, now, round, deleted>>

Tick ==
  /\ today < MaxDay
  /\ today' = today + 1
  /\ UNCHANGED <<packet, written, stored, tenant, status, now, round, deleted>>

(* purge_expired: the cutoffs are computed once, before the transaction.   *)
Begin(p, t) ==
  /\ status[p] = "idle"
  /\ tenant' = [tenant EXCEPT ![p] = t]
  /\ status' = [status EXCEPT ![p] = "deleting"]
  /\ now' = [now EXCEPT ![p] = today]
  /\ UNCHANGED <<today, packet, written, stored, round, deleted>>

\* Mutant: the classes are gone through in no fixed order.
ClassAt_AnyOrder(p) ==
  IF p = CHOOSE q \in Purges : TRUE
  THEN <<"audit", "ops", "pii-sensitive">>[round[p] + 1]
  ELSE <<"ops", "audit", "pii-sensitive">>[round[p] + 1]

\* The class of a purge's next DELETE: RETENTION_DAYS in its order.
ClassAt(p) == <<"audit", "ops", "pii-sensitive">>[round[p] + 1]

\* Mutant: a packet goes on its last day.
Due_LastDay(p, class) == {k \in stored :
  /\ packet[k].tenant = tenant[p]
  /\ RetentionClass(packet[k].verdict) = class
  /\ packet[k].day <= now[p] - Retention[class]}

\* What a DELETE matches: the tenant's rows of a class created before its cutoff.
Due(p, class) == {k \in stored :
  /\ packet[k].tenant = tenant[p]
  /\ RetentionClass(packet[k].verdict) = class
  /\ packet[k].day < now[p] - Retention[class]}

Locked(k) == \E p \in Purges : status[p] = "deleting" /\ k \in deleted[p]

\* Mutant: a DELETE counts rows that another purge has already deleted.
Delete_NoLock(p) ==
  /\ status[p] = "deleting" /\ round[p] < Rounds
  /\ deleted' = [deleted EXCEPT ![p] = @ \cup Due(p, ClassAt(p))]
  /\ round' = [round EXCEPT ![p] = @ + 1]
  /\ UNCHANGED <<today, packet, written, stored, tenant, status, now>>

\* Mutant: each DELETE is a transaction of its own.
Delete_Commits(p) ==
  /\ status[p] = "deleting" /\ round[p] < Rounds
  /\ deleted' = [deleted EXCEPT ![p] = @ \cup Due(p, ClassAt(p))]
  /\ stored' = stored \ Due(p, ClassAt(p))
  /\ round' = [round EXCEPT ![p] = @ + 1]
  /\ UNCHANGED <<today, packet, written, tenant, status, now>>

\* Mutant: a DELETE passes over the rows another purge has locked.
Delete_Skips(p) ==
  /\ status[p] = "deleting" /\ round[p] < Rounds
  /\ deleted' = [deleted EXCEPT ![p] = @ \cup {k \in Due(p, ClassAt(p)) : ~Locked(k)}]
  /\ round' = [round EXCEPT ![p] = @ + 1]
  /\ UNCHANGED <<today, packet, written, stored, tenant, status, now>>

(* One DELETE, which waits for the rows another purge has locked.          *)
Delete(p) ==
  /\ status[p] = "deleting" /\ round[p] < Rounds
  /\ \A k \in Due(p, ClassAt(p)) : ~Locked(k)
  /\ deleted' = [deleted EXCEPT ![p] = @ \cup Due(p, ClassAt(p))]
  /\ round' = [round EXCEPT ![p] = @ + 1]
  /\ UNCHANGED <<today, packet, written, stored, tenant, status, now>>

(* The manifest and the commit.                                            *)
Commit(p) ==
  /\ status[p] = "deleting" /\ round[p] = Rounds
  /\ status' = [status EXCEPT ![p] = "done"]
  /\ stored' = stored \ deleted[p]
  /\ UNCHANGED <<today, packet, written, tenant, now, round, deleted>>

(* A DELETE, the manifest or the connection fails: a rollback, which       *)
(* leaves nothing of the call.                                             *)
Fail(p) ==
  /\ status[p] = "deleting"
  /\ status' = [status EXCEPT ![p] = "failed"]
  /\ tenant' = [tenant EXCEPT ![p] = NoTenant]
  /\ now' = [now EXCEPT ![p] = 0]
  /\ round' = [round EXCEPT ![p] = 0]
  /\ deleted' = [deleted EXCEPT ![p] = {}]
  /\ UNCHANGED <<today, packet, written, stored>>

Next == \/ Tick
        \/ \E k \in Packets, t \in Tenants, v \in {"allow", "deny"} : AppendPacket(k, t, v)
        \/ \E p \in Purges, t \in Tenants : Begin(p, t)
        \/ \E p \in Purges : Delete(p) \/ Commit(p) \/ Fail(p)

Spec == Init /\ [][Next]_vars

\* A purge under way goes on when the database lets it; nobody has to start one.
FairSpec == Spec /\ \A p \in Purges : WF_vars(Delete(p)) /\ WF_vars(Commit(p))
-----------------------------------------------------------------------------
Manifests == {p \in Purges : status[p] = "done"}
Expired(k, day) == packet[k].day + Retention[RetentionClass(packet[k].verdict)] < day

\* The state is well typed.
TypeOK ==
  /\ today \in 0..MaxDay
  /\ packet \in [Packets -> PacketType]
  /\ stored \subseteq written /\ written \subseteq Packets
  /\ tenant \in [Purges -> Tenants \cup {NoTenant}]
  /\ status \in [Purges -> {"idle", "deleting", "done", "failed"}]
  /\ now \in [Purges -> 0..MaxDay]
  /\ round \in [Purges -> 0..Rounds]
  /\ deleted \in [Purges -> SUBSET Packets]

\* Every packet that is gone is counted by one manifest, and only packets that are gone
\* are: purges that overlap never count a row twice, and one that fails takes none.
LossesAreCounted ==
  /\ \A k \in written \ stored : \E p \in Manifests : k \in deleted[p]
  /\ \A p \in Manifests : deleted[p] \cap stored = {}
  /\ \A p, q \in Manifests : p # q => deleted[p] \cap deleted[q] = {}

\* A packet leaves the table only after the days its verdict is kept for, and only by a
\* purge its own tenant asked for.
KeptItsTerm == [][\A k \in stored \ stored' :
  /\ Expired(k, today)
  /\ \E p \in Purges : p \in Manifests' \ Manifests /\ tenant[p] = packet[k].tenant]_vars

\* A tenant's record thins out from its allows: once a refusal's packet is gone, so is
\* the packet of every allow of that day and before.
AllowsGoFirst == \A k \in written \ stored, l \in stored :
  /\ packet[k].verdict = "deny" /\ packet[l].verdict = "allow"
  /\ packet[k].tenant = packet[l].tenant
  => packet[k].day < packet[l].day

\* The transactions implement RetentionLedger: a purge that is done has taken, as if at
\* once, all that was past its term on the day it began, though others deleted, failed
\* and appended between its DELETEs.
Ledger == INSTANCE RetentionLedger WITH
  Term     <- [v \in {"allow", "deny"} |-> Retention[RetentionClass(v)]],
  manifest <- [p \in Purges |->
    IF p \in Manifests
    THEN [made |-> TRUE, tenant |-> tenant[p], day |-> now[p], packets |-> deleted[p]]
    ELSE [made |-> FALSE, tenant |-> NoTenant, day |-> 0, packets |-> {}]]
ImplementsLedger == Ledger!Spec

\* A purge waits only for one that is further along, so one of those under way can
\* always go on: purge_expired goes through the classes in one order, which keeps the
\* locks of different classes from forming a circle.
SomePurgeCanGoOn ==
  LET running == {p \in Purges : status[p] = "deleting"}
  IN  running # {} => \E p \in running :
        round[p] < Rounds => \A k \in Due(p, ClassAt(p)) : ~Locked(k)

\* Every purge ends, however many run at once: none waits for another for ever.
EveryPurgeEnds == \A p \in Purges : status[p] = "deleting" ~> status[p] \in {"done", "failed"}
=============================================================================
