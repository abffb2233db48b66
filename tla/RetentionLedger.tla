--------------------------- MODULE RetentionLedger --------------------------
(***************************************************************************)
(* What the audit packets and their purge promise, without transactions,   *)
(* locks or an order of deletes: a packet is written once and stays as it  *)
(* is; a purge takes, in one step, every packet of its tenant that was     *)
(* past its term on the day the purge was asked for, and no other, and     *)
(* leaves a manifest of what it took.                                      *)
(***************************************************************************)
EXTENDS Integers

CONSTANTS Packets,
          Purges,
          Tenants, NoTenant,
          Term,     \* the days a packet is kept, by its verdict
          MaxDay    \* bound on the calendar

VARIABLES today, packet, written, stored,
          manifest  \* of each purge: whose packets, as of which day, which ones

NoManifest == [made |-> FALSE, tenant |-> NoTenant, day |-> 0, packets |-> {}]

Init ==
  /\ today = 0
  /\ packet = [k \in Packets |-> [tenant |-> NoTenant, verdict |-> "allow", day |-> 0]]
  /\ written = {} /\ stored = {}
  /\ manifest = [p \in Purges |-> NoManifest]

Tick ==
  /\ today < MaxDay
  /\ today' = today + 1
  /\ UNCHANGED <<packet, written, stored, manifest>>

Append(k, t, v) ==
  /\ k \notin written
  /\ written' = written \cup {k} /\ stored' = stored \cup {k}
  /\ packet' = [packet EXCEPT ![k] = [tenant |-> t, verdict |-> v, day |-> today]]
  /\ UNCHANGED <<today, manifest>>

\* The packets of a tenant that are past their term on a day.
PastTerm(t, day) ==
  {k \in stored : packet[k].tenant = t /\ packet[k].day + Term[packet[k].verdict] < day}

Purge(p, t, day) ==
  /\ ~manifest[p].made
  /\ manifest' = [manifest EXCEPT ![p] =
       [made |-> TRUE, tenant |-> t, day |-> day, packets |-> PastTerm(t, day)]]
  /\ stored' = stored \ PastTerm(t, day)
  /\ UNCHANGED <<today, packet, written>>

Next == \/ Tick
        \/ \E k \in Packets, t \in Tenants, v \in {"allow", "deny"} : Append(k, t, v)
        \/ \E p \in Purges, t \in Tenants, day \in 0..today : Purge(p, t, day)

Spec == Init /\ [][Next]_<<today, packet, written, stored, manifest>>
=============================================================================
