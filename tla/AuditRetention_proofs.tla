------------------------ MODULE AuditRetention_proofs ------------------------
(***************************************************************************)
(* Proofs about AuditRetention, for any packets, purges and calendar, and  *)
(* any retention that keeps a refusal at least as long as an allow.        *)
(***************************************************************************)
EXTENDS AuditRetention, TLAPS

-----------------------------------------------------------------------------
(* Type correctness.                                                       *)

\* Initially nothing is written.
LEMMA RetentionTypeInit == Init => TypeOK
  BY RetentionAssumptions DEF Init, TypeOK, PacketType, Rounds

\* Every step keeps the state well typed.
LEMMA RetentionTypeStep == TypeOK /\ [Next]_vars => TypeOK'
  <1> SUFFICES ASSUME TypeOK, [Next]_vars PROVE TypeOK'
    OBVIOUS
  <1> USE RetentionAssumptions
  <1>1. CASE Tick
    BY <1>1 DEF TypeOK, Tick
  <1>2. ASSUME NEW k \in Packets, NEW t \in Tenants, NEW v \in {"allow", "deny"},
               AppendPacket(k, t, v)
        PROVE TypeOK'
    <2> DEFINE new == [tenant |-> t, verdict |-> v, day |-> today]
    <2>1. new \in PacketType
      BY DEF TypeOK, PacketType
    <2>2. packet' = [packet EXCEPT ![k] = new]
      BY <1>2 DEF AppendPacket
    <2> HIDE DEF new
    <2>3. packet' \in [Packets -> PacketType]
      BY <2>1, <2>2 DEF TypeOK
    <2>4. QED
      BY <1>2, <2>3 DEF TypeOK, AppendPacket
  <1>3. ASSUME NEW p \in Purges, NEW t \in Tenants, Begin(p, t) PROVE TypeOK'
    BY <1>3 DEF TypeOK, Begin
  <1>4. ASSUME NEW p \in Purges, Delete(p) PROVE TypeOK'
    <2>1. Due(p, ClassAt(p)) \subseteq Packets
      BY DEF Due, TypeOK
    <2>2. round[p] + 1 \in 0..Rounds
      BY <1>4 DEF Delete, TypeOK, Rounds
    <2>3. deleted[p] \cup Due(p, ClassAt(p)) \in SUBSET Packets
      BY <2>1 DEF TypeOK
    <2>4. deleted' \in [Purges -> SUBSET Packets] /\ round' \in [Purges -> 0..Rounds]
      BY <1>4, <2>2, <2>3 DEF Delete, TypeOK
    <2>5. QED
      BY <1>4, <2>4 DEF TypeOK, Delete
  <1>5. ASSUME NEW p \in Purges, Commit(p) PROVE TypeOK'
    BY <1>5 DEF TypeOK, Commit
  <1>6. ASSUME NEW p \in Purges, Fail(p) PROVE TypeOK'
    BY <1>6 DEF TypeOK, Fail, Rounds
  <1>7. ASSUME UNCHANGED vars PROVE TypeOK'
    BY <1>7 DEF TypeOK, vars
  <1>8. QED
    BY <1>1, <1>2, <1>3, <1>4, <1>5, <1>6, <1>7 DEF Next

\* The store of audit packets is well typed in every reachable state.
THEOREM RetentionTypeCorrect == Spec => []TypeOK
  BY RetentionTypeInit, RetentionTypeStep, PTL DEF Spec
-----------------------------------------------------------------------------
(* The inductive invariant.                                                *)

\* A purge that has not begun, or has failed, holds nothing; one under way is some
\* tenant's and holds rows that are still stored; one that is done has taken them away.
HoldsInv == \A p \in Purges :
  /\ status[p] = "idle" => round[p] = 0
  /\ status[p] \in {"idle", "failed"} => deleted[p] = {}
  /\ status[p] \in {"deleting", "done"} => tenant[p] \in Tenants
  /\ status[p] = "deleting" => deleted[p] \subseteq stored
  /\ status[p] = "done" => deleted[p] \cap stored = {} /\ round[p] = Rounds

\* No row is held by two purges.
ApartInv == \A p, q \in Purges : p # q => deleted[p] \cap deleted[q] = {}

\* What a purge holds was its tenant's, and due when the purge began.
DueInv == \A p \in Purges :
  /\ now[p] <= today
  /\ \A k \in deleted[p] : k \in written /\ packet[k].tenant = tenant[p] /\ Expired(k, now[p])

\* What is gone was taken by a purge that is done.
GoneInv == \A k \in written \ stored : \E p \in Manifests : k \in deleted[p]

\* Has a purge made its DELETE of a class?
Past(p, class) == \/ class = "audit" /\ round[p] >= 1
                  \/ class = "ops" /\ round[p] >= 2

\* A purge holds every packet of its tenant that was due, of the classes it is past.
SweptInv == \A p \in Purges : status[p] \in {"deleting", "done"} =>
  \A l \in stored : /\ Past(p, RetentionClass(packet[l].verdict))
                    /\ packet[l].tenant = tenant[p]
                    /\ Expired(l, now[p])
                    => l \in deleted[p]

\* A purge holds rows only of the classes it is past.
HeldInv == \A p \in Purges : \A k \in deleted[p] : Past(p, RetentionClass(packet[k].verdict))

Inv == TypeOK /\ HoldsInv /\ ApartInv /\ DueInv /\ GoneInv /\ SweptInv /\ HeldInv

\* The purge goes through the classes in one order.
LEMMA ClassOrder ==
  ASSUME NEW p \in Purges, round[p] \in 0..Rounds, round[p] < Rounds
  PROVE  /\ ClassAt(p) \in Classes
         /\ round[p] = 0 <=> ClassAt(p) = "audit"
         /\ round[p] = 1 <=> ClassAt(p) = "ops"
  <1>1. round[p] = 0 \/ round[p] = 1 \/ round[p] = 2
    BY DEF Rounds
  <1>2. QED
    BY <1>1 DEF ClassAt, Classes

\* What a DELETE matches is expired.
LEMMA DueExpired ==
  ASSUME TypeOK, NEW p \in Purges, NEW c \in Classes, NEW k \in Packets
  PROVE  k \in Due(p, c) <=> /\ k \in stored
                             /\ packet[k].tenant = tenant[p]
                             /\ RetentionClass(packet[k].verdict) = c
                             /\ Expired(k, now[p])
  <1>1. Retention[c] \in Nat
    BY RetentionAssumptions
  <1>2. packet[k].day \in Nat /\ now[p] \in Nat
    BY RetentionAssumptions DEF TypeOK, PacketType
  <1>3. QED
    BY <1>1, <1>2 DEF Due, Expired

\* Initially the invariant holds.
LEMMA RetentionInit == Init => Inv
  <1> SUFFICES ASSUME Init PROVE Inv
    OBVIOUS
  <1>1. HoldsInv /\ ApartInv /\ DueInv /\ GoneInv /\ SweptInv /\ HeldInv
    BY DEF Init, HoldsInv, ApartInv, DueInv, GoneInv, SweptInv, HeldInv
  <1>2. QED
    BY <1>1, RetentionTypeInit DEF Inv

\* A new packet disturbs nothing: no purge holds it, and it is not due.
LEMMA RetentionAppend ==
  ASSUME Inv, NEW k \in Packets, NEW t \in Tenants, NEW v \in {"allow", "deny"},
         AppendPacket(k, t, v), TypeOK'
  PROVE  Inv'
  <1> USE DEF Inv
  <1>0. k \notin written /\ written' = written \cup {k} /\ stored' = stored \cup {k}
        /\ UNCHANGED <<today, tenant, status, now, round, deleted>>
    BY DEF AppendPacket
  <1>1. packet'[k] = [tenant |-> t, verdict |-> v, day |-> today]
    BY DEF AppendPacket, TypeOK
  <1>2. \A l \in written : packet'[l] = packet[l]
    BY DEF AppendPacket, TypeOK
  <1>3. \A l \in written, d \in Nat : Expired(l, d)' <=> Expired(l, d)
    BY <1>2 DEF Expired
  <1>4. \A p \in Purges : k \notin deleted[p] /\ now[p] \in Nat
    BY <1>0, RetentionAssumptions DEF DueInv, TypeOK
  <1>5. HoldsInv'
    BY <1>0, <1>4 DEF HoldsInv
  <1>6. ApartInv'
    BY <1>0 DEF ApartInv
  <1>7. DueInv'
    BY <1>0, <1>2 DEF DueInv, Expired
  <1>8. GoneInv'
    BY <1>0 DEF GoneInv, Manifests
  <1>9. SweptInv'
    <2> SUFFICES ASSUME NEW p \in Purges, status[p] \in {"deleting", "done"},
                        NEW l \in stored', Past(p, RetentionClass(packet'[l].verdict)),
                        packet'[l].tenant = tenant[p], Expired(l, now[p])'
                 PROVE  l \in deleted[p]
      BY <1>0 DEF SweptInv, Expired, Past
    <2>1. CASE l = k
      <3>1. packet'[k].day = today /\ now[p] <= today /\ today \in Nat /\ now[p] \in Nat
        BY <1>1, RetentionAssumptions DEF DueInv, TypeOK
      <3>2. Retention[RetentionClass(packet'[k].verdict)] \in Nat
        BY RetentionAssumptions DEF RetentionClass, Classes
      <3>3. ~Expired(k, now[p])'
        BY <1>0, <3>1, <3>2 DEF Expired
      <3>4. QED
        BY <2>1, <3>3
    <2>2. CASE l # k
      <3>1. l \in stored /\ l \in written
        BY <1>0, <2>2 DEF TypeOK
      <3>2. Expired(l, now[p]) /\ packet'[l] = packet[l]
        BY <1>0, <1>2, <3>1 DEF Expired
      <3>3. QED
        BY <3>1, <3>2 DEF SweptInv
    <2>3. QED
      BY <2>1, <2>2
  <1>10. HeldInv'
    <2>1. \A p \in Purges : deleted[p] \subseteq written
      BY DEF DueInv
    <2>2. QED
      BY <1>0, <1>2, <2>1 DEF HeldInv, Past
  <1>11. QED
    BY <1>5, <1>6, <1>7, <1>8, <1>9, <1>10

\* A DELETE adds rows that are due and that no other purge holds.
LEMMA RetentionDelete ==
  ASSUME Inv, NEW p \in Purges, Delete(p), TypeOK'
  PROVE  Inv'
  <1> USE DEF Inv
  <1> DEFINE due == Due(p, ClassAt(p))
  <1>0. /\ status[p] = "deleting" /\ round[p] \in 0..Rounds /\ round[p] < Rounds
        /\ \A k \in due : ~Locked(k)
        /\ UNCHANGED <<today, packet, written, stored, tenant, status, now>>
    BY DEF Delete, TypeOK
  <1>1. /\ deleted'[p] = deleted[p] \cup due /\ round'[p] = round[p] + 1
        /\ \A q \in Purges : q # p => deleted'[q] = deleted[q] /\ round'[q] = round[q]
    BY DEF Delete, TypeOK
  <1>2. ClassAt(p) \in Classes
    BY <1>0, ClassOrder
  <1>3. \A k \in due : /\ k \in stored /\ k \in Packets
                       /\ packet[k].tenant = tenant[p] /\ Expired(k, now[p])
                       /\ RetentionClass(packet[k].verdict) = ClassAt(p)
    <2>1. due \subseteq Packets
      BY DEF Due, TypeOK
    <2>2. QED
      BY <2>1, <1>2, DueExpired
  <1>4. \A class \in {"audit", "ops"} :
          Past(p, class)' <=> Past(p, class) \/ class = ClassAt(p)
    <2>1. round[p] \in Int
      BY <1>0
    <2>2. QED
      BY <1>0, <1>1, <2>1, ClassOrder DEF Past, Rounds
  <1>5. \A k \in Packets : RetentionClass(packet[k].verdict) \in {"audit", "ops"}
    BY DEF RetentionClass
  <1> HIDE DEF due
  <1>6. HoldsInv'
    BY <1>0, <1>1, <1>3 DEF HoldsInv
  <1>7. ApartInv'
    <2> SUFFICES ASSUME NEW q \in Purges, q # p PROVE due \cap deleted[q] = {}
      BY <1>1 DEF ApartInv
    <2>1. CASE status[q] = "deleting"
      BY <1>0, <2>1 DEF Locked
    <2>2. CASE status[q] # "deleting"
      BY <1>3, <2>2 DEF HoldsInv, TypeOK
    <2>3. QED
      BY <2>1, <2>2
  <1>8. DueInv'
    <2>1. \A k \in due : k \in written
      BY <1>3 DEF TypeOK
    <2>2. QED
      BY <1>0, <1>1, <1>3, <2>1 DEF DueInv, Expired
  <1>9. GoneInv'
    <2>1. \A q \in Manifests : q \in Manifests' /\ deleted'[q] = deleted[q]
      BY <1>0, <1>1 DEF Manifests
    <2>2. QED
      BY <1>0, <2>1 DEF GoneInv
  <1>10. SweptInv'
    <2> SUFFICES ASSUME NEW q \in Purges, status[q] \in {"deleting", "done"},
                        NEW l \in stored, Past(q, RetentionClass(packet[l].verdict))',
                        packet[l].tenant = tenant[q], Expired(l, now[q])
                 PROVE  l \in deleted'[q]
      BY <1>0 DEF SweptInv, Expired, Past
    <2>1. CASE Past(q, RetentionClass(packet[l].verdict))
      BY <1>1, <2>1 DEF SweptInv
    <2>2. CASE ~Past(q, RetentionClass(packet[l].verdict))
      <3>1. q = p
        BY <1>0, <1>1, <2>2 DEF Past
      <3>2. RetentionClass(packet[l].verdict) = ClassAt(p)
        BY <1>0, <1>4, <1>5, <2>2, <3>1 DEF TypeOK
      <3>3. l \in due
        BY <1>2, <3>1, <3>2, DueExpired DEF due, TypeOK
      <3>4. QED
        BY <1>1, <3>1, <3>3
    <2>3. QED
      BY <2>1, <2>2
  <1>11. HeldInv'
    <2> SUFFICES ASSUME NEW q \in Purges, NEW k \in deleted'[q]
                 PROVE  Past(q, RetentionClass(packet[k].verdict))'
      BY <1>0 DEF HeldInv, Past
    <2>1. CASE q # p
      BY <1>0, <1>1, <2>1 DEF HeldInv, Past
    <2>2. CASE q = p
      <3>1. k \in deleted[p] \/ k \in due
        BY <1>1, <2>2
      <3>2. k \in Packets
        BY <1>3, <3>1 DEF TypeOK
      <3>3. RetentionClass(packet[k].verdict) = ClassAt(p)
            \/ Past(p, RetentionClass(packet[k].verdict))
        BY <1>3, <3>1 DEF HeldInv
      <3>4. QED
        BY <1>0, <1>4, <1>5, <2>2, <3>2, <3>3
    <2>3. QED
      BY <2>1, <2>2
  <1>12. QED
    BY <1>6, <1>7, <1>8, <1>9, <1>10, <1>11

\* A commit takes away what the purge held, and counts it.
LEMMA RetentionCommit ==
  ASSUME Inv, NEW p \in Purges, Commit(p), TypeOK'
  PROVE  Inv'
  <1> USE DEF Inv
  <1>0. /\ status[p] = "deleting" /\ round[p] = Rounds
        /\ status'[p] = "done" /\ \A q \in Purges : q # p => status'[q] = status[q]
        /\ stored' = stored \ deleted[p]
        /\ UNCHANGED <<today, packet, written, tenant, now, round, deleted>>
    BY DEF Commit, TypeOK
  <1>1. HoldsInv'
    <2>1. \A q \in Purges : q # p => deleted[q] \cap deleted[p] = {}
      BY DEF ApartInv
    <2>2. QED
      BY <1>0, <2>1 DEF HoldsInv
  <1>2. ApartInv' /\ DueInv'
    BY <1>0 DEF ApartInv, DueInv, Expired
  <1>3. GoneInv'
    <2>1. Manifests' = Manifests \cup {p}
      BY <1>0 DEF Manifests
    <2>2. QED
      BY <1>0, <2>1 DEF GoneInv
  <1>4. SweptInv' /\ HeldInv'
    BY <1>0 DEF SweptInv, HeldInv, Expired, Past
  <1>5. QED
    BY <1>1, <1>2, <1>3, <1>4

\* A purge that begins, or fails, holds nothing.
LEMMA RetentionBeginFail ==
  ASSUME Inv, NEW p \in Purges, TypeOK',
         (\E t \in Tenants : Begin(p, t)) \/ Fail(p)
  PROVE  Inv'
  <1> USE DEF Inv
  <1>0. /\ status[p] \in {"idle", "deleting"}
        /\ deleted'[p] = {} /\ round'[p] = 0
        /\ status'[p] \in {"deleting", "failed"}
        /\ status'[p] = "deleting" => tenant'[p] \in Tenants
        /\ now'[p] <= today
        /\ UNCHANGED <<today, packet, written, stored>>
        /\ \A q \in Purges \ {p} : /\ status'[q] = status[q] /\ round'[q] = round[q]
                                   /\ deleted'[q] = deleted[q] /\ now'[q] = now[q]
                                   /\ tenant'[q] = tenant[q]
    <2>1. ASSUME NEW t \in Tenants, Begin(p, t)
          PROVE  <1>0!:
      BY <2>1, RetentionAssumptions DEF Begin, TypeOK, HoldsInv
    <2>2. CASE Fail(p)
      BY <2>2, RetentionAssumptions DEF Fail, TypeOK
    <2>3. QED
      BY <2>1, <2>2
  <1>1. HoldsInv' /\ ApartInv'
    BY <1>0 DEF HoldsInv, ApartInv
  <1>2. DueInv'
    BY <1>0 DEF DueInv, Expired
  <1>3. GoneInv'
    <2>1. \A q \in Manifests : q \in Manifests' /\ deleted'[q] = deleted[q]
      BY <1>0 DEF Manifests
    <2>2. QED
      BY <1>0, <2>1 DEF GoneInv
  <1>4. SweptInv' /\ HeldInv'
    BY <1>0 DEF SweptInv, HeldInv, Expired, Past
  <1>5. QED
    BY <1>1, <1>2, <1>3, <1>4

\* Every step preserves the invariant.
LEMMA RetentionStep == Inv /\ [Next]_vars => Inv'
  <1> SUFFICES ASSUME Inv, [Next]_vars PROVE Inv'
    OBVIOUS
  <1>0. TypeOK'
    BY RetentionTypeStep DEF Inv
  <1>1. CASE Tick
    <2>1. today <= today'
      BY <1>1 DEF Tick, Inv, TypeOK
    <2>2. DueInv'
      BY <1>1, <2>1, RetentionAssumptions DEF Tick, Inv, DueInv, Expired, TypeOK
    <2>3. HoldsInv' /\ ApartInv' /\ GoneInv' /\ SweptInv' /\ HeldInv'
      BY <1>1 DEF Tick, Inv, HoldsInv, ApartInv, GoneInv, SweptInv, HeldInv, Past, Manifests,
                  Expired
    <2>4. QED
      BY <1>0, <2>2, <2>3 DEF Inv
  <1>2. CASE UNCHANGED vars
    BY <1>0, <1>2
       DEF vars, Inv, HoldsInv, ApartInv, DueInv, GoneInv, SweptInv, HeldInv, Past, Manifests,
           Expired
  <1>3. QED
    BY <1>0, <1>1, <1>2, RetentionAppend, RetentionDelete, RetentionCommit, RetentionBeginFail
       DEF Next

\* The invariant holds in every reachable state.
LEMMA RetentionInvariant == Spec => []Inv
  BY RetentionInit, RetentionStep, PTL DEF Spec
-----------------------------------------------------------------------------
(* What follows from it.                                                   *)

\* Every packet that is gone is in exactly one manifest, however purges overlap or fail.
THEOREM LossesAreCountedCorrect == Spec => []LossesAreCounted
  <1>1. Inv => LossesAreCounted
    BY DEF Inv, LossesAreCounted, HoldsInv, ApartInv, GoneInv, Manifests
  <1>2. QED
    BY <1>1, RetentionInvariant, PTL

\* No allow outlives a refusal of its tenant that is as recent.
THEOREM AllowsGoFirstCorrect == Spec => []AllowsGoFirst
  <1>1. ASSUME Inv PROVE AllowsGoFirst
    <2> USE <1>1 DEF Inv
    <2> SUFFICES ASSUME NEW k \in written \ stored, NEW l \in stored,
                        packet[k].verdict = "deny", packet[l].verdict = "allow",
                        packet[k].tenant = packet[l].tenant,
                        ~(packet[k].day < packet[l].day)
                 PROVE  FALSE
      BY DEF AllowsGoFirst
    <2>1. PICK p \in Manifests : k \in deleted[p]
      BY DEF GoneInv
    <2>2. /\ p \in Purges /\ status[p] = "done" /\ round[p] = Rounds
          /\ deleted[p] \cap stored = {}
          /\ packet[k].tenant = tenant[p] /\ Expired(k, now[p])
      BY <2>1 DEF Manifests, HoldsInv, DueInv, Rounds
    <2>3. packet[k].day \in Nat /\ packet[l].day \in Nat /\ now[p] \in Nat
      BY <2>2, RetentionAssumptions DEF TypeOK, PacketType
    <2>4. Expired(l, now[p])
      <3>1. Retention["ops"] \in Nat /\ Retention["audit"] \in Nat
            /\ Retention["ops"] <= Retention["audit"]
        BY RetentionAssumptions DEF Classes
      <3>2. packet[k].day + Retention["audit"] < now[p]
        BY <2>2 DEF Expired, RetentionClass
      <3>3. packet[l].day + Retention["ops"] < now[p]
        BY <2>3, <3>1, <3>2
      <3>4. QED
        BY <3>3 DEF Expired, RetentionClass
    <2>5. l \in deleted[p]
      <3>1. Past(p, RetentionClass(packet[l].verdict))
        BY <2>2 DEF Past, RetentionClass, Rounds
      <3>2. QED
        BY <2>2, <2>4, <3>1 DEF SweptInv
    <2>6. QED
      BY <2>2, <2>5
  <1>2. QED
    BY <1>1, RetentionInvariant, PTL

\* A purge waits only for one that has made more of its DELETEs, so the one that has made
\* most waits for none: purges that overlap never wait for each other in a circle.
THEOREM PurgesNeverDeadlock == Spec => []SomePurgeCanGoOn
  <1>1. ASSUME Inv PROVE SomePurgeCanGoOn
    <2> USE <1>1 DEF Inv
    <2> DEFINE running == {p \in Purges : status[p] = "deleting"}
               Has(n) == \E p \in running : round[p] = n
               Furthest(p) == \A q \in running : round[q] <= round[p]
    <2> SUFFICES ASSUME running # {}
                 PROVE  \E p \in running :
                          round[p] < Rounds => \A k \in Due(p, ClassAt(p)) : ~Locked(k)
      BY DEF SomePurgeCanGoOn
    <2>1. \A p \in running : p \in Purges /\ round[p] \in 0..Rounds
      BY DEF TypeOK
    <2>2. PICK p \in running : Furthest(p)
      <3>1. \A p \in running : round[p] = 0 \/ round[p] = 1 \/ round[p] = 2 \/ round[p] = 3
        BY <2>1 DEF Rounds
      <3>2. CASE Has(3)
        BY <3>1, <3>2
      <3>3. CASE ~Has(3) /\ Has(2)
        BY <3>1, <3>3
      <3>4. CASE ~Has(3) /\ ~Has(2) /\ Has(1)
        BY <3>1, <3>4
      <3>5. CASE ~Has(3) /\ ~Has(2) /\ ~Has(1)
        BY <3>1, <3>5
      <3>6. QED
        BY <3>2, <3>3, <3>4, <3>5
    <2>3. ASSUME round[p] < Rounds, NEW k \in Due(p, ClassAt(p)), Locked(k)
          PROVE  FALSE
      <3>1. PICK q \in running : k \in deleted[q]
        BY <2>3 DEF Locked
      <3>2. ClassAt(p) \in Classes /\ k \in Packets
        BY <2>1, <2>3, ClassOrder DEF Due, TypeOK
      <3>3. RetentionClass(packet[k].verdict) = ClassAt(p)
        BY <2>1, <2>3, <3>2, DueExpired
      <3>4. Past(q, ClassAt(p))
        BY <2>1, <3>1, <3>3 DEF HeldInv
      <3>5. round[q] > round[p]
        BY <2>1, <2>3, <3>4, ClassOrder DEF Past
      <3>6. QED
        BY <2>1, <2>2, <3>1, <3>5
    <2>4. QED
      BY <2>2, <2>3
  <1>2. QED
    BY <1>1, RetentionInvariant, PTL

\* No packet leaves the table before its term, or by another tenant's purge.
THEOREM KeptItsTermCorrect == Spec => KeptItsTerm
  <1> DEFINE Kept == \A k \in stored \ stored' :
               /\ Expired(k, today)
               /\ \E p \in Purges : p \in Manifests' \ Manifests /\ tenant[p] = packet[k].tenant
  <1>1. ASSUME Inv, [Next]_vars PROVE [Kept]_vars
    <2>1. ASSUME NEW k \in stored \ stored' PROVE \E p \in Purges : Commit(p)
      <3>1. stored \subseteq stored' \/ \E p \in Purges : Commit(p)
        BY <1>1 DEF Next, vars, Tick, AppendPacket, Begin, Delete, Fail
      <3>2. QED
        BY <2>1, <3>1
    <2>2. ASSUME NEW k \in stored \ stored', NEW p \in Purges, Commit(p)
          PROVE  /\ Expired(k, today)
                 /\ p \in Manifests' \ Manifests /\ tenant[p] = packet[k].tenant
      <3>1. k \in deleted[p] /\ p \in Manifests' \ Manifests
        BY <1>1, <2>2 DEF Commit, Manifests, Inv, TypeOK
      <3>2. tenant[p] = packet[k].tenant /\ Expired(k, now[p]) /\ now[p] <= today
        BY <1>1, <3>1 DEF Inv, DueInv
      <3>3. k \in Packets /\ packet[k] \in PacketType /\ now[p] \in Nat /\ today \in Nat
        BY <1>1, RetentionAssumptions DEF Inv, TypeOK
      <3>4. Retention[RetentionClass(packet[k].verdict)] \in Nat /\ packet[k].day \in Nat
        BY <3>3, RetentionAssumptions DEF RetentionClass, Classes, PacketType
      <3>5. QED
        BY <3>1, <3>2, <3>3, <3>4 DEF Expired
    <2>3. QED
      BY <2>1, <2>2
  <1>2. QED
    BY <1>1, RetentionInvariant, PTL DEF Spec, KeptItsTerm
-----------------------------------------------------------------------------
(* The refinement.                                                         *)

\* The ledger's manifests, as RetentionLedger sees them.
LedgerManifest ==
  [p \in Purges |->
    IF p \in Manifests
    THEN [made |-> TRUE, tenant |-> tenant[p], day |-> now[p], packets |-> deleted[p]]
    ELSE [made |-> FALSE, tenant |-> NoTenant, day |-> 0, packets |-> {}]]

\* What a purge has deleted when it is about to commit is all that was past its term.
LEMMA CommitTakesAll ==
  ASSUME Inv, NEW p \in Purges, Commit(p)
  PROVE  deleted[p] = Ledger!PastTerm(tenant[p], now[p])
  <1> USE DEF Inv
  <1>1. status[p] = "deleting" /\ round[p] = Rounds
    BY DEF Commit
  <1>2. \A k \in stored : /\ k \in Packets
                         /\ packet[k].verdict \in {"allow", "deny"}
                         /\ RetentionClass(packet[k].verdict) \in {"audit", "ops"}
    BY DEF TypeOK, PacketType, RetentionClass
  <1>3. \A k \in stored : k \in Ledger!PastTerm(tenant[p], now[p])
                          <=> packet[k].tenant = tenant[p] /\ Expired(k, now[p])
    BY <1>2 DEF Ledger!PastTerm, Expired
  <1>4. deleted[p] \subseteq stored
    BY <1>1 DEF HoldsInv
  <1>5. \A k \in deleted[p] : k \in Ledger!PastTerm(tenant[p], now[p])
    BY <1>3, <1>4 DEF DueInv
  <1>6. ASSUME NEW k \in Ledger!PastTerm(tenant[p], now[p])
        PROVE  k \in deleted[p]
    <2>1. k \in stored
      BY DEF Ledger!PastTerm
    <2>2. Past(p, RetentionClass(packet[k].verdict))
      BY <1>1, <1>2, <2>1 DEF Past, Rounds
    <2>3. QED
      BY <1>1, <1>3, <1>6, <2>1, <2>2 DEF SweptInv
  <1>7. QED
    BY <1>5, <1>6

\* A purge's transaction is one step of the ledger, its commit: the DELETEs before it, and
\* a rollback, are stuttering steps.
THEOREM LedgerImplemented == Spec => ImplementsLedger
  <1> DEFINE manifest == LedgerManifest
             lvars == <<today, packet, written, stored, manifest>>
  <1>1. Init => Ledger!Init
    BY DEF Init, Ledger!Init, Ledger!NoManifest, Manifests
  <1>2. Inv /\ [Next]_vars => [Ledger!Next]_lvars
    <2> SUFFICES ASSUME Inv, [Next]_vars PROVE [Ledger!Next]_lvars
      OBVIOUS
    <2>1. CASE Tick
      <3>1. manifest' = manifest
        BY <2>1 DEF Tick, LedgerManifest, Manifests
      <3>2. Ledger!Tick
        BY <2>1, <3>1 DEF Tick, Ledger!Tick, LedgerManifest
      <3>3. QED
        BY <3>2 DEF Ledger!Next
    <2>2. ASSUME NEW k \in Packets, NEW t \in Tenants, NEW v \in {"allow", "deny"},
                 AppendPacket(k, t, v)
          PROVE  Ledger!Next
      <3>1. manifest' = manifest
        BY <2>2 DEF AppendPacket, LedgerManifest, Manifests
      <3>2. Ledger!Append(k, t, v)
        BY <2>2, <3>1 DEF AppendPacket, Ledger!Append, LedgerManifest
      <3>3. QED
        BY <3>2 DEF Ledger!Next
    <2>3. ASSUME NEW p \in Purges, Commit(p) PROVE Ledger!Next
      <3>1. /\ p \notin Manifests /\ Manifests' = Manifests \cup {p}
            /\ tenant[p] \in Tenants /\ now[p] \in 0..today
        BY <2>3, RetentionAssumptions DEF Commit, Manifests, Inv, TypeOK, HoldsInv, DueInv
      <3>2. PICK t \in Tenants, day \in 0..today : t = tenant[p] /\ day = now[p]
        BY <3>1
      <3>3. manifest' = [manifest EXCEPT ![p] =
               [made |-> TRUE, tenant |-> t, day |-> day, packets |-> deleted[p]]]
        BY <2>3, <3>1, <3>2 DEF Commit, LedgerManifest
      <3>4. ~manifest[p].made
        BY <3>1 DEF LedgerManifest
      <3>5. deleted[p] = Ledger!PastTerm(t, day)
        BY <2>3, <3>2, CommitTakesAll
      <3>6. Ledger!Purge(p, t, day)
        BY <2>3, <3>3, <3>4, <3>5 DEF Commit, Ledger!Purge, LedgerManifest
      <3>7. QED
        BY <3>6 DEF Ledger!Next
    <2>4. ASSUME NEW p \in Purges, Delete(p) \/ Fail(p) \/ \E t \in Tenants : Begin(p, t)
          PROVE  UNCHANGED lvars
      <3>1. UNCHANGED <<today, packet, written, stored, Manifests>>
        BY <2>4 DEF Delete, Fail, Begin, Manifests, Inv, TypeOK
      <3>2. \A q \in Manifests : UNCHANGED <<tenant[q], now[q], deleted[q]>>
        BY <2>4 DEF Delete, Fail, Begin, Manifests, Inv, TypeOK
      <3>3. QED
        BY <3>1, <3>2 DEF LedgerManifest
    <2>5. CASE UNCHANGED vars
      BY <2>5 DEF vars, LedgerManifest, Manifests
    <2>6. QED
      BY <2>1, <2>2, <2>3, <2>4, <2>5 DEF Next
  <1>3. QED
    BY <1>1, <1>2, RetentionInvariant, PTL
       DEF Spec, ImplementsLedger, Ledger!Spec, LedgerManifest
=============================================================================
