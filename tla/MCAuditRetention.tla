-------------------------- MODULE MCAuditRetention --------------------------
(* A small instance of AuditRetention for TLC: the three retention periods *)
(* in their order, in days of a short calendar.                            *)
EXTENDS AuditRetention

MCRetention == [c \in Classes |->
  CASE c = "audit" -> 1 [] c = "ops" -> 0 [] c = "pii-sensitive" -> 0]
=============================================================================
