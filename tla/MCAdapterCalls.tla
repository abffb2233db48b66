--------------------------- MODULE MCAdapterCalls ---------------------------
(* Small instances of AdapterCalls: two calls that compete for a hold and  *)
(* for the run's stage, and one that makes the hold or any of the calls    *)
(* that share nothing with another.                                        *)
EXTENDS AdapterCalls, TLC

CONSTANTS maker, c1, c2

MCCalls   == {maker, c1, c2}
MCWork(c) == IF c = maker THEN Ops \ {"resume", "move"} ELSE {"resume", "move"}

\* The two that compete differ in nothing but their names.
Interchangeable == Permutations({c1, c2})
-----------------------------------------------------------------------------
(* The algorithms of Adapters, over every input they tell apart.           *)

Packets == [decision : Decisions, uncertainty : {14, 15, 24, 25}, corrections : 0..3,
            policy : {"p"}]

ASSUME CapabilitiesOnlyAddApproval
ASSUME AssessStateQueuesEnough(Packets)
ASSUME ReadyIsComplete({c \in Configs : c.enabled \in {Axes, Axes \ {"memx"}}})
=============================================================================
