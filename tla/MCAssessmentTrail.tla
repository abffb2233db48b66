-------------------------- MODULE MCAssessmentTrail --------------------------
(* A small instance of AssessmentTrail for TLC: a decision of each kind    *)
(* and score the table tells apart, one that cannot be read, and an        *)
(* obligation gap of each severity it tells apart on a pass.               *)
EXTENDS AssessmentTrail, TLC

Packet(d, u, c, o, s) == [decision |-> d, uncertainty |-> u, corrections |-> c,
                          override |-> o, sensitive |-> s]

MCPackets == {Packet("pass", 0, 0, FALSE, FALSE), Packet("pass", 0, 0, FALSE, TRUE),
              Packet("block", 0, 0, FALSE, TRUE), Packet("warn", 0, 2, FALSE, FALSE),
              Packet("hold", 25, 0, FALSE, FALSE), Packet("PASS", 0, 0, FALSE, FALSE)}

MCObligations == {Fulfilled, [rate |-> 50, critical |-> FALSE, high |-> FALSE],
                  [rate |-> 50, critical |-> TRUE, high |-> FALSE]}

Interchangeable == Permutations(Items) \cup Permutations(Required)
=============================================================================
