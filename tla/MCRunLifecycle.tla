--------------------------- MODULE MCRunLifecycle ---------------------------
(* Bounds for checking RunLifecycle.                                        *)
EXTENDS RunLifecycle, TLC

MCDeltas == UNION {[1 .. n -> Items] : n \in 1 .. MaxDelta + MaxHealed}
=============================================================================
