---------------------------- MODULE MCPtsUpdates ----------------------------
(* Instances of PtsUpdates for TLC. *)
EXTENDS PtsUpdates

\* Single changes, one that moves pts by two, one that does not move it.
MCPts == [k \in 0 .. 4 |-> IF k < 3 THEN k + 1 ELSE 5]

=============================================================================
