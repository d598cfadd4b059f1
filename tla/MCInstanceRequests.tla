------------------------- MODULE MCInstanceRequests -------------------------
(* Instances of InstanceRequests for TLC. *)
EXTENDS InstanceRequests

=============================================================================
