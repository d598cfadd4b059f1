--------------------------- MODULE MCReceivedIds ---------------------------
(* ReceivedIds for TLC: a small set of message ids, so that the buffer is   *)
(* full and most of them are forgotten.                                     *)
EXTENDS ReceivedIds
=============================================================================
