--------------------------- MODULE MCSessionSend ---------------------------
(* SessionSend for TLC: the disturbances of a behaviour are counted.        *)
EXTENDS SessionSend, TLC

CONSTANTS MaxDisturbances

VARIABLE disturbances

MCInit == Init /\ disturbances = 0

MCNext ==
    \/ Progress /\ UNCHANGED disturbances
    \/ /\ disturbances < MaxDisturbances
       /\ Disturbance
       /\ disturbances' = disturbances + 1

MCSpec == MCInit /\ [][MCNext]_<<vars, disturbances>>

MCFairSpec == MCSpec /\ Fairness
=============================================================================
