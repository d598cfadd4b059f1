--------------------------- MODULE MCKeyCreation ---------------------------
(* KeyCreation for TLC: the disturbances of a behaviour are counted, so     *)
(* that deep interleavings of a few of them are explored completely.        *)
EXTENDS KeyCreation, TLC

CONSTANTS MaxDisturbances

VARIABLE disturbances

MCInit == Init /\ disturbances = 0

MCNext ==
    \/ Progress /\ UNCHANGED disturbances
    \/ /\ disturbances < MaxDisturbances
       /\ Disturbance
       /\ disturbances' = disturbances + 1

MCSpec == MCInit /\ [][MCNext]_<<vars, disturbances>>

KeySymmetry == Permutations(TempKeys)
=============================================================================
