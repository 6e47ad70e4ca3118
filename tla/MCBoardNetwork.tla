--------------------------- MODULE MCBoardNetwork ---------------------------
(* Two boards on one interface, a pool of two addresses.                     *)
EXTENDS BoardNetwork, TLC

CONSTANTS d1, d2, ip1, ip2

MCUidOf == [d \in Devices |-> d]
MCSameReset == [d \in Devices |-> Boot]
MCPool == <<ip1, ip2>>
MCSymmetry == Permutations(Devices) \cup Permutations(Threads)
=============================================================================
