---------------------------- MODULE ServiceLevel ----------------------------
(***************************************************************************)
(* What the service promises about its state (synchronization.py:5-22): it *)
(* climbs from disconnected to synchronized one level at a time, may fall  *)
(* back to disconnected at any time, and is marked updating only while it  *)
(* knows its controller; losing the controller ends the update.            *)
(***************************************************************************)
EXTENDS Naturals

VARIABLES
    level,      \* 0 disconnected, 1 connected, 2 acknowledged, 3 synchronized
    updating    \* a firmware update was initiated on this connection

vars == <<level, updating>>

TypeOK ==
    /\ level \in 0..3
    /\ updating \in BOOLEAN

Init ==
    /\ level = 0
    /\ updating = FALSE

Advance ==
    /\ level < 3
    /\ level' = level + 1
    /\ UNCHANGED updating

Revert ==
    /\ level' = 0
    /\ updating' = FALSE

StartUpdate ==
    /\ level >= 2
    /\ updating' = TRUE
    /\ UNCHANGED level

Next == Advance \/ Revert \/ StartUpdate

Spec == Init /\ [][Next]_vars
=============================================================================
