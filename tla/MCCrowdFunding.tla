--------------------------- MODULE MCCrowdFunding ---------------------------
(* Two users and a contract that accepts no transfers but can destroy      *)
(* itself.                                                                 *)
EXTENDS CrowdFunding, TLC

CONSTANTS u1, u2, vault, self, none

MCAccount   == {u1, u2, vault}
MCAccepting == {u1, u2}
MCDestructible == {vault}
MCEndowment == (u1 :> 3 @@ u2 :> 2 @@ vault :> 1)
MCGoals     == {0, 2, 3}
MCValues    == 0..3
=============================================================================
