-------------------------- MODULE MCRollingUpdate --------------------------
(***************************************************************************)
(* An instance of RollingUpdate for TLC: two running pods that are         *)
(* reconfigured and resized, or one pod, not made yet, that goes through   *)
(* an upgrade, a backup and a fault.  A start uses up the bounds of what   *)
(* its behaviours leave to the other one.                                  *)
(***************************************************************************)
EXTENDS RollingUpdate

Resized == [replicas |-> 2, running |-> TRUE, image |-> MaxImage, config |-> 0,
            backups |-> MaxBackups, resizes |-> 0, faults |-> MaxFaults]
Upgraded == [replicas |-> 1, running |-> FALSE, image |-> 0, config |-> MaxConfig,
             backups |-> 0, resizes |-> MaxResizes, faults |-> 0]
ResizedOrUpgraded == {Resized, Upgraded}
=============================================================================
