---------------------------- MODULE MCBackupCron ----------------------------
(***************************************************************************)
(* Instances of BackupCron for TLC: the MCCron*.cfg files give the         *)
(* clusters, the values of their fields and the bounds.                    *)
(***************************************************************************)
EXTENDS BackupCron
=============================================================================
