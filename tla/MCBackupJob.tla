---------------------------- MODULE MCBackupJob -----------------------------
(* Instances of BackupJob for TLC: MCBackup.cfg has two Backups.           *)
EXTENDS BackupJob

MCAsked == [kind : {"manual"}, opts : {{"s3"}, {"nfs"}, {"s3", "nfs"}, {"binlog"}}]
           \cup [kind : {"cron"}, opts : {{"s3"}}]
=============================================================================
