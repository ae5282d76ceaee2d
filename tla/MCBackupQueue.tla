---------------------------- MODULE MCBackupQueue ----------------------------
(* Two runners, the timer's and one an operator starts; two repositories.  *)
EXTENDS BackupQueue
CONSTANTS timer, cli, ra, rb
=============================================================================
