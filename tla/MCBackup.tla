------------------------------ MODULE MCBackup ------------------------------
(***************************************************************************)
(* An instance of Backup.  Two days, so that one stamp can be pruned for   *)
(* the other; keep_days 1, and -1, which is a huge size_t.                 *)
(***************************************************************************)
EXTENDS Backup

MCKeepOptions == {-1, 1}
=============================================================================
