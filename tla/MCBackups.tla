----------------------------- MODULE MCBackups -----------------------------
(***************************************************************************)
(* Small instances of Backups for TLC.                                     *)
(***************************************************************************)
EXTENDS Backups

\* Two days of one moment, and one whose first moments are before BACKUP_HOUR.
MCDayOf == [t \in Moments |-> IF t < 2 THEN t ELSE 2]
=============================================================================
