---------------------------- MODULE MCFileAudit ----------------------------
(* FileAudit alone, for a run whose append is cancelled. *)
EXTENDS FileAudit

CONSTANTS e1, e2, e3
============================================================================
