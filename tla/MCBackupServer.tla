--------------------------- MODULE MCBackupServer ---------------------------
(***************************************************************************)
(* Small instances of BackupServer.                                        *)
(***************************************************************************)
EXTENDS BackupServer

CONSTANTS p, q, s
=============================================================================
