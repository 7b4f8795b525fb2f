--------------------------- MODULE MCReverseServer --------------------------
(***************************************************************************)
(* Small instances of ReverseServer.                                       *)
(***************************************************************************)
EXTENDS ReverseServer

CONSTANTS p, s
=============================================================================
