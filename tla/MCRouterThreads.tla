-------------------------- MODULE MCRouterThreads ---------------------------
(***************************************************************************)
(* Two handlers, a message of client 2 that adds up to 197 and one of      *)
(* client 3 cut after two bytes, which adds up to 101, and the files as    *)
(* they are in C_Router.                                                   *)
(***************************************************************************)
EXTENDS RouterThreads

FromClient2 == generateMessage(50, 49, 49, 49)
FromClient3 == generateMessage(51, 50, 50, 50)

WholeAndCut == { [data |-> FromClient2, n |-> 6], [data |-> FromClient3, n |-> 2] }
ZeroJunk    == { Cleared }

ShippedTable     == << "localhost\n", "2\n", "2\n", "4\n" >>
ShippedAddresses == << "localhost\n", "localhost\n", "localhost\n", "locslhost\n" >>
=============================================================================
