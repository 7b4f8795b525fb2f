----------------------------- MODULE MCCRouter ------------------------------
(***************************************************************************)
(* Small instances of CRouter: the messages of clients 2 and 3, whole, cut *)
(* short, corrupted or missing, and the two routing tables of interest.    *)
(***************************************************************************)
EXTENDS CRouter

(* Client 2 to client 1, its first message; client 3 to client 2, its second. *)
FromClient2 == generateMessage(50, 49, 49, 49)
FromClient3 == generateMessage(51, 50, 50, 50)

Whole(m)   == [data |-> m, n |-> 6]
Cut(m, n)  == [data |-> m, n |-> n]
Broken(m)  == [data |-> [m EXCEPT ![3] = 57], n |-> 6]
HungUp     == [data |-> Cleared, n |-> 0]

TwoWhole     == { Whole(FromClient2), Whole(FromClient3) }
WholeAndCut  == { Whole(FromClient2), Cut(FromClient3, 2) }
AllPayloads  == { Whole(FromClient2), Cut(FromClient3, 2), Broken(FromClient3), HungUp }

(* A peer that fills all six bytes with a line of its own, here one that has
   the checksum of a genuine message, addressed to '0'. *)
Filled == [data |-> [generateMessage(50, 48, 49, 49) EXCEPT ![5] = 49], n |-> 6]

SafetyPayloads == WholeAndCut \cup { Filled }

(* A zeroed stack, and one on which an earlier frame is left. *)
ZeroJunk  == { Cleared }
SomeJunk  == { Cleared, FromClient3 }

(* The files as they are in C_Router. *)
ShippedTable     == << "localhost\n", "2\n", "2\n", "4\n" >>
ShippedAddresses == << "localhost\n", "localhost\n", "localhost\n", "locslhost\n" >>

(* A table whose last line has no newline, the only one strcmp can match, and
   an address that inet_addr can parse. *)
EditedTable     == << "2\n", "localhost" >>
EditedAddresses == << "localhost\n", "127.0.0.1" >>
=============================================================================
