----------------------------- MODULE MCCSystem ------------------------------
(***************************************************************************)
(* Small instances of CSystem: two processes of client4.c, the one program *)
(* that uses the router's port, or one of them beside one of client2.c.    *)
(***************************************************************************)
EXTENDS CSystem, TLC

CONSTANTS a, b

BothClient4   == a :> 4 @@ b :> 4
Client4And2   == a :> 4 @@ b :> 2

(* All that client 4 can send in its rounds, or nothing before it is killed. *)
FromClient4 ==
  { [data |-> Cleared, n |-> 0] } \cup
  { [data |-> generateMessage(Digit(4), Digit(d), Digit(n), Digit(n)), n |-> 6] :
      d \in Destinations \ {4}, n \in 1..Messages }

ZeroJunk == { Cleared }

(* The files as they are in C_Router, and edited so that a hop is reached. *)
ShippedTable     == << "localhost\n", "2\n", "2\n", "4\n" >>
ShippedAddresses == << "localhost\n", "localhost\n", "localhost\n", "locslhost\n" >>
EditedTable      == << "localhost" >>
EditedAddresses  == << "127.0.0.1" >>
=============================================================================
