---------------------------- MODULE RelayService ----------------------------
(***************************************************************************)
(* What the Java program keeps to as a service between clients, without    *)
(* saying whom it serves: every line that a client gets is one that was    *)
(* sent, unchanged, and none is got twice; a client that has sent waits    *)
(* until it has got a line; and the driver of the clients does not stop    *)
(* while one waits.  JavaSystem implements it.                             *)
(*                                                                         *)
(* A program that took each line to its destination would implement it     *)
(* just as well.                                                           *)
(***************************************************************************)
CONSTANTS Lines,   \* the lines a client can send
          Number,  \* what tells apart equal lines that are sent
          NoLine   \* no line

VARIABLES phase,     \* of the client that runs: "idle", "waiting", "served" or "stopped"
          underWay,  \* the lines that were sent and have not been got, numbered
          received   \* the line got last

vars == <<phase, underWay, received>>

Init == phase = "idle" /\ underWay = {} /\ received = NoLine

Send ==
  /\ phase = "idle"
  /\ phase' = "waiting"
  /\ \E n \in Number, sent \in Lines :
       /\ \A l \in Lines : <<n, l>> \notin underWay
       /\ underWay' = underWay \cup {<<n, sent>>}
  /\ received' = NoLine

Receive ==
  /\ phase = "waiting"
  /\ phase' = "served"
  /\ \E l \in underWay : received' = l[2] /\ underWay' = underWay \ {l}

Finish == phase = "served" /\ phase' = "idle" /\ UNCHANGED <<underWay, received>>

Stop == phase = "idle" /\ phase' = "stopped" /\ UNCHANGED <<underWay, received>>

Next == Send \/ Receive \/ Finish \/ Stop

Spec == Init /\ [][Next]_vars
=============================================================================
