--------------------------- MODULE ReverseClients ---------------------------
(***************************************************************************)
(* The clients of the reversing servers, with the connections between      *)
(* them: BasicClient.java, and client4.c, which uses the same port 4446    *)
(* but sends six bytes, none of them a newline, where a BasicClient sends  *)
(* ten characters and a newline, and reads six bytes where a BasicClient   *)
(* reads a line.  Each process makes its connections one after the other;  *)
(* <<p, r>> is the r-th of process p, and the client in it.                *)
(*                                                                         *)
(* Characters are symbols: <<c, q>> is the q-th byte that client c sends,  *)
(* and Junk a byte that nobody has assigned.                               *)
(***************************************************************************)
EXTENDS Integers, Sequences, FiniteSets

CONSTANTS
  Process,  \* the client processes, at most as many as the servers queue
  Short,    \* those of them that run client4.c
  Rounds    \* bound: connections a process makes, 10 in the code

ASSUME ProcessAssumption ==
  IsFiniteSet(Process) /\ Cardinality(Process) <= 10 /\ Short \subseteq Process
ASSUME RoundsAssumption == Rounds \in 1..10

VARIABLES
  cpc,      \* the call each client is at
  wire,     \* its bytes on their way: "empty", "sent" or "taken"
  reply,    \* the bytes on their way back to it
  line,     \* what it has read: a line, or six bytes
  backlog   \* the clients whose connections wait to be accepted

clientVars == <<cpc, wire, reply, line, backlog>>

Client == Process \X (1..Rounds)

Index  == 0..10
Junk   == <<>>
NoLine == <<>>

(* What c writes: ten characters and a newline, or a message of six bytes. *)
Sent(c) == [q \in (IF c[1] \in Short THEN 0..5 ELSE Index) |-> <<c, q>>]

(* What it wants reversed: its ten characters; or all that it has sent. *)
Question(c) == [q \in DOMAIN Sent(c) \ {10} |-> Sent(c)[q]]

ClientInit ==
  /\ cpc     = [c \in Client |-> "idle"]
  /\ wire    = [c \in Client |-> "empty"]
  /\ reply   = [c \in Client |-> NoLine]
  /\ line    = [c \in Client |-> NoLine]
  /\ backlog = <<>>

(* The loop of main goes on when the connection before has come to its end;
   in client4.c also when that failed. *)
Turn(c) ==
  /\ cpc[c] = "idle"
  /\ c[2] > 1 => cpc[<<c[1], c[2] - 1>>] \in {"done", "failed"}

(* new Socket; socket and connect *)
Connect(c) ==
  /\ Turn(c)
  /\ cpc' = [cpc EXCEPT ![c] = "typing"]
  /\ backlog' = Append(backlog, c)
  /\ UNCHANGED <<wire, reply, line>>

(* println, once the user has entered ten characters; write in client4.c. *)
Println(c) ==
  /\ cpc[c] = "typing"
  /\ cpc' = [cpc EXCEPT ![c] = "reading"]
  /\ wire' = [wire EXCEPT ![c] = "sent"]
  /\ UNCHANGED <<reply, line, backlog>>

(* readLine returns what has come: where the line does not end in a newline,
   only when the server has closed the connection; and null if it has closed
   it without a word. *)
ReadLine(c, closed) ==
  /\ c[1] \notin Short
  /\ cpc[c] = "reading"
  /\ reply[c] # NoLine \/ closed
  /\ line' = [line EXCEPT ![c] = reply[c]]
  /\ cpc' = [cpc EXCEPT ![c] = "done"]
  /\ UNCHANGED <<wire, reply, backlog>>

(* client4.c's read, of the first six bytes that have come, or none if the
   server has closed the connection without a word. *)
ReadSix(c, closed) ==
  /\ c[1] \in Short
  /\ cpc[c] = "reading"
  /\ reply[c] # NoLine \/ closed
  /\ line' = [line EXCEPT ![c] =
       IF reply[c] = NoLine THEN NoLine ELSE [q \in 0..5 |-> reply[c][q]]]
  /\ cpc' = [cpc EXCEPT ![c] = "done"]
  /\ UNCHANGED <<wire, reply, backlog>>

(* The user ends the process, or an IOException does; the kernel closes the
   connection. *)
Kill(c) ==
  /\ cpc[c] \in {"typing", "reading"}
  /\ cpc' = [cpc EXCEPT ![c] = "gone"]
  /\ UNCHANGED <<wire, reply, line, backlog>>

(* The client's end of the connection is closed. *)
Left(c) == cpc[c] \in {"done", "gone", "failed"}

(* A read of the connection returns: there are bytes, or the end. *)
Readable(c) == wire[c] = "sent" \/ Left(c)

Symbol == {Junk} \cup (Client \X Index)
Bytes  == [Index -> Symbol]

ClientTypeOK ==
  /\ cpc \in [Client -> {"idle", "typing", "reading", "done", "gone", "failed"}]
  /\ wire \in [Client -> {"empty", "sent", "taken"}]
  /\ reply \in [Client -> {NoLine} \cup Bytes]
  /\ line \in [Client -> {NoLine} \cup Bytes \cup [0..5 -> Symbol]]
  /\ backlog \in Seq(Client)

-----------------------------------------------------------------------------
(* How far the abstract service is with a client. *)
Phase(c) ==
  CASE line[c] # NoLine -> "answered"
    [] line[c] = NoLine /\ Left(c) -> "lost"
    [] cpc[c] = "reading" -> "asked"
    [] cpc[c] \in {"idle", "typing"} -> "new"

(* Of a line, the ten characters without what came behind them. *)
Answer(c) ==
  IF line[c] = NoLine THEN NoLine ELSE [q \in DOMAIN line[c] \ {10} |-> line[c][q]]

Service == INSTANCE ReverseService WITH
  Whole <- { c \in Client : c[1] \notin Short },
  phase <- [c \in Client |-> Phase(c)], answer <- [c \in Client |-> Answer(c)]
=============================================================================
