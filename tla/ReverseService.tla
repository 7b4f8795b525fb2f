--------------------------- MODULE ReverseService ---------------------------
(***************************************************************************)
(* What a reversing server promises to each of its clients: a client that  *)
(* asks with a line of ten characters is answered at most once, with its   *)
(* own line reversed, or loses its connection.  A client that asks with    *)
(* less gets no such promise: only that of what it gets no byte is another *)
(* client's.  ReverseServer (server.c) and BackupServer (BasicServer.java) *)
(* implement it.                                                           *)
(***************************************************************************)
EXTENDS Integers

CONSTANTS Client,       \* the clients
          Whole,        \* those that ask with ten characters
          Question(_),  \* the characters client c asks with
          Junk,         \* a byte that nobody has assigned
          NoLine        \* no line

VARIABLES phase,   \* "new", "asked", "answered" or "lost", for each client
          answer   \* the characters it was answered with

vars == <<phase, answer>>

Reversed(line) == [q \in 0..9 |-> line[9 - q]]

Init ==
  /\ phase  = [c \in Client |-> "new"]
  /\ answer = [c \in Client |-> NoLine]

Ask(c) ==
  /\ phase[c] = "new"
  /\ phase' = [phase EXCEPT ![c] = "asked"]
  /\ UNCHANGED answer

(* The characters of an answer to c that asked with less than ten. *)
Own(c) == {Junk} \cup { Question(c)[q] : q \in DOMAIN Question(c) }

Answer(c) ==
  /\ phase[c] = "asked"
  /\ phase'  = [phase EXCEPT ![c] = "answered"]
  /\ answer' = [answer EXCEPT ![c] = answer'[c]]
  /\ IF c \in Whole THEN answer'[c] = Reversed(Question(c))
     ELSE answer'[c] \in [0..5 -> Own(c)]

Lose(c) ==
  /\ phase[c] \in {"new", "asked"}
  /\ phase' = [phase EXCEPT ![c] = "lost"]
  /\ UNCHANGED answer

Next == \E c \in Client : Ask(c) \/ Answer(c) \/ Lose(c)

Spec == Init /\ [][Next]_vars
=============================================================================
