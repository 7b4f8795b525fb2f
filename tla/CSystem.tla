------------------------------ MODULE CSystem -------------------------------
(***************************************************************************)
(* The clients of client2.c, client3.c and client4.c, which differ in their*)
(* identity and port only, with the router of CRouter and the connections  *)
(* between them.  (client1.c does not compile.)                            *)
(*                                                                         *)
(* A client opens a connection for each message, sends it, and waits for   *)
(* six bytes from the router before it closes.  The router reads once from *)
(* each connection, never writes to one and never closes one: a client's   *)
(* read returns when the router process has ended, and not before.  A      *)
(* client may itself be killed at any call, or stay at one for ever.       *)
(***************************************************************************)
EXTENDS CRouter

CONSTANTS
  Client,   \* client processes, at most as many as listen(..., 10) queues
  Program,  \* which program each of them runs: 2, 3 or 4
  Messages, \* bound: messages a client is to send, 10 in the code
  Destinations, \* bound: the destinations drawn, 1..4 in the code
  NoPeer    \* no client

ASSUME ClientAssumption ==
  IsFiniteSet(Client) /\ Cardinality(Client) <= 10 /\ NoPeer \notin Client
ASSUME ProgramAssumption == Program \in [Client -> {2, 3, 4}]
ASSUME MessagesAssumption == Messages \in 1..10 /\ Destinations \subseteq 1..4

VARIABLES
  cpc,         \* the system call each client is at
  dataContent, \* the message it is at, counted from 1
  message,     \* what it has written on its connection, zeros if nothing
  reported,    \* it has printed a message it took for one from the router
  bound,       \* the router has got port 4446: bind succeeded
  backlog,     \* the clients whose connections wait to be accepted
  peer         \* the client each turn of the accept loop got

clientVars == <<cpc, dataContent, message, reported>>
netVars    == <<bound, backlog, peer>>
systemVars == <<vars, clientVars, netVars>>

(* The three ports of the clients; the router listens on 4446. *)
Port(c) == CASE Program[c] = 2 -> 4447 [] Program[c] = 3 -> 4448 [] Program[c] = 4 -> 4446

Served == { c \in Client : Port(c) = 4446 }

(* The result of bind is not looked at: a router that did not get the port
   listens on one the kernel picks, which no client connects to. *)
Listening == process = "up" /\ bound

SystemInit ==
  /\ Init
  /\ cpc = [c \in Client |-> "connect"]
  /\ dataContent = [c \in Client |-> 1]
  /\ message = [c \in Client |-> Cleared]
  /\ reported = [c \in Client |-> FALSE]
  /\ bound \in BOOLEAN
  /\ backlog = <<>>
  /\ peer = [t \in Handler |-> NoPeer]

-----------------------------------------------------------------------------
(* main of a client *)

Digit(n) == 48 + n

(* The messages client c can make in this round: any destination but its own. *)
Candidates(c) ==
  { generateMessage(Digit(Program[c]), Digit(d), Digit(dataContent[c]), Digit(dataContent[c])) :
      d \in Destinations \ {Program[c]} }

(* Mutant: the loop test as <= 11. *)
NextRound_OneMore(c) ==
  /\ dataContent' = [dataContent EXCEPT ![c] = dataContent[c] + 1]
  /\ cpc' = [cpc EXCEPT ![c] = IF dataContent[c] > Messages THEN "end" ELSE "connect"]

(* dataContent++, sleep, and the test of the loop. *)
NextRound(c) ==
  /\ dataContent' = [dataContent EXCEPT ![c] = dataContent[c] + 1]
  /\ cpc' = [cpc EXCEPT ![c] = IF dataContent[c] = Messages THEN "end" ELSE "connect"]

(* Mutant: a refused connection is tried again, the round not counted. *)
AfterRefusal_Retries(c) == UNCHANGED <<cpc, dataContent>>

AfterRefusal(c) == NextRound(c)

(* memset, socket and connect; a connection that is refused costs the round. *)
Connect(c) ==
  /\ cpc[c] = "connect"
  /\ IF Listening /\ c \in Served
     THEN /\ cpc' = [cpc EXCEPT ![c] = "write"]
          /\ message' = [message EXCEPT ![c] = Cleared]
          /\ backlog' = Append(backlog, c)
          /\ UNCHANGED dataContent
     ELSE AfterRefusal(c) /\ UNCHANGED <<message, backlog>>
  /\ UNCHANGED <<vars, reported, bound, peer>>

(* generateMessage and write, SIGPIPE ignored: whether it fails, as it may
   once the router is gone, the client goes on to its read. *)
Write(c) ==
  /\ cpc[c] = "write"
  /\ cpc' = [cpc EXCEPT ![c] = "read"]
  /\ \E m \in Candidates(c) : message' = [message EXCEPT ![c] = m]
  /\ UNCHANGED <<vars, dataContent, reported, netVars>>

(* Mutant: the wrong buffer checked. *)
ReadReply_ChecksItsOwn(c) ==
  /\ cpc[c] = "read"
  /\ process # "up"
  /\ reported' = [reported EXCEPT ![c] = reported[c] \/ checkChecksum(message[c])]
  /\ NextRound(c)
  /\ UNCHANGED <<vars, message, netVars>>

(* read returns 0 or -1 when the router has ended, messageFromServer still
   as memset left it, and that is checked all the same. *)
ReadReply(c) ==
  /\ cpc[c] = "read"
  /\ process # "up"
  /\ reported' = [reported EXCEPT ![c] = reported[c] \/ checkChecksum(Cleared)]
  /\ NextRound(c)
  /\ UNCHANGED <<vars, message, netVars>>

client(c) == Connect(c) \/ Write(c) \/ ReadReply(c)

(* The process ends from outside; the kernel closes its connection, which the
   router can still accept, and read to the end.  (Without a connection, or
   when the router has ended, it would only miss its rounds.) *)
Kill(c) ==
  /\ process = "up" /\ cpc[c] \in {"write", "read"}
  /\ cpc' = [cpc EXCEPT ![c] = "killed"]
  /\ UNCHANGED <<vars, dataContent, message, reported, netVars>>

-----------------------------------------------------------------------------
(* The router's accept and read, with the clients at the other end *)

(* With no descriptor left accept fails before it looks at the queue. *)
AcceptClient ==
  /\ Accept
  /\ IF Full
     THEN UNCHANGED <<backlog, peer>>
     ELSE /\ backlog # <<>>
          /\ peer' = [peer EXCEPT ![iter + 1] = Head(backlog)]
          /\ backlog' = Tail(backlog)
  /\ UNCHANGED <<bound, clientVars>>

(* Mutant: a read that is repeated until it has got six bytes. *)
ReadClient_UntilFull ==
  /\ Read
  /\ Conn(iter) \in open =>
       /\ message[peer[iter]] # Cleared
       /\ received'[iter] = message[peer[iter]]
  /\ UNCHANGED <<clientVars, netVars>>

(* read waits for the client's write, and gets all six bytes of it, or for
   the client's end, and gets none. *)
ReadClient ==
  /\ Read
  /\ Conn(iter) \in open =>
       /\ message[peer[iter]] # Cleared \/ cpc[peer[iter]] = "killed"
       /\ received'[iter] = message[peer[iter]]
  /\ UNCHANGED <<clientVars, netVars>>

MainThread ==
  \/ AcceptClient
  \/ ReadClient
  \/ UNCHANGED <<clientVars, netVars>> /\ (Clear \/ Spawn)

HandlerThread(t) == UNCHANGED <<clientVars, netVars>> /\ handleConnection(t)

SystemNext ==
  \/ MainThread
  \/ \E t \in Handler : HandlerThread(t)
  \/ \E c \in Client : client(c) \/ Kill(c)

SystemSpec == SystemInit /\ [][SystemNext]_systemVars

(* All threads of the router are scheduled, and a call that can return does:
   accept with a connection queued, read with bytes or the end there.  A
   client need neither be killed nor, once connected, ever write. *)
SystemFairness ==
  /\ WF_systemVars(MainThread)
  /\ \A t \in Handler : WF_systemVars(HandlerThread(t))
  /\ \A c \in Client : WF_systemVars(Connect(c) \/ ReadReply(c))

FairSystem == SystemSpec /\ SystemFairness

-----------------------------------------------------------------------------
SystemTypeOK ==
  /\ TypeOK
  /\ cpc \in [Client -> {"connect", "write", "read", "end", "killed"}]
  /\ dataContent \in [Client -> 1..(Messages + 1)]
  /\ message \in [Client -> Message]
  /\ reported \in [Client -> BOOLEAN]
  /\ bound \in BOOLEAN
  /\ backlog \in Seq(Served)
  /\ peer \in [Handler -> Served \cup {NoPeer}]

(* client2.c:76-86 with router.c:64, 82, 106: the clients make correct
   checksums, so a handler left undisturbed judges what its own client sent,
   whole, and accepts it; where that is nothing, and the handler works on
   zeros and what its stack held, the client was killed before its write. *)
GenuineIsAccepted ==
  \A t \in Handler :
    Judged(t) /\ Undisturbed(t) /\ peer[t] # NoPeer =>
      IF message[peer[t]] = Cleared
      THEN cpc[peer[t]] = "killed"
      ELSE frame[t] = message[peer[t]] /\ outcome[t] # "rejected"

(* client2.c:118: a client that got nothing from the router does not take the
   zeros in its buffer for a message. *)
NoPhantomMessage == \A c \in Client : ~ reported[c]

(* No client stays connected without ever writing: main reads from each
   connection itself, and waits for one that does with all that come after. *)
NobodyStaysSilent == \A c \in Client : []<>(cpc[c] # "write")

(* What client c has sent has met its fate. *)
Settled(c) == \E t \in Handler : peer[t] = c /\ outcome[t] # "none"

(* router.c:60: some turn of the loop got -1 for a connection. *)
AcceptHasFailed == \E t \in 1..iter : Conn(t) \notin open

(* router.c:57-68, 76-173: in the end every message a client has sent, whether
   the client lives on or not, is settled by the handler of its turn, unless
   the router ends or somebody stays silent.  A connection can be left in the
   queue only once accept has failed: with its descriptors taken main spends
   its turns on no connection at all. *)
SentIsSettled ==
  NobodyStaysSilent =>
    <>[](process = "up" =>
           \A c \in Client : message[c] # Cleared =>
             \/ Settled(c)
             \/ AcceptHasFailed /\ \E q \in DOMAIN backlog : backlog[q] = c)

(* client2.c:38-142: clients outlive the router, and need none: whatever they
   were waiting for when it ended, or if it never got its port, they finish
   their rounds. *)
ClientsEndWithoutRouter ==
  NobodyStaysSilent =>
    <>[](Listening \/ \A c \in Client : cpc[c] \in {"end", "killed"})

-----------------------------------------------------------------------------
(* What the clients expect, and do not get. *)

(* client2.c:101 "Read the msg from the router": a client that waits for the
   router's answer gets out of its read. *)
EachIsAnswered == \A c \in Client : cpc[c] = "read" ~> cpc[c] # "read"
=============================================================================
