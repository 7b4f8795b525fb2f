--------------------------- MODULE ReverseServer ----------------------------
(***************************************************************************)
(* server.c: main accepts connections for ever and starts a thread for     *)
(* each, which reads a line, sends it back reversed and closes.            *)
(*                                                                         *)
(* Descriptors are numbers: accept takes the lowest one free, so a number  *)
(* that a thread has closed may come back as another client's connection   *)
(* while threads that were given numbers earlier still run.  Threads are   *)
(* neither joined nor detached: each one counts against MaxThreads for     *)
(* ever, and when pthread_create fails nobody notices.  With no descriptor *)
(* left accept returns -1, for which a thread is started all the same.     *)
(***************************************************************************)
EXTENDS ReverseClients

CONSTANTS
  MaxFds,      \* connections the process can hold at a time
  MaxThreads,  \* threads pthread_create grants
  NoPeer       \* no client

ASSUME ReverseServerAssumption ==
  MaxFds \in Nat \ {0} /\ MaxThreads \in Nat /\ NoPeer \notin Client

Fd     == 0..(MaxFds - 1)
Thread == 1..MaxThreads

VARIABLES
  mpc,                   \* the call main is at
  currentIncomingSocket, \* what accept returned
  table,                 \* the client at the other end of each descriptor
  created,               \* threads created so far
  tpc,                   \* the call each thread is at
  incomingClientSocket,  \* the descriptor each thread was given
  message,               \* its message[11]
  peer                   \* history: the client of the turn that started it

serverVars == <<mpc, currentIncomingSocket, table, created, tpc,
                incomingClientSocket, message, peer>>
vars       == <<clientVars, serverVars>>

Unassigned == [q \in Index |-> Junk]

Init ==
  /\ ClientInit
  /\ mpc = "accept" /\ currentIncomingSocket = -1
  /\ table = [f \in Fd |-> NoPeer]
  /\ created = 0
  /\ tpc = [t \in Thread |-> "off"]
  /\ incomingClientSocket = [t \in Thread |-> -1]
  /\ message = [t \in Thread |-> Unassigned]
  /\ peer = [t \in Thread |-> NoPeer]

Free == { f \in Fd : table[f] = NoPeer }

(* Has the server closed the connection that it accepted from c? *)
Closed(c) ==
  /\ cpc[c] # "idle"
  /\ \A q \in DOMAIN backlog : backlog[q] # c
  /\ \A f \in Fd : table[f] # c

-----------------------------------------------------------------------------
(* main *)

(* What accept can return: a free number, or -1. *)
Allocated == IF Free = {} THEN {-1} ELSE Free

(* With no descriptor left accept fails before it looks at the queue. *)
Accept ==
  /\ mpc = "accept"
  /\ mpc' = "create"
  /\ \E f \in Allocated :
       /\ \A g \in Allocated : f <= g
       /\ currentIncomingSocket' = f
       /\ IF f \notin Fd
          THEN UNCHANGED <<table, backlog>>
          ELSE /\ backlog # <<>>
               /\ table' = [table EXCEPT ![f] = Head(backlog)]
               /\ backlog' = Tail(backlog)
  /\ UNCHANGED <<cpc, wire, reply, line, created, tpc, incomingClientSocket, message, peer>>

(* Who is at the other end of a descriptor. *)
At(fd) == IF fd \in Fd THEN table[fd] ELSE NoPeer

(* pthread_create, with the descriptor itself as the argument; its result is
   not looked at.  for (i = 0; ...) inside while (1) makes no difference. *)
pthread_create ==
  /\ mpc = "create"
  /\ mpc' = "accept"
  /\ IF created < MaxThreads
     THEN LET t == created + 1 IN
          /\ created' = t
          /\ tpc' = [tpc EXCEPT ![t] = "read"]
          /\ incomingClientSocket' = [incomingClientSocket EXCEPT ![t] = currentIncomingSocket]
          /\ peer' = [peer EXCEPT ![t] = At(currentIncomingSocket)]
     ELSE UNCHANGED <<created, tpc, incomingClientSocket, peer>>
  /\ UNCHANGED <<clientVars, currentIncomingSocket, message>>

(* Mutant: the connection closed once it has been handed over. *)
Create_ThenClose ==
  /\ pthread_create
  /\ table' = [f \in Fd |-> IF f = currentIncomingSocket THEN NoPeer ELSE table[f]]

Create == pthread_create /\ UNCHANGED table

-----------------------------------------------------------------------------
(* ServerResponse *)

(* Mutant: reads in a loop until it has all eleven bytes. *)
CanRead_UntilFull(c) == Readable(c) /\ (wire[c] = "sent" => c[1] \notin Short)

(* read blocks until the client has written or is gone... *)
CanRead(c) == Readable(c)

(* Mutant: read into message + 1, with all that it gets. *)
Over_OneFurther(c, buffer) ==
  [q \in 0..11 |-> IF q - 1 \in DOMAIN Sent(c) THEN Sent(c)[q - 1]
                   ELSE IF q \in Index THEN buffer[q] ELSE Junk]

(* read(..., message, 11): the bytes behind those that came stay. *)
Over(c, buffer) == [q \in Index |-> IF q \in DOMAIN Sent(c) THEN Sent(c)[q] ELSE buffer[q]]

(* Mutant: message declared static, as generateChecksum's array is. *)
Got_Static(t, c) == message' = [u \in Thread |-> Over(c, message[t])]

Got(t, c) == message' = [message EXCEPT ![t] = Over(c, message[t])]

(* ... and fails on -1; how many bytes it got is not looked at. *)
Read(t) ==
  LET c == At(incomingClientSocket[t]) IN
  /\ tpc[t] = "read"
  /\ tpc' = [tpc EXCEPT ![t] = "write"]
  /\ c # NoPeer => CanRead(c)
  /\ IF c # NoPeer /\ wire[c] = "sent"
     THEN Got(t, c) /\ wire' = [wire EXCEPT ![c] = "taken"]
     ELSE UNCHANGED <<message, wire>>
  /\ UNCHANGED <<cpc, reply, line, backlog, mpc, currentIncomingSocket, table, created,
                 incomingClientSocket, peer>>

(* reversedMessage[i] = message[j], i from 0 and j from 9; reversedMessage[10]
   is never assigned, and is sent all the same. *)
reversedMessage(m) == [i \in Index |-> IF i < 10 THEN m[9 - i] ELSE Junk]

(* Mutant: lines that are too short are not answered. *)
Write_IfFull(t) ==
  LET c == At(incomingClientSocket[t]) IN
  /\ tpc[t] = "write"
  /\ tpc' = [tpc EXCEPT ![t] = "close"]
  /\ reply' = IF c = NoPeer \/ message[t][10] = Junk THEN reply
              ELSE [reply EXCEPT ![c] = reversedMessage(message[t])]
  /\ UNCHANGED <<cpc, wire, line, backlog, mpc, currentIncomingSocket, table, created,
                 incomingClientSocket, message, peer>>

Write(t) ==
  LET c == At(incomingClientSocket[t]) IN
  /\ tpc[t] = "write"
  /\ tpc' = [tpc EXCEPT ![t] = "close"]
  /\ reply' = IF c = NoPeer THEN reply
              ELSE [reply EXCEPT ![c] = reversedMessage(message[t])]
  /\ UNCHANGED <<cpc, wire, line, backlog, mpc, currentIncomingSocket, table, created,
                 incomingClientSocket, message, peer>>

(* Mutant: closed only where something was read. *)
ToClose_IfAnswered(t) == IF message[t] = Unassigned THEN {} ELSE {incomingClientSocket[t]}

ToClose(t) == {incomingClientSocket[t]}

(* close and the end of the thread. *)
Close(t) ==
  /\ tpc[t] = "close"
  /\ tpc' = [tpc EXCEPT ![t] = "exited"]
  /\ table' = [f \in Fd |-> IF f \in ToClose(t) THEN NoPeer ELSE table[f]]
  /\ UNCHANGED <<clientVars, mpc, currentIncomingSocket, created, incomingClientSocket,
                 message, peer>>

-----------------------------------------------------------------------------
main == Accept \/ Create

ServerResponse(t) == Read(t) \/ Write(t) \/ Close(t)

BasicClient(c) ==
  /\ Connect(c) \/ Println(c) \/ ReadLine(c, Closed(c)) \/ ReadSix(c, Closed(c)) \/ Kill(c)
  /\ UNCHANGED serverVars

Next == main \/ (\E t \in Thread : ServerResponse(t)) \/ (\E c \in Client : BasicClient(c))

(* The server's threads run, and a client reads what is there for it: a
   BasicClient, as its line has no newline, once the connection is closed.
   Nobody need connect, nor type. *)
Fairness ==
  /\ WF_vars(main)
  /\ \A t \in Thread : WF_vars(ServerResponse(t))
  /\ \A c \in Client :
       WF_vars(/\ ReadSix(c, Closed(c)) \/ (Closed(c) /\ ReadLine(c, TRUE))
               /\ UNCHANGED serverVars)

Spec == Init /\ [][Next]_vars /\ Fairness

-----------------------------------------------------------------------------
Running(t) == tpc[t] \in {"read", "write", "close"}

TypeOK ==
  /\ ClientTypeOK
  /\ mpc \in {"accept", "create"}
  /\ currentIncomingSocket \in {-1} \cup Fd
  /\ table \in [Fd -> Client \cup {NoPeer}]
  /\ created \in 0..MaxThreads
  /\ tpc \in [Thread -> {"off", "read", "write", "close", "exited"}]
  /\ incomingClientSocket \in [Thread -> {-1} \cup Fd]
  /\ message \in [Thread -> Bytes]
  /\ peer \in [Thread -> Client \cup {NoPeer}]
  /\ \A t \in Thread : created < t <=> tpc[t] = "off"

(* server.c:74-78 with 21, 38: the number a thread was given still means the
   connection it was given it for, and that connection is its alone, until it
   closes it, whatever other threads have closed and main has accepted in
   between. *)
OwnDescriptor ==
  \A t \in Thread : Running(t) =>
    /\ At(incomingClientSocket[t]) = peer[t]
    /\ incomingClientSocket[t] \in Fd =>
         /\ mpc = "create" => incomingClientSocket[t] # currentIncomingSocket
         /\ \A u \in Thread \ {t} :
              Running(u) => incomingClientSocket[u] # incomingClientSocket[t]

(* server.c:38, 78: as long as threads are granted, a descriptor in use is
   the one main is about to hand over or that of a running thread; also where
   the client has gone or has sent too little. *)
NoDescriptorLeak ==
  created < MaxThreads =>
    \A f \in Fd \ Free :
      \/ mpc = "create" /\ currentIncomingSocket = f
      \/ \E t \in Thread : Running(t) /\ incomingClientSocket[t] = f

(* server.c:24, 36, 74-78: who has sent something and waits has
   its answer on the way, or is queued, or main has its connection in hand, or a
   thread of its own has yet to answer; only when threads have run out can there
   be no thread for it. *)
WaitsForAnswer ==
  \A c \in Client : cpc[c] = "reading" /\ reply[c] = NoLine =>
    \/ \E q \in DOMAIN backlog : backlog[q] = c
    \/ mpc = "create" /\ At(currentIncomingSocket) = c
    \/ \E t \in Thread : peer[t] = c /\ tpc[t] \in {"read", "write"}
    \/ created = MaxThreads /\ \A t \in Thread : peer[t] # c

(* server.c:18-36 "Send back the reversed string to client": a client that has
   sent ten characters gets at most one answer, which is these reversed.  A
   process of client4.c gets six bytes of a buffer it has filled halfway: not
   its string reversed, but nothing of another client's either. *)
ImplementsService == Service!Spec

(* server.c:69-80, 21-38: a client that has sent something and waits is
   answered, however many others stay silent, unless no thread was left for
   it: then, and when threads run out for descriptors that accept could not
   get, it waits for ever. *)
AskedIsAnswered ==
  \A c \in Client :
    cpc[c] = "reading" ~>
      \/ line[c] # NoLine \/ cpc[c] = "gone"
      \/ created = MaxThreads /\ \A t \in Thread : peer[t] # c
=============================================================================
