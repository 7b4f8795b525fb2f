---------------------------- MODULE BackupServer ----------------------------
(***************************************************************************)
(* BasicServer.java and BasicThread.java, and their copies OCMS_Router and *)
(* OCMS_Runner: run accepts ten clients in a loop and one more after it,   *)
(* and starts a thread for each; then it closes the connection of the last *)
(* one, whose thread it has only just started.  No thread closes its own,  *)
(* and nothing closes the ServerSocket but the end of the JVM, or its      *)
(* garbage collector: until then later clients connect, and wait.  A       *)
(* message of client4.c, which uses the same port, is no line: its thread  *)
(* stays in readLine until the client is gone.                             *)
(***************************************************************************)
EXTENDS ReverseClients

CONSTANTS
  Loop,    \* turns of the loop, 10 in the code
  NoPeer   \* no client

ASSUME BackupServerAssumption == Loop \in 1..10 /\ NoPeer \notin Client

VARIABLES
  mpc,             \* the call of run that BasicServer is at
  numberOfClients, \* connections accepted
  connect,         \* the one accepted last
  listening,       \* the ServerSocket is open
  closed,          \* connections that run has closed
  tpc,             \* the call each client's BasicThread is at
  turn             \* history: the how-manieth each client was accepted

serverVars == <<mpc, numberOfClients, connect, listening, closed, tpc, turn>>
vars       == <<clientVars, serverVars>>

Init ==
  /\ ClientInit
  /\ mpc = "accept" /\ numberOfClients = 0 /\ connect = NoPeer
  /\ listening = TRUE
  /\ closed = {}
  /\ tpc = [c \in Client |-> "off"]
  /\ turn = [c \in Client |-> 0]

-----------------------------------------------------------------------------
(* BasicServer.run *)

Accept ==
  /\ mpc = "accept" /\ backlog # <<>>
  /\ connect' = Head(backlog)
  /\ backlog' = Tail(backlog)
  /\ numberOfClients' = numberOfClients + 1
  /\ turn' = [turn EXCEPT ![connect'] = numberOfClients']
  /\ mpc' = "start"
  /\ UNCHANGED <<cpc, wire, reply, line, listening, closed, tpc>>

(* Mutant: the loop test as <= 10. *)
AfterStart_OneMore == IF numberOfClients <= Loop + 1 THEN "accept" ELSE "close"

(* The loop goes on; or this was the connection after it. *)
AfterStart == IF numberOfClients <= Loop THEN "accept" ELSE "close"

(* Mutant: the close moved up, to where each thread is started. *)
Start_AndClose ==
  /\ mpc = "start"
  /\ tpc' = [tpc EXCEPT ![connect] = "streams"]
  /\ closed' = closed \cup {connect}
  /\ mpc' = AfterStart
  /\ UNCHANGED <<clientVars, numberOfClients, connect, listening, turn>>

Start ==
  /\ mpc = "start"
  /\ tpc' = [tpc EXCEPT ![connect] = "streams"]
  /\ mpc' = AfterStart
  /\ UNCHANGED <<clientVars, numberOfClients, connect, listening, closed, turn>>

Close ==
  /\ mpc = "close"
  /\ closed' = closed \cup {connect}
  /\ mpc' = "end"
  /\ UNCHANGED <<clientVars, numberOfClients, connect, listening, tpc, turn>>

Running(c) == tpc[c] \in {"streams", "readLine", "println"}

(* The JVM ends with its last thread; the collector may find the ServerSocket
   before.  Connections that were not accepted are reset. *)
StopListening ==
  /\ mpc = "end" /\ listening
  /\ listening' = FALSE
  /\ backlog' = <<>>
  /\ UNCHANGED <<cpc, wire, reply, line, mpc, numberOfClients, connect, closed, tpc, turn>>

-----------------------------------------------------------------------------
(* BasicThread.run, of client c *)

(* getOutputStream and getInputStream throw on a closed socket. *)
Streams(c) ==
  /\ tpc[c] = "streams"
  /\ tpc' = [tpc EXCEPT ![c] = IF c \in closed THEN "exited" ELSE "readLine"]
  /\ UNCHANGED <<clientVars, mpc, numberOfClients, connect, listening, closed, turn>>

(* Mutant: a null line is read again. *)
AtEnd_ReadsAgain == "readLine"

(* charAt throws on a null line, and on one of six characters; nothing
   catches it. *)
AtEnd == "exited"

(* A line has come, with its newline. *)
HasLine(c) == wire[c] = "sent" /\ c[1] \notin Short

(* readLine returns with a line; with null or what there is when the client
   has closed its end; and throws if the socket is closed, under it or before. *)
Receive(c) ==
  /\ tpc[c] = "readLine"
  /\ c \in closed \/ HasLine(c) \/ Left(c)
  /\ tpc' = [tpc EXCEPT ![c] = IF c \in closed THEN "exited"
                               ELSE IF HasLine(c) THEN "println" ELSE AtEnd]
  /\ wire' = IF c \in closed \/ wire[c] # "sent" THEN wire
             ELSE [wire EXCEPT ![c] = "taken"]
  /\ UNCHANGED <<cpc, reply, line, backlog, mpc, numberOfClients, connect, listening,
                 closed, turn>>

(* backwardsMessage, and the newline of println. *)
backwardsMessage(c) == [i \in Index |-> IF i < 10 THEN Sent(c)[10 - i - 1] ELSE Sent(c)[10]]

(* Mutant: the connection taken from the server's field, not from its own. *)
Answers_Latest(c) == {connect}

(* Mutant: print, which does not flush. *)
Answers_None(c) == {}

Answers(c) == {c}

(* println never throws: on a closed socket the answer is lost. *)
Reverse(c) ==
  /\ tpc[c] = "println"
  /\ reply' = [d \in Client |-> IF d \in Answers(c) \ closed THEN backwardsMessage(c) ELSE reply[d]]
  /\ tpc' = [tpc EXCEPT ![c] = "exited"]
  /\ UNCHANGED <<cpc, wire, line, backlog, mpc, numberOfClients, connect, listening, closed, turn>>

-----------------------------------------------------------------------------
run == Accept \/ Start \/ Close

BasicThread(c) == Streams(c) \/ Receive(c) \/ Reverse(c)

(* A refused connection, or one that was reset while it was queued, ends a
   BasicClient's process with an IOException, and costs client4.c the round. *)
Failed(c) == IF c[1] \in Short THEN "failed" ELSE "gone"

(* new Socket, or connect, is refused. *)
Refused(c) ==
  /\ Turn(c) /\ ~ listening
  /\ cpc' = [cpc EXCEPT ![c] = Failed(c)]
  /\ UNCHANGED <<wire, reply, line, backlog>>

(* Its connection was reset before it was accepted: its read fails. *)
Reset(c) ==
  /\ cpc[c] = "reading" /\ ~ listening /\ turn[c] = 0
  /\ cpc' = [cpc EXCEPT ![c] = Failed(c)]
  /\ UNCHANGED <<wire, reply, line, backlog>>

GetsAnswer(c) == ReadLine(c, c \in closed) \/ ReadSix(c, c \in closed) \/ Reset(c)

BasicClient(c) ==
  /\ (listening /\ Connect(c)) \/ Refused(c) \/ Println(c) \/ GetsAnswer(c) \/ Kill(c)
  /\ UNCHANGED serverVars

Next == run \/ StopListening \/ (\E c \in Client : BasicThread(c) \/ BasicClient(c))

(* The threads of the JVM run, the JVM ends when none is left, and a client
   reads what is there.  Nobody need connect, nor type, nor collect. *)
Fairness ==
  /\ WF_vars(run)
  /\ WF_vars(StopListening /\ \A c \in Client : ~ Running(c))
  /\ \A c \in Client :
       /\ WF_vars(BasicThread(c))
       /\ WF_vars(GetsAnswer(c) /\ UNCHANGED serverVars)

Spec == Init /\ [][Next]_vars /\ Fairness

-----------------------------------------------------------------------------
TypeOK ==
  /\ ClientTypeOK
  /\ mpc \in {"accept", "start", "close", "end"}
  /\ numberOfClients \in 0..(Loop + 1)
  /\ connect \in Client \cup {NoPeer}
  /\ listening \in BOOLEAN
  /\ closed \subseteq Client
  /\ tpc \in [Client -> {"off", "streams", "readLine", "println", "exited"}]
  /\ turn \in [Client -> 0..(Loop + 1)]

(* BasicServer.java:50-53: a client that reads nothing but the end of its
   connection is the one accepted after the loop: the race of run's close
   with the thread it has started costs nobody else an answer. *)
OnlyLastIsCut ==
  \A c \in Client : cpc[c] = "done" /\ line[c] = NoLine => turn[c] = Loop + 1

(* BasicServer.java:37 "it processes our client's requests, and sends them to
   the thread that handles message reversal": no client is answered twice, or
   with anything but its own line reversed. *)
ImplementsService == Service!Spec

(* BasicServer.java:45-49, BasicThread.java:25-47: whoever is accepted in the
   loop and sends its line gets its answer, however silent the others are. *)
AcceptedAreAnswered ==
  \A c \in Client :
    c[1] \notin Short /\ cpc[c] = "reading" /\ turn[c] \in 1..Loop ~> line[c] # NoLine \/ cpc[c] = "gone"

(* A client that was accepted keeps its thread in readLine: while nobody has
   typed its line, and for as long as it lives if it sends no newline. *)
HoldsThread(c) ==
  turn[c] # 0 /\ cpc[c] \in (IF c[1] \in Short THEN {"typing", "reading"} ELSE {"typing"})

(* BasicServer.java:41-59: clients that come after the last one are queued by
   a socket nobody accepts from.  They do not wait for ever, if no client that
   was accepted holds its thread for ever: the threads end, the JVM ends, and
   they are refused or reset. *)
LeftOversAreReleased ==
  (\A c \in Client : []<>(~ HoldsThread(c)))
    => \A c \in Client : cpc[c] = "reading" ~> Left(c)
=============================================================================
