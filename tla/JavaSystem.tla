----------------------------- MODULE JavaSystem -----------------------------
(***************************************************************************)
(* The Java program: OCMS_Router_Admin.main starts one OCMS_Router thread  *)
(* per client and then runs one Client after the other, chosen at random,  *)
(* on its own thread (run, not start); a router starts an                  *)
(* OCMS_AcceptConnectionThread for each connection it accepts.             *)
(*                                                                         *)
(* Run n of a client has connection n and, when it is accepted, handler n. *)
(* No handler closes its connection: its socket is closed when the garbage *)
(* collector finds that neither the handler nor its router holds it.       *)
(***************************************************************************)
EXTENDS JavaChecksum, FiniteSets

CONSTANTS
  Amounts,         \* bound: what amountOfClients is set to, 4 as shipped, "should be 6 or less"
  Contents,        \* what dataContent is drawn from, 1..10 in the code
  Destinations,    \* bound: destinations drawn, 1..amountOfClients in the code
  MaxRuns,         \* bound: runs of clients
  MaxFds,          \* descriptors the process can open besides its first ones
  NoLine           \* null

Id  == 1..4   \* ipList has four addresses
Run == 1..MaxRuns

ASSUME AmountAssumption == Amounts \subseteq 1..6
ASSUME DrawAssumption == Contents \subseteq 1..10 /\ Destinations \subseteq Id
ASSUME BoundAssumption == MaxRuns \in Nat /\ MaxFds \in Nat \ {0}
ASSUME NoLineAssumption == NoLine \notin Line

VARIABLES
  amountOfClients, \* "change this depending on how many clients are being used"
  driver,          \* the statement main is at, or what ended it
  listening,       \* the routers that have been started
  run,             \* the number of the run, 0 before the first
  runningId,       \* its client
  message,         \* what it sends
  receivedMessage, \* what it got
  queue,           \* connections waiting for each router to accept them
  clientConnect,   \* the connection each router accepted last, 0 for null
  owner,           \* the router each connection was accepted by, 0 for none
  hpc,             \* the statement each handler is at
  wire,            \* the line under way to the router's end of each connection
  replied,         \* the line under way to the client's end
  data,            \* the line its handler has read
  nextRouter,      \* the router the handler chose to be next, 0 for none
  open             \* the descriptors in use: an end and its connection

driverVars == <<amountOfClients, driver, listening, run, runningId, message, receivedMessage>>
threadVars == <<clientConnect, owner, hpc, data, nextRouter>>
netVars    == <<queue, wire, replied, open>>
vars       == <<driverVars, threadVars, netVars>>

Full == Cardinality(open) >= MaxFds

Init ==
  /\ amountOfClients \in Amounts
  /\ driver = "startup" /\ listening = {} /\ run = 0 /\ runningId = 0
  /\ message = NoLine /\ receivedMessage = NoLine
  /\ queue = [r \in Id |-> <<>>]
  /\ clientConnect = [r \in Id |-> 0]
  /\ owner = [n \in Run |-> 0]
  /\ hpc = [n \in Run |-> "off"]
  /\ wire = [n \in Run |-> NoLine]
  /\ replied = [n \in Run |-> NoLine]
  /\ data = [n \in Run |-> NoLine]
  /\ nextRouter = [n \in Run |-> 0]
  /\ open = {}

-----------------------------------------------------------------------------
(* OCMS_Router_Admin.main, with Client.run *)

(* Mutant: the exception ends the loop that makes the routers. *)
StartRouter_BreaksOff ==
  /\ driver = "startup"
  /\ LET i == Cardinality(listening) + 1
     IN  \/ driver' = "pick" /\ UNCHANGED listening
         \/ /\ i \in Id
            /\ listening' = listening \cup {i}
            /\ driver' = IF i = amountOfClients THEN "pick" ELSE "startup"
  /\ UNCHANGED <<amountOfClients, run, runningId, message, receivedMessage, threadVars, netVars>>

(* One turn of the loop that makes the routers: one more than ipList has
   addresses ends main.  So does a port that is taken: the exception is
   printed, and start is called of the null in routerList. *)
StartRouter ==
  /\ driver = "startup"
  /\ LET i == Cardinality(listening) + 1
     IN  \/ i \notin Id /\ driver' = "indexError" /\ UNCHANGED listening
         \/ i \in Id /\ driver' = "portTaken" /\ UNCHANGED listening
         \/ /\ i \in Id
            /\ listening' = listening \cup {i}
            /\ driver' = IF i = amountOfClients THEN "pick" ELSE "startup"
  /\ UNCHANGED <<amountOfClients, run, runningId, message, receivedMessage, threadVars, netVars>>

(* (int)((Math.random()*4)) + 1, whatever amountOfClients is. *)
Pick ==
  /\ driver = "pick" /\ run < MaxRuns
  /\ \E id \in 1..4 :
       IF id <= amountOfClients
       THEN runningId' = id /\ driver' = "connect"
       ELSE driver' = "indexError" /\ UNCHANGED runningId
  /\ run' = IF driver' = "connect" THEN run + 1 ELSE run
  /\ UNCHANGED <<amountOfClients, listening, message, receivedMessage, threadVars, netVars>>

(* new Socket: when it fails the exception is printed, and connect, null or
   the socket closed in an earlier run, ends main a few statements later. *)
Connect ==
  /\ driver = "connect"
  /\ IF Full
     THEN driver' = "noSocket" /\ UNCHANGED <<open, queue>>
     ELSE /\ driver' = "send"
          /\ open' = open \cup {<<"client", run>>}
          /\ queue' = [queue EXCEPT ![runningId] = Append(@, run)]
  /\ UNCHANGED <<amountOfClients, listening, run, runningId, message, receivedMessage, threadVars,
                 wire, replied>>

Digit(n) == 48 + n

(* The messages each client can make for each destination. *)
Messages ==
  [id \in Id |-> [d \in Destinations |->
     { generateMessage(Digit(id), Digit(d), Digit(c), Digit(c)) : c \in Contents }]]

Send ==
  /\ driver = "send"
  /\ driver' = "receive"
  /\ \E d \in Destinations :
       d <= amountOfClients /\ message' \in Messages[runningId][d]
  /\ receivedMessage' = NoLine
  /\ wire' = [wire EXCEPT ![run] = message']
  /\ UNCHANGED <<amountOfClients, listening, run, runningId, threadVars, queue, replied, open>>

HungUp(n) == hpc[n] = "exited" /\ <<"router", n>> \notin open

(* Mutant: a timeout set on the socket, its exception caught like the others. *)
Receive_TimesOut ==
  /\ driver = "receive"
  /\ receivedMessage' = replied[run]
  /\ replied' = [replied EXCEPT ![run] = NoLine]
  /\ driver' = "close"
  /\ UNCHANGED <<amountOfClients, listening, run, runningId, message, threadVars, queue,
                 wire, open>>

(* in.readLine waits for a line, or for the end of the connection, when it
   returns null; checkChecksum throws on null, and that ends main. *)
Receive ==
  /\ driver = "receive"
  /\ replied[run] # NoLine \/ HungUp(run)
  /\ receivedMessage' = replied[run]
  /\ replied' = [replied EXCEPT ![run] = NoLine]
  /\ driver' = IF replied[run] = NoLine \/ checkChecksum(replied[run]) = "throws"
               THEN "checkThrew" ELSE "close"
  /\ UNCHANGED <<amountOfClients, listening, run, runningId, message, threadVars, queue,
                 wire, open>>

(* Mutant: connect.close() commented out, as the handler's is. *)
Close_Omitted ==
  /\ driver = "close"
  /\ driver' = "pick"
  /\ UNCHANGED <<amountOfClients, listening, run, runningId, message, receivedMessage,
                 threadVars, netVars>>

Close ==
  /\ driver = "close"
  /\ driver' = "pick"
  /\ open' = open \ {<<"client", run>>}
  /\ UNCHANGED <<amountOfClients, listening, run, runningId, message, receivedMessage, threadVars,
                 queue, wire, replied>>

-----------------------------------------------------------------------------
(* OCMS_Router.run: accept throws while no descriptor is left, the exception
   is printed and the loop goes on. *)
Accept(r) ==
  /\ r \in listening /\ queue[r] # <<>> /\ ~ Full
  /\ LET n == Head(queue[r])
     IN  /\ clientConnect' = [clientConnect EXCEPT ![r] = n]
         /\ owner' = [owner EXCEPT ![n] = r]
         /\ hpc' = [hpc EXCEPT ![n] = "read"]
         /\ open' = open \cup {<<"router", n>>}
  /\ queue' = [queue EXCEPT ![r] = Tail(@)]
  /\ UNCHANGED <<driverVars, data, nextRouter, wire, replied>>

(* OCMS_AcceptConnectionThread.run *)

leftConnectionId(id) ==
  IF (id - 1) % amountOfClients = 0 THEN amountOfClients ELSE (id - 1) % amountOfClients

(* Mutant: no wrap around for the last router. *)
rightConnectionId_NoWrap(id) == id + 1

rightConnectionId(id) ==
  IF (id + 1) % amountOfClients = 0 THEN amountOfClients ELSE (id + 1) % amountOfClients

(* (int)data.charAt(2) - 47 *)
Target(m) == m[2] - 47

Exit(n) ==
  /\ hpc' = [hpc EXCEPT ![n] = "exited"]
  /\ data' = [data EXCEPT ![n] = NoLine]
  /\ nextRouter' = [nextRouter EXCEPT ![n] = 0]

(* readLine, the checksum, and the choice of the next router, which nothing
   uses.  A line that fails ends the thread, with no word to the client. *)
ReadLine(n) ==
  /\ hpc[n] = "read" /\ wire[n] # NoLine
  /\ wire' = [wire EXCEPT ![n] = NoLine]
  /\ IF checkChecksum(wire[n]) = "true"
     THEN /\ hpc' = [hpc EXCEPT ![n] = "reply"]
          /\ data' = [data EXCEPT ![n] = wire[n]]
          /\ nextRouter' = [nextRouter EXCEPT ![n] =
               LET id == owner[n]
               IN  IF Target(wire[n]) \in {id, leftConnectionId(id)}
                   THEN Target(wire[n]) ELSE rightConnectionId(id)]
     ELSE Exit(n)
  /\ UNCHANGED <<driverVars, clientConnect, owner, queue, replied, open>>

(* out.println(data), on the connection the line came from. *)
Reply(n) ==
  /\ hpc[n] = "reply"
  /\ replied' = [replied EXCEPT ![n] = data[n]]
  /\ IF nextRouter[n] = owner[n]
     THEN hpc' = [hpc EXCEPT ![n] = "deliver"] /\ UNCHANGED <<data, nextRouter>>
     ELSE Exit(n)
  /\ UNCHANGED <<driverVars, clientConnect, owner, queue, wire, open>>

(* Mutant: a handler that waits for the next line on its connection. *)
Deliver_AndLoops(n) ==
  /\ hpc[n] = "deliver"
  /\ hpc' = [hpc EXCEPT ![n] = "read"]
  /\ UNCHANGED <<driverVars, clientConnect, owner, data, nextRouter, netVars>>

(* "Delivered Message": four more lines, which the client does not read and
   may have closed its connection before. *)
Deliver(n) ==
  /\ hpc[n] = "deliver"
  /\ Exit(n)
  /\ UNCHANGED <<driverVars, clientConnect, owner, netVars>>

handler(n) == ReadLine(n) \/ Reply(n) \/ Deliver(n)

(* The garbage collector closes a socket nothing refers to any more. *)
Collect(n) ==
  /\ hpc[n] = "exited" /\ clientConnect[owner[n]] # n
  /\ <<"router", n>> \in open
  /\ open' = open \ {<<"router", n>>}
  /\ UNCHANGED <<driverVars, threadVars, queue, wire, replied>>

-----------------------------------------------------------------------------
Driver == StartRouter \/ Pick \/ Connect \/ Send \/ Receive \/ Close

Next == \/ Driver
        \/ \E r \in Id : Accept(r)
        \/ \E n \in Run : handler(n) \/ Collect(n)

Spec == Init /\ [][Next]_vars

(* Every thread is scheduled; the garbage collector owes nothing. *)
FairSpec == /\ Spec
            /\ WF_vars(Driver)
            /\ \A r \in Id : WF_vars(Accept(r))
            /\ \A n \in Run : WF_vars(handler(n))

-----------------------------------------------------------------------------
Ended == {"indexError", "portTaken", "noSocket", "checkThrew"}

TypeOK ==
  /\ driver \in {"startup", "pick", "connect", "send", "receive", "close"} \cup Ended
  /\ amountOfClients \in Amounts
  /\ listening \subseteq Id
  /\ run \in 0..MaxRuns /\ runningId \in 0..amountOfClients
  /\ message \in Line \cup {NoLine} /\ receivedMessage \in Line \cup {NoLine}
  /\ queue \in [Id -> Seq(Run)]
  /\ clientConnect \in [Id -> 0..MaxRuns]
  /\ owner \in [Run -> 0..amountOfClients]
  /\ hpc \in [Run -> {"off", "read", "reply", "deliver", "exited"}]
  /\ wire \in [Run -> Line \cup {NoLine}] /\ replied \in [Run -> Line \cup {NoLine}]
  /\ data \in [Run -> Line \cup {NoLine}]
  /\ nextRouter \in [Run -> 0..amountOfClients]
  /\ open \subseteq {"client", "router"} \X Run

InConversation == driver \in {"send", "receive"}

(* OCMS_Router_Admin.java:115 with Client.java:95: the driver runs one client
   at a time and each waits for its line, so for all its threads the program
   holds one conversation at a time: the only handler that may be short of
   its answer is that of the current run, and handlers that linger only have
   their notice of delivery to write. *)
OneConversation ==
  /\ \A n \in Run : hpc[n] \in {"read", "reply"} => n = run /\ InConversation
  /\ \A r \in Id, p \in Run :
       p \in { queue[r][q] : q \in DOMAIN queue[r] } => p = run /\ r = runningId /\ InConversation

(* Client.java:123 and OCMS_AcceptConnectionThread.java:145: clients close
   their end after every run, so the only sockets that pile up are the
   routers' ends. *)
OnlyRoutersLeak ==
  \A n \in Run : <<"client", n>> \in open => n = run /\ driver \in {"send", "receive", "close"}

(* Client.java:60 with OCMS_Router.java:71: however many ends the routers
   leave open, it is never the client that finds no descriptor: the one it
   closed last is free again, and it is accept that fails from then on. *)
ConnectFindsDescriptor == driver # "noSocket"

(* Client.java:95: a client never waits on a connection that nobody serves: its
   line has come back, or its handler holds it or has it to read, or its
   router listens and has the connection first in its queue, so that nothing
   but a refused accept can keep it waiting. *)
WaitsForSomebody ==
  driver = "receive" =>
    \/ replied[run] # NoLine
    \/ hpc[run] = "reply"
    \/ hpc[run] = "read" /\ wire[run] # NoLine
    \/ hpc[run] = "off" /\ runningId \in listening /\ queue[runningId] = <<run>>

(* OCMS_Router_Admin.java:87-97, 114 with OCMS_AcceptConnectionThread.java:135:
   however far the start-up gets, and however many clients there are, a client
   runs only with its router listening, and a handler asks only for a router
   that there is. *)
RoutersBeforeClients ==
  /\ runningId # 0 => runningId \in listening
  /\ \A n \in Run : nextRouter[n] # 0 => nextRouter[n] \in listening

(* Client.java:59-130: a client that has been picked gets through its run,
   unless from some time on there is no descriptor for its router to accept
   it with. *)
RunsComplete == []<>(~ Full) => (driver = "connect" ~> driver = "pick")

AllMessages == UNION { Messages[id][d] : id \in Id, d \in Destinations }

Relay == INSTANCE RelayService WITH
           Lines <- AllMessages,
           Number <- Run,
           phase <- CASE driver = "receive" -> "waiting"
                      [] driver = "close" -> "served"
                      [] driver \in Ended -> "stopped"
                      [] OTHER -> "idle",
           underWay <- IF driver = "receive" THEN {<<run, message>>} ELSE {},
           received <- receivedMessage

(* Client.java:69-112 with OCMS_AcceptConnectionThread.java:39-138 and
   OCMS_Router_Admin.java:87-118: through driver, routers and handlers no line
   is lost, changed, doubled or made up, and whatever ends the driver, it is
   not while a client waits for its line.  Who gets it is left open. *)
ImplementsRelay == Relay!Spec

-----------------------------------------------------------------------------
(* What the program says of itself, and does not keep to. *)

destination(m) == m[1] - 48

(* Client.java:90 "Receive message from another client" and
   OCMS_AcceptConnectionThread.java:65 "it checks the left neighbor.  if it's
   the target, it sends the message there.  if not, it sends the message to
   the right neighbor": a line is got by the client it is addressed to. *)
ReachesItsTarget == driver = "close" => destination(receivedMessage) = runningId
=============================================================================
