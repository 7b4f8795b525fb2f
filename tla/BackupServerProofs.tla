------------------------- MODULE BackupServerProofs -------------------------
(***************************************************************************)
(* For every number of clients and every length of the loop: only the      *)
(* client accepted after the loop can be cut off without an answer, and    *)
(* the backups' server implements ReverseService.                          *)
(***************************************************************************)
EXTENDS BackupServer, ReverseClientsProofs

LEMMA BackwardsIsBytes ==
  ASSUME NEW c \in Client, c[1] \notin Short PROVE backwardsMessage(c) \in Bytes
<1>1. \A i \in Index : i < 10 => 10 - i - 1 \in Index
  BY DEF Index
<1>2. DOMAIN Sent(c) = Index /\ \A q \in Index : Sent(c)[q] \in Symbol
  BY SentIsBytes
<1>3. 10 \in Index
  BY DEF Index
<1> QED BY <1>1, <1>2, <1>3 DEF backwardsMessage, Bytes

(* The loop of BasicThread.java:39-42 reverses ten characters. *)
LEMMA BackupReverses ==
  ASSUME NEW c \in Client, c[1] \notin Short PROVE IsOwn(backwardsMessage(c), c)
<1>1. \A q \in 0..9 : q \in Index /\ q < 10 /\ 10 - q - 1 = 9 - q /\ 9 - q \in 0..9
  BY DEF Index
<1>2. \A q \in 0..9 : Question(c)[q] = Sent(c)[q]
  BY SentIsBytes DEF Question, Index
<1> QED BY <1>1, <1>2 DEF IsOwn, backwardsMessage, Service!Reversed

(* Only a thread that has read a line goes on to reverse it: not that of a
   process of client4.c, which sends none. *)
ReversesLines == \A c \in Client : tpc[c] = "println" => c[1] \notin Short

(* What run goes by: it accepts only while the loop lasts and once after it,
   is about to deal with the client it accepted last, and closes once. *)
RunInv ==
  /\ mpc = "accept" => numberOfClients <= Loop
  /\ mpc \in {"start", "close"} => connect \in Client /\ turn[connect] = numberOfClients
  /\ mpc = "close" => numberOfClients = Loop + 1
  /\ closed # {} => mpc = "end"
  /\ \A c \in closed : turn[c] = Loop + 1

(* A client reads nothing only from a connection that run has closed. *)
CutIsClosed == \A c \in Client : cpc[c] = "done" /\ line[c] = NoLine => c \in closed

IInv == TypeOK /\ RunInv /\ ReversesLines /\ CutIsClosed /\ UnreadHasNoLine /\ ReplyIsOwn

LEMMA InitIInv == Init => IInv
BY BackupServerAssumption
DEF Init, ClientInit, IInv, TypeOK, ClientTypeOK, RunInv, ReversesLines, CutIsClosed,
    UnreadHasNoLine, ReplyIsOwn, Left

(* The steps of run keep IInv (BasicServer.java:39-59). *)
LEMMA RunKeepsIInv == ASSUME IInv, run PROVE IInv'
<1> USE BackupServerAssumption DEF IInv, TypeOK, ClientTypeOK
<1>1. CASE Accept
  <2>1. /\ connect' \in Client /\ backlog' \in Seq(Client)
        /\ numberOfClients' = numberOfClients + 1 /\ numberOfClients' \in 0..(Loop + 1)
        /\ turn' = [turn EXCEPT ![connect'] = numberOfClients']
        /\ closed = {} /\ mpc' = "start"
        /\ UNCHANGED <<cpc, wire, reply, line, listening, closed, tpc>>
    BY <1>1 DEF Accept, RunInv
  <2>2. TypeOK'
    BY <2>1
  <2>3. RunInv'
    BY <2>1 DEF RunInv
  <2> QED BY <2>1, <2>2, <2>3 DEF CutIsClosed, UnreadHasNoLine, ReplyIsOwn,
         ReversesLines, Left
<1>2. CASE Start
  <2>1. /\ mpc = "start" /\ mpc' = AfterStart /\ connect \in Client
        /\ tpc' = [tpc EXCEPT ![connect] = "streams"]
        /\ UNCHANGED <<clientVars, numberOfClients, connect, listening, closed, turn>>
    BY <1>2 DEF Start, RunInv
  <2>2. TypeOK'
    BY <2>1 DEF clientVars, AfterStart
  <2>3. RunInv'
    BY <2>1 DEF RunInv, AfterStart
  <2> QED BY <2>1, <2>2, <2>3 DEF clientVars, CutIsClosed, UnreadHasNoLine, ReplyIsOwn,
         ReversesLines, Left
<1>3. CASE Close
  <2>1. /\ mpc = "close" /\ mpc' = "end" /\ connect \in Client /\ turn[connect] = Loop + 1
        /\ closed' = closed \cup {connect}
        /\ UNCHANGED <<clientVars, numberOfClients, connect, listening, tpc, turn>>
    BY <1>3 DEF Close, RunInv
  <2>2. TypeOK' /\ RunInv'
    BY <2>1 DEF clientVars, RunInv
  <2> QED BY <2>1, <2>2 DEF clientVars, CutIsClosed, UnreadHasNoLine, ReplyIsOwn,
         ReversesLines, Left
<1> QED BY <1>1, <1>2, <1>3 DEF run

(* So does each thread (BasicThread.java:25-52), which only writes to its own
   client, and the end of the JVM. *)
LEMMA ThreadKeepsIInv ==
  ASSUME IInv, NEW c \in Client, BasicThread(c) PROVE IInv'
<1> USE DEF IInv, TypeOK, ClientTypeOK
<1>1. CASE Streams(c) \/ Receive(c)
  <2>1. /\ UNCHANGED <<cpc, reply, line, backlog, mpc, numberOfClients, connect, listening,
                       closed, turn>>
        /\ tpc' \in [Client -> {"off", "streams", "readLine", "println", "exited"}]
        /\ wire' \in [Client -> {"empty", "sent", "taken"}]
        /\ ReversesLines'
    <3>1. CASE Streams(c)
      BY <3>1 DEF Streams, clientVars, ReversesLines
    <3>2. CASE Receive(c)
      BY <3>2 DEF Receive, HasLine, AtEnd, clientVars, ReversesLines
    <3> QED BY <1>1, <3>1, <3>2
  <2> QED BY <2>1 DEF RunInv, CutIsClosed, UnreadHasNoLine, ReplyIsOwn,
         ReversesLines, Left
<1>2. CASE Reverse(c)
  <2>1. /\ UNCHANGED <<cpc, wire, line, backlog, mpc, numberOfClients, connect, listening,
                       closed, turn>>
        /\ tpc' \in [Client -> {"off", "streams", "readLine", "println", "exited"}]
        /\ reply' = [d \in Client |-> IF d \in {c} \ closed THEN backwardsMessage(c) ELSE reply[d]]
        /\ ReversesLines' /\ c[1] \notin Short
    BY <1>2 DEF Reverse, Answers, ReversesLines
  <2>2. reply' \in [Client -> {NoLine} \cup Bytes]
    BY <2>1, BackwardsIsBytes
  <2>3. ReplyIsOwn'
    <3> HIDE DEF IInv
    <3>1. ASSUME NEW d \in Client PROVE Left(d)' \/ reply'[d] = NoLine \/ IsOwn(reply'[d], d)
      BY <2>1, BackupReverses DEF IInv, ReplyIsOwn, Left
    <3> QED BY <3>1 DEF ReplyIsOwn, IsOwn, Question
  <2> QED BY <2>1, <2>2, <2>3 DEF RunInv, CutIsClosed, UnreadHasNoLine, Left
<1> QED BY <1>1, <1>2 DEF BasicThread

LEMMA StopKeepsIInv == ASSUME IInv, StopListening PROVE IInv'
<1>1. /\ listening' = FALSE /\ backlog' = <<>>
      /\ UNCHANGED <<cpc, wire, reply, line, mpc, numberOfClients, connect, closed, tpc, turn>>
  BY DEF StopListening
<1>2. backlog' \in Seq(Client)
  BY <1>1
<1>3. TypeOK'
  <2>1. listening' \in BOOLEAN
    BY <1>1
  <2> HIDE DEF Client
  <2> QED BY <1>1, <1>2, <2>1, Zenon DEF IInv, TypeOK, ClientTypeOK
<1> QED BY <1>1, <1>3 DEF IInv, RunInv, CutIsClosed, UnreadHasNoLine, ReplyIsOwn,
         ReversesLines, Left

(* And a client's own step (BasicClient.java:22-52). *)
LEMMA ClientKeepsIInv ==
  ASSUME IInv, NEW c \in Client, BasicClient(c) PROVE IInv'
<1> USE DEF IInv, TypeOK
<1>1. UNCHANGED serverVars
  BY DEF BasicClient
<1>2. ClientTypeOK' /\ UnreadHasNoLine' /\ ReplyIsOwn' /\ CutIsClosed'
  <2>1. CASE ClientStep(c, c \in closed)
    <3>1. CutIsClosed'
      <4> USE <1>1 DEF CutIsClosed, ClientTypeOK, serverVars
      <4>1. CASE Connect(c)
        BY <4>1 DEF Connect
      <4>2. CASE Println(c)
        BY <4>2 DEF Println
      <4>3. CASE ReadLine(c, c \in closed)
        BY <4>3 DEF ReadLine
      <4>4. CASE ReadSix(c, c \in closed)
        <5>1. [q \in 0..5 |-> reply[c][q]] # NoLine
          BY DEF NoLine
        <5> QED BY <4>4, <5>1 DEF ReadSix
      <4>5. CASE Kill(c)
        BY <4>5 DEF Kill
      <4> QED BY <2>1, <4>1, <4>2, <4>3, <4>4, <4>5 DEF ClientStep
    <3> QED BY <2>1, <3>1, ClientStepKeepsTypes, ClientStepKeepsLeft
  <2>2. CASE Refused(c) \/ Reset(c)
    <3>1. /\ UNCHANGED <<wire, reply, line, backlog>> /\ ~ Left(c)
          /\ cpc' = [cpc EXCEPT ![c] = Failed(c)] /\ Failed(c) \in {"failed", "gone"}
      BY <2>2 DEF Refused, Reset, Turn, Failed, Left
    <3>2. ClientTypeOK' /\ CutIsClosed'
      BY <1>1, <3>1 DEF ClientTypeOK, CutIsClosed, serverVars
    <3>3. \A d \in Client : Left(d) => Left(d)'
      BY <3>1 DEF ClientTypeOK, Left
    <3> QED BY <3>1, <3>2, <3>3 DEF UnreadHasNoLine, ReplyIsOwn, IsOwn, Question
  <2> QED BY <2>1, <2>2 DEF BasicClient, GetsAnswer, ClientStep
<1> QED BY <1>1, <1>2 DEF serverVars, RunInv, ReversesLines

(* IInv is inductive. *)
THEOREM RunKept == Spec => []IInv
<1>1. IInv /\ [Next]_vars => IInv'
  <2> SUFFICES ASSUME IInv, [Next]_vars PROVE IInv'
    OBVIOUS
  <2>1. CASE UNCHANGED vars
    BY <2>1 DEF vars, clientVars, serverVars, IInv, TypeOK, ClientTypeOK, RunInv, CutIsClosed,
                UnreadHasNoLine, ReplyIsOwn, ReversesLines, Left
  <2> QED BY <2>1, RunKeepsIInv, StopKeepsIInv, ThreadKeepsIInv, ClientKeepsIInv DEF Next
<1> QED BY <1>1, InitIInv, PTL DEF Spec

(* Every variable of the model keeps its type (BasicServer.java:39-59). *)
THEOREM TypeCorrect == Spec => []TypeOK
<1>1. IInv => TypeOK
  BY DEF IInv
<1> QED BY <1>1, RunKept, PTL

(* BasicServer.java:50-53: the race of run's close with the thread it has just
   started costs only the client of that thread its answer. *)
THEOREM LastIsCutAtMost == Spec => []OnlyLastIsCut
<1>1. IInv => OnlyLastIsCut
  BY DEF IInv, RunInv, CutIsClosed, OnlyLastIsCut
<1> QED BY <1>1, RunKept, PTL

(* The backups' server implements ReverseService (BasicServer.java:37). *)
THEOREM BackupImplementsService == Spec => ImplementsService
<1>1. Init => Service!Init
  BY ClientsStartAsService DEF Init
<1>2. IInv /\ [Next]_vars => [Service!Next]_(Service!vars)
  <2> SUFFICES ASSUME IInv, [Next]_vars PROVE [Service!Next]_(Service!vars)
    OBVIOUS
  <2>1. CASE UNCHANGED <<cpc, line>>
    BY <2>1, RestIsStutter
  <2>2. ASSUME NEW c \in Client, BasicClient(c)
        PROVE  Service!Next \/ UNCHANGED Service!vars
    <3>1. CASE ClientStep(c, c \in closed)
      BY <3>1, ClientStepIsService DEF IInv, TypeOK
    <3>2. CASE Refused(c) \/ Reset(c)
      <4>1. /\ ~ Left(c) /\ line' = line
            /\ cpc' = [cpc EXCEPT ![c] = Failed(c)] /\ Failed(c) \in {"failed", "gone"}
        BY <3>2 DEF Refused, Reset, Turn, Failed, Left
      <4>2. Service!Lose(c)
        BY <4>1, LeavingIsLosing DEF IInv, TypeOK
      <4> QED BY <4>2 DEF Service!Next
    <3> QED BY <2>2, <3>1, <3>2 DEF BasicClient, GetsAnswer, ClientStep
  <2> QED BY <2>1, <2>2
      DEF Next, run, Accept, Start, Close, StopListening, BasicThread, Streams, Receive,
          Reverse, clientVars, vars
<1> QED BY <1>1, <1>2, RunKept, PTL DEF Spec, ImplementsService, Service!Spec
=============================================================================
