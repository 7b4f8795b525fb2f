------------------------ MODULE ReverseServerProofs -------------------------
(***************************************************************************)
(* For every number of clients, descriptors and threads: the threads of    *)
(* server.c keep to their own descriptors and give them back, server.c     *)
(* implements ReverseService, and as long as threads are granted nobody    *)
(* waits without a thread, the queue or main having its connection.        *)
(***************************************************************************)
EXTENDS ReverseServer, ReverseClientsProofs

LEMMA Numbers ==
  /\ -1 \notin Fd
  /\ \A n \in 0..(MaxThreads - 1) : n + 1 \in Thread /\ n + 1 \in 0..MaxThreads
  /\ NoPeer \notin Client
BY ReverseServerAssumption DEF Fd, Thread

(* What is read from clients, and what is sent back to them, are bytes. *)
LEMMA BytesStayBytes ==
  /\ Unassigned \in Bytes
  /\ \A c \in Client : \A m \in Bytes : Over(c, m) \in Bytes
  /\ \A m \in Bytes : reversedMessage(m) \in Bytes
<1>1. Unassigned \in Bytes
  BY DEF Unassigned, Bytes, Symbol
<1>2. \A c \in Client : \A m \in Bytes : Over(c, m) \in Bytes
  BY SentIsBytes DEF Over, Bytes
<1>3. ASSUME NEW m \in Bytes PROVE reversedMessage(m) \in Bytes
  <2>1. \A i \in Index : i < 10 => 9 - i \in Index
    BY DEF Index
  <2> QED BY <2>1 DEF reversedMessage, Bytes, Symbol
<1> QED BY <1>1, <1>2, <1>3

LEMMA FreeIsAllocated ==
  ASSUME NEW f, f \in Allocated
  PROVE  f \in {-1} \cup Fd /\ (f \in Fd => table[f] = NoPeer)
BY Numbers DEF Allocated, Free

(* The other end of a descriptor is a client or nobody. *)
LEMMA AtIsClient ==
  ASSUME TypeOK, NEW fd PROVE At(fd) \in Client \cup {NoPeer}
BY DEF TypeOK, At

(* Every variable of the model keeps its type (server.c:18-80). *)
THEOREM TypeCorrect == Spec => []TypeOK
<1>1. Init => TypeOK
  BY BytesStayBytes, ReverseServerAssumption
  DEF Init, TypeOK, ClientInit, ClientTypeOK, Thread
<1>2. TypeOK /\ [Next]_vars => TypeOK'
  <2> SUFFICES ASSUME TypeOK, [Next]_vars PROVE TypeOK'
    OBVIOUS
  <2>1. CASE Accept
    <3>1. PICK f \in Allocated :
            /\ currentIncomingSocket' = f
            /\ IF f \notin Fd
               THEN UNCHANGED <<table, backlog>>
               ELSE /\ backlog # <<>>
                    /\ table' = [table EXCEPT ![f] = Head(backlog)]
                    /\ backlog' = Tail(backlog)
      BY <2>1 DEF Accept
    <3>2. f \in {-1} \cup Fd
      BY FreeIsAllocated
    <3>3. table' \in [Fd -> Client \cup {NoPeer}] /\ backlog' \in Seq(Client)
      <4>1. backlog # <<>> => Head(backlog) \in Client /\ Tail(backlog) \in Seq(Client)
        BY DEF TypeOK, ClientTypeOK
      <4> QED BY <3>1, <4>1 DEF TypeOK, ClientTypeOK
    <3> QED BY <2>1, <3>1, <3>2, <3>3 DEF Accept, TypeOK, ClientTypeOK
  <2>2. CASE Create
    <3> USE <2>2 DEF Create, pthread_create, clientVars
    <3>1. CASE created < MaxThreads
      <4>1. created + 1 \in Thread /\ created + 1 \in 0..MaxThreads
        BY <3>1, Numbers, ReverseServerAssumption DEF TypeOK
      <4>2. At(currentIncomingSocket) \in Client \cup {NoPeer}
        BY AtIsClient
      <4>3. \A t \in Thread : created' < t <=> tpc'[t] = "off"
        <5>1. created' = created + 1 /\ tpc' = [tpc EXCEPT ![created + 1] = "read"]
          BY <3>1
        <5>2. ASSUME NEW t \in Thread PROVE created + 1 < t <=> tpc'[t] = "off"
          BY <4>1, <5>1 DEF TypeOK, Thread
        <5> QED BY <5>1, <5>2
      <4>4. ClientTypeOK' /\ created' \in 0..MaxThreads
        BY <3>1, <4>1 DEF TypeOK, ClientTypeOK
      <4>5. /\ tpc' \in [Thread -> {"off", "read", "write", "close", "exited"}]
            /\ incomingClientSocket' \in [Thread -> {-1} \cup Fd]
            /\ peer' \in [Thread -> Client \cup {NoPeer}]
        BY <3>1, <4>2 DEF TypeOK
      <4>6. UNCHANGED <<currentIncomingSocket, message, table>> /\ mpc' = "accept"
        OBVIOUS
      <4> QED BY <4>3, <4>4, <4>5, <4>6 DEF TypeOK
    <3>2. CASE ~ (created < MaxThreads)
      BY <3>2 DEF TypeOK, ClientTypeOK
    <3> QED BY <3>1, <3>2
  <2>3. ASSUME NEW t \in Thread, Read(t) PROVE TypeOK'
    <3> DEFINE c == At(incomingClientSocket[t])
    <3>1. /\ message' \in [Thread -> Bytes]
          /\ wire' \in [Client -> {"empty", "sent", "taken"}]
      <4>1. c \in Client \cup {NoPeer}
        BY AtIsClient
      <4>2. CASE c # NoPeer /\ wire[c] = "sent"
        <5>1. c \in Client /\ Over(c, message[t]) \in Bytes
          BY <4>1, <4>2, BytesStayBytes DEF TypeOK
        <5>2. /\ message' = [message EXCEPT ![t] = Over(c, message[t])]
              /\ wire' = [wire EXCEPT ![c] = "taken"]
          BY <2>3, <4>2 DEF Read, Got
        <5> QED BY <5>1, <5>2 DEF TypeOK, ClientTypeOK
      <4>3. CASE ~ (c # NoPeer /\ wire[c] = "sent")
        BY <2>3, <4>3 DEF Read, TypeOK, ClientTypeOK
      <4> QED BY <4>2, <4>3
    <3>2. tpc[t] = "read" /\ tpc' = [tpc EXCEPT ![t] = "write"]
      BY <2>3 DEF Read
    <3> QED BY <2>3, <3>1, <3>2 DEF Read, TypeOK, ClientTypeOK
  <2>4. ASSUME NEW t \in Thread, Write(t) PROVE TypeOK'
    <3>1. reply' \in [Client -> {NoLine} \cup Bytes]
      BY <2>4, AtIsClient, BytesStayBytes DEF Write, TypeOK, ClientTypeOK
    <3>2. tpc[t] = "write" /\ tpc' = [tpc EXCEPT ![t] = "close"]
      BY <2>4 DEF Write
    <3> QED BY <2>4, <3>1, <3>2 DEF Write, TypeOK, ClientTypeOK
  <2>5. ASSUME NEW t \in Thread, Close(t) PROVE TypeOK'
    BY <2>5 DEF Close, TypeOK, ClientTypeOK, clientVars
  <2>6. ASSUME NEW c \in Client, BasicClient(c) PROVE TypeOK'
    <3>1. ClientTypeOK'
      <4>1. ClientStep(c, Closed(c))
        BY <2>6 DEF BasicClient, ClientStep
      <4> QED BY <4>1, ClientStepKeepsTypes DEF TypeOK
    <3> QED BY <2>6, <3>1 DEF BasicClient, serverVars, TypeOK
  <2>7. CASE UNCHANGED vars
    BY <2>7 DEF vars, clientVars, serverVars, TypeOK, ClientTypeOK
  <2> QED BY <2>1, <2>2, <2>3, <2>4, <2>5, <2>6, <2>7 DEF Next, main, ServerResponse
<1> QED BY <1>1, <1>2, PTL DEF Spec

(***************************************************************************)
(* OwnDescriptor and NoDescriptorLeak are inductive together with two      *)
(* facts: the number of a running thread is -1 just if nobody was accepted *)
(* for it, and a number that main is about to hand over is in use.  So     *)
(* accept, which takes a number not in use, never takes a thread's.        *)
(***************************************************************************)
NumberHasPeer ==
  \A t \in Thread : Running(t) => (peer[t] # NoPeer <=> incomingClientSocket[t] \in Fd)

HandedOverInUse ==
  mpc = "create" /\ currentIncomingSocket \in Fd => table[currentIncomingSocket] # NoPeer

IInv == TypeOK /\ OwnDescriptor /\ NoDescriptorLeak /\ NumberHasPeer /\ HandedOverInUse

(* IInv is inductive (server.c:21-80). *)
THEOREM DescriptorsKept == Spec => []IInv
<1>1. Init => IInv
  BY BytesStayBytes, ReverseServerAssumption
  DEF Init, IInv, TypeOK, ClientInit, ClientTypeOK, OwnDescriptor, NoDescriptorLeak,
      NumberHasPeer, HandedOverInUse, Running, Thread, Free
<1>2. IInv /\ TypeOK' /\ [Next]_vars => IInv'
  <2> SUFFICES ASSUME IInv, TypeOK', [Next]_vars
               PROVE  OwnDescriptor' /\ NoDescriptorLeak' /\ NumberHasPeer' /\ HandedOverInUse'
    BY DEF IInv
  <2> USE DEF IInv
  <2>1. CASE Accept
    <3>1. PICK f \in Allocated :
            /\ currentIncomingSocket' = f
            /\ IF f \notin Fd
               THEN UNCHANGED <<table, backlog>>
               ELSE /\ backlog # <<>>
                    /\ table' = [table EXCEPT ![f] = Head(backlog)]
                    /\ backlog' = Tail(backlog)
      BY <2>1 DEF Accept
    <3>2. f \in {-1} \cup Fd /\ (f \in Fd => table[f] = NoPeer)
      BY FreeIsAllocated
    <3>3. /\ mpc' = "create"
          /\ UNCHANGED <<tpc, created, incomingClientSocket, peer>>
      BY <2>1 DEF Accept
    <3>4. f \in Fd => Head(backlog) \in Client /\ Head(backlog) # NoPeer
      BY <3>1, Numbers DEF TypeOK, ClientTypeOK
    <3>5. \A g \in Fd : g # f => table'[g] = table[g]
      BY <3>1 DEF TypeOK
    <3>6. f \in Fd => table'[f] = Head(backlog)
      BY <3>1 DEF TypeOK
    <3>7. \A t \in Thread : Running(t) /\ incomingClientSocket[t] \in Fd
            => incomingClientSocket[t] # f
      BY <3>2 DEF OwnDescriptor, NumberHasPeer, At
    <3>8. OwnDescriptor'
      BY <3>1, <3>3, <3>5, <3>7 DEF OwnDescriptor, At, Running
    <3>9. NoDescriptorLeak'
      BY <2>1, <3>1, <3>3, <3>5 DEF NoDescriptorLeak, Free, Running, Accept
    <3>10. NumberHasPeer' /\ HandedOverInUse'
      BY <3>1, <3>3, <3>4, <3>6 DEF NumberHasPeer, HandedOverInUse, Running
    <3> QED BY <3>8, <3>9, <3>10
  <2>2. CASE Create
    <3>1. mpc = "create" /\ mpc' = "accept" /\ UNCHANGED <<table, currentIncomingSocket>>
      BY <2>2 DEF Create, pthread_create
    <3>2. CASE created < MaxThreads
      <4> DEFINE n == created + 1
      <4>1. n \in Thread /\ tpc[n] = "off" /\ created' = n
        BY <2>2, <3>2, Numbers, ReverseServerAssumption DEF TypeOK, Create, pthread_create, Thread
      <4> HIDE DEF n
      <4>2. /\ tpc' = [tpc EXCEPT ![n] = "read"]
            /\ incomingClientSocket' = [incomingClientSocket EXCEPT ![n] = currentIncomingSocket]
            /\ peer' = [peer EXCEPT ![n] = At(currentIncomingSocket)]
        BY <2>2, <3>2 DEF Create, pthread_create, n
      <4>3. \A t \in Thread \ {n} :
              /\ tpc'[t] = tpc[t] /\ peer'[t] = peer[t]
              /\ incomingClientSocket'[t] = incomingClientSocket[t]
        BY <4>2 DEF TypeOK
      <4>4. /\ tpc'[n] = "read" /\ peer'[n] = At(currentIncomingSocket)
            /\ incomingClientSocket'[n] = currentIncomingSocket
        BY <4>1, <4>2 DEF TypeOK
      <4>5. \A t \in Thread : Running(t)' <=> t = n \/ Running(t)
        BY <4>1, <4>3, <4>4 DEF Running
      <4>6. OwnDescriptor'
        BY <3>1, <4>1, <4>3, <4>4, <4>5 DEF OwnDescriptor, At
      <4>7. NoDescriptorLeak'
        <5> SUFFICES ASSUME NEW f \in Fd, table[f] # NoPeer
                     PROVE  \E t \in Thread : Running(t)' /\ incomingClientSocket'[t] = f
          BY <3>1 DEF NoDescriptorLeak, Free
        <5>1. CASE f = currentIncomingSocket
          BY <4>1, <4>4, <4>5, <5>1
        <5>2. CASE f # currentIncomingSocket
          <6>1. PICK t \in Thread : Running(t) /\ incomingClientSocket[t] = f
            BY <3>2, <5>2 DEF NoDescriptorLeak, Free
          <6>2. t # n
            BY <4>1, <6>1 DEF Running
          <6> QED BY <4>3, <4>5, <6>1, <6>2
        <5> QED BY <5>1, <5>2
      <4>8. NumberHasPeer'
        BY <3>1, <4>1, <4>3, <4>4, <4>5 DEF NumberHasPeer, HandedOverInUse, At
      <4> QED BY <3>1, <4>6, <4>7, <4>8 DEF HandedOverInUse
    <3>3. CASE ~ (created < MaxThreads)
      <4>1. UNCHANGED <<created, tpc, incomingClientSocket, peer>>
        BY <2>2, <3>3 DEF Create, pthread_create
      <4> QED BY <3>1, <3>3, <4>1
          DEF OwnDescriptor, NoDescriptorLeak, NumberHasPeer, HandedOverInUse, At, Running
    <3> QED BY <3>2, <3>3
  <2>3. ASSUME NEW t \in Thread, Read(t) \/ Write(t)
        PROVE  OwnDescriptor' /\ NoDescriptorLeak' /\ NumberHasPeer' /\ HandedOverInUse'
    <3>1. /\ UNCHANGED <<mpc, currentIncomingSocket, table, created, incomingClientSocket, peer>>
          /\ \A u \in Thread : Running(u)' <=> Running(u)
      BY <2>3 DEF Read, Write, Running, TypeOK
    <3> QED BY <3>1 DEF OwnDescriptor, NoDescriptorLeak, NumberHasPeer, HandedOverInUse, At, Free
  <2>4. ASSUME NEW t \in Thread, Close(t)
        PROVE  OwnDescriptor' /\ NoDescriptorLeak' /\ NumberHasPeer' /\ HandedOverInUse'
    <3> DEFINE f == incomingClientSocket[t]
    <3>1. UNCHANGED <<mpc, currentIncomingSocket, created, incomingClientSocket, peer>>
      BY <2>4 DEF Close
    <3>2. Running(t) /\ \A u \in Thread : Running(u)' <=> Running(u) /\ u # t
      BY <2>4 DEF Close, Running, TypeOK
    <3>3. \A g \in Fd : table'[g] = IF g = f THEN NoPeer ELSE table[g]
      BY <2>4 DEF Close, ToClose
    <3>4. \A u \in Thread \ {t} : Running(u) /\ incomingClientSocket[u] \in Fd
            => incomingClientSocket[u] # f
      BY <3>2 DEF OwnDescriptor
    <3>5. mpc = "create" /\ currentIncomingSocket \in Fd => currentIncomingSocket # f
      BY <3>2 DEF OwnDescriptor
    <3> HIDE DEF f
    <3>6. OwnDescriptor' /\ NumberHasPeer'
      BY <3>1, <3>2, <3>3, <3>4 DEF OwnDescriptor, NumberHasPeer, At
    <3>7. NoDescriptorLeak'
      BY <3>1, <3>2, <3>3 DEF NoDescriptorLeak, Free, f
    <3>8. HandedOverInUse'
      BY <3>1, <3>3, <3>5 DEF HandedOverInUse
    <3> QED BY <3>6, <3>7, <3>8
  <2>5. ASSUME UNCHANGED serverVars
        PROVE  OwnDescriptor' /\ NoDescriptorLeak' /\ NumberHasPeer' /\ HandedOverInUse'
    BY <2>5 DEF serverVars, OwnDescriptor, NoDescriptorLeak, NumberHasPeer, HandedOverInUse,
                At, Free, Running
  <2> QED BY <2>1, <2>2, <2>3, <2>4, <2>5 DEF Next, main, ServerResponse, BasicClient, vars
<1> QED BY <1>1, <1>2, TypeCorrect, PTL DEF Spec

(* server.c:74-78 with 21, 38: however many clients come and go, the number
   a thread was given means its own connection until it closes it. *)
THEOREM DescriptorsAreOwn == Spec => []OwnDescriptor
<1>1. IInv => OwnDescriptor
  BY DEF IInv
<1> QED BY <1>1, DescriptorsKept, PTL

(* server.c:38, 78: as long as threads are granted no descriptor is lost. *)
THEOREM NoneLeaks == Spec => []NoDescriptorLeak
<1>1. IInv => NoDescriptorLeak
  BY DEF IInv
<1> QED BY <1>1, DescriptorsKept, PTL

(***************************************************************************)
(* The answer under way to a client is its own line reversed, because the  *)
(* descriptor its thread writes to is still the one it has read from, and  *)
(* has nothing of anybody else's, because every thread has a message of    *)
(* its own, into which it reads once.                                      *)
(***************************************************************************)
UnreadIsUnassigned == \A t \in Thread : tpc[t] \in {"off", "read"} => message[t] = Unassigned

MessageIsPeers ==
  \A t \in Thread :
    tpc[t] = "write" /\ peer[t] # NoPeer /\ ~ Left(peer[t])
      => message[t] = Over(peer[t], Unassigned)

AInv == IInv /\ UnreadHasNoLine /\ UnreadIsUnassigned /\ MessageIsPeers /\ ReplyIsOwn

(* The loop of lines 31 to 34 reverses ten characters; of fewer it makes a
   line with unassigned bytes in between. *)
LEMMA ServerReverses ==
  ASSUME NEW c \in Client PROVE IsOwn(reversedMessage(Over(c, Unassigned)), c)
<1> DEFINE m == Over(c, Unassigned)
<1>1. \A q \in 0..9 : q \in Index /\ q < 10 /\ 9 - q \in 0..9
  BY DEF Index
<1>2. CASE c[1] \notin Short
  <2>1. \A q \in 0..9 : m[q] = Question(c)[q]
    BY <1>1, <1>2, SentIsBytes DEF Over, Question, Index
  <2> QED BY <1>1, <1>2, <2>1 DEF IsOwn, reversedMessage, Service!Reversed
<1>3. CASE c[1] \in Short
  <2>1. \A q \in Index : m[q] \in Service!Own(c)
    BY <1>3, OwnOfShort DEF Over, Unassigned
  <2>2. Junk \in Service!Own(c)
    BY <1>3, OwnOfShort
  <2>3. \A q \in Index : q < 10 => 9 - q \in Index
    BY DEF Index
  <2> HIDE DEF m
  <2>4. \A q \in Index : reversedMessage(m)[q] \in Service!Own(c)
    BY <2>1, <2>2, <2>3 DEF reversedMessage
  <2> QED BY <1>3, <2>4 DEF IsOwn, m
<1> QED BY <1>2, <1>3

(* AInv is inductive (server.c:21-36). *)
THEOREM AnswersAreOwn == Spec => []AInv
<1>1. Init /\ IInv => AInv
  BY DEF Init, ClientInit, AInv, UnreadHasNoLine, UnreadIsUnassigned, MessageIsPeers,
         ReplyIsOwn, Left
<1>2. AInv /\ IInv' /\ [Next]_vars => AInv'
  <2> SUFFICES ASSUME AInv, IInv', [Next]_vars
               PROVE  UnreadHasNoLine' /\ UnreadIsUnassigned' /\ MessageIsPeers' /\ ReplyIsOwn'
    BY DEF AInv
  <2> USE DEF AInv, IInv
  <2>1. CASE Accept
    BY <2>1 DEF Accept, UnreadHasNoLine, UnreadIsUnassigned, MessageIsPeers, ReplyIsOwn, Left
  <2>2. CASE Create
    <3>1. /\ UNCHANGED <<cpc, line, reply, message>>
          /\ \A t \in Thread : tpc'[t] = "write" => tpc[t] = "write" /\ peer'[t] = peer[t]
          /\ \A t \in Thread : tpc'[t] \in {"off", "read"} => tpc[t] \in {"off", "read"}
      <4> USE <2>2 DEF Create, pthread_create, clientVars, TypeOK
      <4>1. CASE created < MaxThreads
        <5>1. created + 1 \in Thread /\ tpc[created + 1] = "off"
          BY <4>1, Numbers, ReverseServerAssumption DEF Thread
        <5> QED BY <4>1, <5>1
      <4>2. CASE ~ (created < MaxThreads)
        BY <4>2
      <4> QED BY <4>1, <4>2
    <3> QED BY <3>1 DEF UnreadHasNoLine, UnreadIsUnassigned, MessageIsPeers, ReplyIsOwn, Left
  <2>3. ASSUME NEW t \in Thread, Read(t)
        PROVE  UnreadHasNoLine' /\ UnreadIsUnassigned' /\ MessageIsPeers' /\ ReplyIsOwn'
    <3>1. /\ UNCHANGED <<cpc, line, reply, peer>>
          /\ tpc[t] = "read" /\ tpc' = [tpc EXCEPT ![t] = "write"]
      BY <2>3 DEF Read
    <3>2. At(incomingClientSocket[t]) = peer[t]
      BY <3>1 DEF OwnDescriptor, Running
    <3>3. peer[t] # NoPeer /\ ~ Left(peer[t]) => message'[t] = Over(peer[t], Unassigned)
      <4>1. peer[t] # NoPeer /\ ~ Left(peer[t]) => wire[peer[t]] = "sent"
        BY <2>3, <3>2 DEF Read, CanRead, Readable, Left
      <4>2. message[t] = Unassigned
        BY <3>1 DEF UnreadIsUnassigned
      <4> QED BY <2>3, <3>2, <4>1, <4>2 DEF Read, Got, TypeOK
    <3>4. \A u \in Thread \ {t} : message'[u] = message[u] /\ tpc'[u] = tpc[u]
      BY <2>3 DEF Read, Got, TypeOK
    <3>5. MessageIsPeers' /\ UnreadIsUnassigned'
      <4>1. tpc'[t] = "write"
        BY <3>1 DEF TypeOK
      <4> QED BY <3>1, <3>3, <3>4, <4>1 DEF MessageIsPeers, UnreadIsUnassigned, Left
    <3> QED BY <3>1, <3>5 DEF UnreadHasNoLine, ReplyIsOwn, Left
  <2>4. ASSUME NEW t \in Thread, Write(t)
        PROVE  UnreadHasNoLine' /\ UnreadIsUnassigned' /\ MessageIsPeers' /\ ReplyIsOwn'
    <3>1. /\ UNCHANGED <<cpc, line, message, peer>>
          /\ tpc[t] = "write" /\ tpc' = [tpc EXCEPT ![t] = "close"]
          /\ reply' = IF At(incomingClientSocket[t]) = NoPeer THEN reply
                      ELSE [reply EXCEPT ![At(incomingClientSocket[t])]
                              = reversedMessage(message[t])]
      BY <2>4 DEF Write
    <3>2. At(incomingClientSocket[t]) = peer[t]
      BY <3>1 DEF OwnDescriptor, Running
    <3>3. ReplyIsOwn'
      <4> SUFFICES ASSUME NEW c \in Client, ~ Left(c)
                   PROVE  reply'[c] = NoLine \/ IsOwn(reply'[c], c)
        BY <3>1 DEF ReplyIsOwn, Left, IsOwn, Question
      <4>1. CASE c = peer[t]
        <5>1. message[t] = Over(c, Unassigned) /\ c # NoPeer
          BY <3>1, <4>1, Numbers DEF MessageIsPeers
        <5>2. reply'[c] = reversedMessage(Over(c, Unassigned))
          BY <3>1, <3>2, <4>1, <5>1 DEF TypeOK, ClientTypeOK
        <5> QED BY <5>2, ServerReverses
      <4>2. CASE c # peer[t]
        <5>1. reply'[c] = reply[c]
          BY <3>1, <3>2, <4>2 DEF TypeOK, ClientTypeOK
        <5> QED BY <5>1 DEF ReplyIsOwn
      <4> QED BY <4>1, <4>2
    <3>4. MessageIsPeers' /\ UnreadHasNoLine' /\ UnreadIsUnassigned'
      BY <3>1 DEF MessageIsPeers, UnreadHasNoLine, UnreadIsUnassigned, Left, TypeOK
    <3> QED BY <3>3, <3>4
  <2>5. ASSUME NEW t \in Thread, Close(t)
        PROVE  UnreadHasNoLine' /\ UnreadIsUnassigned' /\ MessageIsPeers' /\ ReplyIsOwn'
    BY <2>5 DEF Close, clientVars, UnreadHasNoLine, UnreadIsUnassigned, MessageIsPeers,
                ReplyIsOwn, Left, TypeOK
  <2>6. ASSUME NEW c \in Client, BasicClient(c)
        PROVE  UnreadHasNoLine' /\ UnreadIsUnassigned' /\ MessageIsPeers' /\ ReplyIsOwn'
    <3>1. ClientStep(c, Closed(c)) /\ UNCHANGED <<tpc, message, peer>>
      BY <2>6 DEF BasicClient, ClientStep, serverVars
    <3>2. UnreadHasNoLine' /\ ReplyIsOwn' /\ \A d \in Client : Left(d) => Left(d)'
      BY <3>1, ClientStepKeepsLeft DEF TypeOK
    <3>3. \A t \in Thread : peer[t] # NoPeer => peer[t] \in Client
      BY DEF TypeOK
    <3> QED BY <3>1, <3>2, <3>3 DEF MessageIsPeers, UnreadIsUnassigned
  <2>7. CASE UNCHANGED vars
    BY <2>7 DEF vars, clientVars, serverVars, UnreadHasNoLine, UnreadIsUnassigned,
                MessageIsPeers, ReplyIsOwn, Left
  <2> QED BY <2>1, <2>2, <2>3, <2>4, <2>5, <2>6, <2>7 DEF Next, main, ServerResponse
<1> QED BY <1>1, <1>2, DescriptorsKept, PTL DEF Spec

(* server.c implements ReverseService, a server's steps being stutters of it: a
   client that sends ten characters is answered at most once, with its own line
   reversed (server.c:18-36); a process of client4.c, which sends six and reads
   six, gets of the buffer nothing but its own bytes and unassigned ones. *)
THEOREM ServerImplementsService == Spec => ImplementsService
<1>1. Init => Service!Init
  BY ClientsStartAsService DEF Init
<1>2. AInv /\ [Next]_vars => [Service!Next]_(Service!vars)
  <2> SUFFICES ASSUME AInv, [Next]_vars PROVE [Service!Next]_(Service!vars)
    OBVIOUS
  <2>1. CASE UNCHANGED <<cpc, line>>
    BY <2>1, RestIsStutter
  <2>2. ASSUME NEW c \in Client, BasicClient(c)
        PROVE  Service!Next \/ UNCHANGED Service!vars
    <3>1. ClientStep(c, Closed(c))
      BY <2>2 DEF BasicClient, ClientStep
    <3> QED BY <3>1, ClientStepIsService DEF AInv, IInv, TypeOK
  <2> QED BY <2>1, <2>2
      DEF Next, main, Accept, Create, pthread_create, ServerResponse, Read, Write, Close,
          clientVars, vars
<1> QED BY <1>1, <1>2, AnswersAreOwn, PTL DEF Spec, ImplementsService, Service!Spec
(***************************************************************************)
(* The part of AskedIsAnswered that needs no fairness: a connection is in  *)
(* the queue, in main's hand or a thread's, and no thread is through with  *)
(* a client that lives before it has answered it.                          *)
(***************************************************************************)
NobodyIsForgotten ==
  \A c \in Client : cpc[c] # "idle" /\ ~ Left(c) =>
    \/ \E q \in DOMAIN backlog : backlog[q] = c
    \/ mpc = "create" /\ At(currentIncomingSocket) = c
    \/ \E t \in Thread : peer[t] = c
    \/ created = MaxThreads

DoneIsAnswered ==
  \A t \in Thread :
    tpc[t] \in {"close", "exited"} /\ peer[t] # NoPeer /\ ~ Left(peer[t])
      => reply[peer[t]] # NoLine

OffHasNoPeer == \A t \in Thread : tpc[t] = "off" => peer[t] = NoPeer

FInv == NobodyIsForgotten /\ DoneIsAnswered /\ OffHasNoPeer

(* What clients do to FInv: who connects is queued, who leaves is not owed
   anything, and none takes an answer back. *)
LEMMA ClientKeepsFInv ==
  ASSUME IInv, FInv, NEW c \in Client, BasicClient(c) PROVE FInv'
<1> USE DEF IInv, TypeOK, ClientTypeOK
<1>1. UNCHANGED serverVars
  BY DEF BasicClient
<1>2. reply' = reply /\ \A d \in Client : Left(d) => Left(d)'
  BY ClientStepKeepsLeft DEF BasicClient, ClientStep
<1>3. DoneIsAnswered' /\ OffHasNoPeer'
  BY <1>1, <1>2 DEF FInv, DoneIsAnswered, OffHasNoPeer, serverVars
<1>4. CASE Connect(c)
  <2>1. /\ backlog' = Append(backlog, c)
        /\ \A d \in Client \ {c} : cpc'[d] = cpc[d]
    BY <1>4 DEF Connect
  <2>2. /\ \E q \in DOMAIN backlog' : backlog'[q] = c
        /\ \A q \in DOMAIN backlog : q \in DOMAIN backlog' /\ backlog'[q] = backlog[q]
    <3>1. Len(backlog) + 1 \in DOMAIN backlog' /\ backlog'[Len(backlog) + 1] = c
      BY <2>1
    <3>2. \A q \in DOMAIN backlog : q \in DOMAIN backlog' /\ backlog'[q] = backlog[q]
      BY <2>1
    <3> QED BY <3>1, <3>2
  <2>3. NobodyIsForgotten'
    BY <1>1, <2>1, <2>2 DEF FInv, NobodyIsForgotten, serverVars, At, Left
  <2> QED BY <1>3, <2>3 DEF FInv
<1>5. CASE Println(c) \/ ReadLine(c, Closed(c)) \/ ReadSix(c, Closed(c)) \/ Kill(c)
  <2>1. backlog' = backlog /\ \A d \in Client : cpc[d] = "idle" => cpc'[d] = "idle"
    BY <1>5 DEF Println, ReadLine, ReadSix, Kill
  <2>2. NobodyIsForgotten'
    BY <1>1, <1>2, <2>1 DEF FInv, NobodyIsForgotten, serverVars, At
  <2> QED BY <1>3, <2>2 DEF FInv
<1> QED BY <1>4, <1>5 DEF BasicClient

(* And what main and the threads do: a queued connection is handed over, and
   the thread that has it ends only after its answer. *)
LEMMA ServerKeepsFInv ==
  ASSUME IInv, FInv, main \/ \E t \in Thread : ServerResponse(t) PROVE FInv'
<1> USE DEF IInv
<1>1. CASE Accept
  <2>1. PICK f \in Allocated :
          /\ currentIncomingSocket' = f
          /\ IF f \notin Fd
             THEN UNCHANGED <<table, backlog>>
             ELSE /\ backlog # <<>>
                  /\ table' = [table EXCEPT ![f] = Head(backlog)]
                  /\ backlog' = Tail(backlog)
    BY <1>1 DEF Accept
  <2>2. /\ mpc = "accept" /\ mpc' = "create"
        /\ UNCHANGED <<cpc, reply, created, tpc, peer>>
    BY <1>1 DEF Accept
  <2>3. ASSUME NEW q \in DOMAIN backlog
        PROVE  \/ \E r \in DOMAIN backlog' : backlog'[r] = backlog[q]
               \/ At(currentIncomingSocket)' = backlog[q]
    <3>1. CASE f \notin Fd
      BY <2>1, <3>1
    <3>2. CASE f \in Fd /\ q = 1
      <4>1. table'[f] = backlog[q]
        BY <2>1, <3>2 DEF TypeOK, ClientTypeOK
      <4> QED BY <2>1, <3>2, <4>1 DEF At
    <3>3. CASE f \in Fd /\ q # 1
      <4>1. q - 1 \in DOMAIN backlog' /\ backlog'[q - 1] = backlog[q]
        BY <2>1, <3>3 DEF TypeOK, ClientTypeOK
      <4> QED BY <4>1
    <3> QED BY <3>1, <3>2, <3>3
  <2>4. NobodyIsForgotten'
    BY <2>2, <2>3 DEF FInv, NobodyIsForgotten, Left
  <2> QED BY <2>2, <2>4 DEF FInv, DoneIsAnswered, OffHasNoPeer, Left
<1>2. CASE Create
  <2>1. UNCHANGED <<cpc, reply, backlog>>
    BY <1>2 DEF Create, pthread_create, clientVars
  <2>2. CASE created < MaxThreads
    <3> DEFINE n == created + 1
    <3>1. n \in Thread /\ tpc[n] = "off" /\ created' = n
      BY <1>2, <2>2, Numbers, ReverseServerAssumption DEF TypeOK, Create, pthread_create, Thread
    <3> HIDE DEF n
    <3>2. /\ tpc' = [tpc EXCEPT ![n] = "read"]
          /\ peer' = [peer EXCEPT ![n] = At(currentIncomingSocket)]
      BY <1>2, <2>2 DEF Create, pthread_create, n
    <3>3. /\ tpc'[n] = "read" /\ peer'[n] = At(currentIncomingSocket) /\ peer[n] = NoPeer
          /\ \A t \in Thread \ {n} : tpc'[t] = tpc[t] /\ peer'[t] = peer[t]
      BY <3>1, <3>2 DEF TypeOK, FInv, OffHasNoPeer
    <3>4. ASSUME NEW c \in Client, \E t \in Thread : peer[t] = c
          PROVE  \E t \in Thread : peer'[t] = c
      BY <3>3, <3>4, Numbers
    <3>5. NobodyIsForgotten'
      <4>1. created # MaxThreads
        BY <2>2, ReverseServerAssumption
      <4> QED BY <2>1, <3>1, <3>3, <3>4, <4>1 DEF FInv, NobodyIsForgotten, Left
    <3>6. DoneIsAnswered' /\ OffHasNoPeer'
      BY <2>1, <3>3 DEF FInv, DoneIsAnswered, OffHasNoPeer, Left
    <3> QED BY <3>5, <3>6 DEF FInv
  <2>3. CASE ~ (created < MaxThreads)
    <3>1. UNCHANGED <<created, tpc, peer>> /\ created = MaxThreads
      BY <1>2, <2>3, ReverseServerAssumption DEF Create, pthread_create, TypeOK
    <3> QED BY <2>1, <3>1 DEF FInv, NobodyIsForgotten, DoneIsAnswered, OffHasNoPeer, Left
  <2> QED BY <2>2, <2>3
<1>3. ASSUME NEW t \in Thread, Read(t) PROVE FInv'
  <2>1. /\ UNCHANGED <<cpc, reply, backlog, mpc, currentIncomingSocket, table, created, peer>>
        /\ tpc[t] = "read" /\ tpc' = [tpc EXCEPT ![t] = "write"]
    BY <1>3 DEF Read
  <2> QED BY <2>1 DEF FInv, NobodyIsForgotten, DoneIsAnswered, OffHasNoPeer, Left, At, TypeOK
<1>4. ASSUME NEW t \in Thread, Write(t) PROVE FInv'
  <2> DEFINE c == At(incomingClientSocket[t])
  <2>1. /\ UNCHANGED <<cpc, backlog, mpc, currentIncomingSocket, table, created, peer>>
        /\ tpc[t] = "write" /\ tpc' = [tpc EXCEPT ![t] = "close"]
        /\ reply' = IF c = NoPeer THEN reply
                    ELSE [reply EXCEPT ![c] = reversedMessage(message[t])]
    BY <1>4 DEF Write
  <2>2. c = peer[t]
    BY <2>1 DEF OwnDescriptor, Running
  <2>3. reversedMessage(message[t]) # NoLine
    BY DEF reversedMessage, NoLine, Index
  <2>4. /\ peer[t] # NoPeer => reply'[peer[t]] # NoLine
        /\ \A d \in Client : reply[d] # NoLine => reply'[d] # NoLine
    <3> HIDE DEF c
    <3> QED BY <2>1, <2>2, <2>3 DEF TypeOK, ClientTypeOK
  <2>5. \A u \in Thread : peer[u] # NoPeer => peer[u] \in Client
    BY DEF TypeOK
  <2>6. \A u \in Thread \ {t} : tpc'[u] = tpc[u]
    BY <2>1 DEF TypeOK
  <2> HIDE DEF c
  <2>7. DoneIsAnswered' /\ OffHasNoPeer'
    BY <2>1, <2>4, <2>5, <2>6 DEF FInv, DoneIsAnswered, OffHasNoPeer, Left, TypeOK
  <2> QED BY <2>1, <2>7 DEF FInv, NobodyIsForgotten, Left, At
<1>5. ASSUME NEW t \in Thread, Close(t) PROVE FInv'
  <2>1. /\ UNCHANGED <<cpc, reply, backlog, mpc, currentIncomingSocket, created, peer>>
        /\ tpc[t] = "close" /\ tpc' = [tpc EXCEPT ![t] = "exited"]
        /\ \A g \in Fd : table'[g] = IF g = incomingClientSocket[t] THEN NoPeer ELSE table[g]
    BY <1>5 DEF Close, ToClose, clientVars
  <2>2. mpc = "create" => At(currentIncomingSocket)' = At(currentIncomingSocket)
    <3>1. incomingClientSocket[t] \in Fd /\ mpc = "create"
            => incomingClientSocket[t] # currentIncomingSocket
      BY <2>1 DEF OwnDescriptor, Running
    <3> QED BY <2>1, <3>1 DEF At
  <2> QED BY <2>1, <2>2 DEF FInv, NobodyIsForgotten, DoneIsAnswered, OffHasNoPeer, Left, TypeOK
<1> QED BY <1>1, <1>2, <1>3, <1>4, <1>5 DEF main, ServerResponse

(* server.c:24, 36, 74-78: for any number of clients, descriptors and threads,
   somebody who waits for an answer has it under way or has somebody to give it,
   unless no thread was left. *)
THEOREM WaitersAreServed == Spec => []WaitsForAnswer
<1>1. Init => FInv
  BY DEF Init, ClientInit, FInv, NobodyIsForgotten, DoneIsAnswered, OffHasNoPeer
<1>2. IInv /\ FInv /\ [Next]_vars => FInv'
  <2> SUFFICES ASSUME IInv, FInv, [Next]_vars PROVE FInv'
    OBVIOUS
  <2>1. CASE UNCHANGED vars
    BY <2>1 DEF vars, clientVars, serverVars, FInv, NobodyIsForgotten, DoneIsAnswered,
                OffHasNoPeer, Left, At
  <2> QED BY <2>1, ServerKeepsFInv, ClientKeepsFInv DEF Next
<1>3. IInv /\ FInv => WaitsForAnswer
  <2> SUFFICES ASSUME IInv, FInv, NEW c \in Client, cpc[c] = "reading", reply[c] = NoLine,
                      NEW t \in Thread, peer[t] = c
               PROVE  tpc[t] \in {"read", "write"}
    BY DEF FInv, NobodyIsForgotten, WaitsForAnswer, Left
  <2>1. ~ Left(c) /\ c # NoPeer
    BY Numbers DEF Left
  <2> QED BY <2>1 DEF FInv, DoneIsAnswered, OffHasNoPeer, IInv, TypeOK
<1> QED BY <1>1, <1>2, <1>3, DescriptorsKept, PTL DEF Spec
=============================================================================
