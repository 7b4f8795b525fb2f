--------------------------- MODULE CSystemProofs ----------------------------
(***************************************************************************)
(* Theorems about CSystem: for any number of clients and messages, and any *)
(* bounds of the router, the system is a router with clients at the other  *)
(* end, and what CRouterProofs says of the router alone holds in it.       *)
(***************************************************************************)
EXTENDS CSystem, CRouterProofs, SequenceTheorems

(* No step of the system is outside what the router alone may do. *)
LEMMA SystemStepIsRouters == [SystemNext]_systemVars => [Next]_vars
<1> SUFFICES ASSUME [SystemNext]_systemVars PROVE [Next]_vars
  OBVIOUS
<1>1. CASE AcceptClient
  BY <1>1 DEF AcceptClient, Next, Main
<1>2. CASE ReadClient
  BY <1>2 DEF ReadClient, Next, Main
<1>3. CASE Clear \/ Spawn
  BY <1>3 DEF Next, Main
<1>4. ASSUME NEW t \in Handler, HandlerThread(t) PROVE Next
  BY <1>4 DEF HandlerThread, Next
<1>5. ASSUME NEW c \in Client, client(c) \/ Kill(c) PROVE UNCHANGED vars
  BY <1>5 DEF client, Connect, Write, ReadReply, Kill
<1>6. CASE UNCHANGED systemVars
  BY <1>6 DEF systemVars
<1> QED BY <1>1, <1>2, <1>3, <1>4, <1>5, <1>6 DEF SystemNext, MainThread

(* router.c:57-68 with its clients is router.c:57-68: every behaviour of the
   system is one of CRouter. *)
THEOREM SystemIsRouter == SystemSpec => Spec
<1>1. SystemInit => Init
  BY DEF SystemInit
<1> QED BY <1>1, SystemStepIsRouters, PTL DEF SystemSpec, Spec

-----------------------------------------------------------------------------
(* What the clients send: a message that passes the check, without a NUL in
   front of the last byte. *)
Genuine(m) ==
  /\ m \in Message /\ checkChecksum(m)
  /\ \A p \in Position : p # 5 => m[p] # 0

(* client2.c:76-86, 154-180: all that a client can make in one of its rounds
   is genuine; no sum of its characters reaches 255. *)
LEMMA CandidatesAreGenuine ==
  ASSUME NEW c \in Client, dataContent[c] \in 1..Messages,
         NEW m \in Candidates(c)
  PROVE  Genuine(m) /\ m # Cleared
<1>1. PICK d \in 1..4 :
        m = generateMessage(Digit(Program[c]), Digit(d),
                            Digit(dataContent[c]), Digit(dataContent[c]))
  BY MessagesAssumption DEF Candidates
<1> DEFINE a == Digit(Program[c])
           b == Digit(d)
           n == Digit(dataContent[c])
<1>2. a \in 50..52 /\ b \in 49..52 /\ n \in 49..58
  BY ProgramAssumption, MessagesAssumption DEF Digit
<1>3. m = generateMessage(a, b, n, n)
  BY <1>1
<1> HIDE DEF a, b, n
<1>4. m \in Message /\ checkChecksum(m)
  <2>1. a \in Byte /\ b \in Byte /\ n \in Byte
    BY <1>2 DEF Byte
  <2> QED BY <1>3, <2>1, GeneratedIsAccepted
<1>5. (a + b + n + n) % 256 \in 0..254
  BY <1>2
<1>6. generateChecksum((a + b + n + n) % 256) # 0
  BY <1>5, ChecksumIsComplement DEF Byte
<1>7. /\ m[0] = a /\ m[1] = b /\ m[3] = n /\ m[4] = n
      /\ m[2] = generateChecksum((a + b + n + n) % 256)
  BY <1>3 DEF generateMessage, Cleared, Position
<1>8. m[0] # 0 /\ m[1] # 0 /\ m[2] # 0 /\ m[3] # 0 /\ m[4] # 0
  BY <1>2, <1>6, <1>7
<1>9. \A p \in Position : p # 5 => m[p] # 0
  BY <1>8 DEF Position
<1>10. m # Cleared
  BY <1>8 DEF Cleared, Position
<1> QED BY <1>4, <1>9, <1>10 DEF Genuine

(* client2.c:118: zeros are no message. *)
LEMMA ZerosAreRejected == ~ checkChecksum(Cleared)
<1>1. Cleared[0] = 0 /\ Cleared[1] = 0 /\ Cleared[2] = 0 /\ Cleared[3] = 0 /\ Cleared[4] = 0
  BY DEF Cleared, Position
<1> QED BY <1>1, CheckIsSum255, ClearedIsMessage

(* No thread of the router closes a connection, or brings the process back. *)
LEMMA HandlerKeepsConnections ==
  ASSUME NEW t \in Handler, handleConnection(t)
  PROVE  /\ \A u \in Handler : Conn(u) \in open' <=> Conn(u) \in open
         /\ process = "up"
<1> USE Names DEF At
<1>1. CASE CopyByte(t) \/ EnterCheck(t) \/ LeaveCheck(t) \/ Send(t)
  BY <1>1 DEF CopyByte, EnterCheck, LeaveCheck, Send
<1>2. CASE OpenTable(t) \/ OpenAddresses(t)
  BY <1>2 DEF OpenTable, OpenAddresses, Fopen
<1>3. CASE ReadTable(t) \/ ReadAddresses(t) \/ Socket(t) \/ Close(t)
  BY <1>3 DEF ReadTable, ReadAddresses, Socket, Close
<1>4. CASE Overrun(t)
  BY <1>4 DEF Overrun
<1> QED BY <1>1, <1>2, <1>3, <1>4 DEF handleConnection

-----------------------------------------------------------------------------
(* A client that is not through its rounds has some left. *)
RoundsLeft ==
  \A c \in Client :
    cpc[c] \in {"connect", "write", "read"} => dataContent[c] <= Messages

(* SystemTypeOK without the part that is CRouter's. *)
EndsTypeOK ==
  /\ cpc \in [Client -> {"connect", "write", "read", "end", "killed"}]
  /\ dataContent \in [Client -> 1..(Messages + 1)]
  /\ message \in [Client -> Message]
  /\ reported \in [Client -> BOOLEAN]
  /\ bound \in BOOLEAN
  /\ backlog \in Seq(Served)
  /\ peer \in [Handler -> Served \cup {NoPeer}]

LEMMA NextRoundKeepsTypes ==
  ASSUME EndsTypeOK, RoundsLeft, NEW c \in Client, cpc[c] \in {"connect", "read"},
         NextRound(c)
  PROVE  /\ cpc' \in [Client -> {"connect", "write", "read", "end", "killed"}]
         /\ dataContent' \in [Client -> 1..(Messages + 1)]
         /\ RoundsLeft'
<1>1. /\ dataContent[c] \in 1..Messages /\ Messages \in 1..10
      /\ dataContent' = [dataContent EXCEPT ![c] = dataContent[c] + 1]
      /\ cpc' = [cpc EXCEPT ![c] = IF dataContent[c] = Messages THEN "end" ELSE "connect"]
  BY MessagesAssumption DEF EndsTypeOK, RoundsLeft, NextRound
<1>2. dataContent[c] + 1 \in 1..(Messages + 1)
  BY <1>1
<1>3. dataContent[c] # Messages => dataContent[c] + 1 <= Messages
  BY <1>1
<1>4. RoundsLeft'
  BY <1>1, <1>3 DEF EndsTypeOK, RoundsLeft
<1> QED BY <1>1, <1>2, <1>4 DEF EndsTypeOK

(* A step of main or a handler that neither accepts nor reads. *)
LEMMA QuietSteps ==
  ASSUME TypeOK, (Clear \/ Spawn) \/ \E t \in Handler : handleConnection(t)
  PROVE  /\ \A u \in Handler : Conn(u) \in open' <=> Conn(u) \in open
         /\ received' = received /\ LastRead' = LastRead
         /\ process = "up"
<1>1. CASE Clear \/ Spawn
  BY <1>1 DEF Clear, Spawn, LastRead
<1>2. ASSUME NEW t \in Handler, handleConnection(t)
      PROVE  /\ \A u \in Handler : Conn(u) \in open' <=> Conn(u) \in open
             /\ received' = received /\ LastRead' = LastRead
             /\ process = "up"
  BY <1>2, HandlerKeepsConnections, HandlerStepIsLocal DEF mainVars, LastRead
<1> QED BY <1>1, <1>2

(* router.c:60: accept is what a turn has its connection, and its peer, from. *)
TurnsConnected == \A t \in Handler : Conn(t) \in open <=> peer[t] # NoPeer

(* The parts of the inductive invariant that need no order of the turns. *)
EInv == EndsTypeOK /\ RoundsLeft /\ TurnsConnected

THEOREM EndsKept == SystemSpec => []EInv
<1>1. SystemInit => EInv
  <2> SUFFICES ASSUME SystemInit PROVE EInv
    OBVIOUS
  <2>1. EndsTypeOK
    BY ClearedIsMessage, MessagesAssumption DEF SystemInit, EndsTypeOK
  <2>2. RoundsLeft
    BY MessagesAssumption DEF SystemInit, RoundsLeft
  <2>3. TurnsConnected
    BY DEF SystemInit, Init, TurnsConnected
  <2> QED BY <2>1, <2>2, <2>3 DEF EInv
<1>2. TypeOK /\ EInv /\ [SystemNext]_systemVars => EInv'
  <2> SUFFICES ASSUME TypeOK, EInv, [SystemNext]_systemVars PROVE EInv'
    OBVIOUS
  <2>0. EndsTypeOK /\ RoundsLeft /\ TurnsConnected
    BY DEF EInv
  <2>1. CASE AcceptClient
    <3>1. UNCHANGED <<clientVars, bound>>
      BY <2>1 DEF AcceptClient
    <3>2. RoundsLeft'
      BY <2>0, <3>1 DEF RoundsLeft, clientVars
    <3>3. CASE Full
      <4>1. open' = open /\ backlog' = backlog /\ peer' = peer
        BY <2>1, <3>3 DEF AcceptClient, Accept
      <4> QED
        BY <2>0, <3>1, <3>2, <4>1 DEF EInv, EndsTypeOK, TurnsConnected, clientVars
    <3>4. CASE ~ Full
      <4>1. /\ backlog # <<>> /\ backlog' = Tail(backlog)
            /\ peer' = [peer EXCEPT ![iter + 1] = Head(backlog)]
            /\ open' = open \cup {Conn(iter + 1)} /\ iter + 1 \in Handler
        BY <2>1, <3>4, MaxIterAssumption
           DEF AcceptClient, Accept, TypeOK, Handler
      <4>2. backlog \in Seq(Served) /\ peer \in [Handler -> Served \cup {NoPeer}]
        BY <2>0 DEF EndsTypeOK
      <4>3. Head(backlog) \in Served /\ Tail(backlog) \in Seq(Served)
        BY <4>1, <4>2, HeadTailProperties
      <4>4. Head(backlog) # NoPeer
        BY <4>3, ClientAssumption DEF Served
      <4>5. EndsTypeOK'
        BY <2>0, <3>1, <4>1, <4>2, <4>3 DEF EndsTypeOK, clientVars
      <4>6. TurnsConnected'
        BY <2>0, <4>1, <4>2, <4>4 DEF TurnsConnected, Conn
      <4> QED BY <3>2, <4>5, <4>6 DEF EInv
    <3> QED BY <3>3, <3>4
  <2>2. CASE ReadClient
    BY <2>0, <2>2 DEF ReadClient, Read, EInv, EndsTypeOK, RoundsLeft, TurnsConnected,
                      clientVars, netVars
  <2>3. CASE UNCHANGED <<clientVars, netVars>>
             /\ ((Clear \/ Spawn) \/ \E t \in Handler : handleConnection(t))
    BY <2>0, <2>3, QuietSteps DEF EInv, EndsTypeOK, RoundsLeft, TurnsConnected,
                                  clientVars, netVars
  <2>4. ASSUME NEW c \in Client, Connect(c) PROVE EInv'
    <3>1. /\ UNCHANGED <<open, reported, bound, peer>> /\ cpc[c] = "connect"
      BY <2>4 DEF Connect, vars
    <3>2. CASE Listening /\ c \in Served
      <4>1. /\ cpc' = [cpc EXCEPT ![c] = "write"] /\ dataContent' = dataContent
            /\ message' = [message EXCEPT ![c] = Cleared]
            /\ backlog' = Append(backlog, c)
        BY <2>4, <3>2 DEF Connect
      <4>2. EndsTypeOK'
        BY <2>0, <3>1, <3>2, <4>1, ClearedIsMessage DEF EndsTypeOK
      <4>3. RoundsLeft'
        BY <2>0, <3>1, <4>1 DEF RoundsLeft, EndsTypeOK
      <4> QED BY <2>0, <3>1, <4>2, <4>3 DEF EInv, TurnsConnected
    <3>3. CASE ~ (Listening /\ c \in Served)
      <4>1. NextRound(c) /\ UNCHANGED <<message, backlog>>
        BY <2>4, <3>3 DEF Connect, AfterRefusal
      <4> QED
        BY <2>0, <3>1, <4>1, NextRoundKeepsTypes DEF EInv, EndsTypeOK, TurnsConnected
    <3> QED BY <3>2, <3>3
  <2>5. ASSUME NEW c \in Client, Write(c) PROVE EInv'
    <3>1. /\ UNCHANGED <<open, dataContent, reported, bound, backlog, peer>>
          /\ cpc[c] = "write" /\ cpc' = [cpc EXCEPT ![c] = "read"]
      BY <2>5 DEF Write, vars, netVars
    <3>2. PICK m \in Candidates(c) : message' = [message EXCEPT ![c] = m]
      BY <2>5 DEF Write
    <3>3. dataContent[c] \in 1..Messages
      BY <2>0, <3>1, MessagesAssumption DEF EndsTypeOK, RoundsLeft
    <3>4. m \in Message
      BY <3>3, CandidatesAreGenuine DEF Genuine
    <3> QED
      BY <2>0, <3>1, <3>2, <3>4 DEF EInv, EndsTypeOK, RoundsLeft, TurnsConnected
  <2>6. ASSUME NEW c \in Client, ReadReply(c) PROVE EInv'
    <3>1. /\ UNCHANGED <<open, message, bound, backlog, peer>> /\ cpc[c] = "read"
          /\ reported' = [reported EXCEPT ![c] = reported[c] \/ checkChecksum(Cleared)]
          /\ NextRound(c)
      BY <2>6 DEF ReadReply, vars, netVars
    <3>2. reported' = [reported EXCEPT ![c] = reported[c]]
      BY <2>0, <3>1, ZerosAreRejected DEF EndsTypeOK
    <3>3. reported' \in [Client -> BOOLEAN]
      BY <2>0, <3>2 DEF EndsTypeOK
    <3> QED
      BY <2>0, <3>1, <3>3, NextRoundKeepsTypes DEF EInv, EndsTypeOK, TurnsConnected
  <2>7. ASSUME NEW c \in Client, Kill(c) PROVE EInv'
    BY <2>0, <2>7 DEF Kill, EInv, EndsTypeOK, RoundsLeft, TurnsConnected, vars, netVars
  <2>8. CASE UNCHANGED systemVars
    BY <2>0, <2>8 DEF EInv, EndsTypeOK, RoundsLeft, TurnsConnected,
                      systemVars, vars, clientVars, netVars
  <2> QED
    BY <2>1, <2>2, <2>3, <2>4, <2>5, <2>6, <2>7, <2>8
       DEF SystemNext, MainThread, HandlerThread, client
<1> QED BY <1>1, <1>2, SystemIsRouter, TypeCorrect, PTL DEF SystemSpec

(* Types of the system. *)
THEOREM SystemTypeCorrect == SystemSpec => []SystemTypeOK
<1>1. TypeOK /\ EInv => SystemTypeOK
  BY DEF EInv, EndsTypeOK, SystemTypeOK
<1> QED BY <1>1, EndsKept, SystemIsRouter, TypeCorrect, PTL

(* client2.c:118: what a client does not get it does not report. *)
THEOREM NothingReported == SystemSpec => []NoPhantomMessage
<1>1. SystemInit => NoPhantomMessage
  BY DEF SystemInit, NoPhantomMessage
<1>2. EInv /\ NoPhantomMessage /\ [SystemNext]_systemVars => NoPhantomMessage'
  <2> SUFFICES ASSUME EInv, NoPhantomMessage, [SystemNext]_systemVars
               PROVE  NoPhantomMessage'
    OBVIOUS
  <2>1. CASE UNCHANGED reported
    BY <2>1 DEF NoPhantomMessage
  <2>2. ASSUME NEW c \in Client, ReadReply(c) PROVE NoPhantomMessage'
    <3>1. reported' = [reported EXCEPT ![c] = reported[c] \/ checkChecksum(Cleared)]
      BY <2>2 DEF ReadReply
    <3>2. reported' = [reported EXCEPT ![c] = reported[c]]
      BY <3>1, ZerosAreRejected DEF EInv, EndsTypeOK
    <3>3. reported' = reported
      BY <3>2 DEF EInv, EndsTypeOK
    <3> QED BY <3>3 DEF NoPhantomMessage
  <2> QED
    BY <2>1, <2>2 DEF SystemNext, MainThread, AcceptClient, ReadClient, HandlerThread,
                      client, Connect, Write, Kill, systemVars, clientVars
<1> QED BY <1>1, <1>2, EndsKept, PTL DEF SystemSpec

-----------------------------------------------------------------------------
(* The clients whose connections wait to be accepted, and those that were. *)
Queued == { backlog[q] : q \in DOMAIN backlog }
Turned == { peer[t] : t \in Handler } \ {NoPeer}

(* As the router neither answers nor closes, a client has one turn of the
   accept loop at most, and none while it is queued. *)
OneTurnPerClient ==
  \A t, u \in Handler :
    /\ peer[t] # NoPeer => \A q \in DOMAIN backlog : backlog[q] # peer[t]
    /\ peer[t] # NoPeer /\ peer[t] = peer[u] => t = u

(* What keeps that up: nobody queues twice, and as long as the router is up
   whoever has queued does not connect again. *)
TurnsInv ==
  /\ OneTurnPerClient
  /\ \A q, r \in DOMAIN backlog : backlog[q] = backlog[r] => q = r
  /\ process = "up" =>
       \A c \in Queued \cup Turned : cpc[c] \in {"write", "read", "killed"}

(* The client an accept takes out of the queue was in it once, and who is
   left was in it before. *)
LEMMA HeadLeaves ==
  ASSUME backlog \in Seq(Served), backlog # <<>>,
         \A q, r \in DOMAIN backlog : backlog[q] = backlog[r] => q = r
  PROVE  LET rest == Tail(backlog)
         IN  /\ \A q \in DOMAIN rest : rest[q] \in Queued /\ rest[q] # Head(backlog)
             /\ \A q, r \in DOMAIN rest : rest[q] = rest[r] => q = r
             /\ Head(backlog) \in Queued
<1> DEFINE rest == Tail(backlog)
<1>1. /\ Len(backlog) \in Nat \ {0} /\ DOMAIN backlog = 1..Len(backlog)
      /\ rest \in Seq(Served) /\ Len(rest) = Len(backlog) - 1
      /\ \A q \in 1..Len(rest) : rest[q] = backlog[q + 1]
      /\ Head(backlog) = backlog[1]
  BY EmptySeq, HeadTailProperties, LenProperties
<1>2. DOMAIN rest = 1..(Len(backlog) - 1)
  BY <1>1, LenProperties
<1> HIDE DEF rest
<1>3. \A q \in DOMAIN rest :
        rest[q] = backlog[q + 1] /\ q + 1 \in DOMAIN backlog /\ q + 1 # 1
  BY <1>1, <1>2
<1>4. 1 \in DOMAIN backlog
  BY <1>1
<1>5. \A q \in DOMAIN rest : rest[q] \in Queued /\ rest[q] # Head(backlog)
  BY <1>1, <1>3, <1>4 DEF Queued
<1>6. ASSUME NEW q \in DOMAIN rest, NEW r \in DOMAIN rest, rest[q] = rest[r]
      PROVE  q = r
  <2>1. q + 1 = r + 1
    BY <1>3, <1>6
  <2> QED BY <1>2, <2>1
<1>7. Head(backlog) \in Queued
  BY <1>1, <1>4 DEF Queued
<1> QED BY <1>5, <1>6, <1>7 DEF rest

(* client2.c:104 with router.c:57-68: no client gets a second turn, so that the
   message it has written stays that of its turn. *)
THEOREM TurnsAreOwn == SystemSpec => []TurnsInv
<1>1. SystemInit => TurnsInv
  BY DEF SystemInit, TurnsInv, OneTurnPerClient, Queued, Turned
<1>2. TypeOK /\ EInv /\ TurnsInv /\ [SystemNext]_systemVars => TurnsInv'
  <2> SUFFICES ASSUME TypeOK, EInv, TurnsInv, [SystemNext]_systemVars PROVE TurnsInv'
    OBVIOUS
  <2>0. /\ cpc \in [Client -> {"connect", "write", "read", "end", "killed"}]
        /\ backlog \in Seq(Served) /\ peer \in [Handler -> Served \cup {NoPeer}]
        /\ \A q, r \in DOMAIN backlog : backlog[q] = backlog[r] => q = r
        /\ OneTurnPerClient
    BY DEF EInv, EndsTypeOK, TurnsInv
  <2>1. ASSUME UNCHANGED <<backlog, peer>>, process' = "up" => process = "up",
               \A c \in Client : cpc[c] \in {"write", "read", "killed"} =>
                 cpc'[c] \in {"write", "read", "killed"} \/ process' # "up"
        PROVE  TurnsInv'
    <3>1. Queued' = Queued /\ Turned' = Turned
      BY <2>1 DEF Queued, Turned
    <3>2. Queued \cup Turned \subseteq Client
      BY <2>0, ElementOfSeq, LenProperties DEF Queued, Turned, Served
    <3> QED BY <2>0, <2>1, <3>1, <3>2 DEF TurnsInv, OneTurnPerClient
  <2>2. CASE AcceptClient
    <3>1. UNCHANGED <<process, cpc>> /\ iter + 1 \in Handler
      BY <2>2, MaxIterAssumption DEF AcceptClient, Accept, clientVars, TypeOK, Handler
    <3>2. CASE Full
      <4>1. UNCHANGED <<backlog, peer>>
        BY <2>2, <3>2 DEF AcceptClient
      <4> QED BY <2>1, <3>1, <4>1
    <3>3. CASE ~ Full
      <4>1. /\ backlog # <<>> /\ backlog' = Tail(backlog)
            /\ peer' = [peer EXCEPT ![iter + 1] = Head(backlog)]
        BY <2>2, <3>3 DEF AcceptClient
      <4>2. /\ \A q \in DOMAIN backlog' : backlog'[q] \in Queued /\ backlog'[q] # Head(backlog)
            /\ \A q, r \in DOMAIN backlog' : backlog'[q] = backlog'[r] => q = r
            /\ Head(backlog) \in Queued
        BY <2>0, <4>1, HeadLeaves
      <4>3. \A t \in Handler : peer'[t] = (IF t = iter + 1 THEN Head(backlog) ELSE peer[t])
        BY <2>0, <4>1
      <4>4. \A t \in Handler : peer[t] # NoPeer => peer[t] \notin Queued
        BY <2>0 DEF OneTurnPerClient, Queued
      <4>5. OneTurnPerClient'
        BY <2>0, <4>2, <4>3, <4>4 DEF OneTurnPerClient
      <4>6. Queued' \cup Turned' \subseteq Queued \cup Turned
        BY <4>2, <4>3 DEF Queued, Turned
      <4> QED BY <3>1, <4>2, <4>5, <4>6 DEF TurnsInv
    <3> QED BY <3>2, <3>3
  <2>3. CASE ReadClient
    BY <2>1, <2>3 DEF ReadClient, Read, clientVars, netVars
  <2>4. CASE UNCHANGED <<clientVars, netVars>>
             /\ ((Clear \/ Spawn) \/ \E t \in Handler : handleConnection(t))
    BY <2>1, <2>4, QuietSteps DEF clientVars, netVars
  <2>5. ASSUME NEW c \in Client, Connect(c) PROVE TurnsInv'
    <3>1. UNCHANGED <<process, peer>> /\ cpc[c] = "connect"
      BY <2>5 DEF Connect, vars
    <3>2. CASE Listening /\ c \in Served
      <4>1. cpc' = [cpc EXCEPT ![c] = "write"] /\ backlog' = Append(backlog, c)
        BY <2>5, <3>2 DEF Connect
      <4>2. process = "up" /\ c \notin Queued \cup Turned
        BY <3>1, <3>2 DEF Listening, TurnsInv
      <4>3. /\ Len(backlog) \in Nat /\ DOMAIN backlog = 1..Len(backlog)
            /\ DOMAIN backlog' = 1..(Len(backlog) + 1)
            /\ \A q \in DOMAIN backlog : backlog'[q] = backlog[q]
            /\ backlog'[Len(backlog) + 1] = c
        BY <2>0, <3>2, <4>1, AppendProperties, LenProperties
      <4>4. \A q \in DOMAIN backlog' :
              q \in DOMAIN backlog \/ (q = Len(backlog) + 1 /\ backlog'[q] = c)
        BY <4>3
      <4>5. Queued' = Queued \cup {c} /\ Turned' = Turned
        BY <3>1, <4>3, <4>4 DEF Queued, Turned
      <4>6. \A q, r \in DOMAIN backlog' : backlog'[q] = backlog'[r] => q = r
        BY <2>0, <4>2, <4>3, <4>4 DEF Queued
      <4>7. OneTurnPerClient'
        BY <2>0, <3>1, <4>2, <4>3, <4>4 DEF OneTurnPerClient, Turned
      <4>8. \A d \in Queued' \cup Turned' : cpc'[d] \in {"write", "read", "killed"}
        <5>1. Queued \cup Turned \subseteq Client
          BY <2>0, ElementOfSeq, LenProperties DEF Queued, Turned, Served
        <5> QED BY <2>0, <4>1, <4>2, <4>5, <5>1 DEF TurnsInv
      <4> QED BY <4>6, <4>7, <4>8 DEF TurnsInv
    <3>3. CASE ~ (Listening /\ c \in Served)
      <4>1. backlog' = backlog /\ \E s : cpc' = [cpc EXCEPT ![c] = s]
        BY <2>5, <3>3 DEF Connect, AfterRefusal, NextRound
      <4> QED BY <2>0, <2>1, <3>1, <4>1
    <3> QED BY <3>2, <3>3
  <2>6. ASSUME NEW c \in Client, Write(c) \/ Kill(c) PROVE TurnsInv'
    <3>1. /\ UNCHANGED <<process, backlog, peer>>
          /\ \E s \in {"read", "killed"} : cpc' = [cpc EXCEPT ![c] = s]
      BY <2>6 DEF Write, Kill, vars, netVars
    <3> QED BY <2>0, <2>1, <3>1
  <2>7. ASSUME NEW c \in Client, ReadReply(c) PROVE TurnsInv'
    BY <2>1, <2>7 DEF ReadReply, vars, netVars
  <2>8. CASE UNCHANGED systemVars
    BY <2>1, <2>8 DEF systemVars, vars, clientVars, netVars
  <2> QED
    BY <2>2, <2>3, <2>4, <2>5, <2>6, <2>7, <2>8
       DEF SystemNext, MainThread, HandlerThread, client
<1> QED BY <1>1, <1>2, SystemIsRouter, TypeCorrect, EndsKept, PTL DEF SystemSpec

-----------------------------------------------------------------------------
(* What is on the wire: a client that has not written yet has sent nothing,
   what one has sent is genuine, and a turn whose read is over got what its
   client sent, nothing only if that client was killed first. *)
Sent ==
  /\ \A c \in Client :
       /\ cpc[c] = "write" => message[c] = Cleared
       /\ message[c] # Cleared => Genuine(message[c])
  /\ \A t \in Handler :
       t <= LastRead /\ peer[t] # NoPeer =>
         /\ received[t] = message[peer[t]]
         /\ message[peer[t]] = Cleared => cpc[peer[t]] = "killed"

(* client2.c:75-86 with router.c:64: a read gets what one write has sent. *)
THEOREM ReadsWhatWasSent == SystemSpec => []Sent
<1>1. SystemInit => Sent
  BY DEF SystemInit, Sent
<1>2. TypeOK /\ EInv /\ TurnsInv /\ Sent /\ [SystemNext]_systemVars => Sent'
  <2> SUFFICES ASSUME TypeOK, EInv, TurnsInv, Sent, [SystemNext]_systemVars PROVE Sent'
    OBVIOUS
  <2>0. /\ cpc \in [Client -> {"connect", "write", "read", "end", "killed"}]
        /\ message \in [Client -> Message]
        /\ peer \in [Handler -> Served \cup {NoPeer}]
        /\ \A t \in Handler : peer[t] # NoPeer => peer[t] \in Client
    BY DEF EInv, EndsTypeOK, Served
  <2>1. CASE AcceptClient
    <3>1. /\ UNCHANGED <<clientVars, received>> /\ LastRead' = LastRead
          /\ LastRead = iter /\ iter \in Nat
          /\ \A t \in Handler \ {iter + 1} : peer'[t] = peer[t]
      BY <2>0, <2>1 DEF AcceptClient, Accept, LastRead, TypeOK
    <3>2. \A t \in Handler : t <= LastRead => t # iter + 1
      BY <3>1
    <3> QED BY <3>1, <3>2 DEF Sent, clientVars
  <2>2. CASE ReadClient
    <3>1. /\ UNCHANGED <<clientVars, netVars>>
          /\ mpc = "read" /\ mpc' = "spawn" /\ iter' = iter /\ iter \in Handler
          /\ Conn(iter) \in open =>
               /\ message[peer[iter]] # Cleared \/ cpc[peer[iter]] = "killed"
               /\ received'[iter] = message[peer[iter]]
          /\ \A t \in Handler \ {iter} : received'[t] = received[t]
      BY <2>2 DEF ReadClient, Read, TypeOK
    <3>2. \A t \in Handler : t <= LastRead' => t <= LastRead \/ t = iter
      BY <3>1 DEF LastRead, Handler
    <3>3. peer[iter] # NoPeer => Conn(iter) \in open
      BY <3>1 DEF EInv, TurnsConnected
    <3> QED BY <3>1, <3>2, <3>3 DEF Sent, clientVars, netVars
  <2>3. CASE UNCHANGED <<clientVars, netVars>>
             /\ ((Clear \/ Spawn) \/ \E t \in Handler : handleConnection(t))
    BY <2>3, QuietSteps DEF Sent, clientVars, netVars
  <2>4. ASSUME NEW c \in Client, Connect(c) PROVE Sent'
    <3>1. /\ UNCHANGED <<peer, received>> /\ LastRead' = LastRead /\ cpc[c] = "connect"
      BY <2>4 DEF Connect, vars, mainVars, LastRead
    <3>2. CASE Listening /\ c \in Served
      <4>1. /\ cpc' = [cpc EXCEPT ![c] = "write"]
            /\ message' = [message EXCEPT ![c] = Cleared]
        BY <2>4, <3>2 DEF Connect
      <4>2. \A t \in Handler : peer[t] # NoPeer => peer[t] # c
        BY <3>1, <3>2 DEF Listening, TurnsInv, Turned
      <4> QED BY <2>0, <3>1, <4>1, <4>2 DEF Sent
    <3>3. CASE ~ (Listening /\ c \in Served)
      <4>1. message' = message /\ \E s \in {"end", "connect"} : cpc' = [cpc EXCEPT ![c] = s]
        BY <2>4, <3>3 DEF Connect, AfterRefusal, NextRound
      <4> QED BY <2>0, <3>1, <4>1 DEF Sent
    <3> QED BY <3>2, <3>3
  <2>5. ASSUME NEW c \in Client, Write(c) PROVE Sent'
    <3>1. /\ UNCHANGED <<peer, received>> /\ LastRead' = LastRead
          /\ cpc[c] = "write" /\ cpc' = [cpc EXCEPT ![c] = "read"]
      BY <2>5 DEF Write, vars, mainVars, netVars, LastRead
    <3>2. PICK m \in Candidates(c) : message' = [message EXCEPT ![c] = m]
      BY <2>5 DEF Write
    <3>3. Genuine(m) /\ m # Cleared
      BY <3>1, MessagesAssumption, CandidatesAreGenuine DEF EInv, EndsTypeOK, RoundsLeft
    <3>4. \A t \in Handler : t <= LastRead /\ peer[t] # NoPeer => peer[t] # c
      BY <3>1 DEF Sent
    <3> QED BY <2>0, <3>1, <3>2, <3>3, <3>4 DEF Sent
  <2>6. ASSUME NEW c \in Client, ReadReply(c) PROVE Sent'
    <3>1. /\ UNCHANGED <<peer, received, message>> /\ LastRead' = LastRead
          /\ cpc[c] = "read" /\ \E s \in {"end", "connect"} : cpc' = [cpc EXCEPT ![c] = s]
      BY <2>6 DEF ReadReply, NextRound, vars, mainVars, netVars, LastRead
    <3> QED BY <2>0, <3>1 DEF Sent
  <2>7. ASSUME NEW c \in Client, Kill(c) PROVE Sent'
    <3>1. /\ UNCHANGED <<peer, received, message>> /\ LastRead' = LastRead
          /\ cpc' = [cpc EXCEPT ![c] = "killed"]
      BY <2>7 DEF Kill, vars, mainVars, netVars, LastRead
    <3> QED BY <2>0, <3>1 DEF Sent
  <2>8. CASE UNCHANGED systemVars
    BY <2>8 DEF systemVars, vars, mainVars, clientVars, netVars, Sent, LastRead
  <2> QED
    BY <2>1, <2>2, <2>3, <2>4, <2>5, <2>6, <2>7, <2>8
       DEF SystemNext, MainThread, HandlerThread, client
<1> QED
  BY <1>1, <1>2, SystemIsRouter, TypeCorrect, EndsKept, TurnsAreOwn, PTL DEF SystemSpec

(* strcpy leaves nothing of a genuine message behind (router.c:82). *)
LEMMA GenuineIsCopiedWhole ==
  ASSUME NEW m \in Message, NEW n, Genuine(n), IsCopyOf(m, n)
  PROVE  m = n
<1>1. \A p, q \in Position : q < p => q # 5
  BY DEF Position
<1>2. \A p \in Position : m[p] = n[p]
  BY <1>1 DEF Genuine, IsCopyOf
<1> QED BY <1>2 DEF Genuine, Message

(* What a client sent, a handler that is left undisturbed judges, and takes
   for genuine, for any junk on its stack. *)
THEOREM GenuineAccepted == SystemSpec => []GenuineIsAccepted
<1>1. TypeOK /\ StartedInTurn /\ ExactWhenUndisturbed /\ EInv /\ Sent => GenuineIsAccepted
  <2> SUFFICES ASSUME TypeOK, StartedInTurn, ExactWhenUndisturbed, EInv, Sent,
                      NEW t \in Handler, Judged(t), Undisturbed(t), peer[t] # NoPeer
               PROVE  IF message[peer[t]] = Cleared
                      THEN cpc[peer[t]] = "killed"
                      ELSE frame[t] = message[peer[t]] /\ outcome[t] # "rejected"
    BY DEF GenuineIsAccepted
  <2>1. t <= LastRead /\ frame[t] \in Message
    BY DEF Judged, StartedInTurn, HandlerSteps, Outcomes, TypeOK
  <2>2. received[t] = message[peer[t]] /\ (message[peer[t]] = Cleared => cpc[peer[t]] = "killed")
    BY <2>1 DEF Sent
  <2>3. CASE message[peer[t]] # Cleared
    <3>1. Genuine(message[peer[t]])
      BY <2>3 DEF Sent, EInv, EndsTypeOK, Served
    <3>2. frame[t] = message[peer[t]]
      BY <2>1, <2>2, <3>1, GenuineIsCopiedWhole DEF ExactWhenUndisturbed
    <3>3. outcome[t] # "rejected"
      BY <3>1, <3>2 DEF Genuine, ExactWhenUndisturbed
    <3> QED BY <2>3, <3>2, <3>3
  <2> QED BY <2>2, <2>3
<1> QED
  BY <1>1, SystemIsRouter, TypeCorrect, OneThreadPerTurn, UndisturbedIsExact,
     EndsKept, ReadsWhatWasSent, PTL
=============================================================================
