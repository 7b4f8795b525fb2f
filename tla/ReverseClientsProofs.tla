------------------------ MODULE ReverseClientsProofs ------------------------
(***************************************************************************)
(* What the steps of the clients keep, and that they are steps of          *)
(* ReverseService, whichever server they talk to.                          *)
(***************************************************************************)
EXTENDS ReverseClients, TLAPS

UnreadHasNoLine == \A c \in Client : ~ Left(c) => line[c] = NoLine

(* What may be under way to c: its own ten characters reversed; or, if it runs
   client4.c, bytes it has sent and bytes that nobody has assigned. *)
IsOwn(bytes, c) ==
  IF c[1] \in Short THEN \A q \in Index : bytes[q] \in Service!Own(c)
  ELSE [q \in 0..9 |-> bytes[q]] = Service!Reversed(Question(c))

ReplyIsOwn == \A c \in Client : Left(c) \/ reply[c] = NoLine \/ IsOwn(reply[c], c)

(* A client's own step, while its server is at rest: BasicClient.java:22-52,
   client4.c:42-110. *)
ClientStep(c, closed) ==
  Connect(c) \/ Println(c) \/ ReadLine(c, closed) \/ ReadSix(c, closed) \/ Kill(c)

(* What a client sends: its own bytes, six or eleven. *)
LEMMA SentIsBytes ==
  ASSUME NEW c \in Client
  PROVE  /\ DOMAIN Sent(c) = IF c[1] \in Short THEN 0..5 ELSE Index
         /\ DOMAIN Sent(c) \subseteq Index
         /\ \A q \in DOMAIN Sent(c) : Sent(c)[q] = <<c, q>> /\ Sent(c)[q] \in Symbol
<1>1. \A q \in Index : <<c, q>> \in Client \X Index
  OBVIOUS
<1> QED BY <1>1 DEF Sent, Symbol, Index

(* And what of it a process of client4.c may find in its answer. *)
LEMMA OwnOfShort ==
  ASSUME NEW c \in Client, c[1] \in Short
  PROVE  Junk \in Service!Own(c) /\ \A q \in DOMAIN Sent(c) : Sent(c)[q] \in Service!Own(c)
<1>1. DOMAIN Sent(c) = 0..5 /\ DOMAIN Question(c) = DOMAIN Sent(c) \ {10}
  BY SentIsBytes DEF Question
<1>2. \A q \in DOMAIN Sent(c) : q \in DOMAIN Question(c) /\ Question(c)[q] = Sent(c)[q]
  BY <1>1 DEF Question
<1> QED BY <1>2 DEF Service!Own

LEMMA ClientStepKeepsTypes ==
  ASSUME ClientTypeOK, NEW c \in Client, NEW closed, ClientStep(c, closed)
  PROVE  ClientTypeOK'
<1> USE DEF ClientTypeOK
<1>1. CASE Connect(c)
  BY <1>1 DEF Connect
<1>2. CASE Println(c)
  BY <1>2 DEF Println
<1>3. CASE ReadLine(c, closed)
  BY <1>3 DEF ReadLine
<1>4. CASE ReadSix(c, closed)
  <2>1. reply[c] # NoLine => [q \in 0..5 |-> reply[c][q]] \in [0..5 -> Symbol]
    BY DEF Bytes, Index
  <2> QED BY <1>4, <2>1 DEF ReadSix
<1>5. CASE Kill(c)
  BY <1>5 DEF Kill
<1> QED BY <1>1, <1>2, <1>3, <1>4, <1>5 DEF ClientStep

(* Who has left stays away, and who has not has read nothing. *)
LEMMA ClientStepKeepsLeft ==
  ASSUME ClientTypeOK, NEW c \in Client, NEW closed, ClientStep(c, closed)
  PROVE  /\ reply' = reply
         /\ \A d \in Client : Left(d) => Left(d)'
         /\ UnreadHasNoLine => UnreadHasNoLine'
         /\ ReplyIsOwn => ReplyIsOwn'
<1>1. /\ reply' = reply
      /\ \A d \in Client : Left(d) => Left(d)'
      /\ \A d \in Client : ~ Left(d)' => line'[d] = line[d]
  <2> USE DEF Left, ClientTypeOK
  <2>1. CASE Connect(c)
    BY <2>1 DEF Connect, Turn
  <2>2. CASE Println(c)
    BY <2>2 DEF Println
  <2>3. CASE ReadLine(c, closed)
    BY <2>3 DEF ReadLine
  <2>4. CASE ReadSix(c, closed)
    BY <2>4 DEF ReadSix
  <2>5. CASE Kill(c)
    BY <2>5 DEF Kill
  <2> QED BY <2>1, <2>2, <2>3, <2>4, <2>5 DEF ClientStep
<1> QED BY <1>1 DEF UnreadHasNoLine, ReplyIsOwn, IsOwn, Question, Service!Own

(* The abstract phase of all but one client stays as it is. *)
LEMMA OnePhaseChanges ==
  ASSUME NEW c \in Client, NEW p,
         \A d \in Client \ {c} : cpc'[d] = cpc[d] /\ line'[d] = line[d],
         Phase(c)' = p
  PROVE  [d \in Client |-> Phase(d)]' = [[d \in Client |-> Phase(d)] EXCEPT ![c] = p]
<1>1. \A d \in Client \ {c} : Phase(d)' = Phase(d)
  BY DEF Phase, Left
<1> QED BY <1>1

(* To leave before anything was read, refused, killed or cut, is Lose. *)
LEMMA LeavingIsLosing ==
  ASSUME ClientTypeOK, UnreadHasNoLine, NEW c \in Client, ~ Left(c),
         NEW p \in {"done", "gone", "failed"}, cpc' = [cpc EXCEPT ![c] = p], line' = line
  PROVE  Service!Lose(c)
<1>1. line[c] = NoLine /\ cpc[c] \in {"idle", "typing", "reading"}
  BY DEF UnreadHasNoLine, Left, ClientTypeOK
<1>2. Phase(c) \in {"new", "asked"} /\ Phase(c)' = "lost"
  BY <1>1 DEF Phase, Left, ClientTypeOK
<1>3. [d \in Client |-> Phase(d)]' = [[d \in Client |-> Phase(d)] EXCEPT ![c] = "lost"]
  BY <1>2, OnePhaseChanges DEF ClientTypeOK
<1>4. [d \in Client |-> Answer(d)]' = [d \in Client |-> Answer(d)]
  BY DEF Answer
<1> QED BY <1>2, <1>3, <1>4 DEF Service!Lose

(* println asks; readLine is the answer or the loss of the connection; a kill
   is a loss; to connect is nothing yet. *)
LEMMA ClientStepIsService ==
  ASSUME ClientTypeOK, UnreadHasNoLine, ReplyIsOwn,
         NEW c \in Client, NEW closed, ClientStep(c, closed)
  PROVE  Service!Next \/ UNCHANGED Service!vars
<1> DEFINE phase  == [d \in Client |-> Phase(d)]
           answer == [d \in Client |-> Answer(d)]
<1>1. CASE Connect(c)
  <2>1. /\ cpc[c] = "idle" /\ cpc' = [cpc EXCEPT ![c] = "typing"]
        /\ line' = line /\ line[c] = NoLine
    BY <1>1 DEF Connect, Turn, UnreadHasNoLine, Left
  <2>2. phase' = phase /\ answer' = answer
    BY <2>1 DEF Phase, Left, Answer, ClientTypeOK
  <2> QED BY <2>2 DEF Service!vars
<1>2. CASE Println(c)
  <2>1. /\ cpc[c] = "typing" /\ cpc' = [cpc EXCEPT ![c] = "reading"]
        /\ line' = line /\ line[c] = NoLine
    BY <1>2 DEF Println, UnreadHasNoLine, Left
  <2>2. phase[c] = "new" /\ Phase(c)' = "asked" /\ answer' = answer
    BY <2>1 DEF Phase, Left, Answer, ClientTypeOK
  <2>3. phase' = [phase EXCEPT ![c] = "asked"]
    BY <2>1, <2>2, OnePhaseChanges DEF ClientTypeOK
  <2> QED BY <2>2, <2>3 DEF Service!Next, Service!Ask
<1>3. CASE ReadLine(c, closed) \/ ReadSix(c, closed)
  <2>1. /\ cpc[c] = "reading" /\ cpc' = [cpc EXCEPT ![c] = "done"]
        /\ line[c] = NoLine /\ ~ Left(c)
        /\ reply[c] = NoLine \/ IsOwn(reply[c], c)
        /\ reply[c] \in {NoLine} \cup Bytes
    BY <1>3 DEF ReadLine, ReadSix, UnreadHasNoLine, ReplyIsOwn, Left, ClientTypeOK
  <2>2. CASE reply[c] = NoLine
    <3>1. line' = line
      BY <1>3, <2>1, <2>2 DEF ReadLine, ReadSix, ClientTypeOK
    <3>2. Service!Lose(c)
      BY <2>1, <3>1, LeavingIsLosing
    <3> QED BY <3>2 DEF Service!Next
  <2>3. CASE reply[c] # NoLine
    <3>1. PICK l : l # NoLine /\ line' = [line EXCEPT ![c] = l]
                   /\ IF c[1] \in Short THEN l = [q \in 0..5 |-> reply[c][q]] ELSE l = reply[c]
      <4>1. [q \in 0..5 |-> reply[c][q]] # NoLine
        BY DEF NoLine
      <4> QED BY <1>3, <2>3, <4>1 DEF ReadLine, ReadSix
    <3>2. line'[c] = l
      BY <3>1 DEF ClientTypeOK
    <3>3. phase[c] = "asked" /\ Phase(c)' = "answered"
      BY <2>1, <3>1, <3>2 DEF Phase, Left, ClientTypeOK
    <3>4. phase' = [phase EXCEPT ![c] = "answered"]
      BY <2>1, <3>1, <3>3, OnePhaseChanges DEF ClientTypeOK
    <3>5. answer' = [answer EXCEPT ![c] = answer'[c]]
      <4>1. \A d \in Client \ {c} : Answer(d)' = Answer(d)
        BY <3>1 DEF Answer, ClientTypeOK
      <4> QED BY <4>1
    <3>6. answer'[c] = [q \in DOMAIN l \ {10} |-> l[q]]
      BY <3>1, <3>2 DEF Answer
    <3>7. IF c[1] \notin Short THEN answer'[c] = Service!Reversed(Question(c))
          ELSE answer'[c] \in [0..5 -> Service!Own(c)]
      <4>1. CASE c[1] \notin Short
        <5>1. l = reply[c] /\ DOMAIN l \ {10} = 0..9
          BY <2>1, <2>3, <3>1, <4>1 DEF Bytes, Index
        <5> QED BY <2>1, <2>3, <3>6, <4>1, <5>1 DEF IsOwn
      <4>2. CASE c[1] \in Short
        <5>1. l = [q \in 0..5 |-> reply[c][q]] /\ DOMAIN l \ {10} = 0..5
          BY <3>1, <4>2
        <5>2. \A q \in 0..5 : reply[c][q] \in Service!Own(c)
          BY <2>1, <2>3, <4>2 DEF IsOwn, Index
        <5> QED BY <3>6, <4>2, <5>1, <5>2
      <4> QED BY <4>1, <4>2
    <3> QED BY <3>3, <3>4, <3>5, <3>7 DEF Service!Next, Service!Answer
  <2> QED BY <2>2, <2>3
<1>4. CASE Kill(c)
  <2>1. /\ cpc[c] \in {"typing", "reading"} /\ cpc' = [cpc EXCEPT ![c] = "gone"]
        /\ line' = line /\ ~ Left(c)
    BY <1>4 DEF Kill, Left
  <2>2. Service!Lose(c)
    BY <2>1, LeavingIsLosing
  <2> QED BY <2>2 DEF Service!Next
<1> QED BY <1>1, <1>2, <1>3, <1>4 DEF ClientStep

(* A step that is no client's is a stutter of the service. *)
LEMMA RestIsStutter ==
  ASSUME UNCHANGED <<cpc, line>> PROVE UNCHANGED Service!vars
<1>1. /\ [d \in Client |-> Phase(d)]' = [d \in Client |-> Phase(d)]
      /\ [d \in Client |-> Answer(d)]' = [d \in Client |-> Answer(d)]
  BY DEF Phase, Left, Answer
<1> QED BY <1>1 DEF Service!vars

LEMMA ClientsStartAsService == ClientInit => Service!Init
BY DEF ClientInit, Service!Init, Phase, Left, Answer
=============================================================================
