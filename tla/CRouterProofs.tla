--------------------------- MODULE CRouterProofs ----------------------------
(***************************************************************************)
(* The safety of the router's accept loop and handlers, for any number of  *)
(* turns, any payloads, any limits on descriptors and threads, any routing *)
(* table and either behaviour of write on an unconnected socket.           *)
(***************************************************************************)
EXTENDS RouterThreads, CChecksumProofs, FiniteSetTheorems

(* The bytes of a payload over six bytes are six bytes. *)
LEMMA OverIsMessage ==
  ASSUME NEW p \in Payloads, NEW m \in Message
  PROVE  Over(p, m) \in Message
<1>1. p.data \in Message /\ p.n \in 0..6
  BY PayloadsAssumption
<1> QED BY <1>1 DEF Over, Message, Position, Byte

(* A cleared buffer is six bytes. *)
LEMMA ClearedIsMessage == Cleared \in Message
  BY DEF Cleared, Message, Position, Byte

(* What fgets leaves in destinationAddress is a line of the file or garbage. *)
LEMMA LinesAreAddresses ==
  ASSUME NEW j \in Int
  PROVE  LinesRead(ServerAddresses, j) \subseteq Addresses
<1>1. CASE j <= 0 \/ ServerAddresses = <<>>
  BY <1>1 DEF LinesRead, Addresses
<1>2. CASE ~ (j <= 0 \/ ServerAddresses = <<>>)
  <2>1. /\ Len(ServerAddresses) \in Nat /\ Len(ServerAddresses) >= 1
        /\ DOMAIN ServerAddresses = 1..Len(ServerAddresses)
    BY <1>2, FilesAssumption
  <2> DEFINE l == IF j < Len(ServerAddresses) THEN j ELSE Len(ServerAddresses)
  <2>2. l \in DOMAIN ServerAddresses
    BY <1>2, <2>1
  <2>3. LinesRead(ServerAddresses, j) = {ServerAddresses[l]}
    BY <1>2 DEF LinesRead
  <2> QED BY <2>2, <2>3 DEF Addresses
<1> QED BY <1>1, <1>2

(* The last turn of the accept loop whose read is over. *)
LastRead == IF mpc \in {"clear", "read"} THEN iter - 1 ELSE iter

(* Handlers are started by turns that are over; the next one starts its
   strcpy at the first byte. *)
StartedInTurn ==
  \A t \in Handler :
    /\ tpc[t] # "off" => t <= LastRead /\ ~ (mpc = "spawn" /\ t = iter)
    /\ tpc[t] = "off" => k[t] = 0 /\ outcome[t] \in {"none", "noThread"}

(* What a step of one handler leaves alone: main, and everything that the
   other handlers know, but for the sums a call of theirs has overlapped. *)
LEMMA HandlerStepIsLocal ==
  ASSUME TypeOK, NEW t \in Handler, handleConnection(t)
  PROVE  /\ UNCHANGED mainVars
         /\ calm' = calm
         /\ tpc[t] \in HandlerSteps /\ tpc'[t] \in HandlerSteps \cup {"exited"}
         /\ tpc'[t] # "copy" \/ tpc[t] = "copy"
         /\ \A u \in Handler \ {t} :
              /\ tpc'[u] = tpc[u] /\ k'[u] = k[u] /\ frame'[u] = frame[u]
              /\ outcome'[u] = outcome[u]
              /\ tpc[u] # "checking" => seen'[u] = seen[u]
<1>0. /\ tpc \in [Handler -> HandlerSteps \cup {"off", "exited"}]
      /\ k \in [Handler -> 0..6] /\ frame \in [Handler -> Message]
      /\ outcome \in [Handler -> Outcomes] /\ seen \in [Handler -> SUBSET Byte]
  BY DEF TypeOK
<1>1. CASE CopyByte(t)
  BY <1>0, <1>1 DEF CopyByte, At, Goto, HandlerSteps
<1>2. CASE EnterCheck(t)
  BY <1>0, <1>2 DEF EnterCheck, At, Goto, HandlerSteps, Joined, Checking
<1>3. CASE LeaveCheck(t)
  <2>1. \/ tpc' = [tpc EXCEPT ![t] = "openTable"] /\ outcome' = outcome
        \/ /\ tpc' = [tpc EXCEPT ![t] = "exited"]
           /\ outcome' = [outcome EXCEPT ![t] = "rejected"]
    BY <1>3 DEF LeaveCheck, Goto, Exit
  <2> QED BY <1>0, <1>3, <2>1 DEF LeaveCheck, At, HandlerSteps
<1>4. CASE OpenTable(t) \/ OpenAddresses(t)
  BY <1>0, <1>4 DEF OpenTable, OpenAddresses, Fopen, At, Goto, HandlerSteps
<1>5. CASE ReadTable(t) \/ ReadAddresses(t)
  <2>1. \/ tpc' = [tpc EXCEPT ![t] = "socket"]
        \/ tpc' = [tpc EXCEPT ![t] = "openAddresses"]
    BY <1>5 DEF ReadTable, ReadAddresses, Goto
  <2> QED BY <1>0, <1>5, <2>1 DEF ReadTable, ReadAddresses, At, HandlerSteps
<1>6. CASE Socket(t)
  BY <1>0, <1>6 DEF Socket, At, Goto, HandlerSteps
<1>7. CASE Send(t)
  <2>1. \/ tpc' = tpc /\ outcome' = outcome
        \/ /\ \E s \in {"close", "exited"} : tpc' = [tpc EXCEPT ![t] = s]
           /\ \E w \in Outcomes : outcome' = [outcome EXCEPT ![t] = w]
    BY <1>7 DEF Send, WriteResults, Goto, Exit, Outcomes
  <2> QED BY <1>0, <1>7, <2>1 DEF Send, At, HandlerSteps
<1>8. CASE Close(t)
  BY <1>0, <1>8 DEF Close, At, Goto, HandlerSteps
<1>9. CASE Overrun(t)
  BY <1>0, <1>9 DEF Overrun, handlerVars, Active
<1> QED
  BY <1>1, <1>2, <1>3, <1>4, <1>5, <1>6, <1>7, <1>8, <1>9 DEF handleConnection

(* A step of a handler other than a byte of its strcpy leaves its copy alone. *)
LEMMA CopyIsPrivate ==
  ASSUME TypeOK, NEW t \in Handler, handleConnection(t), ~ CopyByte(t)
  PROVE  frame' = frame /\ k' = k /\ tpc[t] # "copy" /\ tpc'[t] # "copy"
<1>1. CASE EnterCheck(t) \/ LeaveCheck(t) \/ ReadTable(t) \/ ReadAddresses(t)
           \/ Socket(t) \/ Send(t) \/ Close(t)
  <2>1. frame' = frame /\ k' = k /\ tpc[t] # "copy"
    BY <1>1 DEF EnterCheck, LeaveCheck, ReadTable, ReadAddresses, Socket, Send,
                Close, At
  <2> QED BY <2>1, HandlerStepIsLocal
<1>2. CASE OpenTable(t) \/ OpenAddresses(t)
  <2>1. frame' = frame /\ k' = k /\ tpc[t] # "copy"
    BY <1>2 DEF OpenTable, OpenAddresses, Fopen, At
  <2> QED BY <2>1, HandlerStepIsLocal
<1>3. CASE Overrun(t)
  <2>1. /\ frame' = frame /\ k' = k /\ tpc' = tpc /\ k[t] = 6
        /\ tpc[t] = "copy" => k[t] \in Position
    BY <1>3 DEF Overrun, handlerVars, TypeOK
  <2> QED BY <2>1 DEF Position
<1> QED BY <1>1, <1>2, <1>3 DEF handleConnection

(* Every step of main and of a handler keeps the types. *)
LEMMA TypesKept == TypeOK /\ StartedInTurn /\ [Next]_vars => TypeOK'
<1> SUFFICES ASSUME TypeOK, StartedInTurn, [Next]_vars PROVE TypeOK'
  OBVIOUS
<1>0. ASSUME NEW t \in Handler,
             \/ EnterCheck(t) \/ LeaveCheck(t) \/ OpenTable(t) \/ ReadTable(t)
             \/ OpenAddresses(t) \/ ReadAddresses(t) \/ Socket(t) \/ Send(t)
             \/ Close(t) \/ Overrun(t)
      PROVE  \A u \in Handler : tpc'[u] = "copy" => k'[u] \in Position
  <2>1. handleConnection(t)
    BY <1>0 DEF handleConnection
  <2>2. tpc[t] # "copy"
    BY <1>0 DEF EnterCheck, LeaveCheck, OpenTable, OpenAddresses, Fopen, ReadTable,
                ReadAddresses, Socket, Send, Close, Overrun, At, TypeOK, Position
  <2> QED BY <2>1, <2>2, HandlerStepIsLocal DEF TypeOK
<1>1. CASE Accept
  <2>1. iter + 1 \in Handler
    BY <1>1, MaxIterAssumption DEF Accept, TypeOK, Handler
  <2> QED BY <1>1, <2>1, MaxIterAssumption
       DEF Accept, TypeOK, handlerVars, Conn, Handler
<1>2. CASE Clear
  BY <1>2, ClearedIsMessage DEF Clear, TypeOK
<1>3. CASE Read
  <2>1. CASE UNCHANGED <<readBuffer, received>>
    BY <1>3, <2>1 DEF Read, TypeOK, handlerVars
  <2>2. ASSUME NEW p \in Payloads, readBuffer' = Over(p, readBuffer),
               received' = [received EXCEPT ![iter] = Over(p, Cleared)]
        PROVE  TypeOK'
    <3>1. readBuffer' \in Message
      BY <2>2, OverIsMessage DEF TypeOK
    <3>2. received' \in [Handler -> Message]
      <4>1. Over(p, Cleared) \in Message
        BY OverIsMessage, ClearedIsMessage
      <4>2. received \in [Handler -> Message]
        BY DEF TypeOK
      <4> QED BY <2>2, <4>1, <4>2
    <3> QED BY <1>3, <3>1, <3>2 DEF Read, TypeOK, handlerVars
  <2> QED BY <1>3, <2>1, <2>2 DEF Read
<1>4. CASE Spawn
  <2>1. iter \in Handler /\ tpc[iter] = "off" /\ k[iter] = 0
    BY <1>4 DEF Spawn, StartedInTurn, TypeOK
  <2>2. \A t \in Handler : tpc'[t] = "copy" => k'[t] \in Position
    BY <1>4, <2>1 DEF Spawn, TypeOK, Position
  <2> QED BY <1>4, <2>2, StackJunkAssumption DEF Spawn, TypeOK, Handler, HandlerSteps, Outcomes
<1>5. ASSUME NEW t \in Handler, CopyByte(t) PROVE TypeOK'
  <2>1. k[t] \in Position /\ readBuffer[k[t]] \in Byte
    BY <1>5 DEF CopyByte, At, TypeOK, Message
  <2>2. frame' \in [Handler -> Message]
    BY <1>5, <2>1 DEF CopyByte, TypeOK, Message
  <2>3. /\ k' \in [Handler -> 0..6]
        /\ \A u \in Handler : tpc'[u] = "copy" => k'[u] \in Position
    <3>1. \/ k' = k /\ tpc' = [tpc EXCEPT ![t] = "check"]
          \/ k' = [k EXCEPT ![t] = k[t] + 1] /\ k[t] = 5 /\ tpc' = [tpc EXCEPT ![t] = "check"]
          \/ k' = [k EXCEPT ![t] = k[t] + 1] /\ k[t] # 5 /\ tpc' = tpc
      BY <1>5 DEF CopyByte, Goto
    <3> QED BY <2>1, <3>1 DEF TypeOK, Position
  <2> QED BY <1>5, <2>2, <2>3
       DEF CopyByte, At, Goto, TypeOK, mainVars, HandlerSteps
<1>6. ASSUME NEW t \in Handler, EnterCheck(t) PROVE TypeOK'
  <2>1. \A u \in Handler : sums[u] \in Byte
    BY SumIsByte DEF TypeOK, sums
  <2>2. seen' \in [Handler -> SUBSET Byte]
    BY <1>6, <2>1 DEF EnterCheck, Joined, Checking, TypeOK
  <2> QED BY <1>0, <1>6, <2>2 DEF EnterCheck, Goto, TypeOK, mainVars, HandlerSteps
<1>7. ASSUME NEW t \in Handler, LeaveCheck(t) PROVE TypeOK'
  <2>1. \/ Goto(t, "openTable") /\ UNCHANGED outcome
        \/ Exit(t, "rejected")
    BY <1>7 DEF LeaveCheck
  <2>2. /\ tpc' \in [Handler -> HandlerSteps \cup {"off", "exited"}]
        /\ outcome' \in [Handler -> Outcomes]
    <3>1. /\ tpc \in [Handler -> HandlerSteps \cup {"off", "exited"}]
          /\ outcome \in [Handler -> Outcomes]
      BY DEF TypeOK
    <3> QED BY <2>1, <3>1 DEF Goto, Exit, HandlerSteps, Outcomes
  <2>3. \A u \in Handler : tpc'[u] = "copy" => k'[u] \in Position
    BY <1>0, <1>7
  <2> QED BY <1>7, <2>2, <2>3 DEF LeaveCheck, TypeOK, mainVars
<1>8. ASSUME NEW t \in Handler, OpenTable(t) \/ OpenAddresses(t) PROVE TypeOK'
  <2>1. /\ UNCHANGED <<mainVars, k, frame, seen, hop, outcome, calm>>
        /\ process' \in {process, "segv"}
        /\ open' = open \/ open' = open \cup {File(t)}
        /\ tpc' = tpc \/ tpc' = [tpc EXCEPT ![t] = "readTable"]
                     \/ tpc' = [tpc EXCEPT ![t] = "readAddresses"]
    BY <1>8 DEF OpenTable, OpenAddresses, Fopen, Goto
  <2>2. tpc' \in [Handler -> HandlerSteps \cup {"off", "exited"}]
    BY <2>1 DEF TypeOK, HandlerSteps
  <2>3. process' \in {"up", "sigpipe", "segv", "overrun"}
    BY <2>1 DEF TypeOK
  <2>4. open' \subseteq {"conn", "file", "sock"} \X Handler
    BY <2>1 DEF TypeOK, File
  <2> QED BY <1>0, <1>8, <2>1, <2>2, <2>3, <2>4 DEF TypeOK, mainVars
<1>9. ASSUME NEW t \in Handler, ReadTable(t) PROVE TypeOK'
  <2>1. \/ /\ hop' = [hop EXCEPT ![t] = [address |-> "localhost", port |-> 4446]]
           /\ Goto(t, "socket")
        \/ Goto(t, "openAddresses") /\ UNCHANGED hop
    BY <1>9 DEF ReadTable
  <2>2. tpc' \in [Handler -> HandlerSteps \cup {"off", "exited"}]
    BY <2>1 DEF Goto, TypeOK, HandlerSteps
  <2>3. hop' \in [Handler -> [address : Addresses, port : {0, 4446, 3336}]]
    <3>1. [address |-> "localhost", port |-> 4446]
            \in [address : Addresses, port : {0, 4446, 3336}]
      BY DEF Addresses
    <3>2. hop \in [Handler -> [address : Addresses, port : {0, 4446, 3336}]]
      BY DEF TypeOK
    <3> QED BY <2>1, <3>1, <3>2
  <2> QED BY <1>0, <1>9, <2>2, <2>3 DEF ReadTable, TypeOK, mainVars
<1>10. ASSUME NEW t \in Handler, ReadAddresses(t) PROVE TypeOK'
  <2>1. PICK j \in 0..Len(ServerAddresses) :
          \E a \in LinesRead(ServerAddresses, j) :
            hop' = [hop EXCEPT ![t] = [address |-> a, port |-> 3336]]
    BY <1>10 DEF ReadAddresses
  <2>2. LinesRead(ServerAddresses, j) \subseteq Addresses
    BY FilesAssumption, LinesAreAddresses
  <2>3. hop' \in [Handler -> [address : Addresses, port : {0, 4446, 3336}]]
    BY <2>1, <2>2 DEF TypeOK
  <2> QED BY <1>0, <1>10, <2>3 DEF ReadAddresses, Goto, TypeOK, mainVars, HandlerSteps
<1>11. ASSUME NEW t \in Handler, Socket(t) PROVE TypeOK'
  BY <1>0, <1>11 DEF Socket, Goto, Sock, TypeOK, mainVars, HandlerSteps
<1>12. ASSUME NEW t \in Handler, Send(t) PROVE TypeOK'
  <2>1. \/ UNCHANGED process /\ Exit(t, "unsent")
        \/ process' = "sigpipe" /\ UNCHANGED <<tpc, outcome>>
        \/ /\ Goto(t, "close") /\ UNCHANGED process
           /\ \E w \in {"forwarded", "unsent"} : outcome' = [outcome EXCEPT ![t] = w]
    BY <1>12 DEF Send, WriteResults
  <2>2. process' \in {"up", "sigpipe", "segv", "overrun"}
    BY <2>1 DEF TypeOK
  <2>3. tpc' \in [Handler -> HandlerSteps \cup {"off", "exited"}]
    BY <2>1 DEF Goto, Exit, TypeOK, HandlerSteps
  <2>4. outcome' \in [Handler -> Outcomes]
    BY <2>1 DEF Exit, TypeOK, Outcomes
  <2> QED BY <1>0, <1>12, <2>2, <2>3, <2>4 DEF Send, TypeOK, mainVars
<1>13. ASSUME NEW t \in Handler, Close(t) PROVE TypeOK'
  BY <1>0, <1>13 DEF Close, Goto, TypeOK, mainVars, HandlerSteps
<1>14. ASSUME NEW t \in Handler, Overrun(t) PROVE TypeOK'
  BY <1>0, <1>14 DEF Overrun, TypeOK, mainVars, handlerVars
<1>15. CASE UNCHANGED vars
  BY <1>15 DEF vars, mainVars, handlerVars, TypeOK
<1> QED
  BY <1>1, <1>2, <1>3, <1>4, <1>5, <1>6, <1>7, <1>8, <1>9, <1>10, <1>11, <1>12,
     <1>13, <1>14, <1>15 DEF Next, Main, handleConnection

(* main starts with cleared buffers and no thread. *)
LEMMA InitIsTyped == Init => TypeOK
<1> SUFFICES ASSUME Init PROVE TypeOK
  OBVIOUS
<1> USE DEF Init
<1>1. /\ readBuffer \in Message
      /\ received \in [Handler -> Message] /\ frame \in [Handler -> Message]
  BY ClearedIsMessage
<1>2. /\ iter \in 0..MaxIter /\ k \in [Handler -> 0..6]
      /\ \A t \in Handler : k[t] \in Position
  BY MaxIterAssumption DEF Position
<1>3. /\ tpc \in [Handler -> HandlerSteps \cup {"off", "exited"}]
      /\ outcome \in [Handler -> Outcomes]
  BY DEF HandlerSteps, Outcomes
<1>4. hop \in [Handler -> [address : Addresses, port : {0, 4446, 3336}]]
  BY DEF NoHop, Addresses
<1> QED BY <1>1, <1>2, <1>3, <1>4 DEF TypeOK

(* Every step keeps StartedInTurn. *)
LEMMA TurnsKept == TypeOK /\ StartedInTurn /\ [Next]_vars => StartedInTurn'
<1> SUFFICES ASSUME TypeOK, StartedInTurn, [Next]_vars PROVE StartedInTurn'
  OBVIOUS
<1> USE DEF StartedInTurn, LastRead, Handler
<1>0. /\ iter \in Int /\ MaxIter \in Nat
      /\ mpc \in {"accept", "clear", "read", "spawn"}
      /\ tpc \in [Handler -> HandlerSteps \cup {"off", "exited"}]
      /\ outcome \in [Handler -> Outcomes]
  BY MaxIterAssumption DEF TypeOK
<1>1. CASE Accept
  BY <1>0, <1>1 DEF Accept, handlerVars
<1>2. CASE Clear
  BY <1>0, <1>2 DEF Clear
<1>3. CASE Read
  BY <1>0, <1>3 DEF Read, handlerVars
<1>4. CASE Spawn
  BY <1>0, <1>4 DEF Spawn, HandlerSteps
<1>5. ASSUME NEW t \in Handler, handleConnection(t) PROVE StartedInTurn'
  <2>1. /\ iter' = iter /\ mpc' = mpc
        /\ tpc[t] # "off" /\ tpc'[t] # "off"
        /\ \A u \in Handler \ {t} :
             tpc'[u] = tpc[u] /\ k'[u] = k[u] /\ outcome'[u] = outcome[u]
    BY <1>5, HandlerStepIsLocal DEF mainVars, HandlerSteps
  <2> QED BY <1>0, <2>1
<1>6. CASE UNCHANGED vars
  BY <1>6 DEF vars, mainVars, handlerVars
<1> QED BY <1>1, <1>2, <1>3, <1>4, <1>5, <1>6 DEF Next, Main

(* The variables of main and of its handlers keep their types, and a strcpy
   that is still copying is at one of its six bytes (router.c:57-173). *)
THEOREM TypeCorrect == Spec => []TypeOK
<1>1. Init => TypeOK /\ StartedInTurn
  BY InitIsTyped DEF Init, StartedInTurn
<1> QED BY <1>1, TypesKept, TurnsKept, PTL DEF Spec

(* The thread of a turn is not started before its turn, and only once. *)
THEOREM OneThreadPerTurn == Spec => []StartedInTurn
<1>1. Init => TypeOK /\ StartedInTurn
  BY InitIsTyped DEF Init, StartedInTurn
<1> QED BY <1>1, TypesKept, TurnsKept, PTL DEF Spec

(* Descriptors of different owners or uses are different. *)
LEMMA Names ==
  ASSUME NEW t, NEW u
  PROVE  /\ File(t) # Sock(u) /\ File(t) # Conn(u) /\ Sock(t) # Conn(u)
         /\ File(t) = File(u) => t = u
         /\ Sock(t) = Sock(u) => t = u
  BY DEF File, Sock, Conn

(* A handler's file is open only between its fopen and fclose, its socket
   only between socket and close. *)
HeldWhere ==
  \A t \in Handler :
    /\ File(t) \in open => tpc[t] \in {"readTable", "readAddresses"}
    /\ Sock(t) \in open => tpc[t] \in {"send", "close"}

(* HeldWhere is inductive (router.c:113-161). *)
THEOREM HeldInPlace == Spec => []HeldWhere
<1>1. Init => HeldWhere
  BY DEF Init, HeldWhere
<1>2. TypeOK /\ StartedInTurn /\ HeldWhere /\ [Next]_vars => HeldWhere'
  <2> SUFFICES ASSUME TypeOK, StartedInTurn, HeldWhere, [Next]_vars PROVE HeldWhere'
    OBVIOUS
  <2> USE Names DEF HeldWhere
  <2>0. tpc \in [Handler -> HandlerSteps \cup {"off", "exited"}]
    BY DEF TypeOK
  <2>1. CASE Accept
    BY <2>1 DEF Accept, handlerVars
  <2>2. CASE Clear \/ Read
    BY <2>2 DEF Clear, Read, handlerVars
  <2>3. CASE Spawn
    <3>1. /\ tpc' = tpc \/ tpc' = [tpc EXCEPT ![iter] = "copy"]
          /\ open' = open /\ mpc = "spawn"
      BY <2>3 DEF Spawn
    <3>2. iter \in Handler => tpc[iter] = "off"
      BY <3>1 DEF StartedInTurn
    <3> QED BY <2>0, <3>1, <3>2
  <2>4. ASSUME NEW t \in Handler, CopyByte(t) PROVE HeldWhere'
    BY <2>0, <2>4 DEF CopyByte, At, Goto
  <2>5. ASSUME NEW t \in Handler, EnterCheck(t) PROVE HeldWhere'
    BY <2>0, <2>5 DEF EnterCheck, At, Goto
  <2>6. ASSUME NEW t \in Handler, LeaveCheck(t) PROVE HeldWhere'
    <3>1. \/ tpc' = [tpc EXCEPT ![t] = "openTable"]
          \/ tpc' = [tpc EXCEPT ![t] = "exited"]
      BY <2>6 DEF LeaveCheck, Goto, Exit
    <3>2. tpc[t] = "checking" /\ open' = open
      BY <2>6 DEF LeaveCheck, At
    <3> QED BY <2>0, <3>1, <3>2
  <2>7. ASSUME NEW t \in Handler, OpenTable(t) \/ OpenAddresses(t) PROVE HeldWhere'
    BY <2>0, <2>7 DEF OpenTable, OpenAddresses, Fopen, At, Goto
  <2>8. ASSUME NEW t \in Handler, ReadTable(t) \/ ReadAddresses(t) PROVE HeldWhere'
    <3>1. \/ tpc' = [tpc EXCEPT ![t] = "socket"]
          \/ tpc' = [tpc EXCEPT ![t] = "openAddresses"]
      BY <2>8 DEF ReadTable, ReadAddresses, Goto
    <3>2. tpc[t] \in {"readTable", "readAddresses"} /\ open' = open \ {File(t)}
      BY <2>8 DEF ReadTable, ReadAddresses, At
    <3> QED BY <2>0, <3>1, <3>2
  <2>9. ASSUME NEW t \in Handler, Socket(t) PROVE HeldWhere'
    BY <2>0, <2>9 DEF Socket, At, Goto
  <2>10. ASSUME NEW t \in Handler, Send(t) PROVE HeldWhere'
    <3>1. \A r \in ConnectResults(t) : ~ (r > 0)
      BY DEF ConnectResults
    <3>2. tpc' = tpc \/ tpc' = [tpc EXCEPT ![t] = "close"]
      BY <2>10, <3>1 DEF Send, Goto
    <3>3. tpc[t] = "send" /\ open' = open
      BY <2>10 DEF Send, At
    <3> QED BY <2>0, <3>2, <3>3
  <2>11. ASSUME NEW t \in Handler, Close(t) PROVE HeldWhere'
    BY <2>0, <2>11 DEF Close, At, Goto
  <2>12. CASE UNCHANGED vars
    BY <2>12 DEF vars, handlerVars
  <2>13. ASSUME NEW t \in Handler, Overrun(t) PROVE HeldWhere'
    BY <2>13 DEF Overrun, handlerVars
  <2> QED
    BY <2>1, <2>2, <2>3, <2>4, <2>5, <2>6, <2>7, <2>8, <2>9, <2>10, <2>11, <2>12, <2>13
       DEF Next, Main, handleConnection
<1> QED BY <1>1, <1>2, TypeCorrect, OneThreadPerTurn, PTL DEF Spec

(* No handler leaves its file or socket open when it ends (router.c:120, 137,
   160): each is open only where HeldWhere says. *)
THEOREM NoLeak == Spec => []NoHandlerLeak
<1>1. HeldWhere => NoHandlerLeak
  BY DEF HeldWhere, NoHandlerLeak
<1> QED BY <1>1, HeldInPlace, PTL

(* Every descriptor is a connection or held by a running handler, and each
   handler holds one at most: so a handler that holds none while the table is
   full has that many more around it. *)
LEMMA DescriptorsAccountedFor ==
  ASSUME TypeOK, HeldWhere, NEW t \in Handler,
         tpc[t] \in {"openTable", "openAddresses"}
  PROVE  /\ Cardinality(open) < Cardinality({ u \in Handler : Conn(u) \in open })
                                  + Cardinality(Active)
         /\ Cardinality(open) \in Nat
         /\ Cardinality({ u \in Handler : Conn(u) \in open }) + Cardinality(Active) \in Nat
<1> DEFINE Conns    == { u \in Handler : Conn(u) \in open }
           others   == Active \ {t}
           ofMain   == { f \in open : f[1] = "conn" }
           ofOthers == { f \in open : f[1] # "conn" }
           userM    == [f \in ofMain |-> f[2]]
           userO    == [f \in ofOthers |-> f[2]]
<1>1. \A f \in open : /\ f = <<f[1], f[2]>> /\ f[2] \in Handler
                      /\ f[1] \in {"conn", "file", "sock"}
  BY DEF TypeOK
<1>2. IsFiniteSet(Conns) /\ IsFiniteSet(Active)
  <2>1. IsFiniteSet(Handler)
    BY MaxIterAssumption, FS_Interval DEF Handler
  <2>2. Conns \in SUBSET Handler /\ Active \in SUBSET Handler
    BY DEF Active
  <2> QED BY <2>1, <2>2, FS_Subset
<1>3. IsFiniteSet(ofMain) /\ Cardinality(ofMain) <= Cardinality(Conns)
  <2>1. userM \in Injection(ofMain, Conns)
    BY <1>1 DEF Injection, IsInjective, Conn
  <2> QED BY <1>2, <2>1, FS_Injection
<1>4. IsFiniteSet(others) /\ Cardinality(others) = Cardinality(Active) - 1
  <2>1. t \in Active
    BY DEF Active, HandlerSteps
  <2> QED BY <1>2, <2>1, FS_RemoveElement
<1>5. IsFiniteSet(ofOthers) /\ Cardinality(ofOthers) <= Cardinality(others)
  <2>1. \A f \in ofOthers : f = File(f[2]) \/ f = Sock(f[2])
    BY <1>1 DEF File, Sock
  <2>2. \A f \in ofOthers : tpc[f[2]] \in {"readTable", "readAddresses", "send", "close"}
    BY <1>1, <2>1 DEF HeldWhere
  <2>3. \A f \in ofOthers : f[2] \in others
    BY <1>1, <2>2 DEF Active, HandlerSteps
  <2>4. \A f, g \in ofOthers : f[2] = g[2] => f = g
    BY <1>1, <2>1 DEF HeldWhere
  <2>5. userO \in Injection(ofOthers, others)
    BY <2>3, <2>4 DEF Injection, IsInjective
  <2> QED BY <1>4, <2>5, FS_Injection
<1>6. Cardinality(open) <= Cardinality(ofMain) + Cardinality(ofOthers)
  <2>1. open = ofMain \cup ofOthers /\ ofMain \cap ofOthers = {}
    OBVIOUS
  <2> HIDE DEF ofMain, ofOthers
  <2>2. Cardinality(ofMain \cap ofOthers) = 0
    BY <2>1, FS_EmptySet
  <2>3. /\ Cardinality(ofMain \cup ofOthers)
             = Cardinality(ofMain) + Cardinality(ofOthers) - Cardinality(ofMain \cap ofOthers)
        /\ Cardinality(ofMain) \in Nat /\ Cardinality(ofOthers) \in Nat
    BY <1>3, <1>5, FS_Union, FS_CardinalityType
  <2> QED BY <2>1, <2>2, <2>3
<1>7. /\ Cardinality(ofMain) \in Nat /\ Cardinality(ofOthers) \in Nat
      /\ Cardinality(Conns) \in Nat /\ Cardinality(Active) \in Nat
      /\ Cardinality(others) \in Nat
  BY <1>2, <1>3, <1>4, <1>5, FS_CardinalityType
<1>8. Cardinality(open) \in Nat
  <2>1. open = ofMain \cup ofOthers
    OBVIOUS
  <2> QED BY <1>3, <1>5, <2>1, FS_Union, FS_CardinalityType
<1> HIDE DEF Conns, others, ofMain, ofOthers
<1>9. /\ Cardinality(open) < Cardinality(Conns) + Cardinality(Active)
      /\ Cardinality(Conns) + Cardinality(Active) \in Nat
  BY <1>3, <1>4, <1>5, <1>6, <1>7, <1>8
<1> QED BY <1>8, <1>9 DEF Conns

(* router.c:115, 132: no fopen fails, and ends the router, before connections
   and running handlers have filled the table of descriptors. *)
THEOREM DeathIsAtCapacity == Spec => []DiesOnlyAtCapacity
<1>1. Init => DiesOnlyAtCapacity
  BY DEF Init, DiesOnlyAtCapacity
<1>2. TypeOK /\ HeldWhere /\ DiesOnlyAtCapacity /\ [Next]_vars => DiesOnlyAtCapacity'
  <2> SUFFICES ASSUME TypeOK, HeldWhere, DiesOnlyAtCapacity, [Next]_vars, process' = "segv"
               PROVE  (Cardinality({ t \in Handler : Conn(t) \in open }) + Cardinality(Active)
                         > MaxFds)'
    BY DEF DiesOnlyAtCapacity
  <2>1. CASE UNCHANGED <<process, open, tpc>>
    BY <2>1 DEF DiesOnlyAtCapacity, Active
  <2>2. ASSUME NEW t \in Handler, Fopen(t, "openTable", "readTable")
                                   \/ Fopen(t, "openAddresses", "readAddresses")
        PROVE  (Cardinality({ u \in Handler : Conn(u) \in open }) + Cardinality(Active) > MaxFds)'
    <3>1. /\ Full /\ UNCHANGED <<open, tpc>>
          /\ tpc[t] \in {"openTable", "openAddresses"}
      BY <2>2 DEF Fopen, At
    <3> DEFINE users == Cardinality({ u \in Handler : Conn(u) \in open }) + Cardinality(Active)
    <3>2. Cardinality(open) < users /\ Cardinality(open) \in Nat /\ users \in Nat
      BY <3>1, DescriptorsAccountedFor
    <3>3. users' = users
      BY <3>1 DEF Active
    <3> HIDE DEF users
    <3>4. users' > MaxFds
      BY <3>1, <3>2, <3>3, LimitsAssumption DEF Full
    <3> QED BY <3>4 DEF users
  <2>3. \/ UNCHANGED <<process, open, tpc>>
        \/ \E t \in Handler : \/ Fopen(t, "openTable", "readTable")
                              \/ Fopen(t, "openAddresses", "readAddresses")
    BY DEF Next, Main, Accept, Clear, Read, Spawn, handleConnection, CopyByte, EnterCheck,
           LeaveCheck, OpenTable, OpenAddresses, ReadTable, ReadAddresses, Socket, Send, Close,
           Overrun, At, vars, handlerVars
  <2> QED BY <2>1, <2>2, <2>3
<1> QED BY <1>1, <1>2, TypeCorrect, HeldInPlace, PTL DEF Spec

-----------------------------------------------------------------------------
(* readBuffer holds what the last read got; before it, and after memset,
   nothing.  Turns to come have received nothing. *)
BufferIsLastRead ==
  /\ readBuffer = IF mpc = "read" \/ LastRead = 0 THEN Cleared ELSE received[LastRead]
  /\ \A u \in Handler : u > LastRead => received[u] = Cleared

(* What a handler has copied came with its own or a later turn. *)
CopiedInTurn ==
  \A t \in Handler, p \in Position :
    tpc[t] # "off" /\ p < k[t] =>
      frame[t][p] # 0 /\ \E u \in t..LastRead : frame[t][p] = received[u][p]

(* memset before each read (router.c:63) keeps readBuffer to one turn. *)
THEOREM OneTurnInBuffer == Spec => []BufferIsLastRead
<1>1. Init => BufferIsLastRead
  BY DEF Init, BufferIsLastRead, LastRead
<1>2. TypeOK /\ BufferIsLastRead /\ [Next]_vars => BufferIsLastRead'
  <2> SUFFICES ASSUME TypeOK, BufferIsLastRead, [Next]_vars PROVE BufferIsLastRead'
    OBVIOUS
  <2> USE DEF BufferIsLastRead, LastRead
  <2>0. /\ iter \in Nat /\ MaxIter \in Nat
        /\ mpc \in {"accept", "clear", "read", "spawn"}
        /\ received \in [Handler -> Message]
        /\ mpc # "accept" => iter \in Handler
        /\ \A u \in Handler : u \in Int
    BY MaxIterAssumption DEF TypeOK, Handler
  <2>1. CASE Accept
    BY <2>0, <2>1 DEF Accept
  <2>2. CASE Clear
    BY <2>0, <2>2 DEF Clear
  <2>3. CASE Read
    <3>1. /\ mpc = "read" /\ mpc' = "spawn" /\ iter' = iter /\ iter \in Handler
          /\ iter # 0 /\ readBuffer = Cleared /\ received[iter] = Cleared
      BY <2>0, <2>3 DEF Read, Handler
    <3>2. CASE UNCHANGED <<readBuffer, received>>
      BY <2>0, <3>1, <3>2
    <3>3. ASSUME NEW p \in Payloads, readBuffer' = Over(p, readBuffer),
                 received' = [received EXCEPT ![iter] = Over(p, Cleared)]
          PROVE  BufferIsLastRead'
      BY <2>0, <3>1, <3>3
    <3> QED BY <2>3, <3>2, <3>3 DEF Read
  <2>4. CASE Spawn
    BY <2>0, <2>4 DEF Spawn
  <2>5. ASSUME NEW t \in Handler, handleConnection(t) PROVE BufferIsLastRead'
    BY <2>5, HandlerStepIsLocal DEF mainVars
  <2>6. CASE UNCHANGED vars
    BY <2>6 DEF vars, mainVars
  <2> QED BY <2>1, <2>2, <2>3, <2>4, <2>5, <2>6 DEF Next, Main
<1> QED BY <1>1, <1>2, TypeCorrect, PTL DEF Spec

(* CopiedInTurn, for any number of turns and any payloads (router.c:63-82). *)
THEOREM CopiesAreInTurn == Spec => []CopiedInTurn
<1>1. Init => CopiedInTurn
  BY DEF Init, CopiedInTurn
<1>2. TypeOK /\ StartedInTurn /\ BufferIsLastRead /\ CopiedInTurn /\ [Next]_vars
        => CopiedInTurn'
  <2> SUFFICES ASSUME TypeOK, StartedInTurn, BufferIsLastRead, CopiedInTurn, [Next]_vars
               PROVE  CopiedInTurn'
    OBVIOUS
  <2>0. /\ iter \in Nat
        /\ mpc \in {"accept", "clear", "read", "spawn"}
        /\ received \in [Handler -> Message]
        /\ mpc # "accept" => iter \in Handler
        /\ \A u \in Handler : u \in Int
        /\ tpc \in [Handler -> HandlerSteps \cup {"off", "exited"}]
        /\ k \in [Handler -> 0..6] /\ frame \in [Handler -> Message]
    BY MaxIterAssumption DEF TypeOK, Handler
  <2>1. CASE Accept \/ Clear
    <3>1. LastRead' = LastRead /\ UNCHANGED <<received, tpc, k, frame>>
      BY <2>0, <2>1 DEF Accept, Clear, LastRead, handlerVars
    <3> QED BY <3>1 DEF CopiedInTurn
  <2>2. CASE Read
    <3>1. /\ LastRead = iter - 1 /\ LastRead' = iter
          /\ UNCHANGED <<tpc, k, frame>>
          /\ \A u \in Handler \ {iter} : received'[u] = received[u]
      BY <2>0, <2>2 DEF Read, LastRead, handlerVars
    <3> SUFFICES ASSUME NEW t \in Handler, NEW p \in Position,
                        tpc[t] # "off", p < k[t]
                 PROVE  /\ frame[t][p] # 0
                        /\ \E u \in t..LastRead' : frame[t][p] = received'[u][p]
      BY <3>1 DEF CopiedInTurn
    <3>2. frame[t][p] # 0 /\ \E u \in t..LastRead : frame[t][p] = received[u][p]
      BY DEF CopiedInTurn
    <3>3. PICK u \in t..LastRead : frame[t][p] = received[u][p]
      BY <3>2
    <3>4. u \in Handler \ {iter} /\ u \in t..LastRead'
      <4>1. iter \in 1..MaxIter /\ t \in 1..MaxIter /\ u \in t..(iter - 1)
        BY <2>0, <2>2, <3>1 DEF Read, Handler
      <4> QED BY <3>1, <4>1, MaxIterAssumption DEF Handler
    <3> QED BY <3>1, <3>2, <3>4, <3>3
  <2>3. CASE Spawn
    <3>1. /\ LastRead' = LastRead /\ UNCHANGED <<received, k>>
          /\ \A t \in Handler \ {iter} : tpc'[t] = tpc[t] /\ frame'[t] = frame[t]
          /\ iter \in Handler => k[iter] = 0
      <4>1. iter \in Handler => tpc[iter] = "off"
        BY <2>3 DEF Spawn, StartedInTurn
      <4> QED BY <2>0, <2>3, <4>1 DEF Spawn, LastRead, StartedInTurn
    <3> QED BY <3>1 DEF CopiedInTurn, Position
  <2>4. ASSUME NEW t \in Handler, CopyByte(t) PROVE CopiedInTurn'
    <3>1. /\ LastRead' = LastRead /\ received' = received /\ tpc[t] = "copy"
          /\ frame' = [frame EXCEPT ![t] = [frame[t] EXCEPT ![k[t]] = readBuffer[k[t]]]]
          /\ \/ k' = k
             \/ k' = [k EXCEPT ![t] = k[t] + 1] /\ readBuffer[k[t]] # 0
          /\ \A u \in Handler \ {t} : tpc'[u] = tpc[u]
      BY <2>0, <2>4 DEF CopyByte, At, Goto, LastRead, mainVars
    <3>2. readBuffer[k[t]] # 0 =>
            \E u \in t..LastRead : readBuffer[k[t]] = received[u][k[t]]
      <4>1. t \in 1..LastRead
        BY <2>0, <3>1 DEF StartedInTurn, LastRead, Handler
      <4>2. \A p \in Position : Cleared[p] = 0
        BY DEF Cleared
      <4>3. k[t] \in Position
        BY <3>1 DEF TypeOK
      <4> QED BY <2>0, <4>1, <4>2, <4>3 DEF BufferIsLastRead, LastRead
    <3> SUFFICES ASSUME NEW u \in Handler, NEW p \in Position,
                        tpc'[u] # "off", p < k'[u]
                 PROVE  /\ frame'[u][p] # 0
                        /\ \E w \in u..LastRead : frame'[u][p] = received[w][p]
      BY <3>1 DEF CopiedInTurn
    <3>3. CASE u # t
      BY <2>0, <3>1, <3>3 DEF CopiedInTurn
    <3>4. CASE u = t /\ p = k[t]
      BY <2>0, <3>1, <3>2, <3>4 DEF Message, Position
    <3>5. CASE u = t /\ p # k[t]
      <4>1. p < k[t]
        BY <2>0, <3>1, <3>5 DEF Position
      <4>2. frame'[t][p] = frame[t][p]
        BY <2>0, <3>1, <3>5 DEF Message
      <4> QED BY <3>1, <3>5, <4>1, <4>2 DEF CopiedInTurn
    <3> QED BY <3>3, <3>4, <3>5
  <2>5. ASSUME NEW t \in Handler, handleConnection(t), ~ CopyByte(t) PROVE CopiedInTurn'
    <3>1. /\ frame' = frame /\ k' = k /\ UNCHANGED mainVars
          /\ \A u \in Handler : tpc'[u] # "off" => tpc[u] # "off"
      BY <2>5, CopyIsPrivate, HandlerStepIsLocal DEF HandlerSteps
    <3> QED BY <3>1 DEF CopiedInTurn, mainVars, LastRead
  <2>6. CASE UNCHANGED vars
    BY <2>6 DEF vars, mainVars, handlerVars, CopiedInTurn, LastRead
  <2> QED BY <2>1, <2>2, <2>3, <2>4, <2>5, <2>6 DEF Next, Main
<1> QED BY <1>1, <1>2, TypeCorrect, OneThreadPerTurn, OneTurnInBuffer, PTL DEF Spec

(* The bytes a handler has copied came over its own connection or a later one:
   NothingOlder, for any number of turns and any payloads.  Nothing is said of
   the bytes of its stack behind the NUL. *)
THEOREM NoOlderBytes == Spec => []NothingOlder
<1>1. TypeOK /\ StartedInTurn /\ CopiedInTurn => NothingOlder
  <2> SUFFICES ASSUME TypeOK, CopiedInTurn, NEW t \in Started, NEW p \in Position,
                      p < k[t]
               PROVE  \E u \in t..iter : frame[t][p] = received[u][p]
    BY DEF NothingOlder
  <2>1. t \in Handler /\ tpc[t] # "off"
    BY DEF Started
  <2>2. PICK u \in t..LastRead : frame[t][p] = received[u][p]
    BY <2>1 DEF CopiedInTurn
  <2>3. u \in t..iter
    BY <2>1 DEF LastRead, TypeOK, Handler
  <2> QED BY <2>2, <2>3
<1> QED BY <1>1, TypeCorrect, OneThreadPerTurn, CopiesAreInTurn, PTL

(* router.c:63-64, 82: no strcpy leaves its six bytes unless a peer filled all
   six in the handler's turn or a later one, for any payloads and any order of
   main's refills and the handlers' copies: the sixth byte copied is not NUL,
   and it came in one read. *)
THEOREM OverrunNeedsSixBytes == Spec => []OverrunsOnlyUnterminated
<1>1. TypeOK /\ StartedInTurn /\ CopiedInTurn => OverrunsOnlyUnterminated
  <2> SUFFICES ASSUME TypeOK, StartedInTurn, CopiedInTurn, NEW t \in Handler, k[t] = 6
               PROVE  \E u \in t..iter : received[u][5] # 0
    BY DEF OverrunsOnlyUnterminated
  <2>1. tpc[t] # "off" /\ 5 \in Position /\ 5 < k[t]
    BY DEF StartedInTurn, Position
  <2>2. frame[t][5] # 0 /\ \E u \in t..LastRead : frame[t][5] = received[u][5]
    BY <2>1 DEF CopiedInTurn
  <2>3. PICK u \in t..LastRead : frame[t][5] = received[u][5]
    BY <2>2
  <2>4. u \in t..iter
    BY <2>1 DEF LastRead, TypeOK, Handler
  <2> QED BY <2>2, <2>3, <2>4
<1> QED BY <1>1, TypeCorrect, OneThreadPerTurn, CopiesAreInTurn, PTL

-----------------------------------------------------------------------------
(* While main leaves a copying handler alone, readBuffer is still what the
   handler's connection got, and so is the part copied. *)
CalmCopy ==
  \A t \in Handler :
    calm[t] /\ tpc[t] = "copy" =>
      /\ readBuffer = received[t]
      /\ mpc # "read"
      /\ \A q \in Position : q < k[t] => frame[t][q] = received[t][q] /\ received[t][q] # 0

(* After the copy it has what its connection got, up to the NUL. *)
CalmCopied ==
  \A t \in Handler :
    calm[t] /\ tpc[t] \notin {"off", "copy"} => IsCopyOf(frame[t], received[t])

(* A handler that main leaves alone copies the message of its connection. *)
THEOREM CalmIsFaithful == Spec => [](CalmCopy /\ CalmCopied)
<1>1. Init => CalmCopy /\ CalmCopied
  BY DEF Init, CalmCopy, CalmCopied
<1>2. /\ TypeOK /\ StartedInTurn /\ BufferIsLastRead
      /\ CalmCopy /\ CalmCopied /\ [Next]_vars
      => CalmCopy' /\ CalmCopied'
  <2> SUFFICES ASSUME TypeOK, StartedInTurn, BufferIsLastRead, CalmCopy, CalmCopied,
                      [Next]_vars
               PROVE  CalmCopy' /\ CalmCopied'
    OBVIOUS
  <2>0. /\ received \in [Handler -> Message] /\ readBuffer \in Message
        /\ tpc \in [Handler -> HandlerSteps \cup {"off", "exited"}]
        /\ k \in [Handler -> 0..6] /\ frame \in [Handler -> Message]
        /\ mpc # "accept" => iter \in Handler
    BY DEF TypeOK
  <2>1. CASE Accept
    BY <2>1 DEF Accept, handlerVars, CalmCopy, CalmCopied
  <2>2. CASE Clear
    BY <2>2 DEF Clear, CalmCopy, CalmCopied
  <2>3. CASE Read
    <3>1. /\ UNCHANGED <<tpc, k, frame, calm>> /\ mpc = "read" /\ iter \in Handler
          /\ \A u \in Handler \ {iter} : received'[u] = received[u]
      BY <2>0, <2>3 DEF Read, handlerVars
    <3>2. tpc[iter] = "off"
      BY <3>1 DEF StartedInTurn, LastRead, TypeOK, Handler
    <3>3. CalmCopy'
      BY <3>1 DEF CalmCopy
    <3>4. CalmCopied'
      BY <3>1, <3>2 DEF CalmCopied
    <3> QED BY <3>3, <3>4
  <2>4. CASE Spawn
    <3>1. /\ UNCHANGED <<readBuffer, received, k, calm>>
          /\ mpc = "spawn" /\ mpc' = "accept" /\ iter \in Handler
          /\ \A t \in Handler \ {iter} : tpc'[t] = tpc[t] /\ frame'[t] = frame[t]
          /\ tpc'[iter] \in {tpc[iter], "copy"}
      BY <2>0, <2>4 DEF Spawn
    <3>2. tpc[iter] = "off" /\ k[iter] = 0
      BY <3>1 DEF StartedInTurn
    <3>3. readBuffer = received[iter]
      BY <3>1 DEF BufferIsLastRead, LastRead, Handler
    <3>4. CalmCopy'
      BY <3>1, <3>2, <3>3 DEF CalmCopy, Position
    <3>5. CalmCopied'
      BY <3>1, <3>2 DEF CalmCopied
    <3> QED BY <3>4, <3>5
  <2>5. ASSUME NEW t \in Handler, CopyByte(t) PROVE CalmCopy' /\ CalmCopied'
    <3>1. /\ UNCHANGED <<mpc, readBuffer, received, calm>> /\ tpc[t] = "copy"
          /\ frame' = [frame EXCEPT ![t] = [frame[t] EXCEPT ![k[t]] = readBuffer[k[t]]]]
          /\ \/ /\ k' = k /\ readBuffer[k[t]] = 0
                /\ tpc' = [tpc EXCEPT ![t] = "check"]
             \/ /\ k' = [k EXCEPT ![t] = k[t] + 1] /\ readBuffer[k[t]] # 0
                /\ tpc' = tpc /\ k[t] # 5
             \/ /\ k' = [k EXCEPT ![t] = k[t] + 1] /\ readBuffer[k[t]] # 0
                /\ tpc' = [tpc EXCEPT ![t] = "check"] /\ k[t] = 5
      BY <2>5 DEF CopyByte, At, Goto, mainVars
    <3>2. /\ \A p \in Position : p # k[t] => frame'[t][p] = frame[t][p]
          /\ frame'[t][k[t]] = readBuffer[k[t]]
          /\ \A u \in Handler \ {t} : /\ frame'[u] = frame[u] /\ k'[u] = k[u]
                                     /\ tpc'[u] = tpc[u]
          /\ k[t] \in Position
      BY <2>0, <3>1 DEF Message, TypeOK
    <3>3. \A p \in Position : p < k[t] + 1 => p < k[t] \/ p = k[t]
      BY <3>2 DEF Position
    <3>4. CalmCopy'
      <4> SUFFICES ASSUME NEW u \in Handler, calm[u], tpc'[u] = "copy"
                   PROVE  /\ readBuffer = received[u] /\ mpc # "read"
                          /\ \A q \in Position : q < k'[u] =>
                               frame'[u][q] = received[u][q] /\ received[u][q] # 0
        BY <3>1 DEF CalmCopy
      <4>1. CASE u # t
        BY <3>2, <4>1 DEF CalmCopy
      <4>2. CASE u = t
        <5>1. /\ k'[t] = k[t] + 1 /\ readBuffer[k[t]] # 0
              /\ readBuffer = received[t] /\ mpc # "read"
              /\ \A q \in Position : q < k[t] =>
                   frame[t][q] = received[t][q] /\ received[t][q] # 0
          BY <2>0, <3>1, <4>2 DEF CalmCopy
        <5>2. \A q \in Position : q < k[t] => q # k[t]
          BY <3>2 DEF Position
        <5> QED BY <3>2, <3>3, <4>2, <5>1, <5>2
      <4> QED BY <4>1, <4>2
    <3>5. CalmCopied'
      <4> SUFFICES ASSUME NEW u \in Handler, calm[u], tpc'[u] \notin {"off", "copy"}
                   PROVE  IsCopyOf(frame'[u], received[u])
        BY <3>1 DEF CalmCopied
      <4>1. CASE u # t
        BY <3>2, <4>1 DEF CalmCopied
      <4>2. CASE u = t
        <5>1. /\ readBuffer[k[t]] = 0 \/ k[t] = 5
              /\ readBuffer = received[t]
              /\ \A q \in Position : q < k[t] => frame[t][q] = received[t][q]
          BY <2>0, <3>1, <4>2 DEF CalmCopy
        <5>2. ASSUME NEW p \in Position,
                     \A q \in Position : q < p => received[t][q] # 0
              PROVE  frame'[t][p] = received[t][p]
          <6>1. ~ (k[t] < p)
            BY <3>2, <5>1, <5>2 DEF Position
          <6>2. p = k[t] \/ (p < k[t] /\ p # k[t])
            BY <3>2, <6>1 DEF Position
          <6> QED BY <3>2, <5>1, <6>2
        <5> QED BY <4>2, <5>2 DEF IsCopyOf
      <4> QED BY <4>1, <4>2
    <3> QED BY <3>4, <3>5
  <2>6. ASSUME NEW t \in Handler, handleConnection(t), ~ CopyByte(t)
        PROVE  CalmCopy' /\ CalmCopied'
    <3>1. /\ frame' = frame /\ k' = k /\ UNCHANGED mainVars /\ calm' = calm
          /\ \A u \in Handler : tpc'[u] = "copy" => tpc[u] = "copy"
          /\ \A u \in Handler : tpc'[u] \notin {"off", "copy"} => tpc[u] \notin {"off", "copy"}
      BY <2>6, CopyIsPrivate, HandlerStepIsLocal DEF HandlerSteps
    <3> QED BY <3>1 DEF CalmCopy, CalmCopied, mainVars
  <2>7. CASE UNCHANGED vars
    BY <2>7 DEF vars, mainVars, handlerVars, CalmCopy, CalmCopied
  <2> QED BY <2>1, <2>2, <2>3, <2>4, <2>5, <2>6, <2>7 DEF Next, Main
<1> QED BY <1>1, <1>2, TypeCorrect, OneThreadPerTurn, OneTurnInBuffer, PTL DEF Spec

(* A check that ran alone decided by the checksum. *)
ExactVerdict ==
  \A t \in Handler :
    /\ tpc[t] \in {"copy", "check", "checking"} => outcome[t] \in {"none", "noThread"}
    /\ tpc[t] \in HandlerSteps \ {"copy", "check", "checking"} =>
         /\ outcome[t] # "rejected"
         /\ seen[t] = {sums[t]} => checkChecksum(frame[t])
    /\ tpc[t] = "exited" /\ seen[t] = {sums[t]} =>
         (outcome[t] = "rejected" <=> ~ checkChecksum(frame[t]))

(* router.c:106, 187-194: whatever the other handlers do, ExactVerdict. *)
THEOREM VerdictsAreExact == Spec => []ExactVerdict
<1>1. Init => ExactVerdict
  BY DEF Init, ExactVerdict, HandlerSteps
<1>2. TypeOK /\ StartedInTurn /\ ExactVerdict /\ [Next]_vars => ExactVerdict'
  <2> SUFFICES ASSUME TypeOK, StartedInTurn, ExactVerdict, [Next]_vars
               PROVE  ExactVerdict'
    OBVIOUS
  <2>0. /\ tpc \in [Handler -> HandlerSteps \cup {"off", "exited"}]
        /\ frame \in [Handler -> Message] /\ outcome \in [Handler -> Outcomes]
        /\ seen \in [Handler -> SUBSET Byte]
        /\ \A u \in Handler : sums[u] = sumValue(frame[u]) /\ sums'[u] = sumValue(frame'[u])
    BY DEF TypeOK, sums
  <2>1. CASE UNCHANGED <<tpc, frame, seen, outcome>>
    BY <2>1 DEF ExactVerdict, sums
  <2>2. CASE Spawn
    <3>1. /\ seen' = seen
          /\ \A t \in Handler \ {iter} : /\ tpc'[t] = tpc[t] /\ frame'[t] = frame[t]
                                         /\ outcome'[t] = outcome[t]
          /\ iter \in Handler =>
               /\ tpc[iter] = "off"
               /\ tpc'[iter] \in {"off", "copy"}
               /\ outcome'[iter] \in {"none", "noThread"}
      <4>1. iter \in Handler => tpc[iter] = "off" /\ outcome[iter] \in {"none", "noThread"}
        BY <2>2 DEF Spawn, StartedInTurn
      <4> QED BY <2>0, <2>2, <4>1 DEF Spawn
    <3>2. ASSUME NEW t \in Handler, t # iter
          PROVE  sums'[t] = sums[t]
      BY <2>0, <3>1, <3>2
    <3> QED BY <3>1, <3>2 DEF ExactVerdict, HandlerSteps
  <2>3. ASSUME NEW t \in Handler, handleConnection(t) PROVE ExactVerdict'
    <3>1. \A u \in Handler \ {t} :
            /\ tpc'[u] = tpc[u] /\ frame'[u] = frame[u] /\ outcome'[u] = outcome[u]
            /\ tpc[u] # "checking" => seen'[u] = seen[u]
            /\ sums'[u] = sums[u]
      BY <2>0, <2>3, HandlerStepIsLocal
    <3> DEFINE Verdict(u) ==
          /\ tpc[u] \in {"copy", "check", "checking"} => outcome[u] \in {"none", "noThread"}
          /\ tpc[u] \in HandlerSteps \ {"copy", "check", "checking"} =>
               /\ outcome[u] # "rejected"
               /\ seen[u] = {sums[u]} => checkChecksum(frame[u])
          /\ tpc[u] = "exited" /\ seen[u] = {sums[u]} =>
               (outcome[u] = "rejected" <=> ~ checkChecksum(frame[u]))
    <3>2. \A u \in Handler : Verdict(u)
      BY DEF ExactVerdict
    <3>3. \A u \in Handler \ {t} : Verdict(u)'
      BY <3>1, <3>2 DEF HandlerSteps
    <3>4. CASE CopyByte(t)
      <4>1. tpc[t] = "copy" /\ outcome' = outcome /\ tpc'[t] \in {"copy", "check"}
        BY <2>0, <3>4 DEF CopyByte, At, Goto
      <4>2. Verdict(t)'
        BY <3>2, <4>1
      <4> QED BY <3>3, <4>2 DEF ExactVerdict
    <3>5. CASE EnterCheck(t)
      <4>1. tpc[t] = "check" /\ outcome' = outcome /\ tpc'[t] = "checking"
        BY <2>0, <3>5 DEF EnterCheck, At, Goto
      <4>2. Verdict(t)'
        BY <3>2, <4>1
      <4> QED BY <3>3, <4>2 DEF ExactVerdict
    <3>6. CASE LeaveCheck(t)
      <4>1. PICK c \in RacyResults(seen[t]) :
              \/ frame[t][2] = c /\ Goto(t, "openTable") /\ UNCHANGED outcome
              \/ frame[t][2] # c /\ Exit(t, "rejected")
        BY <3>6 DEF LeaveCheck
      <4>2. /\ tpc[t] = "checking" /\ frame' = frame /\ seen' = seen
            /\ sums'[t] = sums[t]
        BY <2>0, <3>6 DEF LeaveCheck, At
      <4>3. seen[t] = {sums[t]} => c = generateChecksum(sumValue(frame[t]))
        BY <2>0, <4>1, AloneIsExact, SumIsByte
      <4>4. seen[t] = {sums[t]} => (frame[t][2] = c <=> checkChecksum(frame[t]))
        BY <4>3 DEF checkChecksum
      <4>5. CASE frame[t][2] = c
        <5>1. tpc'[t] = "openTable" /\ outcome'[t] \in {"none", "noThread"}
          BY <2>0, <3>2, <4>1, <4>2, <4>5 DEF Goto
        <5>2. Verdict(t)'
          BY <4>2, <4>4, <4>5, <5>1
        <5> QED BY <3>3, <5>2 DEF ExactVerdict
      <4>6. CASE frame[t][2] # c
        <5>1. tpc'[t] = "exited" /\ outcome'[t] = "rejected"
          BY <2>0, <4>1, <4>6 DEF Exit, Goto
        <5>2. Verdict(t)'
          BY <4>2, <4>4, <4>6, <5>1 DEF HandlerSteps
        <5> QED BY <3>3, <5>2 DEF ExactVerdict
      <4> QED BY <4>5, <4>6
    <3>7. CASE OpenTable(t) \/ ReadTable(t) \/ OpenAddresses(t) \/ ReadAddresses(t)
               \/ Socket(t) \/ Send(t) \/ Close(t)
      <4>1. ~ CopyByte(t) /\ tpc[t] \in HandlerSteps \ {"copy", "check", "checking"}
        BY <3>7 DEF OpenTable, ReadTable, OpenAddresses, ReadAddresses, Fopen,
                    Socket, Send, Close, CopyByte, At, HandlerSteps
      <4>2. frame' = frame /\ seen' = seen /\ sums'[t] = sums[t]
        BY <2>0, <3>7 DEF OpenTable, ReadTable, OpenAddresses, ReadAddresses, Fopen,
                    Socket, Send, Close
      <4>3. outcome'[t] # "rejected"
        <5>1. CASE Send(t)
          <6>1. outcome' = outcome \/ \E w \in {"forwarded", "unsent"} :
                                        outcome' = [outcome EXCEPT ![t] = w]
            BY <5>1 DEF Send, WriteResults, Exit
          <6> QED BY <2>0, <3>2, <4>1, <6>1
        <5>2. CASE ~ Send(t)
          <6>1. outcome' = outcome
            BY <3>7, <5>2 DEF OpenTable, ReadTable, OpenAddresses, ReadAddresses,
                              Fopen, Socket, Close
          <6> QED BY <3>2, <4>1, <6>1
        <5> QED BY <5>1, <5>2
      <4>4. tpc'[t] \notin {"copy", "check", "checking"}
        <5>1. \/ tpc' = tpc
              \/ \E s \in {"readTable", "socket", "openAddresses", "readAddresses",
                           "send", "close", "exited"} : tpc' = [tpc EXCEPT ![t] = s]
          BY <3>7 DEF OpenTable, ReadTable, OpenAddresses, ReadAddresses, Fopen,
                      Socket, Send, Close, Goto, Exit
        <5> QED BY <2>0, <4>1, <5>1
      <4>5. Verdict(t)'
        BY <3>2, <4>1, <4>2, <4>3, <4>4
      <4> QED BY <3>3, <4>5 DEF ExactVerdict
    <3>8. CASE Overrun(t)
      BY <2>1, <3>8 DEF Overrun, handlerVars
    <3> QED BY <2>3, <3>4, <3>5, <3>6, <3>7, <3>8 DEF handleConnection
  <2> QED
    BY <2>1, <2>2, <2>3 DEF Next, Main, Accept, Clear, Read, vars, handlerVars
<1> QED BY <1>1, <1>2, TypeCorrect, OneThreadPerTurn, PTL DEF Spec

(* A handler left undisturbed judges the message of its connection by its
   checksum: ExactWhenUndisturbed, whatever the other threads do. *)
THEOREM UndisturbedIsExact == Spec => []ExactWhenUndisturbed
<1>1. TypeOK /\ StartedInTurn /\ CalmCopied /\ ExactVerdict => ExactWhenUndisturbed
  <2> SUFFICES ASSUME TypeOK, StartedInTurn, CalmCopied, ExactVerdict,
                      NEW t \in Handler, Judged(t), Undisturbed(t)
               PROVE  /\ IsCopyOf(frame[t], received[t])
                      /\ outcome[t] = "rejected" <=> ~ checkChecksum(frame[t])
    BY DEF ExactWhenUndisturbed
  <2>1. calm[t] /\ seen[t] = {sums[t]}
    BY DEF Undisturbed
  <2>2. tpc[t] \in HandlerSteps \cup {"off", "exited"} /\ outcome[t] \in Outcomes
    BY DEF TypeOK
  <2>3. tpc[t] \notin {"off", "copy", "check", "checking"}
    BY <2>2 DEF Judged, StartedInTurn, ExactVerdict, HandlerSteps
  <2>4. IsCopyOf(frame[t], received[t])
    BY <2>1, <2>3 DEF CalmCopied
  <2>5. outcome[t] = "rejected" <=> ~ checkChecksum(frame[t])
    BY <2>1, <2>2, <2>3 DEF ExactVerdict
  <2> QED BY <2>4, <2>5
<1> QED
  BY <1>1, TypeCorrect, OneThreadPerTurn, CalmIsFaithful, VerdictsAreExact, PTL
-----------------------------------------------------------------------------
(* RouterThreads: the handlers with the loops of generateChecksum.         *)

TP == INSTANCE ChecksumThreadsProofs WITH Thread <- Handler

(* TP and Threads are instances of one module. *)
LEMMA SameThreads ==
  /\ (Threads!IInv <=> TP!IInv) /\ (Threads!IInv' <=> TP!IInv')
  /\ [Threads!Next]_(Threads!vars) <=> [TP!Next]_(TP!vars)
<1>1. (Threads!IInv <=> TP!IInv) /\ (Threads!IInv' <=> TP!IInv')
  BY Zenon
     DEF Threads!IInv, Threads!TypeOK, Threads!SeesOverlaps, Threads!SharedIsMixture,
         Threads!LocalIsMixture, Threads!ResultsAreMixtures, Threads!InCall,
         Threads!generateChecksum, Threads!Assemble,
         Threads!invertBinary, Threads!Bit, Threads!Weight, Threads!Weights,
         Threads!Bits, Threads!BitIndex, Threads!Byte,
         TP!IInv, TP!TypeOK, TP!SeesOverlaps, TP!SharedIsMixture,
         TP!LocalIsMixture, TP!ResultsAreMixtures, TP!InCall,
         TP!generateChecksum, TP!Assemble,
         TP!invertBinary, TP!Bit, TP!Weight, TP!Weights,
         TP!Bits, TP!BitIndex, TP!Byte
<1>2. [Threads!Next]_(Threads!vars) <=> [TP!Next]_(TP!vars)
  BY Zenon
     DEF Threads!Next, Threads!vars, Threads!Step, Threads!Call, Threads!WriteBit,
         Threads!ReadBit, Threads!Return, Threads!Advance, Threads!Joined,
         Threads!Running, Threads!InCall, Threads!Bit, Threads!Weight, Threads!Weights,
         Threads!Assemble, Threads!invertBinary, Threads!BitIndex, Threads!Byte,
         TP!Next, TP!vars, TP!Step, TP!Call, TP!WriteBit,
         TP!ReadBit, TP!Return, TP!Advance, TP!Joined,
         TP!Running, TP!InCall, TP!Bit, TP!Weight, TP!Weights,
         TP!Assemble, TP!invertBinary, TP!BitIndex, TP!Byte
<1> QED BY <1>1, <1>2

(* What ChecksumThreadsProofs shows of a step, for the threads of the router:
   the calls of generateChecksum keep their mixtures. *)
LEMMA CallsKeepMixtures ==
  Threads!IInv /\ [Threads!Next]_(Threads!vars) => Threads!IInv'
BY SameThreads, TP!MixturesKept

(* Likewise: they take the steps of RacyChecksum. *)
LEMMA CallsAreRacy ==
  Threads!IInv /\ [Threads!Next]_(Threads!vars)
    => [Threads!Racy!Next]_(Threads!Racy!vars)
<1>1. TP!IInv /\ [TP!Next]_(TP!vars) => [TP!Racy!Next]_(TP!Racy!vars)
  BY TP!StepsAreRacy
<1>2. [Threads!Racy!Next]_(Threads!Racy!vars) <=> [TP!Racy!Next]_(TP!Racy!vars)
  BY Zenon
     DEF Threads!Racy!Next, Threads!Racy!vars, Threads!Racy!Call, Threads!Racy!Return,
         Threads!Racy!Joined, Threads!Racy!Running, Threads!Racy!RacyResults,
         Threads!Racy!Bit, Threads!Racy!Weight, Threads!Racy!Weights,
         Threads!Racy!BitIndex, Threads!Racy!Byte, Threads!InCall,
         TP!Racy!Next, TP!Racy!vars, TP!Racy!Call, TP!Racy!Return,
         TP!Racy!Joined, TP!Racy!Running, TP!Racy!RacyResults,
         TP!Racy!Bit, TP!Racy!Weight, TP!Racy!Weights,
         TP!Racy!BitIndex, TP!Racy!Byte, TP!InCall
<1> QED BY <1>1, <1>2, SameThreads

(* Both modules take these operators from CChecksum. *)
LEMMA SameChecksum ==
  /\ Threads!Byte = Byte /\ Threads!BitIndex = BitIndex
  /\ \A v, j : Threads!Bit(v, j) = Bit(v, j)
  /\ \A b : Threads!Assemble(b) = Assemble(b)
<1>1. Threads!Byte = Byte /\ Threads!BitIndex = BitIndex
  BY DEF Threads!Byte, Byte, Threads!BitIndex, BitIndex
<1>2. \A v, j : Threads!Bit(v, j) = Bit(v, j)
  BY Zenon DEF Threads!Bit, Bit, Threads!Weight, Weight, Threads!Weights, Weights
<1>3. \A b : Threads!Assemble(b) = Assemble(b)
  BY Zenon DEF Threads!Assemble, Assemble, Threads!invertBinary, invertBinary,
               Threads!BitIndex, BitIndex
<1> QED BY <1>1, <1>2, <1>3

(* A handler is in generateChecksum exactly while CRouter has it checking, and
   works on the sum of a copy that nobody changes any more (router.c:82, 106,
   181). *)
CallsAreInStep ==
  \A t \in Handler :
    /\ Threads!InCall(t) <=> tpc[t] = "checking"
    /\ tpc[t] = "checking" => argument[t] = sumValue(frame[t])

DInv == TypeOK /\ StartedInTurn /\ Threads!IInv /\ CallsAreInStep

(* A call with the arguments of the calls in progress is CRouter's EnterCheck. *)
LEMMA CallIsEnterCheck ==
  ASSUME DInv, NEW t \in Handler, CallChecksum(t)
  PROVE  EnterCheck(t)
<1>1. Threads!Running = Checking
  BY DEF DInv, CallsAreInStep, Threads!Running, Checking
<1>2. { argument[w] : w \in Threads!Running } = { sums[w] : w \in Checking }
  BY <1>1 DEF DInv, CallsAreInStep, Checking, sums
<1>3. sums[t] = sumValue(frame[t])
  BY DEF sums
<1>4. seen' = Joined(seen, sums, Checking, t, sums[t])
  BY <1>1, <1>2, <1>3 DEF CallChecksum, Threads!Call, Threads!Joined, Joined
<1> QED BY <1>4 DEF CallChecksum, EnterCheck

(* What the loops return is one of the results LeaveCheck allows. *)
LEMMA CompareIsLeaveCheck ==
  ASSUME DInv, NEW t \in Handler, CompareChecksum(t)
  PROVE  LeaveCheck(t)
<1>1. /\ pc[t] = "return" /\ seen' = seen
      /\ checksum' = [checksum EXCEPT ![t] = Threads!Assemble(binary[t])]
  BY DEF CompareChecksum, Threads!Return
<1>2. /\ checksum \in [Handler -> Threads!Byte \cup {-1}]
      /\ binary[t] \in [BitIndex -> {0, 1}] /\ seen[t] \in SUBSET Byte
  BY SameChecksum DEF DInv, Threads!IInv, Threads!TypeOK, Threads!Bits
<1>3. checksum'[t] = Assemble(binary[t])
  BY <1>1, <1>2, SameChecksum
<1>4. \A j \in BitIndex : \E v \in seen[t] : binary[t][j] = Bit(v, j)
  BY <1>1, SameChecksum DEF DInv, Threads!IInv, Threads!LocalIsMixture
<1>5. checksum'[t] \in RacyResults(seen[t])
  BY <1>2, <1>3, <1>4, MixtureIsRacy
<1> QED BY <1>1, <1>5 DEF CompareChecksum, LeaveCheck

(* Every step of RouterThreads is a step of CRouter or none, and a step of the
   threads of ChecksumThreads or none. *)
LEMMA ThreadStepsAreRouters ==
  DInv /\ [ThreadsNext]_<<vars, threadVars>>
    => [Next]_vars /\ [Threads!Next]_(Threads!vars)
<1> SUFFICES ASSUME DInv, [ThreadsNext]_<<vars, threadVars>>
             PROVE  [Next]_vars /\ [Threads!Next]_(Threads!vars)
  OBVIOUS
<1>1. ASSUME Main, UNCHANGED threadVars
      PROVE  Next /\ UNCHANGED Threads!vars
  <2>1. seen' = seen
    BY <1>1 DEF Main, Accept, Clear, Read, Spawn, handlerVars
  <2> QED BY <1>1, <2>1 DEF Next, threadVars, Threads!vars
<1>2. ASSUME NEW t \in Handler, CallChecksum(t)
      PROVE  Next /\ Threads!Next
  <2>1. Next
    BY <1>2, CallIsEnterCheck DEF Next, handleConnection
  <2>2. sumValue(frame[t]) \in Threads!Byte
    BY SumIsByte, SameChecksum DEF DInv, TypeOK
  <2>3. Threads!Next
    BY <1>2, <2>2 DEF CallChecksum, Threads!Next
  <2> QED BY <2>1, <2>3
<1>3. ASSUME NEW t \in Handler, LoopStep(t)
      PROVE  UNCHANGED vars /\ Threads!Next
  BY <1>3 DEF LoopStep, Threads!Next, Threads!Step
<1>4. ASSUME NEW t \in Handler, CompareChecksum(t)
      PROVE  Next /\ Threads!Next
  <2>1. Next
    BY <1>4, CompareIsLeaveCheck DEF Next, handleConnection
  <2>2. Threads!Next
    BY <1>4 DEF CompareChecksum, Threads!Next, Threads!Step
  <2> QED BY <2>1, <2>2
<1>5. ASSUME NEW t \in Handler, UNCHANGED threadVars,
             \/ CopyByte(t) \/ Overrun(t) \/ OpenTable(t) \/ ReadTable(t)
             \/ OpenAddresses(t) \/ ReadAddresses(t) \/ Socket(t) \/ Send(t) \/ Close(t)
      PROVE  Next /\ UNCHANGED Threads!vars
  <2>1. seen' = seen
    BY <1>5 DEF CopyByte, Overrun, OpenTable, OpenAddresses, Fopen, ReadTable,
                ReadAddresses, Socket, Send, Close, handlerVars
  <2>2. Next
    BY <1>5 DEF Next, handleConnection
  <2> QED BY <1>5, <2>1, <2>2 DEF threadVars, Threads!vars
<1>6. CASE UNCHANGED <<vars, threadVars>>
  BY <1>6 DEF vars, handlerVars, threadVars, Threads!vars
<1> QED BY <1>1, <1>2, <1>3, <1>4, <1>5, <1>6 DEF ThreadsNext, ThreadStep

(* Calls stay in step with the statements of their handlers. *)
LEMMA CallsStayInStep ==
  DInv /\ [ThreadsNext]_<<vars, threadVars>> => CallsAreInStep'
<1> SUFFICES ASSUME DInv, [ThreadsNext]_<<vars, threadVars>> PROVE CallsAreInStep'
  OBVIOUS
<1> USE DEF CallsAreInStep, Threads!InCall
<1>0. /\ TypeOK /\ StartedInTurn /\ CallsAreInStep
      /\ tpc \in [Handler -> HandlerSteps \cup {"off", "exited"}]
      /\ frame \in [Handler -> Message]
      /\ pc \in [Handler -> {"idle", "write", "read", "return", "done"}]
      /\ argument \in [Handler -> Threads!Byte]
  BY DEF DInv, TypeOK, Threads!IInv, Threads!TypeOK
<1>1. CASE UNCHANGED <<tpc, frame, pc, argument>>
  BY <1>0, <1>1
<1>2. ASSUME Spawn, UNCHANGED threadVars PROVE CallsAreInStep'
  <2>1. pc' = pc /\ argument' = argument
    BY <1>2 DEF threadVars
  <2>2. /\ \A t \in Handler \ {iter} : tpc'[t] = tpc[t] /\ frame'[t] = frame[t]
        /\ iter \in Handler => tpc'[iter] \in {tpc[iter], "copy"}
    BY <1>0, <1>2 DEF Spawn
  <2>3. iter \in Handler => tpc[iter] = "off"
    BY <1>0, <1>2 DEF Spawn, StartedInTurn
  <2> QED BY <1>0, <2>1, <2>2, <2>3
<1>3. ASSUME NEW t \in Handler, CallChecksum(t) PROVE CallsAreInStep'
  <2>1. /\ pc' = [pc EXCEPT ![t] = "write"] /\ tpc' = [tpc EXCEPT ![t] = "checking"]
        /\ argument' = [argument EXCEPT ![t] = sumValue(frame[t])] /\ frame' = frame
    BY <1>3 DEF CallChecksum, Threads!Call, Goto
  <2> QED BY <1>0, <2>1
<1>4. ASSUME NEW t \in Handler, LoopStep(t) PROVE CallsAreInStep'
  <2>1. /\ tpc' = tpc /\ frame' = frame /\ argument' = argument
        /\ pc[t] \in {"write", "read"}
        /\ \E s \in {"write", "read", "return"} : pc' = [pc EXCEPT ![t] = s]
    BY <1>4 DEF LoopStep, Threads!WriteBit, Threads!ReadBit, Threads!Advance,
                vars, handlerVars
  <2> QED BY <1>0, <2>1
<1>5. ASSUME NEW t \in Handler, CompareChecksum(t) PROVE CallsAreInStep'
  <2>1. /\ frame' = frame /\ argument' = argument /\ pc' = [pc EXCEPT ![t] = "done"]
        /\ \E s \in {"openTable", "exited"} : tpc' = [tpc EXCEPT ![t] = s]
    BY <1>5 DEF CompareChecksum, Threads!Return, Goto, Exit
  <2> QED BY <1>0, <2>1
<1>6. ASSUME NEW t \in Handler, UNCHANGED threadVars,
             \/ CopyByte(t) \/ OpenTable(t) \/ ReadTable(t)
             \/ OpenAddresses(t) \/ ReadAddresses(t) \/ Socket(t) \/ Send(t) \/ Close(t)
      PROVE  CallsAreInStep'
  <2>1. pc' = pc /\ argument' = argument
    BY <1>6 DEF threadVars
  <2>2. \A u \in Handler \ {t} : tpc'[u] = tpc[u] /\ frame'[u] = frame[u]
    BY <1>0, <1>6, HandlerStepIsLocal DEF handleConnection
  <2>3. tpc[t] # "checking" /\ tpc'[t] # "checking"
    <3>1. tpc[t] # "checking"
      BY <1>6 DEF CopyByte, OpenTable, OpenAddresses, Fopen, ReadTable, ReadAddresses,
                  Socket, Send, Close, At
    <3>2. tpc' = tpc \/ \E s \in {"check", "readTable", "socket", "openAddresses",
                                  "readAddresses", "send", "close", "exited"} :
                          tpc' = [tpc EXCEPT ![t] = s]
      BY <1>6 DEF CopyByte, OpenTable, OpenAddresses, Fopen, ReadTable, ReadAddresses,
                  Socket, Send, Close, Goto, Exit
    <3> QED BY <1>0, <3>1, <3>2
  <2> QED BY <1>0, <2>1, <2>2, <2>3
<1>7. Main /\ ~ Spawn /\ UNCHANGED threadVars => UNCHANGED <<tpc, frame, pc, argument>>
  BY DEF Main, Accept, Clear, Read, handlerVars, threadVars
<1>8. UNCHANGED <<vars, threadVars>> => UNCHANGED <<tpc, frame, pc, argument>>
  BY DEF vars, handlerVars, threadVars
<1>9. ASSUME NEW t \in Handler, Overrun(t), UNCHANGED threadVars
      PROVE  UNCHANGED <<tpc, frame, pc, argument>>
  BY <1>9 DEF Overrun, handlerVars, threadVars
<1> QED
  BY <1>1, <1>2, <1>3, <1>4, <1>5, <1>6, <1>7, <1>8, <1>9 DEF ThreadsNext, ThreadStep, Main

(* The static array and the handlers that share it keep to the types, to the
   turns of the loop, to the mixtures and to each other. *)
THEOREM ThreadsKeepDInv == ThreadsSpec => []DInv
<1>1. ThreadsInit => DInv
  <2> SUFFICES ASSUME ThreadsInit PROVE DInv
    OBVIOUS
  <2>1. Init /\ Threads!Init
    BY DEF ThreadsInit
  <2>2. TypeOK /\ StartedInTurn
    BY <2>1, InitIsTyped DEF Init, StartedInTurn
  <2>3. Threads!IInv
    BY <2>1 DEF Threads!Init, Threads!IInv, Threads!TypeOK, Threads!Bits, Threads!BitIndex,
                Threads!Byte, Threads!SeesOverlaps, Threads!SharedIsMixture,
                Threads!LocalIsMixture, Threads!ResultsAreMixtures, Threads!InCall
  <2>4. CallsAreInStep
    BY <2>1 DEF Init, Threads!Init, CallsAreInStep, Threads!InCall
  <2> QED BY <2>2, <2>3, <2>4 DEF DInv
<1>2. DInv /\ [ThreadsNext]_<<vars, threadVars>> => DInv'
  <2> SUFFICES ASSUME DInv, [ThreadsNext]_<<vars, threadVars>> PROVE DInv'
    OBVIOUS
  <2>1. [Next]_vars /\ [Threads!Next]_(Threads!vars)
    BY ThreadStepsAreRouters
  <2>2. TypeOK' /\ StartedInTurn'
    BY <2>1, TypesKept, TurnsKept DEF DInv
  <2>3. Threads!IInv'
    BY <2>1, CallsKeepMixtures DEF DInv
  <2> QED BY <2>2, <2>3, CallsStayInStep DEF DInv
<1> QED BY <1>1, <1>2, PTL DEF ThreadsSpec

(* What the handlers' overlapping calls of generateChecksum return are the
   mixtures of their sums that ResultsAreMixtures allows (router.c:205-214),
   whenever main starts the handlers and whatever they do besides. *)
THEOREM HandlersGetMixtures == ThreadsSpec => []ResultsAreMixtures
<1>1. DInv => ResultsAreMixtures
  BY DEF DInv, Threads!IInv, ResultsAreMixtures
<1> QED BY <1>1, ThreadsKeepDInv, PTL

(* router.c:202-231: the handlers' use of the static array implements
   RacyChecksum, between all the other steps of main and of the handlers. *)
THEOREM HandlersImplementRacy == ThreadsSpec => ImplementsRacyChecksum
<1>1. ThreadsInit => Threads!Racy!Init
  BY DEF ThreadsInit, Threads!Init, Threads!Racy!Init, Threads!InCall
<1>2. DInv /\ [ThreadsNext]_<<vars, threadVars>>
        => [Threads!Racy!Next]_(Threads!Racy!vars)
  BY ThreadStepsAreRouters, CallsAreRacy DEF DInv
<1> QED
  BY <1>1, <1>2, ThreadsKeepDInv, PTL
     DEF ThreadsSpec, ImplementsRacyChecksum, Threads!ImplementsRacyChecksum, Threads!Racy!Spec

(* The variables of the handlers and of their calls keep their types. *)
THEOREM ThreadsTypeCorrect == ThreadsSpec => []ThreadsTypeOK
<1>1. DInv => ThreadsTypeOK
  BY DEF DInv, ThreadsTypeOK, Threads!IInv
<1> QED BY <1>1, ThreadsKeepDInv, PTL

(* router.c:76-231: the handlers that race for the static array implement
   CRouter, for any number of turns: RacyResults leaves out nothing that the
   loops can do, and what is proved of CRouter is proved of them. *)
THEOREM ThreadsImplementRouter == ThreadsSpec => ImplementsRouter
<1>1. ThreadsInit => Init
  BY DEF ThreadsInit
<1>2. DInv /\ [ThreadsNext]_<<vars, threadVars>> => [Next]_vars
  BY ThreadStepsAreRouters
<1> QED BY <1>1, <1>2, ThreadsKeepDInv, PTL DEF ThreadsSpec, ImplementsRouter, Spec

(* So a handler whose copy and call nobody disturbs judges its own message by
   its checksum (router.c:82, 106), with the loops as they are. *)
THEOREM LoopsAreExactUndisturbed == ThreadsSpec => []ExactWhenUndisturbed
BY ThreadsImplementRouter, UndisturbedIsExact, PTL DEF ImplementsRouter
=============================================================================
