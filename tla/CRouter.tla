------------------------------ MODULE CRouter -------------------------------
(***************************************************************************)
(* The router of C_Router/router.c: the accept loop of main and the        *)
(* handleConnection threads it starts, one per accepted connection.        *)
(*                                                                         *)
(* All handlers are handed the same pointer, to the readBuffer of main,    *)
(* and copy it while main may already be clearing and refilling it for the *)
(* next connection; all of them run generateChecksum on one static array   *)
(* (ChecksumThreads); all of them share the process: its descriptors, its  *)
(* threads, and the signals that end it.                                   *)
(*                                                                         *)
(* Handler t is the thread of the t-th turn of the accept loop.  A read of *)
(* the socket puts its bytes in place in one step.                         *)
(***************************************************************************)
EXTENDS CChecksum, FiniteSets, Sequences

CONSTANTS
  MaxIter,          \* bound: turns of the accept loop
  Payloads,         \* what the first read of a connection can get: data, n bytes of it
  StackJunk,        \* what a new thread can find in its own readBuffer
  MaxFds,           \* descriptors the process can open besides its first ones
  MaxThreads,       \* threads pthread_create grants; none is joined or detached
  RoutingTable,     \* routingTable.txt, as fgets(dest, 12, fp) returns it
  ServerAddresses,  \* serverAddresses.txt, likewise
  Reachable,        \* the addresses a connect can reach
  UnconnectedWriteKills \* does a write to an unconnected socket raise SIGPIPE

Handler == 1..MaxIter

ASSUME MaxIterAssumption == MaxIter \in Nat
ASSUME PayloadsAssumption ==
  Payloads \subseteq [data : Message, n : 0..6]
ASSUME StackJunkAssumption == StackJunk \subseteq Message
ASSUME LimitsAssumption == MaxFds \in Nat /\ MaxThreads \in Nat
ASSUME FilesAssumption ==
  /\ RoutingTable \in Seq(STRING)
  /\ ServerAddresses \in Seq(STRING)
  /\ Reachable \subseteq STRING
  /\ UnconnectedWriteKills \in BOOLEAN

VARIABLES
  process,    \* "up", or what ended it
  mpc,        \* the statement of the accept loop main is at
  iter,       \* the turn of the loop
  readBuffer, \* main's readBuffer, which every handler is given
  received,   \* history: the bytes the read of each turn got, zero-filled
  open,       \* the descriptors in use, named by owner and use
  tpc,        \* the statement each handler is at
  k,          \* how many bytes its strcpy has copied, the NUL not counted
  frame,      \* its own readBuffer
  seen,       \* the sums in generateChecksum at the same time as its own
  hop,        \* destinationAddress and portNumber
  outcome,    \* history: what became of the message
  calm        \* history: main did not touch readBuffer while it was copied

mainVars    == <<mpc, iter, readBuffer, received>>
handlerVars == <<tpc, k, frame, seen, hop, outcome, calm>>
vars        == <<process, open, mainVars, handlerVars>>

HandlerSteps == {"copy", "check", "checking", "openTable", "readTable",
                 "openAddresses", "readAddresses", "socket", "send", "close"}

Started == { t \in Handler : tpc[t] # "off" }
Active  == { t \in Handler : tpc[t] \in HandlerSteps }

Conn(t) == <<"conn", t>>
File(t) == <<"file", t>>
Sock(t) == <<"sock", t>>

Full == Cardinality(open) >= MaxFds

NoHop == [address |-> "unset", port |-> 0]

Addresses == {"unset", "garbage", "localhost"}
             \cup { ServerAddresses[l] : l \in DOMAIN ServerAddresses }

Init ==
  /\ process = "up" /\ mpc = "accept" /\ iter = 0
  /\ readBuffer = Cleared
  /\ received = [t \in Handler |-> Cleared]
  /\ open = {}
  /\ tpc = [t \in Handler |-> "off"]
  /\ k = [t \in Handler |-> 0]
  /\ frame = [t \in Handler |-> Cleared]
  /\ seen = [t \in Handler |-> {}]
  /\ hop = [t \in Handler |-> NoHop]
  /\ outcome = [t \in Handler |-> "none"]
  /\ calm = [t \in Handler |-> TRUE]

-----------------------------------------------------------------------------
(* main *)

(* accept: with no descriptor left it returns -1 at once, and the loop goes
   on with that.  connectingSocket is never closed. *)
Accept ==
  /\ process = "up" /\ mpc = "accept" /\ iter < MaxIter
  /\ iter' = iter + 1
  /\ open' = IF Full THEN open ELSE open \cup {Conn(iter + 1)}
  /\ mpc' = "clear"
  /\ UNCHANGED <<process, readBuffer, received, handlerVars>>

(* Mutant: the memset with '0' for '\0', as the one of line 42 has it. *)
Clear_WithDigits ==
  /\ process = "up" /\ mpc = "clear"
  /\ readBuffer' = [p \in Position |-> 48]
  /\ calm' = [t \in Handler |-> calm[t] /\ tpc[t] # "copy"]
  /\ mpc' = "read"
  /\ UNCHANGED <<process, iter, received, open, tpc, k, frame, seen, hop, outcome>>

(* Mutant: the memset commented out, as the one in handleConnection is. *)
Clear_Omitted ==
  /\ process = "up" /\ mpc = "clear"
  /\ mpc' = "read"
  /\ UNCHANGED <<process, iter, readBuffer, received, open, handlerVars>>

(* memset(readBuffer,'\0',sizeof(readBuffer)) *)
Clear ==
  /\ process = "up" /\ mpc = "clear"
  /\ readBuffer' = Cleared
  /\ calm' = [t \in Handler |-> calm[t] /\ tpc[t] # "copy"]
  /\ mpc' = "read"
  /\ UNCHANGED <<process, iter, received, open, tpc, k, frame, seen, hop, outcome>>

(* Bytes of a payload over the bytes of a buffer. *)
Over(p, buffer) == [q \in Position |-> IF q < p.n THEN p.data[q] ELSE buffer[q]]

(* read: blocks until the peer sends or closes (n = 0); fails at once on -1.
   Nothing puts a NUL behind the six bytes it may get. *)
Read ==
  /\ process = "up" /\ mpc = "read"
  /\ mpc' = "spawn"
  /\ \/ /\ Conn(iter) \in open
        /\ \E p \in Payloads :
             /\ readBuffer' = Over(p, readBuffer)
             /\ received' = [received EXCEPT ![iter] = Over(p, Cleared)]
     \/ Conn(iter) \notin open /\ UNCHANGED <<readBuffer, received>>
  /\ UNCHANGED <<process, iter, open, handlerVars>>

(* pthread_create, whose result is not looked at. *)
Spawn ==
  /\ process = "up" /\ mpc = "spawn"
  /\ mpc' = "accept"
  /\ \/ /\ Cardinality(Started) < MaxThreads
        /\ tpc' = [tpc EXCEPT ![iter] = "copy"]
        /\ \E junk \in StackJunk : frame' = [frame EXCEPT ![iter] = junk]
        /\ UNCHANGED outcome
     \/ /\ Cardinality(Started) >= MaxThreads
        /\ outcome' = [outcome EXCEPT ![iter] = "noThread"]
        /\ UNCHANGED <<tpc, frame>>
  /\ UNCHANGED <<process, iter, readBuffer, received, open, k, seen, hop, calm>>

-----------------------------------------------------------------------------
(* handleConnection *)

At(t, step) == process = "up" /\ tpc[t] = step

Goto(t, step) == tpc' = [tpc EXCEPT ![t] = step]

Exit(t, what) ==
  /\ Goto(t, "exited")
  /\ outcome' = [outcome EXCEPT ![t] = what]

(* Mutant: a copy loop that only counts, and counts one too many. *)
CopyByte_PastNul(t) ==
  /\ At(t, "copy")
  /\ frame' = [frame EXCEPT ![t] = [frame[t] EXCEPT ![k[t]] = readBuffer[k[t]]]]
  /\ k' = [k EXCEPT ![t] = k[t] + 1]
  /\ IF k[t] = 6 THEN Goto(t, "check") ELSE UNCHANGED tpc
  /\ UNCHANGED <<process, open, mainVars, seen, hop, outcome, calm>>

(* strcpy(readBuffer,arg), byte by byte up to the NUL.  With none in the six
   bytes it runs past the end of both arrays; the locals it may reach there are
   all assigned before they are read. *)
CopyByte(t) ==
  /\ At(t, "copy")
  /\ frame' = [frame EXCEPT ![t] = [frame[t] EXCEPT ![k[t]] = readBuffer[k[t]]]]
  /\ IF readBuffer[k[t]] = 0
     THEN Goto(t, "check") /\ UNCHANGED k
     ELSE /\ k' = [k EXCEPT ![t] = k[t] + 1]
          /\ IF k[t] = 5 THEN Goto(t, "check") ELSE UNCHANGED tpc
  /\ UNCHANGED <<process, open, mainVars, seen, hop, outcome, calm>>

(* Past the arrays anything may be hit: the process may end, there and then or
   later, up to the pthread_exit that unwinds the handler's stack. *)
Overrun(t) ==
  /\ process = "up" /\ t \in Active /\ k[t] = 6
  /\ process' = "overrun"
  /\ UNCHANGED <<open, mainVars, handlerVars>>

sums     == [t \in Handler |-> sumValue(frame[t])]
Checking == { t \in Handler : tpc[t] = "checking" }

(* checkChecksum calls generateChecksum... *)
EnterCheck(t) ==
  /\ At(t, "check")
  /\ Goto(t, "checking")
  /\ seen' = Joined(seen, sums, Checking, t, sums[t])
  /\ UNCHANGED <<process, open, mainVars, k, frame, hop, outcome, calm>>

(* Mutant: the checksum "currently unchecked", as line 108 has it. *)
LeaveCheck_Unchecked(t) ==
  /\ At(t, "checking")
  /\ Goto(t, "openTable")
  /\ UNCHANGED <<process, open, mainVars, k, frame, seen, hop, outcome, calm>>

(* ... and compares what it returned. *)
LeaveCheck(t) ==
  /\ At(t, "checking")
  /\ \/ /\ Goto(t, "openTable") /\ UNCHANGED outcome
        /\ \E correctChecksum \in RacyResults(seen[t]) : frame[t][2] = correctChecksum
     \/ /\ Exit(t, "rejected")
        /\ \E correctChecksum \in RacyResults(seen[t]) : frame[t][2] # correctChecksum
  /\ UNCHANGED <<process, open, mainVars, k, frame, seen, hop, calm>>

(* fopen; its result is used unchecked: fgets and fclose of NULL end the
   process. *)
Fopen(t, here, next) ==
  /\ At(t, here)
  /\ IF Full
     THEN process' = "segv" /\ UNCHANGED <<open, tpc>>
     ELSE /\ open' = open \cup {File(t)}
          /\ Goto(t, next)
          /\ UNCHANGED process
  /\ UNCHANGED <<mainVars, k, frame, seen, hop, outcome, calm>>

OpenTable(t) == Fopen(t, "openTable", "readTable")

(* What j calls of fgets leave in the buffer: the last line read; what an
   earlier thread left on the stack, or anything else, when none was. *)
LinesRead(file, j) ==
  IF j <= 0 \/ file = <<>>
  THEN {"garbage"} \cup { file[l] : l \in DOMAIN file }
  ELSE { file[IF j < Len(file) THEN j ELSE Len(file)] }

Signed(b) == IF b < 128 THEN b ELSE b - 256

(* destination - '0', of a char that is signed. *)
destInt(t) == Signed(frame[t][1]) - 48

(* Mutant: no fclose of the routing table. *)
ReadTable_LeftOpen(t) ==
  /\ At(t, "readTable")
  /\ \E dest \in LinesRead(RoutingTable, destInt(t)) :
       IF dest # "localhost"
       THEN /\ hop' = [hop EXCEPT ![t] = [address |-> "localhost", port |-> 4446]]
            /\ Goto(t, "socket")
       ELSE Goto(t, "openAddresses") /\ UNCHANGED hop
  /\ UNCHANGED <<process, open, mainVars, k, frame, seen, outcome, calm>>

(* fgets, fclose and strcmp(dest,"localhost"), which is 0 only for a last
   line without its newline. *)
ReadTable(t) ==
  /\ At(t, "readTable")
  /\ open' = open \ {File(t)}
  /\ \E dest \in LinesRead(RoutingTable, destInt(t)) :
       IF dest # "localhost"
       THEN /\ hop' = [hop EXCEPT ![t] = [address |-> "localhost", port |-> 4446]]
            /\ Goto(t, "socket")
       ELSE Goto(t, "openAddresses") /\ UNCHANGED hop
  /\ UNCHANGED <<process, mainVars, k, frame, seen, outcome, calm>>

OpenAddresses(t) == Fopen(t, "openAddresses", "readAddresses")

(* destAddrInt is dest-'0' of a pointer: any line may be the last one read. *)
ReadAddresses(t) ==
  /\ At(t, "readAddresses")
  /\ open' = open \ {File(t)}
  /\ \E j \in 0..Len(ServerAddresses) :
       \E destinationAddress \in LinesRead(ServerAddresses, j) :
         hop' = [hop EXCEPT ![t] = [address |-> destinationAddress, port |-> 3336]]
  /\ Goto(t, "socket")
  /\ UNCHANGED <<process, mainVars, k, frame, seen, outcome, calm>>

(* socket: -1 with no descriptor left. *)
Socket(t) ==
  /\ At(t, "socket")
  /\ open' = IF Full THEN open ELSE open \cup {Sock(t)}
  /\ Goto(t, "send")
  /\ UNCHANGED <<process, mainVars, k, frame, seen, hop, outcome, calm>>

ConnectResults(t) ==
  IF Sock(t) \in open /\ hop[t].address \in Reachable THEN {0, -1} ELSE {-1}

(* What write can do: on a connected socket the message goes out or, if the
   peer has reset the connection, is lost; on one that is not connected it
   fails, by a signal where UnconnectedWriteKills; on -1 it only fails. *)
WriteResults(t, r) ==
  IF Sock(t) \notin open THEN {"unsent"}
  ELSE (IF r = 0 THEN {"forwarded", "unsent"} ELSE {})
       \cup (IF UnconnectedWriteKills THEN {"sigpipe"} ELSE {"unsent"})

(* Mutant: the test of connect corrected to < 0, and nothing else. *)
Send_LeavesSocket(t) ==
  /\ At(t, "send")
  /\ \E r \in ConnectResults(t) :
       IF r < 0
       THEN Exit(t, "unsent") /\ UNCHANGED process
       ELSE \E w \in WriteResults(t, r) :
              IF w = "sigpipe"
              THEN process' = "sigpipe" /\ UNCHANGED <<tpc, outcome>>
              ELSE /\ outcome' = [outcome EXCEPT ![t] = w]
                   /\ Goto(t, "close")
                   /\ UNCHANGED process
  /\ UNCHANGED <<open, mainVars, k, frame, seen, hop, calm>>

(* connect fails with -1, which is not > 0: write is reached all the same. *)
Send(t) ==
  /\ At(t, "send")
  /\ \E r \in ConnectResults(t) :
       IF r > 0
       THEN Exit(t, "unsent") /\ UNCHANGED process
       ELSE \E w \in WriteResults(t, r) :
              IF w = "sigpipe"
              THEN process' = "sigpipe" /\ UNCHANGED <<tpc, outcome>>
              ELSE /\ outcome' = [outcome EXCEPT ![t] = w]
                   /\ Goto(t, "close")
                   /\ UNCHANGED process
  /\ UNCHANGED <<open, mainVars, k, frame, seen, hop, calm>>

Close(t) ==
  /\ At(t, "close")
  /\ open' = open \ {Sock(t)}
  /\ Goto(t, "exited")
  /\ UNCHANGED <<process, mainVars, k, frame, seen, hop, outcome, calm>>

-----------------------------------------------------------------------------
Main == Accept \/ Clear \/ Read \/ Spawn

handleConnection(t) ==
  \/ CopyByte(t) \/ Overrun(t) \/ EnterCheck(t) \/ LeaveCheck(t)
  \/ OpenTable(t) \/ ReadTable(t) \/ OpenAddresses(t) \/ ReadAddresses(t)
  \/ Socket(t) \/ Send(t) \/ Close(t)

Next == Main \/ \E t \in Handler : handleConnection(t)

Spec == Init /\ [][Next]_vars

-----------------------------------------------------------------------------
Outcomes == {"none", "rejected", "forwarded", "unsent", "noThread"}

(* Types; a strcpy in progress is at one of its six bytes. *)
TypeOK ==
  /\ process \in {"up", "sigpipe", "segv", "overrun"}
  /\ mpc \in {"accept", "clear", "read", "spawn"}
  /\ iter \in 0..MaxIter
  /\ mpc # "accept" => iter \in Handler
  /\ readBuffer \in Message
  /\ received \in [Handler -> Message]
  /\ open \subseteq {"conn", "file", "sock"} \X Handler
  /\ tpc \in [Handler -> HandlerSteps \cup {"off", "exited"}]
  /\ k \in [Handler -> 0..6]
  /\ \A t \in Handler : tpc[t] = "copy" => k[t] \in Position
  /\ frame \in [Handler -> Message]
  /\ seen \in [Handler -> SUBSET Byte]
  /\ hop \in [Handler -> [address : Addresses, port : {0, 4446, 3336}]]
  /\ outcome \in [Handler -> Outcomes]
  /\ calm \in [Handler -> BOOLEAN]

(* router.c:63, 82: main clears readBuffer in every turn, so what a handler
   copies, however late it runs, came over its own connection or a later one,
   never over an earlier one, even when a peer sent less than six bytes.  This
   is about the bytes copied: behind the NUL the handler has what its stack
   held (line 86 is commented out), and checks and forwards that too. *)
NothingOlder ==
  \A t \in Started : \A p \in Position :
    p < k[t] => \E u \in t..iter : frame[t][p] = received[u][p]

(* router.c:63-64, 82: the strcpy of a handler leaves its six bytes only if a
   peer, of its own turn or of a later one, filled all six; however main clears
   and refills the buffer under it, shorter messages never add up to one that
   has no NUL. *)
OverrunsOnlyUnterminated ==
  \A t \in Handler : k[t] = 6 => \E u \in t..iter : received[u][5] # 0

(* A handler is undisturbed if main left readBuffer alone while it copied and
   no other thread ran generateChecksum during its check. *)
Undisturbed(t) == calm[t] /\ seen[t] = {sums[t]}

Judged(t) == tpc[t] \in HandlerSteps \ {"copy", "check", "checking"}
             \/ outcome[t] \in Outcomes \ {"none", "noThread"}

IsCopyOf(m, n) ==
  \A p \in Position : (\A q \in Position : q < p => n[q] # 0) => m[p] = n[p]

(* router.c:82, 106: left undisturbed, a handler judges the very message its
   connection got, up to the first NUL, and rejects it exactly when its
   checksum is wrong. *)
ExactWhenUndisturbed ==
  \A t \in Handler :
    Judged(t) /\ Undisturbed(t) =>
      /\ IsCopyOf(frame[t], received[t])
      /\ outcome[t] = "rejected" <=> ~ checkChecksum(frame[t])

(* router.c:120, 137, 156, 160: on no path does a handler thread that is gone
   leave its file or its socket open. *)
NoHandlerLeak ==
  \A t \in Handler :
    tpc[t] \in {"off", "exited"} => File(t) \notin open /\ Sock(t) \notin open

(* router.c:115, 132: as connections are never closed, descriptors run out
   after MaxFds of them; but not sooner than the connections and the one
   descriptor each running handler may hold account for. *)
DiesOnlyAtCapacity ==
  process = "segv" =>
    Cardinality({ t \in Handler : Conn(t) \in open }) + Cardinality(Active) > MaxFds

-----------------------------------------------------------------------------
(* What the program says of itself, and does not keep to. *)

(* router.c:52-56 "Makes a socket connection then creates a thread to handle
   the client/routers message": what thread t judges is what connection t
   got. *)
HandlerOwnsItsMessage ==
  \A t \in Handler : Judged(t) => IsCopyOf(frame[t], received[t])

(* router.c:153-157: a connection that fails is reported and ends its thread,
   not the router. *)
ConnectFailureIsContained == process # "sigpipe"
=============================================================================
