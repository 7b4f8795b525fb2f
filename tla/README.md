# OCMS Router: specifications, model checking and proofs

This directory holds TLA+ models of the OCMS Router programs, the TLC runs that
check them and the theorems that TLAPS proves about them. `PROJECT.json` lists
the components, runs, mutants, hazards and theorems, and maps every definition
to the lines it models.

## The system

The repository holds two families of programs that exchange five-byte messages
(source, destination, checksum, two bytes of contents) over TCP, one written in
C and one in Java, and what is left of an earlier exercise (a server that
reverses strings).

| Part | State it keeps | Operations | Hard behaviour |
|---|---|---|---|
| C router, `C_Router/router.c` | `readBuffer` of `main`; the stack of each handler thread; the process's descriptors and threads; `routingTable.txt`, `serverAddresses.txt` | accept, memset, read, pthread_create; handleConnection: copy, check, look up, connect, write, close | the handlers copy a buffer that `main` refills; a static array shared by their checksums; descriptors never closed; a signal that ends all of them |
| C checksum, in `router.c` and `client1.c` to `client4.c` | `static unsigned char byte[8]` | generateMessage, generateChecksum, checkChecksum, invertBinary | overlapping calls |
| C clients, `client2.c` to `client4.c` | the number of the message, one connection | connect, write, read, close, ten times | blocked in read; the router gone between two calls; SIGPIPE ignored |
| `client1.c` | | | does not compile (line 38) |
| Java router, `OCMS_Router_Admin`, `OCMS_Router`, `OCMS_AcceptConnectionThread` | routers, ports, the connection accepted last; a thread per connection | start-up, the loop that runs clients, accept, readLine, check, choice of the next router, println | threads of several routers and connections; connections left to the garbage collector; exceptions that end a thread |
| Java client, `Client.java` | its connection | run: connect, send, receive, check, close | runs on the driver's own thread; readLine may wait for ever |
| Java checksum, in `Client.java` and `OCMS_AcceptConnectionThread.java` | none | generateMessage, checkChecksum | strings of digits of varying length |
| `server.c` | descriptor numbers, which its threads share and the kernel gives out again; threads that are never joined | accept, pthread_create; ServerResponse: read, reverse, write, close | short reads over an uninitialised buffer; a number that comes back while threads that hold others run; threads run out |
| `backups/`: `BasicServer` and `BasicThread` (`OCMS_Router` and `OCMS_Runner` there are copies), `BasicClient` | the field `connect`; a thread per connection; the client's socket | accept in a loop and once more, start, close; readLine, reverse, println | the eleventh connection is closed under its thread; later clients are queued by a socket nobody accepts from; a null line ends a thread |

How they interact: `client4.c` talks to whatever server has port 4446 (2 and 3
connect to 4447 and 4448, where nothing in C listens): the C router,
`server.c` or the backups' server; so does `BasicClient`. The router
would pass messages on to a next hop; no program of the repository answers on
port 3336. In Java everything runs in one process: the driver calls the clients
and each connects to its own router. What the C and the Java programs share is
the form of the message and of its checksum.

What makes each part correct:

- *Checksum*: what is made is accepted; what is changed is not; the Java and
  the C programs make the same messages; overlapping calls do bounded harm.
- *C router*: a handler judges the message of its own connection; it copies
  no older bytes, and no more than its buffer holds unless a peer has filled
  it; its verdict is right when nobody disturbs it; it gives back what it
  opened; it does not end the process.
- *C clients*: they do not take silence for a message; what they send is
  settled; they come to their end.
- *Java program*: a line that is sent reaches its target, once and unchanged
  (it does arrive, but at its sender); conversations do
  not mix; no client runs without its router, however the start-up ends; every
  run ends; sockets do not run out under a client.
- *Reversing servers*: a client gets at most one line, which is its own ten
  characters reversed, and in no case another client's; the descriptor of a thread stays its own; descriptors
  come back; who is accepted is answered, whoever else is silent; clients that
  come too late are let go.

## The modules

| Module | What it is |
|---|---|
| `CChecksum` | the C checksum as operators, on bytes and bits |
| `RacyChecksum` | abstract: what generateChecksum promises to threads that call it at once |
| `ChecksumThreads` | generateChecksum as threads run it, one element of the static array per step; refines `RacyChecksum` |
| `CRouter` | the router: `main` and handleConnection, per thread and statement; uses the promise of `RacyChecksum` for its checks |
| `RouterThreads` | the router of `CRouter` with its handlers running the loops of `ChecksumThreads`; refines `CRouter` |
| `CSystem` | clients 2 to 4 composed with `CRouter` over its listening queue |
| `JavaChecksum` | the Java checksum as operators, on sequences of digits |
| `Checksums` | the C and the Java checksum side by side on messages that are whole, changed or cut short |
| `RelayService` | abstract: lines are got as they were sent, each once, and who has sent one waits for one; to whom they go is left open |
| `JavaSystem` | the driver, its clients, the routers and connection threads; refines `RelayService` |
| `ReverseService` | abstract: a client asks and is answered at most once, with its own line reversed, or loses its connection; one that asks with less than a line gets no byte of another's |
| `ReverseClients` | the clients of both reversing servers and the connections between them; no `Next` of its own |
| `ReverseServer` | `server.c` with these clients; refines `ReverseService` |
| `BackupServer` | the backups' server with these clients; refines `ReverseService` |
| `MC...` | instances for TLC: `MCCRouter`, `MCRouterThreads`, `MCCSystem`, `MCReverseServer`, `MCBackupServer` (`Checksums` and `JavaSystem` need none) |
| `...Proofs` | theorems and proofs about the module of that name: `CChecksumProofs`, `ChecksumThreadsProofs`, `CRouterProofs` (and `RouterThreads`), `CSystemProofs`, `JavaProofs` (`JavaChecksum`, `Checksums` and `JavaSystem`), `ReverseClientsProofs`, `ReverseServerProofs`, `BackupServerProofs` |

Definitions whose name ends in `_` and a word, under a comment that starts with
"Mutant", are forms a plausible bug would give the definition that follows; no
specification uses them. `PROJECT.json` says which property each one breaks.

### CChecksum, RacyChecksum, ChecksumThreads

A message is a function from 0..5 to bytes, a sum is taken modulo 256, and the
loops over eight bits are functions of the bit index. In `ChecksumThreads` one
step writes or reads one element of `byte`; invertBinary and the weighted sum
work on the caller's stack and are one step (`Return`). `seen[t]` records the
arguments of the calls that t's call overlapped. The abstract result is any byte
each bit of which is the inverted bit of one of these arguments: the exact
checksum when there was one, any mixture otherwise. `CRouter` then needs two
steps per check (`EnterCheck`, `LeaveCheck`) instead of some twenty. That this
loses nothing is what `RouterThreads` shows (below).

### CRouter

Handler t is the thread that turn t of the accept loop starts. `main` goes
through `Accept`, `Clear`, `Read`, `Spawn`; a handler through `CopyByte` (strcpy,
a byte at a time), `EnterCheck`, `LeaveCheck`, `OpenTable`, `ReadTable`, maybe
`OpenAddresses`, `ReadAddresses`, then `Socket`, `Send` (connect and write) and
`Close`. What the model keeps of the code:

- every handler is given the same pointer, to the one `readBuffer` of `main`;
- six bytes are read and nothing terminates them: a copy that meets no NUL in
  the six (`k[t] = 6`) has run past both arrays, after which the process may
  end (`Overrun`) or go on, since the locals that could be hit are assigned
  before they are used;
- what the handler has behind the NUL is what its stack held (the memset of
  line 86 is commented out): it checks that too;
- a connection is never closed, so with no descriptor left `accept` returns -1
  at once, `read` fails, and the thread is started all the same;
- `fopen` returning NULL is not looked at: `fgets` or `fclose` ends the process
  (`segv`);
- `connect` fails with -1, which is not `> 0`: `write` is reached on a socket
  that is not connected, which on Linux raises SIGPIPE (`sigpipe`; the constant
  `UnconnectedWriteKills` is the platform's choice);
- `fgets` with a bound of zero or less (a destination below '1') or an empty
  file reads nothing, and the array is whatever the stack held: "garbage", or a
  line an earlier thread left; `dest-'0'` of line 131 is arithmetic on a
  pointer, so any number of lines may be read from the address file.

On Linux a waiting `accept` has taken its descriptor before the connection is
there; the model takes it when the connection is. While `main` waits, `fopen`,
`socket` and `connect` of the other threads then meet the limit one descriptor
earlier than in the model; what is checked and proved is for the model's limit,
whatever its size.

Assumptions: `memset` and `read` put their bytes in place in one step (handlers
may still copy before, between and after); a stack that has not been written
holds one of `StackJunk`; the two files exist, so `fopen` fails for want of a
descriptor only; `socket` and `listen` succeeded (`bind` may fail: see
`CSystem`). Strings of
files are opaque: the code only compares a line with "localhost" and passes an
address to `inet_addr`, and `Reachable` says which addresses lead anywhere.
With the shipped files none does ("localhost" is not an address `inet_addr`
parses). `received`, `seen`, `calm` and `outcome` are history.

### RouterThreads

The handlers of `CRouter` with the state of `ChecksumThreads` beside it: the call
is `CallChecksum`, every element of `byte` written or read a `LoopStep`, and
`CompareChecksum` returns and compares. The other statements are those of
`CRouter`, with the loops standing still. `CRouter` is its abstract
specification under the identity mapping: a call is an `EnterCheck`, the loops
stutter, a comparison is a `LeaveCheck`.

### CSystem

A client goes through `Connect`, `Write` and `ReadReply` for each message. A
connection waits in `backlog` until `Accept` takes it, and `Read` gets the six
bytes the client of this turn has written, or none if the client was killed
before. The actions of `CRouter` are used as they are; `AcceptClient` and
`ReadClient` add the other end, so every behaviour of `CSystem` is one of
`CRouter` with the clients' messages as payloads (a theorem). `message[c]` is
what client c has written on its connection, zeros if nothing.

Three kinds of faults: `bound` says whether the router got its port (the
result of `bind` is not looked at, and without SO_REUSEADDR a router that is
started again after a crash is such a router; it listens where nobody
connects); `Kill` ends a client at any call with its connection open; and a
client may stay at its `write` for ever. The end of the router process closes
everything: reads of clients return, further connects are refused. The random
destination is any but the client's own.

### JavaChecksum, Checksums, JavaSystem, RelayService

A string of digits is a sequence, most significant digit first, so the
variable length of `toBinaryString`, the "carry" by `substring(1,8)` and the
positions that `charAt` throws on are all there. Characters are ASCII.

`Checksums` takes a message of the clients and leaves it whole, changes one of
its five bytes (`Change`), or keeps its first bytes over a zeroed buffer (`Cut`:
what a read that returns early leaves a client at client4.c:47 and 104). The
router's handler checks a copy that nothing has zeroed; that is in `CRouter`
(`StackJunk`), and no cut message is promised to fail there.

In `JavaSystem` run n of a client has connection n and handler n. The driver's
actions are the statements of `OCMS_Router_Admin.main` and `Client.run`, which
runs on the driver's thread; `Accept` is a router's loop; `ReadLine`, `Reply`
and `Deliver` are the connection thread. `wire` and `replied` are the two
directions of a connection, `data` and `nextRouter` locals of the handler. An
exception that nothing catches ends its thread: for the driver, `Ended`. A
failed `new Socket` leaves `connect` null or closed, and a few statements later
`getOutputStream` or `checkChecksum(null)` throws: one step here. No handler
closes its connection, so `Collect` does, at any time after the handler has
exited unless its router's `clientConnect` still refers to it. `Collect` models
the garbage collector and is external to the code, as is the character set.
The start-up is one action per router: one more than `ipList` has addresses, or
a port that is taken, ends the driver there while the routers before it run on.
`amountOfClients`, a constant one edits in the code, is drawn from `Amounts`.

`RelayService` numbers the lines that are sent and lets a waiting client get any
that is under way. A program that takes each line to its destination would
implement it; so does this one, which prints each to the connection it came
from. That the line is for somebody else is the subject of `ReachesItsTarget`.

### ReverseService, ReverseClients, ReverseServer, BackupServer

Characters are symbols: `<<c, q>>` is the q-th byte client c sends and `Junk` a
byte nobody assigned, so a property sees whose characters an answer holds and in
which order, whatever they are. A process makes `Rounds` connections one after
the other; `<<p, r>>` is the client in the r-th (`client4.c` does so in its
loop, `main` of `BasicClient` by calling its constructor). `wire` and `reply`
are the two directions of a connection, `line` what the client has read,
`backlog` the queue of the listening socket. `Kill` ends a client at any call.
The processes in `Short` run `client4.c`: they send six bytes without a newline,
at once, and read the first six that come (`ReadSix`); their rounds go on after
a failed connect. What `ReverseService` promises of a whole line does not apply
to them, only that no byte of theirs is another client's.

`ReverseServer`: a descriptor is a number, `table` maps it to the connection it
stands for, and `accept` takes the lowest free one, so a number comes back while
other threads run. A thread is started for -1 too. `created` counts threads
against `MaxThreads` and never goes down, for they are neither joined nor
detached. `message[t]` is `char message[11]`, `Junk` until it is read into
(`Over`, `Got`) and where a short read left it; `reversedMessage` leaves the eleventh byte unassigned and out it goes:
the line of a BasicClient has no newline, and ends only with the `close`.
`peer` is history.

`BackupServer`: `Start` and `Close` are separate steps of `run`, so the thread of
the connection accepted after the loop may be anywhere when that is closed
(`closed`). A null line throws in `charAt` and ends its thread (`AtEnd`). The
bytes of `client4.c` are no line: its thread stays in `readLine` until that
client is gone, and then throws as well (`HasLine`, `Receive`). The
`ServerSocket` is closed by the end of the JVM or by its collector
(`StopListening`): until then clients still connect and are queued, then they
are refused, or reset. `turn` is history.

Assumptions: lines of eleven bytes as sent (a newline is one character; with
"\r\n" `server.c` would leave a byte unread), sent in one write; bytes
of the stack are just `Junk`; a `bind` that fails in `server.c` ends it before
it begins; the one write on each connection raises no SIGPIPE.

## What the runs check

Passing runs:

| Run | Instance | What it shows |
|---|---|---|
| `checksums` | 48 genuine messages, every change of one of their five bytes and every cut | C: a message is accepted exactly when it is whole (`DamageNoticed`), and a good message is one whose five bytes add up to 255 modulo 256. Java: the same messages are made, a genuine one is accepted, one whose checksum has lost a one is not (`LostOneIsNoticed`), and `checkChecksum` returns |
| `router_safety` | three turns, two descriptors, two threads; messages whole, cut, or of six bytes without a zero; a stack with an old message on it; files edited so that both are read and a hop is reached | types, `NothingOlder`, `OverrunsOnlyUnterminated`, `ExactWhenUndisturbed`, `NoHandlerLeak`, `DiesOnlyAtCapacity` |
| `router_threads` | two turns, two sums that differ in bits, no limit met; shipped files; the loops of generateChecksum one element at a time | types of the two together; results are mixtures, exact when alone (`ResultsAreMixtures`, `ImplementsRacyChecksum`); `ImplementsRouter` |
| `system` | two processes of `client4.c`, two messages, two destinations, two turns, two descriptors, a hop that can be reached; clients killed or silent, the port missed; fairness | `GenuineIsAccepted`, `NoPhantomMessage`, `SentIsSettled`, `ClientsEndWithoutRouter` |
| `java_relay` | amounts of one to five clients and routers, four runs, four descriptors, ports that may be taken; fairness | `OneConversation`, `OnlyRoutersLeak`, `RoutersBeforeClients`, `ConnectFindsDescriptor`, `WaitsForSomebody`, `ImplementsRelay`, `RunsComplete` |
| `reverse_server` | one process of `BasicClient` and one of `client4.c`, two connections each, two descriptors, three threads; fairness | `OwnDescriptor`, `NoDescriptorLeak`, `ImplementsService`, `WaitsForAnswer`, `AskedIsAnswered` |
| `backup_server` | a loop of one turn and one more, two processes of `BasicClient` and one of `client4.c`, two connections each; fairness | `OnlyLastIsCut`, `ImplementsService`, `AcceptedAreAnswered`, `LeftOversAreReleased` |

Each run but `checksums`, whose two variables only choose messages, also checks the type
invariant of its module.

Bounds, and why they suffice. Two handlers are enough for every interference
of router.c: the hazards (main against a copy, a check against a check, a
descriptor taken first) involve two parties each; the third turn in
`router_safety` lets a copy be overtaken twice, and meets a table that is full
and threads that have run out: with two of each, every limit is met by a
connection, a file and a socket. `router_threads` has two handlers whose sums
differ, so that the loops mix them, and leaves the limits to `router_safety`. In
`CSystem` a client that has its turn stays in its read while the router is up,
so two turns serve both clients, and `Messages` only counts refusals after the
router has ended; two descriptors let a handler's file stand in the way of the
second connection, so that `accept` fails with a client queued, and let the
router die of its `fopen`. Four Java runs with four descriptors let
three connections pile up before the last client connects, which is where
`accept` is refused; five clients are one more than there are addresses. The
contents and destinations of `java_relay` (5, and 1 to 3) are
chosen so that the handlers take each of their three branches. In `reverse_server` two
descriptors make one number come back while a thread holds the other, with both
taken `accept` fails, and three threads for four connections run out. In
`backup_server` six clients meet two turns: in the loop, after it, and too late;
three processes let a thread that answers, one that waits for its line and one
that holds six bytes of `client4.c` go on at once.
The safety theorems hold for every value of the bounds.

Deadlock is not checked: the programs stop (a client at its end, the router at
its death, a driver that has thrown) and the bounds stop the loops.

Violations. Each of these checks one sentence of the repository that the code
does not keep:

| Run | Sentence | What happens |
|---|---|---|
| `router_overtaken` | router.c:54 "creates a thread to handle the client/routers message" | `main` clears and refills `readBuffer` before the thread has copied it |
| `router_killed` | router.c:155 "connection failed with" | the failed connect is not noticed; writing raises SIGPIPE and ends the router; with the shipped files the first accepted message does this |
| `system_hangs` | client4.c:101 "Read the msg from the router"; client4.c:37 "Each client sends out 10 message" | the router neither answers nor closes: the client waits for ever, and never gets to its second message |
| `java_misdelivers` | Client.java:90 "Receive message from another client"; OCMS_AcceptConnectionThread.java:65 "it checks the left neighbor.  if it's the target, it sends the message there" | the line is printed to the connection it came from, whatever router was chosen; and the choice is made on the checksum character, `charAt(2) - 47` |
| `java_wrong_checksum` | OCMS_AcceptConnectionThread.java:154 "if it isn't it returns false" | a position passes where either digit is '1': any checksum with all the ones of the right one is accepted |

Other disagreements met on the way, without a run of their own:

- router.c:54-55 creates "a thread to handle the client/routers message", but a
  message is dropped once `pthread_create` has refused a thread, and as no thread
  is joined or detached so is every later one (`outcome` "noThread").
- generateChecksum depends on calls that overlap it, where router.c:199 says
  "based on the sumValue" (`ResultsAreMixtures` states how far it can go).
- A hop that is not localhost is never looked up, where router.c:123 says it is
  (`strcmp` is used as if it returned equality, and `fgets` keeps the newline).
- With `amountOfClients = 2`, which OCMS_Router_Admin.java:69 suggests, the driver
  draws a client that does not exist.
- OCMS_AcceptConnectionThread.java:65 is meant for two neighbours and a longer
  way; no router ever connects to another.
- `server.c` does not "Send back the reversed string" (lines 18, 26) to
  `client4.c`, whose six bytes fill half of the eleven: of the six it reads,
  four were never assigned (lines 22 and 24). And it sends everybody an
  eleventh byte that it never assigned (lines 31 and 36).
- BasicServer.java:50 accepts once more "to allow the last client to be
  processed", but closes that client's connection under the thread it has just
  started (line 53): it may get no answer. `OnlyLastIsCut` allows that one
  loss and no other.

## Fairness

What runs by itself is fair, what somebody decides is not.

- `FairSystem`: every thread of the router is scheduled (weak fairness of main and of each
  handler), and a system call that can return does: `accept` with a connection
  queued, `read` with bytes or the end there, a client's `connect` and `read`.
  A client's `write` is not fair, so it may stay silent, nor is `Kill`.
  `main` reads from each connection itself, so the two liveness properties
  assume `NobodyStaysSilent`; that is what the code needs, and no more.
- `JavaSystem`: each thread of the JVM is fair; the garbage collector is not, so
  `RunsComplete` is promised only if it is not true that from some time on all
  descriptors are taken.
- `ReverseServer`, `BackupServer`: the server's threads are fair, and the reads of
  clients that have something to read. Connecting, typing and killing are
  not. `StopListening` is fair only once no thread runs (the JVM ends);
  before, it is the collector's choice. `LeftOversAreReleased` assumes that no
  client that was accepted keeps its thread in `readLine` for ever
  (`HoldsThread`), at its keyboard or, `client4.c`, in its read: one such thread
  keeps the JVM up, and the clients that were queued too late wait with it.

## What is proved

TLAPS proves the following for all values of the constants under the named
assumptions of the modules (no bound on handlers, payloads, table contents,
descriptors or threads, nor on the six bytes of a payload).

- `CChecksumProofs`: the loops compute 255 minus the sum
  (`ChecksumIsComplement`); checkChecksum accepts exactly the messages whose
  bytes add up to 255 (`CheckIsSum255`); generated messages are accepted; one changed
  byte is noticed. The argument is arithmetic: a byte is the weighted sum of
  its bits, and a change of one byte moves the sum by less than 256.
- `ChecksumThreadsProofs`: `TypeCorrect`, `ThreadResults` (= `ResultsAreMixtures`)
  and `ThreadsImplementRacy` (= `ImplementsRacyChecksum`), for any set of threads.
  `ResultsAreMixtures` speaks of finished calls only and is not inductive; `IInv` adds what
  each call in progress may rely on: calls in progress know each other's
  arguments, and each element of the static array that a thread has written,
  and each element it has read, is a bit of an argument it has seen, whoever
  overwrote it since. Its steps (`TypesKept`, `MixturesKept`) are lemmas on
  actions, so that `RouterThreads` can use them through an instance.
- `CRouterProofs`: `TypeCorrect`; `NoLeak` from `HeldWhere`, which
  says at which statements a handler holds its file or its socket;
  `DeathIsAtCapacity` by counting with `HeldWhere`: descriptors map one to one
  into the connections and the running handlers;
  `NoOlderBytes` from `StartedInTurn` (a handler starts after its turn's read),
  `BufferIsLastRead` (`readBuffer` is what the last read got, or zeros) and the
  fact that bytes once copied stay (of the bytes behind the NUL, which come from
  the stack, it says nothing); `OverrunNeedsSixBytes` from the same
  (`CopiedInTurn`): a copy that has found no NUL took its sixth byte from one
  read of its own turn or a later one, and the memset of each turn leaves no
  other source for it; `UndisturbedIsExact` from `CalmCopy` and
  `CalmCopied` (while main leaves a copy alone, source and copy agree up to the
  NUL) and `ExactVerdict` (a check that ran alone decided by the checksum, by
  the lemma that `RacyResults` of one sum is its checksum). Each has its
  temporal step by PTL from an inductive invariant, one step per action, with
  `HandlerStepIsLocal` for what a handler can change of others: nothing.
- The same module on `RouterThreads`: `ThreadsImplementRouter`
  (= `ImplementsRouter`), a step simulation under `DInv`: the invariants of
  `ChecksumThreads`, and `CallsAreInStep`, that a handler is inside
  generateChecksum exactly while `CRouter` has it "checking", its argument then
  the sum of its copy. The return of the loops is a `LeaveCheck` because
  `MixturesKept` makes it one of `RacyResults`; both modules keep the history
  `seen` the same way. Every theorem on `CRouter` so
  holds of the loops: `LoopsAreExactUndisturbed` is the one that says most. And
  every theorem on `ChecksumThreads` holds of the handlers:
  `HandlersGetMixtures` and `HandlersImplementRacy`.
- `CSystemProofs`: `SystemIsRouter`, that `SystemSpec` implies `Spec` of
  `CRouter`, so that all of the above holds with the clients in place. `EInv`
  types the clients' side and says that a client that is not at its end has
  rounds left and that the turns with a connection are those with a client; it gives
  `SystemTypeCorrect` and, as a message of zeros fails its check,
  `NothingReported`. `TurnsInv` says that nobody is queued twice, in the
  queue and in a turn, or in two turns, and that while the router is up whoever
  has been queued is still at its first connection. `Sent` says that what a turn received is what its
  client wrote or, if that was killed, nothing. `GenuineAccepted` follows from
  `Sent`, `UndisturbedIsExact` and `GeneratedIsAccepted`; that the copy is whole
  needs that no client's message has a zero inside, which holds since no sum of
  theirs reaches 255.
- `JavaProofs`, on the checksums: the eight digits of a byte are its bits, so the
  complement by digits is the complement of the number, and a line made of
  characters whose sum needs eight digits passes (`GeneratedPasses`).
  `checkChecksum` accepts any line exactly when its checksum has all the ones of the
  complement of its sum (`AcceptedIffSuperset`) and throws on none whose sum has
  eight digits (`CheckAlwaysReturns`); where the sum has eight digits both
  families make the same message (`FamiliesAgree`). From these follow the
  five invariants of `Checksums` for all identities, destinations and contents
  between '1' and ':' (`CharactersAssumption`, the characters the clients use):
  sums of four of them lie between 196 and 232, so a cut message, whose
  sum falls short, and a changed one, whose sum moves by less than 256, are
  both noticed in C (`NoticesDamage`).
- `JavaProofs`, on `JavaSystem`: `IInv` is: the types; how far the
  start-up got; which line is where in the one conversation under way
  (`AskedOnce`), that all other connections are quiet (`QuietOtherwise`),
  that a connection not yet accepted is alone in its router's queue
  (`Queued`), and which descriptors are open. It gives `ConversationsAreSingle`,
  `RoutersFirst`, `ClientsLeakNothing`, `ConnectsSucceed`, and step by step
  `SystemImplementsRelay`. `NobodyWaitsInVain` is the part of `RunsComplete`
  that needs no fairness: whoever waits has somebody whose next step is the answer,
  which the agreement of the two checksums and the order of start-up ensure.
- `ReverseClientsProofs`: whatever the server does, a step of a client is one of
  `ReverseService` or a stutter, as long as the line on its way to it is its own
  reversed or, for `client4.c`, of its own and unassigned bytes (`IsOwn`).
  `ReverseServerProofs` and `BackupServerProofs` show that it is, and
  so that each server implements `ReverseService`. For `server.c` the invariant
  is that of `OwnDescriptor` and `NoDescriptorLeak` with two facts on numbers:
  a thread that was given a number had a client, and a number that main is
  about to hand over is in use; on it rest what each thread's buffer holds (unassigned
  before its one read, then its client's bytes over that) and
  whose reply it writes. `WaitersAreServed` is the part of `AskedIsAnswered` that
  needs no fairness: who waits unanswered is queued, in main's hand, or given to a
  thread, unless none was left (`NobodyIsForgotten`), and a thread past its write has
  answered (`DoneIsAnswered`). For the backups' server it says where `run` is by the
  count of clients, that only the last of them is ever closed, and that no thread of
  `client4.c` gets past its `readLine` with a line.

The `Spec` of a module with fairness is used for safety only.

Model-checked only: liveness, which is out of TLAPS's reach as it needs fairness
and so ENABLED: `SentIsSettled`, `ClientsEndWithoutRouter`, `RunsComplete`,
`AskedIsAnswered`, `AcceptedAreAnswered`, `LeftOversAreReleased`. Nothing else
a passing run checks is without a theorem.

## Not modelled

- `client1.c` does not compile: the condition of its loop is cut off (line 38).
- What is printed, the accessors of the Java classes, `convertToBinary`, which
  nothing calls, and the class files and project files.
- Messages of C peers other than the clients appear in `CRouter` as payloads
  of up to six bytes of any kind, the sixth zero or not.
- A second life of the router: what it keeps is gone when it ends, and all that
  a restart can differ in is whether it gets its port (`bound`).

## Plan

Done: the C checksum, its threads, the router, and the two composed; the clients
composed with the router; both checksums side by side; the Java program; the
reversing servers; and the proofs about each. Every program that compiles is
modelled, and every safety property that a passing run checks is a theorem.
What is left, in this order: for the other liveness properties the part that
needs no fairness, as `WaitsForSomebody` is for `RunsComplete` and
`WaitsForAnswer` for `AskedIsAnswered`; larger instances for the liveness
properties.
