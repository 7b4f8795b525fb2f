-------------------------- MODULE ChecksumThreads ---------------------------
(***************************************************************************)
(* generateChecksum (router.c:202-231) as handler threads run it: `byte`   *)
(* is static, one array for all of them, and nothing orders their accesses *)
(* to it.  One step writes or reads one element; the rest of the function  *)
(* works on the caller's own stack and is one step.                        *)
(*                                                                         *)
(* An element holds the character '0' or '1', or 0 before the first call;  *)
(* the code only asks whether it is '1', so it is a bit here.              *)
(***************************************************************************)
EXTENDS CChecksum

CONSTANT Thread     \* the handler threads, each of which makes one call

VARIABLES byte,     \* static unsigned char byte[8]
          pc,       \* where in the function a thread is
          i,        \* the index of the loop it is in
          argument, \* the sum it was called with
          binary,   \* its local array; binary[7 - i] is stored under i
          checksum, \* what the call returned, -1 before that
          seen      \* history: the arguments of the calls it overlapped

vars == <<byte, pc, i, argument, binary, checksum, seen>>

Bits == [BitIndex -> {0, 1}]

InCall(t) == pc[t] \in {"write", "read", "return"}

Running == { t \in Thread : InCall(t) }

Init ==
  /\ byte = [j \in BitIndex |-> 0]
  /\ pc = [t \in Thread |-> "idle"]
  /\ i = [t \in Thread |-> 0]
  /\ argument = [t \in Thread |-> 0]
  /\ binary = [t \in Thread |-> [j \in BitIndex |-> 0]]
  /\ checksum = [t \in Thread |-> -1]
  /\ seen = [t \in Thread |-> {}]

(* What is on the stack where binary will be does not matter: every element
   is written before it is read. *)
Call(t, v) ==
  /\ pc[t] = "idle"
  /\ pc' = [pc EXCEPT ![t] = "write"]
  /\ i' = [i EXCEPT ![t] = 0]
  /\ argument' = [argument EXCEPT ![t] = v]
  /\ seen' = Joined(seen, argument, Running, t, v)
  /\ UNCHANGED <<byte, binary, checksum>>

(* Mutant: i <= 8 in the loops. *)
Advance_OneTooMany(t, here, next) ==
  /\ pc[t] = here
  /\ pc' = [pc EXCEPT ![t] = IF i[t] = 8 THEN next ELSE here]
  /\ i' = [i EXCEPT ![t] = IF i[t] = 8 THEN 0 ELSE i[t] + 1]

(* A loop of eight: its next index, and the step after it. *)
Advance(t, here, next) ==
  /\ pc[t] = here
  /\ pc' = [pc EXCEPT ![t] = IF i[t] = 7 THEN next ELSE here]
  /\ i' = [i EXCEPT ![t] = IF i[t] = 7 THEN 0 ELSE i[t] + 1]

(* Mutant: i < 7 in the first loop, which leaves the last element as it was. *)
WriteBit_NotTheLast(t) ==
  /\ Advance(t, "write", "read")
  /\ byte' = IF i[t] = 7 THEN byte ELSE [byte EXCEPT ![i[t]] = Bit(argument[t], i[t])]
  /\ UNCHANGED <<argument, binary, checksum, seen>>

(* byte[i] = '0' + ((sumValue & (1 << i)) > 0) *)
WriteBit(t) ==
  /\ Advance(t, "write", "read")
  /\ byte' = [byte EXCEPT ![i[t]] = Bit(argument[t], i[t])]
  /\ UNCHANGED <<argument, binary, checksum, seen>>

(* binary[7-i] = byte[i] *)
ReadBit(t) ==
  /\ Advance(t, "read", "return")
  /\ binary' = [binary EXCEPT ![t] = [binary[t] EXCEPT ![i[t]] = byte[i[t]]]]
  /\ UNCHANGED <<byte, argument, checksum, seen>>

(* Mutant: the bits taken from `byte`, least significant first. *)
Return_Reversed(t) ==
  /\ pc[t] = "return"
  /\ pc' = [pc EXCEPT ![t] = "done"]
  /\ checksum' = [checksum EXCEPT ![t] = Assemble([j \in BitIndex |-> byte[7 - j]])]
  /\ UNCHANGED <<byte, i, argument, binary, seen>>

(* invertBinary and the sum of the weights. *)
Return(t) ==
  /\ pc[t] = "return"
  /\ pc' = [pc EXCEPT ![t] = "done"]
  /\ checksum' = [checksum EXCEPT ![t] = Assemble(binary[t])]
  /\ UNCHANGED <<byte, i, argument, binary, seen>>

Step(t) == WriteBit(t) \/ ReadBit(t) \/ Return(t)

Next == \E t \in Thread : Step(t) \/ \E v \in Byte : Call(t, v)

Spec == Init /\ [][Next]_vars

-----------------------------------------------------------------------------
TypeOK ==
  /\ byte \in Bits
  /\ pc \in [Thread -> {"idle", "write", "read", "return", "done"}]
  /\ i \in [Thread -> BitIndex]
  /\ argument \in [Thread -> Byte]
  /\ binary \in [Thread -> Bits]
  /\ checksum \in [Thread -> Byte \cup {-1}]
  /\ seen \in [Thread -> SUBSET Byte]

(* Two calls in progress know of each other's argument. *)
SeesOverlaps ==
  \A t, u \in Thread : InCall(t) /\ InCall(u) => argument[u] \in seen[t]

(* Once a thread in its call has written an element of `byte`, the element
   stays a bit of one of the arguments the thread has seen. *)
SharedIsMixture ==
  \A t \in Thread, j \in BitIndex :
    (pc[t] = "write" /\ j < i[t]) \/ pc[t] = "read"
      => \E v \in seen[t] : byte[j] = Bit(v, j)

(* So is every element it has read. *)
LocalIsMixture ==
  \A t \in Thread, j \in BitIndex :
    (pc[t] = "read" /\ j < i[t]) \/ pc[t] = "return"
      => \E v \in seen[t] : binary[t][j] = Bit(v, j)

(* Two calls of the threads of router.c that overlap may mix the bits of
   their arguments, and can do no worse: each result is made of bits of the
   arguments that were in the function at the same time.  A call that ran
   alone returned exactly its checksum. *)
ResultsAreMixtures ==
  \A t \in Thread :
    pc[t] = "done" =>
      /\ \A j \in BitIndex : \E v \in seen[t] : Bit(checksum[t], j) # Bit(v, j)
      /\ seen[t] = {argument[t]} => checksum[t] = generateChecksum(argument[t])

IInv == /\ TypeOK /\ SeesOverlaps /\ SharedIsMixture /\ LocalIsMixture
        /\ ResultsAreMixtures

(* The abstract view of the threads. *)
Racy == INSTANCE RacyChecksum WITH
          stage <- [t \in Thread |-> IF InCall(t) THEN "call"
                                     ELSE IF pc[t] = "done" THEN "back" ELSE "idle"],
          sum <- argument,
          result <- checksum

(* The static array, read and written without a lock, does no more harm than
   RacyChecksum allows (router.c:205-214). *)
ImplementsRacyChecksum == Racy!Spec
=============================================================================
