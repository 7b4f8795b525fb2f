--------------------------- MODULE RouterThreads ----------------------------
(***************************************************************************)
(* The router of CRouter with its handlers in ChecksumThreads: where       *)
(* CRouter lets a call of generateChecksum return any mixture of the sums  *)
(* it overlapped, the handlers here run its loops on the static array, a   *)
(* byte at a time, between the steps of main and of each other.            *)
(*                                                                         *)
(* RouterThreads implements CRouter: what is shown of the one holds of the *)
(* other.                                                                  *)
(***************************************************************************)
EXTENDS CRouter

VARIABLES byte, pc, i, argument, binary, checksum  \* as in ChecksumThreads

threadVars == <<byte, pc, i, argument, binary, checksum>>

(* seen is the same history in both. *)
Threads == INSTANCE ChecksumThreads WITH Thread <- Handler

ThreadsInit == Init /\ Threads!Init

-----------------------------------------------------------------------------
(* Mutant: the sum taken of main's buffer instead of the handler's copy. *)
CallChecksum_OfShared(t) ==
  /\ At(t, "check")
  /\ Goto(t, "checking")
  /\ Threads!Call(t, sumValue(readBuffer))
  /\ UNCHANGED <<process, open, mainVars, k, frame, hop, outcome, calm>>

(* checkChecksum adds up the handler's copy and calls generateChecksum. *)
CallChecksum(t) ==
  /\ At(t, "check")
  /\ Goto(t, "checking")
  /\ Threads!Call(t, sumValue(frame[t]))
  /\ UNCHANGED <<process, open, mainVars, k, frame, hop, outcome, calm>>

(* An element of the static array written or read. *)
LoopStep(t) ==
  /\ At(t, "checking")
  /\ Threads!WriteBit(t) \/ Threads!ReadBit(t)
  /\ UNCHANGED vars

(* What it returns is compared with the checksum of the copy. *)
CompareChecksum(t) ==
  /\ At(t, "checking")
  /\ Threads!Return(t)
  /\ IF frame[t][2] = checksum'[t]
     THEN Goto(t, "openTable") /\ UNCHANGED outcome
     ELSE Exit(t, "rejected")
  /\ UNCHANGED <<process, open, mainVars, k, frame, hop, calm>>

(* handleConnection, with the calls it makes of generateChecksum. *)
ThreadStep(t) ==
  \/ CallChecksum(t) \/ LoopStep(t) \/ CompareChecksum(t)
  \/ /\ \/ CopyByte(t) \/ Overrun(t) \/ OpenTable(t) \/ ReadTable(t)
        \/ OpenAddresses(t) \/ ReadAddresses(t) \/ Socket(t) \/ Send(t) \/ Close(t)
     /\ UNCHANGED threadVars

ThreadsNext ==
  \/ Main /\ UNCHANGED threadVars
  \/ \E t \in Handler : ThreadStep(t)

ThreadsSpec == ThreadsInit /\ [][ThreadsNext]_<<vars, threadVars>>

-----------------------------------------------------------------------------
(* Types of the two together. *)
ThreadsTypeOK == TypeOK /\ Threads!TypeOK

(* Two calls of the handlers of router.c that overlap may mix the bits of
   their sums, and can do no worse: each result is made of bits of the sums
   that were in generateChecksum at the same time, and a call that ran alone
   returned exactly its checksum. *)
ResultsAreMixtures == Threads!ResultsAreMixtures

(* The static array, read and written without a lock by handlers that main
   starts one after the other, does no more harm than RacyChecksum allows
   (router.c:205-214). *)
ImplementsRacyChecksum == Threads!ImplementsRacyChecksum

(* router.c:76-231: the handlers with their static array do nothing that
   CRouter does not allow, so every step of theirs is one of its steps, and
   every property it has is theirs. *)
ImplementsRouter == Spec
=============================================================================
