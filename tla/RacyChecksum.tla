---------------------------- MODULE RacyChecksum ----------------------------
(***************************************************************************)
(* What generateChecksum (router.c:202-231) promises to threads that call  *)
(* it at the same time: a result each of whose bits is the inverted bit of *)
(* the caller's sum or of the sum of a call it overlapped, and nothing     *)
(* else.  ChecksumThreads implements it bit by bit.                        *)
(***************************************************************************)
EXTENDS CChecksum

CONSTANT Thread     \* the handler threads of the router

VARIABLES stage,    \* where each thread is: before, in or after its call
          sum,      \* the argument of its call
          seen,     \* the arguments of the calls it overlapped, its own too
          result    \* what the call returned, -1 before that

vars == <<stage, sum, seen, result>>

Running == { t \in Thread : stage[t] = "call" }

Init ==
  /\ stage = [t \in Thread |-> "idle"]
  /\ sum = [t \in Thread |-> 0]
  /\ seen = [t \in Thread |-> {}]
  /\ result = [t \in Thread |-> -1]

Call(t) ==
  /\ stage[t] = "idle"
  /\ stage' = [stage EXCEPT ![t] = "call"]
  /\ \E v \in Byte :
       /\ sum' = [sum EXCEPT ![t] = v]
       /\ seen' = Joined(seen, sum, Running, t, v)
  /\ UNCHANGED result

Return(t) ==
  /\ stage[t] = "call"
  /\ stage' = [stage EXCEPT ![t] = "back"]
  /\ \E c \in RacyResults(seen[t]) : result' = [result EXCEPT ![t] = c]
  /\ UNCHANGED <<sum, seen>>

Next == \E t \in Thread : Call(t) \/ Return(t)

Spec == Init /\ [][Next]_vars
=============================================================================
