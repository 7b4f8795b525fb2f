----------------------- MODULE ChecksumThreadsProofs ------------------------
(***************************************************************************)
(* For every number of threads, generateChecksum of router.c implements    *)
(* RacyChecksum.                                                           *)
(***************************************************************************)
EXTENDS ChecksumThreads, CChecksumProofs

(* Every step of a call keeps the types. *)
LEMMA TypesKept == TypeOK /\ [Next]_vars => TypeOK'
<1> SUFFICES ASSUME TypeOK, [Next]_vars PROVE TypeOK'
  OBVIOUS
<1>1. ASSUME NEW t \in Thread, NEW v \in Byte, Call(t, v) PROVE TypeOK'
  <2>1. seen' \in [Thread -> SUBSET Byte]
    BY <1>1 DEF Call, Joined, Running, TypeOK
  <2>2. i' \in [Thread -> BitIndex] /\ argument' \in [Thread -> Byte]
    BY <1>1 DEF Call, TypeOK, BitIndex
  <2> QED BY <1>1, <2>1, <2>2 DEF Call, TypeOK
<1>2. ASSUME NEW t \in Thread, WriteBit(t) PROVE TypeOK'
  <2>1. Bit(argument[t], i[t]) \in {0, 1}
    BY BitsOfByte DEF TypeOK
  <2> QED BY <1>2, <2>1 DEF WriteBit, Advance, TypeOK, Bits, BitIndex
<1>3. ASSUME NEW t \in Thread, ReadBit(t) PROVE TypeOK'
  BY <1>3 DEF ReadBit, Advance, TypeOK, Bits, BitIndex
<1>4. ASSUME NEW t \in Thread, Return(t) PROVE TypeOK'
  <2>1. Assemble(binary[t]) \in Byte
    BY BitsOfAssembled DEF TypeOK, Bits
  <2> QED BY <1>4, <2>1 DEF Return, TypeOK
<1>5. CASE UNCHANGED vars
  BY <1>5 DEF vars, TypeOK
<1> QED BY <1>1, <1>2, <1>3, <1>4, <1>5 DEF Next, Step

(* Every variable of the model keeps its type (router.c:202-231). *)
THEOREM TypeCorrect == Spec => []TypeOK
<1>1. Init => TypeOK
  BY DEF Init, TypeOK, Bits, BitIndex, Byte
<1> QED BY <1>1, TypesKept, PTL DEF Spec

(* The mixtures stay mixtures: IInv is inductive.  A thread that writes an
   element of `byte` is in its call, so every other thread in its call has
   seen its argument (SeesOverlaps): that is why SharedIsMixture survives the
   writes of others. *)
LEMMA MixturesKept == IInv /\ [Next]_vars => IInv'
<1> SUFFICES ASSUME IInv, [Next]_vars PROVE IInv'
  OBVIOUS
<1> USE DEF IInv
<1>0. TypeOK'
  BY TypesKept
<1>1. ASSUME NEW t \in Thread, NEW v \in Byte, Call(t, v)
      PROVE  /\ SeesOverlaps' /\ SharedIsMixture'
             /\ LocalIsMixture' /\ ResultsAreMixtures'
  <2>1. /\ pc[t] = "idle" /\ pc' = [pc EXCEPT ![t] = "write"]
        /\ argument' = [argument EXCEPT ![t] = v]
        /\ i' = [i EXCEPT ![t] = 0] /\ byte' = byte /\ binary' = binary /\ checksum' = checksum
    BY <1>1 DEF Call
  <2>2. /\ v \in seen'[t]
        /\ \A u \in Thread \ {t} : InCall(u) => v \in seen'[u] /\ argument[u] \in seen'[t]
        /\ \A u \in Thread \ {t} : seen[u] \subseteq seen'[u]
        /\ \A u \in Thread \ {t} : ~ InCall(u) => seen'[u] = seen[u]
    BY <1>1 DEF Call, Joined, Running, TypeOK
  <2>3. /\ InCall(t)'
        /\ \A u \in Thread \ {t} : InCall(u)' <=> InCall(u)
    BY <2>1 DEF InCall, TypeOK
  <2>4. SeesOverlaps'
    BY <2>1, <2>2, <2>3 DEF SeesOverlaps, TypeOK
  <2>5. SharedIsMixture'
    <3> SUFFICES ASSUME NEW u \in Thread, NEW j \in BitIndex,
                        (pc'[u] = "write" /\ j < i'[u]) \/ pc'[u] = "read"
                 PROVE  \E w \in seen'[u] : byte'[j] = Bit(w, j)
      BY DEF SharedIsMixture
    <3>1. u # t
      BY <2>1 DEF TypeOK, BitIndex
    <3> QED BY <3>1, <2>1, <2>2 DEF SharedIsMixture, TypeOK
  <2>6. LocalIsMixture'
    BY <2>1, <2>2 DEF LocalIsMixture, TypeOK
  <2>7. ResultsAreMixtures'
    BY <2>1, <2>2, <2>3 DEF ResultsAreMixtures, TypeOK, InCall
  <2> QED BY <2>4, <2>5, <2>6, <2>7
<1>2. ASSUME NEW t \in Thread, WriteBit(t)
      PROVE  /\ SeesOverlaps' /\ SharedIsMixture'
             /\ LocalIsMixture' /\ ResultsAreMixtures'
  <2>1. /\ pc[t] = "write" /\ argument' = argument /\ seen' = seen
        /\ pc' = [pc EXCEPT ![t] = IF i[t] = 7 THEN "read" ELSE "write"]
        /\ i' = [i EXCEPT ![t] = IF i[t] = 7 THEN 0 ELSE i[t] + 1]
        /\ byte' = [byte EXCEPT ![i[t]] = Bit(argument[t], i[t])]
        /\ binary' = binary /\ checksum' = checksum
    BY <1>2 DEF WriteBit, Advance
  <2>2. SeesOverlaps'
    BY <2>1 DEF SeesOverlaps, InCall, TypeOK
  <2>3. SharedIsMixture'
    <3> SUFFICES ASSUME NEW u \in Thread, NEW j \in BitIndex,
                        (pc'[u] = "write" /\ j < i'[u]) \/ pc'[u] = "read"
                 PROVE  \E w \in seen[u] : byte'[j] = Bit(w, j)
      BY <2>1 DEF SharedIsMixture
    <3>1. CASE j = i[t]
      <4>1. InCall(u) /\ InCall(t)
        BY <2>1 DEF InCall, TypeOK
      <4>2. argument[t] \in seen[u]
        BY <4>1 DEF SeesOverlaps
      <4> QED BY <2>1, <3>1, <4>2 DEF TypeOK, Bits
    <3>2. CASE j # i[t]
      <4>1. byte'[j] = byte[j]
        BY <2>1, <3>2 DEF TypeOK, Bits
      <4>2. (pc[u] = "write" /\ j < i[u]) \/ pc[u] = "read"
        <5>1. CASE u # t
          BY <2>1, <5>1 DEF TypeOK
        <5>2. CASE u = t /\ i[t] = 7
          BY <2>1, <3>2, <5>2 DEF TypeOK, BitIndex
        <5>3. CASE u = t /\ i[t] # 7
          BY <2>1, <3>2, <5>3 DEF TypeOK, BitIndex
        <5> QED BY <5>1, <5>2, <5>3
      <4> QED BY <4>1, <4>2 DEF SharedIsMixture
    <3> QED BY <3>1, <3>2
  <2>4. LocalIsMixture'
    <3> SUFFICES ASSUME NEW u \in Thread, NEW j \in BitIndex,
                        (pc'[u] = "read" /\ j < i'[u]) \/ pc'[u] = "return"
                 PROVE  \E w \in seen[u] : binary[u][j] = Bit(w, j)
      BY <2>1 DEF LocalIsMixture
    <3>1. u # t
      BY <2>1 DEF TypeOK, BitIndex
    <3> QED BY <2>1, <3>1 DEF LocalIsMixture, TypeOK
  <2>5. ResultsAreMixtures'
    BY <2>1 DEF ResultsAreMixtures, TypeOK
  <2> QED BY <2>2, <2>3, <2>4, <2>5
<1>3. ASSUME NEW t \in Thread, ReadBit(t)
      PROVE  /\ SeesOverlaps' /\ SharedIsMixture'
             /\ LocalIsMixture' /\ ResultsAreMixtures'
  <2>1. /\ pc[t] = "read" /\ argument' = argument /\ seen' = seen
        /\ pc' = [pc EXCEPT ![t] = IF i[t] = 7 THEN "return" ELSE "read"]
        /\ i' = [i EXCEPT ![t] = IF i[t] = 7 THEN 0 ELSE i[t] + 1]
        /\ binary' = [binary EXCEPT ![t] = [binary[t] EXCEPT ![i[t]] = byte[i[t]]]]
        /\ byte' = byte /\ checksum' = checksum
    BY <1>3 DEF ReadBit, Advance
  <2>2. SeesOverlaps'
    BY <2>1 DEF SeesOverlaps, InCall, TypeOK
  <2>3. SharedIsMixture'
    BY <2>1 DEF SharedIsMixture, TypeOK
  <2>4. LocalIsMixture'
    <3> SUFFICES ASSUME NEW u \in Thread, NEW j \in BitIndex,
                        (pc'[u] = "read" /\ j < i'[u]) \/ pc'[u] = "return"
                 PROVE  \E w \in seen[u] : binary'[u][j] = Bit(w, j)
      BY <2>1 DEF LocalIsMixture
    <3>1. CASE u # t
      BY <2>1, <3>1 DEF LocalIsMixture, TypeOK
    <3>2. CASE u = t /\ j = i[t]
      BY <2>1, <3>2 DEF SharedIsMixture, TypeOK, Bits
    <3>3. CASE u = t /\ j # i[t]
      <4>1. binary'[t][j] = binary[t][j]
        BY <2>1, <3>3 DEF TypeOK, Bits
      <4>2. j < i[t]
        BY <2>1, <3>3 DEF TypeOK, BitIndex
      <4> QED BY <2>1, <3>3, <4>1, <4>2 DEF LocalIsMixture
    <3> QED BY <3>1, <3>2, <3>3
  <2>5. ResultsAreMixtures'
    BY <2>1 DEF ResultsAreMixtures, TypeOK
  <2> QED BY <2>2, <2>3, <2>4, <2>5
<1>4. ASSUME NEW t \in Thread, Return(t)
      PROVE  /\ SeesOverlaps' /\ SharedIsMixture'
             /\ LocalIsMixture' /\ ResultsAreMixtures'
  <2>1. /\ pc[t] = "return" /\ pc' = [pc EXCEPT ![t] = "done"]
        /\ checksum' = [checksum EXCEPT ![t] = Assemble(binary[t])]
        /\ byte' = byte /\ i' = i /\ argument' = argument
        /\ binary' = binary /\ seen' = seen
    BY <1>4 DEF Return
  <2>2. Assemble(binary[t]) \in RacyResults(seen[t])
    <3>1. \A j \in BitIndex : \E v \in seen[t] : binary[t][j] = Bit(v, j)
      BY <2>1 DEF LocalIsMixture
    <3> QED BY <3>1, MixtureIsRacy DEF TypeOK, Bits
  <2>7. \A j \in BitIndex : \E v \in seen[t] : Bit(Assemble(binary[t]), j) # Bit(v, j)
    BY <2>2 DEF RacyResults
  <2>3. seen[t] = {argument[t]} => Assemble(binary[t]) = generateChecksum(argument[t])
    BY <2>2, AloneIsExact DEF TypeOK
  <2>4. SeesOverlaps'
    BY <2>1 DEF SeesOverlaps, InCall, TypeOK
  <2>5. SharedIsMixture' /\ LocalIsMixture'
    BY <2>1 DEF SharedIsMixture, LocalIsMixture, TypeOK
  <2>6. ResultsAreMixtures'
    BY <2>1, <2>3, <2>7 DEF ResultsAreMixtures, TypeOK
  <2> QED BY <2>4, <2>5, <2>6
<1>5. CASE UNCHANGED vars
  BY <1>0, <1>5 DEF vars, SeesOverlaps, SharedIsMixture, LocalIsMixture,
              ResultsAreMixtures, InCall
<1> QED BY <1>0, <1>1, <1>2, <1>3, <1>4, <1>5 DEF Next, Step

(* The strengthened invariant, of every behaviour. *)
THEOREM MixturesOnly == Spec => []IInv
<1>1. Init => IInv
  BY DEF Init, IInv, TypeOK, Bits, BitIndex, Byte, SeesOverlaps, SharedIsMixture,
         LocalIsMixture, ResultsAreMixtures, InCall
<1> QED BY <1>1, MixturesKept, PTL DEF Spec

(* With overlapping calls the results are the mixtures ResultsAreMixtures
   allows, whatever the number of handler threads. *)
THEOREM ThreadResults == Spec => []ResultsAreMixtures
<1>1. IInv => ResultsAreMixtures
  BY DEF IInv
<1> QED BY <1>1, MixturesOnly, PTL

(* A step of a call is one of RacyChecksum: a loop step is a stutter, a return
   returns a mixture. *)
LEMMA StepsAreRacy == IInv /\ [Next]_vars => [Racy!Next]_(Racy!vars)
<1> DEFINE stage == [t \in Thread |-> IF InCall(t) THEN "call"
                                     ELSE IF pc[t] = "done" THEN "back" ELSE "idle"]
<1> SUFFICES ASSUME IInv, [Next]_vars PROVE [Racy!Next]_(Racy!vars)
  OBVIOUS
<1> USE DEF IInv
<1>0. Racy!Running = Running
  BY DEF Racy!Running, Running, InCall
<1>1. ASSUME NEW t \in Thread, NEW v \in Byte, Call(t, v) PROVE Racy!Call(t)
  <2>1. stage' = [stage EXCEPT ![t] = "call"]
    BY <1>1 DEF Call, InCall, TypeOK
  <2>2. stage[t] = "idle"
    BY <1>1 DEF Call, InCall
  <2>3. seen' = Racy!Joined(seen, argument, Racy!Running, t, v)
    BY <1>0, <1>1 DEF Call, Joined, Racy!Joined
  <2>4. v \in Racy!Byte
    BY DEF Byte, Racy!Byte
  <2> QED BY <1>1, <2>1, <2>2, <2>3, <2>4 DEF Call, Racy!Call
<1>2. ASSUME NEW t \in Thread, WriteBit(t) \/ ReadBit(t) PROVE UNCHANGED Racy!vars
  <2>1. stage' = stage
    BY <1>2 DEF WriteBit, ReadBit, Advance, InCall, TypeOK
  <2> QED BY <1>2, <2>1 DEF WriteBit, ReadBit, Racy!vars
<1>3. ASSUME NEW t \in Thread, Return(t) PROVE Racy!Return(t)
  <2>1. stage' = [stage EXCEPT ![t] = "back"]
    BY <1>3 DEF Return, InCall, TypeOK
  <2>2. stage[t] = "call"
    BY <1>3 DEF Return, InCall
  <2>3. Assemble(binary[t]) \in RacyResults(seen[t])
    <3>1. \A j \in BitIndex : \E v \in seen[t] : binary[t][j] = Bit(v, j)
      BY <1>3 DEF Return, LocalIsMixture
    <3> QED BY <3>1, MixtureIsRacy DEF TypeOK, Bits
  <2>4. Assemble(binary[t]) \in Racy!RacyResults(seen[t])
    BY <2>3 DEF RacyResults, Racy!RacyResults, Byte, Racy!Byte, BitIndex,
                Racy!BitIndex, Bit, Racy!Bit, Weight, Weights, Racy!Weight, Racy!Weights
  <2> QED BY <1>3, <2>1, <2>2, <2>4 DEF Return, Racy!Return
<1>4. CASE UNCHANGED vars
  BY <1>4 DEF vars, Racy!vars, InCall
<1> QED BY <1>1, <1>2, <1>3, <1>4 DEF Next, Step, Racy!Next

(* generateChecksum with its static array implements RacyChecksum
   (router.c:202-231). *)
THEOREM ThreadsImplementRacy == Spec => ImplementsRacyChecksum
<1>1. Init => Racy!Init
  BY DEF Init, Racy!Init, InCall
<1> QED BY <1>1, StepsAreRacy, MixturesOnly, PTL DEF Spec, ImplementsRacyChecksum, Racy!Spec
=============================================================================
