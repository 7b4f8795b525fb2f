-------------------------- MODULE CChecksumProofs --------------------------
(***************************************************************************)
(* What the checksum of the C programs computes, for every byte and every  *)
(* message, and what a racing call of generateChecksum can return.         *)
(***************************************************************************)
EXTENDS CChecksum, TLAPS

(* The eight bits of a byte, written out, are the byte. *)
LEMMA BitsOfByte ==
  ASSUME NEW v \in Byte
  PROVE  /\ \A i \in BitIndex : Bit(v, i) \in {0, 1}
         /\ v = 128 * Bit(v, 7) + 64 * Bit(v, 6) + 32 * Bit(v, 5)
                + 16 * Bit(v, 4) + 8 * Bit(v, 3) + 4 * Bit(v, 2)
                + 2 * Bit(v, 1) + Bit(v, 0)
  BY SMTT(60) DEF Byte, BitIndex, Bit, Weight, Weights

(* Assembling eight bits gives the byte whose bits are their inverses. *)
LEMMA BitsOfAssembled ==
  ASSUME NEW b \in [BitIndex -> {0, 1}]
  PROVE  /\ Assemble(b) \in Byte
         /\ \A i \in BitIndex : Bit(Assemble(b), i) = 1 - b[i]
<1>1. Assemble(b) \in Byte
  BY SMTT(60) DEF Assemble, invertBinary, BitIndex, Byte
<1>2. ASSUME NEW i \in BitIndex PROVE Bit(Assemble(b), i) = 1 - b[i]
  BY SMTT(60) DEF Assemble, invertBinary, BitIndex, Bit, Weight, Weights
<1> QED BY <1>1, <1>2

(* generateChecksum (router.c:202-231, clients) is the ones' complement of
   the sum: the loops over characters '0' and '1' compute 255 - sumValue. *)
THEOREM ChecksumIsComplement ==
  ASSUME NEW v \in Byte
  PROVE  generateChecksum(v) = 255 - v
  BY BitsOfByte, SMTT(60) DEF generateChecksum, Assemble, invertBinary, BitIndex

(* Completing a sum to 255 modulo 256 is being the complement of its low byte. *)
LEMMA Completes ==
  \A s \in 0..1020, e \in 0..255 : e = 255 - (s % 256) <=> (s + e) % 256 = 255
  BY SMTT(20)

(* The six chars of a message are bytes. *)
LEMMA MessageBytes ==
  ASSUME NEW m \in Message
  PROVE  /\ m[0] \in Byte /\ m[1] \in Byte /\ m[2] \in Byte
         /\ m[3] \in Byte /\ m[4] \in Byte /\ m[5] \in Byte
  BY DEF Message, Position

(* unsigned char sumValue stays a byte: the sum is cut to eight bits. *)
LEMMA SumIsByte ==
  ASSUME NEW m \in Message
  PROVE  sumValue(m) \in Byte
<1>1. PICK a \in Byte : a = m[0]
  BY MessageBytes
<1>2. PICK b \in Byte : b = m[1]
  BY MessageBytes
<1>3. PICK c \in Byte : c = m[3]
  BY MessageBytes
<1>4. PICK d \in Byte : d = m[4]
  BY MessageBytes
<1>5. sumValue(m) = (a + b + c + d) % 256
  BY <1>1, <1>2, <1>3, <1>4 DEF sumValue
<1>6. (a + b + c + d) % 256 \in Byte
  BY DEF Byte
<1> QED BY <1>5, <1>6

(* checkChecksum (router.c:179-195) accepts exactly the messages whose five
   bytes add up to 255 modulo 256. *)
THEOREM CheckIsSum255 ==
  ASSUME NEW m \in Message
  PROVE  checkChecksum(m) <=> (m[0] + m[1] + m[3] + m[4] + m[2]) % 256 = 255
<1>1. PICK a \in Byte : a = m[0]
  BY MessageBytes
<1>2. PICK b \in Byte : b = m[1]
  BY MessageBytes
<1>3. PICK c \in Byte : c = m[3]
  BY MessageBytes
<1>4. PICK d \in Byte : d = m[4]
  BY MessageBytes
<1>5. PICK e \in Byte : e = m[2]
  BY MessageBytes
<1>6. generateChecksum(sumValue(m)) = 255 - sumValue(m)
  BY SumIsByte, ChecksumIsComplement
<1>7. sumValue(m) = (a + b + c + d) % 256
  BY <1>1, <1>2, <1>3, <1>4 DEF sumValue
<1>8. checkChecksum(m) <=> e = 255 - ((a + b + c + d) % 256)
  BY <1>5, <1>6, <1>7 DEF checkChecksum
<1>9. e = 255 - ((a + b + c + d) % 256) <=> (a + b + c + d + e) % 256 = 255
  <2> DEFINE s == a + b + c + d
  <2>1. s \in 0..1020 /\ e \in 0..255
    BY DEF Byte
  <2>2. s + e = a + b + c + d + e
    BY DEF Byte
  <2> HIDE DEF s
  <2>3. e = 255 - (s % 256) <=> (s + e) % 256 = 255
    BY <2>1, Completes
  <2> QED BY <2>2, <2>3 DEF s
<1> QED BY <1>1, <1>2, <1>3, <1>4, <1>5, <1>8, <1>9

(* What a client generates (client2.c:228-244), the router's check accepts. *)
THEOREM GeneratedIsAccepted ==
  ASSUME NEW ID \in Byte, NEW destination \in Byte,
         NEW data1 \in Byte, NEW data2 \in Byte
  PROVE  /\ generateMessage(ID, destination, data1, data2) \in Message
         /\ checkChecksum(generateMessage(ID, destination, data1, data2))
<1> DEFINE sum == (ID + destination + data1 + data2) % 256
           m   == generateMessage(ID, destination, data1, data2)
<1>1. sum \in Byte
  BY DEF Byte
<1>2. generateChecksum(sum) \in Byte
  BY <1>1, ChecksumIsComplement DEF Byte
<1>3. /\ m[0] = ID /\ m[1] = destination /\ m[2] = generateChecksum(sum)
      /\ m[3] = data1 /\ m[4] = data2 /\ m[5] = 0
  BY DEF generateMessage, Cleared, Position
<1>4. m \in [Position -> Byte]
  BY <1>2 DEF generateMessage, Cleared, Position, Byte
<1>5. sumValue(m) = sum
  BY <1>3 DEF sumValue
<1> QED BY <1>3, <1>4, <1>5 DEF checkChecksum, Message

(* One changed byte is always noticed: no two messages that differ in one of
   the first five bytes only both pass checkChecksum. *)
THEOREM OneByteIsNoticed ==
  ASSUME NEW m \in Message, NEW n \in Message,
         NEW q \in 0..4,
         m[q] # n[q],
         \A p \in Position : p # q => m[p] = n[p],
         checkChecksum(m)
  PROVE  ~ checkChecksum(n)
<1>1. SUFFICES ASSUME checkChecksum(n) PROVE FALSE
  OBVIOUS
<1>2. /\ (m[0] + m[1] + m[3] + m[4] + m[2]) % 256 = 255
      /\ (n[0] + n[1] + n[3] + n[4] + n[2]) % 256 = 255
  BY <1>1, CheckIsSum255
<1>3. PICK c \in Byte : c = m[q]
  BY MessageBytes
<1>4. PICK d \in Byte : d = n[q]
  BY MessageBytes
<1>5. \E r \in 0..1020 : /\ m[0] + m[1] + m[3] + m[4] + m[2] = r + c
                         /\ n[0] + n[1] + n[3] + n[4] + n[2] = r + d
  <2>1. \A p \in 0..4 : p # q => n[p] = m[p]
    BY DEF Position
  <2>2. CASE q = 0
    <3>1. PICK x \in 0..255 : x = m[1]
      BY MessageBytes DEF Byte
    <3>2. PICK y \in 0..255 : y = m[3]
      BY MessageBytes DEF Byte
    <3>3. PICK z \in 0..255 : z = m[4]
      BY MessageBytes DEF Byte
    <3>4. PICK v \in 0..255 : v = m[2]
      BY MessageBytes DEF Byte
    <3>5. /\ c + x + y + z + v = (x + y + z + v) + c
          /\ d + x + y + z + v = (x + y + z + v) + d
          /\ x + y + z + v \in 0..1020
      BY DEF Byte
    <3>6. n[1] = x /\ n[3] = y /\ n[4] = z /\ n[2] = v
      BY <2>1, <2>2, <3>1, <3>2, <3>3, <3>4
    <3> QED BY <1>3, <1>4, <2>2, <3>1, <3>2, <3>3, <3>4, <3>5, <3>6
  <2>3. CASE q = 1
    <3>1. PICK w \in 0..255 : w = m[0]
      BY MessageBytes DEF Byte
    <3>2. PICK y \in 0..255 : y = m[3]
      BY MessageBytes DEF Byte
    <3>3. PICK z \in 0..255 : z = m[4]
      BY MessageBytes DEF Byte
    <3>4. PICK v \in 0..255 : v = m[2]
      BY MessageBytes DEF Byte
    <3>5. /\ w + c + y + z + v = (w + y + z + v) + c
          /\ w + d + y + z + v = (w + y + z + v) + d
          /\ w + y + z + v \in 0..1020
      BY DEF Byte
    <3>6. n[0] = w /\ n[3] = y /\ n[4] = z /\ n[2] = v
      BY <2>1, <2>3, <3>1, <3>2, <3>3, <3>4
    <3> QED BY <1>3, <1>4, <2>3, <3>1, <3>2, <3>3, <3>4, <3>5, <3>6
  <2>4. CASE q = 2
    <3>1. PICK w \in 0..255 : w = m[0]
      BY MessageBytes DEF Byte
    <3>2. PICK x \in 0..255 : x = m[1]
      BY MessageBytes DEF Byte
    <3>3. PICK y \in 0..255 : y = m[3]
      BY MessageBytes DEF Byte
    <3>4. PICK z \in 0..255 : z = m[4]
      BY MessageBytes DEF Byte
    <3>5. /\ w + x + y + z + c = (w + x + y + z) + c
          /\ w + x + y + z + d = (w + x + y + z) + d
          /\ w + x + y + z \in 0..1020
      BY DEF Byte
    <3>6. n[0] = w /\ n[1] = x /\ n[3] = y /\ n[4] = z
      BY <2>1, <2>4, <3>1, <3>2, <3>3, <3>4
    <3> QED BY <1>3, <1>4, <2>4, <3>1, <3>2, <3>3, <3>4, <3>5, <3>6
  <2>5. CASE q = 3
    <3>1. PICK w \in 0..255 : w = m[0]
      BY MessageBytes DEF Byte
    <3>2. PICK x \in 0..255 : x = m[1]
      BY MessageBytes DEF Byte
    <3>3. PICK z \in 0..255 : z = m[4]
      BY MessageBytes DEF Byte
    <3>4. PICK v \in 0..255 : v = m[2]
      BY MessageBytes DEF Byte
    <3>5. /\ w + x + c + z + v = (w + x + z + v) + c
          /\ w + x + d + z + v = (w + x + z + v) + d
          /\ w + x + z + v \in 0..1020
      BY DEF Byte
    <3>6. n[0] = w /\ n[1] = x /\ n[4] = z /\ n[2] = v
      BY <2>1, <2>5, <3>1, <3>2, <3>3, <3>4
    <3> QED BY <1>3, <1>4, <2>5, <3>1, <3>2, <3>3, <3>4, <3>5, <3>6
  <2>6. CASE q = 4
    <3>1. PICK w \in 0..255 : w = m[0]
      BY MessageBytes DEF Byte
    <3>2. PICK x \in 0..255 : x = m[1]
      BY MessageBytes DEF Byte
    <3>3. PICK y \in 0..255 : y = m[3]
      BY MessageBytes DEF Byte
    <3>4. PICK v \in 0..255 : v = m[2]
      BY MessageBytes DEF Byte
    <3>5. /\ w + x + y + c + v = (w + x + y + v) + c
          /\ w + x + y + d + v = (w + x + y + v) + d
          /\ w + x + y + v \in 0..1020
      BY DEF Byte
    <3>6. n[0] = w /\ n[1] = x /\ n[3] = y /\ n[2] = v
      BY <2>1, <2>6, <3>1, <3>2, <3>3, <3>4
    <3> QED BY <1>3, <1>4, <2>6, <3>1, <3>2, <3>3, <3>4, <3>5, <3>6
  <2>7. q = 0 \/ q = 1 \/ q = 2 \/ q = 3 \/ q = 4
    OBVIOUS
  <2> QED BY <2>2, <2>3, <2>4, <2>5, <2>6, <2>7
<1>6. PICK r \in 0..1020 : /\ m[0] + m[1] + m[3] + m[4] + m[2] = r + c
                          /\ n[0] + n[1] + n[3] + n[4] + n[2] = r + d
  BY <1>5
<1>7. (r + c) % 256 = 255 /\ (r + d) % 256 = 255
  BY <1>2, <1>6
<1>8. c = d
  <2>1. ASSUME NEW a \in Int, a % 256 = 255
        PROVE  \E k \in Int : a = 256 * k + 255
    <3>1. a = 256 * (a \div 256) + (a % 256)
      OBVIOUS
    <3> QED BY <2>1, <3>1
  <2>2. PICK k \in Int : r + c = 256 * k + 255
    BY <1>7, <2>1 DEF Byte
  <2>3. PICK l \in Int : r + d = 256 * l + 255
    BY <1>7, <2>1 DEF Byte
  <2>4. c - d = 256 * (k - l)
    BY <2>2, <2>3 DEF Byte
  <2>5. k - l = 0
    BY <2>4 DEF Byte
  <2> QED BY <2>4, <2>5 DEF Byte
<1> QED BY <1>3, <1>4, <1>8

(* A call that overlaps no other one returns the checksum. *)
THEOREM AloneIsExact ==
  ASSUME NEW v \in Byte
  PROVE  RacyResults({v}) = {generateChecksum(v)}
<1> DEFINE b == [i \in BitIndex |-> Bit(v, i)]
<1>1. b \in [BitIndex -> {0, 1}]
  BY BitsOfByte
<1>2. Assemble(b) \in Byte /\ \A i \in BitIndex : Bit(Assemble(b), i) = 1 - Bit(v, i)
  BY <1>1, BitsOfAssembled
<1>3. Assemble(b) \in RacyResults({v})
  BY <1>2, BitsOfByte DEF RacyResults
<1>4. ASSUME NEW c \in RacyResults({v}) PROVE c = Assemble(b)
  <2>1. c \in Byte /\ \A i \in BitIndex : Bit(c, i) # Bit(v, i)
    BY <1>4 DEF RacyResults
  <2>2. \A i \in BitIndex : Bit(c, i) = 1 - Bit(v, i)
    BY <2>1, BitsOfByte
  <2> QED
    BY <2>1, <2>2, BitsOfByte DEF Assemble, invertBinary, BitIndex
<1> QED BY <1>3, <1>4 DEF generateChecksum

(* Whatever mixture of the overlapping sums' bits a call reads back from the
   static array, its result is one RacyResults allows. *)
LEMMA MixtureIsRacy ==
  ASSUME NEW S \in SUBSET Byte,
         NEW b \in [BitIndex -> {0, 1}],
         \A i \in BitIndex : \E v \in S : b[i] = Bit(v, i)
  PROVE  Assemble(b) \in RacyResults(S)
<1>1. Assemble(b) \in Byte /\ \A i \in BitIndex : Bit(Assemble(b), i) = 1 - b[i]
  BY BitsOfAssembled
<1>2. ASSUME NEW i \in BitIndex
      PROVE  \E v \in S : Bit(Assemble(b), i) # Bit(v, i)
  <2>1. PICK v \in S : b[i] = Bit(v, i)
    OBVIOUS
  <2> QED BY <1>1, <2>1
<1> QED BY <1>1, <1>2 DEF RacyResults
=============================================================================
