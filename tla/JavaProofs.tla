----------------------------- MODULE JavaProofs -----------------------------
(***************************************************************************)
(* Theorems about the Java programs.  First their checksum, by itself and  *)
(* beside that of the C programs (Checksums, whose variables sent and got  *)
(* are no part of JavaSystem); then JavaSystem: it implements RelayService,*)
(* for any number of clients, runs and descriptors.                        *)
(***************************************************************************)
EXTENDS JavaSystem, Checksums, FiniteSetTheorems, SequenceTheorems, TLAPS

CProofs == INSTANCE CChecksumProofs

(* The number of digits that Integer.toBinaryString gives is the right one. *)
LEMMA DigitsOfByte ==
  ASSUME NEW v \in 0..255
  PROVE  \E w \in 1..8 :
           /\ v < Weight(w)
           /\ w > 1 => v >= Weight(w - 1)
           /\ toBinaryString(v) = [q \in 1..w |-> (v \div Weight(w - q)) % 2]
<1> DEFINE Right(w) == v < Weight(w) /\ (w > 1 => v >= Weight(w - 1))
           digits   == CHOOSE w \in 1..10 : Right(w)
<1>1. \E w \in 1..8 : Right(w)
  <2>1. \/ v \in 0..1 \/ v \in 2..3 \/ v \in 4..7 \/ v \in 8..15 \/ v \in 16..31
        \/ v \in 32..63 \/ v \in 64..127 \/ v \in 128..255
    OBVIOUS
  <2>2. CASE v \in 0..1   BY <2>2 DEF Weight, Weights
  <2>3. CASE v \in 2..3   BY <2>3 DEF Weight, Weights
  <2>4. CASE v \in 4..7   BY <2>4 DEF Weight, Weights
  <2>5. CASE v \in 8..15  BY <2>5 DEF Weight, Weights
  <2>6. CASE v \in 16..31 BY <2>6 DEF Weight, Weights
  <2>7. CASE v \in 32..63 BY <2>7 DEF Weight, Weights
  <2>8. CASE v \in 64..127 BY <2>8 DEF Weight, Weights
  <2>9. CASE v \in 128..255 BY <2>9 DEF Weight, Weights
  <2> QED BY <2>1, <2>2, <2>3, <2>4, <2>5, <2>6, <2>7, <2>8, <2>9
<1>2. \A w \in 9..10 : ~ Right(w)
  BY DEF Weight, Weights
<1>3. digits \in 1..10 /\ Right(digits)
  <2>1. \E w \in 1..10 : Right(w)
    BY <1>1
  <2> QED BY <2>1
<1>4. digits \in 1..8
  BY <1>2, <1>3
<1>5. toBinaryString(v) = [q \in 1..digits |-> (v \div Weight(digits - q)) % 2]
  BY DEF toBinaryString
<1> QED BY <1>3, <1>4, <1>5

(* The eight weights of a byte, and what dividing by them gives. *)
LEMMA DivByWeight ==
  ASSUME NEW v \in 0..255, NEW i \in 0..7
  PROVE  /\ (v \div Weight(i)) % 2 \in Int
         /\ v < Weight(i) => (v \div Weight(i)) % 2 = 0
<1>1. Weight(i) \in {1, 2, 4, 8, 16, 32, 64, 128}
  BY DEF Weight, Weights
<1>2. \A d \in {1, 2, 4, 8, 16, 32, 64, 128} :
        (v \div d) % 2 \in Int /\ (v < d => (v \div d) % 2 = 0)
  OBVIOUS
<1> QED BY <1>1, <1>2

(* A byte in eight digits, leading zeros included. *)
LEMMA EightDigits ==
  ASSUME NEW v \in 0..255
  PROVE  LET s == addLeadingZeros(toBinaryString(v))
         IN  /\ Len(s) = 8 /\ DOMAIN s = 1..8
             /\ \A q \in 1..8 : s[q] = (v \div Weight(8 - q)) % 2
<1>1. PICK w \in 1..8 :
        /\ v < Weight(w)
        /\ w > 1 => v >= Weight(w - 1)
        /\ toBinaryString(v) = [q \in 1..w |-> (v \div Weight(w - q)) % 2]
  BY DigitsOfByte
<1> DEFINE digits == toBinaryString(v)
           zeros  == [q \in 1..(8 - Len(digits)) |-> 0]
<1>2. digits \in Seq(Int) /\ Len(digits) = w
  <2>1. \A q \in 1..w : (v \div Weight(w - q)) % 2 \in Int
    <3> TAKE q \in 1..w
    <3>1. w - q \in 0..7
      OBVIOUS
    <3> QED BY <3>1, DivByWeight
  <2> QED BY <1>1, <2>1
<1>3. zeros \in Seq(Int) /\ Len(zeros) = 8 - w /\ \A q \in 1..(8 - w) : zeros[q] = 0
  BY <1>2
<1> HIDE DEF digits, zeros
<1>4. /\ Len(zeros \o digits) = 8 /\ DOMAIN (zeros \o digits) = 1..8
      /\ \A q \in 1..8 : (zeros \o digits)[q] = IF q <= 8 - w THEN 0 ELSE digits[q - (8 - w)]
  <2>1. /\ zeros \o digits \in Seq(Int)
        /\ Len(zeros \o digits) = Len(zeros) + Len(digits)
        /\ \A q \in 1..(Len(zeros) + Len(digits)) :
             (zeros \o digits)[q] = IF q <= Len(zeros) THEN zeros[q] ELSE digits[q - Len(zeros)]
    BY <1>2, <1>3, ConcatProperties
  <2>2. Len(zeros) = 8 - w /\ Len(digits) = w /\ Len(zeros) + Len(digits) = 8
    BY <1>2, <1>3
  <2>3. ASSUME NEW q \in 1..8
        PROVE  (zeros \o digits)[q] = IF q <= 8 - w THEN 0 ELSE digits[q - (8 - w)]
    <3>1. (zeros \o digits)[q] = IF q <= 8 - w THEN zeros[q] ELSE digits[q - (8 - w)]
      BY <2>1, <2>2
    <3>2. q <= 8 - w => zeros[q] = 0
      BY <1>3
    <3> QED BY <3>1, <3>2
  <2>4. DOMAIN (zeros \o digits) = 1..8
    BY <2>1, <2>2, LenProperties
  <2> QED BY <2>1, <2>2, <2>3, <2>4
<1>5. ASSUME NEW q \in 1..8, q <= 8 - w PROVE (v \div Weight(8 - q)) % 2 = 0
  <2>1. Weight(w) <= Weight(8 - q) /\ Weight(8 - q) \in Nat /\ Weight(w) \in Nat
    BY <1>5 DEF Weight, Weights
  <2>2. v < Weight(8 - q) /\ 8 - q \in 0..7
    BY <1>1, <2>1
  <2> QED BY <2>2, DivByWeight
<1>6. ASSUME NEW q \in 1..8, ~ (q <= 8 - w)
      PROVE  digits[q - (8 - w)] = (v \div Weight(8 - q)) % 2
  <2>1. q - (8 - w) \in 1..w /\ w - (q - (8 - w)) = 8 - q
    BY <1>6
  <2> QED BY <1>1, <2>1 DEF digits
<1> QED BY <1>4, <1>5, <1>6 DEF addLeadingZeros, digits, zeros

(* The digits of a byte are 0 or 1, and those of its complement are inverted. *)
LEMMA ComplementDigits ==
  ASSUME NEW v \in 0..255
  PROVE  /\ \A i \in 0..7 :
              /\ (v \div Weight(i)) % 2 \in {0, 1}
              /\ ((255 - v) \div Weight(i)) % 2 = 1 - ((v \div Weight(i)) % 2)
         /\ v = 128 * ((v \div 128) % 2) + 64 * ((v \div 64) % 2) + 32 * ((v \div 32) % 2)
                + 16 * ((v \div 16) % 2) + 8 * ((v \div 8) % 2) + 4 * ((v \div 4) % 2)
                + 2 * ((v \div 2) % 2) + ((v \div 1) % 2)
<1>1. \A i \in 0..7 : Weight(i) \in {1, 2, 4, 8, 16, 32, 64, 128}
  BY DEF Weight, Weights
<1>2. \A d \in {1, 2, 4, 8, 16, 32, 64, 128} :
        (v \div d) % 2 \in {0, 1} /\ ((255 - v) \div d) % 2 = 1 - ((v \div d) % 2)
  BY SMTT(60)
<1>3. v = 128 * ((v \div 128) % 2) + 64 * ((v \div 64) % 2) + 32 * ((v \div 32) % 2)
          + 16 * ((v \div 16) % 2) + 8 * ((v \div 8) % 2) + 4 * ((v \div 4) % 2)
          + 2 * ((v \div 2) % 2) + ((v \div 1) % 2)
  BY SMTT(60)
<1> QED BY <1>1, <1>2, <1>3

(* Client.java:196-205: of a sum that eight digits can hold the checksum
   character is the complement. *)
LEMMA ChecksumIsComplement ==
  ASSUME NEW v \in 0..255
  PROVE  checkSumCharacter(v) = 255 - v
<1> DEFINE s == addLeadingZeros(charSum(v))
           t == invertBinary(s)
<1>1. DOMAIN s = 1..8 /\ \A q \in 1..8 : s[q] = (v \div Weight(8 - q)) % 2
  <2>1. charSum(v) = toBinaryString(v)
    BY DEF charSum
  <2> QED BY <2>1, EightDigits
<1>2. \A q \in 1..8 : t[q] = 1 - ((v \div Weight(8 - q)) % 2)
  BY <1>1 DEF invertBinary
<1> HIDE DEF s, t
<1>3. /\ t[1] = 1 - ((v \div 128) % 2) /\ t[2] = 1 - ((v \div 64) % 2)
      /\ t[3] = 1 - ((v \div 32) % 2) /\ t[4] = 1 - ((v \div 16) % 2)
      /\ t[5] = 1 - ((v \div 8) % 2) /\ t[6] = 1 - ((v \div 4) % 2)
      /\ t[7] = 1 - ((v \div 2) % 2) /\ t[8] = 1 - ((v \div 1) % 2)
  BY <1>2 DEF Weight, Weights
<1>4. parseInt(t) = 255 - v
  <2>1. v = 128 * ((v \div 128) % 2) + 64 * ((v \div 64) % 2) + 32 * ((v \div 32) % 2)
            + 16 * ((v \div 16) % 2) + 8 * ((v \div 8) % 2) + 4 * ((v \div 4) % 2)
            + 2 * ((v \div 2) % 2) + ((v \div 1) % 2)
    BY ComplementDigits
  <2> QED BY <1>3, <2>1 DEF parseInt
<1> QED BY <1>4 DEF checkSumCharacter, s, t

(* A sum that needs eight digits has them all, without leading zeros. *)
LEMMA DigitsOfSum ==
  ASSUME NEW v \in 128..255
  PROVE  /\ Len(charSum(v)) = 8
         /\ \A q \in 1..8 : charSum(v)[q] = (v \div Weight(8 - q)) % 2
<1>0. v \in 0..255
  OBVIOUS
<1>1. PICK w \in 1..8 :
        v < Weight(w) /\ toBinaryString(v) = [q \in 1..w |-> (v \div Weight(w - q)) % 2]
  BY <1>0, DigitsOfByte
<1>2. w = 8
  <2>1. \A i \in 1..7 : Weight(i) \in Nat /\ Weight(i) <= 128
    BY DEF Weight, Weights
  <2>2. v < Weight(w) /\ v >= 128
    BY <1>0, <1>1
  <2>3. w \notin 1..7
    BY <1>0, <2>1, <2>2
  <2> QED BY <2>3
<1>3. charSum(v) = [q \in 1..8 |-> (v \div Weight(8 - q)) % 2]
  BY <1>1, <1>2 DEF charSum
<1>4. \A q \in 1..8 : (v \div Weight(8 - q)) % 2 \in Int
  BY <1>0, DivByWeight
<1> QED BY <1>3, <1>4

(* A sum above a byte needs nine digits. *)
LEMMA NineDigits ==
  ASSUME NEW u \in 256..511
  PROVE  toBinaryString(u) \in Seq(Int) /\ Len(toBinaryString(u)) = 9
<1> DEFINE Right(w) == u < Weight(w) /\ (w > 1 => u >= Weight(w - 1))
           digits   == CHOOSE w \in 1..10 : Right(w)
<1>1. Right(9)
  BY DEF Weight, Weights
<1>2. \A w \in 1..10 : Right(w) => w = 9
  BY DEF Weight, Weights
<1>3. digits = 9
  <2>1. digits \in 1..10 /\ Right(digits)
    <3>1. \E w \in 1..10 : Right(w)
      BY <1>1
    <3> QED BY <3>1
  <2> QED BY <1>2, <2>1
<1>4. toBinaryString(u) = [q \in 1..digits |-> (u \div Weight(digits - q)) % 2]
  BY DEF toBinaryString
<1> HIDE DEF digits
<1>5. toBinaryString(u) = [q \in 1..9 |-> (u \div Weight(9 - q)) % 2]
  BY <1>3, <1>4
<1>6. \A q \in 1..9 : (u \div Weight(9 - q)) % 2 \in Int
  <2>1. \A q \in 1..9 : Weight(9 - q) \in {1, 2, 4, 8, 16, 32, 64, 128, 256}
    BY DEF Weight, Weights
  <2>2. \A d \in {1, 2, 4, 8, 16, 32, 64, 128, 256} : (u \div d) % 2 \in Int
    OBVIOUS
  <2> QED BY <2>1, <2>2
<1> QED BY <1>5, <1>6

(* "Carries the 1": a sum that needs nine digits is cut to eight. *)
LEMMA CarriedSum ==
  ASSUME NEW v \in 256..510
  PROVE  Len(charSum(v)) = 8
<1> DEFINE digits == toBinaryString(v + 1)
           rest   == SubSeq(digits, 2, 8)
           zeros  == [q \in 1..(8 - Len(rest)) |-> 0]
<1>1. digits \in Seq(Int) /\ Len(digits) = 9
  <2>1. v + 1 \in 256..511
    OBVIOUS
  <2> QED BY <2>1, NineDigits
<1> HIDE DEF digits
<1>2. rest \in Seq(Int) /\ Len(rest) = 7
  <2>1. ASSUME NEW q \in 2..8 PROVE digits[q] \in Int
    <3>1. q \in 1..Len(digits)
      BY <1>1
    <3> QED BY <1>1, <3>1, ElementOfSeq
  <2> QED BY <2>1, SubSeqProperties
<1>3. zeros \in Seq(Int) /\ Len(zeros) = 1
  BY <1>2
<1> HIDE DEF rest, zeros
<1>4. zeros \o rest \in Seq(Int) /\ Len(zeros \o rest) = Len(zeros) + Len(rest)
  BY <1>2, <1>3, ConcatProperties
<1>5. Len(zeros \o rest) = 8
  BY <1>2, <1>3, <1>4
<1>6. charSum(v) = zeros \o rest
  BY DEF charSum, addLeadingZeros, digits, rest, zeros
<1> QED BY <1>5, <1>6

(* Client.java:154-216: a line that generateMessage makes of four characters
   whose sum needs eight digits is a line of five characters, and passes
   checkChecksum. *)
THEOREM GeneratedPasses ==
  ASSUME NEW ID \in Char, NEW target \in Char,
         NEW data1 \in Char, NEW data2 \in Char,
         ID + target + data1 + data2 \in 128..255
  PROVE  /\ generateMessage(ID, target, data1, data2) \in Line
         /\ checkChecksum(generateMessage(ID, target, data1, data2)) = "true"
<1> DEFINE v == ID + target + data1 + data2
           m == generateMessage(ID, target, data1, data2)
           s == charSum(v)
           c == addLeadingZeros(toBinaryString(255 - v))
<1>1. checkSumCharacter(v) = 255 - v /\ 255 - v \in Char
  <2>1. v \in 0..255 /\ v >= 128
    OBVIOUS
  <2> HIDE DEF v
  <2> QED BY <2>1, ChecksumIsComplement DEF Char
<1>2. m = [q \in 0..4 |-> <<ID, target, 255 - v, data1, data2>>[q + 1]]
  BY <1>1 DEF generateMessage
<1>3. m[0] = ID /\ m[1] = target /\ m[2] = 255 - v /\ m[3] = data1 /\ m[4] = data2
  BY <1>2
<1>4. m \in Line
  <2>1. \A q \in 0..4 : m[q] \in Char
    BY <1>1, <1>3
  <2> QED BY <1>2, <2>1 DEF Line
<1>5. lineSum(m) = v
  BY <1>3 DEF lineSum
<1>6. v \in 128..255 /\ 255 - v \in 0..255
  OBVIOUS
<1> HIDE DEF v
<1>7. \A q \in 1..8 : Passes(s[q], c[q])
  <2> TAKE q \in 1..8
  <2>1. s[q] = (v \div Weight(8 - q)) % 2
    BY <1>6, DigitsOfSum
  <2>2. c[q] = ((255 - v) \div Weight(8 - q)) % 2
    BY <1>6, EightDigits
  <2>3. 8 - q \in 0..7 /\ v \in 0..255
    BY <1>6
  <2>4. /\ (v \div Weight(8 - q)) % 2 \in {0, 1}
        /\ ((255 - v) \div Weight(8 - q)) % 2 = 1 - ((v \div Weight(8 - q)) % 2)
    <3>1. \A i \in 0..7 :
            /\ (v \div Weight(i)) % 2 \in {0, 1}
            /\ ((255 - v) \div Weight(i)) % 2 = 1 - ((v \div Weight(i)) % 2)
      BY <2>3, ComplementDigits
    <3> QED BY <2>3, <3>1
  <2>5. s[q] \in {0, 1} /\ c[q] = 1 - s[q]
    BY <2>1, <2>2, <2>4
  <2> QED BY <2>5 DEF Passes
<1>8. Len(s) = 8
  BY <1>6, DigitsOfSum
<1> QED BY <1>3, <1>4, <1>5, <1>7, <1>8 DEF checkChecksum

-----------------------------------------------------------------------------
(* The digits of the Java programs are the bits of the C programs. *)
LEMMA DigitIsBit ==
  ASSUME NEW v \in 0..255, NEW i \in 0..7
  PROVE  (v \div Weight(i)) % 2 = C!Bit(v, i)
<1>1. C!Weight(i) = Weight(i)
  BY DEF C!Weight, C!Weights, Weight, Weights
<1> QED BY <1>1, Zenon DEF C!Bit

LEMMA BitsOfComplement ==
  ASSUME NEW v \in 0..255
  PROVE  \A i \in 0..7 : C!Bit(v, i) \in {0, 1} /\ C!Bit(255 - v, i) = 1 - C!Bit(v, i)
<1>1. \A i \in 0..7 :
        /\ (v \div Weight(i)) % 2 \in {0, 1}
        /\ ((255 - v) \div Weight(i)) % 2 = 1 - ((v \div Weight(i)) % 2)
  BY ComplementDigits, Zenon
<1>2. 255 - v \in 0..255
  OBVIOUS
<1>3. ASSUME NEW i \in 0..7
      PROVE  /\ (v \div Weight(i)) % 2 = C!Bit(v, i)
             /\ ((255 - v) \div Weight(i)) % 2 = C!Bit(255 - v, i)
  BY <1>2, DigitIsBit, Zenon
<1>4. ASSUME NEW i \in 0..7
      PROVE  C!Bit(v, i) \in {0, 1} /\ C!Bit(255 - v, i) = 1 - C!Bit(v, i)
  <2>1. /\ (v \div Weight(i)) % 2 \in {0, 1}
        /\ ((255 - v) \div Weight(i)) % 2 = 1 - ((v \div Weight(i)) % 2)
    BY <1>1, Zenon
  <2> QED BY <1>3, <2>1, Zenon
<1> QED BY <1>4, Zenon

LEMMA DigitsAreBits ==
  /\ \A v \in 0..255, q \in 1..8 : addLeadingZeros(toBinaryString(v))[q] = C!Bit(v, 8 - q)
  /\ \A v \in 128..255, q \in 1..8 : charSum(v)[q] = C!Bit(v, 8 - q)
<1>1. \A q \in 1..8 : 8 - q \in 0..7
  OBVIOUS
<1>2. \A v \in 128..255 : v \in 0..255
  OBVIOUS
<1>3. ASSUME NEW v \in 0..255, NEW q \in 1..8
      PROVE  addLeadingZeros(toBinaryString(v))[q] = C!Bit(v, 8 - q)
  <2>1. addLeadingZeros(toBinaryString(v))[q] = (v \div Weight(8 - q)) % 2
    BY EightDigits, Zenon
  <2> QED BY <1>1, <2>1, DigitIsBit, Zenon
<1>4. ASSUME NEW v \in 128..255, NEW q \in 1..8
      PROVE  charSum(v)[q] = C!Bit(v, 8 - q)
  <2>1. charSum(v)[q] = (v \div Weight(8 - q)) % 2
    BY DigitsOfSum, Zenon
  <2> QED BY <1>1, <1>2, <2>1, DigitIsBit, Zenon
<1> QED BY <1>3, <1>4

(* OCMS_AcceptConnectionThread.java:172-186: a line whose sum needs eight
   digits passes exactly when its checksum has a one wherever the right one,
   255 less the sum, has one. *)
THEOREM AcceptedIffSuperset ==
  ASSUME NEW m \in Line, lineSum(m) \in 128..255
  PROVE  checkChecksum(m) = "true"
           <=> \A w \in 0..7 : C!Bit(255 - lineSum(m), w) = 1 => C!Bit(m[2], w) = 1
<1> DEFINE v == lineSum(m)
           s == charSum(v)
           c == addLeadingZeros(toBinaryString(m[2]))
<1>1. v \in 128..255 /\ v \in 0..255 /\ m[2] \in 0..255
  BY DEF Line, Char
<1> HIDE DEF v
<1>2. Len(s) = 8
  BY <1>1, DigitsOfSum
<1>3. ASSUME NEW q \in 1..8
      PROVE  Passes(s[q], c[q]) <=> (C!Bit(255 - v, 8 - q) = 1 => C!Bit(m[2], 8 - q) = 1)
  <2>1. 8 - q \in 0..7
    OBVIOUS
  <2>2. s[q] = C!Bit(v, 8 - q) /\ c[q] = C!Bit(m[2], 8 - q)
    BY <1>1, DigitsAreBits
  <2>3. C!Bit(255 - v, 8 - q) = 1 - C!Bit(v, 8 - q) /\ C!Bit(v, 8 - q) \in {0, 1}
    BY <1>1, <2>1, BitsOfComplement
  <2> QED BY <2>2, <2>3 DEF Passes
<1> HIDE DEF s, c
<1>4. checkChecksum(m) = "true" <=> \A q \in 1..8 : Passes(s[q], c[q])
  BY <1>2 DEF checkChecksum, s, c, v
<1>5. (\A q \in 1..8 : Passes(s[q], c[q]))
        <=> \A w \in 0..7 : C!Bit(255 - v, w) = 1 => C!Bit(m[2], w) = 1
  <2>1. ASSUME NEW w \in 0..7 PROVE 8 - w \in 1..8 /\ 8 - (8 - w) = w
    OBVIOUS
  <2>2. ASSUME NEW q \in 1..8 PROVE 8 - q \in 0..7
    OBVIOUS
  <2> QED BY <1>3, <2>1, <2>2
<1> QED BY <1>4, <1>5 DEF v

LEMMA LineSum ==
  ASSUME NEW m \in Line
  PROVE  lineSum(m) \in 0..508
<1>1. PICK a \in 0..127 : a = m[0]
  BY DEF Line, Char
<1>2. PICK b \in 0..127 : b = m[1]
  BY DEF Line, Char
<1>3. PICK c \in 0..127 : c = m[3]
  BY DEF Line, Char
<1>4. PICK d \in 0..127 : d = m[4]
  BY DEF Line, Char
<1>5. lineSum(m) = a + b + c + d
  BY <1>1, <1>2, <1>3, <1>4 DEF lineSum
<1> QED BY <1>5

(* OCMS_AcceptConnectionThread.java:172-186: the loop comes to an end on every
   line of characters whose sum does not fall below 128. *)
THEOREM CheckAlwaysReturns ==
  ASSUME NEW m \in Line, lineSum(m) >= 128
  PROVE  checkChecksum(m) \in {"true", "false"}
<1>1. lineSum(m) \in 128..508
  BY LineSum
<1>2. Len(charSum(lineSum(m))) = 8
  <2> DEFINE v == lineSum(m)
  <2>1. v \in 128..255 \/ v \in 256..510
    BY <1>1
  <2> HIDE DEF v
  <2> QED BY <2>1, DigitsOfSum, CarriedSum DEF v
<1> QED BY <1>2 DEF checkChecksum

(* CProofs is about the same operators as C. *)
LEMMA SameOperators ==
  /\ \A v : C!generateChecksum(v) = CProofs!generateChecksum(v)
  /\ \A m : C!checkChecksum(m) <=> CProofs!checkChecksum(m)
<1>1. \A v : C!generateChecksum(v) = CProofs!generateChecksum(v)
  BY Zenon
     DEF C!generateChecksum, C!Assemble, C!invertBinary, C!Bit, C!Weight, C!Weights,
         C!BitIndex, CProofs!generateChecksum, CProofs!Assemble, CProofs!invertBinary,
         CProofs!Bit, CProofs!Weight, CProofs!Weights, CProofs!BitIndex
<1>2. \A m : C!sumValue(m) = CProofs!sumValue(m)
  BY Zenon DEF C!sumValue, CProofs!sumValue
<1> QED BY <1>1, <1>2, Zenon DEF C!checkChecksum, CProofs!checkChecksum

(* What a C client makes of four characters whose sum is a byte. *)
MadeOf(m, ID, target, data1, data2) ==
  /\ m \in C!Message
  /\ m[0] = ID /\ m[1] = target /\ m[3] = data1 /\ m[4] = data2
  /\ m[2] = 255 - (ID + target + data1 + data2)

LEMMA MessageOfC ==
  ASSUME NEW ID \in 0..127, NEW target \in 0..127,
         NEW data1 \in 0..127, NEW data2 \in 0..127,
         ID + target + data1 + data2 \in 0..255
  PROVE  MadeOf(C!generateMessage(ID, target, data1, data2), ID, target, data1, data2)
<1> DEFINE v == ID + target + data1 + data2
           m == C!generateMessage(ID, target, data1, data2)
<1>1. v % 256 = v /\ v \in 0..255
  OBVIOUS
<1>2. C!generateChecksum(v) = 255 - v
  <2> HIDE DEF v
  <2>1. v \in CProofs!Byte
    BY <1>1 DEF CProofs!Byte
  <2>2. CProofs!generateChecksum(v) = 255 - v
    BY <2>1, CProofs!ChecksumIsComplement
  <2> QED BY <2>2, SameOperators
<1>3. m = [[p \in 0..5 |-> 0] EXCEPT ![4] = data2, ![0] = ID, ![1] = target,
                                    ![2] = 255 - v, ![3] = data1]
  BY <1>1, <1>2 DEF C!generateMessage, C!Cleared, C!Position
<1>4. 255 - v \in 0..255
  BY <1>1
<1> HIDE DEF m, v
<1> QED BY <1>3, <1>4 DEF MadeOf, C!Message, C!Position, C!Byte, m, v

(* client2.c:228-244 and Client.java:193-216: of four characters whose sum is
   a byte, the C and the Java programs make the same message. *)
THEOREM FamiliesAgree ==
  ASSUME NEW ID \in Char, NEW target \in Char,
         NEW data1 \in Char, NEW data2 \in Char,
         ID + target + data1 + data2 \in 0..255
  PROVE  line(C!generateMessage(ID, target, data1, data2))
           = generateMessage(ID, target, data1, data2)
<1> DEFINE v == ID + target + data1 + data2
           m == C!generateMessage(ID, target, data1, data2)
<1>1. /\ m[0] = ID /\ m[1] = target /\ m[2] = 255 - v /\ m[3] = data1 /\ m[4] = data2
  <2>1. ID \in 0..127 /\ target \in 0..127 /\ data1 \in 0..127 /\ data2 \in 0..127
    BY DEF Char
  <2>2. MadeOf(m, ID, target, data1, data2)
    BY <2>1, MessageOfC, Zenon
  <2> QED BY <2>2 DEF MadeOf
<1>2. checkSumCharacter(v) = 255 - v
  <2>1. v \in 0..255
    OBVIOUS
  <2> HIDE DEF v
  <2> QED BY <2>1, ChecksumIsComplement
<1>3. generateMessage(ID, target, data1, data2)
        = [q \in 0..4 |-> <<ID, target, 255 - v, data1, data2>>[q + 1]]
  BY <1>2 DEF generateMessage
<1> HIDE DEF m, v
<1>4. ASSUME NEW q \in 0..4
      PROVE  m[q] = <<ID, target, 255 - v, data1, data2>>[q + 1]
  <2>1. q = 0 \/ q = 1 \/ q = 2 \/ q = 3 \/ q = 4
    OBVIOUS
  <2> QED BY <1>1, <2>1
<1> QED BY <1>3, <1>4 DEF line, m

(* The states of Checksums: a message a client makes, and what may have become
   of it when it is checked. *)
Genuine ==
  \E id \in Sources, dest \in Targets, c \in Data : sent = C!generateMessage(id, dest, c, c)

FirstBytes(n) == [p \in C!Position |-> IF p < n THEN sent[p] ELSE 0]

Whole     == got = sent
OneChange == \E q \in 0..4, b \in C!Byte : got = [sent EXCEPT ![q] = b]
CutShort  == \E n \in 0..4 : got = FirstBytes(n)

ChecksumInv == Genuine /\ (Whole \/ OneChange \/ CutShort)

LEMMA OneThingHappens == ChecksumSpec => []ChecksumInv
<1> USE DEF Genuine, Whole, OneChange, CutShort, FirstBytes
<1>1. ChecksumInit => ChecksumInv
  BY DEF ChecksumInit, ChecksumInv
<1>2. ChecksumInv /\ [Change \/ Cut]_checksumVars => ChecksumInv'
  BY DEF ChecksumInv, Change, Cut, checksumVars
<1> QED BY <1>1, <1>2, PTL DEF ChecksumSpec

(* A message the clients make: its characters, and that it is accepted. *)
CharactersAre(i, j, c) ==
  /\ sent = C!generateMessage(i, j, c, c)
  /\ sent[0] = i /\ sent[1] = j /\ sent[3] = c /\ sent[4] = c
  /\ sent[2] = 255 - (i + j + c + c)

LEMMA GenuineIs ==
  ASSUME Genuine
  PROVE  /\ sent \in C!Message
         /\ C!checkChecksum(sent)
         /\ \E i, j, c \in 49..58 : CharactersAre(i, j, c)
<1>1. PICK i \in 49..58, j \in 49..58, c \in 49..58 : sent = C!generateMessage(i, j, c, c)
  BY CharactersAssumption DEF Genuine
<1>2. /\ i \in 0..127 /\ j \in 0..127 /\ c \in 0..127
      /\ i + j + c + c \in 0..255
  OBVIOUS
<1>3. /\ sent \in C!Message
      /\ sent[0] = i /\ sent[1] = j /\ sent[3] = c /\ sent[4] = c
      /\ sent[2] = 255 - (i + j + c + c)
  <2> DEFINE m == C!generateMessage(i, j, c, c)
  <2>1. MadeOf(m, i, j, c, c)
    BY <1>2, MessageOfC, Zenon
  <2> HIDE DEF m
  <2>2. sent = m
    BY <1>1 DEF m
  <2> QED BY <2>1, <2>2 DEF MadeOf
<1>4. C!checkChecksum(sent)
  <2> DEFINE v == i + j + c + c
  <2>1. v \in CProofs!Byte /\ v % 256 = v
    BY <1>2 DEF CProofs!Byte
  <2>2. C!sumValue(sent) = v
    BY <1>3, <2>1 DEF C!sumValue
  <2> HIDE DEF v
  <2>3. C!generateChecksum(v) = 255 - v
    BY <2>1, CProofs!ChecksumIsComplement, SameOperators
  <2> QED BY <1>3, <2>2, <2>3 DEF C!checkChecksum, v
<1> QED BY <1>1, <1>3, <1>4 DEF CharactersAre

(* So what is checked is a message of bytes. *)
LEMMA GotIsMessage ==
  ASSUME ChecksumInv
  PROVE  got \in C!Message
<1>1. sent \in C!Message
  BY GenuineIs DEF ChecksumInv
<1>2. CASE Whole
  BY <1>1, <1>2 DEF Whole
<1>3. CASE OneChange
  BY <1>1, <1>3 DEF OneChange, C!Message, C!Position
<1>4. CASE CutShort
  BY <1>1, <1>4 DEF CutShort, FirstBytes, C!Message, C!Position, C!Byte
<1> QED BY <1>2, <1>3, <1>4 DEF ChecksumInv

LEMMA SameMessageSet == C!Message = CProofs!Message
  BY DEF C!Message, C!Position, C!Byte, CProofs!Message, CProofs!Position, CProofs!Byte

(* client4.c:104-118: the first bytes of a genuine message add up to less than
   255, whichever of them came. *)
LEMMA CutIsNoticed ==
  ASSUME ChecksumInv, CutShort
  PROVE  ~ C!checkChecksum(got)
<1>0. Genuine
  BY DEF ChecksumInv
<1>1. PICK i \in 49..58, j \in 49..58, c \in 49..58 : CharactersAre(i, j, c)
  BY <1>0, GenuineIs, Zenon
<1>2. PICK n \in 0..4 : got = FirstBytes(n)
  BY DEF CutShort
<1>3. /\ got[0] = (IF n > 0 THEN i ELSE 0)
      /\ got[1] = (IF n > 1 THEN j ELSE 0)
      /\ got[2] = (IF n > 2 THEN 255 - (i + j + c + c) ELSE 0)
      /\ got[3] = (IF n > 3 THEN c ELSE 0)
      /\ got[4] = 0
  BY <1>1, <1>2 DEF CharactersAre, FirstBytes, C!Position
<1>4. got[0] + got[1] + got[3] + got[4] + got[2] \in 0..254
  <2>1. n = 0 \/ n = 1 \/ n = 2 \/ n = 3 \/ n = 4
    OBVIOUS
  <2>2. CASE n = 0
    BY <1>3, <2>2
  <2>3. CASE n = 1
    BY <1>3, <2>3
  <2>4. CASE n = 2
    BY <1>3, <2>4
  <2>5. CASE n = 3
    BY <1>3, <2>5
  <2>6. CASE n = 4
    BY <1>3, <2>6
  <2> QED BY <2>1, <2>2, <2>3, <2>4, <2>5, <2>6
<1>5. (got[0] + got[1] + got[3] + got[4] + got[2]) % 256 # 255
  <2>1. \A s \in 0..254 : s % 256 # 255
    OBVIOUS
  <2> QED BY <1>4, <2>1
<1>6. got \in CProofs!Message
  BY GotIsMessage, SameMessageSet
<1>7. ~ CProofs!checkChecksum(got)
  BY <1>5, <1>6, CProofs!CheckIsSum255
<1> QED BY <1>7, SameOperators, Zenon

(* checkChecksum (router.c:179-195, and the clients' copy of it) accepts what
   generateMessage made, and notices every change of one byte and every cut. *)
THEOREM NoticesDamage == ChecksumSpec => []DamageNoticed
<1>1. ChecksumInv => DamageNoticed
  <2> SUFFICES ASSUME ChecksumInv PROVE DamageNoticed
    OBVIOUS
  <2>1. sent \in CProofs!Message /\ got \in CProofs!Message /\ CProofs!checkChecksum(sent)
    BY GenuineIs, GotIsMessage, SameOperators, SameMessageSet DEF ChecksumInv
  <2>2. ASSUME OneChange, got # sent PROVE ~ C!checkChecksum(got)
    <3>1. PICK q \in 0..4 : got[q] # sent[q] /\ \A p \in 0..5 : p # q => got[p] = sent[p]
      BY <2>1, <2>2 DEF OneChange, CProofs!Message, CProofs!Position
    <3>2. sent[q] # got[q] /\ \A p \in CProofs!Position : p # q => sent[p] = got[p]
      BY <3>1 DEF CProofs!Position
    <3>3. ~ CProofs!checkChecksum(got)
      BY <2>1, <3>2, CProofs!OneByteIsNoticed, Zenon
    <3> QED BY <3>3, SameOperators, Zenon
  <2>3. C!checkChecksum(sent)
    BY GenuineIs DEF ChecksumInv
  <2>4. ASSUME CutShort PROVE ~ C!checkChecksum(got)
    BY <2>4, CutIsNoticed
  <2> QED BY <2>2, <2>3, <2>4 DEF DamageNoticed, ChecksumInv, Whole
<1> QED BY <1>1, OneThingHappens, PTL

(* The bit arrays of generateChecksum (router.c:202-231) come to this: the
   five bytes of a good message add up to 255 modulo 256. *)
THEOREM ChecksTheSum == ChecksumSpec => []CheckIsSum
<1>1. ChecksumInv => CheckIsSum
  <2> SUFFICES ASSUME ChecksumInv PROVE CheckIsSum
    OBVIOUS
  <2>1. got \in CProofs!Message
    BY GotIsMessage, SameMessageSet
  <2>2. CProofs!checkChecksum(got) <=> (got[0] + got[1] + got[3] + got[4] + got[2]) % 256 = 255
    BY <2>1, CProofs!CheckIsSum255
  <2>3. got[0] + got[1] + got[3] + got[4] + got[2] = got[0] + got[1] + got[2] + got[3] + got[4]
    <3>1. /\ got[0] \in Int /\ got[1] \in Int /\ got[2] \in Int
          /\ got[3] \in Int /\ got[4] \in Int
      BY <2>1 DEF CProofs!Message, CProofs!Position, CProofs!Byte
    <3> QED BY <3>1
  <2>4. C!checkChecksum(got) <=> CProofs!checkChecksum(got)
    BY SameOperators, Zenon
  <2> QED BY <2>2, <2>3, <2>4 DEF CheckIsSum
<1> QED BY <1>1, OneThingHappens, PTL

(* Client.java:193-216 and client2.c:228-244: both families of programs make
   the same message of the same four characters. *)
THEOREM SendTheSame == ChecksumSpec => []SameMessages
<1>1. ChecksumInv => SameMessages
  <2> SUFFICES ASSUME ChecksumInv PROVE SameMessages
    OBVIOUS
  <2>0. Genuine
    BY DEF ChecksumInv
  <2>1. PICK i \in 49..58, j \in 49..58, c \in 49..58 : CharactersAre(i, j, c)
    BY <2>0, GenuineIs, Zenon
  <2>2. /\ i \in Char /\ j \in Char /\ c \in Char
        /\ i + j + c + c \in 0..255
    BY DEF Char
  <2>3. line(C!generateMessage(i, j, c, c)) = generateMessage(i, j, c, c)
    BY <2>2, FamiliesAgree, Zenon
  <2> QED BY <2>1, <2>3, Zenon DEF SameMessages, CharactersAre
<1> QED BY <1>1, OneThingHappens, PTL

(* OCMS_AcceptConnectionThread.java:172-186 accepts a line as it was made, and
   rejects it with a checksum that has lost a one. *)
THEOREM LostOnesNoticed == ChecksumSpec => []LostOneIsNoticed
<1>1. ChecksumInv => LostOneIsNoticed
  <2> SUFFICES ASSUME ChecksumInv, ContentsIntact
               PROVE  /\ got = sent => checkChecksum(line(got)) = "true"
                      /\ (\E w \in 0..7 : C!Bit(sent[2], w) = 1 /\ C!Bit(got[2], w) = 0) =>
                            checkChecksum(line(got)) = "false"
    BY DEF LostOneIsNoticed
  <2>1. PICK i \in 49..58, j \in 49..58, c \in 49..58 : CharactersAre(i, j, c)
    BY GenuineIs, Zenon DEF ChecksumInv
  <2> DEFINE m == line(got)
  <2>2. m[0] = i /\ m[1] = j /\ m[3] = c /\ m[4] = c /\ m[2] = got[2]
    BY <2>1 DEF line, CharactersAre, ContentsIntact
  <2>3. m \in Line
    BY DEF Ascii, ContentsIntact
  <2> HIDE DEF m
  <2>4. lineSum(m) = i + j + c + c
    BY <2>2 DEF lineSum
  <2>5. lineSum(m) \in 128..255 /\ lineSum(m) >= 128 /\ 255 - lineSum(m) = sent[2]
    BY <2>1, <2>4 DEF CharactersAre
  <2> DEFINE Under(x, y) == \A w \in 0..7 : C!Bit(x, w) = 1 => C!Bit(y, w) = 1
  <2>6. checkChecksum(m) = "true" <=> Under(255 - lineSum(m), m[2])
    BY <2>3, <2>5, AcceptedIffSuperset, Zenon
  <2>7. Under(sent[2], sent[2])
    OBVIOUS
  <2>8. (\E w \in 0..7 : C!Bit(sent[2], w) = 1 /\ C!Bit(got[2], w) = 0) =>
          ~ Under(sent[2], got[2])
    OBVIOUS
  <2> HIDE DEF Under
  <2>9. checkChecksum(m) = "true" <=> Under(sent[2], got[2])
    BY <2>2, <2>5, <2>6
  <2>10. checkChecksum(m) \in {"true", "false"}
    BY <2>3, <2>5, CheckAlwaysReturns, Zenon
  <2> QED BY <2>7, <2>8, <2>9, <2>10 DEF m
<1> QED BY <1>1, OneThingHappens, PTL

(* OCMS_AcceptConnectionThread.java:172-186 comes to an end on every line one
   change away from a genuine one. *)
THEOREM AlwaysReturns == ChecksumSpec => []CheckReturns
<1>1. ChecksumInv => CheckReturns
  <2> SUFFICES ASSUME ChecksumInv, Ascii(got),
                      NEW q \in 0..4, \A p \in 0..4 \ {q} : got[p] = sent[p]
               PROVE  checkChecksum(line(got)) # "throws"
    BY DEF CheckReturns
  <2> DEFINE m == line(got)
  <2>1. m \in Line
    BY DEF Ascii
  <2>2. PICK i \in 49..58, j \in 49..58, c \in 49..58 : CharactersAre(i, j, c)
    BY GenuineIs, Zenon DEF ChecksumInv
  <2>3. PICK v \in 0..127, w \in 0..127, x \in 0..127, y \in 0..127 :
          got[0] = v /\ got[1] = w /\ got[3] = x /\ got[4] = y
    <3>1. /\ got[0] \in 0..127 /\ got[1] \in 0..127
          /\ got[3] \in 0..127 /\ got[4] \in 0..127
      BY <2>1 DEF line, Line, Char
    <3> QED BY <3>1, Zenon
  <2>4. /\ q # 0 => v = i
        /\ q # 1 => w = j
        /\ q # 3 => x = c
        /\ q # 4 => y = c
    BY <2>2, <2>3 DEF CharactersAre
  <2>5. lineSum(m) = v + w + x + y
    BY <2>3 DEF line, lineSum
  <2>6. lineSum(m) >= 128
    BY <2>4, <2>5
  <2> HIDE DEF m
  <2>7. checkChecksum(m) \in {"true", "false"}
    BY <2>1, <2>6, CheckAlwaysReturns, Zenon
  <2> QED BY <2>7 DEF m
<1> QED BY <1>1, OneThingHappens, PTL

-----------------------------------------------------------------------------
(* Client.java:76-83: so do all the lines the clients send. *)
LEMMA MessagesPass ==
  ASSUME NEW m \in AllMessages
  PROVE  m \in Line /\ m # NoLine /\ checkChecksum(m) = "true"
<1>0. PICK id \in Id, d \in Destinations : m \in Messages[id][d]
  BY DEF AllMessages
<1>1. PICK c \in Contents : m = generateMessage(Digit(id), Digit(d), Digit(c), Digit(c))
  BY <1>0 DEF Messages
<1> DEFINE i == Digit(id)
           j == Digit(d)
           n == Digit(c)
<1>2. i \in 49..52 /\ j \in 49..52 /\ n \in 49..58
  BY DrawAssumption DEF Digit, Id
<1>3. m = generateMessage(i, j, n, n)
  BY <1>1
<1> HIDE DEF i, j, n
<1>4. i \in Char /\ j \in Char /\ n \in Char /\ i + j + n + n \in 128..255
  BY <1>2 DEF Char
<1>5. m \in Line /\ checkChecksum(m) = "true"
  BY <1>3, <1>4, GeneratedPasses
<1> QED BY <1>5, NoLineAssumption

(* OCMS_AcceptConnectionThread.java:135-142: the neighbours of a router are
   routers there are. *)
LEMMA NeighboursExist ==
  ASSUME amountOfClients \in 1..6, NEW id \in 1..amountOfClients
  PROVE  leftConnectionId(id) \in 1..amountOfClients /\ rightConnectionId(id) \in 1..amountOfClients
<1>1. \A x \in 0..7, a \in 1..6 : x % a \in 0..(a - 1)
  <2> TAKE x \in 0..7, a \in 1..6
  <2>1. a = 1 \/ a = 2 \/ a = 3 \/ a = 4 \/ a = 5 \/ a = 6
    OBVIOUS
  <2> QED BY <2>1
<1>2. id - 1 \in 0..7 /\ id + 1 \in 0..7
  OBVIOUS
<1>3. /\ (id - 1) % amountOfClients \in 0..(amountOfClients - 1)
      /\ (id + 1) % amountOfClients \in 0..(amountOfClients - 1)
  BY <1>1, <1>2
<1> QED BY <1>3 DEF leftConnectionId, rightConnectionId

-----------------------------------------------------------------------------
(* How far the start-up got (OCMS_Router_Admin.java:60-97). *)
StartUp ==
  /\ driver = "startup" =>
       run = 0 /\ \E j \in 0..4 : j < amountOfClients /\ listening = 1..j
  /\ run # 0 \/ driver \notin {"startup", "portTaken", "indexError"} =>
       listening = 1..amountOfClients
  /\ runningId # 0 => run # 0
  /\ driver \in {"connect", "send", "receive", "close"} =>
       run \in Run /\ runningId \in 1..amountOfClients

(* The line of the current run is at one place at a time, and comes back as
   it was sent; nothing is under way for any other run. *)
AskedOnce ==
  /\ driver = "connect" => hpc[run] = "off"
  /\ driver = "send" => hpc[run] \in {"off", "read"}
  /\ driver = "receive" =>
       /\ message \in AllMessages
       /\ \/ /\ wire[run] = message /\ replied[run] = NoLine
             /\ hpc[run] \in {"off", "read"}
          \/ /\ data[run] = message /\ wire[run] = NoLine /\ replied[run] = NoLine
             /\ hpc[run] = "reply"
          \/ /\ replied[run] = message /\ wire[run] = NoLine
             /\ hpc[run] \in {"deliver", "exited"}

QuietOtherwise ==
  /\ \A r \in Id :
       \/ queue[r] = <<>>
       \/ queue[r] = <<run>> /\ r = runningId /\ InConversation /\ hpc[run] = "off"
  /\ \A n \in Run :
       /\ n > run => hpc[n] = "off"
       /\ wire[n] # NoLine => n = run /\ driver = "receive"
       /\ replied[n] # NoLine => hpc[n] \in {"deliver", "exited"}
       /\ hpc[n] \in {"read", "reply"} => n = run /\ InConversation
       /\ hpc[n] # "off" => owner[n] \in 1..amountOfClients
       /\ nextRouter[n] # 0 => hpc[n] # "off"

(* Who holds descriptors (Client.java:60, 123, OCMS_Router.java:71). *)
Descriptors ==
  /\ IsFiniteSet(open) /\ Cardinality(open) <= MaxFds
  /\ driver \in {"startup", "pick", "connect"} => ~ Full
  /\ driver \in {"send", "receive", "close"} => <<"client", run>> \in open
  /\ driver \notin {"noSocket", "checkThrew"}
  /\ OnlyRoutersLeak

(* A connection not yet accepted is in the queue of its router. *)
Queued == InConversation /\ hpc[run] = "off" => queue[runningId] = <<run>>

IInv == TypeOK /\ StartUp /\ AskedOnce /\ QuietOtherwise /\ Queued /\ Descriptors

LEMMA InitIsSound == Init => IInv
<1> SUFFICES ASSUME Init PROVE IInv
  OBVIOUS
<1> USE DEF Init
<1>1. amountOfClients \in Amounts /\ amountOfClients \in 1..6
  BY AmountAssumption
<1>2. TypeOK
  BY <1>1, BoundAssumption DEF TypeOK
<1>3. StartUp
  <2>1. {} = 1..0 /\ 0 < amountOfClients
    BY <1>1
  <2> QED BY <2>1 DEF StartUp
<1>4. AskedOnce /\ QuietOtherwise /\ Queued
  BY DEF AskedOnce, QuietOtherwise, Queued, InConversation
<1>5. Descriptors
  <2>1. IsFiniteSet({}) /\ Cardinality({}) = 0
    BY FS_EmptySet
  <2> QED BY <2>1, BoundAssumption DEF Descriptors, OnlyRoutersLeak, Full
<1> QED BY <1>2, <1>3, <1>4, <1>5 DEF IInv

(* A queue that is not empty holds the current run only. *)
LEMMA QueueHoldsRun ==
  ASSUME IInv, NEW r \in Id, queue[r] # <<>>
  PROVE  /\ Head(queue[r]) = run /\ Tail(queue[r]) = <<>>
         /\ r = runningId /\ InConversation /\ hpc[run] = "off" /\ run \in Run
<1>1. queue[r] = <<run>> /\ r = runningId /\ InConversation /\ hpc[run] = "off"
  BY DEF IInv, QuietOtherwise
<1>2. run \in Run
  BY <1>1 DEF InConversation, IInv, StartUp
<1> QED BY <1>1, <1>2

(* What Send sends. *)
LEMMA SendsMessage ==
  ASSUME IInv, Send
  PROVE  message' \in AllMessages /\ run \in Run
<1>1. runningId \in 1..amountOfClients /\ run \in Run /\ listening = 1..amountOfClients
  BY DEF Send, IInv, StartUp, Run
<1>2. runningId \in Id
  BY <1>1 DEF IInv, TypeOK
<1>3. PICK d \in Destinations : message' \in Messages[runningId][d]
  BY DEF Send
<1> QED BY <1>1, <1>2, <1>3 DEF AllMessages

(* What ReadLine does to the line of the current run: it passes. *)
LEMMA LinePasses ==
  ASSUME IInv, NEW n \in Run, ReadLine(n)
  PROVE  /\ n = run /\ driver = "receive" /\ wire[n] = message /\ message \in AllMessages
         /\ hpc' = [hpc EXCEPT ![n] = "reply"] /\ data' = [data EXCEPT ![n] = message]
         /\ \E r \in 1..amountOfClients : nextRouter' = [nextRouter EXCEPT ![n] = r]
<1>1. hpc[n] = "read" /\ wire[n] # NoLine
  BY DEF ReadLine
<1>2. n = run /\ driver = "receive" /\ wire[n] = message /\ message \in AllMessages
  BY <1>1 DEF IInv, AskedOnce, QuietOtherwise
<1>3. checkChecksum(wire[n]) = "true"
  BY <1>2, MessagesPass
<1>4. amountOfClients \in 1..6 /\ owner[n] \in 1..amountOfClients
  BY <1>1, AmountAssumption DEF IInv, TypeOK, QuietOtherwise
<1>5. (IF Target(wire[n]) \in {owner[n], leftConnectionId(owner[n])}
       THEN Target(wire[n]) ELSE rightConnectionId(owner[n])) \in 1..amountOfClients
  BY <1>4, NeighboursExist
<1> QED BY <1>2, <1>3, <1>5 DEF ReadLine

(* What Receive gives the client: its own line, which passes. *)
LEMMA ReceivesItsLine ==
  ASSUME IInv, Receive
  PROVE  /\ replied[run] = message /\ message \in AllMessages /\ message # NoLine
         /\ driver = "receive" /\ driver' = "close" /\ receivedMessage' = message
         /\ hpc[run] \in {"deliver", "exited"} /\ run \in Run
         /\ replied' = [replied EXCEPT ![run] = NoLine]
<1>1. /\ driver = "receive" /\ (replied[run] # NoLine \/ HungUp(run))
      /\ message \in AllMessages /\ message # NoLine
  BY MessagesPass DEF Receive, IInv, AskedOnce
<1>2. replied[run] = message /\ hpc[run] \in {"deliver", "exited"}
  BY <1>1 DEF HungUp, IInv, AskedOnce
<1>3. run \in Run
  BY <1>1 DEF IInv, StartUp
<1>4. checkChecksum(replied[run]) = "true"
  BY <1>1, <1>2, MessagesPass
<1> QED BY <1>1, <1>2, <1>3, <1>4 DEF Receive

(* Types, the lines included: only genuine ones are ever under way. *)
LEMMA TypesKept == IInv /\ [Next]_vars => TypeOK'
<1> SUFFICES ASSUME IInv, [Next]_vars PROVE TypeOK'
  OBVIOUS
<1>0. TypeOK /\ StartUp /\ amountOfClients \in 1..6
  BY AmountAssumption DEF IInv, TypeOK
<1> USE <1>0 DEF TypeOK, driverVars, threadVars, netVars
<1>1. CASE StartRouter
  <2>1. Ended' = Ended /\ "portTaken" \in Ended /\ "indexError" \in Ended
    BY DEF Ended
  <2> QED BY <1>1, <2>1 DEF StartRouter
<1>2. CASE Pick
  <2>1. PICK id \in 1..4 : IF id <= amountOfClients
                          THEN runningId' = id /\ driver' = "connect"
                          ELSE driver' = "indexError" /\ UNCHANGED runningId
    BY <1>2 DEF Pick
  <2>2. runningId' \in 0..amountOfClients /\ driver' \in {"connect", "indexError"}
    BY <2>1, AmountAssumption
  <2>3. run' \in 0..MaxRuns
    BY <1>2, BoundAssumption DEF Pick
  <2> QED BY <1>2, <2>2, <2>3 DEF Pick, Ended
<1>3. CASE Connect
  <2>1. run \in Run /\ runningId \in Id
    BY <1>3 DEF Connect, StartUp, Id
  <2>2. queue' \in [Id -> Seq(Run)]
    <3>1. Append(queue[runningId], run) \in Seq(Run)
      BY <2>1, AppendProperties
    <3> QED BY <1>3, <3>1 DEF Connect
  <2>3. open' \subseteq {"client", "router"} \X Run
    BY <1>3, <2>1 DEF Connect
  <2>4. driver' \in {"noSocket", "send"}
    BY <1>3 DEF Connect
  <2> QED BY <1>3, <2>2, <2>3, <2>4 DEF Connect, Ended
<1>4. CASE Send
  <2>1. message' \in AllMessages
    BY <1>4, SendsMessage
  <2>2. message' \in Line
    BY <2>1, MessagesPass
  <2> QED BY <1>4, <2>2 DEF Send
<1>5. CASE Receive
  <2>1. receivedMessage' \in Line /\ driver' = "close" /\ replied' = [replied EXCEPT ![run] = NoLine]
    BY <1>5, ReceivesItsLine, MessagesPass
  <2> QED BY <1>5, <2>1 DEF Receive
<1>6. CASE Close
  BY <1>6 DEF Close
<1>7. ASSUME NEW r \in Id, Accept(r) PROVE TypeOK'
  <2>1. Head(queue[r]) = run /\ Tail(queue[r]) = <<>> /\ r = runningId /\ run \in Run
    BY <1>7, QueueHoldsRun DEF Accept
  <2>2. run \in 0..MaxRuns /\ r \in 0..amountOfClients
    BY <2>1
  <2>3. queue' \in [Id -> Seq(Run)]
    BY <1>7, <2>1 DEF Accept
  <2>4. open' \subseteq {"client", "router"} \X Run
    BY <1>7, <2>1 DEF Accept
  <2>5. /\ clientConnect' = [clientConnect EXCEPT ![r] = run]
        /\ owner' = [owner EXCEPT ![run] = r]
        /\ hpc' = [hpc EXCEPT ![run] = "read"]
    BY <1>7, <2>1 DEF Accept
  <2> QED BY <1>7, <2>1, <2>2, <2>3, <2>4, <2>5 DEF Accept
<1>8. ASSUME NEW n \in Run, ReadLine(n) PROVE TypeOK'
  <2>1. /\ hpc' = [hpc EXCEPT ![n] = "reply"] /\ data' = [data EXCEPT ![n] = message]
        /\ \E r \in 1..amountOfClients : nextRouter' = [nextRouter EXCEPT ![n] = r]
    BY <1>8, LinePasses
  <2> QED BY <1>8, <2>1 DEF ReadLine
<1>9. ASSUME NEW n \in Run, Reply(n) PROVE TypeOK'
  <2>1. replied' \in [Run -> Line \cup {NoLine}]
    BY <1>9 DEF Reply
  <2>2. CASE nextRouter[n] = owner[n]
    BY <1>9, <2>1, <2>2 DEF Reply
  <2>3. CASE nextRouter[n] # owner[n]
    <3>0. Exit(n)
      BY <1>9, <2>3 DEF Reply
    <3>1. hpc' \in [Run -> {"off", "read", "reply", "deliver", "exited"}]
      BY <3>0 DEF Exit
    <3>2. data' \in [Run -> Line \cup {NoLine}] /\ nextRouter' \in [Run -> 0..amountOfClients]
      BY <3>0 DEF Exit
    <3> QED BY <1>9, <2>1, <3>1, <3>2 DEF Reply
  <2> QED BY <2>2, <2>3
<1>10. ASSUME NEW n \in Run, Deliver(n) PROVE TypeOK'
  BY <1>10 DEF Deliver, Exit
<1>11. ASSUME NEW n \in Run, Collect(n) PROVE TypeOK'
  BY <1>11 DEF Collect
<1>12. CASE UNCHANGED vars
  BY <1>12 DEF vars
<1> QED
  BY <1>1, <1>2, <1>3, <1>4, <1>5, <1>6, <1>7, <1>8, <1>9, <1>10, <1>11, <1>12
     DEF Next, Driver, handler

LEMMA StartUpKept == IInv /\ [Next]_vars => StartUp'
<1> SUFFICES ASSUME IInv, [Next]_vars PROVE StartUp'
  OBVIOUS
<1>0. StartUp /\ TypeOK /\ amountOfClients \in 1..6
  BY AmountAssumption DEF IInv, TypeOK
<1>1. CASE StartRouter
  <2>1. /\ UNCHANGED <<amountOfClients, run, runningId>> /\ run = 0
        /\ \E j \in 0..4 : j < amountOfClients /\ listening = 1..j
    BY <1>0, <1>1 DEF StartRouter, StartUp
  <2>2. PICK j \in 0..4 : j < amountOfClients /\ listening = 1..j
    BY <2>1
  <2>3. Cardinality(listening) = j
    <3>1. Cardinality(1..j) = IF 1 > j THEN 0 ELSE j - 1 + 1
      BY FS_Interval
    <3> QED BY <2>2, <3>1
  <2>4. \/ driver' \in {"indexError", "portTaken"}
        \/ /\ j + 1 \in Id /\ listening' = listening \cup {j + 1}
           /\ driver' = IF j + 1 = amountOfClients THEN "pick" ELSE "startup"
    BY <1>1, <2>3 DEF StartRouter
  <2>5. listening \cup {j + 1} = 1..(j + 1)
    BY <2>2
  <2>6. runningId = 0
    BY <1>0, <2>1 DEF StartUp
  <2>7. CASE driver' \in {"indexError", "portTaken"}
    BY <2>1, <2>6, <2>7 DEF StartUp
  <2>8. CASE /\ j + 1 \in Id /\ listening' = listening \cup {j + 1}
             /\ driver' = IF j + 1 = amountOfClients THEN "pick" ELSE "startup"
    <3>1. CASE j + 1 = amountOfClients
      BY <2>1, <2>5, <2>6, <2>8, <3>1 DEF StartUp
    <3>2. CASE j + 1 # amountOfClients
      <4>1. j + 1 \in 0..4 /\ j + 1 < amountOfClients
        BY <1>0, <2>2, <2>8, <3>2 DEF Id
      <4> QED BY <2>1, <2>5, <2>6, <2>8, <3>2, <4>1 DEF StartUp
    <3> QED BY <3>1, <3>2
  <2> QED BY <2>4, <2>7, <2>8
<1>2. CASE Pick
  <2>1. PICK id \in 1..4 : IF id <= amountOfClients
                          THEN runningId' = id /\ driver' = "connect"
                          ELSE driver' = "indexError" /\ UNCHANGED runningId
    BY <1>2 DEF Pick
  <2>2. /\ UNCHANGED <<amountOfClients, listening>> /\ driver = "pick" /\ run < MaxRuns
        /\ run' = IF driver' = "connect" THEN run + 1 ELSE run
        /\ listening = 1..amountOfClients /\ run \in Nat
    BY <1>0, <1>2 DEF Pick, StartUp, TypeOK
  <2>3. CASE id <= amountOfClients
    <3>1. run' \in Run /\ run' # 0 /\ runningId' \in 1..amountOfClients
      BY <1>0, <2>1, <2>2, <2>3, BoundAssumption DEF Run
    <3> QED BY <2>1, <2>2, <2>3, <3>1 DEF StartUp
  <2>4. CASE ~ (id <= amountOfClients)
    BY <1>0, <2>1, <2>2, <2>4 DEF StartUp
  <2> QED BY <2>3, <2>4
<1>3. CASE Connect \/ Send \/ Receive \/ Close
  <2>1. /\ UNCHANGED <<amountOfClients, listening, run, runningId>>
        /\ driver \in {"connect", "send", "receive", "close"}
        /\ driver' \notin {"startup", "portTaken", "indexError"}
    BY <1>3 DEF Connect, Send, Receive, Close
  <2> QED BY <1>0, <2>1 DEF StartUp
<1>4. CASE UNCHANGED driverVars
  BY <1>0, <1>4 DEF StartUp, driverVars
<1> QED
  BY <1>1, <1>2, <1>3, <1>4 DEF Next, Driver, handler, Accept, ReadLine, Reply, Deliver,
                                Collect, vars

LEMMA DescriptorsKept == IInv /\ [Next]_vars => Descriptors'
<1> SUFFICES ASSUME IInv, [Next]_vars PROVE Descriptors'
  OBVIOUS
<1>0. /\ Descriptors /\ TypeOK /\ MaxFds \in Nat \ {0}
      /\ IsFiniteSet(open) /\ Cardinality(open) \in Nat
  BY BoundAssumption, FS_CardinalityType DEF IInv, Descriptors
<1> USE <1>0 DEF Descriptors, OnlyRoutersLeak, Full
<1>1. CASE StartRouter
  BY <1>1 DEF StartRouter, netVars
<1>2. CASE Pick
  BY <1>2 DEF Pick, netVars
<1>3. CASE Connect
  <2>1. /\ driver' = "send" /\ run' = run /\ open' = open \cup {<<"client", run>>}
        /\ driver = "connect"
    BY <1>3 DEF Connect
  <2>2. IsFiniteSet(open') /\ Cardinality(open') \in {Cardinality(open), Cardinality(open) + 1}
    BY <2>1, FS_AddElement
  <2>3. Cardinality(open') \in Nat
    BY <2>2, FS_CardinalityType
  <2>4. Cardinality(open') <= MaxFds
    BY <2>1, <2>2, <2>3
  <2> QED BY <2>1, <2>2, <2>4
<1>4. CASE Send
  BY <1>4 DEF Send
<1>5. CASE Receive
  BY <1>5, ReceivesItsLine DEF Receive
<1>6. CASE Close
  <2>1. /\ driver' = "pick" /\ run' = run /\ open' = open \ {<<"client", run>>}
        /\ <<"client", run>> \in open
    BY <1>6 DEF Close
  <2>2. IsFiniteSet(open') /\ Cardinality(open') = Cardinality(open) - 1
    BY <2>1, FS_RemoveElement
  <2> QED BY <2>1, <2>2
<1>7. ASSUME NEW r \in Id, Accept(r) PROVE Descriptors'
  <2>1. /\ UNCHANGED driverVars /\ open' = open \cup {<<"router", Head(queue[r])>>} /\ ~ Full
        /\ InConversation
    BY <1>7, QueueHoldsRun DEF Accept
  <2>2. IsFiniteSet(open') /\ Cardinality(open') \in {Cardinality(open), Cardinality(open) + 1}
    BY <2>1, FS_AddElement
  <2>3. Cardinality(open') \in Nat
    BY <2>2, FS_CardinalityType
  <2>4. Cardinality(open') <= MaxFds
    BY <2>1, <2>2, <2>3
  <2>5. \A n \in Run : <<"client", n>> \in open' => <<"client", n>> \in open
    BY <2>1
  <2> QED BY <2>1, <2>2, <2>4, <2>5 DEF driverVars, InConversation
<1>8. ASSUME NEW n \in Run, Collect(n) PROVE Descriptors'
  <2>1. /\ UNCHANGED driverVars /\ open' = open \ {<<"router", n>>}
        /\ <<"router", n>> \in open
    BY <1>8 DEF Collect
  <2>2. IsFiniteSet(open') /\ Cardinality(open') = Cardinality(open) - 1
    BY <2>1, FS_RemoveElement
  <2>3. \A m \in Run : <<"client", m>> \in open' <=> <<"client", m>> \in open
    BY <2>1
  <2>4. <<"client", run>> \in open => <<"client", run>> \in open'
    BY <2>1
  <2> QED BY <2>1, <2>2, <2>3, <2>4 DEF driverVars
<1>9. CASE UNCHANGED <<driverVars, open>>
  BY <1>9 DEF driverVars
<1> QED
  BY <1>1, <1>2, <1>3, <1>4, <1>5, <1>6, <1>7, <1>8, <1>9
     DEF Next, Driver, handler, ReadLine, Reply, Deliver, netVars, vars

LEMMA ConversationKept == IInv /\ [Next]_vars => AskedOnce' /\ QuietOtherwise'
<1> SUFFICES ASSUME IInv, [Next]_vars PROVE AskedOnce' /\ QuietOtherwise'
  OBVIOUS
<1>0. /\ AskedOnce /\ QuietOtherwise /\ StartUp
      /\ run \in 0..MaxRuns /\ MaxRuns \in Nat /\ queue \in [Id -> Seq(Run)]
      /\ hpc \in [Run -> {"off", "read", "reply", "deliver", "exited"}]
      /\ wire \in [Run -> Line \cup {NoLine}] /\ replied \in [Run -> Line \cup {NoLine}]
      /\ data \in [Run -> Line \cup {NoLine}]
      /\ owner \in [Run -> 0..amountOfClients] /\ nextRouter \in [Run -> 0..amountOfClients]
  BY BoundAssumption DEF IInv, TypeOK
<1>1. CASE StartRouter
  <2>1. /\ UNCHANGED <<amountOfClients, run, runningId, message, threadVars, netVars>>
        /\ driver = "startup" /\ driver' \in {"startup", "pick", "indexError", "portTaken"}
    BY <1>1 DEF StartRouter
  <2> QED
    BY <1>0, <2>1 DEF AskedOnce, QuietOtherwise, InConversation, threadVars, netVars
<1>2. CASE Pick
  <2>1. /\ UNCHANGED <<amountOfClients, message, threadVars, netVars>>
        /\ driver = "pick" /\ driver' \in {"connect", "indexError"}
        /\ run' = IF driver' = "connect" THEN run + 1 ELSE run
        /\ driver' = "connect" => run' \in Run
    BY <1>0, <1>2 DEF Pick, Run
  <2>2. \A n \in Run : n > run' => n > run
    BY <1>0, <2>1 DEF Run
  <2>3. driver' = "connect" => run' > run
    BY <1>0, <2>1
  <2>4. \A r \in Id : queue[r] = <<>>
    BY <1>0, <2>1 DEF QuietOtherwise, InConversation
  <2>5. AskedOnce'
    BY <1>0, <2>1, <2>3 DEF AskedOnce, QuietOtherwise, threadVars
  <2>6. QuietOtherwise'
    BY <1>0, <2>1, <2>2, <2>4 DEF QuietOtherwise, InConversation, threadVars, netVars
  <2> QED BY <2>5, <2>6
<1>3. CASE Connect
  <2>1. /\ UNCHANGED <<amountOfClients, run, runningId, message, threadVars, wire, replied>>
        /\ driver = "connect" /\ driver' = "send"
        /\ queue' = [queue EXCEPT ![runningId] = Append(@, run)]
    BY <1>3 DEF Connect, IInv, Descriptors
  <2>2. runningId \in 1..amountOfClients /\ run \in Run /\ hpc[run] = "off"
    BY <1>0, <2>1 DEF StartUp, AskedOnce
  <2>3. \A r \in Id : queue[r] = <<>>
    BY <1>0, <2>1 DEF QuietOtherwise, InConversation
  <2>4. \A r \in Id : queue'[r] = IF r = runningId THEN <<run>> ELSE <<>>
    <3>1. Append(<<>>, run) = <<run>>
      OBVIOUS
    <3> QED BY <1>0, <2>1, <2>3, <3>1
  <2>5. AskedOnce'
    BY <2>1, <2>2 DEF AskedOnce, threadVars
  <2>6. QuietOtherwise'
    BY <1>0, <2>1, <2>2, <2>4 DEF QuietOtherwise, InConversation, threadVars
  <2> QED BY <2>5, <2>6
<1>4. CASE Send
  <2>1. /\ UNCHANGED <<amountOfClients, run, runningId, threadVars, queue, replied>>
        /\ driver = "send" /\ driver' = "receive"
        /\ wire' = [wire EXCEPT ![run] = message']
        /\ message' \in AllMessages /\ run \in Run
    BY <1>4, SendsMessage DEF Send
  <2>2. hpc[run] \in {"off", "read"} /\ replied[run] = NoLine
    BY <1>0, <2>1 DEF AskedOnce, QuietOtherwise
  <2>3. AskedOnce'
    BY <1>0, <2>1, <2>2 DEF AskedOnce, threadVars
  <2>4. QuietOtherwise'
    BY <1>0, <2>1 DEF QuietOtherwise, InConversation, threadVars
  <2> QED BY <2>3, <2>4
<1>5. CASE Receive
  <2>1. /\ UNCHANGED <<amountOfClients, run, runningId, threadVars, queue, wire>>
        /\ driver = "receive" /\ driver' = "close"
        /\ hpc[run] \in {"deliver", "exited"} /\ run \in Run
        /\ replied' = [replied EXCEPT ![run] = NoLine]
        /\ replied[run] # NoLine
    BY <1>5, ReceivesItsLine DEF Receive
  <2>2. wire[run] = NoLine
    BY <1>0, <2>1 DEF AskedOnce
  <2>3. AskedOnce'
    BY <2>1 DEF AskedOnce
  <2>4. \A r \in Id : queue[r] = <<>>
    BY <1>0, <2>1 DEF QuietOtherwise
  <2>5. QuietOtherwise'
    BY <1>0, <2>1, <2>2, <2>4 DEF QuietOtherwise, InConversation, threadVars
  <2> QED BY <2>3, <2>5
<1>6. CASE Close
  <2>1. /\ UNCHANGED <<amountOfClients, run, runningId, threadVars, queue, wire, replied>>
        /\ driver = "close" /\ driver' = "pick"
    BY <1>6 DEF Close
  <2> QED BY <1>0, <2>1 DEF AskedOnce, QuietOtherwise, InConversation, threadVars
<1>7. ASSUME NEW r \in Id, Accept(r) PROVE AskedOnce' /\ QuietOtherwise'
  <2>1. /\ Head(queue[r]) = run /\ Tail(queue[r]) = <<>>
        /\ r = runningId /\ InConversation /\ hpc[run] = "off" /\ run \in Run
    BY <1>7, QueueHoldsRun DEF Accept
  <2>2. /\ UNCHANGED <<driverVars, data, nextRouter, wire, replied>>
        /\ owner' = [owner EXCEPT ![run] = r] /\ hpc' = [hpc EXCEPT ![run] = "read"]
        /\ queue' = [queue EXCEPT ![r] = <<>>]
    BY <1>7, <2>1 DEF Accept
  <2>3. r \in 1..amountOfClients
    BY <1>0, <2>1 DEF StartUp, InConversation
  <2>4. AskedOnce'
    BY <1>0, <2>1, <2>2 DEF AskedOnce, InConversation, driverVars
  <2>5. \A q \in Id : queue'[q] = <<>>
    BY <1>0, <2>1, <2>2 DEF QuietOtherwise
  <2>6. replied[run] = NoLine /\ nextRouter[run] = 0
    BY <1>0, <2>1 DEF QuietOtherwise
  <2>7. QuietOtherwise'
    BY <1>0, <2>1, <2>2, <2>3, <2>5, <2>6 DEF QuietOtherwise, InConversation, driverVars
  <2> QED BY <2>4, <2>7
<1>8. ASSUME NEW n \in Run, ReadLine(n) PROVE AskedOnce' /\ QuietOtherwise'
  <2>1. /\ UNCHANGED <<driverVars, clientConnect, owner, queue, replied>>
        /\ n = run /\ driver = "receive" /\ hpc[n] = "read" /\ wire[n] # NoLine
        /\ wire' = [wire EXCEPT ![n] = NoLine]
        /\ hpc' = [hpc EXCEPT ![n] = "reply"] /\ data' = [data EXCEPT ![n] = message]
        /\ \E r \in 1..amountOfClients : nextRouter' = [nextRouter EXCEPT ![n] = r]
    BY <1>8, LinePasses DEF ReadLine
  <2>2. replied[n] = NoLine
    BY <1>0, <2>1 DEF QuietOtherwise
  <2>3. AskedOnce'
    BY <1>0, <2>1, <2>2 DEF AskedOnce, driverVars
  <2>4. \A q \in Id : queue[q] = <<>>
    BY <1>0, <2>1 DEF QuietOtherwise
  <2>5. QuietOtherwise'
    BY <1>0, <2>1, <2>2, <2>4 DEF QuietOtherwise, InConversation, driverVars
  <2> QED BY <2>3, <2>5
<1>9. ASSUME NEW n \in Run, Reply(n) PROVE AskedOnce' /\ QuietOtherwise'
  <2>1. hpc[n] = "reply" /\ n = run /\ driver = "receive"
    BY <1>0, <1>9 DEF Reply, QuietOtherwise, InConversation, AskedOnce
  <2>2. data[n] = message /\ wire[n] = NoLine
    BY <1>0, <2>1 DEF AskedOnce
  <2>3. /\ UNCHANGED <<driverVars, clientConnect, owner, queue, wire, open>>
        /\ replied' = [replied EXCEPT ![n] = message]
        /\ \E s \in {"deliver", "exited"} : hpc' = [hpc EXCEPT ![n] = s]
        /\ \/ nextRouter' = nextRouter
           \/ nextRouter' = [nextRouter EXCEPT ![n] = 0]
    BY <1>9, <2>2 DEF Reply, Exit
  <2>4. AskedOnce'
    BY <1>0, <2>1, <2>2, <2>3 DEF AskedOnce, driverVars
  <2>5. \A q \in Id : queue[q] = <<>>
    BY <1>0, <2>1 DEF QuietOtherwise
  <2>6. QuietOtherwise'
    BY <1>0, <2>1, <2>2, <2>3, <2>5 DEF QuietOtherwise, InConversation, driverVars
  <2> QED BY <2>4, <2>6
<1>10. ASSUME NEW n \in Run, Deliver(n) PROVE AskedOnce' /\ QuietOtherwise'
  <2>1. /\ UNCHANGED <<driverVars, clientConnect, owner, netVars>>
        /\ hpc[n] = "deliver" /\ hpc' = [hpc EXCEPT ![n] = "exited"]
        /\ nextRouter' = [nextRouter EXCEPT ![n] = 0]
        /\ data' = [data EXCEPT ![n] = NoLine]
    BY <1>10 DEF Deliver, Exit
  <2>2. AskedOnce'
    BY <1>0, <2>1 DEF AskedOnce, driverVars, netVars
  <2>3. QuietOtherwise'
    BY <1>0, <2>1 DEF QuietOtherwise, InConversation, driverVars, netVars
  <2> QED BY <2>2, <2>3
<1>11. CASE UNCHANGED <<driverVars, threadVars, queue, wire, replied>>
  BY <1>0, <1>11 DEF AskedOnce, QuietOtherwise, InConversation, driverVars, threadVars
<1> QED
  BY <1>1, <1>2, <1>3, <1>4, <1>5, <1>6, <1>7, <1>8, <1>9, <1>10, <1>11
     DEF Next, Driver, handler, Collect, vars, netVars

LEMMA QueuedKept == IInv /\ [Next]_vars => Queued'
<1> SUFFICES ASSUME IInv, [Next]_vars, InConversation', hpc'[run'] = "off"
             PROVE  queue'[runningId'] = <<run'>>
  BY DEF Queued
<1>0. /\ Queued /\ QuietOtherwise /\ StartUp /\ queue \in [Id -> Seq(Run)]
      /\ hpc \in [Run -> {"off", "read", "reply", "deliver", "exited"}]
      /\ runningId = 0 \/ runningId \in 1..amountOfClients
  BY DEF IInv, TypeOK
<1>1. CASE StartRouter \/ Pick \/ Close
  BY <1>1 DEF StartRouter, Pick, Close, InConversation
<1>2. CASE Receive
  BY <1>2, ReceivesItsLine DEF InConversation
<1>3. CASE Connect
  <2>1. /\ run' = run /\ runningId' = runningId /\ driver = "connect"
        /\ queue' = [queue EXCEPT ![runningId] = Append(queue[runningId], run)]
    BY <1>3 DEF Connect, IInv, Descriptors
  <2>2. runningId \in Id
    BY <1>0, <2>1 DEF StartUp, IInv, TypeOK
  <2>3. queue[runningId] = <<>>
    BY <1>0, <2>1, <2>2 DEF QuietOtherwise, InConversation
  <2> QED BY <1>0, <2>1, <2>2, <2>3
<1>4. CASE Send
  BY <1>0, <1>4 DEF Send, Queued, InConversation, threadVars
<1>5. ASSUME NEW r \in Id, Accept(r) PROVE FALSE
  <2>1. /\ Head(queue[r]) = run /\ run \in Run /\ run' = run
        /\ hpc' = [hpc EXCEPT ![run] = "read"]
    BY <1>5, QueueHoldsRun DEF Accept, driverVars
  <2> QED BY <1>0, <2>1
<1>6. ASSUME NEW n \in Run, handler(n) PROVE queue'[runningId'] = <<run'>>
  <2>1. UNCHANGED <<driverVars, queue>>
    BY <1>6 DEF handler, ReadLine, Reply, Deliver, netVars
  <2>2. \E s \in {"reply", "deliver", "exited"} : hpc' = [hpc EXCEPT ![n] = s]
    BY <1>6 DEF handler, ReadLine, Reply, Deliver, Exit
  <2>3. hpc[run] = "off"
    BY <1>0, <2>1, <2>2 DEF driverVars
  <2> QED BY <1>0, <2>1, <2>3 DEF Queued, InConversation, driverVars
<1>7. CASE UNCHANGED <<driverVars, threadVars, queue>>
  BY <1>0, <1>7 DEF Queued, InConversation, driverVars, threadVars
<1> QED
  BY <1>1, <1>2, <1>3, <1>4, <1>5, <1>6, <1>7
     DEF Next, Driver, Collect, vars, netVars

(* The invariant, whatever the threads do (Client.java:59-130 with
   OCMS_Router.java:60-77 and OCMS_AcceptConnectionThread.java:100-150). *)
THEOREM InvariantHolds == Spec => []IInv
<1>1. IInv /\ [Next]_vars => IInv'
  BY TypesKept, StartUpKept, ConversationKept, QueuedKept, DescriptorsKept DEF IInv
<1> QED BY <1>1, InitIsSound, PTL DEF Spec

(* Types of JavaSystem. *)
THEOREM TypeCorrect == Spec => []TypeOK
<1>1. IInv => TypeOK
  BY DEF IInv
<1> QED BY <1>1, InvariantHolds, PTL

(* One conversation at a time, for all the threads. *)
THEOREM ConversationsAreSingle == Spec => []OneConversation
<1>1. IInv => OneConversation
  <2> SUFFICES ASSUME IInv PROVE OneConversation
    OBVIOUS
  <2>1. \A n \in Run : hpc[n] \in {"read", "reply"} => n = run /\ InConversation
    BY DEF IInv, QuietOtherwise
  <2>2. ASSUME NEW r \in Id, NEW p \in Run, p \in { queue[r][q] : q \in DOMAIN queue[r] }
        PROVE  p = run /\ r = runningId /\ InConversation
    <3>1. queue[r] = <<run>> /\ r = runningId /\ InConversation
      BY <2>2 DEF IInv, QuietOtherwise
    <3> QED BY <2>2, <3>1
  <2> QED BY <2>1, <2>2 DEF OneConversation
<1> QED BY <1>1, InvariantHolds, PTL

(* However many clients there are and ports are free, no client runs, and no
   handler asks, before its router listens. *)
THEOREM RoutersFirst == Spec => []RoutersBeforeClients
<1>1. IInv => RoutersBeforeClients
  <2> SUFFICES ASSUME IInv PROVE RoutersBeforeClients
    OBVIOUS
  <2>1. run # 0 => listening = 1..amountOfClients
    BY DEF IInv, StartUp
  <2>2. runningId # 0 => runningId \in listening
    BY <2>1 DEF IInv, StartUp, TypeOK
  <2>3. ASSUME NEW n \in Run, nextRouter[n] # 0 PROVE nextRouter[n] \in listening
    <3>1. hpc[n] # "off" /\ nextRouter[n] \in 1..amountOfClients
      BY <2>3 DEF IInv, QuietOtherwise, TypeOK
    <3>2. ~ (n > run)
      BY <3>1 DEF IInv, QuietOtherwise
    <3>3. run # 0
      BY <3>2 DEF Run
    <3> QED BY <2>1, <3>1, <3>3
  <2> QED BY <2>2, <2>3 DEF RoutersBeforeClients
<1> QED BY <1>1, InvariantHolds, PTL

(* Client.java:123: when a run is over its own socket is closed, so only the
   routers' descriptors pile up. *)
THEOREM ClientsLeakNothing == Spec => []OnlyRoutersLeak
<1>1. IInv => OnlyRoutersLeak
  BY DEF IInv, Descriptors
<1> QED BY <1>1, InvariantHolds, PTL

(* Client.java:60: the driver always finds a descriptor for the socket of the
   next run, however many of them the routers keep. *)
THEOREM ConnectsSucceed == Spec => []ConnectFindsDescriptor
<1>1. IInv => ConnectFindsDescriptor
  BY DEF IInv, Descriptors, ConnectFindsDescriptor
<1> QED BY <1>1, InvariantHolds, PTL

(* Client.java:95: whoever waits has somebody to wait for. *)
THEOREM NobodyWaitsInVain == Spec => []WaitsForSomebody
<1>1. IInv => WaitsForSomebody
  <2> SUFFICES ASSUME IInv, driver = "receive", ~ (replied[run] # NoLine),
                      hpc[run] # "reply"
               PROVE  \/ hpc[run] = "read" /\ wire[run] # NoLine
                      \/ /\ hpc[run] = "off" /\ runningId \in listening
                         /\ queue[runningId] = <<run>>
    BY DEF WaitsForSomebody
  <2>1. /\ message \in AllMessages /\ wire[run] = message
        /\ hpc[run] \in {"off", "read"}
    BY MessagesPass DEF IInv, AskedOnce
  <2>2. wire[run] # NoLine
    BY <2>1, MessagesPass
  <2>3. runningId \in listening
    BY DEF IInv, StartUp
  <2> QED BY <2>1, <2>2, <2>3 DEF IInv, Queued, InConversation
<1> QED BY <1>1, InvariantHolds, PTL

(* The driver's place and the line that is under way, as RelayService sees
   them. *)
Phase == CASE driver = "receive" -> "waiting"
           [] driver = "close" -> "served"
           [] driver \in Ended -> "stopped"
           [] OTHER -> "idle"

UnderWay == IF driver = "receive" THEN {<<run, message>>} ELSE {}

(* Client.java:69-112 with OCMS_AcceptConnectionThread.java:39-138: whatever
   the routers choose, each step is one of RelayService, the line that is got
   being the one under way, or none at all. *)
LEMMA StepIsRelay == IInv /\ [Next]_vars => [Relay!Next]_(Relay!vars)
<1> SUFFICES ASSUME IInv, [Next]_vars PROVE [Relay!Next]_(Relay!vars)
  OBVIOUS
<1> USE DEF Relay!Next, Relay!vars
<1>1. CASE StartRouter \/ Pick \/ Connect
  <2>1. /\ UNCHANGED receivedMessage
        /\ driver \in {"startup", "pick", "connect"}
        /\ driver' \in {"startup", "pick", "connect", "send",
                         "indexError", "portTaken", "noSocket"}
    BY <1>1 DEF StartRouter, Pick, Connect
  <2>2. /\ Phase = "idle" /\ Phase' \in {"idle", "stopped"}
        /\ UnderWay = {} /\ UnderWay' = {}
    BY <2>1 DEF Phase, Ended, UnderWay
  <2> QED BY <2>1, <2>2 DEF Relay!Stop, Phase, UnderWay
<1>2. CASE Send
  <2>1. /\ driver = "send" /\ driver' = "receive" /\ message' \in AllMessages
        /\ receivedMessage' = NoLine /\ run' = run
    BY <1>2, SendsMessage DEF Send
  <2>2. run \in Run
    BY <2>1 DEF IInv, TypeOK, StartUp, Run
  <2>3. /\ Phase = "idle" /\ Phase' = "waiting"
        /\ UnderWay = {} /\ UnderWay' = UnderWay \cup {<<run, message'>>}
    BY <2>1 DEF Phase, Ended, UnderWay
  <2>4. \A l \in AllMessages : <<run, l>> \notin UnderWay
    BY <2>3
  <2> QED BY <2>1, <2>2, <2>3, <2>4 DEF Relay!Send, Phase, UnderWay
<1>3. CASE Receive
  <2>1. /\ driver = "receive" /\ driver' = "close" /\ receivedMessage' = message
    BY <1>3, ReceivesItsLine DEF Receive
  <2>2. /\ Phase = "waiting" /\ Phase' = "served"
        /\ UnderWay = {<<run, message>>} /\ UnderWay' = UnderWay \ {<<run, message>>}
    BY <2>1 DEF Phase, Ended, UnderWay
  <2>3. receivedMessage' = <<run, message>>[2]
    BY <2>1
  <2> QED BY <2>2, <2>3 DEF Relay!Receive, Phase, UnderWay
<1>4. CASE Close
  <2>1. /\ driver = "close" /\ driver' = "pick" /\ UNCHANGED receivedMessage
    BY <1>4 DEF Close
  <2>2. /\ Phase = "served" /\ Phase' = "idle"
        /\ UnderWay = {} /\ UnderWay' = {}
    BY <2>1 DEF Phase, Ended, UnderWay
  <2> QED BY <2>1, <2>2 DEF Relay!Finish, Phase, UnderWay
<1>5. CASE UNCHANGED driverVars
  BY <1>5 DEF driverVars
<1> QED
  BY <1>1, <1>2, <1>3, <1>4, <1>5
     DEF Next, Driver, handler, Accept, ReadLine, Reply, Deliver, Collect, vars

(* JavaSystem implements RelayService, for any number of clients, runs,
   destinations and descriptors. *)
THEOREM SystemImplementsRelay == Spec => ImplementsRelay
<1>1. Init => Relay!Init
  BY DEF Init, Relay!Init, Ended
<1> QED BY <1>1, StepIsRelay, InvariantHolds, PTL DEF Spec, ImplementsRelay, Relay!Spec
=============================================================================
