---------------------------- MODULE JavaChecksum ----------------------------
(***************************************************************************)
(* The checksum of the Java programs: generateMessage of Client.java, and  *)
(* checkChecksum and its helpers, which Client.java and                    *)
(* OCMS_AcceptConnectionThread.java each hold a copy of.                   *)
(*                                                                         *)
(* A line is the five characters of a message: source, destination,        *)
(* checksum, two of contents.  Characters are ASCII: what a reader makes   *)
(* of other bytes depends on the platform.  A string of binary digits is   *)
(* the sequence of its digits, the first one the most significant.         *)
(***************************************************************************)
EXTENDS Integers, Sequences

Char == 0..127
Line == [0..4 -> Char]

Weights   == <<1, 2, 4, 8, 16, 32, 64, 128, 256, 512, 1024>>
Weight(i) == Weights[i + 1]

(* Integer.toBinaryString, of sums of at most four characters and one. *)
toBinaryString(v) ==
  LET digits == CHOOSE w \in 1..10 : v < Weight(w) /\ (w > 1 => v >= Weight(w - 1))
  IN  [q \in 1..digits |-> (v \div Weight(digits - q)) % 2]

addLeadingZeros(s) == [q \in 1..(8 - Len(s)) |-> 0] \o s

(* The digits of the sum of four characters: "carries the 1" by adding one
   to a sum that needs nine, and keeping seven digits after the first. *)
charSum(v) ==
  IF v <= 255 THEN toBinaryString(v)
  ELSE addLeadingZeros(SubSeq(toBinaryString(v + 1), 2, 8))

invertBinary(s) == [q \in DOMAIN s |-> 1 - s[q]]

(* Mutant: the least significant digit taken first. *)
parseInt_Reversed(s) == 128 * s[8] + 64 * s[7] + 32 * s[6] + 16 * s[5]
                        + 8 * s[4] + 4 * s[3] + 2 * s[2] + s[1]

(* Integer.parseInt(s, 2) of eight digits. *)
parseInt(s) == 128 * s[1] + 64 * s[2] + 32 * s[3] + 16 * s[4]
               + 8 * s[5] + 4 * s[6] + 2 * s[7] + s[8]

checkSumCharacter(v) == parseInt(invertBinary(addLeadingZeros(charSum(v))))

generateMessage(ID, destination, data1, data2) ==
  LET v == ID + destination + data1 + data2
  IN  [q \in 0..4 |-> <<ID, destination, checkSumCharacter(v), data1, data2>>[q + 1]]

(* Mutant: the loop over the characters ends one early. *)
lineSum_NotTheLast(m) == m[0] + m[1] + m[3]

lineSum(m) == m[0] + m[1] + m[3] + m[4]

(* Mutant: the two nested tests joined the other way. *)
Passes_Both(s, c) == s = 1 /\ c = 1

(* The test of a digit of the sum and one of the checksum: that one is '1'. *)
Passes(s, c) == s = 1 \/ c = 1

(* checkChecksum returns at the first position that does not pass, and throws
   if it comes to the end of the sum's digits before. *)
checkChecksum(m) ==
  LET s == charSum(lineSum(m))
      c == addLeadingZeros(toBinaryString(m[2]))
      Fails(q) == q <= Len(s) /\ ~ Passes(s[q], c[q])
  IN  IF \E q \in 1..8 : Fails(q) /\ \A p \in 1..q : p <= Len(s) THEN "false"
      ELSE IF Len(s) < 8 THEN "throws" ELSE "true"
=============================================================================
