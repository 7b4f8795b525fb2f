----------------------------- MODULE CChecksum -----------------------------
(***************************************************************************)
(* The checksum the C programs share: generateMessage in client1.c to      *)
(* client4.c, and generateChecksum, checkChecksum and invertBinary, which  *)
(* router.c and the clients each hold a copy of.                           *)
(*                                                                         *)
(* A message is the char[6] of the code, indexed from 0 as in C: source,   *)
(* destination, checksum, two data bytes and the NUL the clients leave at  *)
(* the end.  A char is the byte it is stored as: every sum below is taken  *)
(* modulo 256, so the sign of char does not matter here.                   *)
(***************************************************************************)
EXTENDS Integers

Byte     == 0..255
Position == 0..5
Message  == [Position -> Byte]
BitIndex == 0..7

(* 1 << i and pow(2, i). *)
Weights   == <<1, 2, 4, 8, 16, 32, 64, 128>>
Weight(i) == Weights[i + 1]

Bit(v, i) == (v \div Weight(i)) % 2

(* Mutant: data_2 forgotten. *)
sumValue_NoData2(m) == (m[0] + m[1] + m[3]) % 256

(* unsigned char sumValue: everything but the checksum, in eight bits. *)
sumValue(m) == (m[0] + m[1] + m[3] + m[4]) % 256

(* Mutant: the test of invertBinary the wrong way round. *)
invertBinary_Swapped(b) == [i \in BitIndex |-> b[i]]

(* The tail of generateChecksum: the eight bits b that the shared array    *)
(* `byte` was read as, inverted one by one and weighted.                   *)
invertBinary(b) == [i \in BitIndex |-> 1 - b[i]]

Assemble(b) ==
  LET inverted == invertBinary(b)
  IN  128 * inverted[7] + 64 * inverted[6] + 32 * inverted[5]
      + 16 * inverted[4] + 8 * inverted[3] + 4 * inverted[2]
      + 2 * inverted[1] + inverted[0]

(* generateChecksum called by one thread at a time. *)
generateChecksum(v) == Assemble([i \in BitIndex |-> Bit(v, i)])

checkChecksum(m) == m[2] = generateChecksum(sumValue(m))

(* memset(&message, '\0', sizeof(message)), then generateMessage. *)
Cleared == [p \in Position |-> 0]

(* Mutant: the checksum of the contents only. *)
generateMessage_NoID(ID, destination, data1, data2) ==
  [Cleared EXCEPT ![4] = data2, ![0] = ID, ![1] = destination,
                  ![2] = generateChecksum((destination + data1 + data2) % 256),
                  ![3] = data1]

generateMessage(ID, destination, data1, data2) ==
  [Cleared EXCEPT ![4] = data2, ![0] = ID, ![1] = destination,
                  ![2] = generateChecksum((ID + destination + data1 + data2) % 256),
                  ![3] = data1]

(***************************************************************************)
(* generateChecksum keeps the bits of the sum in a static array, so what a *)
(* call returns depends on the calls it overlaps: each bit is the inverted *)
(* bit of its own sum or of the sum of a call that ran at the same time.   *)
(* RacyResults(S) is what a call can return when S is the set of those     *)
(* sums, its own included; Joined keeps these sets, seen, when t calls     *)
(* with sum v while the calls of the threads in `running` are in progress, *)
(* the sum of each being sum[u].                                           *)
(***************************************************************************)
RacyResults(S) ==
  { c \in Byte : \A i \in BitIndex : \E v \in S : Bit(c, i) # Bit(v, i) }

Joined(seen, sum, running, t, v) ==
  [u \in DOMAIN seen |->
     IF u = t THEN {v} \cup { sum[w] : w \in running }
     ELSE IF u \in running THEN seen[u] \cup {v} ELSE seen[u]]
=============================================================================
