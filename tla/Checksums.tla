----------------------------- MODULE Checksums ------------------------------
(***************************************************************************)
(* The C and the Java checksum side by side, on the messages the clients   *)
(* make, each whole, with any one of its five characters changed, or with  *)
(* its first bytes only, where a read returned before the rest had come.   *)
(***************************************************************************)
EXTENDS JavaChecksum

CONSTANTS
  Sources,  \* the identities of clients, '1' to '4' in the code
  Targets,  \* the destinations drawn, '1' to '6' at most
  Data      \* the contents: dataContent + '0', up to ten

(* '1' is 49, and ':' comes after '9'. *)
ASSUME CharactersAssumption ==
  Sources \subseteq 49..58 /\ Targets \subseteq 49..58 /\ Data \subseteq 49..58

C == INSTANCE CChecksum

VARIABLES sent, \* a message as generateMessage makes it
          got   \* what is left of it when it is checked

checksumVars == <<sent, got>>

ChecksumInit ==
  /\ sent \in { C!generateMessage(id, dest, c, c) :
                  id \in Sources, dest \in Targets, c \in Data }
  /\ got = sent

Change ==
  /\ got = sent
  /\ \E q \in 0..4, b \in C!Byte : got' = [got EXCEPT ![q] = b]
  /\ UNCHANGED sent

(* The clients zero messageFromServer before they read into it.  (A handler of
   the router checks a copy in a buffer that nothing zeroes: see CRouter.) *)
Cut ==
  /\ got = sent
  /\ \E n \in 0..4 : got' = [p \in C!Position |-> IF p < n THEN sent[p] ELSE 0]
  /\ UNCHANGED sent

ChecksumSpec == ChecksumInit /\ [][Change \/ Cut]_checksumVars

(* The line of the Java programs with the same five characters, of a message
   whose bytes are ASCII. *)
line(m)  == [q \in 0..4 |-> m[q]]
Ascii(m) == line(m) \in Line

-----------------------------------------------------------------------------
(* checkChecksum (client4.c:171-187, of which router.c:179-195 is a copy)
   accepts what generateMessage made, notices every change of one byte, and
   is not taken in by a message of which only the first bytes have come into
   the zeros of a client's buffer (client4.c:47, 104-118). *)
DamageNoticed == C!checkChecksum(got) <=> got = sent

(* The bit arrays of generateChecksum (router.c:202-231) come to this: the
   five bytes of a good message add up to 255 modulo 256. *)
CheckIsSum == C!checkChecksum(got) <=> (got[0] + got[1] + got[2] + got[3] + got[4]) % 256 = 255

(* Client.java:193-216 and client2.c:228-244: both families of programs make
   the same message of the same four characters. *)
SameMessages == line(sent) = generateMessage(sent[0], sent[1], sent[3], sent[4])

(* Only the checksum of the line, if anything, is another one than was sent. *)
ContentsIntact == (\A q \in {0, 1, 3, 4} : got[q] = sent[q]) /\ Ascii(got)

(* Client.java:193-216 with OCMS_AcceptConnectionThread.java:159-188: the two
   agree, for all their detours over strings of digits: a line is accepted as
   it was made, and a checksum that has lost a one of it is rejected, whatever
   it has gained. *)
LostOneIsNoticed ==
  ContentsIntact =>
    /\ got = sent => checkChecksum(line(got)) = "true"
    /\ (\E w \in 0..7 : C!Bit(sent[2], w) = 1 /\ C!Bit(got[2], w) = 0) =>
          checkChecksum(line(got)) = "false"

(* checkChecksum (OCMS_AcceptConnectionThread.java:172-186) returns for every
   line one change away from a genuine one: as long as four characters are
   summed, the sum does not fall below the eight digits the loop reads. *)
CheckReturns ==
  Ascii(got) /\ (\E q \in 0..4 : \A p \in 0..4 \ {q} : got[p] = sent[p]) =>
    checkChecksum(line(got)) # "throws"

-----------------------------------------------------------------------------
(* What the program says of itself, and does not keep to. *)

(* OCMS_AcceptConnectionThread.java:154 "Ensures the checksum is good, if it
   isn't it returns false": false is returned for a line with any checksum but
   the one it was made with. *)
WrongChecksumIsRejected ==
  ContentsIntact /\ got # sent => checkChecksum(line(got)) = "false"
=============================================================================
