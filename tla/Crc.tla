----------------------------------- MODULE Crc -----------------------------------
(***************************************************************************)
(* The three CRC-32 of the repository: the CRC unit as crc.c sets it up     *)
(* (the boot loader checks the sealed slot with it), and the bitwise loops  *)
(* of secure_fw_update.c and root_of_trust.c, which are the algorithm of    *)
(* zlib.crc32 that seal.py computes the tag with.  A register is the set of *)
(* its bits that are 1.                                                     *)
(***************************************************************************)
EXTENDS Integers, SequencesExt

CONSTANTS
  Bytes,   \* bound: the values of the bytes of a message
  Longest  \* bound: its length (but for the demo's "123456789")

CrcBounds == Bytes \subseteq 0..255 /\ Longest \in Nat

VARIABLES
  msg,   \* the message
  taken, \* its bytes taken so far
  dr,    \* the register of the unit, before REV_OUT
  crc    \* the variable of the loop

vars == <<msg, taken, dr, crc>>

Word == 0..31

Xor(a, b)  == (a \ b) \cup (b \ a)
ByteSet(n) == {b \in 0..7 : (n \div 2 ^ b) % 2 = 1}
Mirror(a)  == {31 - b : b \in a}

Demo == <<49, 50, 51, 52, 53, 54, 55, 56, 57>>   \* "123456789"

(* One step for each bit of a byte.                                         *)
Eight(Step(_), a) == Step(Step(Step(Step(Step(Step(Step(Step(a))))))))

----------------------------------------------------------------------------
(* The unit: RESET loads all ones, REV_IN_BYTE mirrors each byte, which     *)
(* enters at the top, REV_OUT mirrors what is read.                         *)
POL == {26, 23, 22, 16, 12, 11, 10, 8, 7, 5, 4, 2, 1, 0}   \* 0x04C11DB7

ShiftUp(a) == LET up == {b + 1 : b \in a \ {31}}
              IN  IF 31 \in a THEN Xor(up, POL) ELSE up

WriteDR(a, byte) == Eight(ShiftUp, Xor(a, Mirror(ByteSet(byte))))

ResultUnmirrored(a) == Xor(a, Word)   \* mutant: REV_OUT is not set
(* CRC_Calculate after its last byte                                        *)
Result(a) == Xor(Mirror(a), Word)

----------------------------------------------------------------------------
(* sw_crc32_update, and the same loop in rot_sw_crc32                       *)
Polynomial == {31, 30, 29, 27, 26, 24, 23, 21, 20, 19, 15, 9, 8, 5}   \* 0xEDB88320

ShiftDown(a) == LET down == {b - 1 : b \in a \ {0}}
                IN  IF 0 \in a THEN Xor(down, Polynomial) ELSE down

sw_crc32_update(a, byte) == Eight(ShiftDown, Xor(a, ByteSet(byte)))

----------------------------------------------------------------------------
Init ==
  /\ msg \in {Demo} \cup BoundedSeq(Bytes, Longest)
  /\ taken = 0
  /\ dr = Word
  /\ crc = Word

TakeByte ==
  /\ taken < Len(msg)
  /\ taken' = taken + 1
  /\ dr' = WriteDR(dr, msg[taken'])
  /\ crc' = sw_crc32_update(crc, msg[taken'])
  /\ UNCHANGED msg

Next == TakeByte

Spec == Init /\ [][Next]_vars
----------------------------------------------------------------------------
(* The unit and the loops agree on every prefix of every message: a tag     *)
(* that seal.py wrote is the one the boot loader computes.                  *)
UnitIsLoop == Result(dr) = Xor(crc, Word)

================================================================================
