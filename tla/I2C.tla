--------------------------------- MODULE I2C ---------------------------------
(***************************************************************************)
(* raspberry_pi/I2C.py: what the methods of class I2C return, as functions *)
(* of what the bus gave them, and what a write leaves in a register.  A    *)
(* method that meets an IOError catches it and returns errMsg's -1, which  *)
(* is also what the signed reads return for a register full of ones.       *)
(***************************************************************************)
EXTENDS Integers, FiniteSetsExt

CONSTANT Fault      \* what the bus gives when the transfer fails

Byte == 0 .. 255
Word == {n \in Nat : n \div 256 \in Byte}      \* two bytes, the high one n \div 256

ASSUME FaultAssumption == Fault \notin Word

errMsg == -1

\* mutation of write8: the value is not cut to a byte
write8Uncut(register, value, ok) == IF ok THEN value ELSE register

\* What a byte register holds after write8: the bus sends the low eight bits
write8(register, value, ok) == IF ok THEN value % 256 ELSE register

readU8(raw) == IF raw = Fault THEN errMsg ELSE raw

readS8(raw) == IF raw = Fault THEN errMsg
               ELSE IF raw > 127 THEN raw - 256 ELSE raw

\* mutation of Swapped: the mask is forgotten
SwappedUnmasked(word) == word * 256 + word \div 256

\* ((w << 8) & 0xFF00) + (w >> 8)
Swapped(word) == (word % 256) * 256 + word \div 256

readU16(raw, little_endian) ==
  IF raw = Fault THEN errMsg
  ELSE IF little_endian THEN raw ELSE Swapped(raw)

SignedWord(result) == IF result > 32767 THEN result - 65536 ELSE result

readS16(raw, little_endian) == SignedWord(readU16(raw, little_endian))

\* The bytes hex(data) needs, at least one, and their order reversed
byteCount(data) ==
  CHOOSE n \in 1 .. 4 : data < 256 ^ n /\ \A k \in 1 .. n - 1 : data >= 256 ^ k

reverseByteOrder(data) ==
  LET n == byteCount(data)
  IN  MapThenSumSet(LAMBDA i : ((data \div 256 ^ i) % 256) * 256 ^ (n - 1 - i),
                    0 .. n - 1)
=============================================================================
