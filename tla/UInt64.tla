------------------------------ MODULE UInt64 ------------------------------
(***************************************************************************)
(* C++ ulong64_t arithmetic as the frame classes use it: left shifts,     *)
(* additions that wrap modulo 2^64, right-shift-and-mask field reads, and  *)
(* the split of a value into big-endian bytes.  TLC integers are 32-bit,   *)
(* so a 64-bit value is a tuple of four 16-bit limbs, least significant   *)
(* first: the value is v[1] + v[2] * 2^16 + v[3] * 2^32 + v[4] * 2^48.     *)
(***************************************************************************)
EXTENDS Naturals

Limb == 0..65535

Word64 == Limb \X Limb \X Limb \X Limb

LimbAt(v, j) == IF j \in 0..3 THEN v[j + 1] ELSE 0

\* A 32-bit unsigned operand (at most 2^31 - 1 under TLC) widened to 64 bits.
FromNat(n) == <<n % 2^16, (n \div 2^16) % 2^16, 0, 0>>

\* v << n for n in 0..63; bits shifted past bit 63 are lost.
ShiftLeft(v, n) ==
  LET q == n \div 16
      r == n % 16
      L(j) == ((LimbAt(v, j - q) * 2^r) % 2^16)
                + (IF r = 0 THEN 0 ELSE LimbAt(v, j - q - 1) \div 2^(16 - r))
  IN  <<L(0), L(1), L(2), L(3)>>

\* v >> n for n in 0..63.
ShiftRight(v, n) ==
  LET q == n \div 16
      r == n % 16
      L(j) == (LimbAt(v, j + q) \div 2^r)
                + (IF r = 0 THEN 0 ELSE (LimbAt(v, j + q + 1) % 2^r) * 2^(16 - r))
  IN  <<L(0), L(1), L(2), L(3)>>

\* v + w modulo 2^64, limb by limb with carry.
Add(v, w) ==
  LET s0 == v[1] + w[1]
      s1 == v[2] + w[2] + s0 \div 2^16
      s2 == v[3] + w[3] + s1 \div 2^16
      s3 == v[4] + w[4] + s2 \div 2^16
  IN  <<s0 % 2^16, s1 % 2^16, s2 % 2^16, s3 % 2^16>>

\* The idiom "value = (value << n) + x" that packs a field after the others.
ShiftAdd(v, n, x) == Add(ShiftLeft(v, n), FromNat(x))

\* (v >> shift) & (2^width - 1), for width at most 30.
Field(v, shift, width) ==
  LET s == ShiftRight(v, shift)
  IN  IF width <= 16 THEN s[1] % 2^width
      ELSE s[1] + (s[2] % 2^(width - 16)) * 2^16

\* Byte k (0 = most significant) of v.
ByteOf(v, k) == Field(v, 56 - 8 * k, 8)

\* The value whose big-endian bytes are b[0..7].
FromBytes(b) ==
  <<b[6] * 256 + b[7], b[4] * 256 + b[5], b[2] * 256 + b[3], b[0] * 256 + b[1]>>

=============================================================================
