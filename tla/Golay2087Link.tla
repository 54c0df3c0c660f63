-------------------------- MODULE Golay2087Link --------------------------
(***************************************************************************)
(* One Golay (20,8,7) protected field on the air: a transmitter fills      *)
(* data[0U] with an information word and calls Golay2087::encode, the RF   *)
(* channel flips some of the 20 transmitted bits, and the receiver calls   *)
(* Golay2087::decode on the same three bytes.  Frames follow one another   *)
(* on fresh buffers.                                                       *)
(***************************************************************************)
EXTENDS Naturals, FiniteSets, Bitwise, Golay2087

CONSTANTS
  InfoWords,     \* information words the transmitter may send
  MaxBitErrors   \* most bits the channel flips in one codeword

ASSUME InfoWords \subseteq Byte /\ InfoWords # {}
ASSUME MaxBitErrors \in Nat

\* Bit positions of the 20-bit codeword, 0 = most significant bit of
\* data[0U], 19 = bit 4 of data[2U] (the parity bit decode ignores).
CodeBits == 0..19

\* The value 2^k flipped in byte p \div 8 for codeword bit p.
FlipBit(data, p) ==
  [data EXCEPT ![p \div 8] = @ ^^ (2^(7 - (p % 8)))]

NoWord == 256   \* no decode result yet

VARIABLES
  info,      \* the information word of the frame in flight
  data,      \* the three bytes of the codeword buffer
  errors,    \* codeword bits the channel has flipped
  decoded,   \* what Golay2087::decode returned
  stage      \* "encode", "air" or "done"

vars == <<info, data, errors, decoded, stage>>

TypeOK ==
  /\ info \in InfoWords
  /\ data \in Buffers
  /\ errors \subseteq CodeBits
  /\ decoded \in Byte \cup {NoWord}
  /\ stage \in {"encode", "air", "done"}

\* A frame's information word, placed in data[0U] of a fresh buffer.
NewFrame(w) ==
  /\ info' = w
  /\ data' = [i \in 0..2 |-> IF i = 0 THEN w ELSE 0]
  /\ errors' = {}
  /\ decoded' = NoWord
  /\ stage' = "encode"

Init == \E w \in InfoWords :
          /\ info = w
          /\ data = [i \in 0..2 |-> IF i = 0 THEN w ELSE 0]
          /\ errors = {}
          /\ decoded = NoWord
          /\ stage = "encode"

\* The transmitter calls Golay2087::encode on the buffer.
Encode ==
  /\ stage = "encode"
  /\ data' = encode(data)
  /\ stage' = "air"
  /\ UNCHANGED <<info, errors, decoded>>

\* The channel flips one more transmitted bit.
Corrupt(p) ==
  /\ stage = "air"
  /\ Cardinality(errors) < MaxBitErrors
  /\ p \notin errors
  /\ data' = FlipBit(data, p)
  /\ errors' = errors \cup {p}
  /\ UNCHANGED <<info, decoded, stage>>

\* The receiver calls Golay2087::decode on the received buffer.
Decode ==
  /\ stage = "air"
  /\ decoded' = decode(data)
  /\ stage' = "done"
  /\ UNCHANGED <<info, data, errors>>

\* The next frame is sent.
Send == stage = "done" /\ \E w \in InfoWords : NewFrame(w)

Next ==
  \/ Encode
  \/ \E p \in CodeBits : Corrupt(p)
  \/ Decode
  \/ Send

Spec == Init /\ [][Next]_vars

-----------------------------------------------------------------------------
\* Golay2087::decode returns the transmitted information word whenever the
\* channel flipped at most three of the 20 bits that Golay2087::encode
\* produced: the encoder's table, its byte order, the decoder's bit
\* extraction, the syndrome division and the decoding table all agree.
CorrectsRatedErrors ==
  (stage = "done" /\ Cardinality(errors) <= 3) => decoded = info

\* Number of set bits of n.
RECURSIVE Weight(_)
Weight(n) == IF n = 0 THEN 0 ELSE (n % 2) + Weight(n \div 2)

\* The 19-bit vector decode() reads from the codeword of information word w.
Codeword == [w \in Byte |-> ReceivedVector(encode([i \in 0..2 |-> IF i = 0 THEN w ELSE 0]))]

\* Hamming distance between the codeword of w and the received vector r.
Distance(w, r) == Weight(Codeword[w] ^^ r)

\* Beyond the three bits it is rated for, Golay2087::decode still never
\* reports failure: DECODING_TABLE_1987 holds a least-weight error pattern
\* for (nearly) every syndrome, so decode silently returns some word.  With
\* up to four flipped bits that word's codeword is never farther from the
\* received vector than the transmitted codeword: a miscorrection picks a
\* codeword at least as close as the one sent (bit 19, which decode ignores,
\* does not count).
NoFartherThanSent ==
  stage = "done" =>
    Distance(decoded, ReceivedVector(data)) <= Cardinality(errors \ {19})

=============================================================================
