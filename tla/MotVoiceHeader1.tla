--------------------------- MODULE MotVoiceHeader1 ---------------------------
(***************************************************************************)
(* p25::dfsi::MotVoiceHeader1 (dfsi/frames/MotVoiceHeader1.cpp): the      *)
(* first voice header frame of the Motorola V.24 DFSI stream.  Objects    *)
(* (the CONSTANT Objects) live through constructions, decode() calls and  *)
(* encode() calls into a caller's output buffer, which keeps whatever an  *)
(* earlier encode or other code left in it.                                *)
(*                                                                         *)
(* The object owns two heap buffers: startOfStream (a MotStartOfStream)    *)
(* and header (HCW_LENGTH bytes).  MotStartOfStream, the frame type        *)
(* values and the two LENGTH constants are declared in headers that are    *)
(* not in this repository: the lengths are CONSTANTS, and the start-of-    *)
(* stream object is recorded by the four frame bytes it was decoded from.  *)
(* Bytes are kept as opaque values: a received frame carries a distinct    *)
(* value at each position, so that a byte moved to the wrong place shows. *)
(***************************************************************************)
EXTENDS Naturals, Sequences

CONSTANTS
  Objects,       \* MotVoiceHeader1 objects of the program
  LENGTH,        \* MotVoiceHeader1::LENGTH
  HCW_LENGTH,    \* MotVoiceHeader1::HCW_LENGTH
  Frames,        \* received frames: functions 0..LENGTH-1 -> byte values
  Garbage,       \* output buffers as callers hand them over, holding old bytes
  MOT_VHDR_1,    \* DFSIFrameType::MOT_VHDR_1
  DIU, INVALID, QUANTAR, \* ICWFlag::DIU, RssiValidityFlag::INVALID, SourceFlag::QUANTAR
  Zero           \* the byte 0x00

ASSUME LENGTH >= 30 /\ 9 + HCW_LENGTH <= LENGTH

Positions == 0..(LENGTH - 1)

\* The record bytes data[1..4] a MotStartOfStream is decoded from, and the
\* object a default-constructed MotStartOfStream is.
StartRecord == 1..4
DefaultStartOfStream == [k \in StartRecord |-> <<"sosDefault">>]

\* What MotStartOfStream::encode writes at buffer[k] for the object sos.
SosByte(sos, k) == <<"sos", sos[k]>>

VARIABLES
  live,          \* live[o]: o exists (between a constructor and ~MotVoiceHeader1)
  startOfStream, \* startOfStream[o]: the MotStartOfStream o owns
  header,        \* header[o]: the owned header buffer, <<>> for nullptr
  fields,        \* fields[o]: [icw, rssi, rssiValidity, nRssi, source]
  out,           \* the output buffer of the last encode()
  lastDecoded    \* lastDecoded[o]: the frame o last decoded, <<>> if none since construction

vars == <<live, startOfStream, header, fields, out, lastDecoded>>

DefaultFields == [icw |-> DIU, rssi |-> Zero, rssiValidity |-> INVALID, nRssi |-> Zero,
                  source |-> QUANTAR]

Bytes == (UNION {{f[i] : i \in Positions} : f \in Frames})
           \cup (UNION {{g[i] : i \in Positions} : g \in Garbage}) \cup {Zero, MOT_VHDR_1, DIU, INVALID, QUANTAR}
           \cup {SosByte(s, k) : s \in {DefaultStartOfStream}
                   \cup {[j \in StartRecord |-> f[j]] : f \in Frames}, k \in StartRecord}

TypeOK ==
  /\ live \in [Objects -> BOOLEAN]
  /\ \A o \in Objects :
       /\ startOfStream[o] \in {DefaultStartOfStream}
                               \cup {[k \in StartRecord |-> f[k]] : f \in Frames}
       /\ header[o] \in {<<>>} \cup [1..HCW_LENGTH -> Bytes]
       /\ fields[o] \in [{"icw", "rssi", "rssiValidity", "nRssi", "source"} -> Bytes]
       /\ lastDecoded[o] \in {<<>>} \cup {<<f>> : f \in Frames}
  /\ out \in [Positions -> Bytes]

\* Mutant of decode: the new header allocated one byte short.
decode_shortHeader(o, data) ==
  /\ startOfStream' = [startOfStream EXCEPT ![o] = [k \in StartRecord |-> data[k]]]
  /\ fields' = [fields EXCEPT ![o] = [icw |-> data[5], rssi |-> data[6],
                  rssiValidity |-> data[7], nRssi |-> data[8], source |-> data[29]]]
  /\ header' = [header EXCEPT ![o] = [i \in 1..(HCW_LENGTH - 1) |-> data[8 + i]]]
  /\ lastDecoded' = [lastDecoded EXCEPT ![o] = <<data>>]

\* MotVoiceHeader1::decode(data): a fresh start of stream decoded from
\* data[1..4], the four flag bytes, the source byte data[29], and a fresh
\* header holding data[9 .. 9 + HCW_LENGTH - 1].
decode(o, data) ==
  /\ startOfStream' = [startOfStream EXCEPT ![o] = [k \in StartRecord |-> data[k]]]
  /\ fields' = [fields EXCEPT ![o] = [icw |-> data[5], rssi |-> data[6],
                  rssiValidity |-> data[7], nRssi |-> data[8], source |-> data[29]]]
  /\ header' = [header EXCEPT ![o] = [i \in 1..HCW_LENGTH |-> data[8 + i]]]
  /\ lastDecoded' = [lastDecoded EXCEPT ![o] = <<data>>]

\* The bytes 5..8 encode() writes from the object's flag fields.
FlagBytes(o) == [i \in 5..8 |-> CASE i = 5 -> fields[o].icw
                                   [] i = 6 -> fields[o].rssi
                                   [] i = 7 -> fields[o].rssiValidity
                                   [] i = 8 -> fields[o].nRssi]

\* The header copy memcpy(data + at, header, HCW_LENGTH) when header is
\* allocated.
CopyHeader(o, buf, at) ==
  IF header[o] = <<>> THEN buf
  ELSE [i \in Positions |-> IF i \in at..(at + HCW_LENGTH - 1) THEN header[o][i - at + 1]
                           ELSE buf[i]]

\* Mutant of encode: the header copied to data + 8U.
encode_offByOne(o, buf) ==
  LET fixed == [i \in Positions |->
                  CASE i = 0 -> MOT_VHDR_1
                    [] i \in StartRecord -> SosByte(startOfStream[o], i)
                    [] i \in 5..8 -> FlagBytes(o)[i]
                    [] OTHER -> buf[i]]
  IN  [CopyHeader(o, fixed, 8) EXCEPT ![LENGTH - 1] = fields[o].source]

\* MotVoiceHeader1::encode(data): the frame type, the start of stream's
\* record bytes, the flag bytes, the header when it is allocated, and
\* last the source byte at data[LENGTH - 1U].  Positions none of these
\* writes reach keep what the buffer held.
encode(o, buf) ==
  LET fixed == [i \in Positions |->
                  CASE i = 0 -> MOT_VHDR_1
                    [] i \in StartRecord -> SosByte(startOfStream[o], i)
                    [] i \in 5..8 -> FlagBytes(o)[i]
                    [] OTHER -> buf[i]]
  IN  [CopyHeader(o, fixed, 9) EXCEPT ![LENGTH - 1] = fields[o].source]

Init ==
  /\ live = [o \in Objects |-> FALSE]
  /\ startOfStream = [o \in Objects |-> DefaultStartOfStream]
  /\ header = [o \in Objects |-> <<>>]
  /\ fields = [o \in Objects |-> DefaultFields]
  /\ out \in Garbage
  /\ lastDecoded = [o \in Objects |-> <<>>]

\* o = new MotVoiceHeader1(): a new start of stream and a zeroed header.
ConstructDefault(o) ==
  /\ ~live[o]
  /\ live' = [live EXCEPT ![o] = TRUE]
  /\ startOfStream' = [startOfStream EXCEPT ![o] = DefaultStartOfStream]
  /\ header' = [header EXCEPT ![o] = [i \in 1..HCW_LENGTH |-> Zero]]
  /\ fields' = [fields EXCEPT ![o] = DefaultFields]
  /\ lastDecoded' = [lastDecoded EXCEPT ![o] = <<>>]
  /\ UNCHANGED out

\* o = new MotVoiceHeader1(data): both pointers null, then decode(data).
ConstructFromData(o, data) ==
  /\ ~live[o]
  /\ live' = [live EXCEPT ![o] = TRUE]
  /\ decode(o, data)
  /\ UNCHANGED out

\* o->decode(data): the old start of stream and header are deleted and
\* replaced.
Decode(o, data) ==
  /\ live[o]
  /\ decode(o, data)
  /\ UNCHANGED <<live, out>>

\* o->encode(buf), into a buffer of the caller's or again into the last one.
Encode(o, buf) ==
  /\ live[o]
  /\ out' = encode(o, buf)
  /\ UNCHANGED <<live, startOfStream, header, fields, lastDecoded>>

\* delete o: ~MotVoiceHeader1() deletes both owned buffers.
Destroy(o) ==
  /\ live[o]
  /\ live' = [live EXCEPT ![o] = FALSE]
  /\ startOfStream' = [startOfStream EXCEPT ![o] = DefaultStartOfStream]
  /\ header' = [header EXCEPT ![o] = <<>>]
  /\ fields' = [fields EXCEPT ![o] = DefaultFields]
  /\ lastDecoded' = [lastDecoded EXCEPT ![o] = <<>>]
  /\ UNCHANGED out

Next ==
  \E o \in Objects :
    \/ ConstructDefault(o)
    \/ \E f \in Frames : ConstructFromData(o, f)
    \/ \E f \in Frames : Decode(o, f)
    \/ \E buf \in Garbage \cup {out} : Encode(o, buf)
    \/ Destroy(o)

Spec == Init /\ [][Next]_vars

-----------------------------------------------------------------------------
\* Whatever constructions, decodes and encodes of any object came before,
\* o->encode() after o->decode(f) writes the frame f back: MOT_VHDR_1 at
\* byte 0, the start-of-stream record decoded from f[1..4], and f itself at
\* every later position, so that nothing of another frame, of another
\* object or of the output buffer's old contents survives.
EncodeReproducesDecoded ==
  [][\A o \in Objects :
       ((\E buf \in Garbage \cup {out} : Encode(o, buf)) /\ lastDecoded[o] # <<>>) =>
         LET f == lastDecoded[o][1]
         IN  /\ out'[0] = MOT_VHDR_1
             /\ \A k \in StartRecord :
                  out'[k] = SosByte([j \in StartRecord |-> f[j]], k)
             /\ \A i \in 5..(LENGTH - 1) : out'[i] = f[i]]_vars

=============================================================================
