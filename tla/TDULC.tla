------------------------------- MODULE TDULC -------------------------------
(***************************************************************************)
(* P25 terminator data units with link control (TDULC): LC_GROUP encode   *)
(* and decode (p25/lc/tdulc/LC_GROUP.cpp) and the receive-side factory     *)
(* TDULCFactory::createTDULC (p25/lc/tdulc/TDULCFactory.cpp).              *)
(*                                                                         *)
(* A transmitter builds one TDULC at a time: either an LC_GROUP object,   *)
(* whose encode() packs its fields into a 64-bit value, or a TDULC of some *)
(* other LCO sent by other equipment.  The channel corrupts RS symbols,   *)
(* each error garbling a byte of the block; the receiver runs the factory *)
(* on what arrives.                                                        *)
(*                                                                         *)
(* The link-control block is the 9-byte RS payload rs[0..8]: rs[0] holds  *)
(* the LCO in its low 6 bits, rs[1..8] the 64-bit value.  The base class  *)
(* TDULC (encode, decode, toValue, fromValue), the Golay (24,12,8) and RS  *)
(* (24,12,13) codecs and the interleaver are not in this repository; they *)
(* are modelled from the specification: RS(24,12,13) restores the block   *)
(* when at most 6 of its symbols are in error and reports failure         *)
(* otherwise.                                                              *)
(***************************************************************************)
EXTENDS Naturals, UInt64

CONSTANTS
  MfIds,           \* manufacturer ids an LC_GROUP may carry
  DstIds,          \* talkgroup ids
  SrcIds,          \* source radio ids
  Priorities,      \* priority values
  ForeignLcoBytes, \* rs[0] bytes of TDULCs sent by other equipment
  MaxSymbolErrors, \* most RS symbols the channel corrupts in one TDULC
  CorruptBytes     \* the bytes of the block a symbol error may garble

\* LCO values of P25Defines.h (TIA-102.AABF).
LC_GROUP            == \h00
LC_PRIVATE          == \h03
LC_TEL_INT_VCH_USER == \h06
LC_CALL_TERM        == \h0F

\* The RS (24,12,13) code corrects up to (24 - 12) / 2 symbol errors.
RsCapability == 6

Byte == 0..255
Block == [0..8 -> Byte]


\* The fields of an LC_GROUP object (m_group is always TRUE for it).
GroupFields == [mfId : MfIds, emergency : BOOLEAN, encrypted : BOOLEAN,
                priority : Priorities, dstId : DstIds, srcId : SrcIds]

\* Fields of a frame class other than LC_GROUP, which this model does not read.
NoFields == [mfId |-> 0, emergency |-> FALSE, encrypted |-> FALSE,
             priority |-> 0, dstId |-> 0, srcId |-> 0]

\* What createTDULC hands back: a frame (status "frame") of class lco with
\* the decoded LC_GROUP fields, or nullptr (status "none").
Frame(lco, fields) == [status |-> "frame", lco |-> lco, fields |-> fields]
NoFrame == [status |-> "none", lco |-> 0, fields |-> NoFields]
Pending == [status |-> "pending", lco |-> 0, fields |-> NoFields]

\* TDULC::toValue: rs[1..8] as one big-endian 64-bit value.
toValue(rs) == FromBytes([k \in 0..7 |-> rs[k + 1]])

\* TDULC::fromValue: the 64-bit value as rs[1..8].  TDULC::encode then
\* stores the LCO in rs[0] before the FEC encoders run.
fromValue(rsValue, lco) ==
  [k \in 0..8 |-> IF k = 0 THEN lco ELSE ByteOf(rsValue, k - 1)]

\* LC_GROUP::encode: the 64-bit value mfId | flags | dstId | srcId, built
\* by successive shift-and-add, handed to TDULC::encode.
LC_GROUP_encode(f) ==
  LET flags   == (IF f.emergency THEN \h80 ELSE 0)
                   + (IF f.encrypted THEN \h40 ELSE 0) + (f.priority % 8)
      rsValue == ShiftAdd(ShiftAdd(ShiftAdd(FromNat(f.mfId), 8, flags),
                                   24, f.dstId), 24, f.srcId)
  IN  fromValue(rsValue, LC_GROUP)

\* Mutant of LC_GROUP_decode: the priority read with a 2-bit mask.
LC_GROUP_decode_prio2(rs) ==
  LET rsValue == toValue(rs)
  IN  [mfId      |-> rs[1],
       emergency |-> (rs[2] \div \h80) % 2 = 1,
       encrypted |-> (rs[2] \div \h40) % 2 = 1,
       priority  |-> rs[2] % 4,
       dstId     |-> Field(rsValue, 24, 16),
       srcId     |-> Field(rsValue, 0, 24)]

\* Mutant of LC_GROUP_decode: the priority stored without its 3-bit mask,
\* so the emergency and encryption flags leak into it.
LC_GROUP_decode_prio_unmasked(rs) ==
  LET rsValue == toValue(rs)
  IN  [mfId      |-> rs[1],
       emergency |-> (rs[2] \div \h80) % 2 = 1,
       encrypted |-> (rs[2] \div \h40) % 2 = 1,
       priority  |-> rs[2],
       dstId     |-> Field(rsValue, 24, 16),
       srcId     |-> Field(rsValue, 0, 24)]

\* LC_GROUP::decode after TDULC::decode succeeded on rs.
LC_GROUP_decode(rs) ==
  LET rsValue == toValue(rs)
  IN  [mfId      |-> rs[1],
       emergency |-> (rs[2] \div \h80) % 2 = 1,
       encrypted |-> (rs[2] \div \h40) % 2 = 1,
       priority  |-> rs[2] % 8,
       dstId     |-> Field(rsValue, 24, 16),
       srcId     |-> Field(rsValue, 0, 24)]

\* Deinterleave, Golay (24,12,8) and RS (24,12,13) decoding of a received
\* TDULC: TRUE when RS decode241213 succeeds.
FecDecodes(frame) == frame.symErrors <= RsCapability

\* The rs[] decode241213 leaves: the block as encoded when it succeeds,
\* the garbled block as received when it fails.
Restored(frame) == IF FecDecodes(frame) THEN frame.sentRs ELSE frame.rs

\* The frame classes the factory's switch dispatches to.
DispatchedLcos == {LC_GROUP, LC_PRIVATE, LC_TEL_INT_VCH_USER}

\* Mutant of createTDULC: the result of decode241213 is not checked.
createTDULC_unchecked(frame) ==
  LET rs == Restored(frame)
      lco == rs[0] % \h40
  IN  CASE lco = LC_GROUP ->
             IF FecDecodes(frame)
             THEN Frame(lco, LC_GROUP_decode(rs))
             ELSE NoFrame
        [] lco \in DispatchedLcos \ {LC_GROUP} -> Frame(lco, NoFields)
        [] OTHER -> NoFrame

\* TDULCFactory::createTDULC (with TDULCFactory::decode): NoFrame when the
\* FEC fails, otherwise the frame class selected by the low 6 bits of
\* rs[0], decoded by that class's decode() (which runs TDULC::decode, and
\* so the FEC, again); NoFrame for an LCO outside the switch.  The classes
\* other than LC_GROUP are recorded by their LCO only.
createTDULC(frame) ==
  LET rs == Restored(frame)
  IN  IF ~FecDecodes(frame) THEN NoFrame
      ELSE LET lco == rs[0] % \h40
           IN  CASE lco = LC_GROUP ->
                      IF FecDecodes(frame)
                      THEN Frame(lco, LC_GROUP_decode(rs))
                      ELSE NoFrame
                 [] lco \in DispatchedLcos \ {LC_GROUP} ->
                      Frame(lco, NoFields)
                 [] OTHER -> NoFrame

VARIABLES
  sent,     \* what the transmitter sent: [lco, group, fields]
  air,      \* the TDULC in flight: [rs as received, sentRs as encoded, symErrors]
  result,   \* what createTDULC returned for it, or Pending
  stage     \* "idle" or "air"

vars == <<sent, air, result, stage>>

TypeOK ==
  /\ sent \in [lco : 0..63, group : BOOLEAN, fields : GroupFields \cup {NoFields}]
  /\ air \in [rs : Block, sentRs : Block, symErrors : 0..MaxSymbolErrors]
  /\ result \in [status : {"pending", "none", "frame"}, lco : 0..63,
                 fields : [mfId : Byte, emergency : BOOLEAN, encrypted : BOOLEAN,
                           priority : 0..7, dstId : 0..(2^16 - 1),
                           srcId : 0..(2^24 - 1)]]
  /\ stage \in {"idle", "air"}

Init ==
  /\ sent = [lco |-> LC_GROUP, group |-> FALSE, fields |-> NoFields]
  /\ air = [rs |-> [k \in 0..8 |-> 0], sentRs |-> [k \in 0..8 |-> 0], symErrors |-> 0]
  /\ result = Pending
  /\ stage = "idle"

\* The transmitter sets an LC_GROUP object's fields and calls encode().
SendGroup(f) ==
  /\ stage = "idle"
  /\ sent' = [lco |-> LC_GROUP, group |-> TRUE, fields |-> f]
  /\ air' = [rs |-> LC_GROUP_encode(f), sentRs |-> LC_GROUP_encode(f), symErrors |-> 0]
  /\ result' = Pending
  /\ stage' = "air"

\* Other equipment sends a TDULC whose rs[0] is b (payload all zero).
SendForeign(b) ==
  /\ stage = "idle"
  /\ sent' = [lco |-> b % \h40, group |-> FALSE, fields |-> NoFields]
  /\ LET rs == [k \in 0..8 |-> IF k = 0 THEN b ELSE 0]
     IN  air' = [rs |-> rs, sentRs |-> rs, symErrors |-> 0]
  /\ result' = Pending
  /\ stage' = "air"

\* Two low bits of a byte inverted (a 6-bit RS symbol spans them).
Garble(v) == (v \div 4) * 4 + (3 - (v % 4))

\* The channel corrupts one more RS symbol of the TDULC in flight, which
\* garbles byte k of the block.
Corrupt(k) ==
  /\ stage = "air"
  /\ air.symErrors < MaxSymbolErrors
  /\ air' = [air EXCEPT !.symErrors = @ + 1, !.rs[k] = Garble(@)]
  /\ UNCHANGED <<sent, result, stage>>

\* The receiver hands the TDULC to TDULCFactory::createTDULC.
Receive ==
  /\ stage = "air"
  /\ result' = createTDULC(air)
  /\ stage' = "idle"
  /\ UNCHANGED <<sent, air>>

Next ==
  \/ \E f \in GroupFields : SendGroup(f)
  \/ \E b \in ForeignLcoBytes : SendForeign(b)
  \/ \E k \in CorruptBytes : Corrupt(k)
  \/ Receive

Spec == Init /\ [][Next]_vars

-----------------------------------------------------------------------------
\* An LC_GROUP that createTDULC returns carries exactly the manufacturer,
\* flags, priority, talkgroup and source the transmitter's LC_GROUP::encode
\* packed: the shift-and-add layout of encode() and the byte and
\* shift-and-mask reads of decode() agree on every field.
GroupRoundTrip ==
  (result.status = "frame" /\ result.lco = LC_GROUP /\ sent.group)
    => result.fields = sent.fields

\* Every frame createTDULC returns is of the class named by the LCO that
\* was sent, however the channel garbled the block: a TDULC with more
\* symbol errors than RS (24,12,13) corrects is dropped when decode241213
\* fails, never dispatched on its garbled LCO byte or decoded from its
\* garbled fields.
FrameOfSentLco ==
  result.status = "frame" => result.lco = sent.lco

\* Every correctable TDULC whose LCO has a frame class in this code base
\* (LC_GROUP, LC_PRIVATE, LC_TEL_INT_VCH_USER, LC_CALL_TERM) yields a frame
\* of that class; only unknown LCOs are dropped.
KnownLcoDispatched ==
  (result.status # "pending" /\ air.symErrors <= RsCapability
     /\ sent.lco \in DispatchedLcos \cup {LC_CALL_TERM})
    => result.status = "frame"

=============================================================================
