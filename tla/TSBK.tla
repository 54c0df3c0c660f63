------------------------------- MODULE TSBK -------------------------------
(***************************************************************************)
(* Two P25 trunking signalling blocks (TSBK) of the registration exchange *)
(* between a subscriber radio and a site:                                  *)
(*   ISP_U_DEREG_REQ (p25/lc/tsbk/ISP_U_DEREG_REQ.cpp), inbound: the site *)
(*     decodes the radio's de-registration request;                        *)
(*   OSP_LOC_REG_RSP (p25/lc/tsbk/OSP_LOC_REG_RSP.cpp), outbound: the site *)
(*     encodes the location registration response the radio decodes.      *)
(* Each direction carries at most one TSBK at a time and may corrupt it.   *)
(*                                                                         *)
(* A TSBK's 64-bit payload is tsbk[2..9] (TSBK::toValue / fromValue); the *)
(* base class TSBK (trellis coding and CRC) and the radio, which is other  *)
(* equipment, are not in this repository: the radio encodes and decodes by *)
(* the TIA-102.AABC field layout, and TSBK::decode fails exactly when the  *)
(* block was corrupted (CRC-CCITT mismatch).                               *)
(*                                                                         *)
(* ISP_U_DEREG_REQ::encode and OSP_LOC_REG_RSP::decode are stubs in the   *)
(* source (the site never sends the one or receives the other).           *)
(***************************************************************************)
EXTENDS Naturals, Sequences, UInt64

CONSTANTS
  NetIds,     \* WACN ids (20 bits)
  SysIds,     \* system ids (12 bits)
  RfssIds,    \* RFSS ids (8 bits)
  SiteIds,    \* site ids (8 bits)
  SrcIds,     \* radio ids (24 bits)
  DstIds,     \* talkgroup ids (16 bits)
  Responses   \* registration response values (2 bits)

\* The site's p25::SiteData, as OSP_LOC_REG_RSP's m_siteData sees it.
Sites == [netId : NetIds, sysId : SysIds, rfssId : RfssIds, siteId : SiteIds]

DeregRequests == [netId : NetIds, sysId : SysIds, srcId : SrcIds]
LocRegResponses == [response : Responses, dstId : DstIds, rfssId : RfssIds,
                    siteId : SiteIds, srcId : SrcIds]

\* The radio's U_DE_REG_REQ payload: 8 reserved bits, WACN id (20),
\* system id (12), source address (24).
RadioEncodeDereg(r) == ShiftAdd(ShiftAdd(FromNat(r.netId), 12, r.sysId), 24, r.srcId)

\* Mutant of ISP_U_DEREG_REQ_decode: the system id read with an 8-bit mask.
ISP_U_DEREG_REQ_decode_sys8(tsbkValue) ==
  [netId |-> Field(tsbkValue, 36, 20),
   sysId |-> Field(tsbkValue, 24, 8),
   srcId |-> Field(tsbkValue, 0, 24)]

\* Mutant of ISP_U_DEREG_REQ_decode: the system id read with a 16-bit mask.
ISP_U_DEREG_REQ_decode_sys16(tsbkValue) ==
  [netId |-> Field(tsbkValue, 36, 20),
   sysId |-> Field(tsbkValue, 24, 16),
   srcId |-> Field(tsbkValue, 0, 24)]

\* ISP_U_DEREG_REQ::decode after TSBK::decode succeeded.
ISP_U_DEREG_REQ_decode(tsbkValue) ==
  [netId |-> Field(tsbkValue, 36, 20),
   sysId |-> Field(tsbkValue, 24, 12),
   srcId |-> Field(tsbkValue, 0, 24)]

\* OSP_LOC_REG_RSP::encode: response, talkgroup, RFSS id, the site data's
\* sysId in the byte the source comments as "Site ID", source address.
OSP_LOC_REG_RSP_encode(response, dstId, srcId, siteData) ==
  LET v1 == ShiftAdd(FromNat(0), 6, response % 4)
      v2 == ShiftAdd(v1, 16, dstId % 2^16)
      v3 == ShiftAdd(v2, 8, siteData.rfssId)
      v4 == ShiftAdd(v3, 8, siteData.sysId)
  IN  ShiftAdd(v4, 24, srcId)

\* The radio's LOC_REG_RSP layout: 6 reserved bits, response (2),
\* group address (16), RFSS id (8), site id (8), target address (24).
RadioDecodeLocRegRsp(tsbkValue) ==
  [response |-> Field(tsbkValue, 56, 2),
   dstId    |-> Field(tsbkValue, 40, 16),
   rfssId   |-> Field(tsbkValue, 32, 8),
   siteId   |-> Field(tsbkValue, 24, 8),
   srcId    |-> Field(tsbkValue, 0, 24)]

NoTsbk == [value |-> FromNat(0), intact |-> FALSE, full |-> FALSE]

VARIABLES
  site,          \* the site's SiteData
  inbound,       \* the TSBK on the inbound channel: [value, intact, full]
  outbound,      \* the TSBK on the outbound channel
  sentDereg,     \* the request the radio last sent: <<>> or <<fields>>
  siteDereg,     \* the site's ISP_U_DEREG_REQ fields: <<>> (as constructed) or <<fields>>
  deregRet,      \* what the site's last ISP_U_DEREG_REQ::decode returned
  recvDereg,     \* the request the block the site last decoded carried (ghost)
  sentRsp,       \* the response the site last encoded: <<>> or <<fields>>
  radioRsp       \* what the radio decoded from it: <<>> or <<fields>>

vars == <<site, inbound, outbound, sentDereg, siteDereg, deregRet, recvDereg,
          sentRsp, radioRsp>>

Channels == [value : Word64, intact : BOOLEAN, full : BOOLEAN]

\* A decoded record or <<>>.
OptionOf(x, S) == x = <<>> \/ (Len(x) = 1 /\ x[1] \in S)

TypeOK ==
  /\ site \in Sites
  /\ inbound \in Channels /\ outbound \in Channels
  /\ OptionOf(sentDereg, DeregRequests)
  /\ OptionOf(siteDereg, [netId : 0..(2^20 - 1), sysId : 0..4095,
                          srcId : 0..(2^24 - 1)])
  /\ deregRet \in BOOLEAN
  /\ OptionOf(recvDereg, DeregRequests)
  /\ OptionOf(sentRsp, LocRegResponses)
  /\ OptionOf(radioRsp, [response : 0..3, dstId : 0..65535, rfssId : 0..255,
                         siteId : 0..255, srcId : 0..(2^24 - 1)])

Init ==
  /\ site \in Sites
  /\ inbound = NoTsbk /\ outbound = NoTsbk
  /\ sentDereg = <<>> /\ siteDereg = <<>>
  /\ deregRet = FALSE /\ recvDereg = <<>>
  /\ sentRsp = <<>> /\ radioRsp = <<>>

\* A radio sends a unit de-registration request.
RadioSendDereg(r) ==
  /\ ~inbound.full
  /\ inbound' = [value |-> RadioEncodeDereg(r), intact |-> TRUE, full |-> TRUE]
  /\ sentDereg' = <<r>>
  /\ UNCHANGED <<site, outbound, siteDereg, deregRet, recvDereg, sentRsp, radioRsp>>

\* The site decodes the inbound TSBK as ISP_U_DEREG_REQ: decode returns
\* false, leaving the object's fields untouched, when TSBK::decode fails.
SiteRecvDereg ==
  /\ inbound.full
  /\ deregRet' = inbound.intact
  /\ siteDereg' = IF inbound.intact THEN <<ISP_U_DEREG_REQ_decode(inbound.value)>>
                  ELSE siteDereg
  /\ recvDereg' = sentDereg
  /\ inbound' = NoTsbk
  /\ UNCHANGED <<site, outbound, sentDereg, sentRsp, radioRsp>>

\* The site answers a registration with OSP_LOC_REG_RSP::encode.
SiteSendLocRegRsp(response, dstId, srcId) ==
  /\ ~outbound.full
  /\ outbound' = [value |-> OSP_LOC_REG_RSP_encode(response, dstId, srcId, site),
                  intact |-> TRUE, full |-> TRUE]
  /\ sentRsp' = <<[response |-> response, dstId |-> dstId, rfssId |-> site.rfssId,
                   siteId |-> site.siteId, srcId |-> srcId]>>
  /\ radioRsp' = <<>>
  /\ UNCHANGED <<site, inbound, sentDereg, siteDereg, deregRet, recvDereg>>

\* The radio decodes the outbound TSBK by the standard layout.
RadioRecvLocRegRsp ==
  /\ outbound.full
  /\ radioRsp' = IF outbound.intact THEN <<RadioDecodeLocRegRsp(outbound.value)>>
                 ELSE <<>>
  /\ outbound' = NoTsbk
  /\ UNCHANGED <<site, inbound, sentDereg, siteDereg, deregRet, recvDereg, sentRsp>>

\* A channel corrupts the TSBK it carries beyond what trellis coding fixes.
Corrupt ==
  \/ inbound.full /\ inbound' = [inbound EXCEPT !.intact = FALSE]
       /\ UNCHANGED outbound
  \/ outbound.full /\ outbound' = [outbound EXCEPT !.intact = FALSE]
       /\ UNCHANGED inbound

Next ==
  \/ \E r \in DeregRequests : RadioSendDereg(r)
  \/ SiteRecvDereg
  \/ \E rv \in Responses, d \in DstIds, s \in SrcIds : SiteSendLocRegRsp(rv, d, s)
  \/ RadioRecvLocRegRsp
  \/ Corrupt /\ UNCHANGED <<site, sentDereg, siteDereg, deregRet, recvDereg,
                             sentRsp, radioRsp>>

Spec == Init /\ [][Next]_vars

-----------------------------------------------------------------------------
\* Whenever ISP_U_DEREG_REQ::decode last returned true, the object's fields
\* name the network, system and radio of the request that block carried:
\* decode reads each field at the offset and width of the standard layout.
\* After a false return the fields still hold an earlier request's values,
\* so a caller may only read them on true.
DeregDecodedAsSent ==
  deregRet => siteDereg = recvDereg

\* A location registration response the radio decodes names the site's
\* RFSS and site ids, the talkgroup and the radio the site meant, as the
\* field comments of OSP_LOC_REG_RSP::encode say.
LocRegRspDecodedAsSent ==
  radioRsp # <<>> => radioRsp = sentRsp

=============================================================================
