--------------------------- MODULE NxdnSiteData ---------------------------
(***************************************************************************)
(* nxdn::SiteData (common/nxdn/SiteData.h): the value object describing   *)
(* the local or an adjacent NXDN site.  Several SiteData objects live in  *)
(* the program (the local site, adjacent-site entries, copies embedded in *)
(* frames); each is built by a constructor and then changed by the        *)
(* setters or overwritten by operator=.  Objects are the CONSTANT Slots.  *)
(*                                                                         *)
(* The callsign and the site information bytes are kept as opaque values; *)
(* no property distinguishes their contents.                               *)
(***************************************************************************)
EXTENDS Naturals

CONSTANTS
  Slots,          \* SiteData objects of the program
  LocIds,         \* uint32_t locId arguments callers pass
  ChannelIds,     \* uint8_t channelId arguments
  ChannelNos,     \* uint32_t channelNo arguments
  SiteInfos,      \* siteInfo1 / siteInfo2 arguments
  Callsigns,      \* setCallsign arguments
  DefaultSiteInfo1 \* SiteInformation1::VOICE_CALL_SVC | DATA_CALL_SVC

ASSUME LocIds \subseteq 0..(2^30) /\ ChannelIds \subseteq 0..255
ASSUME ChannelNos \subseteq 0..(2^30)

MaxLocId == \hFFFFFF

Sites == [locId : Nat, channelId : 0..255, channelNo : Nat,
          siteInfo1 : SiteInfos \cup {DefaultSiteInfo1}, siteInfo2 : SiteInfos,
          isAdjSite : BOOLEAN, callsign : Callsigns \cup {"CHANGEME", "ADJSITE "},
          requireReg : BOOLEAN, netActive : BOOLEAN]

\* The channel id clamp and the two channel number clamps of both the
\* constructor and setAdjSite.
ClampChannelId(channelId) == IF channelId > 15 THEN 15 ELSE channelId
ClampChannelNo(channelNo) ==
  LET atLeast1 == IF channelNo = 0 THEN 1 ELSE channelNo
  IN  IF atLeast1 > 1023 THEN 1023 ELSE atLeast1

\* SiteData(): the default constructor.
DefaultSite ==
  [locId |-> 1, channelId |-> 1, channelNo |-> 1,
   siteInfo1 |-> DefaultSiteInfo1, siteInfo2 |-> 0, isAdjSite |-> FALSE,
   callsign |-> "CHANGEME", requireReg |-> FALSE, netActive |-> FALSE]

\* SiteData(locId, channelId, channelNo, siteInfo1, siteInfo2, requireReq).
NewSite(locId, channelId, channelNo, siteInfo1, siteInfo2, requireReq) ==
  [locId |-> IF locId > MaxLocId THEN MaxLocId ELSE locId,
   channelId |-> ClampChannelId(channelId),
   channelNo |-> ClampChannelNo(channelNo),
   siteInfo1 |-> siteInfo1, siteInfo2 |-> siteInfo2, isAdjSite |-> FALSE,
   callsign |-> "CHANGEME", requireReg |-> requireReq, netActive |-> FALSE]

\* Mutant of AdjSite: the channel number stored without its clamps.
AdjSite_unclamped(sd, locId, channelId, channelNo, siteInfo1, siteInfo2) ==
  [sd EXCEPT
     !.locId = locId,
     !.channelId = ClampChannelId(channelId),
     !.channelNo = channelNo,
     !.siteInfo1 = siteInfo1, !.siteInfo2 = siteInfo2,
     !.isAdjSite = TRUE, !.callsign = "ADJSITE ", !.netActive = TRUE]

\* setAdjSite: the locId clamp tests the object's current m_locId, and the
\* argument locId is then stored as it is; channelId and channelNo are the
\* clamped arguments.  rfssId and siteId are accepted and unused.
AdjSite(sd, locId, channelId, channelNo, siteInfo1, siteInfo2) ==
  [sd EXCEPT
     !.locId = locId,
     !.channelId = ClampChannelId(channelId),
     !.channelNo = ClampChannelNo(channelNo),
     !.siteInfo1 = siteInfo1, !.siteInfo2 = siteInfo2,
     !.isAdjSite = TRUE, !.callsign = "ADJSITE ", !.netActive = TRUE]

VARIABLE site   \* site[s]: the fields of SiteData object s

TypeOK == site \in [Slots -> Sites]

\* Every object starts default-constructed.
Init == site = [s \in Slots |-> DefaultSite]

\* s = SiteData(locId, channelId, channelNo, siteInfo1, siteInfo2, requireReq)
Construct(s, locId, channelId, channelNo, info1, info2, req) ==
  site' = [site EXCEPT ![s] = NewSite(locId, channelId, channelNo, info1, info2, req)]

\* s.setCallsign(callsign)
SetCallsign(s, callsign) == site' = [site EXCEPT ![s].callsign = callsign]

\* s.setNetActive(netActive)
SetNetActive(s, netActive) == site' = [site EXCEPT ![s].netActive = netActive]

\* s.setAdjSite(locId, rfssId, siteId, channelId, channelNo, siteInfo1, siteInfo2)
SetAdjSite(s, locId, channelId, channelNo, info1, info2) ==
  site' = [site EXCEPT ![s] = AdjSite(@, locId, channelId, channelNo, info1, info2)]

\* d = s (operator=): every field is copied; self-assignment changes nothing.
Assign(d, s) == site' = [site EXCEPT ![d] = site[s]]

Next ==
  \E s \in Slots :
    \/ \E l \in LocIds, ci \in ChannelIds, cn \in ChannelNos,
          i1, i2 \in SiteInfos, r \in BOOLEAN :
          Construct(s, l, ci, cn, i1, i2, r)
    \/ \E c \in Callsigns : SetCallsign(s, c)
    \/ \E b \in BOOLEAN : SetNetActive(s, b)
    \/ \E l \in LocIds, ci \in ChannelIds, cn \in ChannelNos, i1, i2 \in SiteInfos :
          SetAdjSite(s, l, ci, cn, i1, i2)
    \/ \E d \in Slots : Assign(d, s)

Spec == Init /\ [][Next]_site

-----------------------------------------------------------------------------
\* Whatever sequence of constructions, setAdjSite calls and copies built
\* it, every SiteData object carries a channel the NXDN site information
\* fields can encode: a 4-bit channel id and a channel number in 1..1023.
ChannelInRange ==
  \A s \in Slots : site[s].channelId <= 15 /\ site[s].channelNo \in 1..1023

\* The location id of every SiteData object fits the 24-bit NXDN location
\* id field, as both the constructor and setAdjSite mean to clamp it to
\* 0xFFFFFF.
LocIdInRange == \A s \in Slots : site[s].locId <= MaxLocId

=============================================================================
