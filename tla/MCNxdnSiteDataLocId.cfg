CONSTANTS
  s1 = s1
  s2 = s2
  Slots <- MCSlots
  LocIds <- MCLocIds
  ChannelIds <- MCChannelIds
  ChannelNos <- MCChannelNos
  SiteInfos <- MCSiteInfos
  Callsigns <- MCCallsigns
  DefaultSiteInfo1 = DefaultSiteInfo1
SYMMETRY MCSymmetry
SPECIFICATION Spec
INVARIANTS
  LocIdInRange
