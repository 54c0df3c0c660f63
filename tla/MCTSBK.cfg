CONSTANTS
  NetIds <- MCNetIds
  SysIds <- MCSysIds
  RfssIds <- MCRfssIds
  SiteIds <- MCSiteIds
  SrcIds <- MCSrcIds
  DstIds <- MCDstIds
  Responses <- MCResponses
SPECIFICATION Spec
INVARIANTS TypeOK DeregDecodedAsSent
