CONSTANTS
  MfIds <- MCMfIds
  DstIds <- MCDstIds
  SrcIds <- MCSrcIds
  Priorities <- MCPriorities
  ForeignLcoBytes <- MCForeignLcoBytes
  MaxSymbolErrors <- MCMaxSymbolErrors
  CorruptBytes <- MCCorruptBytes
SPECIFICATION Spec
INVARIANTS KnownLcoDispatched
