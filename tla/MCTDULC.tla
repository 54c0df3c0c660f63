------------------------------ MODULE MCTDULC ------------------------------
(* Model-checking instance of TDULC: field values at both ends of their   *)
(* widths, foreign TDULCs of every dispatched LCO, LC_CALL_TERM, an LCO   *)
(* with the implicit-MFID bit set and an unknown LCO, and one symbol error *)
(* past the RS capability.                                                  *)
EXTENDS TDULC

MCMfIds == {\h00, \h90}
MCDstIds == {\h0000, \h1234, \hFFFF}
MCSrcIds == {\h000001, \hFFFFFF}
MCPriorities == {0, 7}
MCForeignLcoBytes ==
  {LC_PRIVATE, LC_TEL_INT_VCH_USER, LC_CALL_TERM, \h40 + LC_GROUP, \h3F}
MCMaxSymbolErrors == RsCapability + 1

\* The LCO byte, the flags byte and a talkgroup byte.
MCCorruptBytes == {0, 2, 4}
=============================================================================
