------------------------------- MODULE MCTSBK -------------------------------
(* Model-checking instance of TSBK: identifiers at both ends of their     *)
(* field widths, and a site whose system id is below and above 255.        *)
EXTENDS TSBK

MCNetIds == {\h00001, \hFFFFF}
MCSysIds == {\h001, \hFFF}
MCRfssIds == {\h01, \hFF}
MCSiteIds == {\h01, \hFF}
MCSrcIds == {\h000001, \hFFFFFF}
MCDstIds == {\h0001, \hFFFF}
MCResponses == {0, 3}
=============================================================================
