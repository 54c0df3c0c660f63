-------------------------- MODULE MCNxdnSiteData --------------------------
(* Model-checking instance of NxdnSiteData: two SiteData objects and       *)
(* arguments on both sides of every clamp boundary.                        *)
EXTENDS NxdnSiteData, TLC

CONSTANTS s1, s2

MCSlots == {s1, s2}
MCLocIds == {1, \hFFFFFF, \h1000000}
MCChannelIds == {0, 15, 16, 255}
MCChannelNos == {0, 1023, 1024}
MCSiteInfos == {0}
MCCallsigns == {"N0CALL"}

\* The two objects are interchangeable.
MCSymmetry == Permutations(MCSlots)
=============================================================================
