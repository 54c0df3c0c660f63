---------------------------- MODULE MCJsonValue -----------------------------
(***************************************************************************)
(* Arguments for checking JsonValue.                                       *)
(***************************************************************************)
EXTENDS JsonValue, TLC

CONSTANTS x, y, b1, b2

MCSlots == {x, y}

\* The two locals are interchangeable, and so are the two buffers: new
\* returns whichever unused buffer, and nothing else tells them apart.
MCSymmetry == Permutations(MCSlots) \cup Permutations({b1, b2})

\* One key, which needs an escape.
MCQuoteKey == <<<<"\"">>>>

\* A double that prints with "%.17g", and the ones the double constructor
\* refuses.
MCLargeDouble == {"2p60"}
MCRefusedDoubles == {"2p60", "nan", "inf"}

\* A string that needs a \u escape (the key needs the others).
MCCtrlStr == {<<"CTRL">>}
=============================================================================
