---------------------------- MODULE MCJsonParser ----------------------------
(***************************************************************************)
(* Alphabets for checking JsonParser.                                      *)
(***************************************************************************)
EXTENDS JsonParser

\* Structure, numbers, a literal and a newline (white space that also
\* counts lines).  No backslash, so no \u escape in which the digits would
\* have to stand for a quad.  "1e1111" overflows strtod.
MCStructureChars == {"[", "]", "{", "}", ",", ":", "\"", "1", "e", "-", ".", "\n", "n", "u", "l"}

\* String bodies: escapes, the three valid quad classes, a plain character
\* and a control character.  A \u followed by anything else ("n", a quote,
\* a backslash) takes _parse_quadhex's non-hex path, as "Q_BAD" would.
MCStringChars == {"\"", "\\", "u", "n", "Q_BMP", "Q_HIGH", "Q_LOW", "\t"}

\* Nesting only, for the depth budget.
MCDepthChars == {"[", "]", "{", "}", ",", ":", "\"", "n", "u", "l"}

MCContexts == {"default", "null"}

\* The mixed alphabets up to five characters in both contexts (a depth of
\* four, every literal and "1e11" fit); numbers alone and containers alone
\* up to six ("1e1111" overflows, "[1,11]", "{\"\":1}"); string bodies up to
\* seven, and up to eight over the escape and quad characters alone, the
\* length of a string holding a surrogate pair.  A deny context up to four
\* ("null", "1e1 ", "[1]", "\"\"").
MCNumberChars == {"1", "e", "-", ".", "\n"}

MCContainerChars == {"[", "]", "{", "}", ",", ":", "\"", "1"}

MCPairChars == {"\"", "\\", "u", "Q_HIGH", "Q_LOW"}

MCSetups ==
  {[context |-> c, chars |-> MCStructureChars, limit |-> 5] : c \in MCContexts}
  \cup {[context |-> "default", chars |-> MCNumberChars, limit |-> 6],
        [context |-> "default", chars |-> MCContainerChars, limit |-> 6],
        [context |-> "default", chars |-> MCStringChars, limit |-> 7],
        [context |-> "default", chars |-> MCPairChars, limit |-> 8],
        [context |-> "deny", chars |-> MCStructureChars, limit |-> 4]}

\* Nesting in both contexts up to seven characters.
MCDepthSetups ==
  {[context |-> c, chars |-> MCDepthChars, limit |-> 7] : c \in MCContexts}
=============================================================================
