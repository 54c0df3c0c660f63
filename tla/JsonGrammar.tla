---------------------------- MODULE JsonGrammar ----------------------------
(***************************************************************************)
(* The character classes picojson (common/network/json/json.h) tests, and *)
(* the JSON text grammar as a recogniser over sequences of one-letter      *)
(* strings.  The recogniser is the reference the parser (JsonParser) and   *)
(* the serialiser (JsonValue) are checked against.                         *)
(***************************************************************************)
EXTENDS Naturals, Sequences

EOF == "EOF"
Digits == {"0", "1", "2", "3", "4", "5", "6", "7", "8", "9"}
NumberChars == Digits \cup {"+", "-", "e", "E", "."}
WhiteSpace == {" ", "\t", "\n", "\r"}
\* ch < ' ' in _parse_string: tab, newline, return, backspace, form feed,
\* "CTRL" (any other character below 0x20), and EOF (-1).
BelowSpace == {"\t", "\n", "\r", "BS", "FF", "CTRL", EOF}
SimpleEscapes == {"\"", "\\", "/", "b", "f", "n", "r", "t"}
QuadClass == [Q_BMP |-> "bmp", Q_HIGH |-> "high", Q_LOW |-> "low"]
Literals == [n |-> <<"u", "l", "l">>, t |-> <<"r", "u", "e">>, f |-> <<"a", "l", "s", "e">>]

\* The C strtod syntax over these characters, whole string consumed:
\* [+-] (digits [. digits] | . digits) [(e|E) [+-] digits].
AllIn(t, S) == \A i \in 1..Len(t) : t[i] \in S
IsMantissa(t) ==
  \/ Len(t) > 0 /\ AllIn(t, Digits)
  \/ \E k \in 1..Len(t) : /\ t[k] = "." /\ Len(t) > 1
                          /\ AllIn(SubSeq(t, 1, k - 1), Digits)
                          /\ AllIn(SubSeq(t, k + 1, Len(t)), Digits)
IsExponent(t) ==
  \/ t = <<>>
  \/ /\ t[1] \in {"e", "E"}
     /\ \E k \in 2..3 : /\ k <= Len(t) /\ AllIn(SubSeq(t, k, Len(t)), Digits)
                        /\ (k = 3 => t[2] \in {"+", "-"})
StrtodWhole(s) ==
  LET body == IF s # <<>> /\ s[1] \in {"+", "-"} THEN Tail(s) ELSE s
  IN  \E k \in 0..Len(body) : IsMantissa(SubSeq(body, 1, k))
                              /\ IsExponent(SubSeq(body, k + 1, Len(body)))

(* The reference: the JSON text grammar as a recogniser over character     *)
(* sequences, with the number syntax _parse accepts (strtod over the      *)
(* characters _parse_number collects, starting with a digit or '-').      *)
(* White space is allowed where skip_ws runs: before a value, a ',', a    *)
(* closing bracket, a key's quote and a ':'.  Nesting is not bounded.     *)
Pre(t, k) == SubSeq(t, 1, k)
Post(t, k) == SubSeq(t, k + 1, Len(t))
IsWs(t) == AllIn(t, WhiteSpace)

IsLiteral(t) == \E c \in DOMAIN Literals : t = <<c>> \o Literals[c]
IsNumber(t) ==
  /\ t # <<>> /\ t[1] \in Digits \cup {"-"} /\ AllIn(t, NumberChars)
  /\ StrtodWhole(t)

\* One unit of a string body: a plain character, a simple escape, a \u
\* escape of a BMP code point, or a surrogate pair.
IsStrUnit(u) ==
  \/ Len(u) = 1 /\ u[1] \notin {"\"", "\\"} \cup BelowSpace
  \/ Len(u) = 2 /\ u[1] = "\\" /\ u[2] \in SimpleEscapes
  \/ u = <<"\\", "u", "Q_BMP">>
  \/ u = <<"\\", "u", "Q_HIGH", "\\", "u", "Q_LOW">>

RECURSIVE IsStrBody(_)
IsStrBody(t) == t = <<>> \/ \E k \in 1..Len(t) : IsStrUnit(Pre(t, k)) /\ IsStrBody(Post(t, k))

IsString(t) ==
  Len(t) >= 2 /\ t[1] = "\"" /\ t[Len(t)] = "\"" /\ IsStrBody(SubSeq(t, 2, Len(t) - 1))

RECURSIVE IsValue(_), IsElemList(_), IsMemberList(_)

\* White space, then a value.
IsElem(t) == \E j \in 0..Len(t) : IsWs(Pre(t, j)) /\ IsValue(Post(t, j))

\* A key string with white space before it and before the ':', then an element.
IsMember(t) ==
  \E i \in 1..Len(t) :
    /\ t[i] = ":"
    /\ \E j, k \in 0..(i - 1) : /\ j < k /\ IsWs(Pre(t, j))
                                /\ IsString(SubSeq(t, j + 1, k))
                                /\ IsWs(SubSeq(t, k + 1, i - 1))
    /\ IsElem(Post(t, i))

\* x (WS "," x)* for items x.
IsElemList(t) ==
  \/ IsElem(t)
  \/ \E i \in 1..Len(t) : /\ t[i] = ","
                          /\ \E k \in 0..(i - 1) : IsElem(Pre(t, k)) /\ IsWs(SubSeq(t, k + 1, i - 1))
                          /\ IsElemList(Post(t, i))
IsMemberList(t) ==
  \/ IsMember(t)
  \/ \E i \in 1..Len(t) : /\ t[i] = ","
                          /\ \E k \in 0..(i - 1) : IsMember(Pre(t, k)) /\ IsWs(SubSeq(t, k + 1, i - 1))
                          /\ IsMemberList(Post(t, i))

\* open WS close, or open list WS close.
IsContainer(t, open, close, IsList(_)) ==
  /\ Len(t) >= 2 /\ t[1] = open /\ t[Len(t)] = close
  /\ LET inner == SubSeq(t, 2, Len(t) - 1)
     IN  \E k \in 0..Len(inner) : /\ k = 0 \/ IsList(Pre(inner, k))
                                  /\ IsWs(Post(inner, k))

IsValue(t) ==
  \/ IsLiteral(t) \/ IsString(t) \/ IsNumber(t)
  \/ IsContainer(t, "[", "]", IsElemList)
  \/ IsContainer(t, "{", "}", IsMemberList)

\* A document: white space, then a value; a top-level number document.
IsDoc(t) == IsElem(t)
IsNumberDoc(t) == \E j \in 0..Len(t) : IsWs(Pre(t, j)) /\ IsNumber(Post(t, j))

(* The same grammar scanned deterministically, one position at a time: *)
(* each operator takes the text and a position and gives the position   *)
(* after what it recognised there, or 0.  Linear where IsDoc searches,   *)
(* for checking long texts.                                              *)
CharAt(t, i) == IF i <= Len(t) THEN t[i] ELSE EOF

RECURSIVE WsEnd(_, _)
WsEnd(t, i) == IF CharAt(t, i) \in WhiteSpace THEN WsEnd(t, i + 1) ELSE i

\* A string body from i (after the opening quote) to past its closing quote.
RECURSIVE StrEnd(_, _)
StrEnd(t, i) ==
  LET c == CharAt(t, i)
      esc == CASE CharAt(t, i + 1) \in SimpleEscapes -> i + 2
                [] CharAt(t, i + 1) = "u" /\ CharAt(t, i + 2) = "Q_BMP" -> i + 3
                [] CharAt(t, i + 1) = "u" /\ CharAt(t, i + 2) = "Q_HIGH" /\ CharAt(t, i + 3) = "\\"
                   /\ CharAt(t, i + 4) = "u" /\ CharAt(t, i + 5) = "Q_LOW" -> i + 6
                [] OTHER -> 0
  IN  CASE c = "\"" -> i + 1
        [] c \in BelowSpace -> 0
        [] c = "\\" -> IF esc = 0 THEN 0 ELSE StrEnd(t, esc)
        [] OTHER -> StrEnd(t, i + 1)

RECURSIVE NumEnd(_, _)
NumEnd(t, i) == IF CharAt(t, i) \in NumberChars THEN NumEnd(t, i + 1) ELSE i

RECURSIVE ValueEnd(_, _), ItemsEnd(_, _, _)
\* A value at i, white space first.
ValueEnd(t, i) ==
  LET j == WsEnd(t, i)
      c == CharAt(t, j)
      n == NumEnd(t, j)
  IN  CASE c = "\"" -> StrEnd(t, j + 1)
        [] c = "[" -> IF CharAt(t, WsEnd(t, j + 1)) = "]" THEN WsEnd(t, j + 1) + 1 ELSE ItemsEnd(t, j + 1, "]")
        [] c = "{" -> IF CharAt(t, WsEnd(t, j + 1)) = "}" THEN WsEnd(t, j + 1) + 1 ELSE ItemsEnd(t, j + 1, "}")
        [] c \in DOMAIN Literals ->
             IF j + Len(Literals[c]) <= Len(t) /\ SubSeq(t, j + 1, j + Len(Literals[c])) = Literals[c] THEN j + 1 + Len(Literals[c]) ELSE 0
        [] c \in Digits \cup {"-"} -> IF StrtodWhole(SubSeq(t, j, n - 1)) THEN n ELSE 0
        [] OTHER -> 0
\* Items from i up to past the closing bracket: elements, or members
\* (white space, key, white space, ':', element) for an object.
ItemsEnd(t, i, close) ==
  LET k == WsEnd(t, i)
      key == IF CharAt(t, k) = "\"" THEN StrEnd(t, k + 1) ELSE 0
      colon == IF key > 0 THEN WsEnd(t, key) ELSE 0
      e == IF close = "]" THEN ValueEnd(t, i)
           ELSE IF colon > 0 /\ CharAt(t, colon) = ":" THEN ValueEnd(t, colon + 1) ELSE 0
      after == IF e > 0 THEN WsEnd(t, e) ELSE 0
  IN  CASE after = 0 -> 0
        [] CharAt(t, after) = "," -> ItemsEnd(t, after + 1, close)
        [] CharAt(t, after) = close -> after + 1
        [] OTHER -> 0

\* A document scanned: white space, one value, and nothing after it.
ScansAsDoc(t) == ValueEnd(t, 1) = Len(t) + 1


(* strtod's range: the token overflows a double (strtod returns HUGE_VAL   *)
(* with ERANGE) when its decimal order is above 308, or is 308 and its     *)
(* significant digits reach those of DBL_MAX, 1.7976931348623158079e308.   *)
(* An exponent is taken as at most 10000, far past either bound.           *)
DigitOrder == <<"0", "1", "2", "3", "4", "5", "6", "7", "8", "9">>
DigitVal(c) == CHOOSE d \in 0..9 : DigitOrder[d + 1] = c
DblMaxDigits == <<"1", "7", "9", "7", "6", "9", "3", "1", "3", "4",
                  "8", "6", "2", "3", "1", "5", "8", "0", "7", "9">>

RECURSIVE CappedValue(_, _)
CappedValue(t, v) ==
  IF t = <<>> THEN v ELSE CappedValue(Tail(t), IF v >= 10000 THEN v ELSE 10 * v + DigitVal(t[1]))

\* Significant digits sig are at least DBL_MAX's (which go on past 20
\* digits, so an equal prefix of at most 20 digits is below them).
RECURSIVE ReachesDblMax(_, _)
ReachesDblMax(sig, i) ==
  /\ i <= Len(sig) /\ i <= Len(DblMaxDigits)
  /\ \/ DigitVal(sig[i]) > DigitVal(DblMaxDigits[i])
     \/ sig[i] = DblMaxDigits[i] /\ ReachesDblMax(sig, i + 1)

StrtodOverflows(s) ==
  LET body == IF s # <<>> /\ s[1] \in {"+", "-"} THEN Tail(s) ELSE s
      e == IF \E i \in DOMAIN body : body[i] \in {"e", "E"}
           THEN CHOOSE i \in DOMAIN body : body[i] \in {"e", "E"} ELSE Len(body) + 1
      mant == SubSeq(body, 1, e - 1)
      ex == SubSeq(body, e + 1, Len(body))
      exp == IF ex # <<>> /\ ex[1] = "-" THEN 0 - CappedValue(Tail(ex), 0)
             ELSE IF ex # <<>> /\ ex[1] = "+" THEN CappedValue(Tail(ex), 0)
             ELSE CappedValue(ex, 0)
      dot == IF \E i \in DOMAIN mant : mant[i] = "." THEN CHOOSE i \in DOMAIN mant : mant[i] = "."
             ELSE Len(mant) + 1
      ds == SubSeq(mant, 1, dot - 1) \o SubSeq(mant, dot + 1, Len(mant))
      nz == {i \in DOMAIN ds : ds[i] # "0"}
      f == CHOOSE i \in nz : \A j \in nz : i <= j
      order == (dot - 1) - f + exp
  IN  /\ nz # {}
      /\ \/ order > 308
         \/ order = 308 /\ ReachesDblMax(SubSeq(ds, f, Len(ds)), 1)

(* The reference value of a document: the tree [type, u, items, members]  *)
(* its text denotes, with u a scalar's characters (a number's token, a    *)
(* string's decoded characters, the literal's first letter), items an      *)
(* array's elements and members an object's key -> tree function, where    *)
(* the last of two equal keys is the one that counts.  A \u escape decodes *)
(* to one character named by its class.                                    *)
DocNode(ty, u) == [type |-> ty, u |-> u, items |-> <<>>, members |-> <<>>]
JsonEscapes == [c \in SimpleEscapes |->
                 CASE c = "b" -> "BS" [] c = "f" -> "FF" [] c = "n" -> "\n"
                   [] c = "r" -> "\r" [] c = "t" -> "\t" [] OTHER -> c]

\* The decoded characters of a well-formed string body from i.
RECURSIVE StrUnits(_, _)
StrUnits(t, i) ==
  CASE CharAt(t, i) = "\"" -> <<>>
    [] CharAt(t, i) # "\\" -> <<CharAt(t, i)>> \o StrUnits(t, i + 1)
    [] CharAt(t, i + 1) \in SimpleEscapes -> <<JsonEscapes[CharAt(t, i + 1)]>> \o StrUnits(t, i + 2)
    [] CharAt(t, i + 2) = "Q_BMP" -> <<"U+A000">> \o StrUnits(t, i + 3)
    [] OTHER -> <<"U+10000">> \o StrUnits(t, i + 6)

RECURSIVE ValueTree(_, _), ItemsTree(_, _, _, _)
\* [end, tree] of the value at i of a document t, white space first.
ValueTree(t, i) ==
  LET j == WsEnd(t, i)
      c == CharAt(t, j)
      empty(close) == CharAt(t, WsEnd(t, j + 1)) = close
  IN  CASE c = "\"" -> [end |-> StrEnd(t, j + 1), tree |-> DocNode("string", StrUnits(t, j + 1))]
        [] c = "[" /\ empty("]") -> [end |-> WsEnd(t, j + 1) + 1, tree |-> DocNode("array", <<>>)]
        [] c = "[" -> ItemsTree(t, j + 1, "]", DocNode("array", <<>>))
        [] c = "{" /\ empty("}") -> [end |-> WsEnd(t, j + 1) + 1, tree |-> DocNode("object", <<>>)]
        [] c = "{" -> ItemsTree(t, j + 1, "}", DocNode("object", <<>>))
        [] c = "n" -> [end |-> j + 4, tree |-> DocNode("null", <<>>)]
        [] c \in DOMAIN Literals -> [end |-> j + 1 + Len(Literals[c]), tree |-> DocNode("boolean", <<c>>)]
        [] OTHER -> [end |-> NumEnd(t, j), tree |-> DocNode("number", SubSeq(t, j, NumEnd(t, j) - 1))]
\* The items from i to past the closing bracket, added to the container acc.
ItemsTree(t, i, close, acc) ==
  LET k == WsEnd(t, i)
      key == StrUnits(t, k + 1)
      v == IF close = "]" THEN ValueTree(t, i) ELSE ValueTree(t, WsEnd(t, StrEnd(t, k + 1)) + 1)
      ms == acc.members
      acc2 == IF close = "]" THEN [acc EXCEPT !.items = Append(@, v.tree)]
              ELSE [acc EXCEPT !.members = [x \in DOMAIN ms \cup {key} |->
                                             IF x = key THEN v.tree ELSE ms[x]]]
      after == WsEnd(t, v.end)
  IN  IF CharAt(t, after) = "," THEN ItemsTree(t, after + 1, close, acc2)
      ELSE [end |-> after + 1, tree |-> acc2]

DocTree(t) == ValueTree(t, 1).tree

=============================================================================
