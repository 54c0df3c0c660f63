----------------------------- MODULE JsonValue -----------------------------
(***************************************************************************)
(* The picojson value (common/network/json/json.h, class value): a type_  *)
(* tag and a union u_ whose string_, array_ and object_ members own a      *)
(* heap buffer, and the calls a program makes on it: the constructors,     *)
(* the copy and move constructors and assignments, swap, set<T>, the      *)
(* narrowing get<T>, the destructor, and the std::vector / std::map calls *)
(* made through get<array>() and get<object>().  operator== and           *)
(* serialize() are operators over the state.                              *)
(*                                                                         *)
(* Locals of the program are the Slots; every container or string the     *)
(* values own is a buffer of Buffers.  A buffer is "unused" until new      *)
(* allocates it and "freed" after delete, and is never handed out again,  *)
(* so a read through a dangling pointer is seen as one.  A location is a  *)
(* slot ([c |-> s, i |-> 0]) or the i-th element of a live container     *)
(* buffer ([c |-> b, i |-> i]): the value& a caller holds.                *)
(*                                                                         *)
(* A double is a class of values ("0", "-1", "0.5", "2p60" = 2^60, "1e300",*)
(* "nan", "inf"); an integer type holds the class of what the conversion  *)
(* gives on x86-64 ("0", "-1", "max" = all ones unsigned, "min" = the      *)
(* sign bit alone, "big" = 2^60).  Strings are sequences of one-letter    *)
(* strings, "CTRL" standing for a character below 0x20 with no short      *)
(* escape.  The text snprintf writes is kept as a short sequence with the *)
(* same JSON syntax: "1.152921504606847e+18" as 1.1e+18.                 *)
(***************************************************************************)
EXTENDS Integers, Sequences, FiniteSets, JsonGrammar

CONSTANTS
  Slots,          \* the program's json::value locals
  Buffers,        \* heap buffers new may return (the allocation bound)
  MaxItems,       \* longest array or object a caller builds
  Doubles,        \* the double arguments callers pass
  Ints,           \* the int arguments callers pass to set<int> and friends
  Strs,           \* the std::string arguments callers pass
  KeyOrder,       \* the object keys callers use, in std::string order
  Narrowed,       \* the integer and float types callers use
  AliasingCalls   \* whether set<T>, swap and moves may take an argument
                  \* that lies inside the value they change

Keys == {KeyOrder[i] : i \in 1..Len(KeyOrder)}

PtrTypes == {"string", "array", "object"}
IntTypes == {"int32", "uint64", "uint32", "uint16", "uint8"}
NumTypes == IntTypes \cup {"float"}
Types == {"null", "boolean", "number"} \cup NumTypes \cup PtrTypes

\* The types the calls of a check use.
UsedTypes == {"null", "boolean", "number"} \cup Narrowed \cup PtrTypes

\* value(): type_(null_type), u_() zeroes the union.
Null == [type |-> "null", u |-> "0"]
EmptyBuf == [st |-> "unused", kind |-> "null", str |-> <<>>, items |-> <<>>, keys |-> <<>>]

VARIABLES
  mem,     \* [slot : Slots -> value, heap : Buffers -> buffer]
  scope,   \* the slots constructed and not yet destroyed
  exc,     \* the exception the last call threw, or "none"
  faults,  \* undefined behaviour seen: "freed_read", "double_free"
  trees    \* the tree each slot stands for (auxiliary, read by the refinement)

vars == <<mem, scope, exc, faults, trees>>

-----------------------------------------------------------------------------
(* The heap.                                                               *)

Loc(c, i) == [c |-> c, i |-> i]
Val(m, l) == IF l.c \in Slots THEN m.slot[l.c] ELSE m.heap[l.c].items[l.i]
Put(m, l, v) ==
  IF l.c \in Slots THEN [m EXCEPT !.slot[l.c] = v]
  ELSE [m EXCEPT !.heap[l.c].items[l.i] = v]

\* The locations a caller can hold: its live slots and every element of a
\* live array or object.
Locs(m, sc) ==
  {Loc(s, 0) : s \in sc}
  \cup UNION {{Loc(b, i) : i \in DOMAIN m.heap[b].items} :
              b \in {b \in Buffers : m.heap[b].st = "live"}}

\* What operator new returns: an unused buffer, or none (bad_alloc).
Fresh(m) == IF \E b \in Buffers : m.heap[b].st = "unused"
            THEN CHOOSE b \in Buffers : m.heap[b].st = "unused" ELSE "none"
Alloc(m, b, kind, str, items, keys) ==
  [m EXCEPT !.heap[b] = [st |-> "live", kind |-> kind, str |-> str,
                         items |-> items, keys |-> keys]]
Touch(m, b, f) == IF m.heap[b].st = "live" THEN {} ELSE {f}

\* The buffers a value owns, transitively (a buffer met twice stops).
RECURSIVE Owned(_, _, _)
Owned(m, v, seen) ==
  IF v.type \in PtrTypes /\ v.u \notin seen
  THEN {v.u} \cup UNION {Owned(m, m.heap[v.u].items[i], seen \cup {v.u}) :
                         i \in DOMAIN m.heap[v.u].items}
  ELSE {}

\* Location x lies inside the value at t (or is t).
Within(m, x, t) == x = t \/ x.c \in Owned(m, Val(m, t), {})

\* The JSON tree value v stands for: its buffers read recursively, with the
\* pointers left out.
RECURSIVE Tree(_, _)
Tree(m, v) ==
  IF v.type \in PtrTypes /\ v.u \in Buffers
  THEN LET b == m.heap[v.u]
       IN  [type |-> v.type, u |-> "0", str |-> b.str,
            items |-> [i \in DOMAIN b.items |-> Tree(m, b.items[i])], keys |-> b.keys]
  ELSE [type |-> v.type, u |-> v.u, str |-> <<>>, items |-> <<>>, keys |-> <<>>]

\* The trees of all slots.
Trees(m) == [s \in Slots |-> Tree(m, m.slot[s])]

\* value(const value&) (json.h 308-323), with std::vector and std::map
\* copying their elements the same way: a string, array or object is
\* copied into a new buffer, anything else by copying u_.  Result
\* [val, m, f]; f holds "no_memory" when new runs out of buffers.
RECURSIVE CopyVal(_, _), CopySeq(_, _)
CopyVal(v, m) ==
  IF v.type \notin PtrTypes THEN [val |-> v, m |-> m, f |-> {}]
  ELSE IF v.u \notin Buffers THEN [val |-> v, m |-> m, f |-> {"freed_read"}]
  ELSE LET src == m.heap[v.u]
           nb == Fresh(m)
       IN  IF nb = "none" THEN [val |-> v, m |-> m, f |-> {"no_memory"}]
           ELSE LET r == CopySeq(src.items, Alloc(m, nb, src.kind, src.str, <<>>, src.keys))
                IN  [val |-> [v EXCEPT !.u = nb],
                     m |-> [r.m EXCEPT !.heap[nb].items = r.s],
                     f |-> r.f \cup Touch(m, v.u, "freed_read")]
CopySeq(s, m) ==
  IF s = <<>> THEN [s |-> <<>>, m |-> m, f |-> {}]
  ELSE LET a == CopyVal(Head(s), m)
           r == CopySeq(Tail(s), a.m)
       IN  [s |-> <<a.val>> \o r.s, m |-> r.m, f |-> a.f \cup r.f]

\* value::clear() (json.h 288-302): delete the string, array or object,
\* whose destructor destroys the elements in turn.  What a freed buffer
\* held is not kept: a read of it is a fault whatever it finds.  Result
\* [m, f].
RECURSIVE ClearVal(_, _), ClearSeq(_, _)
ClearVal(v, m) ==
  IF v.type \notin PtrTypes THEN [m |-> m, f |-> {}]
  ELSE IF v.u \notin Buffers THEN [m |-> m, f |-> {"double_free"}]
  ELSE IF m.heap[v.u].st # "live" THEN [m |-> m, f |-> {"double_free"}]
  ELSE ClearSeq(m.heap[v.u].items, [m EXCEPT !.heap[v.u] = [EmptyBuf EXCEPT !.st = "freed"]])
ClearSeq(s, m) ==
  IF s = <<>> THEN [m |-> m, f |-> {}]
  ELSE LET a == ClearVal(Head(s), m)
           r == ClearSeq(Tail(s), a.m)
       IN  [m |-> r.m, f |-> a.f \cup r.f]

\* The end of a call that returned normally.
Returns(m2, f) == /\ "no_memory" \notin f
                  /\ mem' = m2 /\ exc' = "none" /\ faults' = faults \cup f

AssignAt_clearFirst(m, t, x) ==
  LET d == ClearVal(Val(m, t), m)
      c == CopyVal(Val(d.m, x), d.m)
  IN  [m |-> Put(c.m, t, c.val), f |-> d.f \cup c.f]

\* value& value::operator=(const value& x) (json.h 325-332): unless x is
\* this value, copy x into a temporary, swap, and let the temporary's
\* destructor free the old content.  Result [m, f].
AssignAt(m, t, x) ==
  IF t = x THEN [m |-> m, f |-> {}]
  ELSE LET c == CopyVal(Val(m, x), m)
           d == ClearVal(Val(m, t), Put(c.m, t, c.val))
       IN  [m |-> d.m, f |-> c.f \cup d.f]

\* value::swap (json.h 344-347): exchange type_ and u_.
SwapAt(m, t, x) == Put(Put(m, t, Val(m, x)), x, Val(m, t))

\* The argument of a swap, a move or a set<T> may lie inside the value it
\* changes, or contain it, only when the model lets callers pass such
\* arguments (a value may always be swapped with itself).
MaySwap(t, x) == AliasingCalls \/ t = x \/ (~Within(mem, x, t) /\ ~Within(mem, t, x))
MaySet(t, x) == AliasingCalls \/ (~Within(mem, x, t) /\ ~Within(mem, t, x))

\* is<T>() (json.h 348-375): the integer types and float also accept a
\* number_type value; is<double>() accepts only number_type.
Is(v, ty) == IF ty \in NumTypes THEN v.type \in {ty, "number"} ELSE v.type = ty

\* The conversion the narrowing get<T> makes of a double (u_.int32_ =
\* u_.number_ and so on), as gcc on x86-64 compiles it: truncation, and
\* for a value out of range the result of cvttsd2si.
Narrow(ty, d) ==
  CASE ty = "float" -> IF d = "1e300" THEN "inf" ELSE d
    [] d \in {"0", "0.5"} -> "0"
    [] d = "-1" -> IF ty \in {"int32", "uint64"} THEN "-1" ELSE "max"
    [] d = "2p60" /\ ty = "uint64" -> "big"
    [] ty \in {"int32", "uint64"} -> "min"
    [] OTHER -> "0"

-----------------------------------------------------------------------------
(* The calls.  s is a slot being constructed or destroyed; t and x are    *)
(* locations the caller holds.                                             *)

Init ==
  /\ mem = [slot |-> [s \in Slots |-> Null], heap |-> [b \in Buffers |-> EmptyBuf]]
  /\ scope = {}
  /\ exc = "none"
  /\ faults = {}
  /\ trees = Trees(mem)

Construct(s, m2) == /\ s \notin scope /\ Returns(m2, {}) /\ scope' = scope \cup {s}

\* value() (json.h 207-209).
DefaultCtor(s) == Construct(s, [mem EXCEPT !.slot[s] = Null])

\* value(int type, bool) (json.h 211-233): INIT the member of that type;
\* a string, array or object is a new empty one.
TypeCtor(s, ty) ==
  IF ty \in PtrTypes
  THEN LET nb == Fresh(mem)
       IN  /\ nb # "none"
           /\ Construct(s, [Alloc(mem, nb, ty, <<>>, <<>>, <<>>) EXCEPT !.slot[s] = [type |-> ty, u |-> nb]])
  ELSE Construct(s, [mem EXCEPT !.slot[s] = [type |-> ty, u |-> IF ty = "boolean" THEN "false" ELSE "0"]])

\* value(bool b) (json.h 235-237).
BoolCtor(s, b) == Construct(s, [mem EXCEPT !.slot[s] = [type |-> "boolean", u |-> b]])

\* value(double n) (json.h 239-252): NaN and infinity throw overflow_error
\* and no value is constructed.
DoubleCtor(s, d) ==
  IF d \in {"nan", "inf"}
  THEN /\ s \notin scope /\ exc' = "overflow_error" /\ UNCHANGED <<mem, scope, faults>>
  ELSE Construct(s, [mem EXCEPT !.slot[s] = [type |-> "number", u |-> d]])

\* value(const std::string&), value(std::string&&), value(const char*) and
\* value(const char*, size_t) (json.h 254-286): a new string.
StringCtor(s, p) ==
  LET nb == Fresh(mem)
  IN  /\ nb # "none"
      /\ Construct(s, [Alloc(mem, nb, "string", p, <<>>, <<>>) EXCEPT !.slot[s] = [type |-> "string", u |-> nb]])

\* value(const value& x) (json.h 308-323).
CopyCtor(s, x) ==
  LET c == CopyVal(Val(mem, x), mem)
  IN  /\ s \notin scope /\ Returns([c.m EXCEPT !.slot[s] = c.val], c.f)
      /\ scope' = scope \cup {s}

\* value(value&& x) (json.h 335-337): start null, then swap with x.
MoveCtor(s, x) ==
  /\ Construct(s, SwapAt([mem EXCEPT !.slot[s] = Null], Loc(s, 0), x))

\* ~value() (json.h 304-306): clear().  The dead slot is kept as null.
Destroy(s) ==
  LET d == ClearVal(mem.slot[s], mem)
  IN  /\ s \in scope /\ Returns([d.m EXCEPT !.slot[s] = Null], d.f) /\ scope' = scope \ {s}

\* t = x.
CopyAssign(t, x) ==
  LET a == AssignAt(mem, t, x)
  IN  Returns(a.m, a.f) /\ UNCHANGED scope

\* t = std::move(x) (json.h 339-342): swap(x), with no check for x == t.
MoveAssign(t, x) == /\ MaySwap(t, x) /\ Returns(SwapAt(mem, t, x), {}) /\ UNCHANGED scope

\* t.swap(x) (json.h 344-347).
Swap(t, x) == /\ MaySwap(t, x) /\ Returns(SwapAt(mem, t, x), {}) /\ UNCHANGED scope

\* set<T>(const T&) for bool, double, the integer types and float (SET,
\* json.h 412-431): clear(), then type_, then the member.  No NaN check.
SetScalar(t, ty, u) ==
  LET d == ClearVal(Val(mem, t), mem)
  IN  Returns(Put(d.m, t, [type |-> ty, u |-> u]), d.f) /\ UNCHANGED scope

\* The scalar arguments: set<int>(-1) on an unsigned type is its
\* all-ones value; a float holds what the double converts to.
ScalarArgs ==
  ({"boolean"} \X {"true", "false"}) \cup ({"number"} \X Doubles)
  \cup {<<ty, IF i = "-1" /\ ty \notin {"int32", "uint64"} THEN "max" ELSE i>> :
        ty \in Narrowed \cap IntTypes, i \in Ints}
  \cup {<<"float", Narrow("float", d)>> : d \in Doubles, ty \in Narrowed \cap {"float"}}

\* t.set<std::string>(s) with a string the caller made: a new string.
SetString(t, p) ==
  LET d == ClearVal(Val(mem, t), mem)
      nb == Fresh(d.m)
  IN  /\ nb # "none"
      /\ Returns(Put(Alloc(d.m, nb, "string", p, <<>>, <<>>), t, [type |-> "string", u |-> nb]), d.f)
      /\ UNCHANGED scope

\* t.set<T>(x.get<T>()) for a string, array or object T (SET): _val is a
\* reference to x's buffer, taken before the call; clear() deletes t's
\* content, type_ is set (u_ still holds the old bits), then new T(_val)
\* copies from _val.
SetCopy(t, x) ==
  LET v == Val(mem, x)
      d == ClearVal(Val(mem, t), mem)
      c == CopyVal(v, Put(d.m, t, [type |-> v.type, u |-> Val(mem, t).u]))
  IN  /\ v.type \in PtrTypes /\ MaySet(t, x)
      /\ Returns(Put(c.m, t, c.val), d.f \cup c.f)
      /\ UNCHANGED scope

SetMove_keepKeys(t, x) ==
  LET v == Val(mem, x)
      d == ClearVal(Val(mem, t), mem)
      src == d.m.heap[v.u]
      nb == Fresh(d.m)
      m2 == Alloc(Put(d.m, t, [type |-> v.type, u |-> Val(mem, t).u]),
                  nb, src.kind, src.str, src.items, src.keys)
      tt == IF t.c = v.u THEN Loc(nb, t.i) ELSE t
  IN  /\ v.type \in PtrTypes /\ MaySet(t, x) /\ nb # "none"
      /\ Returns(Put([m2 EXCEPT !.heap[v.u].str = <<>>, !.heap[v.u].items = <<>>], tt, [type |-> v.type, u |-> nb]),
                 d.f \cup Touch(d.m, v.u, "freed_read"))
      /\ UNCHANGED scope

\* t.set<T>(std::move(x.get<T>())) (MOVESET, json.h 433-445): clear(),
\* type_, then new T(std::move(_val)) takes _val's content, elements in
\* place, and leaves it empty; a target that was one of those elements is
\* now an element of the new buffer.
SetMove(t, x) ==
  LET v == Val(mem, x)
      d == ClearVal(Val(mem, t), mem)
      src == d.m.heap[v.u]
      nb == Fresh(d.m)
      m2 == Alloc(Put(d.m, t, [type |-> v.type, u |-> Val(mem, t).u]),
                  nb, src.kind, src.str, src.items, src.keys)
      tt == IF t.c = v.u THEN Loc(nb, t.i) ELSE t
  IN  /\ v.type \in PtrTypes /\ MaySet(t, x) /\ nb # "none"
      /\ Returns(Put([m2 EXCEPT !.heap[v.u].str = <<>>, !.heap[v.u].items = <<>>,
                                !.heap[v.u].keys = <<>>], tt, [type |-> v.type, u |-> nb]),
                 d.f \cup Touch(d.m, v.u, "freed_read"))
      /\ UNCHANGED scope

\* t.get<T>() for an integer type or float (GET, json.h 377-410): on a
\* number_type value it casts away const and rewrites type_ and u_ with
\* the converted number.
GetNarrow(t, ty) ==
  LET v == Val(mem, t)
  IN  /\ Is(v, ty)
      /\ Returns(IF v.type = "number" THEN Put(mem, t, [type |-> ty, u |-> Narrow(ty, v.u)]) ELSE mem, {})
      /\ UNCHANGED scope

\* get<T>() for a T with is<T>() false: PICOJSON_ASSERT throws
\* runtime_error (whichever T it was).
GetMismatch(t) ==
  /\ \E ty \in UsedTypes \ {"null"} : ~Is(Val(mem, t), ty)
  /\ exc' = "runtime_error" /\ UNCHANGED <<mem, scope, faults>>

\* t.get<array>().push_back(x): the vector copies x in at its end.
PushBack(t, x) ==
  LET b == Val(mem, t).u
      c == CopyVal(Val(mem, x), mem)
  IN  /\ Val(mem, t).type = "array" /\ Len(mem.heap[b].items) < MaxItems
      /\ Returns([c.m EXCEPT !.heap[b].items = Append(@, c.val)], c.f)
      /\ UNCHANGED scope

Insert_duplicateKey(t, k, x) ==
  LET b == Val(mem, t).u
      ks == mem.heap[b].keys
      at == 0
      rank(key) == CHOOSE i \in 1..Len(KeyOrder) : KeyOrder[i] = key
      pos == Cardinality({i \in DOMAIN ks : rank(ks[i]) < rank(k)}) + 1
      ins(s, e) == SubSeq(s, 1, pos - 1) \o <<e>> \o SubSeq(s, pos, Len(s))
      m1 == [mem EXCEPT !.heap[b].items = ins(@, Null), !.heap[b].keys = ins(@, k)]
      x1 == IF x.c = b /\ x.i >= pos THEN Loc(b, x.i + 1) ELSE x
      a == IF at > 0 THEN AssignAt(mem, Loc(b, at), x) ELSE AssignAt(m1, Loc(b, pos), x1)
  IN  /\ Val(mem, t).type = "object" /\ (at > 0 \/ Len(ks) < MaxItems)
      /\ Returns(a.m, a.f)
      /\ UNCHANGED scope

\* t.get<object>()[k] = x: operator[] inserts a null value at k's place in
\* key order when k is absent, then operator= copies x into it.  A map
\* node does not move, so x still names the element it named.
Insert(t, k, x) ==
  LET b == Val(mem, t).u
      ks == mem.heap[b].keys
      at == IF \E i \in DOMAIN ks : ks[i] = k THEN CHOOSE i \in DOMAIN ks : ks[i] = k ELSE 0
      rank(key) == CHOOSE i \in 1..Len(KeyOrder) : KeyOrder[i] = key
      pos == Cardinality({i \in DOMAIN ks : rank(ks[i]) < rank(k)}) + 1
      ins(s, e) == SubSeq(s, 1, pos - 1) \o <<e>> \o SubSeq(s, pos, Len(s))
      m1 == [mem EXCEPT !.heap[b].items = ins(@, Null), !.heap[b].keys = ins(@, k)]
      x1 == IF x.c = b /\ x.i >= pos THEN Loc(b, x.i + 1) ELSE x
      a == IF at > 0 THEN AssignAt(mem, Loc(b, at), x) ELSE AssignAt(m1, Loc(b, pos), x1)
  IN  /\ Val(mem, t).type = "object" /\ (at > 0 \/ Len(ks) < MaxItems)
      /\ Returns(a.m, a.f)
      /\ UNCHANGED scope

\* Every call the program may make next.
Calls ==
  \/ \E s \in Slots :
       \/ DefaultCtor(s) \/ Destroy(s)
       \/ \E ty \in UsedTypes : TypeCtor(s, ty)
       \/ \E b \in {"true", "false"} : BoolCtor(s, b)
       \/ \E d \in Doubles : DoubleCtor(s, d)
       \/ \E p \in Strs : StringCtor(s, p)
       \/ \E x \in Locs(mem, scope) : CopyCtor(s, x) \/ MoveCtor(s, x)
  \/ \E t \in Locs(mem, scope) :
       \/ \E x \in Locs(mem, scope) :
            CopyAssign(t, x) \/ MoveAssign(t, x) \/ Swap(t, x)
            \/ SetCopy(t, x) \/ SetMove(t, x) \/ PushBack(t, x)
            \/ \E k \in Keys : Insert(t, k, x)
       \/ \E a \in ScalarArgs : SetScalar(t, a[1], a[2])
       \/ \E p \in Strs : SetString(t, p)
       \/ \E ty \in Narrowed : GetNarrow(t, ty)
       \/ GetMismatch(t)

Next == Calls /\ trees' = Trees(mem')

Spec == Init /\ [][Next]_vars

-----------------------------------------------------------------------------
(* operator== (json.h 1311-1330): null, bool, double, string, array and   *)
(* object compare by content (std::vector and std::map compare sizes,     *)
(* then element by element, a map the key before the value, stopping at  *)
(* the first difference); any other type reaches PICOJSON_ASSERT(0).      *)
(* "true", "false" or "throw".                                             *)

B(p) == IF p THEN "true" ELSE "false"

RECURSIVE Equal(_, _, _), EqualSeq(_, _, _, _, _)
Equal(m, a, b) ==
  CASE a.type = "null" -> B(b.type = "null")
    [] a.type = "boolean" -> B(b.type = "boolean" /\ a.u = b.u)
    [] a.type = "number" -> B(b.type = "number" /\ a.u = b.u /\ a.u # "nan")
    [] a.type = "string" -> B(b.type = "string" /\ m.heap[a.u].str = m.heap[b.u].str)
    [] a.type \in {"array", "object"} ->
         IF b.type # a.type \/ Len(m.heap[a.u].items) # Len(m.heap[b.u].items) THEN "false"
         ELSE EqualSeq(m, m.heap[a.u].items, m.heap[b.u].items, m.heap[a.u].keys, m.heap[b.u].keys)
    [] OTHER -> "throw"
EqualSeq(m, s, t, ks, kt) ==
  IF s = <<>> THEN "true"
  ELSE IF ks # <<>> /\ Head(ks) # Head(kt) THEN "false"
  ELSE LET e == Equal(m, Head(s), Head(t))
       IN  IF e # "true" THEN e
           ELSE EqualSeq(m, Tail(s), Tail(t), IF ks = <<>> THEN ks ELSE Tail(ks),
                         IF kt = <<>> THEN kt ELSE Tail(kt))

-----------------------------------------------------------------------------
(* serialize(prettify) (json.h 616-760).                                   *)

\* Mutant of EscChar: the \u%04x branch for control characters dropped.
EscChar_rawCtrl(c) ==
  CASE c = "\"" -> <<"\\", "\"">>   [] c = "\\" -> <<"\\", "\\">>
    [] c = "/" -> <<"\\", "/">>     [] c = "BS" -> <<"\\", "b">>
    [] c = "FF" -> <<"\\", "f">>    [] c = "\n" -> <<"\\", "n">>
    [] c = "\r" -> <<"\\", "r">>    [] c = "\t" -> <<"\\", "t">>
    [] OTHER -> <<c>>

\* serialize_str_char (json.h 620-649): the short escapes, \u00XX for the
\* other control characters and DEL (four hex digits of the BMP class).
EscChar(c) ==
  CASE c = "\"" -> <<"\\", "\"">>   [] c = "\\" -> <<"\\", "\\">>
    [] c = "/" -> <<"\\", "/">>     [] c = "BS" -> <<"\\", "b">>
    [] c = "FF" -> <<"\\", "f">>    [] c = "\n" -> <<"\\", "n">>
    [] c = "\r" -> <<"\\", "r">>    [] c = "\t" -> <<"\\", "t">>
    [] c \in {"CTRL", "DEL"} -> <<"\\", "u", "Q_BMP">>
    [] OTHER -> <<c>>

RECURSIVE EscStr(_)
EscStr(s) == IF s = <<>> THEN <<>> ELSE EscChar(Head(s)) \o EscStr(Tail(s))

\* serialize_str (json.h 651-656).
SerStr(s) == <<"\"">> \o EscStr(s) \o <<"\"">>

\* _indent (json.h 666-671): a newline and INDENT_WIDTH spaces per level.
Indent(n) == <<"\n">> \o [i \in 1..(2 * n) |-> " "]

\* What to_str (json.h 511-578) prints for each number: "%.f" for an
\* integral double below 2^53, else "%.17g"; "%d", PRId64 (signed) and
\* "%u" for the integer types; "%f" for float.
NumberText(d) ==
  CASE d = "0" -> <<"0">>  [] d = "-1" -> <<"-", "1">>  [] d = "0.5" -> <<"0", ".", "5">>
    [] d = "2p60" -> <<"1", ".", "1", "e", "+", "1">>  [] d = "1e300" -> <<"1", "e", "+", "3">>
    [] d = "nan" -> <<"n", "a", "n">>  [] OTHER -> <<"i", "n", "f">>
IntText(i) ==
  CASE i = "0" -> <<"0">>  [] i = "-1" -> <<"-", "1">>  [] i = "max" -> <<"4">>
    [] i = "min" -> <<"-", "2">>  [] OTHER -> <<"1">>
FloatText(f) ==
  IF f \in {"nan", "inf"} THEN NumberText(f)
  ELSE LET n == NumberText(IF f = "0.5" THEN "0" ELSE f)
       IN  SubSeq(n, 1, IF f = "-1" THEN 2 ELSE 1) \o <<".", IF f = "0.5" THEN "5" ELSE "0">>

ToStr(m, v) ==
  CASE v.type = "null" -> <<"n", "u", "l", "l">>
    [] v.type = "boolean" -> IF v.u = "true" THEN <<"t", "r", "u", "e">> ELSE <<"f", "a", "l", "s", "e">>
    [] v.type = "number" -> NumberText(v.u)
    [] v.type = "float" -> FloatText(v.u)
    [] OTHER -> IntText(v.u)

\* _serialize(oi, indent) (json.h 673-751), indent -1 when not prettified.
RECURSIVE Ser(_, _, _), SerItems(_, _, _, _)
Ser(m, v, indent) ==
  LET inner == IF indent = -1 THEN -1 ELSE indent + 1
      buf == m.heap[v.u]
      body ==
        IF v.type \in {"array", "object"}
        THEN <<IF v.type = "array" THEN "[" ELSE "{">> \o SerItems(m, buf, 1, inner)
             \o (IF indent # -1 /\ buf.items # <<>> THEN Indent(indent) ELSE <<>>)
             \o <<IF v.type = "array" THEN "]" ELSE "}">>
        ELSE IF v.type = "string" THEN SerStr(buf.str) ELSE ToStr(m, v)
  IN  body \o (IF indent = 0 THEN <<"\n">> ELSE <<>>)
SerItems(m, buf, i, indent) ==
  IF i > Len(buf.items) THEN <<>>
  ELSE (IF i > 1 THEN <<",">> ELSE <<>>) \o (IF indent # -1 THEN Indent(indent) ELSE <<>>)
       \o (IF buf.kind = "object"
           THEN SerStr(buf.keys[i]) \o <<":">> \o (IF indent # -1 THEN <<" ">> ELSE <<>>)
           ELSE <<>>)
       \o Ser(m, buf.items[i], indent) \o SerItems(m, buf, i + 1, indent)

\* serialize(prettify) (json.h 658-664).
Serialize(m, v, prettify) == Ser(m, v, IF prettify THEN 0 ELSE -1)

-----------------------------------------------------------------------------
TypeOK ==
  /\ scope \subseteq Slots
  /\ \A s \in scope : mem.slot[s].type \in Types
  /\ \A b \in Buffers : mem.heap[b].st \in {"unused", "live", "freed"}
  /\ \A b \in Buffers : mem.heap[b].st = "live" =>
       /\ mem.heap[b].kind \in PtrTypes /\ Len(mem.heap[b].items) <= MaxItems
       /\ Len(mem.heap[b].keys) = IF mem.heap[b].kind = "object" THEN Len(mem.heap[b].items) ELSE 0
  /\ exc \in {"none", "overflow_error", "runtime_error"}
  /\ faults \subseteq {"freed_read", "double_free"}

\* The values' buffers form trees, one per live slot: through every
\* sequence of constructions, copies, moves, swaps, sets, narrowing gets,
\* push_backs, map inserts and destructions, no buffer is read or deleted
\* after delete, every live buffer is owned by exactly one value (no
\* shallow copy, no cycle), no live value points at a freed buffer, and
\* every live buffer hangs off a live slot (nothing leaks).
MemorySafe ==
  LET locs == Locs(mem, scope)
      ptr(l) == Val(mem, l).type \in PtrTypes
  IN  /\ faults = {}
      /\ \A b \in Buffers : mem.heap[b].st = "live" =>
           /\ Cardinality({l \in locs : ptr(l) /\ Val(mem, l).u = b}) = 1
           /\ \E s \in scope : b \in Owned(mem, mem.slot[s], {})
      /\ \A l \in locs : ptr(l) => mem.heap[Val(mem, l).u].st = "live"

\* serialize() writes a JSON text: for every live value, compact or
\* prettified (then followed by the newline _serialize adds at indent 0),
\* the output is a document of the grammar the parser accepts, whatever
\* strings, numbers, nesting and key order the calls built.
SerializesToDocument ==
  \A s \in scope :
    LET c == Serialize(mem, mem.slot[s], FALSE)
        p == Serialize(mem, mem.slot[s], TRUE)
    IN  /\ ScansAsDoc(c)
        /\ p[Len(p)] = "\n" /\ ScansAsDoc(SubSeq(p, 1, Len(p) - 1))

\* get<T>() is declared const (json.h 179-180): a call of it through one
\* reference does not change what operator== says of any two live values.
ConstGetPreservesEquality ==
  [][\A t \in Locs(mem, scope), ty \in Narrowed :
       GetNarrow(t, ty) =>
         \A a, b \in scope : Equal(mem', mem'.slot[a], mem'.slot[b]) = Equal(mem, mem.slot[a], mem.slot[b])]_vars

-----------------------------------------------------------------------------
(* Refinement: JsonTree is what a value promises, value semantics over    *)
(* pure trees; trees (Tree) is what the heap stands for.                  *)

\* The trees the constructors and set<T> build from their arguments.
TreeLeaves ==
  LET leaf(ty, u, p) == [type |-> ty, u |-> u, str |-> p, items |-> <<>>, keys |-> <<>>]
  IN  {leaf(a[1], a[2], <<>>) :
         a \in ScalarArgs \cup {<<"null", "0">>, <<"boolean", "true">>, <<"boolean", "false">>}
                \cup ({"number"} \cup Narrowed) \X {"0"} \cup {"number"} \X Doubles}
      \cup {leaf("string", "0", p) : p \in Strs \cup {<<>>}}
      \cup {leaf(ty, "0", <<>>) : ty \in {"array", "object"}}

JT == INSTANCE JsonTree WITH tree <- trees,
                             Leaves <- TreeLeaves, Narrow <- Narrow

\* The heap-based value implements value semantics: every behaviour of the
\* calls, read through Tree, is a behaviour of JsonTree.  Copies (the copy
\* constructor, operator=, set<T>, push_back, operator[]) take the argument
\* as it was before the call, moves and swaps exchange whole trees, and no
\* call changes any value but its target and its source.
ValueSemantics == JT!Spec

=============================================================================
