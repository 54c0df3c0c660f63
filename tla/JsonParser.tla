----------------------------- MODULE JsonParser -----------------------------
(***************************************************************************)
(* The picojson recursive-descent parser (common/network/json/json.h):     *)
(* json::input, _parse, _parse_array, _parse_object, _parse_string,       *)
(* _parse_codepoint, _parse_number and input::match/expect/skip_ws, run   *)
(* with a default_parse_context (parse(value&, ...)), a                   *)
(* null_parse_context (syntax check only) or a deny_parse_context.         *)
(*                                                                         *)
(* The recursion is an explicit call stack of frames [fn, pc, depth, aux]: *)
(* fn the function, pc where it resumes, depth the depths_ of the          *)
(* default_parse_context the frame works on, aux the num_str of           *)
(* _parse_number or what input::match still has to match.  A step runs    *)
(* the top frame up to and including its next getc(), call or return.     *)
(*                                                                         *)
(* The input is chosen as the parser reads it: when getc() reaches the end *)
(* of what has been chosen so far, the text either ends there or grows by *)
(* one character of Chars, up to MaxInputLength characters.  Characters   *)
(* are one-letter strings; EOF is getc()'s -1.  A \u escape's four hex     *)
(* digits are one symbol of Chars naming their value class: "Q_BMP"       *)
(* (a000), "Q_HIGH" (d800), "Q_LOW" (dc00), "Q_BAD" (a0x0, a non-hex      *)
(* digit); anywhere else such a symbol reads as its first letter, which    *)
(* no grammar rule treats specially.                                      *)
(*                                                                         *)
(* The value a default_parse_context builds is a tree [type, u, items,     *)
(* members] as in JsonGrammar's DocTree: u the number token (what strtod  *)
(* converts), the literal's letter or the string's characters, a \u       *)
(* escape's UTF-8 bytes being one character named by its code point.      *)
(* The parse runs under _parse(ctx, first, last, err), which on failure   *)
(* formats "syntax error at line %d near: " and copies the printable rest *)
(* of the line into err; only the line number and that rest are kept.    *)
(* Where an out_ pointer points is found from the stack: each container   *)
(* frame parsing an item leads to its last element or to the member of   *)
(* the key it keeps in aux.  value(double) throws overflow_error on an    *)
(* infinite strtod result, which unwinds the whole parse.                 *)
(***************************************************************************)
EXTENDS Naturals, Sequences, FiniteSets, JsonGrammar

CONSTANTS
  MaxDepths,       \* DEFAULT_MAX_DEPTHS
  Setups           \* the parses to explore: records [context, chars, limit] of
                   \* the context ("default", "null" or "deny"), the characters the input
                   \* may contain and the longest input

Frame(fn, pc, depth, aux) == [fn |-> fn, pc |-> pc, depth |-> depth, aux |-> aux]

VARIABLES
  input,    \* json::input: [text, ended, cur, consumed, line]
  stack,    \* the call stack, bottom first
  ret,      \* the value the last returning frame returned
  shared,   \* null_parse_context::depths_ (the one context of a null parse)
  setup,    \* this parse's context, alphabet and input bound (fixed)
  refused,  \* a context call has refused (a _start for depth, or deny)
  out,      \* the json::value the default context parses into
  exc,      \* the exception the parse threw, or "none"
  err       \* *err: [line, near] of the message (line 0: none), and stop,
            \* the input where _parse(ctx, in) stopped

vars == <<input, stack, ret, shared, setup, refused, out, exc, err>>

context == setup.context
Chars == setup.chars
MaxInputLength == setup.limit

Top == stack[Len(stack)]

\* Mutant of Getc: a line counted when a '\n' is read, not when passed.
Getc_lineOnRead(in) ==
  LET c == IF in.consumed THEN in.cur + 1 ELSE in.cur
      nl(x) == IF x = "\n" THEN in.line + 1 ELSE in.line
  IN  IF c < Len(in.text)
      THEN {[ch |-> in.text[c + 1], in |-> [in EXCEPT !.cur = c, !.line = nl(in.text[c + 1]),
                                                   !.consumed = TRUE]]}
      ELSE {[ch |-> EOF, in |-> [in EXCEPT !.cur = c, !.consumed = FALSE, !.ended = TRUE]]}
             \cup (IF in.ended \/ Len(in.text) >= MaxInputLength THEN {}
                   ELSE {[ch |-> x, in |-> [in EXCEPT !.cur = c, !.line = nl(x), !.consumed = TRUE,
                                                      !.text = Append(@, x)]] : x \in Chars})

\* input::getc(): every [ch, in] it may return and leave behind.  Stepping
\* past a consumed '\n' counts a line.
Getc(in) ==
  LET c == IF in.consumed THEN in.cur + 1 ELSE in.cur
      l == IF in.consumed /\ in.text[in.cur + 1] = "\n" THEN in.line + 1 ELSE in.line
      atEnd == [in EXCEPT !.cur = c, !.line = l, !.consumed = FALSE, !.ended = TRUE]
  IN  IF c < Len(in.text)
      THEN {[ch |-> in.text[c + 1], in |-> [in EXCEPT !.cur = c, !.line = l, !.consumed = TRUE]]}
      ELSE {[ch |-> EOF, in |-> atEnd]}
             \cup (IF in.ended \/ Len(in.text) >= MaxInputLength THEN {}
                   ELSE {[ch |-> x, in |-> [in EXCEPT !.cur = c, !.line = l, !.consumed = TRUE,
                                                      !.text = Append(@, x)]] : x \in Chars})

\* input::cur(): past a consumed character, without counting its line.
Cur(in) == IF in.consumed THEN [in EXCEPT !.cur = @ + 1, !.consumed = FALSE] ELSE in

\* The characters consumed: input::cur().
ConsumedLength == input.cur + (IF input.consumed THEN 1 ELSE 0)

\* input::ungetc()
Ungetc(in) == [in EXCEPT !.consumed = FALSE]

\* The top frame resumes at pc.
Goto(pc) == stack' = [stack EXCEPT ![Len(stack)].pc = pc] /\ UNCHANGED ret

\* The top frame calls callee and resumes at pc when it returns.
Call(pc, callee) ==
  stack' = Append([stack EXCEPT ![Len(stack)].pc = pc], callee) /\ UNCHANGED ret

\* The top frame returns b.
Return(b) == stack' = SubSeq(stack, 1, Len(stack) - 1) /\ ret' = b

\* When the callee returned true, call the next one; otherwise return false
\* (the a() && b() chains and early returns of _parse_array/_parse_object).
OnSuccessCall(pc, callee) == IF ret THEN Call(pc, callee) ELSE Return(FALSE)

ParseFrame(depth) == Frame("parse", "ws", depth, <<>>)
ExpectFrame(ch) == Frame("expect", "ws", 0, <<ch>>)
StringFrame == Frame("string", "loop", 0, <<>>)

\* The _parse frame of an array element or object member: a new
\* default_parse_context with the container's depths_, or the same
\* null_parse_context.
ItemFrame == ParseFrame(Top.depth)

At(fn, pc) == stack # <<>> /\ Top.fn = fn /\ Top.pc = pc

NullTree == DocNode("null", <<>>)

\* Element k of array n, or the member of key k of object n.
Child(n, k) == IF n.type = "array" THEN n.items[k] ELSE n.members[k]

RECURSIVE TreeWith(_, _, _), SubtreeAt(_, _), PathFrom(_, _)
TreeWith(n, p, v) ==
  CASE p = <<>> -> v
    [] n.type = "array" -> [n EXCEPT !.items[Head(p)] = TreeWith(@, Tail(p), v)]
    [] OTHER -> [n EXCEPT !.members[Head(p)] = TreeWith(@, Tail(p), v)]
SubtreeAt(n, p) == IF p = <<>> THEN n ELSE SubtreeAt(Child(n, Head(p)), Tail(p))

\* The out_ of the context the frames from i on run with, as a path into n:
\* parse_array_item's &a.back() and parse_object_item's &o[key].
PathFrom(n, i) ==
  CASE i > Len(stack) -> <<>>
    [] stack[i].fn \in {"array", "object"} /\ stack[i].pc = "item" ->
         LET k == IF stack[i].fn = "array" THEN Len(n.items) ELSE stack[i].aux
         IN  <<k>> \o PathFrom(Child(n, k), i + 1)
    [] OTHER -> PathFrom(n, i + 1)

\* *out_ of the running context; *out_ = v (the null context keeps nothing).
Here == SubtreeAt(out, PathFrom(out, 1))
SetOut(v) ==
  IF context = "default" THEN out' = TreeWith(out, PathFrom(out, 1), v) ELSE UNCHANGED out

\* parse_array_item: a.push_back(value()) before the element is parsed.
PushNull == SetOut([Here EXCEPT !.items = Append(@, NullTree)])

\* parse_object_item: o[key] inserts a null member unless key is there.
MemberNull(key) ==
  LET m == Here.members
  IN  SetOut([Here EXCEPT !.members = [x \in DOMAIN m \cup {key} |->
                                        IF x \in DOMAIN m THEN m[x] ELSE NullTree]])

\* set_null() / set_bool(b) after the literal matched.
LiteralTree(c) == IF c = "n" THEN NullTree ELSE DocNode("boolean", <<c>>)

\* Mutant of Denies: deny_parse_context's set_null and set_bool accepting.
Denies_notLiterals(call) == context = "deny" /\ call # "literal"

\* The context call refuses whatever it is given: deny_parse_context's
\* set_null, set_bool, parse_string, parse_array_start and
\* parse_object_start all return false.  (_parse ignores what set_number
\* returns, so no call "number" is ever asked.)
Denies(call) == context = "deny"

\* set_number(f): value(double) throws on the infinite strtod result.
SetNumberThrows(num) == context = "default" /\ StrtodOverflows(num)

\* Mutant of Unescaped: the escaped character copied verbatim.
Unescaped_verbatim == [c \in SimpleEscapes |-> c]

\* The character each simple escape of _parse_string pushes.
Unescaped == [c \in SimpleEscapes |->
                CASE c = "b" -> "BS" [] c = "f" -> "FF" [] c = "n" -> "\n"
                  [] c = "r" -> "\r" [] c = "t" -> "\t" [] OTHER -> c]

\* out.push_back(u) by the string frame at s, the frames above it popped,
\* the frame resuming at pc: a key's characters stay in the frame, a
\* value's (out_->get<std::string>()) are also out_'s.
PushUnit(s, pc, u) ==
  /\ stack' = [SubSeq(stack, 1, s) EXCEPT ![s].aux = Append(@, u), ![s].pc = pc]
  /\ IF stack[s - 1].fn = "parse" THEN SetOut(DocNode("string", Append(stack[s].aux, u)))
     ELSE UNCHANGED out

\* parse(value& out, const std::string& s): an empty err, a context over
\* out with DEFAULT_MAX_DEPTHS (a null or deny context the caller builds
\* alike), then _parse(ctx, first, last, &err) opens json::input at line 1.
Init ==
  /\ input = [text |-> <<>>, ended |-> FALSE, cur |-> 0, consumed |-> FALSE, line |-> 1]
  /\ stack = <<Frame("wrap", "call", 0, <<>>), ParseFrame(MaxDepths)>>
  /\ ret = FALSE
  /\ shared = MaxDepths
  /\ setup \in Setups
  /\ refused = FALSE
  /\ out = NullTree
  /\ exc = "none"
  /\ err = [line |-> 0, near |-> <<>>, stop |-> input]

-----------------------------------------------------------------------------
\* input::skip_ws(), at the start of _parse and of input::expect.
SkipWs_eofIsWs(fn) ==
  /\ At(fn, "ws")
  /\ \E r \in Getc(input) :
       IF r.ch \in WhiteSpace \cup {EOF} THEN input' = r.in /\ UNCHANGED <<stack, ret>>
       ELSE input' = Ungetc(r.in) /\ Goto("get")
  /\ UNCHANGED <<shared, setup, refused, out, exc, err>>

SkipWs(fn) ==
  /\ At(fn, "ws")
  /\ \E r \in Getc(input) :
       IF r.ch \in WhiteSpace THEN input' = r.in /\ UNCHANGED <<stack, ret>>
       ELSE input' = Ungetc(r.in) /\ Goto("get")
  /\ UNCHANGED <<shared, setup, refused, out, exc, err>>

\* _parse: the switch on the first character after the white space.
ParseValue ==
  /\ At("parse", "get")
  /\ \E r \in Getc(input) :
       /\ refused' = (refused \/ (r.ch = "\"" /\ Denies("string")))
       /\ CASE r.ch \in DOMAIN Literals ->
              /\ input' = r.in /\ UNCHANGED <<ret, out>>
              /\ stack' = Append([stack EXCEPT ![Len(stack)].pc = "done",
                                               ![Len(stack)].aux = <<r.ch>>],
                                 Frame("match", "loop", 0, Literals[r.ch]))
         [] r.ch = "\"" /\ Denies("string") -> input' = r.in /\ Return(FALSE) /\ UNCHANGED out
         [] r.ch = "\"" ->
              input' = r.in /\ Call("done", StringFrame) /\ SetOut(DocNode("string", <<>>))
         [] r.ch = "[" -> input' = r.in /\ UNCHANGED out /\ Call("done", Frame("array", "start", Top.depth, <<>>))
         [] r.ch = "{" -> input' = r.in /\ UNCHANGED out /\ Call("done", Frame("object", "start", Top.depth, <<>>))
         [] r.ch \in Digits \cup {"-"} ->
              input' = Ungetc(r.in) /\ Call("done", Frame("number", "loop", 0, <<>>))
              /\ UNCHANGED out
         [] OTHER -> input' = Ungetc(r.in) /\ Return(FALSE) /\ UNCHANGED out
  /\ UNCHANGED <<shared, setup, exc, err>>

\* _parse returns what match() && set_*(), parse_string, _parse_array,
\* _parse_object or the number conversion returned (set_* return true);
\* a literal's set_* runs once match() has succeeded.
ParseReturn ==
  /\ At("parse", "done")
  /\ LET literal == ret /\ Top.aux # <<>>
     IN  /\ Return(ret /\ ~(literal /\ Denies("literal")))
         /\ IF literal THEN SetOut(LiteralTree(Top.aux[1])) ELSE UNCHANGED out
         /\ refused' = (refused \/ (literal /\ Denies("literal")))
  /\ UNCHANGED <<input, shared, setup, exc, err>>

\* Mutant of ExpectGet: the unexpected character not put back.
ExpectGet_noUngetc ==
  /\ At("expect", "get")
  /\ \E r \in Getc(input) : input' = r.in /\ Return(r.ch = Top.aux[1])
  /\ UNCHANGED <<shared, setup, refused, out, exc, err>>

\* input::expect(c) after skip_ws.
ExpectGet ==
  /\ At("expect", "get")
  /\ \E r \in Getc(input) :
       IF r.ch = Top.aux[1] THEN input' = r.in /\ Return(TRUE)
       ELSE input' = Ungetc(r.in) /\ Return(FALSE)
  /\ UNCHANGED <<shared, setup, refused, out, exc, err>>

\* input::match(pattern): one character of the literal's tail.
MatchChar ==
  /\ At("match", "loop")
  /\ IF Top.aux = <<>> THEN Return(TRUE) /\ UNCHANGED input
     ELSE \E r \in Getc(input) :
            IF r.ch = Head(Top.aux)
            THEN input' = r.in /\ stack' = [stack EXCEPT ![Len(stack)].aux = Tail(@)]
                 /\ UNCHANGED ret
            ELSE input' = Ungetc(r.in) /\ Return(FALSE)
  /\ UNCHANGED <<shared, setup, refused, out, exc, err>>

\* _parse_number collects number characters; _parse then rejects an empty
\* num_str and one strtod does not consume entirely, and stores the number
\* with set_number, whose overflow_error leaves every frame of the parse.
NumberChar ==
  /\ At("number", "loop")
  /\ \E r \in Getc(input) :
       IF r.ch \in NumberChars
       THEN /\ input' = r.in /\ stack' = [stack EXCEPT ![Len(stack)].aux = Append(@, r.ch)]
            /\ UNCHANGED <<ret, out, exc>>
       ELSE LET whole == Top.aux # <<>> /\ StrtodWhole(Top.aux)
            IN  /\ input' = Ungetc(r.in)
                /\ IF whole /\ SetNumberThrows(Top.aux)
                   THEN stack' = <<>> /\ exc' = "overflow_error" /\ UNCHANGED <<ret, out>>
                   ELSE /\ Return(whole) /\ UNCHANGED exc
                        /\ IF whole THEN SetOut(DocNode("number", Top.aux)) ELSE UNCHANGED out
  /\ UNCHANGED <<shared, setup, refused, err>>

\* _parse_string after the opening quote.
StringChar ==
  /\ At("string", "loop")
  /\ \E r \in Getc(input) :
       CASE r.ch \in BelowSpace -> input' = Ungetc(r.in) /\ Return(FALSE) /\ UNCHANGED out
         [] r.ch = "\"" /\ stack[Len(stack) - 1].fn = "object" ->
              \* the key, for parse_object_item
              /\ input' = r.in /\ ret' = TRUE /\ UNCHANGED out
              /\ stack' = [SubSeq(stack, 1, Len(stack) - 1) EXCEPT ![Len(stack) - 1].aux = Top.aux]
         [] r.ch = "\"" -> input' = r.in /\ Return(TRUE) /\ UNCHANGED out
         [] r.ch = "\\" -> input' = r.in /\ Goto("escape") /\ UNCHANGED out
         [] OTHER -> input' = r.in /\ PushUnit(Len(stack), "loop", r.ch) /\ UNCHANGED ret
  /\ UNCHANGED <<shared, setup, refused, exc, err>>

\* _parse_string: the character after a backslash.
StringEscape ==
  /\ At("string", "escape")
  /\ \E r \in Getc(input) :
       /\ input' = r.in
       /\ CASE r.ch \in SimpleEscapes -> PushUnit(Len(stack), "loop", Unescaped[r.ch]) /\ UNCHANGED ret
            [] r.ch = "u" -> Call("unicode", Frame("codepoint", "first", 0, <<>>)) /\ UNCHANGED out
            [] OTHER -> Return(FALSE) /\ UNCHANGED out
  /\ UNCHANGED <<shared, setup, refused, exc, err>>

\* _parse_string after _parse_codepoint returned.
StringUnicode ==
  /\ At("string", "unicode")
  /\ IF ret THEN Goto("loop") ELSE Return(FALSE)
  /\ UNCHANGED <<input, shared, setup, refused, out, exc, err>>

\* _parse_quadhex as _parse_codepoint sees it: the value class of the four
\* hex digits, "eof" when the input ended, "none" at a non-hex digit (which
\* _parse_quadhex puts back).
Quad(r) ==
  IF r.ch = EOF THEN "eof"
  ELSE IF r.ch \in DOMAIN QuadClass THEN QuadClass[r.ch] ELSE "none"
QuadIn(r) == IF Quad(r) = "none" THEN Ungetc(r.in) ELSE r.in

\* _parse_codepoint returns true having pushed the UTF-8 bytes of the code
\* point u onto the string below it.
CodepointDone(u) == PushUnit(Len(stack) - 1, "unicode", u) /\ ret' = TRUE

\* _parse_codepoint: the first \u quad; a high surrogate needs a second.
CodepointFirst ==
  /\ At("codepoint", "first")
  /\ \E r \in Getc(input) :
       /\ input' = QuadIn(r)
       /\ CASE Quad(r) = "bmp" -> CodepointDone("U+A000")
            [] Quad(r) = "high" -> Goto("backslash") /\ UNCHANGED out
            [] OTHER -> Return(FALSE) /\ UNCHANGED out
  /\ UNCHANGED <<shared, setup, refused, exc, err>>

\* _parse_codepoint: in.getc() != '\\' || in.getc() != 'u', then ungetc.
CodepointEscape ==
  /\ \E pc \in {"backslash", "u"} :
       /\ At("codepoint", pc)
       /\ \E r \in Getc(input) :
            IF r.ch = IF pc = "backslash" THEN "\\" ELSE "u"
            THEN input' = r.in /\ Goto(IF pc = "backslash" THEN "u" ELSE "second")
            ELSE input' = Ungetc(r.in) /\ Return(FALSE)
  /\ UNCHANGED <<shared, setup, refused, out, exc, err>>

\* Mutant of CodepointSecond: any surrogate accepted as the second half.
CodepointSecond_anySurrogate ==
  /\ At("codepoint", "second")
  /\ \E r \in Getc(input) :
       /\ input' = QuadIn(r)
       /\ IF Quad(r) \in {"low", "high"} THEN CodepointDone("U+10000")
          ELSE Return(FALSE) /\ UNCHANGED out
  /\ UNCHANGED <<shared, setup, refused, exc, err>>

\* _parse_codepoint: the second quad must be a low surrogate.
CodepointSecond ==
  /\ At("codepoint", "second")
  /\ \E r \in Getc(input) :
       /\ input' = QuadIn(r)
       /\ IF Quad(r) = "low" THEN CodepointDone("U+10000") ELSE Return(FALSE) /\ UNCHANGED out
  /\ UNCHANGED <<shared, setup, refused, exc, err>>

-----------------------------------------------------------------------------
(* _parse_array and _parse_object.  The context calls differ:              *)
(*   default_parse_context: parse_array_start fails at depths_ = 0 and     *)
(*     decrements depths_; parse_object_start fails at depths_ = 0 and     *)
(*     leaves it; each element or member gets a new context holding the   *)
(*     container's depths_; the _stop calls increment a depths_ no one     *)
(*     reads again.                                                        *)
(*   null_parse_context: one depths_ for the whole parse; both _start      *)
(*     calls fail at 0 and decrement; parse_object_item increments before *)
(*     each member; parse_array_stop increments, parse_object_stop does    *)
(*     nothing.                                                            *)

\* The depths_ the _start call of container fn tests: the frame's own
\* default context, or the parse's one null context.
DepthNow == IF context = "default" THEN Top.depth ELSE shared

\* Mutant of DepthExhausted: the depths_ == 0 test dropped.
DepthExhausted_never(fn) == FALSE

\* parse_array_start / parse_object_start: if (depths_ == 0) return false.
DepthExhausted(fn) == DepthNow = 0

\* Mutant of StartDecrements: parse_array_start without --depths_.
StartDecrements_never(fn) == context = "null"

\* Whether the _start call of container fn decrements depths_: both calls of
\* the null context, only parse_array_start of the default context.
StartDecrements(fn) == context = "null" \/ fn = "array"

\* ctx.parse_array_start() / parse_object_start(), then in.expect(close).
ContainerStart ==
  /\ \E fn \in {"array", "object"} :
       /\ At(fn, "start")
       /\ IF Denies(fn) \/ DepthExhausted(fn) THEN Return(FALSE) /\ UNCHANGED <<shared, out>>
          ELSE LET dec == IF StartDecrements(fn) THEN 1 ELSE 0
               IN  /\ stack' = Append([stack EXCEPT ![Len(stack)].pc = "empty",
                                         ![Len(stack)].depth =
                                           IF context = "default" THEN @ - dec ELSE @],
                                       ExpectFrame(IF fn = "array" THEN "]" ELSE "}"))
                   /\ shared' = IF context = "null" THEN shared - dec ELSE shared
                   /\ UNCHANGED ret
                   /\ SetOut(DocNode(fn, <<>>))
       /\ refused' = (refused \/ Denies(fn) \/ DepthExhausted(fn))
  /\ UNCHANGED <<input, setup, exc, err>>

\* The container closed: parse_array_stop / parse_object_stop, return true.
StopContainer(fn) ==
  /\ Return(TRUE)
  /\ shared' = IF context = "null" /\ fn = "array" THEN shared + 1 ELSE shared

\* An empty container closes at once; otherwise its first element, or the
\* opening quote of its first key.
ContainerEmpty ==
  /\ \E fn \in {"array", "object"} :
       /\ At(fn, "empty")
       /\ IF ret THEN StopContainer(fn) /\ UNCHANGED out
          ELSE /\ IF fn = "array" THEN Call("item", ItemFrame) /\ PushNull
                  ELSE Call("key", ExpectFrame("\"")) /\ UNCHANGED out
               /\ UNCHANGED shared
  /\ UNCHANGED <<input, setup, refused, exc, err>>

\* _parse_object: the key string after its quote, then the colon.
ObjectKey ==
  /\ \E pc \in {"key", "keyString"} :
       /\ At("object", pc)
       /\ IF pc = "key" THEN OnSuccessCall("keyString", StringFrame)
          ELSE OnSuccessCall("colon", ExpectFrame(":"))
  /\ UNCHANGED <<input, shared, setup, refused, out, exc, err>>

\* _parse_object: after the colon, ctx.parse_object_item parses the value.
ObjectMember ==
  /\ At("object", "colon")
  /\ OnSuccessCall("item", ItemFrame)
  /\ IF ret THEN MemberNull(Top.aux) ELSE UNCHANGED out
  /\ shared' = IF ret /\ context = "null" THEN shared + 1 ELSE shared
  /\ UNCHANGED <<input, setup, refused, exc, err>>

\* After an element or member: expect a comma, then another one or the
\* closing bracket.
ContainerNext ==
  /\ \E fn \in {"array", "object"} :
       /\ \/ At(fn, "item") /\ OnSuccessCall("comma", ExpectFrame(",")) /\ UNCHANGED out
          \/ At(fn, "comma") /\ ret
             /\ IF fn = "array" THEN Call("item", ItemFrame) /\ PushNull
                ELSE Call("key", ExpectFrame("\"")) /\ UNCHANGED out
          \/ At(fn, "comma") /\ ~ret
             /\ Call("close", ExpectFrame(IF fn = "array" THEN "]" ELSE "}")) /\ UNCHANGED out
       /\ UNCHANGED shared
  /\ UNCHANGED <<input, setup, refused, exc, err>>

\* return in.expect(close) && ctx.parse_*_stop()
ContainerClose ==
  /\ \E fn \in {"array", "object"} :
       /\ At(fn, "close")
       /\ IF ret THEN StopContainer(fn) ELSE Return(FALSE) /\ UNCHANGED shared
  /\ UNCHANGED <<input, setup, refused, out, exc, err>>

-----------------------------------------------------------------------------
\* _parse(ctx, first, last, err) after _parse(ctx, in): a success returns
\* in.cur(); a failure formats the line of in.line() into *err.
ParseWrapper ==
  /\ At("wrap", "call")
  /\ IF ret THEN Return(TRUE) /\ input' = Cur(input) /\ UNCHANGED err
     ELSE Goto("near") /\ err' = [line |-> input.line, near |-> <<>>, stop |-> input]
          /\ UNCHANGED input
  /\ UNCHANGED <<shared, setup, refused, out, exc>>

\* The input the error text may read: what has been chosen (the text the
\* parse was given ends no later than where it stopped looking).
ErrTail(in) == {r \in Getc(in) : r.in.text = in.text}

\* The error loop: up to EOF or '\n', characters >= ' ' go into *err; then
\* return in.cur().
ErrorNear ==
  /\ At("wrap", "near")
  /\ \E r \in ErrTail(input) :
       IF r.ch \in {EOF, "\n"} THEN Return(FALSE) /\ input' = Cur(r.in) /\ UNCHANGED err
       ELSE /\ input' = r.in /\ UNCHANGED <<stack, ret>>
            /\ err' = [err EXCEPT !.near = IF r.ch \in BelowSpace THEN @ ELSE Append(@, r.ch)]
  /\ UNCHANGED <<shared, setup, refused, out, exc>>

Next ==
  \/ ParseWrapper
  \/ ErrorNear
  \/ SkipWs("parse")
  \/ ParseValue
  \/ ParseReturn
  \/ SkipWs("expect")
  \/ ExpectGet
  \/ MatchChar
  \/ NumberChar
  \/ StringChar
  \/ StringEscape
  \/ StringUnicode
  \/ CodepointFirst
  \/ CodepointEscape
  \/ CodepointSecond
  \/ ContainerStart
  \/ ContainerEmpty
  \/ ObjectKey
  \/ ObjectMember
  \/ ContainerNext
  \/ ContainerClose

Spec == Init /\ [][Next]_vars

\* The parser is one sequential call on one thread: nothing it does waits
\* on anything else, so while it has a step to take it takes one.
FairSpec == Spec /\ WF_vars(Next)

\* The parse has returned; ret is its result.
Done == stack = <<>>

\* Containers whose _start call has passed: the recursion depth.
OpenContainers ==
  Cardinality({i \in 1..Len(stack) : stack[i].fn \in {"array", "object"}
                                      /\ stack[i].pc # "start"})

Fns == {"wrap", "parse", "expect", "match", "number", "string", "codepoint", "array", "object"}

TypeOK ==
  /\ input \in [text : Seq(Chars), ended : BOOLEAN, cur : Nat, consumed : BOOLEAN, line : Nat]
  /\ Len(input.text) <= MaxInputLength /\ input.cur <= Len(input.text)
  /\ stack \in Seq([fn : Fns, pc : STRING, depth : Nat, aux : Seq(STRING)])
  /\ ret \in BOOLEAN
  /\ shared \in Nat
  /\ setup \in Setups /\ refused \in BOOLEAN
  /\ out.type \in {"null", "boolean", "number", "string", "array", "object"}
  /\ exc \in {"none", "overflow_error"}
  /\ err \in [line : Nat, near : Seq(Chars), stop : [text : Seq(Chars), ended : BOOLEAN,
                cur : Nat, consumed : BOOLEAN, line : Nat]]

\* The first k characters end in a number token strtod overflows on, with
\* a default context: the one case where set_number throws.
OverflowedAt(k) ==
  /\ context = "default"
  /\ \E j \in 1..k : LET tok == SubSeq(input.text, j, k)
                     IN  /\ IsNumber(tok) /\ StrtodOverflows(tok)
                         /\ (j = 1 \/ input.text[j - 1] \notin NumberChars)

\* A document prefix of the text the parser must find: a top-level number
\* is read greedily, so it counts only where no number character follows.
Acceptable(k) ==
  /\ IsDoc(Pre(input.text, k))
  /\ ~(k < Len(input.text) /\ input.text[k + 1] \in NumberChars
       /\ IsNumberDoc(Pre(input.text, k)))

-----------------------------------------------------------------------------
\* picojson::parse / _parse(ctx, first, last, err) agrees with the JSON
\* grammar: it throws only where value(double) meets a number strtod
\* overflows on; when it returns true, the characters up to in.cur() form one
\* document; when it returns false, no prefix of the text it was given is
\* a document it should have taken.  This holds across every interleaving
\* of skip_ws, the getc/ungetc look-ahead and the recursion of _parse,
\* _parse_array and _parse_object, in every context.  A false return is
\* excused only where a context call refused: a parse_*_start for depth,
\* or any call of a deny_parse_context.
ParseMatchesGrammar ==
  Done => CASE exc # "none" -> OverflowedAt(ConsumedLength)
            [] ret -> IsDoc(Pre(input.text, ConsumedLength))
            [] OTHER -> refused \/ \A k \in 0..Len(input.text) : ~Acceptable(k)

\* A deny_parse_context refuses every value but a number: its set_number
\* returns false like its other calls, but _parse stores the number with
\* ctx.set_number(f) and returns true whatever that returned.  So a parse
\* with it returns true exactly when the text begins with a document that
\* is one number (after white space), and false on every literal, string,
\* array or object, at any nesting, even a valid one.
DenyAcceptsNumbersOnly ==
  Done /\ context = "deny" =>
    (ret <=> \E k \in 0..Len(input.text) : Acceptable(k) /\ IsNumberDoc(Pre(input.text, k)))

\* What picojson::parse(value&, ...) leaves in the value: after a parse that
\* returned true, out holds the tree the consumed document denotes, each
\* array element the value parsed at its place and each key the value of
\* its last occurrence, through set_*, parse_array_item's push_back and
\* the o[key] of parse_object_item nested to any depth.
ParseBuildsTree ==
  Done /\ exc = "none" /\ ret /\ context = "default"
    => out = DocTree(Pre(input.text, ConsumedLength))

\* The error picojson::parse reports points at where the parse stopped:
\* "syntax error at line L near: X" names as L the line of the character
\* under input::cur_ when _parse(ctx, in) returned false (counted by getc
\* as it steps past each '\n', across every ungetc of the look-ahead), X
\* is the printable rest of the input after the last character consumed, up
\* to the next '\n', and the iterator returned is past that '\n'.  (When
\* the consumed character is itself a '\n', X comes from the next line.)
ErrorReportsStop ==
  Done /\ exc = "none" /\ ~ret =>
    LET t == input.text
        s == err.stop
        from == s.cur + (IF s.consumed THEN 1 ELSE 0)
        rest == SubSeq(t, from + 1, Len(t))
        nls == {j \in DOMAIN rest : rest[j] = "\n"}
        lineEnd == IF nls = {} THEN Len(rest) ELSE (CHOOSE j \in nls : \A i \in nls : j <= i) - 1
    IN  /\ err.line = 1 + Cardinality({i \in 1..s.cur : t[i] = "\n"})
        /\ err.near = SelectSeq(SubSeq(rest, 1, lineEnd), LAMBDA c : c \notin BelowSpace)
        /\ ConsumedLength = IF nls = {} THEN Len(t) ELSE from + lineEnd + 1

\* Every parse returns: each getc() either consumes a character of the
\* finite input or reports EOF, and every loop of _parse_string,
\* _parse_number, skip_ws and the item loops of _parse_array and
\* _parse_object stops at EOF, so the recursion unwinds to a result.
Termination == <>Done

\* Arrays open at once (frames past their parse_array_start).
OpenArrays ==
  Cardinality({i \in 1..Len(stack) : stack[i].fn = "array" /\ stack[i].pc # "start"})

\* The recursion of _parse through nested containers is bounded by
\* DEFAULT_MAX_DEPTHS (the depths argument): no more containers are open
\* at once than the context's depth budget, whatever the document.
DepthBound == OpenContainers <= MaxDepths

\* With a default_parse_context, nested arrays are bounded by the depth
\* budget, through objects too: parse_array_start decrements depths_ and
\* refuses at zero, and every element's and member's context starts from
\* what is left of it.  (A null_parse_context gives one back before each
\* object member, so there {"":1,"":[[[[ nests four arrays in a budget of
\* three; DepthBound's run shows the same growth with objects.)
ArrayDepthBound == context = "default" => OpenArrays <= MaxDepths

=============================================================================
