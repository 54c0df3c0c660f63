# TLA+ models of the dvmhost frame codec core

This directory holds TLA+ models of the parts of `src/` that change state or
carry data across a boundary. It also holds the TLC configurations that check
them. The models cover:

- the Golay (20,8,7) codec;
- the NXDN `SiteData` value object;
- the P25 TDULC factory with `LC_GROUP`;
- two P25 TSBKs of the registration exchange;
- the DFSI `MotVoiceHeader1` frame object;
- the picojson recursive-descent parser and its depth budget;
- the picojson `value` type: its memory management, accessors and serialiser.

`PROJECT.json` is the machine-readable index of the project: the components,
the runs, the mutants, the line map, the findings and the hazards.

## 1. The system

The code under `src/` is a slice of the dvmhost gateway. Raw over-the-air
bytes are FEC-decoded. A factory then reads the opcode/LCO discriminator and
hands the payload to a frame class, whose `decode()` extracts bit fields. The
reverse path, `encode()`, packs the fields back. Nothing in the slice runs
concurrently (`spec.md` section 5). The hard behaviours are therefore:

- data corruption on the air, between an encoder and a decoder;
- sequences of calls on long-lived objects;
- bit layouts that two ends must agree on.

| Part | Source | State | Operations | Interacts with |
|---|---|---|---|---|
| Golay (20,8,7) | `src/edac/Golay2087.cpp` | the 3-byte codeword buffer | `encode`, `decode`, `getSyndrome1987` | the RF channel (bit errors) |
| NXDN SiteData | `src/src/common/nxdn/SiteData.h` | locId, channelId, channelNo, siteInfo1/2, isAdjSite, callsign, requireReg, netActive | two constructors, `setCallsign`, `setNetActive`, `setAdjSite`, `operator=` | frames that embed it by value |
| TDULC factory + LC_GROUP | `src/src/common/p25/lc/tdulc/TDULCFactory.cpp`, `LC_GROUP.cpp` | the RS payload `rs[0..8]`; LC_GROUP fields | `createTDULC`, `TDULCFactory::decode`, `LC_GROUP::encode/decode` | RS(24,12,13) FEC (not in `src/`), the channel |
| TSBK registration | `ISP_U_DEREG_REQ.cpp`, `OSP_LOC_REG_RSP.cpp` | the 64-bit TSBK value, the site's `p25::SiteData` | `ISP_U_DEREG_REQ::decode`, `OSP_LOC_REG_RSP::encode` (the other direction is a stub in both) | a subscriber radio using the standard layout |
| DFSI MotVoiceHeader1 | `src/src/dfsi/frames/MotVoiceHeader1.cpp` | owned `header` and `startOfStream` buffers, ICW/RSSI/source fields | two constructors, `decode`, `encode`, destructor | V.24 DFSI peer |
| picojson parser | `src/src/common/network/json/json.h` | the `input` cursor (`cur_`, `consumed_`), each context's `depths_` | `_parse`, `_parse_array`, `_parse_object`, `_parse_string`, `_parse_number`, the contexts | REST API (not in `src/`) |
| picojson value | `src/src/common/network/json/json.h` | `type_` and the `u_` union; the heap strings, vectors and maps `u_` points to | constructors, destructor, `operator=` (copy and move), `swap`, `set<T>`, `get<T>`, `operator==`, `serialize` | every caller that builds or reads JSON |
| Declarations only | `SerialService.h`, `FSCMessage.h`, `SHA256.h`, `HTTPLexer.h`, `HTTPRequestHandler.h`, `RESTAPI.h`, `RESTDefines.h`, `IOSP_CALL_ALRT.h`, `OSP_MOT_GRG_DEL.h`, `LC_CALL_TERM.h`, `MESSAGE_TYPE_VCALL_CONN.h` | n/a | no bodies in this repository | n/a |

The properties that make each part correct:

- **Golay.** `decode(encode(w)) = w` after at most 3 bit errors (spec section 8).
  Beyond that, decode still returns a nearest codeword.
- **SiteData.** Every object's channel id, channel number and location id stay in
  the ranges the NXDN fields can carry, whatever calls built it (spec section 3, "clamped").
- **TDULC.**
  - LC_GROUP round-trips through encode and the factory.
  - Every frame the factory returns is of the LCO that was sent, however the
    channel garbled the block: a block RS (24,12,13) cannot correct is dropped.
  - Every known LCO is dispatched (spec sections 4.5 and 8).
- **TSBK.** The fields each end decodes are the ones the other end encoded
  (spec section 8, "frame round-trip"). For `ISP_U_DEREG_REQ` this holds
  only while `decode` last returned true: after a CRC failure it returns
  false and the object keeps the previous request's fields.
- **MotVoiceHeader1.** `encode` after `decode` reproduces the frame.
- **picojson parser.** The parser accepts exactly the JSON documents, builds
  the value the document denotes, reports a failure where it stopped, always
  returns, and with a `default_parse_context` arrays are nested at most
  `DEFAULT_MAX_DEPTHS` deep (objects are not bounded; see finding 4). A
  `deny_parse_context` refuses every document except a bare number.
- **picojson value.** No call sequence frees a buffer twice, reads a freed one,
  leaks one or lets two values share one; `serialize()` emits a JSON document;
  a `const` accessor leaves the value as it was; and, read as pure trees,
  the values behave as independent JSON trees (value semantics).

## 2. Modules

| Module | Models | Notes |
|---|---|---|
| `Golay2087` | `encode`, `decode`, `getSyndrome1987` as operators | The tables are the source's own, copied value for value. The two `while` loops of `getSyndrome1987` are the RECURSIVE operators `AlignAux` and `DivideOut`. |
| `Golay2087Link` | one protected field on the air | Actions: `Encode` (transmitter), `Corrupt(p)` (channel flips bit p), `Decode` (receiver), `Send` (next frame, fresh buffer). |
| `NxdnSiteData` | a set `Slots` of SiteData objects | One action per constructor and method. `operator=` is `Assign(d, s)`. |
| `UInt64` | the `ulong64_t` shift/add/mask idiom | TLC integers are 32-bit, so a 64-bit value is four 16-bit limbs. |
| `TDULC` | transmitter, channel and `createTDULC` receiver | `LC_GROUP_encode`/`LC_GROUP_decode` are operators. The channel (`Corrupt`) garbles bytes 0, 2 and 4 of the RS block (the LCO byte and two field bytes), one symbol error each step. The RS decoder is `FecDecodes`: at most 6 symbol errors; `Restored` is the block `decode241213` corrects in place (the sent one) when it succeeds. |
| `TSBK` | radio and site, with an inbound and an outbound channel | Each channel may corrupt its block. `TSBK::decode` then fails (CRC). `siteDereg` is the site object's fields, which a failed decode leaves as they were; `deregRet` is what decode returned and `recvDereg` (ghost) the request the decoded block carried. |
| `MotVoiceHeader1` | a set `Objects` of MotVoiceHeader1 objects and one reused output buffer | One action per constructor, `decode`, `encode` and the destructor. Each object's owned `header` buffer (`<<>>` for nullptr), its start of stream and its flag fields are per-object functions. Frame bytes are opaque values, distinct per position and frame, so a byte moved to the wrong place shows. |
| `JsonGrammar` | the JSON grammar the parser is checked against | Character classes taken from `json.h`, a declarative grammar `IsDoc`, and `ScansAsDoc`, a deterministic scanner for the same language that TLC evaluates much faster. |
| `JsonValue` | `json::value` over an explicit heap | See below. |
| `JsonTree` | what a `json::value` promises: value semantics | Each local holds a pure JSON tree; a call changes only its target (and a move's source) and stores a tree made of the arguments as they were before the call. `JsonValue` refines it. |
| `JsonParser` | `json::input`, `_parse`, `_parse_array`, `_parse_object`, `_parse_string`, `_parse_codepoint`, `_parse_number`, the three parse contexts | See below. |
| `MC*` | instances of each module for TLC | Each defines the small input sets. |

### How `JsonParser` corresponds to `json.h`

- **Recursion.** The recursion is an explicit call stack. Each frame is
  `[fn, pc, depth, aux]`:
  - `fn` is the C++ function;
  - `pc` is where it resumes after a callee returns;
  - `depth` is the `depths_` of the `default_parse_context` the frame works on;
  - `aux` holds `num_str` or the rest of a `match` pattern.
- **Steps.** One action runs the top frame up to its next `getc()`, call or
  return.
- **Shared state.** `ret` carries a callee's result. `shared` is the single
  `depths_` of a `null_parse_context`.
- **Input.** `input` is `json::input`: the text, `cur_`, `consumed_` and
  `line_` (counted when `getc` steps past a consumed newline). The
  text is chosen lazily: when `getc()` reaches the end, the text either ends
  (`-1`) or grows by one character of `Chars`, up to `MaxInputLength`. One run
  therefore explores every input up to that length, and only as far as the
  parser reads it.
- **Unicode escapes.** The four hex digits of a `\u` escape are one symbol
  naming their value class: `Q_BMP`, `Q_HIGH` (d800–dbff), `Q_LOW`
  (dc00–dfff) or `Q_BAD` (a non-hex digit, which `_parse_quadhex` puts back).
  Runs whose alphabet contains both `\` and `u` contain no hex-digit
  characters, so every `\u` is followed by such a symbol; any other
  character there takes the same non-hex path as `Q_BAD`.
- **The value built.** `out` is the `json::value` passed to `parse`, as a tree
  `[type, u, items, members]`: `u` is a number's token (what `strtod`
  converts), a literal's letter or a string's decoded characters. Where the
  running context's `out_` points is derived from the stack: every array or
  object frame that is parsing an item leads to its last element
  (`&a.back()`) or to the member whose key it keeps in `aux` (`&o[key]`).
  `set_*`, `parse_string`'s appends, `parse_array_start`/`parse_object_start`,
  `parse_array_item`'s `push_back(value())` and `parse_object_item`'s `o[key]`
  write there. A number whose `strtod` result is infinite makes
  `value(double)` throw `overflow_error`, which empties the stack (`exc`).
- **Contexts.** `setup.context` is `"default"`, `"null"` or `"deny"`.
  `Denies(call)` says that a `deny_parse_context` call refuses: `set_null`,
  `set_bool`, `parse_string` and both `_start` calls return false, and
  `_parse` returns false after them. `refused` records that a context call
  (a `_start` for depth, or a deny) refused.
- **The wrapper.** The bottom frame is `_parse(ctx, first, last, err)`. On
  success it returns `in.cur()`. On failure it records `in.line()` and reads
  the rest of the line, keeping characters `>= ' '`, into `err`. That
  loop reads only the text already chosen.
- **The reference grammar.** `IsDoc` (module `JsonGrammar`) is a separate, declarative grammar of
  JSON texts, written as mutually recursive recognisers over character
  sequences. White space is allowed exactly where `skip_ws` runs. Number
  syntax is the one `_parse` accepts: `strtod` over the characters
  `_parse_number` collects, in the C locale.
- **The reference value.** `DocTree` (in `JsonGrammar`) is the tree a
  document denotes. It is computed from the text alone, with its own escape
  table, and the last of two equal keys wins.
- **Left out.** The error message's fixed wording, and the UTF-8 byte values
  of a `\u` escape: each escape is one character named by its code point.

### How `JsonValue` corresponds to `json.h`

- **Memory.** `mem.slot` holds the values a caller owns (`Slots`, e.g. two
  local variables); `mem.heap` holds the buffers `new std::string`, `new
  array` and `new object` return (`Buffers`). A value is `[type, u]`: `type`
  is `type_`; `u` is the scalar in the union, or the buffer it points to. A
  buffer is `unused`, `live` or `freed`, with its string, its elements and,
  for an object, its keys in `std::map` order (`KeyOrder`). A location is a
  slot or an element of a buffer, so `t` and `x` may name `x.get<array>()[0]`.
- **Copy and free.** `CopyVal` and `ClearVal` are the copy constructor and
  `clear()`, recursive through `std::vector` and `std::map`. Reading a buffer
  that is not live adds `freed_read` to `faults`; freeing one adds
  `double_free`. When `new` would need more buffers than the bound, the call is
  not taken.
- **Calls.** One action per constructor, the destructor, both assignments,
  `swap`, `set<T>` by copy and by move, the narrowing `get<T>`, a `get<T>` with
  the wrong type (which throws), and the two ways a container grows:
  `get<array>().push_back(x)` and `get<object>()[k] = x`. Each action is the
  whole call: `set<T>` clears, writes `type_`, then copies, in that order.
  `AliasingCalls` says whether an argument may lie inside the value the call
  changes.
- **Numbers.** A double is a symbol (`"-1"`, `"0.5"`, `"2p60"` for 2^60,
  `"nan"`, `"inf"`). `Narrow` is what the narrowing `get<T>` stores, as gcc
  compiles the conversion on x86-64.
- **Serialiser.** `Ser` is `_serialize` with its indent, `EscChar` is
  `serialize_str_char`, and `ToStr` is `to_str`'s `printf` formats.
- **Refinement.** The auxiliary variable `trees` holds `Tree(mem, ...)` for
  every slot: the tree the heap stands for, with the buffers left out.
  `JT == INSTANCE JsonTree WITH tree <- trees, ...` and `ValueSemantics ==
  JT!Spec` state that every behaviour of the heap model is a behaviour of the
  pure tree specification. `trees` is a function of `mem`, so it adds no
  states; it is a variable only so that TLC computes it once per state.
- **Equality.** `Equal` is `operator==` with its result `"true"`, `"false"`
  or `"throw"` (`PICOJSON_ASSERT(0)` throws `std::runtime_error`).

What is modelled from the specification, because it is not under `src/`:

- the TDULC/TSBK base classes (`toValue`, `fromValue`, trellis and RS FEC);
- the radio side of the TSBK exchange (TIA-102.AABC layouts);
- the P25 LCO constants.

`PROJECT.json` marks these as `spec_modelled`.

## 3. Runs

| Run | Checks | Result | Bounds and why they suffice |
|---|---|---|---|
| `golay` | `CorrectsRatedErrors`, `NoFartherThanSent` | pass, ~322k states, 80 s | 26 information words: 0, 255, each single bit set, each single bit clear, and 8 mixed patterns, so every codeword bit is exercised both ways. Up to 4 flips at any of the 20 positions: one past the rated 3, so that decode meets vectors it miscorrects. |
| `sitedata` | `ChannelInRange` | pass | Two objects (symmetric model values). Arguments at 0, the limits and one past them: locId 1/0xFFFFFF/0x1000000, channelId 0/15/16/255, channelNo 0/1023/1024. |
| `sitedata_locid` | `LocIdInRange` | violation | One `setAdjSite` with locId 0x1000000. |
| `tdulc` | `TypeOK`, `GroupRoundTrip`, `FrameOfSentLco` | pass | LC_GROUP fields at both ends of their widths. Foreign LCO bytes: PRIVATE, TEL_INT_VCH_USER, CALL_TERM, a byte with high bits set, and an unknown LCO. Up to 7 symbol errors, one past RS capability, placed in the LCO byte and two field bytes, so an uncorrectable block really carries another LCO. |
| `tdulc_callterm` | `KnownLcoDispatched` | violation | A correctable LC_CALL_TERM is dropped. |
| `tsbk` | `TypeOK`, `DeregDecodedAsSent` | pass | Every id at its minimum and maximum width. Both channels may corrupt, so a failed decode can follow a good one and leave its fields behind. |
| `tsbk_locregrsp` | `LocRegRspDecodedAsSent` | violation | The radio reads sysId as siteId. |
| `mvh1` | `TypeOK`, `EncodeReproducesDecoded` | pass, 150 states | Two objects and three 30-byte frames. Every byte is distinct. There are two stale output buffers, plus the last encode's buffer, reused. Every interleaving of construct, decode, encode and delete over both objects is explored. `LENGTH = 30` and `HCW_LENGTH = 21`, the values the hard-coded `data[29]` implies. |
| `json` | `TypeOK`, `ParseMatchesGrammar`, `DenyAcceptsNumbersOnly`, `ParseBuildsTree`, `ErrorReportsStop`, `ArrayDepthBound`, `Termination` | pass, ~1.2M states, 45 s | Seven setups (`Setups`). (1, 2) Texts of up to 5 characters in the default and the null context over brackets, braces, `,` `:` `"`, `1 e - .`, a newline and `n u l`: nesting depth 4, every literal, truncated literals, malformed numbers (`1e`, `1-`, `-.`), failures after a newline. (3) Numbers alone, up to 6 characters over `1 e - .` and a newline: `1e1111`, which overflows `strtod` and throws. (4) Containers alone, up to 6 over the brackets, braces, `,` `:` `"` and `1`: `{"":1}`, `[1,11]`, `[[1]]`. (5) Strings up to 7 characters over `" \ u n`, a tab and the three quad symbols: every escape, the escape `\n` decoded into the value, a lone surrogate. (6) Up to 8 over `" \ u` and the two surrogate symbols: a surrogate pair and every failing variant of one. (7) A deny context, up to 4 over the first alphabet: `null`, `"`, `[1]`, `1e1`. Budget 3, so the depth check binds on `[[[[`; `ArrayDepthBound` is stated for the default context only. |
| `json_depth` | `DepthBound` | violation | Budget 1, both contexts: `{"":{`. |
| `json_value` | `TypeOK`, `MemorySafe`, `SerializesToDocument`, `ValueSemantics` | pass, ~24k states under symmetry, 1.5 min | Two values and two heap buffers (each set symmetric: `new` may return any unused buffer), arrays and objects of up to 2 elements, so a value can hold a container holding a container. Strings: one holding a control character, which the grammar refuses raw, so `serialize()` must emit it as `\u00XX`; keys: one needing an escape. One double (2^60, printed with `%.17g`) and `float` narrowing. Arguments disjoint from their target (`AliasingCalls = FALSE`). |
| `json_value_constget` | `ConstGetPreservesEquality` | violation | `value(number_type, true)`, then `get<int>()`: `x == x` turns from true into a throw. |

Every property of a passing run has a mutant in `PROJECT.json`. The mutant is
an operator defined next to the definition it replaces, and it encodes a
plausible slip: a swapped byte order, a dropped clamp, a wrong mask width, an
unchecked FEC result. TLC finds each of these violated.

`TypeOK` is defined in every module. For `Golay2087Link` and `NxdnSiteData`,
every field is a C++ fixed-width integer that cannot leave its type, so no
mutant of the code can break `TypeOK`, and those runs do not list it.

## 4. Findings

1. **`SiteData::setAdjSite`** (`SiteData.h:101`).
   - It clamps the stale member `m_locId` rather than the argument.
   - It then stores the argument unclamped.
   - An adjacent site can therefore carry a location id wider than 24 bits (`sitedata_locid`).
2. **`TDULCFactory::createTDULC`** (`TDULCFactory.cpp:81`).
   - It has no case for `LC_CALL_TERM`, whose class exists.
   - A correct call-termination TDULC is therefore dropped as an unknown LCO (`tdulc_callterm`).
3. **`OSP_LOC_REG_RSP::encode`** (`OSP_LOC_REG_RSP.cpp:64`).
   - It packs `sysId()` into the byte its own comment calls "Site ID".
   - A radio reads the low byte of the system id as site id.
   - `tsbk_locregrsp` shows the wrong site id (system id 1 read as site id).
   - For a system id above 0xFF, the carry would also change the RFSS id byte.

4. **picojson depth budget** (`json.h:1159`, `json.h:1244`).
   - In `default_parse_context`, `parse_object_start` tests `depths_` but does
     not decrement it. Every member's context is built with the same
     `depths_`.
   - In `null_parse_context`, `parse_object_item` increments the one shared
     `depths_` before every member. This undoes `parse_object_start`'s
     decrement, and `parse_object_stop` gives nothing back, so the budget also
     grows with every member of every closed object.
   - In both contexts, nested objects are not limited by `DEFAULT_MAX_DEPTHS`.
     Input nested deeply enough recurses until the stack is exhausted
     (`json_depth`).
   - Arrays are bounded only in the default context (`json`). In the null
     context each object member adds one to the budget, so `{"":1,"":[[[[`
     opens four arrays against a budget of three.

5. **picojson `get<T>()` is not const** (`json.h:392`).
   - `get<int>()` and the other narrowing `get<T>()` are declared `const`, yet
     on a `number_type` value they `const_cast` and rewrite `type_` and `u_`.
   - `operator==` knows only null, bool, double, string, array and object; for
     any other type it reaches `PICOJSON_ASSERT(0)` and throws.
   - So after a read through a `const` reference, `x == x` throws
     (`json_value_constget`), and no int, uint or float value can be compared.

Three behaviours the passing `json` run pins down, which callers should know:

- **`parse` throws on an overflowing number** (`json.h:1129`). `set_number`
  builds `value(double)`, which throws `std::overflow_error` for the infinite
  `strtod` result of `1e1111`. The exception escapes `parse(value&, ...)`
  instead of the error string it otherwise returns. `ParseMatchesGrammar`
  allows a throw exactly there.
- **A `deny_parse_context` accepts numbers** (`json.h:1049`). Every call
  of `deny_parse_context` returns false, but `_parse` calls
  `ctx.set_number(f)` and returns true without looking at the result. A
  parse with it therefore succeeds on `1` and fails on `null`, `""`, `[]` and
  `{}`. `DenyAcceptsNumbersOnly` states exactly this.
- **The error text can come from the next line** (`json.h:1268`). The
  message's line is that of the character at `cur_`. The quoted text starts
  after the last character consumed. When the parse stops on a consumed
  newline (`"\` followed by a newline), the message names one line and quotes
  the next. `ErrorReportsStop` states this as the code does it. Neither
  alphabet puts a newline right after a backslash, so the case itself is
  not reached; failures after a newline elsewhere are.

## 5. Fairness

`Termination` (run `json`) is the one liveness property. `JsonParser`'s
`FairSpec` is `Spec /\ WF_vars(Next)`: a parse is one sequential call on one
thread, so once it has started, its next step is always taken; the model's
only choice is the next input character. Every other property is a safety
property (invariants, the action properties `EncodeReproducesDecoded`
and `ConstGetPreservesEquality`, and the refinement `ValueSemantics`, whose
abstract `Spec` has no fairness either), checked without fairness. Nothing else in
this code waits for anything: each call runs to completion synchronously.

## 6. Not modelled

- **Declaration-only headers.** `SerialService.h`, `SHA256.h`, the REST/HTTP
  headers and the other declaration-only headers hold no behaviour to model.
- **`FSCResponse`.** It copies one byte each way.
- **picojson, the rest.** `JsonParser` builds the value as a pure tree; the
  heap behind it is `JsonValue`'s. Two equal keys in one object need 11
  characters, beyond the run's bounds, so the last-wins rule of `o[key]` is
  stated in `ParseBuildsTree` but not reached. The `parse(value&, ...)`
  overloads and `operator>>` only forward to `_parse(ctx, first, last, err)`
  and copy `err`.
  `evaluate_as_boolean`, `to_type` and `contains` change nothing. `get(idx)` and `get(key)` return a shared static null that a
  non-const caller could write to; it is not modelled. `PICOJSON_USE_LOCALE`
  is taken in the C locale (decimal point `.`). Characters outside the
  alphabets above are not modelled.
- **Aliasing arguments.** With `AliasingCalls = TRUE`, `MemorySafe` fails in
  two steps: `x.set<std::string>(x.get<std::string>())` clears `x`'s string
  and then copies from it. Callers must not pass such arguments, so the
  checked run excludes them. The same holds for moving or swapping a value
  with its own element.
- **NaN through `set<double>`.** `set<double>` does not reject NaN or
  infinity, and `get<float>()` of a double beyond float's range stores
  infinity; either then serialises as `nan` or `inf`, which is not JSON. The
  checked run passes finite, in-range doubles only.
- **Golay beyond 5 errors.** Four syndromes of `DECODING_TABLE_1987`, whose
  least-weight error pattern has weight 6, hold 0, so decode returns the raw
  bits for them. Four flipped bits never reach those cosets.
- **`MotStartOfStream`.** It is not in `src/`. It is recorded by the four
  record bytes it was decoded from.
- **RS and Golay(24,12,8).** These codecs are not in `src/`. Their contract
  (correct up to 6 symbol errors, report failure beyond) is assumed from the
  spec.

## 7. Plan

Done so far:

- `Golay2087` and `Golay2087Link`;
- `NxdnSiteData`;
- `UInt64`, `TDULC` and `TSBK`;
- `MotVoiceHeader1`;
- `JsonGrammar`, `JsonParser`, `JsonValue` and `JsonTree`.

Left for later sittings:

- **Refinement.** Done for `JsonValue` (`JsonTree`). Still open: an abstract
  "frame round-trip" channel specification that the TDULC and TSBK link
  models refine.
- **picojson value tree.** Done as a pure tree (`ParseBuildsTree`). Still
  open: driving `JsonValue`'s heap from the parser.
- **Wider inputs.** Larger alphabets for `JsonParser`, such as a `\u` escape
  inside an object key and numbers with exponent signs, within the time
  budget.
- **Four recorded behaviours without a run.** Each of these needs a
  violation run of its own: `LC_GROUP::encode`'s unmasked ids, the static
  null returned by `get(idx)`/`get(key)`, `set<double>(NaN)`, and
  out-of-range narrowing, whose texts are not JSON. The `hazards` of
  `PROJECT.json` list them.
