# A specification of jsnpg

jsnpg is a JSON parser and generator in C. It reads a text from memory with a
SAX parser (`jsnpg_parse`) or a pull parser (`jsnpg_parse_next`), hands events to
a generator, and a generator hands them to callbacks: those of the caller, those
that print JSON, or those that record a DOM which can be parsed again.

The modules in this directory model that library as state machines, the
configurations check them with TLC on small instances, and the modules of
proofs establish the most important results for every size.

All paths below are relative to `src/src/` of the repository unless they begin
with `src/`.

## 1. The system

The library is sequential: there are no threads, no signals and no I/O. What
makes it hard is state that is kept *between* calls, by several parties who each
know a part of it, and that must still fit when a call fails half way; and text
that is rewritten while it is read, at boundaries of bytes, digits and blocks.

| Component | Keeps | Operations | Talks to |
|---|---|---|---|
| nesting stack, `stack.c` | `ptr`, `size`, and one bit per level in bytes behind the struct of its owner | `stack_push`, `stack_pop`, `stack_peek` | owned by a parser or a generator |
| generator, `generate.c` | a nesting stack, `key_next`, `error`, callbacks and their context | ten event functions, `generator_reset`, `generator_new`, free | calls the callbacks; is called by a parse, a DOM replay or the caller |
| SAX parser, `parse.c` | nothing between calls; within one, a local `stack_type` and the byte `b` ahead | `jsnpg_parse_opt`, `parse`, `parse_generate` | scanners, nesting stack, generator; leaves by `longjmp` on errors |
| pull parser, `parsenext.c` | `p->state`, the stack, the read position | `jsnpg_parse_next` | scanners, nesting stack; `longjmp` on errors; or the DOM |
| JSON output, `output.c` | `comma`, `key`, `nl`, `level`, `indent`; a buffer that grows | ten print callbacks; result string and bytes | called by the generator; allocator; UTF-8 |
| DOM, `dom.c` | a list of blocks with a fill count each; a read position per parser | ten recording callbacks, `dom_parse_next`, `dom_parse` | called by the generator; drives a generator |
| token scanners, `parser.c` | the read position | white space and comments, words, strings, numbers | input stream, UTF-8 |
| input stream, `input.c` | the bytes, read position, and a string that is rewritten in place | take, skip, string start, update, complete | scanners |
| allocator, `alloc.c` | a table of everything allocated for a parser or generator | new, alloc, realloc, free all | everybody |
| UTF-8, `utf8.c` | nothing | encode, validate, skip a byte order mark | scanners, output |
| numbers, `parser.c` with `thirdparty/` | nothing | `parse_number`; `i64toa`, `dtoa`, `compute_float_64` | scanners, output |

Interactions that matter:

* **Two stacks, one nesting.** A SAX parser tracks the containers it has opened
  and so does the generator it feeds (in the build with assertions). They must
  agree at every event, and after an error neither may keep what it should not.
* **An event is check, effect and callback.** `generate.c` changes its nesting
  first and then calls the callback, which may fail. The nesting has changed
  even so.
* **Errors leave by `longjmp`**, with the stream read on, the local state lost
  and the kept state as it was before the call.
* **One buffer, read and written.** A string is decoded over its own bytes, and
  the results of earlier tokens point into the same buffer.
* **One allocator per owner.** Everything a parser or generator needs is freed
  with it; blocks move when they grow, while a table, a stream and the caller
  know their address.
* **The caller may go on**: ask the pull parser again after an error, parse into
  the same generator again, record into a DOM that is being replayed.

What correctness means for each part, in one line: the bit stack *is* a stack of
container types; the generator accepts exactly the well-formed event streams;
each parser accepts exactly the texts of the grammar under the caller's flags
and yields their events; a token is the value its bytes stand for, and its error
is where its first fault is; the printed text is JSON, laid out as asked, and
reads back as what was put; a DOM gives back what was recorded, in order and
once; whatever is allocated belongs to somebody who frees it; and every call
returns.

## 2. The modules

```
Nesting ── operators on nestings (sequences of container types)
  ├─ NestingStack   what a nesting stack promises                  (abstract)
  ├─ BitStack       stack.c;  BitStackProofs
  ├─ JsonEvents     which event streams are well formed            (abstract)
  ├─ Generator      generate.c;  GeneratorProofs
  │    └─ used by SaxParser and JsonOutput
  ├─ Tokens ── the input as tokens; the flags
  │    ├─ JsonText      which texts are JSON, which events they are (abstract)
  │    ├─ SaxParser     parse.c composed with Generator;  SaxParserProofs
  │    └─ PullParser    parsenext.c;  PullParserProofs
  └─ JsonReader ── a reader of the printed text
       └─ JsonOutput    output.c composed with Generator;  JsonOutputProofs
EventLog            what a DOM promises                            (abstract)
Dom                 dom.c;  DomProofs
Utf8                utf8.c, and the table of Unicode
  ├─ InputStream    input.c and the copy of the text
  │    ├─ StringScanner   strings of parser.c
  │    └─ NumberScanner   numbers of parser.c
  │         └─ Scanners   both, with comments and words
  │              └─ Lexemes   what a text says, without scanning it (reference);
  │                           ScannersProofs (Utf8 too)
  └─ StringEscapes  jos_scan_escape of output.c
Itoa                thirdparty/itoa.c
MCScanners          the texts that TLC scans, with StringEscapes and Itoa
Allocator           alloc.c
  └─ OutputBuffer   the memory stream of output.c
       └─ Lifecycle parser.c, parse.c, generate.c, output.c, dom.c: what is made and freed;
                    LifecycleProofs (all three)
```

**BitStack.** `ptr` is `stack.ptr`; `ones` is the set of (byte, bit) places that
hold a 1, any set at first because the bytes come from `malloc`; `asked` and `ret`
are the last operation and what it returned, so that the refinement is about the
type that was pushed and not only about some type. The three operations are one action each. The
readers address a level by `sp >> 3` and `sp & 7`; `stack_push` keeps the byte
offset in a `byte`, which is `WritePlace`. `BitsPerByte`, `OffsetRange` and
`Size` are parameters, so that TLC can meet at a few levels what the code meets
at thousands. `ImplementsNestingStack` maps the bits to the abstract stack.

**Generator.** `stack` is the nesting itself, as BitStack justifies; `key_next`
and `error` are the fields; `event`, `returned` and `failed` remember what
happened. Each event function is `Offer`: check, effect, callback. A failed check
is a failed `ASSERT` (`status = "aborted"`). The callback may return false at any
event, silently or with an error set (`failed` is the history of that since the last reset). `GenSize = 0` is the generator that is made for the
callbacks of a parse and tracks nothing. The five functions for null, boolean,
integer, real and string differ only in their payload and are one action.

**Tokens.** What the parse loops see after `consume_whitespace`. A string, a
number or a word is a token whose scanner accepts (`string`, `scalar`) or throws
(`badstring`, `badscalar`); `badcomment` is a `/` that begins no comment where
comments are allowed. The next token is chosen when the one before is taken: TLC
explores all texts. What the scanners do byte by byte is the module Scanners.

**SaxParser.** `pc` is the place in `parse_generate` at which the next byte is
looked at; one action per branch there. Opening and closing call the
generator's own actions, so check, effect and callback of the generator happen
within the step, as in the code. `parse` decides at the end of a value whether
another one follows. `Terminated` is `make_pg_error_return`. `jsnpg_parse_opt`
begins the next parse, with other flags and another text, into the same or a new
generator, also into one whose last parse failed. `ReuseOpen` says whether a caller
does that when the failure has left a container open; the repository's tests make
a generator for each parse.

**PullParser.** `pstate` is `p->state`, `state` the copy that a running call
works on, `pc` whether a call runs. A call is a sequence of steps: those that
only change the copy (a comma, a value after `DONE`) and the one that returns.
`Throw` restores nothing and advances the stream or does not, as each `throw`
does. `retried` is a history variable: the caller has asked again after an error.

**JsonOutput.** `jos` holds the fields of `json_output_stream`; `text` is not the
text but what a reader (`JsonReader`) has made of it: the open containers, what may
come next, whether all so far was JSON and all white space where it belongs. The
buffer may fail to grow at any byte, so a call may stop before its prefix, after
it or in its body (`Written`); from then on the text has a hole (`cut`) and nothing
more is claimed about it.

**Dom.** A block is its size, its fill count and the nodes by their offset. All
sizes are in bytes and wrap like `size_t`, with the node size, the header, the
minimum size and the range of `size_t` as parameters. Writers advance by
`Required`, readers by `Extent`, computed differently in the code. `dom_parse` is
broken up at its calls of the generator, where a callback may record into the very
DOM that is replayed. A position that holds no node yields `garbage`.

**JsonText** is the reference for both parsers: a grammar over tokens with the
nesting, what may come next, and the flags as relaxations. A text is rejected
exactly when nothing else is possible. `Extra` names what the code accepts beyond
the documented language: a comma after a complete top-level value (`top_comma`),
`[,]` with trailing commas (`lone_comma`), and members without a comma
(`missing_comma`). The SAX parser implements it with the first two, the pull parser
with the third.

**Utf8** translates `utf8.c` on real bytes. Below it stands the reference, the table
of well-formed byte sequences of the Unicode standard, written without regard to
the code.

**InputStream, StringScanner, NumberScanner, Scanners.** `bytes` is the copy of the
text as it is, with its NUL; `source` is the copy as it was. `read`, `string`, `write`
and `mark` are the pointers of the stream (`mark` is where the bytes begin that have not been moved down yet).
The state is the byte that is looked at (`phase`), and one step is one byte, one
escape or one turn of a loop; the results collect what the scanners return, an
error with its code and position. Strings are `parse_string_in_stream` with every
way an escape can end, in the order in which the code looks: `Follows`, for
example, is the test that a second escape comes behind a high surrogate.
Numbers keep what `parse_number` keeps: the sum of the digits kept, how many, the
power that makes up for the others. A number becomes a long, or a double of which
only the arguments of `compute_float_64` are modelled (it may decline, and then
`strtod` runs, or either may find the number infinite). Which token may follow which is left to the
parsers; here any token may follow any.

**Lexemes** is the reference for what a text says, as a predicate on the text and the
results: which bytes are blank, which lexemes there are, what each is worth, and where nothing can be
read. It has no phases and no read position, and nothing in it is computed from left to right: whatever may be of any
length is told by a witness, the offsets at which a run of blanks or a string is cut, or
the value of a number after each of its digits. `StandsFor` says which bytes of the copy one byte,
sequence or escape of a string becomes; `WholePart`, `FractionPart` and `ExponentPart` say which digits
a number has and what they are worth, over natural numbers without a width.
`ResultsAreTheText` puts them together. Its quantifiers range over functions on natural numbers,
so it is proved (section 5) and no run evaluates it.

**MCScanners** holds the texts. A text is put together of pieces, each with its raw
bytes and what they mean, so that what the scanners return is compared with a
meaning that does not come from reading. `StringEscapes` is `jos_scan_escape` of the
output and `Itoa` is `itoa.c`, for any base: what they write is scanned too.

**Allocator, OutputBuffer, Lifecycle.** The heap is a function from the addresses in
use to sizes. An operation that allocates may end in several ways, so its operator
is the *set of its outcomes*: any allocation may fail, and any `realloc` may move its
block. `malloc` takes the lowest free address, so that a freed one is soon in use
again. `Allocator` is the table of `alloc.c` with its capacity in entries, and the
bytes that were asked for; `OutputBuffer` the stream whose buffer doubles. `Lifecycle` composes
them with the functions that make, use and free parsers and generators, one step
for each thing they allocate, including the early returns of `jsnpg_parse_opt`. What
these are known to leave unfreed goes into `lost`.
`put` counts what the calls said they put, `result` is what the caller was given.
A step that follows the writing of a table beyond its block is undefined in C; the
model stops there (`Overrun`), as it does where `parser_set_bytes` writes through
NULL (`crashed`).

## 3. The runs

| Run | Question | Instance |
|---|---|---|
| `BitStack` | do bits in bytes behave as a stack? | 2 bits per byte, 5 levels in 3 bytes, any old bits |
| `Generator` | does it accept exactly well-formed streams? | 4 levels, every event, every failure |
| `SaxParser` | is the language right, do both stacks agree, is the code of a failure its own, does it end? | 3 levels, all flags, all texts, parse after parse, generators used again |
| `PullParser` | is the language right, do state and stack fit, also after errors, does it end? | 3 levels, all flags, all texts |
| `JsonOutput` | is the output JSON and laid out? | 3 levels, indent 0 and 2, failures anywhere |
| `Dom` | do both replays give what was recorded? | node 2, header 2, block 12, strings of 0, 1, 7; 3 events |
| `Scanners` | is each token what its bytes mean, and each error where its first fault is? | about 6,000 texts of up to four pieces, with those cut short at any byte; numbers in base two |
| `Memory` | is everything owned and freed once, and is the buffer what was put? | table of 4, buffer from 2 bytes, puts of 1 and 4, failures anywhere |
| `NumberPower` | violation: powers of ten beyond the table | the numbers of `Scanners`, table of -3 to 3 |
| `AllocatorTable` | violation: a table smaller than its entries | as `Memory` |
| `CallbackErrors` | violation: a code that nobody has set | 2 levels, a generator made for callbacks |
| `DomUnwritten` | violation: replay of a DOM whose first block is empty | blocks as `Dom`, strings of 0, 1, 11; 2 events |

Bounds and why they are enough:

* *Levels.* The parsers and the generator look at the innermost container and, on
  closing, at the one below it. Three levels give every pair of these and the
  limit itself; the proofs remove the bound for what they cover.
* *BitStack.* Five levels in two-bit bytes fill two bytes and half of a third,
  the size that is no multiple of the byte.
* *LevelRange = 8* is larger than any nesting of the run, as 2^32 is; the
  arithmetic modulo it is kept so that a level below zero would be seen.
* *Dom.* Strings of 0, 1 and 7 bytes meet rounding at zero, up, and a size larger
  than what remains of a block (12 with its header of 2); three events fill a block
  exactly, overflow it, or need a block larger than the minimum. `ReplayNoFirst =
  FALSE` excludes the replay into a generator of a DOM whose first block is empty,
  which is the run `DomUnwritten`. In the real DOM, `NODE_SIZE` and `DOM_MIN_SIZE` are
  8 and 8192.
* *Scanners.* The parts of strings are one of each kind of escape and one of each
  fault; two in a row, and three without faults, meet every order of moving bytes
  down, restarting and writing. Numbers are in base two with the 19 digits that the
  code keeps, and a long ends at 500000 (19 binary digits, of which a sum keeps at
  most one more bit), because TLC's integers have 32 bits; the edge of a long, its
  neighbours on both sides, and one digit more or less than are kept are all there.
  `ExpLimit` is 5 for 1000, so that binary exponents of three digits pass it. The
  code depends on ten and on the width of a long nowhere else.
* *Memory.* Four entries in the table are the fewest in which a JSON generator and a
  parser find room, and a DOM soon needs a fifth, with which the table has grown
  once. Two, then four, then eight bytes of buffer are two growths; `MaxCount` bounds what is put. `MaxLost = 0`
  bounds the calls: none is made once something has been lost, and one call can
  lose several blocks. 14 addresses are never all in use.
* `MaxEvents`, `MaxCount` and the sizes are the only counters; the texts of the
  parsers are unbounded.

`CHECK_DEADLOCK FALSE` is used where the program really stops: an assertion has
ended it (`Generator`, `JsonOutput`, `PullParser`, the violation runs), the DOM
holds as many events as the run allows, the text has been scanned (`Scanners`), or
memory was written through NULL or behind a table, or lost (`Memory`).

**Fairness.** A call of a parser is synchronous: once made, the machine executes
it to its end. That is weak fairness of the parser's own steps (`parse`,
`parse_next`) and of the scanners' (`Next` of Scanners, which has no steps of a caller). No
fairness is assumed of the caller: it may never call again. The property
`Progress` says of every loop that it takes the next token or ends, which with
finite texts means that every call returns; that of Scanners says the same of
every byte.

## 4. What is checked

Each property is stated in a comment at its definition; in short:

* `ImplementsNestingStack`, `LevelsInAllocation`: bits behave as a stack, inside
  their allocation, whatever was in the bytes before.
* `KeyNextInObject`, `ImplementsJsonEvents`: the generator stops exactly the streams
  that are not JSON, also when callbacks fail.
* `StackTypeAgrees`, `GeneratorInStep`, `NeverAborts`, `WholeTexts`:
  the local copy, the parser's stack and the generator's stack agree at every
  step; the assertions of the generator hold for any text; a parse that succeeds
  leaves nothing open.
* `FailureExplained`: the code of a failed parse is of that parse and tells who ended it, also
  in a generator that served a parse before which failed.
* `ImplementsText` (both parsers): the language, token by token, and the events.
* `StateFitsStack`, `ReturnsJsonEvents`: the pull parser after errors.
* `OnlySecondScalarsAbort`: its assertion on `p->state`, which is not the state that the
  loop goes by, fails nowhere but where the flag for multiple values leads (below).
* `OutputIsJson`, `OutputIsLaidOut`: the printed text.
* `NodesInBlocks`, `PullsTheLog`, `ReplaysTheLog`: the DOM.
* `UnreadIntact`, `StringsDecoded`: a string rewritten over itself spoils nothing that is
  still to be read, is what its escapes stand for, and stays so while the rest is read.
* `ReadInside`, `TokensFound`, `FaultsPlaced`: nothing is read behind the NUL; comments and
  blanks end where they end; an error is reported for a faulty token only, with
  the code and place of its first fault, and a token cut short is not taken for whole.
* `NumbersExact`: a long exactly when it fits, and otherwise the digits and power
  whose product is the number but for the digits left out.
* `WrittenIsRead`: what the output writes, the scanners read as the same value.
* `HeapIsOwned`, `BufferHoldsText`, `ResultsStand`: memory, whichever allocation fails.
* `Progress` (both parsers, and the scanners): no loop without reading on.

### Disagreements

The four violation runs are disagreements between the code and its documentation
or its own assertions, described in `PROJECT.json` under "findings":

* `DomUnwritten`: `dom_parse` reads a first block that holds nothing (`dom.c:291-297`).
* `AllocatorTable`: the table of allocations grows by bytes, not pointers (`alloc.c:84`).
* `NumberPower`: the test of the exponent is never false (`parser.c:442-443`).
* `CallbackErrors`: `generator_new` does not set `error` (`generate.c:157-180`), and the generator
  made for the callbacks of a parse is never reset, so that a stop by a callback is reported with
  whatever was in its memory (`error.c:107`), though `src/README.md:70-71` promises a listed code.
  A generator driven by hand is in the same state until its first parse. `Init` of Generator has it.

Others were met while modelling, are part of the models or excluded from them,
and have no run of their own:

* With `JSNPG_ALLOW_MULTIPLE_VALUES` a scalar as the second value of a text fails the assertion
  of `state_change_value` (`parsenext.c:213-216`, `38`, `50`): the local state is set to `START`,
  `p->state` is still `DONE`. `OnlySecondScalarsAbort` says that nothing else makes it fail.
* `generator_reset` keeps the nesting of a parse that failed (`generate.c:149-155`), and the next
  text, although it is JSON, fails an assertion: with `ReuseOpen = TRUE` TLC violates
  `NeverAborts` of SaxParser. The run excludes such a reuse, `StaysInStep` and
  `NeverAborted` have it as their condition.
* `stack_push` keeps the byte offset in a `byte` (`stack.c:42`): beyond 2048 levels it writes to
  another level. With `Size = 6` and `OffsetRange = 2` TLC violates `ImplementsNestingStack`;
  the theorem `ImplementsStack` has the condition.
* A byte order mark is compared with the NUL of its literal (`utf8.c:170-177`) and so never
  skipped in front of a text, though `parser.c:463` says so; it is an unexpected byte. No text
  of the run `Scanners` begins with a mark, so that nothing is claimed of it.
* `generator_new` allocates `stack_size >> 3` bytes (`generate.c:163`), one too few for
  a size that is no multiple of eight; the theorem `LevelsFit` has the exact
  condition.
* Output that fails for want of memory leaves no error (`output.c:66-104`), though
  `src/README.md:116-118` has the error looked at once, at the end.
* `1,2` is accepted at the top level without a flag (`parse.c:161-169`) and `[,]` with
  trailing commas (`parse.c:86-95`, `105-111`): `Extra` in SaxParser. The pull parser
  takes members without a comma (`parsenext.c:144-156`): `Extra` there.
* `jsnpg_result_string` counts its NUL as part of the text (`output.c:450-456`), and what
  it or `jsnpg_result_bytes` returned is lost when the buffer moves (`ResultsStand`
  says until when it holds).
* `parser_set_bytes` writes to the copy without a look at whether there is one
  (`parser.c:470`): `crashed` in Lifecycle.
* The early returns of `jsnpg_parse_opt` leave the parser (`parse.c:228-243`), and
  `json_generator` and `dom_generator` leave the generator when they fail
  (`output.c:442`, `dom.c:229-236`): `lost` in Lifecycle.
* A double that is no number is written as `nan` or `inf` (`output.c:257`,
  `thirdparty/dragonbox.c:1489-1501`), which is not JSON.
* A replay that is stopped reports `UNEXPECTED` and loses the generator's error
  (`dom.c:359`, `error.c:101-115`).
* `jsnpg_parse` ignores `.string` (`parse.c:220-231`), and treats callbacks together with
  a generator as an error though `include/jsnpg.h:203` says the generator is ignored.

## 5. What is proved

The proofs hold for every value of the constants under their named assumptions
(natural numbers, non-zero where the code divides).

The modules about code that keeps a nesting begin with the same three lemmas: opening makes
the innermost container (`OpenedFacts`), closing needs one (`ClosedFacts`), and `Peek` answers
with a container only if there is one (`PeekFacts`).

**BitStackProofs**
* `TypeCorrect`: `ptr` stays within the size.
* `LevelsFit`: if the owner is a parser, or the size fills whole bytes, every level
  lies in the allocation.
* `ImplementsStack`: if the offset can name every byte (`OffsetRange` large enough),
  the bits implement the abstract stack. The argument is that two different
  levels have different places, so a push changes one type only; it fails without
  the assumption.

**GeneratorProofs**
* `TypeCorrect`; `KeysOnlyInObjects`, inductive given the types: every event that sets
  `key_next` leaves an object innermost.
* `AcceptsJsonEvents`: with tracking on, the checks hold exactly when an event fits
  (`ChecksAreFits`, which needs `KeyNextInObject` because `can_key` and `can_pop` look at
  `key_next` alone), and the effects are those of the abstract stream.

**PullParserProofs**
* The inductive invariant is `Inv == TypeOK /\ StateFitsStack`. Neither part is
  inductive alone: a pop needs a non-empty stack, which only the state tells, and
  the state after a pop needs the type of the stack. The part of `StateFitsStack`
  about the local copy (`LocalStates`) is there because an end is recognised in the
  copy and not in `p->state`.
* `TypeCorrect` and `StateAlwaysFits` follow. `ReturnsEvents`: every step returns an
  event that fits or returns none, also after errors the caller ignored.
* `AbortsForSecondScalars` (`OnlySecondScalarsAbort`): wherever a value may come, `p->state` is one that
  `state_change_value` knows, unless the copy has gone from `DONE` back to `START`; and that is
  done under the flag only (`SecondScalars`).
* `ReadsText` (`ImplementsText`), without any hypothesis: each step is a step of JsonText or
  a stutter. The mapping holds until the caller asks again after an error; from then on
  it shows a text of which nothing is read, because JsonText ends with the first error.
  The grammar has one state between two tokens where the code has many (`pstate`, its
  copy, and whether a call runs), so the proof first shows where in the grammar each
  place of the code is (`TextPlaces`), then that a token which is taken is admitted
  there (`TextAdmits`) and one that is thrown at is not (`ErrorsAreIllegal`). The additional
  invariant `Before` says that no call runs once there was an error, that only a finished text
  answers `eof`, and that the state a comma leads to tells whether trailing commas are allowed.

**SaxParserProofs**, for every nesting of the parser and of the generator, every text and flag, and
any number of parses
* The inductive invariant `Inv` says what holds while a parse runs (`InParse`), after one that
  ended well (`WellEnded`) and after one that failed (`Failed`). `TypeOK` alone is not
  inductive, because an end pops the generator's stack on the word of the parser's
  copy of the type; that both stacks are the same is not either, because it
  lasts only until a callback refuses: then the generator has already taken the event.
* `TypeCorrect` and `StackTypeKept` (`StackTypeAgrees`) hold without any hypothesis, and so does
  `ExplainsFailure` (`FailureExplained`): for generators of the caller, used again after failures of
  any kind or not, and for those made for `opts.callbacks`. It needs that the error is unset, or that of no
  callback, while a parse runs (`InParse`). The one code that is not listed is part of the
  statement: that of a callback which fails silently in a generator made for `opts.callbacks`
  (`CodesListed` would exclude it, and is what `CallbackErrors` refutes).
* `StaysInStep` (`GeneratorInStep`) and `EndsWhole` (`WholeTexts`) need `FreshGenerator`: the generator is
  new for each parse, or is not used again once a parse has left something open in it.
  `generator_reset` does not empty its stack, so that without this they are false.
  That a generator with nothing open is as good as new needs `GeneratorKind`: a key is expected
  only while an object is innermost, also after a callback refused an event.
* `NeverAborted` (`NeverAborts`) and `ReadsText` (`ImplementsText`) need `Matched`: besides that, the
  generator is at least as deep as the parser, or checks nothing. `jsnpg_parse_opt` makes its own
  generator without checks, and the default nesting is the same for both; a caller who
  asks for a deeper parser than generator can meet the assertion.
* `ReadsText` shows each step of `parse_generate` to be a step of the grammar of JsonText: one
  lemma per action, and the facts of where the grammar is when the code is at `pc`.

**JsonOutputProofs**, for every nesting, indent and number of parses
* `TypeCorrect` holds for every size, also for a generator without checks, and
  however calls fail.
* `WritesJson` (`OutputIsJson`), `LaysOut` (`OutputIsLaidOut`) and `LevelCounts` (`LevelIsNesting`) need `Counted`:
  the generator checks its events, and `level` can count its nesting. The first is what the
  properties are about, the second holds because `max_nesting` and `level` are both
  `unsigned`.
* None of the three is inductive. The strengthening is `Fits`, which ties the flags of the output
  stream to the grammar and to the generator: `key` is set exactly when a key has been written
  and its value not, which is when an object is innermost and `key_next` is false; a comma is
  due exactly behind a member; `nl` is set once anything stands before which a line may
  have to end. `PrefixFits` shows from it that what `jos_prefix` writes is what has to
  stand before a value or a key, `EndFits` the same for what comes before an end; the
  product of indent and level is compared with that of indent and depth there.

**ScannersProofs** on `Utf8`
* `ValidatesTheTable`: for all bytes, `utf8_validate_sequence` answers with `n` exactly
  if `n` bytes are there and are a row of the table of the Unicode standard. One case for
  each kind of first byte; the lemmas `Rows2` to `Rows4` show that the bounds on the code
  point (not shorter than needed, no surrogate, not too large) are the bounds on
  the bytes in the table.
* `EncodesWellFormed`: what is put for a valid code point is such a row and decodes to it.

**ScannersProofs** on `Scanners`, for every text, base and width
* `RewritingIsSafe` (`UnreadIntact`) and `ReadsInside` (`ReadInside`). The inductive invariant
  adds to both that the copy ends in its NUL. The step that counts is the end of
  an escape: it is never shorter than what it stands for (`EncodedLength`), moving
  bytes down writes nothing behind the mark (`MovedDown`), and four bytes that are
  hexadecimal digits are none of them the NUL (`HexInside`).
* `TypeCorrect`: besides positions and phases, that what is written into the copy are bytes:
  an escape is checked before it is encoded, so that `utf8_encode` is asked for valid code
  points only (`BytesKept`), and the sum of digits stays a `uint64_t`.
* `StringsStay`: no step changes the bytes of a string that was returned, nor its result, although
  both point into the copy that is rewritten. Its invariant (`Typed`) is that a returned string ends
  at or before `Frontier`: the start of the string that is being read, or the read position.
  Writing begins there (`SameBelow`), and it never goes back (`FrontierGrows`).
* `IntegersKeepTheirSum`: an integer is the sum of its digits with its sign, also `LONG_MIN`, where
  the negation wraps around.
* `TextIsRead`: for every text the results are what `Lexemes` says of it, one lexeme after another with
  nothing but blanks between them, from the first byte to the end or to the first error. A returned
  string points at bytes that its source decodes into (also after later strings have been rewritten
  in the same copy); an integer is the value of its digits, which has not wrapped around while
  they were counted; a double gets the value of the digits kept and the power of ten
  that makes up for the others; an error stands at the byte where nothing can be read.
  Three properties that runs check over pieces are about the same (`StringsDecoded`, `NumbersExact`,
  `FaultsPlaced`), and cannot be derived from it, since what a piece means is data of MCScanners.
  * The invariant is `TextTold`: the results so far are told by a `Tale`, the offsets at which
    each begins and ends, and of what is behind the last one `Scanning` says how far
    it has been read. There is one such state for each phase: only blanks (`AtBlank`), inside a
    comment (`InBlock`, `InLine`), inside a string of which so much has been decoded (`InText`),
    or inside a number whose digits so far explain every local of `parse_number` (`WholeRead`,
    `FractionRead`, `ExponentRead`).
  * Each step reads on or returns a result that tells of what was read (`StepLexes`, from one lemma
    for each action: `SpaceScans`, `WordTells`, `TextScans`, `WholeScans`, `ScientificEnds`, ...), and a
    result that is there remains true when the copy is rewritten behind it (`LexemeStays`, from `StringsStay`).
  * In place of an induction over the length of a run, its witness is made longer by one entry in each step
    (`BlanksOn`, `DecodesOn`, `WorthOn`): the induction is that of the specification.
    Where the code searches for a byte (`strchr` for the end of a comment) the first one is the least
    element of a set of naturals (`LeastOf`).
  * That digits are kept as long as their sum fits comes from `Sized`: a sum of `k` digits, the first
    no zero, lies between two powers of the base. The provers know no powers; `NumberAssumption`
    states those that are needed step by step (`Ten ^ k = Ten * Ten ^ (k - 1)`, and that the sum
    holds `max_sig_digits` digits, as 10^19 < 2^64 does), and TLC evaluates it in the runs of MCScanners.

**LifecycleProofs**, for every heap, size of the table and of the buffer,
and every order of calls and failures
* `TypeCorrect`, `OwnsTheHeap` (`HeapIsOwned`), `BufferKeepsText` (`BufferHoldsText`) and `ResultsStay`
  (`ResultsStand`).
* Of each operation of the allocator and of the buffer it is shown that it `Replaces`: in all its
  outcomes the owner it works for has what it had or what was newly allocated for it, and
  nothing else has changed. `Handed` turns that into: the other owners have
  what they had; `Settled` says the same of what a step frees or leaves.
* The inductive invariant is `Inv == Good /\ Control /\ Text`. Ownership (`Good`) is not
  inductive alone: a new allocator overwrites the last pointer to the one before,
  so that one must not exist. Which owners exist follows from the place in the
  function (`Control`): the inner generator lives only in a parse with callbacks,
  and a parse runs only when the caller does not. `Text` needs that no text
  is there while a generator is being made or is of another kind (`NoText`), since no
  step but freeing the generator takes a buffer away.
* As everywhere in Lifecycle, nothing is said of what comes after a table has been
  written beyond its end; `TableHoldsAll`, which would exclude that, is what
  the run `AllocatorTable` refutes.

**DomProofs**, for every size of nodes, headers and blocks and every sequence of recorded events,
under `NoWrap`: each string that is recorded, and the least block, is several nodes shorter than
the range of `size_t`, as whatever lies in memory is
* `TypeCorrect`; `StaysInBlocks` (`NodesInBlocks`): no node lies over another or beyond its block.
* `PullsEveryNode`: a call of `dom_parse_next` gives the node at its position, or the first of the
  next block when it has read one to its end, and goes on to the node behind with none
  between; it answers `eof` only when no node is left. `ReplaysEveryNode`: so does `dom_parse`,
  for a DOM in which something was recorded before (`~ReplayNoFirst`; `DomUnwritten` shows
  what happens otherwise). These are the steps of EventLog without their fold over the
  blocks, which the provers cannot unfold.
* The inductive invariant `Inv` says that nodes fill a block from its header to its count
  without a gap (`Tiled`), that only the first block may be empty, and that a reader stands at
  a node or at the end of a block (`Sound`). `NodesInBlocks` is not inductive: it says
  nothing of a gap, behind which a reader would find no node. Recording rounds up the node as a
  whole and the readers only its string; `EventFacts` shows that both come to the same,
  also for an empty string, where `dom_size_align` takes one from zero and wraps around twice.

Only model-checked:
* all liveness (`Progress`), for which the provers have no rules;
* `PullsTheLog` and `ReplaysTheLog` of the DOM, which are about the concatenation of all blocks: a
  fold, which needs induction (`PullsEveryNode` and `ReplaysEveryNode` are what each step does);
* `StringsDecoded`, `NumbersExact`, `TokensFound` and `FaultsPlaced`, which compare with the pieces that
  a text was put together from, a fold over their bytes (`TextIsRead` is what holds of a text
  without its pieces), and `WrittenIsRead`, which needs what a recursive writer computes for every value.

A note on the prover: the encoding of sequences for SMT in tlapm 1.4.5 takes `Len(s) = n` and
`DOMAIN s = 1..n` for the same thing of any value, which is false of functions that begin
at 0. The proofs were examined obligation by obligation for leaves that need the direction from
`Len` to `DOMAIN`; such leaves were taken apart, with the length of a word taken
from its spelling (`WordsSpelled`), and that of a shortened nesting from `SubSeqProperties`.

## 6. What is not modelled

* The conversions between text and double in `thirdparty/` (`dragonbox.c`,
  `fast_double_parser.h`): vendored numerical code on 64 and 128 bits, beyond TLC's
  integers. The model has their arguments, and every outcome they may have.
* `debug.c`: logging, compiled out.
* The tests in `src/test`, which were read for how the library is used.
* The macros of the header (`jsnpg_parse`, `jsnpg_generator_new`, ...) only spell the
  calls of the functions with the same names and `_opt`, and have no state.
* Allocators of the caller (`jsnpg_set_allocators`) are the heap of `Allocator`; changing
  them while something is allocated is not modelled.
* Running out of addresses, and sizes that do not fit in `size_t`, in the buffer; the
  DOM has the latter.

## 7. Plan

What the plan of the first version named is now modelled. Left are:

1. Composition of Scanners with the parsers: `Tokens` abstracts what Scanners computes;
   with `TextIsRead` a refinement would map the results of a text to tokens.
2. `jsnpg_parse_opt` in SaxParser with the lifetimes of Lifecycle, so that an error is
   followed to the code that the caller finds when a creation failed.
