# libuidna in TLA+

libuidna is the part of ICU that converts internationalized domain names
(UTS #46, Punycode, the normalizer and the string class they need) as a small
C++ library, with the C functions of ICU and those of libidn2 on top. These
modules model it, TLC checks them on small instances, and TLAPS proves some of
what is checked for every instance.

    tlc -config MCUTS46Names.cfg MCUTS46       # a run, see "Runs"
    tlapm PunycodeCodecProofs.tla              # a proof module, see "Proofs"

## The system

The library is sequential: a call runs to its end on its caller's thread, and
the only state that outlives one is a constant table and, behind
`UnicodeString`, the arrays that strings share and their reference counts. What
makes it hard to get right is arithmetic at the limits of `int32_t`, buffers that
may be too small and are retried, state that one loop leaves to the next
(`labelErrors`, `labelLimit`, `reorderStart`, `firstSupplementaryIndex`), allocation
failures in the middle of a loop, and an order of steps (map, normalize, split,
check, encode) in which every step can undo what an earlier one established.

| Component | Source | State | Operations | What makes it correct |
|---|---|---|---|---|
| Punycode encoder | `u_punycode.cc` 199-380 | the 1000-entry copy of the code points, n, delta, bias, counters, the output | `u_strToPunycode()` | no overflow; each code point written once; the RFC's output; the length asked for is right |
| Punycode decoder | `u_punycode.cc` 383-588 | n, i, w, k, bias, the output and the index of its first pair | `u_strFromPunycode()` | no overflow; the RFC's text; pairs are never split; one text per string |
| ReorderingBuffer | `u_edits.cc`, `u_edits.h` | start, limit, reorderStart, lastCC, remainingCapacity | append, appendZeroCC, remove, removeSuffix, setReorderingLimit, resize | stays in its array, also after a failed resize; text in canonical order |
| Normalizer | `u_norm2.cc`, `u_norm2.h` | segments of the source, the buffer | normalize, isNormalized, normalizeSecondAndAppend | the composed form; boundaries are boundaries |
| UTS46 processor | `u_uts46.cc` | the text, the limits of the label, errors and label errors, BiDi verdicts | process, processUTF8, processUnicode, mapDevChars, processLabel and the label checks | the result that UTS #46 defines; a second conversion confirms it |
| UnicodeString | `u_unistr.cc`, `u_unistr.h` | flags, array, capacity, reference count | getBuffer/releaseBuffer, clone, replace, append, aliases | no write to a shared array; one owner frees; an open buffer is not modified |
| UTF-8 and byte sinks | `u_unistr.cc` | positions, what was appended | to and from UTF-8, `CheckedArrayByteSink` | well-formed output; lengths without overflow |
| C functions | `u_uts46.cc` 1067-1290 | the string or sink on the caller's array | sixteen `uidna_*` and `u_*` functions | illegal arguments touch nothing; success means the whole result; the length to ask for is right |
| libidn2 functions | `u_idn2.cc` | the buffer handed over | `idn2_lookup_u8/_ul`, `idn2_to_unicode_8z8z`, `idn2_free`, `idn2_strerror` | success means a result; each buffer freed once |
| Normalization data and trie | `u_uts46data.cc`, `u_trie.*`, `u_norm2.*` | a constant file | `openFromBinary`, lookup of norm16, mappings, composites | every lookup stays inside; the data says what Unicode says |
| Character properties | `u_char.*`, `u_bidi.cc` | constant tables | category, direction, joining type, script | as above |
| UTF-16 and text search | `u_macro.h`, `u_types.h`, `u_punycode.cc` 590-737 | - | surrogate tests, iteration; `u_strFindFirst()`, `u_strchr()`, `u_memchr()` | no pair is cut; the first occurrence is found |
| Error codes | `u_types.*`, `uidna.h` | - | `u_errorName()` | no null pointer is returned for a code |

The C functions wrap a `UnicodeString` or a byte sink around the caller's buffer
and call the processor. It copies an ASCII prefix itself, gives the rest to the
normalizer, which writes into the `UnicodeString` through a `ReorderingBuffer`,
and then walks over the text label by label. A label that begins with `xn--` is
decoded, one that is not ASCII is checked and encoded. The libidn2 functions
call the C functions and hand their buffer over to the caller.

The hazards, each with the line where it bites and the properties that would
show it going wrong, are listed in `PROJECT.json`.

## Modules

| Module | Models |
|---|---|
| `UErrorCode` | the error codes and the status of a terminated string |
| `UTF16` | the macros of `u_macro.h` on sequences of code units; the layout of the surrogates is a parameter |
| `StringSearch` | `u_strFindFirst()` with `u_strchr()` and `u_memchr()`, and what they search for |
| `Punycode` | the parameters and helpers of `u_punycode.cc`; `MaxInt` is the largest `int32_t` |
| `PunycodeEncoder`, `PunycodeDecoder` | the two functions: a call is an action, then one action per iteration of each loop |
| `PunycodeDefinition` | reference: RFC 3492 as functions of a text |
| `PunycodeCodec` | the two composed as `processLabel()` uses them: call, call again with the length that was returned, give the result to the other function |
| `ReorderingBuffer` | every operation of the buffer; resizes may fail |
| `CanonicalOrdering`, `CanonicalText` | reference: the canonical order, and a text that is always in it |
| `CodePointTrie` | the two tries, how they are opened and looked up |
| `UTS46Data` | an excerpt of `u_uts46data.cc` |
| `NormalizationData` | the constructor of `Normalizer2Impl` with its checks, and what a norm16 value means: class, mapping, composites, boundaries |
| `Normalization` | reference: what the normalizer computes, as a function of mappings, classes and composites |
| `Composer` | `compose()` in segments, with `recompose()` and `decomposeShort()` on the data; `normalize()`, `isNormalized()`, `normalizeSecondAndAppend()` |
| `CharacterEnums`, `CharacterData`, `CharacterProperties` | the enumerations of `u_char.h`, an excerpt of the tables of `u_char.cc` and `u_bidi.cc`, and the functions that read them |
| `LabelChecks` | the BiDi rule and the contextual rules |
| `UTS46` | `process()` and `processUTF8()`: one action per iteration of the loops, `processLabel()` as one step |
| `UTS46Calls` | a call and a second one on its result or in the other encoding; the definition of the result for the whole name; what is promised; what the code takes for granted of the normalizer and the decoder |
| `UnicodeString` | the fields of several strings and the memory behind them: an action per call, every outcome of its allocations |
| `UTF8Conversion` | `u_strFromUTF8WithSub()` and `u_strToUTF8WithSub()`: an action per round of the fast, slow and preflight loops |
| `Lookup` | a call of a C function or of libidn2 from its arguments to the bytes it returns, over `UTF8Conversion` |
| `ErrorNames` | the ranges of `UErrorCode`, `u_errorName()`, `idn2_strerror()` |
| `MC*` | instances for TLC |
| `*Proofs` | theorems, in modules that extend the module they are about |

How state and actions correspond to the code:

- Variables keep the names of the code. `pc` says which loop a call is in, and
  `"done"` that it has returned. Pointers are indexes; a sequence of code units
  starts at 1 in TLA+ and the models index it with `index + 1`.
- `PunycodeEncoder`: `CopyBasic`, `CopyExtended` and `RejectSurrogate` are the
  first loop, `BeginRound` the search for the next code point with the overflow
  check, `ScanSmaller`, `ScanLarger`, `ScanEqual` and `EndRound` the loop over
  the code points, `WriteDigit` and `WriteLastDigit` the loop over the digits.
- `PunycodeDecoder`: `BeginInteger`, `ReadDigit` and `Insert` are the three parts
  of the main loop. `Insert` keeps the arithmetic on `firstSupplementaryIndex`.
- `ReorderingBuffer`: an operation is one action, except the loop of `append()`
  over a reordered string (`AppendReordered`, then `AppendNext` per character),
  because each of its characters may resize the array and fail on its own.
  `Take` is `resize()` with any growth in `Slack`; `OutOfMemory` is its failure.
  What a caller owes the buffer is in the guards: a mapping is in order itself,
  a cut is at a code point boundary, and after a cut, or after a text that ends
  in a mark has been appended as if it did not, a character of class 0 comes
  next (`atBoundary`).
- `UTS46`: `AsciiCopy`, `AsciiDot`, `AsciiFinish` and `LeaveAscii` are the loop
  over the ASCII prefix; `ScanPass`, `ScanUnpaired`, `MapDevChars`, `EndLabel`,
  `LastLabel` and `NoLastLabel` the loop of `processUnicode()`; `Verdict` is what
  follows it. `destLength`, `labelStart` and `labelLimit` are kept by the code's
  arithmetic and compared with the text by `LengthIsKept`. `behind` is what the
  array still holds behind a text that has become shorter than `labelLimit`,
  because `processLabel()` is then called with a label that extends into it.
  A UTF-8 name is modelled as its code points; only its length is in bytes.
- `Composer`: an iteration of the outer loop of `compose()` is an action. A text
  is a sequence of code points; the array behind the buffer is
  `ReorderingBuffer`'s. What a character is comes from the data file alone, as
  in the code; the constants `CC`, `Mapping` and `Composite` are only for the
  properties, and `DataAgrees` in `MCComposer` holds the two against each other.
- `MCUTS46` gets directions, joining types, scripts and categories from
  `CharacterProperties`, and four assumptions hold them against tables written
  down by hand for the characters of the instance. Two more
  (`TextsAreReturned`, `LabelsAreLeft`) evaluate on bounded words what the proofs
  take for granted of the normalizer and the decoder.
- `UnicodeString`: a call is an action, because no string crosses threads; its
  steps (`Clone`, `Allocate`, `Released`, ...) are operators on the fields and the
  memory that give the set of outcomes. `value` is what the owner of each string
  relies on. `now` is both together. What a caller owes is in the guards: an
  alias does not outlive its array, and nobody else writes to it.
- `Lookup`: `Enter`, `Refuse` and `CallProcess` are the C functions, `AsciiByte`
  to `AsciiBreak` the loop of `processUTF8()` with the errors that it notes of
  hyphens, dots and lengths (`errors` holds those of the label that has begun, too:
  they are joined to the others on every way out of the loop), then `Process` is
  `processUnicode()`, which maps a text by the parameter `Mapped` and adds any
  errors, `GetAppendBuffer` to `LoseText` are `toUTF8()` and the sink,
  `Process16` and `Extract` the functions in UTF-16, `HandOver`, `GiveUp` and
  `CallerFrees` the libidn2 functions and their caller. The steps of a
  conversion are those of `UTF8Conversion`.
- A definition that is called a mutant in its comment is a plausible slip in the
  definition below it. It is used by no specification; `PROJECT.json` says which
  property finds it.

## Runs

| Run | Configuration | Shows |
|---|---|---|
| punycode_round | `MCPunycodeRound` | 32-bit integers and the real surrogates; labels of up to 3 of 8 characters from the boundaries of the repertoire, and ill-formed ones; buffers of 0, 4 and 60. The encoding is the RFC's, decoding returns the label, the buffer holds a prefix, a second call succeeds, every call returns |
| punycode_small | `MCPunycodeSmall` | integers of 17 bits and a repertoire of 80730 code points (`MaxCodePoint` is 80729), so that every overflow check decides some call; every string of up to 5 of 7 characters is decoded. The text is the RFC's, encoding it returns the string |
| reordering_buffer | `MCReorderingBuffer` | every sequence of operations on buffers of up to 5 units and arrays of up to 10; classes 0, 1, 9 and 230, two marks of one class, pairs with and without a class; failing resizes. Implements `CanonicalText` |
| uts46_names | `MCUTS46Names` | hyphens, dots, empty labels, STD3, ACE labels that are valid and each kind that is not, lengths around the limits; labels of both directions, joiners and punctuation in and out of their contexts; deviation characters with what composes across them; surrogates with what is removed between them. The result and the verdicts are UTS #46's, ASCII labels are kept, a second conversion confirms the result, every call ends |
| composer | `MCComposer` | texts of up to four characters over five alphabets of up to ten with every kind of norm16: mapped, removed, composing with what is before or behind, Hangul and Jamos, supplementary; normalized, compared, appended to a normalized string; failing allocations. The result is NFC of the text as a whole, `isNormalized()` is exact, a failed append leaves the first string as it was |
| unistr | `MCUnicodeString` | every sequence of calls on two strings with three arrays: stack buffers, shared and unshared arrays, aliases, open buffers, bogus strings, failing allocations. A count is the number of owners, and an operation on one string never changes another |
| lookup | `MCLookup` | names that are ASCII, mixed, cut, overlong, surrogates or beyond the repertoire; arrays around every limit; legal and illegal arguments and codes left by former calls; failing allocations. No conversion leaves its arrays, ill-formed text becomes what the definition says, success means the whole name, every call returns. Its module also evaluates what `LookupProofs` claims of the names, the search and the mapping of ASCII, on every mask of errors and on texts of up to five units |
| uts46_dots, uts46_utf8, uts46_unpaired, lookup_leak, lookup_unset | violations | a statement of a header, a comment or a test that the code does not keep, see "Findings" |

Why the bounds are enough. The Punycode functions depend on the order and the
number of code points, on the adaptation of the bias (which has a first and a
later case), and on their limits; three code points have all orders and
repetitions, and with 17 bits each check is met from both sides. The buffer's
`insert()` looks at the code points between `reorderStart` and the limit: five
units hold a starter, marks of three classes and a pair. In the array, `Slack`
of 0 and 1 gives every relation of the remaining capacity to 0, 1 and 2, where
the code decides; `GrowMinimum` is 3 for the code's 256. The limits of UTS46 are
7 for 63 (a label), 9 for 254 (a name that ends with a dot) and 9 for 256 (the
array of the UTF-8 function), so that names of four tokens are below, at and
above each. Names of four tokens have up to five labels, an ASCII prefix of one
or two of them, and the triples and quadruples of characters that the
contextual rules and the composition look at. Character properties, mappings
and composites of the instance are those of the library's data.

`compose()` looks back to the last boundary and ahead to the next one: with four
characters there is a segment between two others, or one of a starter and three
marks. `MaxDifference` is 3 for `INT32_MAX`, so that a segment can be too long.
In `unistr` a stack buffer holds one unit for 27 and an array is allocated in
units instead of blocks of 16 bytes; two strings and three arrays let a clone
fail while the old array is shared or not, and texts of up to four units outgrow
every array. `SYMMETRY` is over the two strings, which no action tells apart;
`VIEW` makes states one that differ only in the array's name or in units behind
every text, which no read reaches before a write. In `lookup` the arrays of 27,
256, 512, 1024 and 2048 become 4, 8, 9, 11 and 14, the limits of 63 for a label
and 254 for a name 5 and 7, and the names are up to
twenty bytes: a fast loop runs when three units are left of both, so every
split of a source into fast and slow rounds occurs.

The functions that are taken from the repertoire's data are constants, and so
are the limits. `MCComposer` and `MCLookup` use the real
layout of UTF-16 and UTF-8. `CHECK_DEADLOCK FALSE` stands in the runs of the codec and the
buffer, which stop when both functions have returned, or when the bounds on the
buffer are reached. The runs of UTS46 check for deadlock: `Returned` is the only
step that changes nothing. So do those of `Composer`, `UnicodeString` and
`Lookup`, where `Stop` and `Done` are such steps.

Fairness. A call is synchronous, nothing can keep it from going on, and so a
call that has begun is carried on: `WF(EncoderStep)` and `WF(DecoderStep)` in
`PunycodeCodec`. `Fairness` in `UTS46Calls` is weak fairness of `NameStep` with
its `ENABLED` replaced by `InCall`; the absence of deadlocks shows that the two
are the same, because `NameStep` is the only action of a call. `Lookup` has weak
fairness of its next-state relation, because it models a single call. No other
fairness is assumed of the callers. `EveryCallReturns` and `EveryNameIsProcessed` are then
statements about the code's loops, two of which have iterations that do not
advance their index (the overflow check of the encoder, and the iteration that
maps the deviation characters).

What the properties of UTS46 say. `AsSpecified` compares the result with
`Expected`, which maps, normalizes, splits, processes and checks the name as a
whole, without an ASCII prefix, indexes, in-place changes or verdicts on the
way; `processLabel()` is common to both, and is held to account by the
properties about two calls or two names: `AsciiLabelsAreKept` (an ASCII label, and
what follows it, have the results that they have alone), `GoodStaysAsItIs`,
`AsciiStandsForUnicode` (the direction does not matter for validity, and an ASCII
result stands for the Unicode name) and by `BadLooksBad`. Known exceptions are
predicates with names: `StepsOver`, `JoinsSurrogates`, `LastIsMappedAway`,
`HyphenBeforeDot`.

The results of `UTS46` on the names of its runs were also compared with those of
the compiled library: 28,302 calls, with the real limits and with the instance's
limits in a copy of the source, agreed in text, errors and `isTransDiff`.

## Findings

- `uts46_dots`: after `mapDevChars()` has normalized the label again, the text
  may be shorter than `labelLimit`, and the loop steps over a dot
  (`u_uts46.cc:351`). Transitional `l U+0304 ZWNJ U+0323 . com` becomes one label
  with `UIDNA_ERROR_LABEL_HAS_DOT`. At the end of a text, `l U+0304 ZWNJ U+0323`
  becomes `xn--osa340l`, which encodes a unit that was behind the text; without
  the ZWNJ it is `xn--ohg`.
- `uts46_utf8`: a last label that is mapped away is an empty label in UTF-8
  processing and none in UTF-16 (`u_uts46.cc:368`).
- `uts46_unpaired`: two unpaired surrogates become a pair when the normalizer
  removes what stands between them, although a comment promises otherwise
  (`u_uts46.cc:355`).
- `lookup_leak`: a name with errors returns another code than `IDN2_OK` and leaves
  its 2048 bytes to nobody (`u_idn2.cc:190`). The trace is the name `-`: a leading
  and a trailing hyphen, noted by the loop over ASCII.
- `lookup_unset`: a lookup that fails returns `IDN2_OK` without setting the result,
  which the caller then frees (`u_idn2.cc:135`, every positive code is "ok"). In the
  trace the array for the UTF-16 form of a long name cannot be allocated, and the
  code is `U_ILLEGAL_ARGUMENT_ERROR`; a result of more than 512 bytes does the same.

Seen while modelling, and in no run of their own:

- Decoding can produce more units than there were characters, against the header
  (`uidna.h:767`): seven characters `2n7caaa` become eight units.
- `toUTF8()` returns without a word when its scratch buffer cannot be allocated
  (`u_unistr.cc:994`); the C functions then report success, although
  the header has `U_MEMORY_ALLOCATION_ERROR` as its example of the exceptional cases
  that the code indicates (`uidna.h:457-458`, and 482, 508, 532).
  `ResultIsWhole` exempts it by the variable `lost`.
- The `u_*` functions overwrite the code they are given, while the `uidna_*`
  functions return at once when it is a failure, as ICU functions do.
- `idn2_strerror()` takes the negated result of a lookup for a `UErrorCode`, but
  it is a set of `UIDNA_ERROR_*` bits: a leading hyphen (8) is called
  `U_INDEX_OUTOFBOUNDS_ERROR`. `StrErrorNeverNamesAnIDNAError` is proved; the
  `IDN2_*` codes of `idn2.h` are never returned.
- When `normalizeSecondAndAppend()` fails for memory, its first string is bogus,
  and the restoration of its suffix (`u_norm2.cc:1050`) has nothing to restore
  in; it works for a segment that is too long. `FailureKeepsFirst` says both.
- `getGrowCapacity()` of the nine largest lengths is below the length asked for
  (`u_unistr.cc`, capped at `kMaxCapacity`). The proof that a string lies within
  its array failed there, and has the condition `NoneIsTooLong` since.
- The data file's constructor keeps its error code in a variable that nobody
  reads; a file that could not be opened would leave a null trie. `openFromBinary`
  refuses a file that is not aligned to four bytes, which the model takes for
  granted as the compiler aligns the array.

The header also names `U_INDEX_OUTOFBOUNDS_ERROR` for input that is too long
(`uidna.h:740`), where the code sets `U_INPUT_TOO_LONG_ERROR`
(`u_punycode.cc:217`); the model has the code's value.

## Proofs

Every assumption has a name. Those on the constants are `ASSUME`d by the modules
they belong to and evaluated by the runs: `SurrogateLayout` (the two blocks of
surrogates lie next to each other below the supplementary code points),
`IntWidth` (an integer holds a code point and twice the longest input),
`BufferConstants` (types), `PlacesAssumption`, `UnitsAssumption` and
`BoundsAssumption` (the strings, arrays and units of `UnicodeString` are
different things, a string in the object is shorter than the longest array).
The others are hypotheses of the theorems that need them:

| Hypothesis | Says | Because |
|---|---|---|
| `CodecInputs` | the codec is given UTF-16 and characters | C types |
| `RealSurrogates`, `LookupInputs` | the layout of UTF-16; units of 16 bits, integers, a length that the source has, a mapping that makes texts of texts | UTF-8's limits are those of the real layout |
| `LoopKeepsMapping` | what `KeepsLabels` says of each ASCII label that the loop takes: the mapping makes it lower case where the name or a dot ends it, and then maps what follows as if it stood alone; in front of anything else the case of its letters does not matter | the loop is a shortcut of the mapping. `MappingAgrees` evaluates it for the mapping of `MCLookup`, and `AsciiLabelsAreKept` checks it of `UTS46`, with the exceptions below |
| `WideIntegers` | `(MaxCodePoint + 1) * EncodeMaxCodeUnits <= 35^6 <= MaxInt`, where 35^6 = 1838265625 | true of the library's numbers and of punycode_round's. It is needed: with `MaxInt` = 100000, TLC finds a text that the encoder accepts and the decoder does not, because the encoder's overflow check does not cover the decoder's weights |
| `NoneIsNoText` | the mark of a bogus string is no text | it stands for NULL |
| `NameInputs` | names are UTF-16; the normalizer, the decoder and the encoder return such texts; the normalizer leaves lower-case ASCII labels where they are | `TextsAreReturned` and `LabelsAreLeft` evaluate it on the data |
| `WholeCharacters` | what is appended to the buffer has no unpaired surrogates | two halves could make a pair that no operation saw |
| `LeadingMarksAreBMP` | a text that begins with a mark has no surrogate pairs | no mapping of the data does, see `u_norm2.cc:783`, `:982` |
| `NoneIsTooLong` | no text has one of the nine largest lengths | `getGrowCapacity()` is wrong for them, see "Findings" |

The theorems are about the specifications `Spec` of the modules on their own,
with any input and any capacity, unless the text says otherwise.

**Punycode.** `PunycodeProofs` has lemmas about quotients, thresholds, the bias
and orbits, `PunycodeDecoderProofs` the decoder, `PunycodeCodecProofs` the
encoder and both together.

- `EncoderTypeOK`, `EncoderNoSignedOverflow`, `EncoderHandlesTheSmaller`. The
  overflow check bounds `delta` at the head of a round, but the increments come
  later. `NoSignedOverflow` is not inductive by itself: `ScanInv` says that before
  the first code point equal to n there is room for one increment per smaller
  code point still ahead, and that behind it `delta` counts smaller ones only.
  That `handledCPCount` is the number of code points below n makes the room
  sufficient, so the two are proved together.
- `EncoderBufferHoldsPrefix`: what is stored never lies behind a gap, because the
  array is full before a unit is dropped.
- `DecoderInRange`. The divisions guard i and w; what no check guards (k, and i
  after an insertion) is bounded by how much input has been read (`InputInv`).
- `FirstSupplementaryIsAlwaysFirst`, `DecoderInsertsCodePoints`. `OutputInv` says
  that while everything fits, `destCPCount` counts the code points of the output
  and `firstSupplementaryIndex` is its first pair or beyond it (`FirstPair`). An
  insertion then opens a gap at a boundary, and `SplicedCodePoints` says what that
  does to the code points.
- `CodecDecoderIsTyped`, `CodecDecodesInRange`, `CodecKnowsFirstSupplementary`,
  `CodecInsertsCodePoints`: the same under the caller's retries and hand-overs.
  The decoder's proofs are instantiated with the codec's variables; the `Same*`
  lemmas identify the two instances. `UnitsInv` (the decoder's output is UTF-16
  unless it failed) is what makes it a legal input of the encoder.
- `CodecRetrySucceeds`. What a call computes does not depend on its capacity:
  without the array and what is in it, a call is a deterministic walk from its
  input (`Orbit`), and a walk ends at most once (`OrbitEndsOnce`). The second call
  therefore ends with the length that the first returned.
- `CodecDecodesTheDefinition`. The definition is a recursion over records, and its
  value is proved to exist from a measure that each call makes smaller
  (`TailRecursionExists`, `IntegerUnfolds`, `DecodingUnfolds`). The invariant
  `DecodesInv` says: what the whole string stands for is what the definition makes
  of the code points that are there and of what is left to read, from the digit
  that is read next. So a step of the decoder is one unfolding of the definition,
  every failure is `Malformed`, and at the end nothing is left. That the output has
  these code points is `StepInserts`.
- `CodecRoundTrips`, on `CodecDecodesTheDefinition`. `TextInv`, an invariant of the
  encoder, says what the definition of decoding reaches with the output so far: at
  the head of a round, the code points that are handled, in their order, with the
  encoder's bias and with n and i so that `delta` is the way that is left
  (`CountsFrom`). Inside an integer the digits so far make a value, and what is
  left of q, at the weight that comes next, is the rest of the increment
  (`DigitsSoFar`). The weights are powers of 35 as long as the threshold is 1
  (`IsWeight`), so that 35^6 bounds them all.

**ReorderingBuffer.** `ReorderingBufferProofs`.

- `BufferIsTyped`, `BufferStaysInItsArray`. The tempting invariant "remaining =
  capacity - length" is false, since a reordered string is subtracted twice;
  `0 <= remaining <= capacity - length` holds. It needs that an insertion point
  exists, which follows from `lastCC # 0` only when the buffer is not empty, and
  that what is still to be appended consists of code units.
- `FailedBufferIsNotWritten`. The loop of `append()` goes on after a failed resize;
  `appendBMP()` then finds no room, because it failed for that reason. Only a
  supplementary character fails with room for one unit left, and what is appended
  by the loop has none (`FailureInv`).
- `BufferKnowsItsSuffix`: the text is a sequence of whole characters of which those
  behind `reorderStart` may move (`SuffixInv`).
- `BufferKeepsCanonicalOrder`: the refinement of `CanonicalText`. `OrderInv` says
  that the code points are the canonical order of what was appended. The
  definition sorts, `insert()` inserts, and the two agree because a stable order is
  unique (`Rank`); an induction over the places is a least counterexample.

**UnicodeString.** `UnicodeStringProofs`.

- `EveryArrayIsCounted`. In the middle of a call the string that it works on may
  have an array of its own that no field names yet, or fields without an array.
  `Counts(m, s, held)` counts the arrays for all other strings and for the set
  `held`; each operator on the memory takes one such set to another. That an
  array is free when one is needed is the pigeonhole principle.
- `StringsStayWithinTheirArrays`, `SharingIsNeverSeen`, from the invariant `Sound`
  (8725 states of it were checked first): each operator leaves the units of the
  other strings alone (`Spares`), shares an array only where nobody writes to it
  (`Joins`), and leaves the string it works on bogus, or within its array (`Fits`)
  with the text that was asked for (`Holds`).

**UTS46.** `UTS46Proofs`, for any data, limits and options.

- `LengthIsAlwaysKept`. `processUnicode()` corrects `destLength` and `labelLimit`
  by what `processLabel()` returns. Each of its ways out (a label that is replaced,
  grows, shrinks, or is put back) is a lemma that says that the text became longer
  by exactly that (`ProcessedIsOK`, `ResultOK`); `NameInv` carries it through the
  loop, and through `mapDevChars()`, after which the array still holds what the
  text has lost.
- `NameTypeIsOK`: the ASCII loop stays inside the source, the texts are UTF-16.
- `BadLooksBadUnmapped`: `BadLooksBad` for calls that have mapped no deviation
  characters. Each severe error is recorded where a unit that no host name has is
  put into the label or left there (`SevereLooksBad`), and what is done to the
  other labels leaves it there. After `mapDevChars()` the exceptions `StepsOver` and
  `JoinsSurrogates` are about the normal form of the source, of which the proof
  knows nothing; those calls are left to TLC.

**Conversions and C functions.** `LookupProofs`.

- `LookupStaysInBounds`. A character of the fast loop reads at most three bytes
  and writes one unit, or costs two and then reads four and writes two, and
  likewise in the other direction (`PieceOfUTF8`, `PieceOfUTF16`). The counter of
  a block is at most a third of the one room and all of the other, and stays so
  (`CounterFits`).
- `ConversionsAreExact`: what the converters write is the beginning of the text that
  the standard demands, cut at the capacity, and the length is that of the whole
  text. The definitions take a text apart differently from the loops: into the
  sequences of a table in one direction, into code points in the other. Both are
  shown to be the text that the characters from index 0 on are converted to
  (`DecodedTextFrom`, where the table is compared with the bit tests, and
  `EncodedTextFrom`), and `WrittenInv` says how much of that text is written and how
  much is left in each phase; it was checked first, in the run of `Lookup`.
- `ResultStaysInArray`: the sink and the string on the caller's array.
- `ResultsAreWhole`: `ResultIsWhole`, whatever took part in a call. Three things
  have to be remembered between its steps. `LoopInv`: the whole name is what the
  ASCII loop has done and what is mapped of the rest, and the label that has begun
  is the beginning of that (`LoopInvByte`: one byte more), so that it may be
  converted by itself and put in front of what is mapped behind it
  (`ProcessPhase`). `FullInv`: a conversion that has not written all of its text has
  no room for it, so that the first or the second attempt of `toUTF8()` leaves
  nothing out. `PhaseInv`: what text, sink and code have to do with one another in
  each phase; one lemma per action. TLC checked it first, on the calls of `lookup`.
  The hypotheses are about the mapping, which is `UTS46`'s: it returns texts, and
  keeps the ASCII labels that the loop takes (`LoopKeepsMapping`). Nothing is asked
  of a label with anything else in it, which the mapping encodes, composes or marks
  as a whole; of its ASCII beginning only that its case does not matter. The mark of
  a bogus string is no text; codes and lengths are integers. A text lost in
  `toUTF8()` remains the exception.
- `EveryCodeHasAName`, `StrErrorNeverNamesAnIDNAError`, for
  every integer: the ranges of the enumeration are disjoint and as long as the
  tables.
- `FindFirstFindsTheFirst`, `SearchCutsNoPair`, for every text and layout of the
  surrogates. The loop returns as soon as a NUL-terminated text ends inside a
  comparison: no occurrence can begin behind that index, because it would have to
  end behind the text as well.

`UTF16Proofs` has what all of them need: code points at boundaries, counts of
them, and what concatenating, splicing and cutting do to `CodePoints`. That is a
recursive function, and its value is proved to exist by least counterexample
(`TailExists`).

Only model-checked:

- liveness (`EveryCallReturns`, `EveryNameIsProcessed`, `EveryLookupReturns`);
- what compares a whole result with a definition by folds or recursion over data:
  `EncodesTheDefinition`, `Canonical`,
  `AsSpecified`, `AsciiLabelsAreKept`, `ReturnsTheDefinition`, `SegmentsAreIndependent`,
  `ComparesExactly`;
- what rests on facts of Unicode's data about the normal form of a text:
  `GoodStaysAsItIs`, `AsciiStandsForUnicode`, `TransDiffIsTold`, and `BadLooksBad` of
  calls that map deviation characters;
- `ComposerTypeOK` and `FailureKeepsFirst` of `Composer`, whose buffer is a fold.

## Not modelled

- Case flags of Punycode (every caller passes NULL), the declared but unused
  `Edits`, `decomposeUTF8` and `composeUTF8`.
- In `UTS46`: allocation failures (they are in `Lookup`, where the loops are
  abstracted), a text longer than `INT32_MAX`. Labels longer than 1000 units are
  in the model (`FinishLabel`) but in no run.
- `compose()` on NUL-terminated text, FCC, FCD and quick checks, the normalizer
  in UTF-8, small and 8- or 32-bit tries: nobody calls them. The branch of
  `getCompositionsListForDecompYes()` for maybe-yes values cannot be reached
  with `minMaybeYes` = 0xfc00.
- All of the tables: the excerpts have what is read for the characters of the
  runs, and a lookup outside of them is an error of TLC. Mirroring, brackets,
  joining groups and most columns of the property vectors have no reader.
- In `UnicodeString`: comparison, searching, case mapping and conversion to code
  points, `releaseBuffer(-1)`, `forceClone`, and forms of `setTo()` that nobody
  uses.
- In the conversions: NUL-terminated sources and the saturation of the sink's
  count at `INT32_MAX`. In the C functions: the reset of the caller's `UIDNAInfo`;
  of the errors of a name only "none", "empty label" and "other" are told apart.
- `idn2_to_unicode_8z8z()` with a NULL source (`strlen(NULL)` is undefined), the
  functions that return `IDN2_OK` and do nothing, `idn2_check_version()`.

## Plan

Done: Punycode (steps, definition, codec), the reordering buffer (refinement),
the normalizer and its data, UTS46 with its label checks on the real properties,
the strings, the conversions, the C and libidn2 functions, the names of the
codes; and the proofs above.

What is left would be proofs:

1. `FailureKeepsFirst` and `ComposerTypeOK` of `Composer`.
2. `BadLooksBad` of calls that map deviation characters, from what the data says
   of the normal form.
3. Every lookup in a trie whose header `openFromBinary()` accepts stays inside.
