------------------------- MODULE NormalizationData --------------------------
(***************************************************************************)
(* How u_norm2.cc opens the data file of the normalizer and reads it: the  *)
(* trie gives a code point its norm16, a number whose range says what kind *)
(* of character it is, and whose other bits are an offset into extraData,  *)
(* a distance to another code point, or a combining class.  The lowest bit *)
(* is set when nothing behind the character composes with it.              *)
(***************************************************************************)
EXTENDS CodePointTrie, UTF16

CONSTANTS
  Info,        (* the header in front of the data, with its headerSize     *)
  InIndexes,   (* the numbers at its start, which a name stands for        *)
  TrieHeader, TrieIndex, TrieData,
  ExtraUnits   (* compositions and mappings: 16-bit numbers by offset      *)

DataIsAcceptable ==
  /\ Info.size >= 20
  /\ Info.dataFormat = <<78, 114, 109, 50>>   (* "Nrm2" *)
  /\ Info.formatVersion = 4

(* udata_getHeaderSize(): swapped when the bytes are in the other order.   *)
DataHeaderSize ==
  IF Info.isBigEndian = 0 THEN Info.headerSize
  ELSE (Info.headerSize % 256) * 256 + (Info.headerSize \div 256)

IX_MIN_LCCC_CP == 18

(* What the constructor makes of the file; data of another format is       *)
(* passed over without an error, and nothing is read from it.              *)
DataError ==
  IF ~DataIsAcceptable THEN U_ZERO_ERROR
  ELSE IF InIndexes.NORM_TRIE_OFFSET \div 4 <= IX_MIN_LCCC_CP
  THEN U_INVALID_FORMAT_ERROR
  ELSE OpenError(TrieHeader,
                 InIndexes.EXTRA_DATA_OFFSET - InIndexes.NORM_TRIE_OFFSET,
                 DataHeaderSize + InIndexes.NORM_TRIE_OFFSET)

ASSUME DataLoads == DataIsAcceptable /\ DataError = U_ZERO_ERROR

normTrie == OpenFromBinary(TrieHeader, TrieIndex, TrieData)

-----------------------------------------------------------------------------
(* The ranges of norm16.                                                   *)
INERT                   == 1
JAMO_L                  == 2
MIN_NORMAL_MAYBE_YES    == 64512   (* 0xfc00                               *)
JAMO_VT                 == 65024   (* 0xfe00                               *)
MIN_YES_YES_WITH_CC     == 65026   (* 0xfe02                               *)
HAS_COMP_BOUNDARY_AFTER == 1

minCompNoMaybeCP          == InIndexes.MIN_COMP_NO_MAYBE_CP
minYesNo                  == InIndexes.MIN_YES_NO
minYesNoMappingsOnly      == InIndexes.MIN_YES_NO_MAPPINGS_ONLY
minNoNo                   == InIndexes.MIN_NO_NO
minNoNoCompBoundaryBefore == InIndexes.MIN_NO_NO_COMP_BOUNDARY_BEFORE
minNoNoCompNoMaybeCC      == InIndexes.MIN_NO_NO_COMP_NO_MAYBE_CC
minNoNoEmpty              == InIndexes.MIN_NO_NO_EMPTY
limitNoNo                 == InIndexes.LIMIT_NO_NO
minMaybeYes               == InIndexes.MIN_MAYBE_YES
centerNoNoDelta           == (minMaybeYes \div 8) - 64 - 1

isCompYesAndZeroCC(norm16)  == norm16 < minNoNo
isAlgorithmicNoNo(norm16)   == limitNoNo <= norm16 /\ norm16 < minMaybeYes
isDecompYes(norm16)         == norm16 < minYesNo \/ minMaybeYes <= norm16
isMaybeOrNonZeroCC(norm16)  == norm16 >= minMaybeYes
isMaybe(norm16)             == minMaybeYes <= norm16 /\ norm16 <= JAMO_VT
isJamoVT(norm16)            == norm16 = JAMO_VT
isHangulLV(norm16)          == norm16 = minYesNo
isHangulLVT(norm16) == norm16 = minYesNoMappingsOnly + HAS_COMP_BOUNDARY_AFTER

(* Those of the characters that have a mapping: to a text that composing   *)
(* does not change, and to nothing.                                        *)
mapsToComposed(norm16) == minNoNo <= norm16 /\ norm16 < minNoNoCompBoundaryBefore
mapsToNothing(norm16)  == minNoNoEmpty <= norm16 /\ norm16 < limitNoNo

norm16HasCompBoundaryBefore(norm16) ==
  norm16 < minNoNoCompNoMaybeCC \/ isAlgorithmicNoNo(norm16)

norm16HasCompBoundaryAfter(norm16) == norm16 % 2 = HAS_COMP_BOUNDARY_AFTER

getCCFromNormalYesOrMaybe(norm16) == (norm16 \div 2) % 256

getCCFromYesOrMaybe(norm16) ==
  IF norm16 >= MIN_NORMAL_MAYBE_YES THEN getCCFromNormalYesOrMaybe(norm16) ELSE 0

-----------------------------------------------------------------------------
(* Looking up code points.  Norm16() is what the iteration over a text     *)
(* finds: a surrogate without its other half is inert.                     *)
getRawNorm16(c) == UCPTRIE_FAST_GET(normTrie, c)
getNorm16(c)    == IF IsLead(c) THEN INERT ELSE getRawNorm16(c)
Norm16(c)       == IF IsSurrogate(c) THEN UnpairedValue(normTrie) ELSE getRawNorm16(c)

hasCompBoundaryBefore(c) ==
  c < minCompNoMaybeCP \/ norm16HasCompBoundaryBefore(Norm16(c))

hasCompBoundaryAfter(c) == norm16HasCompBoundaryAfter(Norm16(c))

getCCFromYesOrMaybeCP(c) ==
  IF c < minCompNoMaybeCP THEN 0 ELSE getCCFromYesOrMaybe(getNorm16(c))

mapAlgorithmic(c, norm16) == c + (norm16 \div 8) - centerNoNoDelta

-----------------------------------------------------------------------------
(* Mappings.  The compositions of the characters that may combine with     *)
(* what stands before them come first in the file.                         *)
extraData == (MIN_NORMAL_MAYBE_YES - minMaybeYes) \div 2

getMapping(norm16) == extraData + (norm16 \div 2)
MappingLength(at)  == ExtraUnits[at] % 32
HasLeadCC(at)      == (ExtraUnits[at] \div 128) % 2 = 1

MappingText(norm16) ==
  LET at == getMapping(norm16)
  IN  CodePoints([x \in 1 .. MappingLength(at) |-> ExtraUnits[at + x]])

(* The class of any character: that of one with a mapping is in front of   *)
(* the mapping, if it has one.                                             *)
getCCFromNoNo(norm16) ==
  LET at == getMapping(norm16)
  IN  IF HasLeadCC(at) THEN ExtraUnits[at - 1] % 256 ELSE 0

getCC(norm16) ==
  IF norm16 >= MIN_NORMAL_MAYBE_YES THEN getCCFromNormalYesOrMaybe(norm16)
  ELSE IF norm16 < minNoNo \/ limitNoNo <= norm16 THEN 0
  ELSE getCCFromNoNo(norm16)

getCombiningClass(c) == getCC(getNorm16(c))

HangulDecompose(c) ==
  LET s == c - 44032
      l == 4352 + (s \div 588)
      v == 4449 + ((s % 588) \div 28)
  IN  IF s % 28 = 0 THEN <<l, v>> ELSE <<l, v, 4519 + (s % 28)>>

(* decompose(): the text for a code point, with the combining classes of   *)
(* its first and of its last character.  It may lead over another one.     *)
Decomposition(c, norm16) ==
  LET d  == IF isAlgorithmicNoNo(norm16) THEN mapAlgorithmic(c, norm16) ELSE c
      n  == IF isAlgorithmicNoNo(norm16) THEN getRawNorm16(d) ELSE norm16
      at == getMapping(n)
      Is(s, lead, trail) == [text |-> s, leadCC |-> lead, trailCC |-> trail]
  IN  IF isMaybeOrNonZeroCC(n)
      THEN Is(<<d>>, getCCFromYesOrMaybe(n), getCCFromYesOrMaybe(n))
      ELSE IF n < minYesNo THEN Is(<<d>>, 0, 0)
      ELSE IF isHangulLV(n) \/ isHangulLVT(n) THEN Is(HangulDecompose(d), 0, 0)
      ELSE Is(MappingText(n),
              IF HasLeadCC(at) THEN ExtraUnits[at - 1] \div 256 ELSE 0,
              ExtraUnits[at] \div 256)

-----------------------------------------------------------------------------
(* Compositions: a list of entries in the order of the trailing character, *)
(* of two or three units.  A list is an offset.                         *)
NoList        == -1
NoComposition == -1

getCompositionsListForDecompYes(norm16) ==
  IF norm16 < JAMO_L \/ MIN_NORMAL_MAYBE_YES <= norm16 THEN NoList
  ELSE IF norm16 < minMaybeYes THEN getMapping(norm16)
  ELSE norm16 - minMaybeYes

getCompositionsListForComposite(norm16) ==
  getMapping(norm16) + 1 + MappingLength(getMapping(norm16))

COMP_1_TRAIL_LIMIT == 13312   (* 0x3400                                    *)
Comp1Trail(unit)   == (unit % 2^15) - (unit % 2)
IsLastTuple(unit)  == unit >= 2^15
NextTuple(list)    == list + 2 + (ExtraUnits[list] % 2)

(* An entry of two units has the composite in the second one.              *)
CombineShort(list, trail) ==
  LET key1 == 2 * trail
      entry[l \in Nat] == IF key1 > ExtraUnits[l] THEN entry[NextTuple(l)] ELSE l
      at   == entry[list]
  IN  IF key1 # Comp1Trail(ExtraUnits[at]) THEN NoComposition
      ELSE IF ExtraUnits[at] % 2 = 1
      THEN ExtraUnits[at + 1] * 2^16 + ExtraUnits[at + 2]
      ELSE ExtraUnits[at + 1]

(* The trailing character takes the two first of three units.              *)
CombineLong(list, trail) ==
  LET key1 == COMP_1_TRAIL_LIMIT + 2 * (trail \div 2^10)
      key2 == (trail * 2^6) % 2^16
      search[l \in Nat] ==
        IF key1 > ExtraUnits[l] THEN search[NextTuple(l)]
        ELSE IF key1 # Comp1Trail(ExtraUnits[l]) THEN NoComposition
        ELSE IF key2 > ExtraUnits[l + 1]
        THEN IF IsLastTuple(ExtraUnits[l]) THEN NoComposition ELSE search[l + 3]
        ELSE IF key2 = ExtraUnits[l + 1] - (ExtraUnits[l + 1] % 64)
        THEN (ExtraUnits[l + 1] % 64) * 2^16 + ExtraUnits[l + 2]
        ELSE NoComposition
  IN  search[list]

getCompositionsList(norm16) ==
  IF isDecompYes(norm16) THEN getCompositionsListForDecompYes(norm16)
                         ELSE getCompositionsListForComposite(norm16)

(* Twice the composite, plus 1 if that combines forward, too.              *)
combine(list, trail) ==
  IF trail < COMP_1_TRAIL_LIMIT THEN CombineShort(list, trail)
                                ELSE CombineLong(list, trail)
=============================================================================
