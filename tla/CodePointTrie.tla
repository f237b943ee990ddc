--------------------------- MODULE CodePointTrie ----------------------------
(***************************************************************************)
(* The two tries that the data files are read with: UCPTrie, which is      *)
(* opened from the bytes of uts46_data and maps a code point to its        *)
(* norm16, and UTrie2, which the tables of u_char.cc and u_bidi.cc use.    *)
(* A trie is a record; index and data are functions from offsets to 16-bit *)
(* numbers, and looking up where they are not defined is an error.         *)
(***************************************************************************)
EXTENDS Integers, Sequences, UErrorCode

(* Parts of a table: numbers that follow each other from an offset on, and *)
(* places that hold the same number.                                       *)
Cells(offset, numbers) ==
  [x \in offset .. offset + Len(numbers) - 1 |-> numbers[x - offset + 1]]
Same(places, number) == [x \in places |-> number]

MaxBMP       == 65535     (* 0xffff                                        *)
MaxCodeValue == 1114111   (* 0x10ffff                                      *)

-----------------------------------------------------------------------------
(* UCPTrie: blocks of 64 values for the code points up to U+FFFF and of 16 *)
(* for the others, which are found through three stages of index.          *)
UCPTRIE_FAST_DATA_BLOCK_LENGTH     == 64
UCPTRIE_SMALL_DATA_BLOCK_LENGTH    == 16
UCPTRIE_BMP_INDEX_LENGTH           == 1024
UCPTRIE_OMITTED_BMP_INDEX_1_LENGTH == 4
UCPTRIE_INDEX_2_BLOCK_LENGTH       == 32
UCPTRIE_INDEX_3_BLOCK_LENGTH       == 32
CodePointsPerIndex2Entry == UCPTRIE_INDEX_3_BLOCK_LENGTH * UCPTRIE_SMALL_DATA_BLOCK_LENGTH
CodePointsPerIndex1Entry == UCPTRIE_INDEX_2_BLOCK_LENGTH * CodePointsPerIndex2Entry

(* From the end of the data: the value for what is not a code point and    *)
(* the one from highStart on.                                              *)
UCPTRIE_ERROR_VALUE_NEG_DATA_OFFSET == 1
UCPTRIE_HIGH_VALUE_NEG_DATA_OFFSET  == 2

FastIndex(trie, c) ==
  trie.index[c \div UCPTRIE_FAST_DATA_BLOCK_LENGTH]
    + (c % UCPTRIE_FAST_DATA_BLOCK_LENGTH)

(* The data blocks of an index-3 block: 16-bit offsets, or groups of a     *)
(* unit with the high bits of eight offsets and the low ones of each.      *)
DataBlock(trie, i3Block, i3) ==
  IF i3Block < 2^15 THEN trie.index[i3Block + i3]
  ELSE LET group == (i3Block % 2^15) + (i3 - (i3 % 8)) + (i3 \div 8)
           high  == (trie.index[group] \div 4^(7 - (i3 % 8))) % 4
       IN  high * 2^16 + trie.index[group + 1 + (i3 % 8)]

InternalSmallIndex(trie, c) ==
  LET i1 == (c \div CodePointsPerIndex1Entry)
              + (UCPTRIE_BMP_INDEX_LENGTH - UCPTRIE_OMITTED_BMP_INDEX_1_LENGTH)
      i2 == (c \div CodePointsPerIndex2Entry) % UCPTRIE_INDEX_2_BLOCK_LENGTH
      i3 == (c \div UCPTRIE_SMALL_DATA_BLOCK_LENGTH) % UCPTRIE_INDEX_3_BLOCK_LENGTH
  IN  DataBlock(trie, trie.index[trie.index[i1] + i2], i3)
        + (c % UCPTRIE_SMALL_DATA_BLOCK_LENGTH)

SmallIndex(trie, c) ==
  IF c >= trie.highStart
  THEN trie.dataLength - UCPTRIE_HIGH_VALUE_NEG_DATA_OFFSET
  ELSE InternalSmallIndex(trie, c)

CodePointIndex(trie, c) ==
  IF c \in 0 .. MaxBMP THEN FastIndex(trie, c)
  ELSE IF c \in 0 .. MaxCodeValue THEN SmallIndex(trie, c)
  ELSE trie.dataLength - UCPTRIE_ERROR_VALUE_NEG_DATA_OFFSET

UCPTRIE_FAST_GET(trie, c) == trie.data[CodePointIndex(trie, c)]

(* A code unit that is a surrogate without its other half.                 *)
UnpairedValue(trie) ==
  trie.data[trie.dataLength - UCPTRIE_ERROR_VALUE_NEG_DATA_OFFSET]

(* ucptrie_openFromBinary() for a fast trie of 16-bit values: the checks   *)
(* of the header, of what it says of itself and of the length.             *)
UCPTRIE_SIG              == 1416784179   (* "Tri3"                         *)
UCPTRIE_TYPE_FAST        == 0
UCPTRIE_TYPE_SMALL       == 1
UCPTRIE_VALUE_BITS_16    == 0
UCPTRIE_VALUE_BITS_8     == 2
HeaderSize               == 16
TypeOption(header)       == (header.options \div 64) % 4
ReservedOption(header)   == (header.options \div 8) % 8
ValueBitsOption(header)  == header.options % 8
DataLength(header)       == (header.options \div 2^12) * 2^16 + header.dataLength

IsTrieHeader(header) ==
  /\ header.signature = UCPTRIE_SIG
  /\ TypeOption(header) <= UCPTRIE_TYPE_SMALL
  /\ ValueBitsOption(header) <= UCPTRIE_VALUE_BITS_8
  /\ ReservedOption(header) = 0
  /\ TypeOption(header) = UCPTRIE_TYPE_FAST
  /\ ValueBitsOption(header) = UCPTRIE_VALUE_BITS_16

OpenError(header, length, alignment) ==
  IF length <= 0 \/ alignment % 4 # 0 THEN U_ILLEGAL_ARGUMENT_ERROR
  ELSE IF length < HeaderSize \/ ~IsTrieHeader(header) THEN U_INVALID_FORMAT_ERROR
  ELSE IF length < HeaderSize + header.indexLength * 2 + DataLength(header) * 2
  THEN U_INVALID_FORMAT_ERROR
  ELSE U_ZERO_ERROR

OpenFromBinary(header, index, data) ==
  [index       |-> index,
   data        |-> data,
   indexLength |-> header.indexLength,
   dataLength  |-> DataLength(header),
   highStart   |-> header.shiftedHighStart * CodePointsPerIndex2Entry]

-----------------------------------------------------------------------------
(* UTrie2 with 16-bit values: index and data are one array, in blocks of   *)
(* 32.  Lead surrogates as code points have an index of their own.         *)
UTRIE2_DATA_BLOCK_LENGTH          == 32
UTRIE2_DATA_GRANULARITY           == 4
UTRIE2_INDEX_2_BLOCK_LENGTH       == 64
UTRIE2_LSCP_INDEX_2_OFFSET        == 2048
UTRIE2_OMITTED_BMP_INDEX_1_LENGTH == 32
UTRIE2_INDEX_1_OFFSET             == 2048 + 32 + 32
UTRIE2_BAD_UTF8_DATA_OFFSET       == 128

IndexRaw(trie, offset, c) ==
  trie.index[offset + (c \div UTRIE2_DATA_BLOCK_LENGTH)] * UTRIE2_DATA_GRANULARITY
    + (c % UTRIE2_DATA_BLOCK_LENGTH)

IndexFromSupplementary(trie, c) ==
  LET codePointsPerIndex1Entry == UTRIE2_INDEX_2_BLOCK_LENGTH * UTRIE2_DATA_BLOCK_LENGTH
      i1 == UTRIE2_INDEX_1_OFFSET - UTRIE2_OMITTED_BMP_INDEX_1_LENGTH
              + (c \div codePointsPerIndex1Entry)
      i2 == (c \div UTRIE2_DATA_BLOCK_LENGTH) % UTRIE2_INDEX_2_BLOCK_LENGTH
  IN  trie.index[trie.index[i1] + i2] * UTRIE2_DATA_GRANULARITY
        + (c % UTRIE2_DATA_BLOCK_LENGTH)

IndexFromCodePoint(trie, c) ==
  IF c \in 55296 .. 56319
  THEN IndexRaw(trie, UTRIE2_LSCP_INDEX_2_OFFSET - (55296 \div UTRIE2_DATA_BLOCK_LENGTH), c)
  ELSE IF c \in 0 .. MaxBMP THEN IndexRaw(trie, 0, c)
  ELSE IF c \notin 0 .. MaxCodeValue
  THEN trie.indexLength + UTRIE2_BAD_UTF8_DATA_OFFSET
  ELSE IF c >= trie.highStart THEN trie.highValueIndex
  ELSE IndexFromSupplementary(trie, c)

UTRIE2_GET16(trie, c) == trie.index[IndexFromCodePoint(trie, c)]
=============================================================================
