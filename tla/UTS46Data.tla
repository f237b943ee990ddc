----------------------------- MODULE UTS46Data ------------------------------
(***************************************************************************)
(* An excerpt of u_uts46data.cc, the data file of the normalizer as an     *)
(* array of bytes: the headers, and of the trie's index and data and of    *)
(* extraData what is read for the characters of MCComposer, their mappings *)
(* and their compositions.  Two bytes are a number, the lower one first.   *)
(***************************************************************************)
EXTENDS CodePointTrie, TLC

UTS46Info ==
  [headerSize |-> 32, isBigEndian |-> 0, size |-> 20,
   dataFormat |-> <<78, 114, 109, 50>>, formatVersion |-> 4]

UTS46Indexes ==
  [NORM_TRIE_OFFSET |-> 80, EXTRA_DATA_OFFSET |-> 37392,
   SMALL_FCD_OFFSET |-> 58976, MIN_DECOMP_NO_CP |-> 65,
   MIN_COMP_NO_MAYBE_CP |-> 65,
   MIN_YES_NO |-> 1710, MIN_NO_NO |-> 5728, LIMIT_NO_NO |-> 21584,
   MIN_MAYBE_YES |-> 64512, MIN_YES_NO_MAPPINGS_ONLY |-> 2406,
   MIN_NO_NO_COMP_BOUNDARY_BEFORE |-> 19278,
   MIN_NO_NO_COMP_NO_MAYBE_CC |-> 21398, MIN_NO_NO_EMPTY |-> 21580,
   MIN_LCCC_CP |-> 173]

UTS46TrieHeader ==
  [signature |-> 1416784179, options |-> 0, indexLength |-> 2917,
   dataLength |-> 15731, index3NullOffset |-> 896, dataNullOffset |-> 11385,
   shiftedHighStart |-> 1793]

(* Blocks of the fast trie: letters, marks and Jamos.                      *)
BlocksOfLettersAndMarks ==
  Cells(0, <<0, 64, 128, 192, 256, 319, 383, 444, 508>>) @@
  Cells(12, <<738, 802>>) @@ Cells(38, <<2251, 2314>>) @@
  Cells(68, <<4062, 4095, 4149>>) @@ Cells(120, <<6202, 6266, 6330, 6394>>) @@
  Cells(128, <<6714>>) @@ Cells(132, <<6968>>) @@ Cells(137, <<7271>>) @@
  Cells(196, <<8971, 9035>>)

(* The first Hangul syllables.                                             *)
BlockOfSyllables == Cells(688, <<11056>>)

(* Surrogates, which have the values of lead code units.                   *)
BlocksOfSurrogates ==
  Cells(864, <<11253>>) @@ Cells(880, <<1582>>) @@ Cells(884, <<1582>>)

(* U+FB01.                                                                 *)
BlockOfLigatures == Cells(1004, <<12025>>)

(* The three stages for supplementary code points.                         *)
SupplementaryIndex1 == Cells(1024, <<2678, 2708, 2737, 2768>>)
ChakmaIndex3 == Cells(1345, <<13790, 13806>>)
MathIndex3 == Cells(2035, <<7660>>)
ChakmaIndex2 == Cells(2686, <<1327>>)
MathIndex2 == Cells(2778, <<2035>>)

(* norm16 of Latin characters and of marks.                                *)
LatinValues ==
  Cells(61, <<8>>) @@ Cells(65, <<64248>>) @@ Cells(97, <<16>>) @@
  Cells(102, <<204, 208, 236, 268>>) @@ Cells(115, <<528>>) @@
  Cells(173, <<21582>>) @@ Cells(192, <<64252>>) @@
  Cells(224, <<2408, 2414, 1712, 2420, 1734, 1744>>) @@
  Cells(236, <<2444, 2450, 2456, 1786>>) @@ Cells(258, <<64004>>) @@
  Cells(346, <<1918>>)
LatinComposites == Cells(503, <<2924>>) @@ Cells(547, <<2020>>)
MarkValues ==
  Cells(738, <<64972, 64972>>) @@
  Cells(745, <<64972, 64972, 64972, 64972>>) @@ Cells(760, <<65464>>) @@
  Cells(773, <<64952>>) @@ Cells(790, <<65026>>) @@ Cells(794, <<64514>>) @@
  Cells(802, <<21400>>) @@ Cells(806, <<21418>>)
SurrogateValues == Cells(1582, <<1>>) @@ Cells(1621, <<1>>)
BengaliValues ==
  Cells(2313, <<64512>>) @@ Cells(2321, <<1108>>) @@ Cells(2325, <<3355>>)
JamoValues ==
  Cells(4062, <<2>>) @@ Cells(4128, <<65024>>) @@
  Cells(4188, <<1, 65024, 65024, 65024>>)
DottedLetters ==
  Cells(6233, <<3661>>) @@ Cells(6249, <<3710>>) @@
  Cells(6299, <<3874, 64004, 2126, 64004, 3882>>) @@ Cells(6307, <<3902>>) @@
  Cells(6363, <<2136>>) @@ Cells(6405, <<4248>>)
JoinerValue == Cells(6726, <<1>>)
AngstromValue == Cells(7011, <<19932>>)
NotEqualValue == Cells(7303, <<5077>>)
MathValues == Cells(7660, <<5742, 6618>>)
CompatibilityJamos ==
  Cells(9020, <<8826, 8830, 21448>>) @@ Cells(9050, <<21484>>)
SyllableValues == Cells(11056, <<1710, 2407>>)
LeadUnitValues == Cells(11257, <<21584>>) @@ Cells(11306, <<16878>>)
LigatureValue == Cells(12026, <<13668>>)
ChakmaValues ==
  Cells(13797, <<64512>>) @@ Cells(13804, <<5629, 5639, 1, 1650>>)
UnpairedNorm16 == Cells(15730, <<1>>)

(* Lists of compositions: of a, f, i, s, =.                                *)
CompositionsOfA ==
  Cells(1, <<65535, 34416, 17628, 34416, 17600, 34416, 17630, 1536, 448,
      1538, 450, 1540, 453, 1542, 454, 1544, 514, 1548, 519, 1550, 1103,
      1552, 457, 1554, 15686, 1556, 459, 1560, 924, 1566, 1026, 1570, 1030,
      1606, 15683, 1610, 15362, 34384>>)
CompositionsOfF == Cells(102, <<34318, 15422>>)
CompositionsOfI ==
  Cells(134, <<1536, 472, 1538, 474, 1540, 476, 1542, 594, 1544, 598, 1548,
      602, 1552, 479, 1554, 15762, 1560, 928, 1566, 1042, 1570, 1046, 1606,
      15766, 1616, 606, 34400>>)
CompositionsOfS ==
  Cells(264, <<1538, 695, 1540, 698, 1550, 15554, 1560, 707, 1606, 15559,
      1612, 1074, 34382>>)
CompositionsOfBengaliE == Cells(554, <<4988, 5014, 37806>>)
CompositionsOfChakmaAA == Cells(825, <<46217, 18882, 8796>>)

(* Mappings, with compositions behind some.                                *)
MappingsOfA ==
  Cells(867, <<58882, 97, 776, 34312, 958, 58882, 97, 778, 34306, 1014>>)
MappingsOfI == Cells(893, <<58882, 105, 776, 34306, 15454>>)
MappingsOfS == Cells(959, <<58882, 115, 769, 34318, 15562>>)
MappingsWithDots == Cells(1010, <<58882, 97, 775, 34312>>)
MappingsWithDotsBelow ==
  Cells(1063, <<56322, 115, 803, 34318, 15570, 56322, 97, 803, 1540, 15706,
      34316>>)
MappingsOnlyOfA == Cells(1204, <<58882, 97, 768, 58882, 97, 769>>)
MappingsOnlyOfI == Cells(1222, <<58882, 105, 768, 58882, 105, 769>>)
MappingsOfTwoMarks == Cells(1462, <<58947, 97, 778, 769>>)
MappingsOfVowels == Cells(1677, <<2, 2503, 2494>>)
MappingsOfF == Cells(1830, <<58882, 102, 775>>)
MappingsOfIDiaeresis == Cells(1855, <<58947, 105, 776, 769>>)
MappingsOfDottedS ==
  Cells(1937, <<58882, 115, 775, 347, 58947, 115, 769, 775>>) @@
  Cells(1951, <<58947, 115, 803, 775>>)
MappingOfDottedI == Cells(2124, <<56322, 105, 803>>)
MappingOfNotEqual == Cells(2538, <<258, 61, 824>>)
MappingOfChakmaO == Cells(2814, <<4, 55300, 56625, 55300, 56615>>)
MappingOfBoldA == Cells(2871, <<1, 97>>)
MappingOfJamoL == Cells(4413, <<1, 4352>>)
MappingOfLigature == Cells(6834, <<2, 102, 105>>)
MappingOfAngstrom == Cells(9966, <<58946, 97, 778>>)
MappingsOfMarks ==
  Cells(10699, <<59110, 59009, 768>>) @@
  Cells(10708, <<59110, 59010, 776, 769>>) @@ Cells(10724, <<1, 4522>>) @@
  Cells(10742, <<1, 4449>>)
MappingToNothing == Cells(10790, <<256, 65408>>)

UTS46TrieIndex ==
  BlocksOfLettersAndMarks @@ BlockOfSyllables @@ BlocksOfSurrogates @@
  BlockOfLigatures @@ SupplementaryIndex1 @@ ChakmaIndex3 @@ MathIndex3 @@
  ChakmaIndex2 @@ MathIndex2

UTS46TrieData ==
  LatinValues @@ LatinComposites @@ MarkValues @@ SurrogateValues @@
  BengaliValues @@ JamoValues @@ DottedLetters @@ JoinerValue @@
  AngstromValue @@ NotEqualValue @@ MathValues @@ CompatibilityJamos @@
  SyllableValues @@ LeadUnitValues @@ LigatureValue @@ ChakmaValues @@
  UnpairedNorm16

UTS46ExtraUnits ==
  CompositionsOfA @@ CompositionsOfF @@ CompositionsOfI @@ CompositionsOfS @@
  CompositionsOfBengaliE @@ CompositionsOfChakmaAA @@ MappingsOfA @@
  MappingsOfI @@ MappingsOfS @@ MappingsWithDots @@ MappingsWithDotsBelow @@
  MappingsOnlyOfA @@ MappingsOnlyOfI @@ MappingsOfTwoMarks @@
  MappingsOfVowels @@ MappingsOfF @@ MappingsOfIDiaeresis @@
  MappingsOfDottedS @@ MappingOfDottedI @@ MappingOfNotEqual @@
  MappingOfChakmaO @@ MappingOfBoldA @@ MappingOfJamoL @@ MappingOfLigature @@
  MappingOfAngstrom @@ MappingsOfMarks @@ MappingToNothing
=============================================================================
