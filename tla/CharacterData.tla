---------------------------- MODULE CharacterData ---------------------------
(***************************************************************************)
(* An excerpt of the tables of u_char.cc and u_bidi.cc: what is read for   *)
(* printable ASCII and the characters of MCUTS46.  A table is put together *)
(* from the parts that the characters of a script read; the blocks of the  *)
(* tries are those of UTrie2, 32 code points long.                         *)
(***************************************************************************)
EXTENDS CodePointTrie, TLC

(* The general categories: blocks, then values.                            *)
CategoryIndexOfLatin ==
  Cells(1, <<1172, 1180, 1188, 1212, 1220, 1228, 1236, 1244>>) @@
  Cells(24, <<1363, 1371>>) @@ Cells(27, <<1375>>) @@ Cells(30, <<1396>>) @@
  Cells(45, <<1495, 1503, 1511>>) @@ Cells(49, <<1527>>) @@
  Cells(51, <<1543>>) @@ Cells(55, <<1567>>) @@ Cells(72, <<1690>>) @@
  Cells(74, <<1700>>)
CategoryIndexOfLatinAdditional ==
  Cells(241, <<1244>>) @@ Cells(243, <<1244>>) @@ Cells(245, <<1244>>) @@
  Cells(256, <<2612>>) @@ Cells(275, <<2720>>)
CategoryIndexOfKana ==
  Cells(384, <<3012>>) @@ Cells(386, <<1592>>) @@ Cells(391, <<3028>>)
CategoryIndexOfHan == Cells(624, <<3109>>)
CategoryIndexOfTrailSurrogates == Cells(1760, <<3607>>)
CategoryIndexOfLeadSurrogates ==
  Cells(2047, <<3757, 3607>>) @@ Cells(2112, <<2688>>) @@
  Cells(2114, <<2816>>) @@ Cells(2141, <<3708>>)
CategoryIndexOfLinearB == Cells(2623, <<4589>>) @@ Cells(2688, <<3794>>)
CategoryIndexOfChakma == Cells(2825, <<4329>>)
CategoryIndexOfAdlam == Cells(3716, <<1412>>)
CategoryIndexOfLastCodePoint == Cells(4652, <<5663>>)
CategoryOfLatin ==
  Cells(4688, <<12, 23, 23, 23, 25, 23, 23, 23, 20, 21, 23, 24, 23, 19, 23,
      23, 73, 137, 201, 265, 329, 393, 457, 521, 585, 649, 23, 23, 24, 24,
      24, 23, 23>>) @@ Same(4721 .. 4746, 1) @@
  Cells(4747, <<20, 23, 21, 26, 22, 26>>) @@ Same(4753 .. 4778, 2) @@
  Cells(4779, <<20, 24, 21, 24, 15, 0>>) @@ Cells(4848, <<15>>) @@
  Cells(4893, <<16>>) @@ Cells(4903, <<23>>) @@ Cells(4943, <<2>>) @@
  Cells(4972, <<2>>) @@ Cells(4977, <<2>>) @@ Cells(4979, <<2>>) @@
  Cells(4999, <<2>>) @@ Cells(5001, <<2>>)
CategoryOfMarksAndGreek ==
  Cells(5456, <<6>>) @@ Cells(5487, <<6>>) @@ Cells(5508, <<6>>) @@
  Cells(5521, <<26>>) @@ Cells(5586, <<2, 2>>) @@ Cells(5648, <<1>>)
CategoryOfHebrewAndArabic ==
  Cells(6003, <<6>>) @@ Cells(6028, <<5>>) @@ Cells(6063, <<23, 23>>) @@
  Cells(6116, <<5>>) @@ Cells(6174, <<201>>)
CategoryOfPersianDigits == Cells(6286, <<201>>) @@ Cells(6370, <<5>>)
CategoryOfDevanagari == Cells(6781, <<5>>) @@ Cells(6813, <<6>>)
CategoryOfJoiners == Cells(10460, <<16, 16>>)
CategoryOfNotLess == Cells(10894, <<24>>)
CategoryOfKana == Cells(12050, <<23>>) @@ Cells(12139, <<23, 4>>)
CategoryOfHan == Cells(12436, <<1413>>)
CategoryOfLeadSurrogates == Cells(14428, <<18>>)
CategoryOfReplacementCharacter == Cells(15057, <<27>>)
CategoryOfLinearB == Cells(15176, <<5>>)
CategoryOfChakma == Cells(17335, <<6>>)
CategoryOfLastCodePoint == Cells(22683, <<0>>)

(* Where the vector of a code point is: blocks, then values.               *)
VectorIndexOfLatin ==
  Cells(1, <<1305, 1313, 1321, 1345, 1353, 1361, 1369, 1377>>) @@
  Cells(24, <<1499, 1507>>) @@ Cells(27, <<1523>>) @@ Cells(30, <<1547>>) @@
  Cells(45, <<1662, 1670, 1678>>) @@ Cells(49, <<1694>>) @@
  Cells(51, <<1710>>) @@ Cells(55, <<1741>>) @@ Cells(72, <<4967>>) @@
  Cells(74, <<4959>>)
VectorIndexOfLatinAdditional ==
  Cells(241, <<5036>>) @@ Cells(243, <<5036>>) @@ Cells(245, <<5036>>) @@
  Cells(256, <<5071>>) @@ Cells(275, <<5174>>)
VectorIndexOfKana ==
  Cells(384, <<5579>>) @@ Cells(386, <<2627>>) @@ Cells(391, <<5645>>)
VectorIndexOfHan == Cells(624, <<5715>>)
VectorIndexOfTrailSurrogates == Cells(1760, <<5818>>)
VectorIndexOfLeadSurrogates ==
  Cells(2047, <<2765, 5802>>) @@ Cells(2112, <<3673>>) @@
  Cells(2114, <<2752>>) @@ Cells(2141, <<3409>>)
VectorIndexOfLastCodePoint == Cells(2623, <<4609>>)
VectorIndexOfChakma == Cells(2761, <<3792>>)
VectorIndexOfAdlam == Cells(3417, <<7730>>)
VectorIndexOfLinearB == Cells(3673, <<2989>>)
VectorIndexOfLastCodePoint2 == Cells(4672, <<5834>>)
VectorOfLatin ==
  Cells(5220, <<1995, 1989, 1962, 1935, 1947, 1944, 1935, 1959, 1941, 1953,
      1935, 1980, 1971, 1956, 1992, 1950>>) @@ Same(5236 .. 5245, 1932) @@
  Cells(5246, <<1968, 1965, 1974, 1974, 1974, 1989, 1935, 2007, 2007, 2007,
      2007, 2007, 2007>>) @@ Same(5259 .. 5278, 2001) @@
  Cells(5279, <<1941, 1947, 1953, 1986, 1929, 1983, 2004, 2004, 2004, 2004,
      2004, 2004>>) @@ Same(5291 .. 5310, 1998) @@
  Cells(5311, <<1941, 1977, 1938, 1974, 723, 0>>) @@ Cells(5380, <<738>>) @@
  Cells(5425, <<1572>>) @@ Cells(5435, <<1587>>) @@ Cells(5475, <<1614>>) @@
  Cells(5504, <<1617>>) @@ Cells(5509, <<1626>>)
VectorOfMarksAndGreek ==
  Cells(6000, <<1659>>) @@ Cells(6031, <<1659>>) @@ Cells(6052, <<1659>>) @@
  Cells(6113, <<840>>) @@ Cells(6190, <<849, 1668>>)
VectorOfHebrewAndArabic ==
  Cells(6671, <<909>>) @@ Cells(6696, <<927>>) @@ Cells(6731, <<918, 915>>) @@
  Cells(6784, <<954>>) @@ Cells(6842, <<2352>>)
VectorOfPersianDigits == Cells(6982, <<951>>)
VectorOfKana == Cells(10510, <<2061>>)
VectorOfReplacementCharacter == Cells(11089, <<1836>>)
VectorOfLinearB == Cells(11956, <<3354>>)
VectorOfChakma == Cells(15187, <<5142>>)
VectorOfDevanagari == Cells(19849, <<978>>) @@ Cells(19889, <<987>>)
VectorOfLatinAdditional ==
  Cells(20145, <<1221>>) @@ Cells(20147, <<1221>>) @@
  Cells(20167, <<1221>>) @@ Cells(20169, <<1221>>)
VectorOfJoiners == Cells(20296, <<1320, 1317>>)
VectorOfNotLess == Cells(20710, <<1785>>)
VectorOfKana2 == Cells(22318, <<2256>>)
VectorOfKana3 == Cells(22607, <<2289, 2292>>)
VectorOfHan == Cells(22860, <<2118>>)
VectorOfLeadSurrogates ==
  Cells(23208, <<2454>>) @@ Cells(23272, <<2460>>) @@ Cells(23367, <<2466>>)
VectorOfAdlam == Cells(30920, <<6075>>)

(* BiDi classes and joining types: blocks, then values.                    *)
BiDiIndexOfLatin ==
  Cells(1, <<911, 919, 927, 951, 959, 967, 975, 935>>) @@
  Cells(24, <<1013, 1021>>) @@ Cells(27, <<1025>>) @@ Cells(30, <<1036>>) @@
  Cells(45, <<1074, 1082, 1090>>) @@ Cells(49, <<1106>>) @@
  Cells(51, <<1122>>) @@ Cells(55, <<1152>>) @@ Cells(72, <<1281>>) @@
  Cells(74, <<1291>>)
BiDiIndexOfLatinAdditional ==
  Cells(241, <<935>>) @@ Cells(243, <<935>>) @@ Cells(245, <<935>>) @@
  Cells(256, <<1784>>) @@ Cells(275, <<1882>>)
BiDiIndexOfKana ==
  Cells(384, <<2158>>) @@ Cells(386, <<935>>) @@ Cells(391, <<974>>)
BiDiIndexOfHan == Cells(624, <<935>>)
BiDiIndexOfTrailSurrogates == Cells(1760, <<935>>)
BiDiIndexOfLeadSurrogates ==
  Cells(2047, <<2431, 935>>) @@ Cells(2112, <<2624>>) @@
  Cells(2114, <<2752>>) @@ Cells(2141, <<3273>>)
BiDiIndexOfLinearB == Cells(2623, <<3465, 935>>)
BiDiIndexOfChakma == Cells(2761, <<2626>>)
BiDiIndexOfAdlam == Cells(3281, <<3025>>)
BiDiIndexOfLastCodePoint == Cells(3528, <<3185>>)
BiDiOfLatin ==
  Cells(3644, <<9, 10, 10, 4, 4, 4, 10, 10, 12554, 61962, 10, 3, 6, 3, 6,
      6>>) @@ Same(3660 .. 3669, 2) @@
  Cells(3670, <<6, 10, 20490, 10, 53258, 10, 10>>) @@ Same(3677 .. 3702, 0) @@
  Cells(3703, <<20746, 10, 53770, 10, 10, 10>>) @@ Same(3709 .. 3734, 0) @@
  Cells(3735, <<20746, 10, 53770, 10, 18, 0, 0, 0, 0>>) @@
  Cells(3763, <<0>>) @@ Cells(3765, <<0>>) @@ Cells(3804, <<18>>) @@
  Cells(3849, <<178>>) @@ Cells(3859, <<10>>) @@ Cells(3899, <<0>>) @@
  Cells(3923, <<10, 0>>) @@ Cells(3928, <<0>>)
BiDiOfMarksAndGreek ==
  Cells(4056, <<177>>) @@ Cells(4087, <<177>>) @@ Cells(4108, <<177>>) @@
  Cells(4121, <<10>>) @@ Cells(4146, <<0, 0>>)
BiDiOfHebrewAndArabic ==
  Cells(4319, <<177>>) @@ Cells(4344, <<1>>) @@ Cells(4379, <<1, 1>>) @@
  Cells(4432, <<77>>) @@ Cells(4490, <<5>>)
BiDiOfPersianDigits == Cells(4626, <<2>>)
BiDiOfDevanagari == Cells(5145, <<0>>) @@ Cells(5177, <<177>>)
BiDiOfJoiners == Cells(7148, <<1042, 1074>>)
BiDiOfNotLess == Cells(7542, <<12298>>)
BiDiOfKana == Cells(8634, <<10>>)
BiDiOfReplacementCharacter == Cells(9753, <<10>>)
BiDiOfChakma == Cells(10523, <<177>>)
BiDiOfAdlam == Cells(12100, <<65>>)
BiDiOfLastCodePoint == Cells(12771, <<18>>)

(* Column 0 of the vectors, without its eight high bits.                   *)
PropsVectorsOfLatin == Same({723}, 256) @@ Same({738}, 512)
PropsVectorsOfMarksAndGreek ==
  Same({840, 849}, 2062) @@ Same({909, 915, 918, 927}, 2835) @@
  Same({951, 954}, 3074) @@ Same({978, 987}, 3850)
PropsVectorsOfLatinAdditional == Same({1221}, 9753)
PropsVectorsOfJoiners == Same({1317, 1320}, 10241)
PropsVectorsOfLatin2 ==
  Same({1572, 1587}, 131584) @@ Same({1614, 1617}, 131609) @@
  Same({1626}, 131865) @@ Same({1659}, 132865) @@ Same({1668}, 133134)
PropsVectorsOfNotLess == Same({1785}, 143104) @@ Same({1836}, 153088)
PropsVectorsOfLatin3 ==
  Same({1929, 1932, 1935, 1938, 1941, 1944, 1947, 1950, 1953, 1956, 1959,
      1962, 1965, 1968, 1971, 1974, 1977, 1980, 1983, 1986, 1989, 1992,
      1995}, 524544) @@ Same({1998, 2001, 2004, 2007}, 524569) @@
  Same({2061}, 671252)
PropsVectorsOfHan == Same({2118}, 673553)
PropsVectorsOfKana ==
  Same({2256}, 4865471) @@ Same({2289}, 4865983) @@ Same({2292}, 4865992)
PropsVectorsOfArabic == Same({2352}, 12586028)
PropsVectorsOfLeadSurrogates ==
  Same({2454}, 19303) @@ Same({2460}, 19815) @@ Same({2466}, 28263)
PropsVectorsOfLinearB == Same({3354}, 30001)
PropsVectorsOfChakma == Same({5142}, 54390)
PropsVectorsOfAdlam == Same({6075}, 67495)

scriptExtensions == Cells(44, <<2>>)

propsTrie_index ==
  CategoryIndexOfLatin @@ CategoryIndexOfLatinAdditional @@
  CategoryIndexOfKana @@ CategoryIndexOfHan @@
  CategoryIndexOfTrailSurrogates @@ CategoryIndexOfLeadSurrogates @@
  CategoryIndexOfLinearB @@ CategoryIndexOfChakma @@ CategoryIndexOfAdlam @@
  CategoryIndexOfLastCodePoint @@ CategoryOfLatin @@
  CategoryOfMarksAndGreek @@ CategoryOfHebrewAndArabic @@
  CategoryOfPersianDigits @@ CategoryOfDevanagari @@ CategoryOfJoiners @@
  CategoryOfNotLess @@ CategoryOfKana @@ CategoryOfHan @@
  CategoryOfLeadSurrogates @@ CategoryOfReplacementCharacter @@
  CategoryOfLinearB @@ CategoryOfChakma @@ CategoryOfLastCodePoint

propsVectorsTrie_index ==
  VectorIndexOfLatin @@ VectorIndexOfLatinAdditional @@ VectorIndexOfKana @@
  VectorIndexOfHan @@ VectorIndexOfTrailSurrogates @@
  VectorIndexOfLeadSurrogates @@ VectorIndexOfLastCodePoint @@
  VectorIndexOfChakma @@ VectorIndexOfAdlam @@ VectorIndexOfLinearB @@
  VectorIndexOfLastCodePoint2 @@ VectorOfLatin @@ VectorOfMarksAndGreek @@
  VectorOfHebrewAndArabic @@ VectorOfPersianDigits @@ VectorOfKana @@
  VectorOfReplacementCharacter @@ VectorOfLinearB @@ VectorOfChakma @@
  VectorOfDevanagari @@ VectorOfLatinAdditional @@ VectorOfJoiners @@
  VectorOfNotLess @@ VectorOfKana2 @@ VectorOfKana3 @@ VectorOfHan @@
  VectorOfLeadSurrogates @@ VectorOfAdlam

ubidi_props_trieIndex ==
  BiDiIndexOfLatin @@ BiDiIndexOfLatinAdditional @@ BiDiIndexOfKana @@
  BiDiIndexOfHan @@ BiDiIndexOfTrailSurrogates @@
  BiDiIndexOfLeadSurrogates @@ BiDiIndexOfLinearB @@ BiDiIndexOfChakma @@
  BiDiIndexOfAdlam @@ BiDiIndexOfLastCodePoint @@ BiDiOfLatin @@
  BiDiOfMarksAndGreek @@ BiDiOfHebrewAndArabic @@ BiDiOfPersianDigits @@
  BiDiOfDevanagari @@ BiDiOfJoiners @@ BiDiOfNotLess @@ BiDiOfKana @@
  BiDiOfReplacementCharacter @@ BiDiOfChakma @@ BiDiOfAdlam @@
  BiDiOfLastCodePoint

propsVectors ==
  PropsVectorsOfLatin @@ PropsVectorsOfMarksAndGreek @@
  PropsVectorsOfLatinAdditional @@ PropsVectorsOfJoiners @@
  PropsVectorsOfLatin2 @@ PropsVectorsOfNotLess @@ PropsVectorsOfLatin3 @@
  PropsVectorsOfHan @@ PropsVectorsOfKana @@ PropsVectorsOfArabic @@
  PropsVectorsOfLeadSurrogates @@ PropsVectorsOfLinearB @@
  PropsVectorsOfChakma @@ PropsVectorsOfAdlam

propsTrie ==
  [index |-> propsTrie_index, indexLength |-> 4656,
   highStart |-> 1114112, highValueIndex |-> 22684]

propsVectorsTrie ==
  [index |-> propsVectorsTrie_index, indexLength |-> 5188,
   highStart |-> 1114112, highValueIndex |-> 32056]

ubidi_props_trie ==
  [index |-> ubidi_props_trieIndex, indexLength |-> 3612,
   highStart |-> 1114112, highValueIndex |-> 12872]
=============================================================================
