-------------------------------- MODULE QRSpec --------------------------------
(***************************************************************************)
(* The tables of the standard as the library holds them (qrspec.c and      *)
(* mqrspec.c), and what it computes from them.  Versions are 1 to 40, and  *)
(* 1 to 4 of Micro QR codes; levels are 0 to 3, for L, M, Q and H.  Widths *)
(* of versions are 17 + 4v in every row of the code's table.               *)
(***************************************************************************)
EXTENDS Integers, Sequences

VersionMax == 40
MicroVersionMax == 4
Level == 0..3
LevelQ == 2
LevelH == 3

Capacity == [
  words |-> <<26, 44, 70, 100, 134, 172, 196, 242, 292, 346, 404, 466, 532, 581, 655, 733, 815, 901, 991, 1085,
  1156, 1258, 1364, 1474, 1588, 1706, 1828, 1921, 2051, 2185, 2323, 2465, 2611, 2761, 2876, 3034, 3196, 3362, 3532, 3706>>,
  remainder |-> <<0, 7, 7, 7, 7, 7, 0, 0, 0, 0, 0, 0, 0, 3, 3, 3, 3, 3, 3, 3,
  4, 4, 4, 4, 4, 4, 4, 3, 3, 3, 3, 3, 3, 3, 0, 0, 0, 0, 0, 0>>,
  ec |-> <<<<7, 10, 13, 17>>, <<10, 16, 22, 28>>, <<15, 26, 36, 44>>, <<20, 36, 52, 64>>,
  <<26, 48, 72, 88>>, <<36, 64, 96, 112>>, <<40, 72, 108, 130>>, <<48, 88, 132, 156>>,
  <<60, 110, 160, 192>>, <<72, 130, 192, 224>>, <<80, 150, 224, 264>>, <<96, 176, 260, 308>>,
  <<104, 198, 288, 352>>, <<120, 216, 320, 384>>, <<132, 240, 360, 432>>, <<144, 280, 408, 480>>,
  <<168, 308, 448, 532>>, <<180, 338, 504, 588>>, <<196, 364, 546, 650>>, <<224, 416, 600, 700>>,
  <<224, 442, 644, 750>>, <<252, 476, 690, 816>>, <<270, 504, 750, 900>>, <<300, 560, 810, 960>>,
  <<312, 588, 870, 1050>>, <<336, 644, 952, 1110>>, <<360, 700, 1020, 1200>>, <<390, 728, 1050, 1260>>,
  <<420, 784, 1140, 1350>>, <<450, 812, 1200, 1440>>, <<480, 868, 1290, 1530>>, <<510, 924, 1350, 1620>>,
  <<540, 980, 1440, 1710>>, <<570, 1036, 1530, 1800>>, <<570, 1064, 1590, 1890>>, <<600, 1120, 1680, 1980>>,
  <<630, 1204, 1770, 2100>>, <<660, 1260, 1860, 2220>>, <<720, 1316, 1950, 2310>>, <<750, 1372, 2040, 2430>>>>]

Words(version) == Capacity.words[version]
Remainder(version) == Capacity.remainder[version]
ECCLength(version, level) == Capacity.ec[version][level + 1]
DataLength(version, level) == Words(version) - ECCLength(version, level)
Width(version) == 17 + 4 * version

\* QRspec_getMinimumVersion: -1 if no version holds so many words.
MinimumVersion(size, level) ==
  LET enough == {v \in 1..VersionMax : DataLength(v, level) >= size}
  IN  IF enough = {} THEN -1 ELSE CHOOSE v \in enough : \A u \in enough : v <= u

-----------------------------------------------------------------------------
SplittableMode == {"NUM", "AN", "8", "KANJI"}

(* QRspec_lengthIndicator: the width of the length, which grows at versions
   10 and 27. *)
LengthIndicator(mode, version) ==
  LET l == IF version <= 9 THEN 1 ELSE IF version <= 26 THEN 2 ELSE 3
      bits == [NUM |-> <<10, 12, 14>>, AN |-> <<9, 11, 13>>, KANJI |-> <<8, 10, 12>>]
  IN  IF mode \notin SplittableMode THEN 0
      ELSE IF mode = "8" THEN <<8, 16, 16>>[l] ELSE bits[mode][l]

\* QRspec_maximumWords: bytes of a segment's length; 0 where there is no limit.
MaximumWords(mode, version) ==
  IF mode \notin SplittableMode THEN 0
  ELSE (2^LengthIndicator(mode, version) - 1) * (IF mode = "KANJI" THEN 2 ELSE 1)

-----------------------------------------------------------------------------
(* eccTable: how many blocks of each of two lengths, for each level. *)
EccTable ==
  <<<<<<1, 0>>, <<1, 0>>, <<1, 0>>, <<1, 0>>>>, <<<<1, 0>>, <<1, 0>>, <<1, 0>>, <<1, 0>>>>,
  <<<<1, 0>>, <<1, 0>>, <<2, 0>>, <<2, 0>>>>, <<<<1, 0>>, <<2, 0>>, <<2, 0>>, <<4, 0>>>>,
  <<<<1, 0>>, <<2, 0>>, <<2, 2>>, <<2, 2>>>>, <<<<2, 0>>, <<4, 0>>, <<4, 0>>, <<4, 0>>>>,
  <<<<2, 0>>, <<4, 0>>, <<2, 4>>, <<4, 1>>>>, <<<<2, 0>>, <<2, 2>>, <<4, 2>>, <<4, 2>>>>,
  <<<<2, 0>>, <<3, 2>>, <<4, 4>>, <<4, 4>>>>, <<<<2, 2>>, <<4, 1>>, <<6, 2>>, <<6, 2>>>>,
  <<<<4, 0>>, <<1, 4>>, <<4, 4>>, <<3, 8>>>>, <<<<2, 2>>, <<6, 2>>, <<4, 6>>, <<7, 4>>>>,
  <<<<4, 0>>, <<8, 1>>, <<8, 4>>, <<12, 4>>>>, <<<<3, 1>>, <<4, 5>>, <<11, 5>>, <<11, 5>>>>,
  <<<<5, 1>>, <<5, 5>>, <<5, 7>>, <<11, 7>>>>, <<<<5, 1>>, <<7, 3>>, <<15, 2>>, <<3, 13>>>>,
  <<<<1, 5>>, <<10, 1>>, <<1, 15>>, <<2, 17>>>>, <<<<5, 1>>, <<9, 4>>, <<17, 1>>, <<2, 19>>>>,
  <<<<3, 4>>, <<3, 11>>, <<17, 4>>, <<9, 16>>>>, <<<<3, 5>>, <<3, 13>>, <<15, 5>>, <<15, 10>>>>,
  <<<<4, 4>>, <<17, 0>>, <<17, 6>>, <<19, 6>>>>, <<<<2, 7>>, <<17, 0>>, <<7, 16>>, <<34, 0>>>>,
  <<<<4, 5>>, <<4, 14>>, <<11, 14>>, <<16, 14>>>>, <<<<6, 4>>, <<6, 14>>, <<11, 16>>, <<30, 2>>>>,
  <<<<8, 4>>, <<8, 13>>, <<7, 22>>, <<22, 13>>>>, <<<<10, 2>>, <<19, 4>>, <<28, 6>>, <<33, 4>>>>,
  <<<<8, 4>>, <<22, 3>>, <<8, 26>>, <<12, 28>>>>, <<<<3, 10>>, <<3, 23>>, <<4, 31>>, <<11, 31>>>>,
  <<<<7, 7>>, <<21, 7>>, <<1, 37>>, <<19, 26>>>>, <<<<5, 10>>, <<19, 10>>, <<15, 25>>, <<23, 25>>>>,
  <<<<13, 3>>, <<2, 29>>, <<42, 1>>, <<23, 28>>>>, <<<<17, 0>>, <<10, 23>>, <<10, 35>>, <<19, 35>>>>,
  <<<<17, 1>>, <<14, 21>>, <<29, 19>>, <<11, 46>>>>, <<<<13, 6>>, <<14, 23>>, <<44, 7>>, <<59, 1>>>>,
  <<<<12, 7>>, <<12, 26>>, <<39, 14>>, <<22, 41>>>>, <<<<6, 14>>, <<6, 34>>, <<46, 10>>, <<2, 64>>>>,
  <<<<17, 4>>, <<29, 14>>, <<49, 10>>, <<24, 46>>>>, <<<<4, 18>>, <<13, 32>>, <<48, 14>>, <<42, 32>>>>,
  <<<<20, 4>>, <<40, 7>>, <<43, 22>>, <<10, 67>>>>, <<<<19, 6>>, <<18, 31>>, <<34, 34>>, <<20, 61>>>>>>

(* QRspec_getEccSpec: blocks of the second length hold a byte more. *)
EccSpec(version, level) ==
  LET b == EccTable[version][level + 1]
      blocks == b[1] + b[2]
  IN  [blocks1 |-> b[1], blocks2 |-> b[2],
       data1 |-> DataLength(version, level) \div blocks,
       data2 |-> DataLength(version, level) \div blocks + 1,
       ecc |-> ECCLength(version, level) \div blocks]

-----------------------------------------------------------------------------
\* The second and the third coordinate of the markers.
AlignmentPattern ==
  <<<<0, 0>>, <<18, 0>>, <<22, 0>>, <<26, 0>>, <<30, 0>>, <<34, 0>>, <<22, 38>>, <<24, 42>>,
  <<26, 46>>, <<28, 50>>, <<30, 54>>, <<32, 58>>, <<34, 62>>, <<26, 46>>, <<26, 48>>, <<26, 50>>,
  <<30, 54>>, <<30, 56>>, <<30, 58>>, <<34, 62>>, <<28, 50>>, <<26, 50>>, <<30, 54>>, <<28, 54>>,
  <<32, 58>>, <<30, 58>>, <<34, 62>>, <<26, 50>>, <<30, 54>>, <<26, 52>>, <<30, 56>>, <<34, 60>>,
  <<30, 58>>, <<34, 62>>, <<30, 54>>, <<24, 50>>, <<28, 54>>, <<32, 58>>, <<26, 54>>, <<30, 58>>>>

\* For versions from 7.
VersionPattern ==
  <<\h07c94, \h085bc, \h09a99, \h0a4d3, \h0bbf6, \h0c762, \h0d847, \h0e60d, \h0f928,
  \h10b78, \h1145d, \h12a17, \h13532, \h149a6, \h15683, \h168c9, \h177ec, \h18ec4,
  \h191e1, \h1afab, \h1b08e, \h1cc1a, \h1d33f, \h1ed75, \h1f250, \h209d5, \h216f0,
  \h228ba, \h2379f, \h24b0b, \h2542e, \h26a64, \h27541, \h28c69>>

\* A row for each level, a column for each mask.
FormatInfo ==
  <<<<\h77c4, \h72f3, \h7daa, \h789d, \h662f, \h6318, \h6c41, \h6976>>,
    <<\h5412, \h5125, \h5e7c, \h5b4b, \h45f9, \h40ce, \h4f97, \h4aa0>>,
    <<\h355f, \h3068, \h3f31, \h3a06, \h24b4, \h2183, \h2eda, \h2bed>>,
    <<\h1689, \h13be, \h1ce7, \h19d0, \h0762, \h0255, \h0d0c, \h083b>>>>

-----------------------------------------------------------------------------
(* Micro QR codes.  A level whose ECC length is 0 does not exist. *)
MicroWidth(version) == 9 + 2 * version
MicroECCLength(version, level) ==
  <<<<2, 0, 0, 0>>, <<5, 6, 0, 0>>, <<6, 8, 0, 0>>, <<8, 10, 14, 0>>>>[version][level + 1]
MicroDataLengthBit(version, level) ==
  LET w == MicroWidth(version) - 1
      ecc == MicroECCLength(version, level)
  IN  IF ecc = 0 THEN 0 ELSE w * w - 64 - ecc * 8
MicroDataLength(version, level) == (MicroDataLengthBit(version, level) + 4) \div 8

MicroLengthIndicator(mode, version) ==
  LET bits == [NUM |-> <<3, 4, 5, 6>>, AN |-> <<0, 3, 4, 5>>, KANJI |-> <<0, 0, 3, 4>>]
  IN  IF mode = "8" THEN <<0, 0, 4, 5>>[version] ELSE bits[mode][version]

\* A row for each mask, a column for each pair of a version and a level.
MicroFormatTable ==
  <<<<\h4445, \h55ae, \h6793, \h7678, \h06de, \h1735, \h2508, \h34e3>>,
    <<\h4172, \h5099, \h62a4, \h734f, \h03e9, \h1202, \h203f, \h31d4>>,
    <<\h4e2b, \h5fc0, \h6dfd, \h7c16, \h0cb0, \h1d5b, \h2f66, \h3e8d>>,
    <<\h4b1c, \h5af7, \h68ca, \h7921, \h0987, \h186c, \h2a51, \h3bba>>>>
MicroType(version, level) == <<<<0>>, <<1, 2>>, <<3, 4>>, <<5, 6, 7>>>>[version][level + 1]
MicroFormatInfo(mask, version, level) == MicroFormatTable[mask + 1][MicroType(version, level) + 1]
=============================================================================
