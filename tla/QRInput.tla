------------------------------- MODULE QRInput -------------------------------
(***************************************************************************)
(* From data to the bits a symbol carries (split.c, qrinput.c,             *)
(* bitstream.c): a text is cut into segments of one mode, and each is      *)
(* written behind its mode and its length.  A text is a sequence of bytes  *)
(* from 1 to 255, and a segment, or entry, a record of a mode and its data.*)
(* Memory is always granted.                                               *)
(***************************************************************************)
EXTENDS QRSpec, FiniteSets, SequencesExt

Digit == 48..57
\* The 45 characters of alphanumeric mode, in the order of their values.
AnOrder ==
  [i \in 1..45 |-> IF i <= 10 THEN i + 47 ELSE IF i <= 36 THEN i + 54
                   ELSE <<32, 36, 37, 42, 43, 45, 46, 47, 58>>[i - 36]]
AnChar == {AnOrder[i] : i \in 1..45}
AnTable == [c \in AnChar |-> (CHOOSE i \in 1..45 : AnOrder[i] = c) - 1]

\* Two bytes of Shift-JIS that Kanji mode takes; the second one is not looked at.
KanjiWord(c, d) == 256 * c + d \in (\h8140..\h9ffc) \cup (\he040..\hebbf)

EstimateBitsModeNum(size) == 10 * (size \div 3) + <<0, 4, 7>>[(size % 3) + 1]
EstimateBitsModeAn(size) == 11 * (size \div 2) + 6 * (size % 2)
EstimateBitsMode8(size) == 8 * size
EstimateBitsModeKanji(size) == 13 * (size \div 2)

-----------------------------------------------------------------------------
(* Splitting.  The costs below compare two ways of writing the next characters
   and, as in the code, leave out the headers both ways have; v is the version
   asked for, 0 if any will do. *)
NumHead(v) == 4 + LengthIndicator("NUM", v)
AnHead(v) == 4 + LengthIndicator("AN", v)

\* The mode of the character at p of t; kanji says that pairs of bytes may be Kanji.
IdentifyMode(t, p, kanji) ==
  IF p > Len(t) THEN "NUL"
  ELSE IF t[p] \in Digit THEN "NUM"
  ELSE IF t[p] \in AnChar THEN "AN"
  ELSE IF kanji /\ p < Len(t) /\ KanjiWord(t[p], t[p + 1]) THEN "KANJI" ELSE "8"

\* The first place from p on whose character is not in S, perhaps after the end.
PastRun(t, p, S) ==
  CHOOSE q \in p..Len(t) + 1 : /\ \A i \in p..q - 1 : t[i] \in S
                               /\ q <= Len(t) => t[q] \notin S

(* What it costs to leave 8-bit mode, after n characters in it, for a run of k
   characters, or alphanumeric mode for a run of k digits; negative is a gain. *)
Leave8ForNum(n, k, v) == EstimateBitsMode8(n) + EstimateBitsModeNum(k) + NumHead(v) - EstimateBitsMode8(n + k)
Leave8ForAn(n, k, v) == EstimateBitsMode8(n) + EstimateBitsModeAn(k) + AnHead(v) - EstimateBitsMode8(n + k)
LeaveAnForNum(n, k, v) == EstimateBitsModeAn(n) + EstimateBitsModeNum(k) + NumHead(v) - EstimateBitsModeAn(n + k)

(* What it costs to have a segment of its own for the first k characters, if
   one that follows needs a wider mode. *)
NumBefore8(k, v) == EstimateBitsModeNum(k) + NumHead(v) + EstimateBitsMode8(1) - EstimateBitsMode8(k + 1)
NumBeforeAn(k, v) == EstimateBitsModeNum(k) + NumHead(v) + EstimateBitsModeAn(1) - EstimateBitsModeAn(k + 1)
AnBefore8(k, v) == EstimateBitsModeAn(k) + AnHead(v) + EstimateBitsMode8(1) - EstimateBitsMode8(k + 1)

Segment(mode, size) == [mode |-> mode, size |-> size]

(* Mutant of Eat8: it always stops for a run of digits or letters. *)
Eat8StopsAlways(t, kanji, v) ==
  LET walk[p \in 2..Len(t) + 1] ==
        IF p > Len(t) \/ IdentifyMode(t, p, kanji) # "8" THEN p ELSE walk[p + 1]
  IN  Segment("8", walk[2] - 1)

Eat8(t, kanji, v) ==
  LET walk[p \in 2..Len(t) + 1] ==
        CASE IdentifyMode(t, p, kanji) \in {"NUL", "KANJI"} -> p
          [] IdentifyMode(t, p, kanji) = "NUM" ->
               LET q == PastRun(t, p, Digit)
               IN  IF Leave8ForNum(p - 1, q - p, v) < 0 THEN p ELSE walk[q]
          [] IdentifyMode(t, p, kanji) = "AN" ->
               LET q == PastRun(t, p, AnChar)
               IN  IF Leave8ForAn(p - 1, q - p, v) < 0 THEN p ELSE walk[q]
          [] OTHER -> walk[p + 1]
  IN  Segment("8", walk[2] - 1)

EatAn(t, kanji, v) ==
  LET walk[p \in 1..Len(t) + 1] ==
        IF p > Len(t) \/ t[p] \notin AnChar THEN p
        ELSE IF t[p] \in Digit
        THEN LET q == PastRun(t, p, Digit)
             IN  IF LeaveAnForNum(p - 1, q - p, v) < 0 THEN p ELSE walk[q]
        ELSE walk[p + 1]
      run == walk[1] - 1
  IN  IF run < Len(t) /\ t[run + 1] \notin AnChar /\ AnBefore8(run, v) > 0
      THEN Eat8(t, kanji, v) ELSE Segment("AN", run)

EatNum(t, kanji, v) ==
  LET run == PastRun(t, 1, Digit) - 1
      after == IdentifyMode(t, run + 1, kanji)
  IN  CASE after = "8" /\ NumBefore8(run, v) > 0 -> Eat8(t, kanji, v)
        [] after = "AN" /\ NumBeforeAn(run, v) > 0 -> EatAn(t, kanji, v)
        [] OTHER -> Segment("NUM", run)

EatKanji(t) ==
  LET walk[p \in 1..Len(t) + 1] ==
        IF IdentifyMode(t, p, TRUE) = "KANJI" THEN walk[p + 2] ELSE p
  IN  Segment("KANJI", walk[1] - 1)

\* One round of Split_splitString: the segment the text begins with.
Eat(t, kanji, v) ==
  LET mode == IdentifyMode(t, 1, kanji)
  IN  CASE mode = "NUM" -> EatNum(t, kanji, v)
        [] mode = "AN" -> EatAn(t, kanji, v)
        [] mode = "KANJI" -> EatKanji(t)
        [] mode = "8" -> Eat8(t, kanji, v)

\* dupAndToUpper: the second byte of a Kanji may look like a small letter.
DupAndToUpper(t, kanji) ==
  LET upper[p \in 1..Len(t) + 1] ==
        CASE p > Len(t) -> <<>>
          [] IdentifyMode(t, p, kanji) = "KANJI" -> SubSeq(t, p, p + 1) \o upper[p + 2]
          [] OTHER -> <<IF t[p] \in 97..122 THEN t[p] - 32 ELSE t[p]>> \o upper[p + 1]
  IN  upper[1]

-----------------------------------------------------------------------------
(* QRinput_check, which each new entry must pass.  The header FNC1FIRST has no
   data and so never does. *)
Acceptable(mode, data) ==
  /\ data # <<>>
  /\ CASE mode = "NUM" -> \A i \in DOMAIN data : data[i] \in Digit
       [] mode = "AN" -> \A i \in DOMAIN data : data[i] \in AnChar
       [] mode = "KANJI" -> /\ Len(data) % 2 = 0
                            /\ \A i \in 1..Len(data) \div 2 : KanjiWord(data[2 * i - 1], data[2 * i])
       [] mode = "FNC1SECOND" -> Len(data) = 1
       [] OTHER -> TRUE

Entry(mode, data) == [mode |-> mode, data |-> data]

\* QRinput_new2 and QRinput_newMQR, and which of their arguments they take.
NewInput(version, level, mqr) ==
  [version |-> version, level |-> level, mqr |-> mqr, fnc1 |-> 0, appid |-> 0, entries |-> <<>>]
ValidInput(version, level, mqr) ==
  IF mqr THEN version \in 1..MicroVersionMax /\ MicroECCLength(version, level) # 0
  ELSE version \in 0..VersionMax

\* QRinput_appendECIheader keeps the number as four bytes, the lowest first.
EciEntry(ecinum) == Entry("ECI", [i \in 1..4 |-> (ecinum \div 256^(i - 1)) % 256])
DecodeEci(data) == data[1] + 256 * data[2] + 65536 * data[3] + 16777216 * data[4]
EciWords(ecinum) == IF ecinum < 128 THEN 1 ELSE IF ecinum < 16384 THEN 2 ELSE 3

StructureHeaderSize == 20
MaxStructuredSymbols == 16

(* QRinput_estimateBitStreamSizeOfEntry: every chunk of a segment has a header.
   An ECI header is estimated as if each of its bytes had one too. *)
EstimateEntry(e, version) ==
  LET l == LengthIndicator(e.mode, version)
      size == Len(e.data)
      chunks == (size + 2^l - 1) \div 2^l
      payload == CASE e.mode = "NUM" -> EstimateBitsModeNum(size)
                   [] e.mode = "AN" -> EstimateBitsModeAn(size)
                   [] e.mode = "8" -> EstimateBitsMode8(size)
                   [] e.mode = "KANJI" -> EstimateBitsModeKanji(size)
                   [] e.mode = "ECI" -> 4 + 8 * EciWords(DecodeEci(e.data))
  IN  CASE e.mode = "STRUCTURE" -> StructureHeaderSize
        [] e.mode = "FNC1SECOND" -> 12
        [] OTHER -> payload + chunks * (4 + l)

EstimateBitStreamSize(entries, version) ==
  FoldLeft(LAMBDA bits, e : bits + EstimateEntry(e, version), 0, entries)

EstimateVersion(entries, level) ==
  LET from[prev \in 0..VersionMax] ==
        LET v == MinimumVersion((EstimateBitStreamSize(entries, prev) + 7) \div 8, level)
        IN  IF v > prev THEN from[v] ELSE v
  IN  from[0]

(* QRinput_lengthOfCode: how many bytes of a segment its bits hold.  Headers
   cannot be divided. *)
LengthOfCode(mode, version, bits) ==
  LET payload == bits - 4 - LengthIndicator(mode, version)
      rest == payload % 10
      size == CASE mode = "NUM" -> 3 * (payload \div 10) + (IF rest >= 7 THEN 2 ELSE IF rest >= 4 THEN 1 ELSE 0)
                [] mode = "AN" -> 2 * (payload \div 11) + (IF payload % 11 >= 6 THEN 1 ELSE 0)
                [] mode = "8" -> payload \div 8
                [] mode = "KANJI" -> 2 * (payload \div 13)
                [] OTHER -> 0
      most == MaximumWords(mode, version)
  IN  IF payload <= 0 THEN 0 ELSE IF most > 0 /\ size > most THEN most ELSE size

-----------------------------------------------------------------------------
(* Writing.  A bit stream is a sequence of 0 and 1, as in BitStream. *)
FromNum(bits, num) == [i \in 1..bits |-> (num \div 2^(bits - i)) % 2]
\* Numbers one after the other, as many bits for each.
FromNums(bits, nums) ==
  [i \in 1..bits * Len(nums) |->
     (nums[((i - 1) \div bits) + 1] \div 2^(bits - 1 - ((i - 1) % bits))) % 2]

EncodeModeNum(s) ==
  LET rest == Len(s) % 3
      d(i) == s[i] - 48
  IN  FromNums(10, [i \in 1..Len(s) \div 3 |-> 100 * d(3 * i - 2) + 10 * d(3 * i - 1) + d(3 * i)])
      \o CASE rest = 0 -> <<>>
           [] rest = 1 -> FromNum(4, d(Len(s)))
           [] rest = 2 -> FromNum(7, 10 * d(Len(s) - 1) + d(Len(s)))

(* Mutant of EncodeModeAn: the second character of a pair weighs 45. *)
EncodeModeAnSwapped(s) ==
  FromNums(11, [i \in 1..Len(s) \div 2 |-> AnTable[s[2 * i - 1]] + 45 * AnTable[s[2 * i]]])
  \o IF Len(s) % 2 = 1 THEN FromNum(6, AnTable[s[Len(s)]]) ELSE <<>>

EncodeModeAn(s) ==
  FromNums(11, [i \in 1..Len(s) \div 2 |-> 45 * AnTable[s[2 * i - 1]] + AnTable[s[2 * i]]])
  \o IF Len(s) % 2 = 1 THEN FromNum(6, AnTable[s[Len(s)]]) ELSE <<>>

EncodeMode8(s) == FromNums(8, s)

EncodeModeKanji(s) ==
  LET base(val) == IF val <= \h9ffc THEN val - \h8140 ELSE val - \hc140
      code(val) == \hc0 * (base(val) \div 256) + (base(val) % 256)
  IN  FromNums(13, [i \in 1..Len(s) \div 2 |-> code(256 * s[2 * i - 1] + s[2 * i])])

\* Three bytes: how many symbols, which of them, and the parity of their data.
EncodeModeStructure(s) == FromNum(4, 3) \o FromNum(4, s[2] - 1) \o FromNum(4, s[1] - 1) \o FromNum(8, s[3])

EncodeModeFNC1Second(s) == FromNum(4, 9) \o FromNum(8, s[1])

EncodeModeECI(s) ==
  LET ecinum == DecodeEci(s)
      words == EciWords(ecinum)
  IN  FromNum(4, 7) \o FromNum(8 * words, <<0, \h8000, \hc0000>>[words] + ecinum)

(* What stands before a segment.  A Micro QR code has no room for some modes,
   or for a mode at all in its first version. *)
ModeId(mode, mqr) ==
  IF mqr THEN CASE mode = "NUM" -> 0 [] mode = "AN" -> 1 [] mode = "8" -> 2 [] mode = "KANJI" -> 3
  ELSE CASE mode = "NUM" -> 1 [] mode = "AN" -> 2 [] mode = "8" -> 4 [] mode = "KANJI" -> 8
Header(mode, size, version, mqr) ==
  IF mqr THEN FromNum(version - 1, ModeId(mode, TRUE)) \o FromNum(MicroLengthIndicator(mode, version), size)
  ELSE FromNum(4, ModeId(mode, FALSE)) \o FromNum(LengthIndicator(mode, version), size)
HasMode(mode, version, mqr) ==
  mqr => CASE mode \in {"AN", "KANJI"} -> version >= 2
           [] mode = "8" -> version >= 3
           [] OTHER -> mode # "STRUCTURE"

\* QRinput_encodeBitStream: a segment whose length cannot be told is cut.
EncodeBitStream(e, version, mqr) ==
  LET size == Len(e.data)
      words == MaximumWords(e.mode, version)
      Chunk(s) ==
        CASE e.mode = "NUM" -> Header("NUM", Len(s), version, mqr) \o EncodeModeNum(s)
          [] e.mode = "AN" -> Header("AN", Len(s), version, mqr) \o EncodeModeAn(s)
          [] e.mode = "8" -> Header("8", Len(s), version, mqr) \o EncodeMode8(s)
          [] e.mode = "KANJI" -> Header("KANJI", Len(s) \div 2, version, mqr) \o EncodeModeKanji(s)
          [] e.mode = "STRUCTURE" -> EncodeModeStructure(s)
          [] e.mode = "ECI" -> EncodeModeECI(s)
          [] e.mode = "FNC1SECOND" -> EncodeModeFNC1Second(s)
      from[p \in 1..size] ==
        IF words = 0 \/ p + words > size THEN Chunk(SubSeq(e.data, p, size))
        ELSE Chunk(SubSeq(e.data, p, p + words - 1)) \o from[p + words]
  IN  from[1]

\* QRinput_createBitStream, with the streams put one after the other.
CreateBitStream(input) ==
  FlattenSeq([i \in DOMAIN input.entries |-> EncodeBitStream(input.entries[i], input.version, input.mqr)])

PadBytes(n) == FromNums(8, [i \in 1..n |-> IF i % 2 = 1 THEN 236 ELSE 17])

\* A terminator, zeros up to a whole byte, and alternating pad bytes.
AppendPaddingBit(bits, version, level) ==
  LET most == DataLength(version, level)
      free == 8 * most - Len(bits)
      words == (Len(bits) + 4 + 7) \div 8
  IN  IF free <= 4 THEN bits \o FromNum(free, 0)
      ELSE bits \o FromNum(8 * words - Len(bits), 0) \o PadBytes(most - words)

(* The same in a Micro QR code, whose terminator grows with its version and whose
   data may end with half a byte. *)
AppendPaddingBitMQR(bits, version, level) ==
  LET maxbits == MicroDataLengthBit(version, level)
      maxwords == maxbits \div 8
      terminator == 2 * version + 1
      free == maxbits - Len(bits)
      words == (Len(bits) + terminator + 7) \div 8
      half == IF maxbits > 8 * words /\ words = maxwords THEN maxbits - 8 * words ELSE 0
  IN  IF free <= terminator THEN bits \o FromNum(free, 0)
      ELSE bits \o FromNum(8 * words - Len(bits) + half, 0)
           \o IF words >= maxwords THEN <<>>
              ELSE PadBytes(maxwords - words) \o FromNum(maxbits - 8 * maxwords, 0)

\* BitStream_toByte: the bits left at the end are the lower ones of a last byte.
ToBytes(bits) ==
  [i \in 1..(Len(bits) + 7) \div 8 |->
     LET last == IF 8 * i <= Len(bits) THEN 8 * i ELSE Len(bits)
         value[k \in 8 * (i - 1)..last] == IF k = 8 * (i - 1) THEN 0 ELSE 2 * value[k - 1] + bits[k]
     IN  value[last]]
=============================================================================
