------------------------------- MODULE QRReader -------------------------------
(***************************************************************************)
(* How a phone reads symbols: the reference for QREncode.  It follows the  *)
(* standard the library's comments cite (JIS X0510) and shares with the    *)
(* encoder the tables of lengths and blocks, the alphabet, the field's     *)
(* products and the penalty for the share of dark modules, nothing else.   *)
(***************************************************************************)
EXTENDS QREncode

Side(s) == Cardinality(DOMAIN s)
IsMicro(s) == Side(s) < 21
VersionOf(s) == IF IsMicro(s) THEN (Side(s) - 9) \div 2 ELSE (Side(s) - 17) \div 4
Number(digits) ==       \* of bits, the highest first
  LET value[k \in 0..Len(digits)] == IF k = 0 THEN 0 ELSE 2 * value[k - 1] + digits[k]
  IN  value[Len(digits)]

-----------------------------------------------------------------------------
(* A word is followed by the remainder of the polynomial it is, times 2^n, by
   one of degree n; g is that one's number. *)
WithRemainder(word, g, n) ==
  LET top == word * 2^n
      \* what is left when powers from k on are gone
      r[k \in n..18] == IF k = 18 THEN top
                        ELSE IF (r[k + 1] \div 2^k) % 2 = 1 THEN Xor(r[k + 1], g * 2^(k - n)) ELSE r[k + 1]
  IN  top + r[n]

(* The format: two bits of level, or three of a Micro code's version and level,
   and the mask, under a fixed mask. *)
FormatWord(level, m) == Xor(WithRemainder(8 * <<1, 0, 3, 2>>[level + 1] + m, \h537, 10), \h5412)
MicroFormatWord(type, m) == Xor(WithRemainder(4 * type + m, \h537, 10), \h4445)

FormatUp(s, w) ==       \* beside the finder of the upper left corner
  [i \in 1..15 |-> IF i <= 8 THEN s[8][IF i <= 6 THEN i - 1 ELSE i]
                   ELSE s[IF i = 9 THEN 7 ELSE 15 - i][8]]
FormatApart(s, w) ==    \* beside the two others
  [i \in 1..15 |-> IF i <= 7 THEN s[w - i][8] ELSE s[8][w + i - 16]]
MicroFormat(s) == [i \in 1..15 |-> IF i <= 8 THEN s[8][i] ELSE s[16 - i][8]]

\* The levels and masks that the format of a symbol may tell; one, if it is right.
FormatsOf(s) ==
  LET w == Side(s)
      types == <<<<0>>, <<1, 2>>, <<3, 4>>, <<5, 6, 7>>>>
  IN  IF IsMicro(s)
      THEN {f \in (0..2) \X (0..3) : f[1] < Len(types[VersionOf(s)])
              /\ MicroFormatWord(types[VersionOf(s)][f[1] + 1], f[2]) = Number(MicroFormat(s))}
      ELSE {f \in (0..3) \X (0..7) : FormatWord(f[1], f[2]) = Number(FormatUp(s, w))
                                     /\ FormatUp(s, w) = FormatApart(s, w)}
FormatOf(s) == CHOOSE f \in FormatsOf(s) : TRUE

-----------------------------------------------------------------------------
\* The coordinates of markers: 6, and others at equal, even distances from the edge.
Coordinates(v) ==
  LET n == (v \div 7) + 2
      step == 2 * ((8 * v + 3 * n + 5) \div (4 * n - 4))
  IN  IF v = 1 THEN {} ELSE {6} \cup {4 * v + 10 - step * i : i \in 0..n - 2}

(* Where a symbol has no data: the corners with their format areas, the timing
   lines, around the markers, which keep clear of the corners, and at the version. *)
IsFunction(m, v) ==
  LET x == m[1]
      y == m[2]
      w == Width(v)
      \* the marker's coordinate that a line is near to
      near(i) == {c \in Coordinates(v) : Abs(i - c) <= 2}
      finders == {<<6, 6>>, <<6, w - 7>>, <<w - 7, 6>>}
  IN  \/ x <= 8 /\ (y <= 8 \/ y >= w - 8)
      \/ x >= w - 8 /\ y <= 8
      \/ x = 6 \/ y = 6
      \/ near(x) \X near(y) \notin SUBSET finders
      \/ v >= 7 /\ x <= 5 /\ y >= w - 11
      \/ v >= 7 /\ y <= 5 /\ x >= w - 11
IsMicroFunction(m) == m[1] = 0 \/ m[2] = 0 \/ (m[1] <= 8 /\ m[2] <= 8)

(* All modules but the vertical timing line, in pairs of columns from the right,
   upwards and downwards in turn, the right one of a pair first. *)
ReadingOrder(w) ==
  [i \in 1..w * (w - 1) |->
     LET pair == (i - 1) \div (2 * w)
         row == ((i - 1) % (2 * w)) \div 2
         right == IF w - 1 - 2 * pair > 6 \/ w < 21 THEN w - 1 - 2 * pair ELSE w - 2 - 2 * pair
     IN  <<right - ((i - 1) % 2), IF pair % 2 = 0 THEN w - 1 - row ELSE row>>]

\* The standard's conditions, i being the row and j the column.
Inverted(m, i, j) ==
  CASE m = 0 -> (i + j) % 2 = 0
    [] m = 1 -> i % 2 = 0
    [] m = 2 -> j % 3 = 0
    [] m = 3 -> (i + j) % 3 = 0
    [] m = 4 -> ((i \div 2) + (j \div 3)) % 2 = 0
    [] m = 5 -> (i * j) % 6 = 0
    [] m = 6 -> (((i * j) % 2) + ((i * j) % 3)) % 2 = 0
    [] m = 7 -> (((i + j) % 2) + ((i * j) % 3)) % 2 = 0

ReadBits(s) ==
  LET w == Side(s)
      m == IF IsMicro(s) THEN <<1, 4, 6, 7>>[FormatOf(s)[2] + 1] ELSE FormatOf(s)[2]
      fixed(p) == IF IsMicro(s) THEN IsMicroFunction(p) ELSE IsFunction(p, VersionOf(s))
      seats == SelectSeq(ReadingOrder(w), LAMBDA p : ~fixed(p))
      read(x, y) == (s[y][x] + Bit(Inverted(m, y, x))) % 2
  IN  [i \in DOMAIN seats |-> read(seats[i][1], seats[i][2])]

-----------------------------------------------------------------------------
(* The codes of a symbol, block by block, with the check bytes: the code of
   block b at turn t is the (t * n + b)-th of the data, or of the rest.  A Micro
   code is one block, whose last data code may have four bits. *)
ReadBlocks(s) ==
  LET v == VersionOf(s)
      level == FormatOf(s)[1]
      bs == ReadBits(s) \o <<>>
      words == [i \in 1..Len(bs) \div 8 |-> Number(SubSeq(bs, 8 * i - 7, 8 * i))] \o <<>>
      spec == EccSpec(v, level)
      n == spec.blocks1 + spec.blocks2
      size(b) == IF b <= spec.blocks1 THEN spec.data1 ELSE spec.data2
      \* how many blocks before b have a byte more than the first
      longer(b) == IF b > spec.blocks1 + 1 THEN b - 1 - spec.blocks1 ELSE 0
      databits == MicroDataLengthBit(v, level)
      half == databits % 8
  IN  IF IsMicro(s)
      THEN <<[data |-> SubSeq(words, 1, databits \div 8)
                       \o IF half = 0 THEN <<>> ELSE <<Number(SubSeq(bs, databits - half + 1, databits))>>,
              ecc |-> [i \in 1..MicroECCLength(v, level) |->
                         Number(SubSeq(bs, databits + 8 * i - 7, databits + 8 * i))]]>>
      ELSE [b \in 1..n |->
              [data |-> [t \in 1..size(b) |->
                           words[IF t <= spec.data1 THEN (t - 1) * n + b ELSE n * spec.data1 + longer(b) + 1]],
               ecc |-> [t \in 1..spec.ecc |-> words[DataLength(v, level) + (t - 1) * n + b]]]]

\* What a reader is told besides characters: a character set, or an application.
EciMark(num) == 1000 + num
Fnc1Mark(appid) == -1 - appid

\* How many bits tell the number of characters, and how many the characters take.
LengthBits(mode, v, micro) ==
  LET step == IF v <= 9 THEN 0 ELSE IF v <= 26 THEN 1 ELSE 2
  IN  CASE mode = "NUM" -> IF micro THEN v + 2 ELSE 10 + 2 * step
        [] mode = "AN" -> IF micro THEN v + 1 ELSE 9 + 2 * step
        [] mode = "8" -> IF micro THEN v + 1 ELSE <<8, 16, 16>>[step + 1]
        [] mode = "KANJI" -> IF micro THEN v ELSE 8 + 2 * step
CharBits(mode, n) ==
  CASE mode = "NUM" -> 10 * (n \div 3) + <<0, 4, 7>>[(n % 3) + 1]
    [] mode = "AN" -> 11 * (n \div 2) + 6 * (n % 2)
    [] mode = "8" -> 8 * n
    [] mode = "KANJI" -> 13 * n

(* Of a stream b: the number n bits from p on tell, the mode of the segment there,
   and n characters of a mode from p on. *)
ValueAt(b, p, n) == Number(SubSeq(b, p, p + n - 1))
ModeBits(v, micro) == IF micro THEN v - 1 ELSE 4
ModeAt(b, p, v, micro) ==
  IF ~micro THEN <<"NUM", "AN", "SET", "8", "FNC1", "", "ECI", "KANJI", "FNC1SECOND">>[ValueAt(b, p, 4)]
  ELSE <<"NUM", "AN", "8", "KANJI">>[ValueAt(b, p, v - 1) + 1]
CharsAt(b, mode, p, n) ==
  CASE mode = "NUM" -> [k \in 1..n |->
         LET g == (k - 1) \div 3
             here == IF n - 3 * g >= 3 THEN 3 ELSE n - 3 * g
             group == ValueAt(b, p + 10 * g, <<4, 7, 10>>[here])
         IN  48 + ((group \div 10^(here - 1 - ((k - 1) % 3))) % 10)]
    [] mode = "AN" -> [k \in 1..n |->
         LET g == (k - 1) \div 2
             pair == k % 2 = 0 \/ k < n
             group == ValueAt(b, p + 11 * g, IF pair THEN 11 ELSE 6)
         IN  AnOrder[1 + (IF k % 2 = 0 \/ ~pair THEN group % 45 ELSE group \div 45)]]
    [] mode = "8" -> [k \in 1..n |-> ValueAt(b, p + 8 * (k - 1), 8)]
    [] mode = "KANJI" -> [k \in 1..2 * n |->
         LET code == ValueAt(b, p + 13 * ((k - 1) \div 2), 13)
             high == (code \div 192) + 129
         IN  IF k % 2 = 0 THEN (code % 192) + 64 ELSE IF high > 159 THEN high + 64 ELSE high]

\* What the segment at p says, and how many bits it takes.
SegmentAt(b, p, v, micro) ==
  LET mode == ModeAt(b, p, v, micro)
      q == p + ModeBits(v, micro)
      l == LengthBits(mode, v, micro)
      n == ValueAt(b, q, l)
      Says(text, size) == [text |-> text, bits |-> ModeBits(v, micro) + size]
  IN  CASE mode = "FNC1SECOND" -> Says(<<Fnc1Mark(ValueAt(b, q, 8))>>, 8)
        [] mode = "ECI" -> IF b[q] = 0 THEN Says(<<EciMark(ValueAt(b, q, 8))>>, 8)
                           ELSE IF b[q + 1] = 0 THEN Says(<<EciMark(ValueAt(b, q + 2, 14))>>, 16)
                           ELSE Says(<<EciMark(ValueAt(b, q + 3, 21))>>, 24)
        [] OTHER -> Says(CharsAt(b, mode, q + l, n), l + CharBits(mode, n))

(* The segments from the p-th bit on, up to the terminator or the end; one that
   goes beyond the end is none. *)
EndsAt(b, p, v, micro) ==
  LET terminator == IF micro THEN 2 * v + 1 ELSE 4
  IN  \/ p + terminator > Len(b) + 1
      \/ ValueAt(b, p, terminator) = 0
      \/ p + SegmentAt(b, p, v, micro).bits \notin p + 1..Len(b) + 1
Decode(b, first, v, micro) ==
  LET from[p \in 1..Len(b) + 1] ==
        IF EndsAt(b, p, v, micro) THEN <<>>
        ELSE SegmentAt(b, p, v, micro).text \o from[p + SegmentAt(b, p, v, micro).bits]
  IN  from[first]

CodesToBits(data, half) ==      \* the last one of half bits, if that is not 0
  IF half = 0 THEN FromNums(8, data)
  ELSE FromNums(8, SubSeq(data, 1, Len(data) - 1)) \o FromNum(half, data[Len(data)])
AllData(read) == FlattenSeq([b \in DOMAIN read |-> read[b].data])
DataBits(s) ==
  CodesToBits(AllData(ReadBlocks(s)),
              IF IsMicro(s) THEN MicroDataLengthBit(VersionOf(s), FormatOf(s)[1]) % 8 ELSE 0)

(* A symbol of a set begins with a mode of its own, with which symbol it is, how
   many there are, and the parity of all their data. *)
HeaderIn(b, micro) ==
  LET number(p, n) == Number(SubSeq(b, p, p + n - 1))
  IN  IF ~micro /\ number(1, 4) = 3
      THEN <<[index |-> number(5, 4), last |-> number(9, 4), parity |-> number(13, 8)]>> ELSE <<>>
SetHeader(s) == HeaderIn(DataBits(s), IsMicro(s))

TextIn(b, v, micro) == Decode(b, IF HeaderIn(b, micro) = <<>> THEN 1 ELSE 21, v, micro)
ReadText(s) == TextIn(DataBits(s), VersionOf(s), IsMicro(s))

-----------------------------------------------------------------------------
(* The value at 2^i of the polynomial whose coefficients are a code, the highest
   first: each is added to the value so far, times 2^i. *)
Syndrome(code, i) ==
  LET x == Power(i)
      value[n \in 0..Len(code)] == IF n = 0 THEN 0 ELSE Xor(Product(value[n - 1], x), code[n])
  IN  value[Len(code)]

-----------------------------------------------------------------------------
(* What a call asks for, as a reader should get it.  Where case does not matter
   small letters become capitals, but not in the second byte of a Kanji: the one
   after an odd number of bytes that can be a first byte. *)
Lead == (129..159) \cup (224..235)
IsSecond(t, i) ==
  LET before == {k \in 1..i - 1 : \A j \in k..i - 1 : t[j] \in Lead}
  IN  Cardinality(before) % 2 = 1
Capitals(t, kanji) ==
  [i \in DOMAIN t |-> IF t[i] \in 97..122 /\ ~(kanji /\ IsSecond(t, i)) THEN t[i] - 32 ELSE t[i]]

PartText(part) ==
  CASE part.op = "append" -> part.data
    [] part.op = "eci" -> <<EciMark(part.num)>>
    [] OTHER -> <<>>
\* The last application counts, and comes before the rest.
PartsText(parts) ==
  LET second == {i \in 1..Len(parts) : parts[i].op = "fnc2"}
  IN  (IF second = {} THEN <<>> ELSE <<Fnc1Mark(parts[Max(second)].appid)>>)
      \o FlattenSeq([i \in 1..Len(parts) |-> PartText(parts[i])])

Asked ==
  CASE call.op = "string" -> IF call.casesensitive THEN call.text ELSE Capitals(call.text, call.kanji)
    [] call.op = "data" -> call.text
    [] call.op = "input" -> PartsText(call.parts)
    [] call.op = "set" -> FlattenSeq([i \in DOMAIN call.inputs |-> PartsText(call.inputs[i])])

XorAll(t) ==
  LET of[a \in 1..Len(t), b \in 1..Len(t)] ==
        IF a = b THEN t[a] ELSE LET m == (a + b) \div 2 IN Xor(of[a, m], of[m + 1, b])
  IN  of[1, Len(t)]

Made == stage = "done" /\ codes # <<>>

-----------------------------------------------------------------------------
(* What a text takes in one segment of the narrowest mode all its characters are
   in, with its header; a Micro symbol may lack the mode. *)
PlainMode(t) ==
  IF \A i \in DOMAIN t : t[i] \in Digit THEN "NUM"
  ELSE IF \A i \in DOMAIN t : t[i] \in AnChar THEN "AN" ELSE "8"
SegmentBits(mode, n, v, micro) ==
  (IF micro THEN v - 1 ELSE 4) + LengthBits(mode, v, micro) + CharBits(mode, n)
MicroModes(v) == IF v = 1 THEN {"NUM"} ELSE IF v = 2 THEN {"NUM", "AN"} ELSE {"NUM", "AN", "8", "KANJI"}

\* What is asked for in words: the data of a call, and the segments it wants.
PartBits(part, v) ==
  CASE part.op = "append" ->
         SegmentBits(part.mode, IF part.mode = "KANJI" THEN Len(part.data) \div 2 ELSE Len(part.data), v, call.mqr)
    [] part.op = "eci" -> 4 + (IF part.num < 128 THEN 8 ELSE 16)
    [] part.op = "fnc2" -> 12
AskedBits(v) ==
  CASE call.op = "string" -> SegmentBits(PlainMode(Asked), Len(Asked), v, call.mqr)
    [] call.op = "data" -> SegmentBits("8", Len(Asked), v, call.mqr)
    [] call.op = "input" -> MapThenSumSet(LAMBDA i : PartBits(call.parts[i], v), DOMAIN call.parts)
Room(v) == IF call.mqr THEN MicroDataLengthBit(v, call.level) ELSE 8 * DataLength(v, call.level)

(* What no symbol can be made of. *)
PartRefused(part) ==
  CASE part.op = "append" -> ~Acceptable(part.mode, part.data)
    [] part.op = "eci" -> part.num > 999999
    [] part.op = "fnc1" -> TRUE
    [] part.op = "fnc2" -> call.mqr
Malformed ==
  LET lacks(mode) == call.mqr /\ mode \notin MicroModes(call.version)
      noVersion == IF call.mqr THEN call.version \notin 1..4 \/ call.level > <<0, 1, 1, 2>>[call.version]
                   ELSE call.version \notin 0..40
  IN  CASE call.op \in {"string", "data"} ->
             \/ call.text = <<>> \/ noVersion \/ (call.structured /\ call.version = 0)
             \/ lacks(IF call.op = "data" THEN "8" ELSE PlainMode(Asked))
        [] call.op = "input" ->
             \/ noVersion \/ (call.structured /\ call.mqr)
             \/ \E i \in DOMAIN call.parts :
                  LET part == call.parts[i]
                  IN  PartRefused(part) \/ (part.op = "append" /\ lacks(part.mode))
        [] call.op = "set" -> \/ noVersion \/ Len(call.inputs) > 16
                              \/ \E n \in DOMAIN call.inputs : \E i \in DOMAIN call.inputs[n] :
                                   PartRefused(call.inputs[n][i])
TooLarge ==
  CASE call.op = "set" -> FALSE
    [] call.op \in {"string", "data", "input"} /\ call.structured ->
         \* sixteen symbols of bytes, each with the header of the set and one of its own
         Len(Asked) > 16 * ((Room(call.version) - 20 - SegmentBits("8", 0, call.version, FALSE)) \div 8)
    [] OTHER -> AskedBits(IF call.mqr THEN call.version ELSE 40) > Room(IF call.mqr THEN call.version ELSE 40)

(* A Kanji segment is estimated with a header for every 2^l of its bytes, though a
   header counts 2^l pairs: one longer than that may be found too long for what a
   symbol of a set has left and yet have no rest to cut off (qrinput.c:943-948,
   1025-1029, 1557-1563). *)
KanjiUncut ==
  /\ call.structured /\ rest = <<>> /\ at \in DOMAIN input.entries
  /\ input.entries[at].mode = "KANJI"
  /\ Len(input.entries[at].data) > 2^LengthIndicator("KANJI", input.version)

(* A call fails only if it is malformed, with EINVAL, or if what it asks for is
   more than plain segments of the largest version it allows would hold, with
   ERANGE, but for such a Kanji segment, with EINVAL, and, without an errno, a set
   of an input whose version is left open, or of none: the rounds of splitting, of
   converting with a growing version, of cutting a set and of filling the frame
   always succeed otherwise, and no cursor leaves the frame before all codes are
   placed (qrinput.c:1155-1180, 1597-1680, qrencode.c:464-545, 547-627, 800-830). *)
FailsOnlyWhenTooLarge ==
  stage = "failed" => \/ errno = EINVAL /\ (Malformed \/ KanjiUncut)
                      \/ errno = ERANGE /\ TooLarge
                      \/ errno = "" /\ call.structured /\ call.version = 0
                      \/ errno = "" /\ call.op = "set" /\ call.inputs = <<>>

(* The last data code of Micro versions 1 and 3 is of four bits, and the loop that
   places them begins one bit too high (qrencode.c:588): unless it is zero the
   symbol shows half of it, and does not say what was asked for. *)
HalfByte ==
  LET padded == AppendPaddingBitMQR(CreateBitStream(input), input.version, input.level)
  IN  Number(SubSeq(padded, Len(padded) - 3, Len(padded)))
HalfLost == input.mqr /\ input.version \in {1, 3} /\ HalfByte # 0

(* A reader gets what was asked for: for any call that does not fail, what its
   symbols hold is, one after the other, the data it was given, however that was
   divided into segments, chunks, blocks and symbols, and no block has an error
   (qrencode.c:630-900); but for the Micro symbols whose last half byte is lost. *)
FoundWhole(read) ==
  \A b \in DOMAIN read : \A i \in 0..Len(read[b].ecc) - 1 :
    Syndrome((read[b].data \o read[b].ecc) \o <<>>, i) = 0
ReadsBack ==
  Made => IF HalfLost THEN Last(ReadBlocks(codes[1])[1].data) = HalfByte \div 2
          ELSE /\ FlattenSeq([i \in DOMAIN codes |-> ReadText(codes[i])]) = Asked
               /\ \A i \in DOMAIN codes : FoundWhole(ReadBlocks(codes[i]))

(* The symbols of a structured set say which they are, how many there are, and
   the parity of the data before it was cut, and all have the level asked for and,
   when they were cut, the version, or the next one for a Kanji segment that is
   estimated with a header too many; a symbol alone does not say it is one of a set
   (qrinput.c:322-340, 943-948, 1597-1680, 1682-1705). *)
InSet == call.op = "set" \/ call.structured
SetIsWhole ==
  Made => IF ~InSet THEN Len(codes) = 1 /\ SetHeader(codes[1]) = <<>>
          ELSE \A i \in DOMAIN codes :
                 /\ SetHeader(codes[i]) =
                      <<[index |-> i - 1, last |-> Len(codes) - 1, parity |-> XorAll(Asked)]>>
                 /\ call.op # "set" =>
                      \/ VersionOf(codes[i]) = call.version
                      \/ /\ VersionOf(codes[i]) = call.version + 1
                         /\ Len(ReadText(codes[i])) > 2^LengthIndicator("KANJI", call.version)
                 /\ FormatOf(codes[i])[1] = call.level

(* Every block, data and check bytes, is a word of the Reed-Solomon code when all
   are fed: it vanishes at as many powers of 2 as it has check bytes, so that a
   reader finds no error in it (rscode.c:99-210, 301-327, qrencode.c:63-155,
   200-285). *)
BlocksAreCodewords ==
  stage = "frame" => \A b \in DOMAIN blocks : \A i \in 0..Len(blocks[b].ecc) - 1 :
                       Syndrome(blocks[b].data \o blocks[b].ecc, i) = 0

(* A symbol is no larger than it must be: its version is the one asked for, or the
   smallest from there on that holds its segments; and the segments of a text
   whose version is left open need no larger one than the text in a single
   segment (qrinput.c:979-995, 1155-1180, split.c:83-242).  The estimate of an
   ECI header is too high, so that such a symbol may be larger. *)
SymbolIsSmall ==
  Made /\ ~call.mqr /\ ~InSet =>
    LET v == VersionOf(codes[1])
        hasEci == \E i \in DOMAIN input.entries : input.entries[i].mode = "ECI"
        asked == IF call.version = 0 THEN 1 ELSE call.version
        bitsAt(u) == Len(CreateBitStream([input EXCEPT !.version = u]))
    IN  /\ v >= asked
        /\ v > asked /\ ~hasEci => bitsAt(v - 1) > Room(v - 1)
        /\ call.op = "string" /\ call.version = 0 /\ v > 1 => AskedBits(v - 1) > Room(v - 1)

-----------------------------------------------------------------------------
(* The penalty of the standard: for each line, one for every module from the fifth
   on in a row of one colour and two for the row, and 40 for every finder pattern
   with light, or the quiet zone, on one side; three for every square of one
   colour. *)
LinePenalty(line) ==
  LET n == Len(line)
      five(i) == \A k \in 1..4 : line[i + k] = line[i]
      starts(i) == five(i) /\ (i = 1 \/ line[i - 1] # line[i])
      fives == {i \in 1..n - 4 : five(i)}
      \* dark from a to b and light around
      run(a, b, dark) == /\ \A k \in a..b : line[k] = dark
                         /\ a = 1 \/ line[a - 1] # dark
                         /\ b = n \/ line[b + 1] # dark
      light(a, b) == \A k \in a..b : k \in 1..n => line[k] = 0
      finder(i, u) == /\ i + 7 * u - 1 <= n
                      /\ run(i, i + u - 1, 1) /\ run(i + u, i + 2 * u - 1, 0)
                      /\ run(i + 2 * u, i + 5 * u - 1, 1)
                      /\ run(i + 5 * u, i + 6 * u - 1, 0) /\ run(i + 6 * u, i + 7 * u - 1, 1)
                      /\ light(i - 4 * u, i - 1) \/ light(i + 7 * u, i + 11 * u - 1)
  IN  Cardinality(fives) + 2 * Cardinality({i \in fives : starts(i)})
      + 40 * Cardinality({p \in (1..n - 6) \X (1..n \div 7) : finder(p[1], p[2])})
Penalty(s, w) ==
  LET squares == {m \in Places(w - 1) \X Places(w - 1) :
                    Cardinality({s[m[2] + dy][m[1] + dx] : dx \in 0..1, dy \in 0..1}) = 1}
      row(y) == [x \in 1..w |-> s[y][x - 1]]
      column(x) == [y \in 1..w |-> s[y - 1][x]]
  IN  MapThenSumSet(LAMBDA i : LinePenalty(row(i)) + LinePenalty(column(i)), Places(w))
      + 3 * Cardinality(squares) + CalcN4(s, w)

\* Of a Micro symbol, the merit: sixteen for each dark module of the edge with fewer.
Merit(s, w) ==
  LET below == Cardinality({x \in 1..w - 1 : s[w - 1][x] = 1})
      right == Cardinality({y \in 1..w - 1 : s[y][w - 1] = 1})
  IN  IF below <= right THEN 16 * below + right ELSE 16 * right + below

(* No mask that is tried is better than the one kept (mask.c:189-331, mmask.c:
   129-178): after each round the symbol kept has no higher penalty than the one
   tried, or no lower merit. *)
MaskIsBest ==
  [][mask' = mask + 1 =>
       LET w == SymbolWidth(input.version, input.mqr)
       IN  IF input.mqr THEN Merit(symbol', w) >= Merit(masked, w)
           ELSE Penalty(symbol', w) <= Penalty(masked, w)]_vars

(* Every initial frame, for all versions, of both kinds and however often the
   caches are emptied, has fixed modules just where a reader expects them, free
   ones for all codes and remainder bits of every level, and the version twice
   from 7 on; the blocks of each level hold its data and check bytes (qrspec.c:
   60-99, 190-258, 290-562, mqrspec.c:45-81, 131-280). *)
FrameHasRoom ==
  stage = "done" /\ call.op = "frame" =>
    LET v == call.version
        w == SymbolWidth(v, call.mqr)
        all == Places(w) \X Places(w)
        free == {m \in all : frame[m[2]][m[1]] = DataArea}
        types == <<<<0>>, <<1, 2>>, <<3, 4>>, <<5, 6, 7>>>>
    IN  /\ Side(frame) = w
        /\ \A m \in all : (m \in free) = ~(IF call.mqr THEN IsMicroFunction(m) ELSE IsFunction(m, v))
        /\ IF call.mqr
           THEN \A level \in 0..Len(types[v]) - 1 :
                  /\ Cardinality(free) = MicroDataLengthBit(v, level) + 8 * MicroECCLength(v, level)
                  /\ \A k \in 0..3 : MicroFormatInfo(k, v, level) = MicroFormatWord(types[v][level + 1], k)
           ELSE /\ Cardinality(free) = 8 * Words(v) + Remainder(v)
                /\ \A level \in 0..3 :
                     LET spec == EccSpec(v, level)
                         n == spec.blocks1 + spec.blocks2
                     IN  /\ spec.blocks1 * spec.data1 + spec.blocks2 * spec.data2 = DataLength(v, level)
                         /\ n * spec.ecc = ECCLength(v, level)
                /\ v >= 7 => LET told == WithRemainder(v, \h1f25, 12)
                                 bit(i) == (told \div 2^i) % 2
                             IN  \A i \in 0..17 : /\ frame[w - 11 + (i % 3)][i \div 3] = bit(i)
                                                  /\ frame[i \div 3][w - 11 + (i % 3)] = bit(i)
=============================================================================
