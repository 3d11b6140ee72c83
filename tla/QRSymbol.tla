------------------------------- MODULE QRSymbol -------------------------------
(***************************************************************************)
(* The square of a symbol (qrspec.c, mqrspec.c, FrameFiller of qrencode.c, *)
(* mask.c, mmask.c).  A square is a function of rows from 0, s[y][x] the   *)
(* module x of row y, dark (1) or light (0).  The code keeps a byte per    *)
(* module, whose high bits say what the module is for: in frames it is 0   *)
(* or 1 where the pattern is fixed, FormatArea where the mask is told, and *)
(* DataArea, or one more if dark, elsewhere.                               *)
(***************************************************************************)
EXTENDS QRInput, FiniteSetsExt

FormatArea == 2
DataArea == 4

Places(w) == 0..w - 1
SymbolWidth(version, mqr) == IF mqr THEN MicroWidth(version) ELSE Width(version)
Abs(a) == IF a < 0 THEN -a ELSE a
\* How many steps of a king m is from the centre c.
Distance(m, c) ==
  LET dx == Abs(m[1] - c[1])
      dy == Abs(m[2] - c[2])
  IN  IF dx > dy THEN dx ELSE dy
Around(c, n) == (c[1] - n..c[1] + n) \X (c[2] - n..c[2] + n)

Bit(condition) == IF condition THEN 1 ELSE 0

-----------------------------------------------------------------------------
(* Mutant of Markers: none lie on the timing lines. *)
MarkersInside(version) ==
  LET first == AlignmentPattern[version][1]
      d == AlignmentPattern[version][2] - first
      w == IF d < 0 THEN 2 ELSE (Width(version) - first) \div d + 2
      c(k) == first + (k - 1) * d
  IN  IF version < 2 THEN {}
      ELSE IF w = 2 THEN {<<first, first>>}
      ELSE {<<c(j), c(k)>> : j \in 1..w - 1, k \in 1..w - 1}

(* QRspec_putAlignmentPattern: the centres of the markers.  The table has the
   first two coordinates; the others follow at equal distances up to the edge,
   and 6 is one too, but not where finders are. *)
Markers(version) ==
  LET first == AlignmentPattern[version][1]
      d == AlignmentPattern[version][2] - first
      w == IF d < 0 THEN 2 ELSE (Width(version) - first) \div d + 2
      c(k) == first + (k - 1) * d
  IN  IF version < 2 THEN {}
      ELSE IF w = 2 THEN {<<first, first>>}
      ELSE {<<6, c(k)>> : k \in 1..w - 2} \cup {<<c(k), 6>> : k \in 1..w - 2}
           \cup {<<c(j), c(k)>> : j \in 1..w - 1, k \in 1..w - 1}

(* QRspec_createFrame: finders in three corners with a light ring around, the
   format area along them, the timing lines, the markers, the version from 7 on,
   twice, and the dark module. *)
CreateFrame(version) ==
  LET w == Width(version)
      finders == {<<3, 3>>, <<w - 4, 3>>, <<3, w - 4>>}
      markers == Markers(version)
      marked == UNION {Around(m, 2) : m \in markers}
      VersionBit(i) == (VersionPattern[version - 6] \div 2^i) % 2
      Kind(x, y) ==
        LET near == {c \in finders : Distance(<<x, y>>, c) <= 4}
        IN  IF near # {} THEN Bit(\E c \in near : Distance(<<x, y>>, c) \in {0, 1, 3})
            ELSE IF x = 8 /\ y = w - 8 THEN 1
            ELSE IF <<x, y>> \in marked THEN Bit(\A m \in markers : Distance(<<x, y>>, m) # 1)
            ELSE IF y = 6 THEN Bit(x % 2 = 0)
            ELSE IF x = 6 THEN Bit(y % 2 = 0)
            ELSE IF \/ y = 8 /\ (x <= 8 \/ x >= w - 8)
                    \/ x = 8 /\ (y <= 8 \/ y >= w - 8) THEN FormatArea
            ELSE IF version >= 7 /\ x \in 0..5 /\ y \in w - 11..w - 9 THEN VersionBit(3 * x + y - (w - 11))
            ELSE IF version >= 7 /\ y \in 0..5 /\ x \in w - 11..w - 9 THEN VersionBit(3 * y + x - (w - 11))
            ELSE DataArea
  IN  [y \in Places(w) |-> [x \in Places(w) |-> Kind(x, y)]]

\* MQRspec_createFrame: one finder, and the timing lines along two edges.
MicroCreateFrame(version) ==
  LET w == MicroWidth(version)
      Kind(x, y) ==
        LET d == Distance(<<x, y>>, <<3, 3>>)
        IN  IF d <= 4 THEN Bit(d \in {0, 1, 3})
            ELSE IF y = 0 THEN Bit(x % 2 = 0)
            ELSE IF x = 0 THEN Bit(y % 2 = 0)
            ELSE IF (y = 8 /\ x <= 8) \/ (x = 8 /\ y <= 8) THEN FormatArea
            ELSE DataArea
  IN  [y \in Places(w) |-> [x \in Places(w) |-> Kind(x, y)]]

-----------------------------------------------------------------------------
(* FrameFiller: a cursor that goes up and down in columns two modules wide. *)
FirstSeat(w) == [x |-> w - 1, y |-> w - 1, dir |-> -1, bit |-> -1]
Seat == [x : Int, y : Int, dir : {-1, 1}, bit : {-1, 0, 1}]

(* Mutant of NextSeat: the column of the vertical timing line is not skipped. *)
NextSeatThroughTiming(f, w, mqr) ==
  LET x == IF f.bit = 0 THEN f.x - 1 ELSE f.x + 1
      y == IF f.bit = 0 THEN f.y ELSE f.y + f.dir
      turned == y = -1 \/ y = w
  IN  IF f.bit = -1 THEN [f EXCEPT !.bit = 0]
      ELSE [x |-> IF turned THEN x - 2 ELSE x,
            y |-> IF turned THEN f.y ELSE y,
            dir |-> IF turned THEN -f.dir ELSE f.dir,
            bit |-> 1 - f.bit]

(* One pass of FrameFiller_next, which may land on a fixed module or outside.
   The timing lines of Micro QR codes are in nobody's way. *)
NextSeat(f, w, mqr) ==
  LET x == IF f.bit = 0 THEN f.x - 1 ELSE f.x + 1
      y == IF f.bit = 0 THEN f.y ELSE f.y + f.dir
      turned == y = -1 \/ y = w
      crosses == turned /\ ~mqr /\ x - 2 = 6
  IN  IF f.bit = -1 THEN [f EXCEPT !.bit = 0]
      ELSE [x |-> IF crosses THEN 5 ELSE IF turned THEN x - 2 ELSE x,
            y |-> IF crosses THEN IF f.dir < 0 THEN 9 ELSE w - 9
                  ELSE IF turned THEN f.y ELSE y,
            dir |-> IF turned THEN -f.dir ELSE f.dir,
            bit |-> 1 - f.bit]

(* FrameFiller_next: the next module that is not fixed, or a seat outside. *)
FrameFiller_next(frame, seat, w, mqr) ==
  LET from[f \in Seat] ==
        LET g == NextSeat(f, w, mqr)
        IN  IF g.x < 0 \/ f.bit = -1 \/ frame[g.y][g.x] >= DataArea THEN g ELSE from[g]
  IN  from[seat]

\* The loop over a code: as many modules as it has bits, from the highest.
Fill(frame, seat, bits, w, mqr) ==
  LET after[k \in 0..Len(bits)] ==
        IF k = 0 THEN [frame |-> frame, seat |-> seat]
        ELSE LET a == after[k - 1]
                 s == FrameFiller_next(a.frame, a.seat, w, mqr)
             IN  IF a.seat.x < 0 \/ s.x < 0 THEN [a EXCEPT !.seat.x = -1]
                 ELSE [frame |-> [a.frame EXCEPT ![s.y][s.x] = DataArea + bits[k]], seat |-> s]
  IN  after[Len(bits)]

-----------------------------------------------------------------------------
\* Mask_mask0 to Mask_mask7: where the mask turns a data module over.
Turns(mask, x, y) ==
  CASE mask = 0 -> (x + y) % 2 = 0
    [] mask = 1 -> y % 2 = 0
    [] mask = 2 -> x % 3 = 0
    [] mask = 3 -> (x + y) % 3 = 0
    [] mask = 4 -> ((y \div 2) + (x \div 3)) % 2 = 0
    [] mask = 5 -> ((x * y) % 2) + ((x * y) % 3) = 0
    [] mask = 6 -> (((x * y) % 2) + ((x * y) % 3)) % 2 = 0
    [] mask = 7 -> (((x * y) % 3) + ((x + y) % 2)) % 2 = 0

(* Mask_writeFormatInformation: which of the 15 bits, counted from the lowest,
   a module of the format area shows; each is there twice. *)
FormatBit(x, y, w) ==
  IF y = 8
  THEN IF x >= w - 8 THEN w - 1 - x ELSE IF x = 8 THEN 7 ELSE IF x = 7 THEN 8 ELSE 14 - x
  ELSE IF y >= w - 7 THEN y - w + 15 ELSE IF y = 7 THEN 6 ELSE y

\* Mask_maskN and Mask_writeFormatInformation on a frame whose data is placed.
MakeMask(frame, w, mask, level) ==
  [y \in Places(w) |-> [x \in Places(w) |->
     CASE frame[y][x] >= DataArea -> (frame[y][x] + Bit(Turns(mask, x, y))) % 2
       [] frame[y][x] = FormatArea -> (FormatInfo[level + 1][mask + 1] \div 2^FormatBit(x, y, w)) % 2
       [] OTHER -> frame[y][x]]]

(* The same in mmask.c, which has four of the masks and tells its own once. *)
MicroMask(mask) == <<1, 4, 6, 7>>[mask + 1]
MicroFormatBit(x, y) == IF x = 8 THEN y - 1 ELSE 15 - x
MicroMakeMask(frame, version, mask, level) ==
  LET w == MicroWidth(version)
      format == MicroFormatInfo(mask, version, level)
  IN  [y \in Places(w) |-> [x \in Places(w) |->
         CASE frame[y][x] >= DataArea -> (frame[y][x] + Bit(Turns(MicroMask(mask), x, y))) % 2
           [] frame[y][x] = FormatArea -> (format \div 2^MicroFormatBit(x, y)) % 2
           [] OTHER -> frame[y][x]]]

\* MMask_evaluateSymbol: the more dark modules on the two free edges, the better.
MicroScore(s, w) ==
  LET sum1 == Cardinality({x \in 1..w - 1 : s[w - 1][x] = 1})
      sum2 == Cardinality({y \in 1..w - 1 : s[y][w - 1] = 1})
  IN  IF sum1 <= sum2 THEN 16 * sum1 + sum2 ELSE 16 * sum2 + sum1

(* Mask_calcRunLength: the lengths of the runs of a line, light ones at odd
   places; a line that begins dark has a first run of -1. *)
RunLengths(line) ==
  LET runs[i \in 1..Len(line)] ==
        IF i = 1 THEN IF line[1] = 1 THEN <<-1, 1>> ELSE <<1>>
        ELSE LET r == runs[i - 1]
             IN  IF line[i] = line[i - 1] THEN [r EXCEPT ![Len(r)] = @ + 1] ELSE Append(r, 1)
  IN  runs[Len(line)]

(* Mutant of CalcN1N3: a finder pattern must be light on both sides. *)
CalcN1N3BothSides(r) ==
  LET long == {k \in 1..Len(r) : r[k] >= 5}
      finder == {k \in 4..Len(r) - 2 :
                   /\ k % 2 = 0 /\ r[k] % 3 = 0
                   /\ \A d \in {-2, -1, 1, 2} : 3 * r[k + d] = r[k]
                   /\ k = 4 \/ 3 * r[k - 3] >= 4 * r[k]
                   /\ k + 3 >= Len(r) \/ 3 * r[k + 3] >= 4 * r[k]}
  IN  MapThenSumSet(LAMBDA k : r[k] - 2, long) + 40 * Cardinality(finder)

(* Mask_calcN1N3: long runs, and dark-light-dark-light-dark as 1:1:3:1:1 with
   light, or the border, before or after. *)
CalcN1N3(r) ==
  LET long == {k \in 1..Len(r) : r[k] >= 5}
      finder == {k \in 4..Len(r) - 2 :
                   /\ k % 2 = 0 /\ r[k] % 3 = 0
                   /\ \A d \in {-2, -1, 1, 2} : 3 * r[k + d] = r[k]
                   /\ \/ k = 4 \/ 3 * r[k - 3] >= 4 * r[k]
                      \/ k + 3 >= Len(r) \/ 3 * r[k + 3] >= 4 * r[k]}
  IN  MapThenSumSet(LAMBDA k : r[k] - 2, long) + 40 * Cardinality(finder)

\* Mask_calcN2: squares of four modules of one colour.
CalcN2(s, w) ==
  3 * Cardinality({m \in (1..w - 1) \X (1..w - 1) :
                     s[m[2]][m[1]] + s[m[2]][m[1] - 1] + s[m[2] - 1][m[1]] + s[m[2] - 1][m[1] - 1]
                       \in {0, 4}})

\* Mask_mask: how far from half the modules are dark, in steps of five percent.
CalcN4(s, w) ==
  LET blacks == MapThenSumSet(LAMBDA y : Cardinality({x \in Places(w) : s[y][x] = 1}), Places(w))
      bratio == ((200 * blacks + w * w) \div (w * w)) \div 2
  IN  10 * (Abs(bratio - 50) \div 5)

\* Mask_evaluateSymbol and the part of Mask_mask before it.
Demerit(s, w) ==
  LET row(y) == RunLengths([x \in 1..w |-> s[y][x - 1]])
      column(x) == RunLengths([y \in 1..w |-> s[y - 1][x]])
  IN  CalcN4(s, w) + CalcN2(s, w)
      + MapThenSumSet(LAMBDA i : CalcN1N3(row(i)) + CalcN1N3(column(i)), 0..w - 1)
=============================================================================
