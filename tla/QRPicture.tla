------------------------------- MODULE QRPicture -------------------------------
(***************************************************************************)
(* Pictures of symbols: the bitmap of createBarcode (QRGenerator.cpp) and  *)
(* what the library's tool writes (qrenc.c).  A picture keeps the way its  *)
(* format tells where the dark places are: offsets of bytes, bits of bytes,*)
(* squares counted from below or from above, colours switched on and off   *)
(* between columns of text, or characters.                                 *)
(***************************************************************************)
EXTENDS QRSymbol

OUT_FILE_PIXEL_PRESCALER == 8

DarkModules(s) == {m \in (DOMAIN s) \X (DOMAIN s) : s[m[2]][m[1]] = 1}

(* createBarcode: three bytes of a pixel, rows from the top on filled up to a
   multiple of four bytes.  offsets are those of the first bytes of dark pixels,
   whose three bytes are written together. *)
Bitmap(s) ==
  LET unWidth == Cardinality(DOMAIN s)
      bytes == unWidth * OUT_FILE_PIXEL_PRESCALER * 3
      unWidthAdjusted == IF bytes % 4 = 0 THEN bytes ELSE (bytes \div 4 + 1) * 4
      scale == 0..OUT_FILE_PIXEL_PRESCALER - 1
      pDestData(m) == unWidthAdjusted * m[2] * OUT_FILE_PIXEL_PRESCALER + 3 * OUT_FILE_PIXEL_PRESCALER * m[1]
  IN  [type |-> "BMP",
       biWidth |-> unWidth * OUT_FILE_PIXEL_PRESCALER,
       biHeight |-> -(unWidth * OUT_FILE_PIXEL_PRESCALER),
       offsets |-> UNION {{pDestData(m) + n * 3 + unWidthAdjusted * l : n \in scale, l \in scale} : m \in DarkModules(s)}]

(* Mutant of WritePNG: the margin is a whole number of bytes. *)
WritePNGFromByte(s, margin, size) ==
  LET width == Cardinality(DOMAIN s)
      realwidth == (width + margin * 2) * size
      start == 8 * ((margin * size) \div 8)
      Row(y) ==
        LET dark == UNION {start + x * size..start + x * size + size - 1 : x \in {i \in DOMAIN s : s[y][i] = 1}}
        IN  [q \in 0..(realwidth + 7) \div 8 - 1 |->
               255 - MapThenSumSet(LAMBDA k : 2^(7 - (k % 8)), {k \in dark : k \div 8 = q})]
      blank == [q \in 0..(realwidth + 7) \div 8 - 1 |-> 255]
  IN  [type |-> "PNG", realwidth |-> realwidth,
       rows |-> [Y \in 0..realwidth - 1 |->
                   LET y == Y - margin * size
                   IN  IF y < 0 \/ y >= width * size THEN blank ELSE Row(y \div size)]]

(* writePNG: a bit for each pixel, the highest of a byte first, 1 for white.  The
   cursor begins in the byte where the margin ends, below as many bits as the
   margin leaves there, and turns bits over. *)
WritePNG(s, margin, size) ==
  LET width == Cardinality(DOMAIN s)
      realwidth == (width + margin * 2) * size
      start == margin * size
      Row(y) ==
        LET dark == UNION {start + x * size..start + x * size + size - 1 : x \in {i \in DOMAIN s : s[y][i] = 1}}
        IN  [q \in 0..(realwidth + 7) \div 8 - 1 |->
               255 - MapThenSumSet(LAMBDA k : 2^(7 - (k % 8)), {k \in dark : k \div 8 = q})]
      rows == [y \in DOMAIN s |-> Row(y)]
      blank == [q \in 0..(realwidth + 7) \div 8 - 1 |-> 255]
  IN  [type |-> "PNG", realwidth |-> realwidth,
       rows |-> [Y \in 0..realwidth - 1 |->
                   LET y == Y - margin * size
                   IN  IF y < 0 \/ y >= width * size THEN blank ELSE rows[y \div size]]]

\* writeEPS: unit squares, counted from below, under a scale.
WriteEPS(s, margin, size) ==
  LET width == Cardinality(DOMAIN s)
  IN  [type |-> "EPS", realwidth |-> (width + margin * 2) * size, scale |-> size,
       points |-> {<<margin + m[1], margin + width - m[2] - 1>> : m \in DarkModules(s)}]

\* writeSVG: rectangles, counted from above.
WriteSVG(s, margin, size) ==
  [type |-> "SVG", realwidth |-> (Cardinality(DOMAIN s) + margin * 2) * size,
   rects |-> {[x |-> (m[1] + margin) * size, y |-> (m[2] + margin) * size, side |-> size] : m \in DarkModules(s)}]

TwoSpaces == "  "

(* writeANSI: lines of pairs of spaces, with a colour told where it changes.  The
   size is 1. *)
WriteANSI(s, margin) ==
  LET width == Cardinality(DOMAIN s)
      pairs(n) == [i \in 1..n |-> TwoSpaces]
      colour(bit) == IF bit = 1 THEN "black" ELSE "white"
      last(row, x) == IF x = 0 THEN 0 ELSE row[x - 1]
      Piece(row, x) == IF row[x] # last(row, x) THEN <<colour(row[x]), TwoSpaces>> ELSE <<TwoSpaces>>
      Line(row) == <<"white">> \o pairs(margin) \o FlattenSeq([i \in 1..width |-> Piece(row, i - 1)])
                   \o (IF last(row, width) # 0 THEN <<"white">> ELSE <<>>) \o pairs(margin) \o <<"reset">>
      blank == [i \in 1..margin |-> <<"white">> \o pairs(width + 2 * margin) \o <<"reset">>]
  IN  [type |-> "ANSI", lines |-> blank \o [i \in 1..width |-> Line(s[i - 1])] \o blank]

\* writeASCII: two characters for a module.
WriteASCII(s, margin, invert) ==
  LET width == Cardinality(DOMAIN s)
      black == IF invert THEN " " ELSE "#"
      white == IF invert THEN "#" ELSE " "
      fill(n) == [i \in 1..n |-> white]
      blank == [i \in 1..margin |-> fill(2 * (width + 2 * margin))]
      Line(row) == fill(2 * margin) \o [i \in 1..2 * width |-> IF row[(i - 1) \div 2] = 1 THEN black ELSE white]
                   \o fill(2 * margin)
  IN  [type |-> IF invert THEN "ASCIIi" ELSE "ASCII",
       lines |-> blank \o [i \in 1..width |-> Line(s[i - 1])] \o blank]

\* The switch of qrencode and qrencodeStructured.
Write(type, s, margin, size) ==
  CASE type = "PNG" -> WritePNG(s, margin, size)
    [] type = "EPS" -> WriteEPS(s, margin, size)
    [] type = "SVG" -> WriteSVG(s, margin, size)
    [] type \in {"ANSI", "ANSI256"} -> WriteANSI(s, margin)
    [] type = "ASCII" -> WriteASCII(s, margin, FALSE)
    [] type = "ASCIIi" -> WriteASCII(s, margin, TRUE)

-----------------------------------------------------------------------------
(* What a viewer of a picture sees: its width, its height, and its dark places,
   columns from the left and rows from the top. *)
Seen(p) ==
  CASE p.type = "BMP" ->
         LET stride == ((3 * p.biWidth + 3) \div 4) * 4
             \* a negative height says that the first row is the top
             row(o) == IF p.biHeight < 0 THEN o \div stride ELSE p.biHeight - 1 - (o \div stride)
         IN  [width |-> p.biWidth, height |-> Abs(p.biHeight),
              dark |-> {<<(o % stride) \div 3, row(o)>> : o \in p.offsets}]
    [] p.type = "PNG" ->
         [width |-> p.realwidth, height |-> Cardinality(DOMAIN p.rows),
          dark |-> {m \in (0..p.realwidth - 1) \X (DOMAIN p.rows) :
                      (p.rows[m[2]][m[1] \div 8] \div 2^(7 - (m[1] % 8))) % 2 = 0}]
    [] p.type = "EPS" ->
         [width |-> p.realwidth, height |-> p.realwidth,
          dark |-> UNION {{<<p.scale * m[1] + i, p.realwidth - 1 - (p.scale * m[2] + j)>> :
                             i \in 0..p.scale - 1, j \in 0..p.scale - 1} : m \in p.points}]
    [] p.type = "SVG" ->
         [width |-> p.realwidth, height |-> p.realwidth,
          dark |-> UNION {(r.x..r.x + r.side - 1) \X (r.y..r.y + r.side - 1) : r \in p.rects}]
    [] p.type = "ANSI" ->
         LET spaces(line) == {k \in DOMAIN line : line[k] = TwoSpaces}
             told(line, k) == CHOOSE c \in 1..k : /\ line[c] # TwoSpaces /\ \A d \in c + 1..k : line[d] = TwoSpaces
             column(line, k) == 2 * Cardinality({c \in spaces(line) : c < k})
         IN  [width |-> 2 * Cardinality(spaces(p.lines[1])), height |-> Len(p.lines),
              dark |-> UNION {UNION {{<<column(p.lines[l], k), l - 1>>, <<column(p.lines[l], k) + 1, l - 1>>} :
                                       k \in {c \in spaces(p.lines[l]) :
                                                p.lines[l][told(p.lines[l], c)] = "black"}} : l \in DOMAIN p.lines}]
    [] p.type \in {"ASCII", "ASCIIi"} ->
         LET ink == IF p.type = "ASCII" THEN "#" ELSE " "
         IN  [width |-> Len(p.lines[1]), height |-> Len(p.lines),
              dark |-> UNION {{<<c - 1, l - 1>> : c \in {d \in DOMAIN p.lines[l] : p.lines[l][d] = ink}} :
                              l \in DOMAIN p.lines}]

(* A symbol inside a light margin, modules sx wide and sy high. *)
Magnified(s, margin, sx, sy) ==
  LET width == Cardinality(DOMAIN s) + 2 * margin
  IN  [width |-> width * sx, height |-> width * sy,
       dark |-> UNION {((margin + m[1]) * sx..(margin + m[1] + 1) * sx - 1)
                       \X ((margin + m[2]) * sy..(margin + m[2] + 1) * sy - 1) : m \in DarkModules(s)}]
=============================================================================
