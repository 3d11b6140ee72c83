---------------------------- MODULE QRReadingProofs ----------------------------
(***************************************************************************)
(* What is asked for is what a reader gets out of the stream of bits: for  *)
(* every input, its entries, behind the header of a set if there is one,   *)
(* and before terminator and padding (StreamIsRead); and, in every run of  *)
(* any program, the text of a call for a text or for bytes.                *)
(*                                                                         *)
(* For runs SaidInv is inductive together with FeedInv: the bits at hand   *)
(* are those of the input's segments, and the segments together with the   *)
(* text not yet split say what was asked for.                              *)
(***************************************************************************)
EXTENDS QRSegmentProofs

(* An entry that is no text, and any entry. *)

(* A header is never cut. *)
LEMMA WholeSegment ==
  ASSUME NEW e \in Segments, e.mode \notin SplittableMode, NEW version \in Nat, NEW mqr
  PROVE  EncodeBitStream(e, version, mqr) = Chunked(e.mode, e.data, version, mqr)
<1> DEFINE mode == e.mode
           t == e.data
           n == Len(t)
           words == MaximumWords(mode, version)
           Is(f) == f = [p \in 1..n |-> IF words = 0 \/ p + words > n THEN Chunked(mode, SubSeq(t, p, n), version, mqr)
                                       ELSE Chunked(mode, SubSeq(t, p, p + words - 1), version, mqr) \o f[p + words]]
           from == CHOOSE f : Is(f)
<1>1. t \in Seq(Int) /\ n \in Nat \ {0} /\ Len(t) = n
  BY DEF Segments
<1>2. words = 0
  BY WordsType
<1>3. EncodeBitStream(e, version, mqr) = from[1]
  BY Zenon DEF EncodeBitStream, Chunked
<1> HIDE DEF mode, t, n, words
<1>4. Is([p \in 1..n |-> Chunked(mode, SubSeq(t, p, n), version, mqr)])
  BY <1>2
<1>5. Is(from)
  BY <1>4, Zenon
<1> HIDE DEF from
<1>6. from[1] = Chunked(mode, SubSeq(t, 1, n), version, mqr)
  <2>1. 1 \in 1..n
    BY <1>1
  <2> QED BY <1>2, <1>5, <2>1
<1>7. SubSeq(t, 1, n) = t
  BY <1>1
<1>8. EncodeBitStream(e, version, mqr) = Chunked(mode, t, version, mqr)
  BY <1>3, <1>6, <1>7, Zenon
<1> QED BY <1>8, Zenon DEF mode, t

(* Where the segment of an entry begins its data is read, and where it ends the
   next one is (qrinput.c:1055-1118). *)
LEMMA EntryIsRead ==
  ASSUME NEW b \in Bitstream, NEW first, NEW version \in Nat, NEW mqr \in BOOLEAN, NEW D,
         Decodes(D, b, first, version, mqr), Roomy(b, version, mqr),
         NEW e \in Segments, Readable(e, version, mqr), mqr => version \in 1..4,
         NEW p \in Nat \ {0}, Begins(p, first), HoldsAt(b, p, EncodeBitStream(e, version, mqr))
  PROVE  /\ Reads(D, p, p + Len(EncodeBitStream(e, version, mqr)), Told(e))
         /\ Len(EncodeBitStream(e, version, mqr)) \in Nat \ {0}
<1>1. CASE e.mode \in SplittableMode
  <2>1. Legible(e.mode, e.data) /\ Sayable(e.mode, version, mqr)
    BY <1>1 DEF Readable, SplittableMode
  <2>2. PICK from : EncodeBitStream(e, version, mqr) = from[1] /\ SegmentParts(from, e, version, mqr)
    BY <1>1, SegmentInParts
  <2>3. HoldsAt(b, p, from[1])
    BY <2>2, Zenon
  <2>4. Reads(D, p, p + Len(from[1]), e.data) /\ Len(from[1]) \in Nat \ {0}
    BY <1>1, <2>1, <2>2, <2>3, PartsAreRead, Zenon
  <2>5. Told(e) = e.data
    BY <1>1 DEF Told, SplittableMode
  <2> QED BY <2>2, <2>4, <2>5, Zenon
<1>2. CASE e.mode \notin SplittableMode
  <2>1. PICK mode, t, n : mode = e.mode /\ t = e.data /\ n = Len(t)
    OBVIOUS
  <2>2. ~mqr /\ mode \in {"ECI", "FNC1SECOND"}
    BY <1>2, <2>1 DEF Readable
  <2>3. t \in Seq(Int) /\ n \in Nat \ {0}
    BY <2>1 DEF Segments
  <2>4. EncodeBitStream(e, version, mqr) = Chunked(mode, t, version, mqr)
    BY <1>2, <2>1, WholeSegment, Zenon
  <2>5. CASE mode = "ECI"
    <3>1. PICK x \in Nat : TwoBytes(t, x)
      BY <2>1, <2>2, <2>5 DEF Readable, SplittableMode
    <3>2. Len(t) = 4
      BY <2>1, <2>5 DEF Segments
    <3>3. Chunked(mode, t, version, mqr) = EncodeModeECI(t)
      BY <2>5 DEF Chunked
    <3>4. PICK u : u = EncodeModeECI(t)
      OBVIOUS
    <3>5. HoldsAt(b, p, EncodeModeECI(t))
      BY <2>4, <3>3, Zenon
    <3>6. IsRead(b, p, version, FALSE, <<EciMark(x)>>, Len(EncodeModeECI(t))) /\ Len(EncodeModeECI(t)) \in Nat \ {0}
      <4>1. IsRead(b, p, version, FALSE, <<EciMark(x)>>, Len(EncodeModeECI(t)))
        BY <2>3, <3>1, <3>2, <3>5, CharacterSetIsRead
      <4> QED BY <4>1 DEF IsRead
    <3>7. <<EciMark(x)>> \in Seq(Int)
      BY DEF EciMark
    <3>8. Told(e) = <<EciMark(x)>>
      <4>1. Told(e) = <<EciMark(DecodeEci(t))>>
        BY <2>1, <2>5 DEF Told
      <4>2. DecodeEci(t) = x
        BY <3>1, SMT DEF TwoBytes
      <4> QED BY <4>1, <4>2, Zenon
    <3>9. mqr = FALSE
      BY <2>2
    <3>10. Reads(D, p, p + Len(EncodeModeECI(t)), <<EciMark(x)>>)
      BY <3>6, <3>7, <3>9, OneIsRead DEF Begins
    <3> QED BY <2>4, <3>3, <3>6, <3>8, <3>10, Zenon
  <2>6. CASE mode = "FNC1SECOND"
    <3>1. Len(t) = 1 /\ t[1] \in Byte
      BY <2>1, <2>2, <2>6 DEF Readable, SplittableMode
    <3>3. Chunked(mode, t, version, mqr) = EncodeModeFNC1Second(t)
      BY <2>6 DEF Chunked
    <3>5. HoldsAt(b, p, EncodeModeFNC1Second(t))
      BY <2>4, <3>3, Zenon
    <3>6. IsRead(b, p, version, FALSE, <<Fnc1Mark(t[1])>>, 12) /\ Len(EncodeModeFNC1Second(t)) = 12
      BY <2>3, <3>1, <3>5, ApplicationIsRead
    <3>7. <<Fnc1Mark(t[1])>> \in Seq(Int)
      <4>1. PICK x \in Int : x = t[1]
        BY <3>1 DEF Byte
      <4> QED BY <4>1 DEF Fnc1Mark
    <3>8. Told(e) = <<Fnc1Mark(t[1])>>
      BY <2>1, <2>6, Zenon DEF Told
    <3>9. mqr = FALSE
      BY <2>2
    <3>10. Reads(D, p, p + 12, <<Fnc1Mark(t[1])>>)
      BY <3>6, <3>7, <3>9, OneIsRead DEF Begins
    <3>11. Len(EncodeModeFNC1Second(t)) \in Nat \ {0}
      BY <3>6
    <3>12. EncodeBitStream(e, version, mqr) = EncodeModeFNC1Second(t)
      BY <2>4, <3>3, Zenon
    <3> QED BY <3>6, <3>8, <3>10, <3>11, <3>12, Zenon
  <2> QED BY <2>2, <2>5, <2>6
<1> QED BY <1>1, <1>2

-----------------------------------------------------------------------------
(* All entries of an input. *)

\* What a reader is told by all entries of an input, and where the first of them it reads is.
ToldList(i) == [k \in DOMAIN i.entries |-> Told(i.entries[k])]
FirstOf(i) == IF i.entries # <<>> /\ i.entries[1].mode = "STRUCTURE" THEN 21 ELSE 1
ReadableInput(i) ==
  \A k \in DOMAIN i.entries : \/ Readable(i.entries[k], i.version, i.mqr)
                              \/ k = 1 /\ ~i.mqr /\ i.entries[1].mode = "STRUCTURE"

(* A reader is told numbers. *)
LEMMA ToldIsText ==
  ASSUME NEW e \in Segments, NEW version, NEW mqr, Readable(e, version, mqr)
  PROVE  Told(e) \in Seq(Int) /\ e.mode # "STRUCTURE"
<1>1. CASE e.mode \in SplittableMode
  <2>1. Told(e) = e.data
    BY <1>1 DEF Told, SplittableMode
  <2> QED BY <1>1, <2>1 DEF Segments, SplittableMode
<1>2. CASE e.mode = "ECI"
  <2>1. PICK x \in Nat : TwoBytes(e.data, x)
    BY <1>2 DEF Readable, SplittableMode
  <2>2. DecodeEci(e.data) = x
    BY <2>1, SMT DEF TwoBytes
  <2>3. Told(e) = <<EciMark(x)>>
    BY <1>2, <2>2, Zenon DEF Told
  <2>4. <<EciMark(x)>> \in Seq(Int)
    BY DEF EciMark
  <2> QED BY <1>2, <2>3, <2>4
<1>3. CASE e.mode = "FNC1SECOND"
  <2>1. PICK x \in Int : x = e.data[1]
    BY <1>3 DEF Readable, SplittableMode, Byte
  <2>2. Told(e) = <<Fnc1Mark(x)>>
    BY <1>3, <2>1, Zenon DEF Told
  <2>3. <<Fnc1Mark(x)>> \in Seq(Int)
    BY DEF Fnc1Mark
  <2> QED BY <1>3, <2>2, <2>3
<1> QED BY <1>1, <1>2, <1>3 DEF Readable

(* The header of a symbol of a set takes twenty bits (qrinput.c:735-760). *)
LEMMA SetHeaderIs ==
  ASSUME NEW e \in Segments, e.mode = "STRUCTURE", NEW version \in Nat, NEW mqr \in BOOLEAN
  PROVE  /\ EncodeBitStream(e, version, mqr) \in Bitstream /\ Len(EncodeBitStream(e, version, mqr)) = 20
         /\ \E u \in Bitstream : EncodeBitStream(e, version, mqr) = FromNum(4, 3) \o u
<1>1. PICK t \in Seq(Int) : t = e.data /\ Len(t) = 3
  BY DEF Segments
<1>2. EncodeBitStream(e, version, mqr) = EncodeModeStructure(t)
  <2>1. e.mode \notin SplittableMode
    BY DEF SplittableMode
  <2>2. EncodeBitStream(e, version, mqr) = Chunked("STRUCTURE", t, version, mqr)
    BY <1>1, <2>1, WholeSegment, Zenon
  <2> QED BY <2>2 DEF Chunked
<1>3. PICK x \in Int, y \in Int, z \in Int : x = t[2] - 1 /\ y = t[1] - 1 /\ z = t[3]
  BY <1>1
<1>4. /\ FromNum(4, 3) \in Bitstream /\ Len(FromNum(4, 3)) = 4 /\ FromNum(4, x) \in Bitstream /\ Len(FromNum(4, x)) = 4
      /\ FromNum(4, y) \in Bitstream /\ Len(FromNum(4, y)) = 4 /\ FromNum(8, z) \in Bitstream /\ Len(FromNum(8, z)) = 8
  <2>1. 4 \in Nat /\ 8 \in Nat /\ 3 \in Int
    OBVIOUS
  <2> QED BY <2>1, FromNumLength, Zenon
<1>5. PICK f \in Bitstream, g \in Bitstream, h \in Bitstream, k \in Bitstream :
        /\ f = FromNum(4, 3) /\ g = FromNum(4, x) /\ h = FromNum(4, y) /\ k = FromNum(8, z)
  BY <1>4
<1>6. EncodeModeStructure(t) = ((f \o g) \o h) \o k
  <2>1. EncodeModeStructure(t) = ((FromNum(4, 3) \o FromNum(4, t[2] - 1)) \o FromNum(4, t[1] - 1)) \o FromNum(8, t[3])
    BY Zenon DEF EncodeModeStructure
  <2> QED BY <1>3, <1>5, <2>1, Zenon
<1>7. Len(f) = 4 /\ Len(g) = 4 /\ Len(h) = 4 /\ Len(k) = 8
  BY <1>4, <1>5
<1>8. PICK u : u = (g \o h) \o k
  OBVIOUS
<1>9. \A v, w \in Bitstream : v \o w \in Bitstream /\ Len(v \o w) = Len(v) + Len(w)
  BY DEF Bitstream
<1>10. PICK w \in Bitstream : w = g \o h /\ Len(w) = 4 + 4
  <2>1. g \o h \in Bitstream /\ Len(g \o h) = Len(g) + Len(h)
    BY <1>9, Zenon
  <2>2. Len(g \o h) = 4 + 4
    BY <1>7, <2>1, Zenon
  <2> QED BY <2>1, <2>2, Zenon
<1>11. u \in Bitstream /\ Len(u) = (4 + 4) + 8
  BY <1>7, <1>8, <1>9, <1>10, ZenonT(60)
<1>12. ((f \o g) \o h) \o k = f \o u
  <2>1. ((f \o g) \o h) \o k = f \o ((g \o h) \o k)
    BY SMTT(40) DEF Bitstream
  <2> QED BY <1>8, <2>1
<1>13. f \o u \in Bitstream /\ Len(f \o u) = 4 + ((4 + 4) + 8)
  <2>1. f \o u \in Bitstream /\ Len(f \o u) = Len(f) + Len(u)
    BY <1>9, <1>11, Zenon
  <2> QED BY <1>7, <1>11, <2>1, Zenon
<1>14. 4 + ((4 + 4) + 8) = 20
  OBVIOUS
<1> QED BY <1>2, <1>5, <1>6, <1>11, <1>12, <1>13, <1>14, Zenon

(* A reader that begins behind the header of a set, if there is one, reads all
   entries of an input one after the other, however long segments were cut into
   parts (qrinput.c:1055-1180). *)
THEOREM InputIsRead ==
  ASSUME NEW i \in Inputs, ReadableInput(i), NEW b \in Bitstream, NEW D,
         Decodes(D, b, FirstOf(i), i.version, i.mqr), Roomy(b, i.version, i.mqr),
         HoldsAt(b, 1, CreateBitStream(i))
  PROVE  /\ Reads(D, 1, 1 + Len(CreateBitStream(i)), FlattenSeq(ToldList(i)))
         /\ Begins(1 + Len(CreateBitStream(i)), FirstOf(i))
<1> DEFINE s == [k \in DOMAIN i.entries |-> EncodeBitStream(i.entries[k], i.version, i.mqr)]
           u == ToldList(i)
<1>1. i.entries \in Seq(Segments) /\ i.version \in Nat /\ i.mqr \in BOOLEAN /\ (i.mqr => i.version \in 1..4)
  BY InputFields DEF MicroVersionMax
<1>2. PICK n \in Nat : DOMAIN i.entries = 1..n /\ Len(i.entries) = n
  BY <1>1
<1>3. CreateBitStream(i) = FlattenSeq(s)
  BY DEF CreateBitStream
<1>4. ASSUME NEW k \in 1..n
      PROVE  /\ i.entries[k] \in Segments /\ s[k] \in Seq(Binary) /\ s[k] = EncodeBitStream(i.entries[k], i.version, i.mqr)
             /\ u[k] \in Seq(Int) /\ u[k] = Told(i.entries[k])
             /\ k # 1 => Readable(i.entries[k], i.version, i.mqr)
  <2>1. i.entries[k] \in Segments
    BY <1>1, <1>2
  <2>2. s[k] = EncodeBitStream(i.entries[k], i.version, i.mqr) /\ u[k] = Told(i.entries[k])
    BY <1>2 DEF ToldList
  <2>3. EncodeBitStream(i.entries[k], i.version, i.mqr) \in Seq(Binary)
    BY <1>1, <2>1, SegmentInBits DEF Bitstream
  <2>4. \/ Readable(i.entries[k], i.version, i.mqr)
        \/ k = 1 /\ i.entries[k].mode = "STRUCTURE"
    BY <1>2 DEF ReadableInput
  <2>5. Told(i.entries[k]) \in Seq(Int)
    <3>1. CASE Readable(i.entries[k], i.version, i.mqr)
      BY <2>1, <3>1, ToldIsText
    <3>2. CASE i.entries[k].mode = "STRUCTURE"
      <4>1. Told(i.entries[k]) = <<>>
        BY <3>2 DEF Told
      <4> QED BY <4>1
    <3> QED BY <2>4, <3>1, <3>2
  <2> QED BY <2>1, <2>2, <2>3, <2>4, <2>5
<1>5. s \in Seq(Seq(Binary)) /\ Len(s) = n /\ u \in Seq(Seq(Int)) /\ Len(u) = n
  <2>1. DOMAIN s = 1..n /\ DOMAIN u = 1..n
    BY <1>2 DEF ToldList
  <2>2. s = [k \in 1..n |-> s[k]] /\ u = [k \in 1..n |-> u[k]]
    BY <1>2 DEF ToldList
  <2> DEFINE S == Seq(Binary)
             Z == Seq(Int)
  <2>3. \A k \in 1..n : s[k] \in S /\ u[k] \in Z
    BY <1>4
  <2> HIDE DEF s, u, S, Z
  <2>4. s \in Seq(S) /\ u \in Seq(Z) /\ Len(s) = n /\ Len(u) = n
    BY <2>1, <2>2, <2>3
  <2> QED BY <2>4 DEF S, Z
<1> HIDE DEF s, u
<1>6. CASE n = 0
  <2>1. s = <<>> /\ u = <<>>
    BY <1>5, <1>6
  <2>2. FlattenSeq(s) = <<>> /\ FlattenSeq(u) = <<>>
    BY <2>1 DEF FlattenSeq
  <2>3. Len(CreateBitStream(i)) = 0
    BY <1>3, <2>2
  <2>4. Reads(D, 1, 1, <<>>)
    BY DEF Reads
  <2>5. 1 + Len(CreateBitStream(i)) = 1
    BY <2>3
  <2>6. FirstOf(i) = 1
    BY <1>1, <1>2, <1>6 DEF FirstOf
  <2> QED BY <2>2, <2>4, <2>5, <2>6 DEF u, Begins
<1>7. CASE n # 0
  <2>0. s # <<>> /\ u # <<>>
    BY <1>5, <1>7
  <2>1. PICK g : Accumulates(g, s, n) /\ FlattenSeq(s) = g[n]
    BY <1>5, <2>0, Flattened, Zenon
  <2>2. PICK h : Accumulates(h, u, n) /\ FlattenSeq(u) = h[n]
    BY <1>5, <2>0, Flattened, Zenon
  <2>3. \A k \in 1..n : /\ g[k] = IF k = 1 THEN s[k] ELSE g[k - 1] \o s[k]
                        /\ h[k] = IF k = 1 THEN u[k] ELSE h[k - 1] \o u[k]
    BY <2>1, <2>2, AccumulatesAt DEF Adds
  <2> DEFINE Good(x, t) == x \in Bitstream /\ (HoldsAt(b, 1, x) => Reads(D, 1, 1 + Len(x), t) /\ Len(x) \in Nat \ {0})
             T == {k \in Nat : k + 1 <= n => Good(g[k + 1], h[k + 1])}
  <2>4. 0 \in T
    <3>1. 1 \in 1..n
      BY <1>7
    <3>2. PICK e \in Segments : e = i.entries[1]
      BY <1>4, <3>1
    <3>3. g[1] = EncodeBitStream(e, i.version, i.mqr) /\ h[1] = Told(e) /\ g[1] \in Bitstream
      BY <1>4, <2>3, <3>1, <3>2 DEF Bitstream
    <3>4. i.entries # <<>>
      BY <1>2, <1>7
    <3>5. CASE e.mode = "STRUCTURE"
      <4>1. Len(g[1]) = 20
        BY <1>1, <3>2, <3>3, <3>5, SetHeaderIs
      <4>2. D[1] = D[21]
        BY <3>2, <3>4, <3>5 DEF Decodes, FirstOf
      <4>3. h[1] = <<>>
        BY <3>3, <3>5 DEF Told
      <4>4. Reads(D, 1, 21, <<>>)
        <5> SUFFICES ASSUME D[21] \in Seq(Int) PROVE D[1] = <<>> \o D[21]
          BY DEF Reads
        <5> QED BY <4>2
      <4>5. 1 + Len(g[1]) = 21 /\ Len(g[1]) \in Nat \ {0}
        BY <4>1
      <4>6. Good(g[1], h[1])
        BY <3>3, <4>3, <4>4, <4>5, Zenon
      <4> HIDE DEF Good
      <4> QED BY <4>6
    <3>6. CASE e.mode # "STRUCTURE"
      <4>1. Readable(e, i.version, i.mqr)
        BY <1>2, <3>1, <3>2, <3>6 DEF ReadableInput
      <4>2. Begins(1, FirstOf(i))
        BY <3>2, <3>6 DEF Begins, FirstOf
      <4>3. HoldsAt(b, 1, EncodeBitStream(e, i.version, i.mqr)) =>
              /\ Reads(D, 1, 1 + Len(EncodeBitStream(e, i.version, i.mqr)), Told(e))
              /\ Len(EncodeBitStream(e, i.version, i.mqr)) \in Nat \ {0}
        <5>1. 1 \in Nat \ {0}
          OBVIOUS
        <5> QED BY <1>1, <4>1, <4>2, <5>1, EntryIsRead, Zenon
      <4>4. Good(g[1], h[1])
        BY <3>3, <4>3, Zenon
      <4> HIDE DEF Good
      <4> QED BY <4>4
    <3> QED BY <3>5, <3>6
  <2>5. ASSUME NEW k \in Nat, k \in T PROVE k + 1 \in T
    <3> SUFFICES ASSUME k + 2 <= n PROVE Good(g[k + 2], h[k + 2])
      OBVIOUS
    <3>1. PICK c \in 1..n, d \in 1..n : c = k + 1 /\ d = k + 2 /\ d - 1 = c /\ d # 1
      OBVIOUS
    <3>2. Good(g[c], h[c])
      <4> HIDE DEF Good
      <4> QED BY <2>5, <3>1
    <3>3. PICK e \in Segments : e = i.entries[d] /\ Readable(e, i.version, i.mqr)
      BY <1>4, <3>1
    <3>4. PICK v \in Bitstream : v = s[d] /\ v = EncodeBitStream(e, i.version, i.mqr) /\ u[d] = Told(e)
      BY <1>4, <3>3 DEF Bitstream
    <3>5. PICK x \in Bitstream : x = g[c]
      BY <3>2
    <3>6. g[d] = x \o v /\ h[d] = h[c] \o Told(e) /\ x \o v \in Bitstream /\ Len(x \o v) = Len(x) + Len(v)
      <4>1. g[d] = x \o v /\ h[d] = h[c] \o Told(e)
        BY <2>3, <3>1, <3>4, <3>5
      <4>2. x \o v \in Bitstream /\ Len(x \o v) = Len(x) + Len(v)
        BY DEF Bitstream
      <4> QED BY <4>1, <4>2
    <3>7. ASSUME HoldsAt(b, 1, g[d]) PROVE Reads(D, 1, 1 + Len(g[d]), h[d]) /\ Len(g[d]) \in Nat \ {0}
      <4>1. HoldsAt(b, 1, x) /\ HoldsAt(b, 1 + Len(x), v)
        <5>1. HoldsAt(b, 1, x \o v) /\ 1 \in Nat \ {0}
          BY <3>6, <3>7
        <5> QED BY <5>1, HoldsBoth, Zenon
      <4>2. Reads(D, 1, 1 + Len(x), h[c]) /\ Len(x) \in Nat \ {0}
        BY <3>2, <3>5, <4>1, Zenon
      <4>3. PICK q \in Nat \ {0} : q = 1 + Len(x) /\ q # 1
        BY <4>2
      <4>4. Begins(q, FirstOf(i))
        BY <4>3 DEF Begins
      <4>5. HoldsAt(b, q, EncodeBitStream(e, i.version, i.mqr))
        BY <3>4, <4>1, <4>3, Zenon
      <4>6. Reads(D, q, q + Len(EncodeBitStream(e, i.version, i.mqr)), Told(e)) /\ Len(EncodeBitStream(e, i.version, i.mqr)) \in Nat \ {0}
        BY <1>1, <3>3, <4>4, <4>5, EntryIsRead, Zenon
      <4>7. Reads(D, q, q + Len(v), Told(e)) /\ Len(v) \in Nat \ {0}
        BY <3>4, <4>6, Zenon
      <4>8. Reads(D, 1, q, h[c])
        BY <4>2, <4>3, Zenon
      <4>9. Reads(D, 1, q + Len(v), h[c] \o Told(e))
        BY <4>7, <4>8, ReadsThen, Zenon
      <4>10. q + Len(v) = 1 + Len(g[d]) /\ Len(g[d]) \in Nat \ {0}
        BY <3>6, <4>2, <4>3, <4>7
      <4> QED BY <3>6, <4>9, <4>10, Zenon
    <3>8. Good(g[d], h[d])
      BY <3>6, <3>7, Zenon
    <3> HIDE DEF Good
    <3> QED BY <3>1, <3>8
  <2> HIDE DEF T
  <2>6. Nat \subseteq T
    BY <2>4, <2>5, Induction
  <2>7. PICK m \in Nat : m + 1 = n
    BY <1>7
  <2>8. Good(g[n], h[n])
    <3>1. m \in T
      BY <2>6
    <3> HIDE DEF Good
    <3> QED BY <2>7, <3>1 DEF T
  <2>9. HoldsAt(b, 1, g[n])
    BY <1>3, <2>1, Zenon
  <2>10. Reads(D, 1, 1 + Len(g[n]), h[n]) /\ Len(g[n]) \in Nat \ {0}
    BY <2>8, <2>9, Zenon
  <2>11. Begins(1 + Len(g[n]), FirstOf(i))
    BY <2>10 DEF Begins
  <2> QED BY <1>3, <2>1, <2>2, <2>10, <2>11, Zenon DEF u
<1> QED BY <1>6, <1>7

-----------------------------------------------------------------------------
(* What a stream begins with: only a set's header has the mode 3. *)

\* A stream begins with the four bits of a number.
Leads(x, id) == \E u \in Bitstream : x = FromNum(4, id) \o u

(* What begins a stream. *)
LEMMA LeadsJust ==
  ASSUME NEW id, NEW u \in Bitstream
  PROVE  Leads(FromNum(4, id) \o u, id)
<1>1. PICK x : x = FromNum(4, id) \o u
  OBVIOUS
<1> QED BY <1>1, Zenon DEF Leads

(* What follows does not change how a stream begins. *)
LEMMA LeadsOn ==
  ASSUME NEW id \in Int, NEW x \in Bitstream, Leads(x, id), NEW y \in Bitstream
  PROVE  Leads(x \o y, id)
<1>1. PICK f \in Bitstream, u \in Bitstream : f = FromNum(4, id) /\ x = f \o u
  <2>1. FromNum(4, id) \in Bitstream
    BY NumInBits
  <2> QED BY <2>1 DEF Leads
<1>2. (f \o u) \o y = f \o (u \o y) /\ u \o y \in Bitstream
  BY DEF Bitstream
<1> QED BY <1>1, <1>2 DEF Leads

(* A reader sees how the stream begins. *)
LEMMA LeadIsRead ==
  ASSUME NEW id \in 0..15, NEW x, Leads(x, id), NEW b \in Bitstream, HoldsAt(b, 1, x)
  PROVE  ValueAt(b, 1, 4) = id
<1>1. PICK f \in Bitstream, u \in Bitstream : f = FromNum(4, id) /\ x = f \o u
  <2>1. FromNum(4, id) \in Bitstream
    BY NumInBits
  <2> QED BY <2>1 DEF Leads
<1>2. 1 \in Nat \ {0} /\ id \in Nat /\ id < 16
  OBVIOUS
<1>3. HoldsAt(b, 1, f \o u)
  BY <1>1
<1>4. HoldsAt(b, 1, f)
  BY <1>2, <1>3, HoldsBoth, Zenon
<1>5. HoldsAt(b, 1, FromNum(4, id))
  BY <1>1, <1>4
<1> QED BY <1>2, <1>5, HoldsSmall

Marks == {1, 2, 4, 7, 8, 9}

(* The number of a character set is a number (qrinput.c:826-839). *)
LEMMA SetIsNumber ==
  ASSUME NEW s \in Seq(Int), Len(s) = 4
  PROVE  DecodeEci(s) \in Int
<1>1. PICK a \in Int, b \in Int, c \in Int, d \in Int : a = s[1] /\ b = s[2] /\ c = s[3] /\ d = s[4]
  <2>1. \A k \in 1..4 : k \in 1..Len(s)
    BY Zenon
  <2>2. \A k \in 1..4 : s[k] \in Int
    BY <2>1, ElementOfSeq, Zenon
  <2>3. 1 \in 1..4 /\ 2 \in 1..4 /\ 3 \in 1..4 /\ 4 \in 1..4
    OBVIOUS
  <2>4. s[1] \in Int /\ s[2] \in Int /\ s[3] \in Int /\ s[4] \in Int
    BY <2>2, <2>3, Zenon
  <2> QED BY <2>4, Zenon
<1>2. DecodeEci(s) = a + 256 * b + 65536 * c + 16777216 * d
  BY <1>1 DEF DecodeEci
<1> QED BY <1>2

(* A part of a segment begins with the number of its mode. *)
LEMMA ChunkLeads ==
  ASSUME NEW mode \in SplittableMode \cup {"ECI", "FNC1SECOND"}, NEW s \in Seq(Int), s # <<>>,
         mode = "AN" => \A i \in DOMAIN s : s[i] \in AnChar, mode = "ECI" => Len(s) = 4, NEW version \in Nat
  PROVE  \E id \in Marks : Leads(Chunked(mode, s, version, FALSE), id)
<1>1. /\ EncodeModeNum(s) \in Bitstream /\ EncodeMode8(s) \in Bitstream /\ EncodeModeKanji(s) \in Bitstream
      /\ mode = "AN" => EncodeModeAn(s) \in Bitstream
  BY PayloadInBits
<1>2. CASE mode \in SplittableMode
  <2>1. PICK u \in Bitstream : u = Payload(mode, s)
    BY <1>1, <1>2 DEF Payload, SplittableMode
  <2>2. PICK n \in Int : n = Characters(mode, s)
    <3>1. Len(s) \in Int /\ Len(s) \div 2 \in Int
      OBVIOUS
    <3> QED BY <3>1 DEF Characters
  <2>3. PICK id \in {1, 2, 4, 8} : id = ModeId(mode, FALSE)
    BY <1>2, ModeIds
  <2>4. PICK l \in Nat : l = LengthIndicator(mode, version)
    <3>1. LengthIndicator(mode, version) \in {8, 9, 10, 11, 12, 13, 14, 16}
      BY <1>2, SMTT(40) DEF LengthIndicator, SplittableMode
    <3> QED BY <3>1
  <2>5. Header(mode, n, version, FALSE) = FromNum(4, id) \o FromNum(l, n)
    BY <2>3, <2>4 DEF Header
  <2>6. FromNum(l, n) \in Bitstream /\ FromNum(4, id) \in Bitstream
    BY NumInBits
  <2>7. PICK h \in Bitstream : h = Header(mode, n, version, FALSE) /\ Leads(h, id)
    <3>1. Leads(FromNum(4, id) \o FromNum(l, n), id)
      BY <2>6, LeadsJust, Zenon
    <3>2. FromNum(4, id) \o FromNum(l, n) \in Bitstream
      BY <2>6, Joining
    <3> QED BY <2>5, <3>1, <3>2, Zenon
  <2>8. Leads(h \o u, id)
    <3>1. id \in Int
      OBVIOUS
    <3> QED BY <2>7, <3>1, LeadsOn, Zenon
  <2>9. Chunked(mode, s, version, FALSE) = h \o u
    BY <1>2, <2>1, <2>2, <2>7, ChunkIs, Zenon
  <2>10. id \in Marks
    BY DEF Marks
  <2> QED BY <2>8, <2>9, <2>10, Zenon
<1>3. CASE mode = "ECI"
  <2>1. PICK w \in Int, y \in Int : EncodeModeECI(s) = FromNum(4, 7) \o FromNum(8 * w, y)
    <3>1. PICK num \in Int : num = DecodeEci(s)
      <4>1. Len(s) = 4
        BY <1>3
      <4>2. DecodeEci(s) \in Int
        BY <4>1, SetIsNumber, Zenon
      <4> QED BY <4>2
    <3>2. PICK w \in 1..3 : w = EciWords(num)
      BY DEF EciWords
    <3>3. EncodeModeECI(s) = FromNum(4, 7) \o FromNum(8 * w, <<0, \h8000, \hc0000>>[w] + num)
      BY <3>1, <3>2 DEF EncodeModeECI
    <3>4. <<0, \h8000, \hc0000>>[w] + num \in Int
      OBVIOUS
    <3>5. PICK y \in Int : y = <<0, \h8000, \hc0000>>[w] + num
      BY <3>4, SMT
    <3>6. EncodeModeECI(s) = FromNum(4, 7) \o FromNum(8 * w, y)
      BY <3>3, <3>5, SMT
    <3>7. w \in Int
      OBVIOUS
    <3> QED BY <3>6, <3>7, Zenon
  <2>2. FromNum(8 * w, y) \in Bitstream
    <3>1. 8 * w \in Int
      OBVIOUS
    <3> QED BY <3>1, NumInBits
  <2>3. Leads(EncodeModeECI(s), 7)
    BY <2>1, <2>2, LeadsJust, Zenon
  <2>4. Chunked(mode, s, version, FALSE) = EncodeModeECI(s)
    BY <1>3 DEF Chunked
  <2> QED BY <2>3, <2>4 DEF Marks
<1>4. CASE mode = "FNC1SECOND"
  <2>1. FromNum(8, s[1]) \in Bitstream
    <3>1. s[1] \in Int /\ 8 \in Int
      OBVIOUS
    <3> QED BY <3>1, NumInBits
  <2>2. EncodeModeFNC1Second(s) = FromNum(4, 9) \o FromNum(8, s[1])
    BY Zenon DEF EncodeModeFNC1Second
  <2>3. Leads(EncodeModeFNC1Second(s), 9)
    BY <2>1, <2>2, LeadsJust, Zenon
  <2>4. Chunked(mode, s, version, FALSE) = EncodeModeFNC1Second(s)
    BY <1>4 DEF Chunked
  <2> QED BY <2>3, <2>4 DEF Marks
<1> QED BY <1>2, <1>3, <1>4

(* No segment but a set's header begins with its mode. *)
LEMMA EntryLeads ==
  ASSUME NEW e \in Segments, e.mode # "STRUCTURE", NEW version \in Nat
  PROVE  EncodeBitStream(e, version, FALSE) \in Bitstream /\ \E id \in Marks : Leads(EncodeBitStream(e, version, FALSE), id)
<1>0. EncodeBitStream(e, version, FALSE) \in Bitstream
  BY SegmentInBits
<1>1. PICK mode, t, n :
        /\ n \in Nat \ {0} /\ mode = e.mode /\ t = e.data /\ n = Len(t) /\ t \in Seq(Int) /\ DOMAIN t = 1..n
        /\ mode \in SplittableMode \cup {"ECI", "FNC1SECOND"}
        /\ mode = "AN" => \A i \in 1..n : t[i] \in AnChar
        /\ mode = "ECI" => n = 4
  <2>1. e.data \in Seq(Int) /\ Len(e.data) \in Nat \ {0} /\ DOMAIN e.data = 1..Len(e.data)
    BY DEF Segments
  <2>2. /\ e.mode \in SplittableMode \cup {"ECI", "FNC1SECOND"}
        /\ e.mode = "AN" => \A i \in DOMAIN e.data : e.data[i] \in AnChar
        /\ e.mode = "ECI" => Len(e.data) = 4
    BY DEF Segments
  <2> QED BY <2>1, <2>2
<1>2. CASE mode \notin SplittableMode
  <2>1. EncodeBitStream(e, version, FALSE) = Chunked(mode, t, version, FALSE)
    BY <1>1, <1>2, WholeSegment, Zenon
  <2>2. \E id \in Marks : Leads(Chunked(mode, t, version, FALSE), id)
    <3>1. t # <<>> /\ Len(t) = n
      BY <1>1
    <3> QED BY <1>1, <3>1, ChunkLeads
  <2> QED BY <1>0, <2>1, <2>2, Zenon
<1>3. CASE mode \in SplittableMode
  <2>1. PICK from : EncodeBitStream(e, version, FALSE) = from[1] /\ SegmentParts(from, e, version, FALSE)
    BY <1>1, <1>3, SegmentInParts
  <2>2. PICK words \in Nat : words = MaximumWords(mode, version)
    BY WordsType
  <2>3. 1 \in 1..n
    BY <1>1
  <2>4. \/ words = 0 \/ 1 + words > n
        \/ words # 0 /\ 1 + words \in 1..n
    BY <1>1
  <2>5. ASSUME NEW j \in 1..n PROVE \E id \in Marks : Leads(Chunked(mode, SubSeq(t, 1, j), version, FALSE), id)
    <3>1. PICK s : s = SubSeq(t, 1, j)
      OBVIOUS
    <3>2. s \in Seq(Int) /\ Len(s) = j /\ \A i \in 1..j : s[i] = t[i]
      BY <1>1, <3>1
    <3>3. s # <<>> /\ DOMAIN s = 1..j /\ (mode = "AN" => \A i \in 1..j : s[i] \in AnChar)
      BY <1>1, <3>2
    <3>4. mode # "ECI"
      BY <1>3 DEF SplittableMode
    <3>5. \E id \in Marks : Leads(Chunked(mode, s, version, FALSE), id)
      BY <1>1, <3>2, <3>3, <3>4, ChunkLeads
    <3> QED BY <3>1, <3>5
  <2>6. CASE words = 0 \/ 1 + words > n
    <3>1. from[1] = Chunked(mode, SubSeq(t, 1, n), version, FALSE)
      BY <1>1, <2>1, <2>2, <2>3, <2>6, Zenon DEF SegmentParts
    <3>2. n \in 1..n
      BY <1>1
    <3>3. \E id \in Marks : Leads(Chunked(mode, SubSeq(t, 1, n), version, FALSE), id)
      BY <2>5, <3>2
    <3> QED BY <1>0, <2>1, <3>1, <3>3, Zenon
  <2>7. CASE words # 0 /\ 1 + words \in 1..n
    <3>1. PICK j \in 1..n, k \in 1..n : j = 1 + words - 1 /\ k = 1 + words /\ ~(words = 0 \/ 1 + words > n)
      BY <1>1, <2>7
    <3>2. from[1] = Chunked(mode, SubSeq(t, 1, j), version, FALSE) \o from[k]
      BY <1>1, <2>1, <2>2, <2>3, <3>1, Zenon DEF SegmentParts
    <3>3. PICK v \in Bitstream : v = from[k]
      BY <1>1, <2>1, <3>1, Zenon DEF SegmentParts
    <3>4. PICK id \in Marks : Leads(Chunked(mode, SubSeq(t, 1, j), version, FALSE), id)
      BY <2>5
    <3>5. id \in Int
      BY DEF Marks
    <3>6. PICK u \in Bitstream : u = Chunked(mode, SubSeq(t, 1, j), version, FALSE)
      <4>1. FromNum(4, id) \in Bitstream
        BY <3>5, NumInBits
      <4>2. PICK w \in Bitstream : Chunked(mode, SubSeq(t, 1, j), version, FALSE) = FromNum(4, id) \o w
        BY <3>4 DEF Leads
      <4> QED BY <4>1, <4>2, Joining
    <3>7. Leads(u \o v, id)
      BY <3>4, <3>5, <3>6, LeadsOn
    <3>8. EncodeBitStream(e, version, FALSE) = u \o v
      BY <2>1, <3>2, <3>3, <3>6, Zenon
    <3> QED BY <1>0, <3>7, <3>8, Zenon
  <2> QED BY <2>4, <2>6, <2>7
<1> QED BY <1>2, <1>3

-----------------------------------------------------------------------------
(* Terminator and padding. *)

\* A stream, k zeros, and more only if the zeros are a terminator of t bits.
Padded(b, stream, k, more, t) == b = (stream \o FromNum(k, 0)) \o more /\ (t <= k \/ more = <<>>)
\* It still holds the stream, which ends where a reader of t bits looks for more.
Ended(b, stream, k, more, t) ==
  /\ b \in Bitstream /\ HoldsAt(b, 1, stream) /\ Len(b) = Len(stream) + k + Len(more)
  /\ (1 + Len(stream)) + t > Len(b) + 1 \/ ValueAt(b, 1 + Len(stream), t) = 0

(* Zeros after a stream end it for a reader, or too few bits are left. *)
LEMMA PadEnds ==
  ASSUME NEW stream \in Bitstream, NEW k \in 0..24, NEW more \in Bitstream, NEW t \in 0..24,
         NEW b, Padded(b, stream, k, more, t)
  PROVE  Ended(b, stream, k, more, t)
<1>0. b = (stream \o FromNum(k, 0)) \o more /\ (t <= k \/ more = <<>>)
  BY DEF Padded
<1>1. PICK z \in Bitstream : z = FromNum(k, 0) /\ Len(z) = k /\ \A i \in 1..k : z[i] = 0
  BY Zeros
<1>2. \A v, w \in Bitstream : v \o w \in Bitstream /\ Len(v \o w) = Len(v) + Len(w)
  BY DEF Bitstream
<1>3. PICK u \in Bitstream : u = stream \o z /\ Len(u) = Len(stream) + k
  <2>1. stream \o z \in Bitstream /\ Len(stream \o z) = Len(stream) + Len(z)
    BY <1>2, Zenon
  <2>2. Len(stream \o z) = Len(stream) + k
    BY <1>1, <2>1, Zenon
  <2> QED BY <2>1, <2>2, Zenon
<1>4. b = u \o more /\ b \in Bitstream /\ Len(b) = Len(u) + Len(more)
  <2>1. b = u \o more
    BY <1>0, <1>1, <1>3, Zenon
  <2> QED BY <1>2, <2>1, Zenon
<1>5. PICK n \in Nat, m \in Nat, l \in Nat : n = Len(stream) /\ m = Len(more) /\ l = Len(b)
  BY <1>4 DEF Bitstream
<1>6. l = n + k + m
  BY <1>3, <1>4, <1>5
<1>7. HoldsAt(b, 1, u \o more)
  <2>1. HoldsAt(b, 1, b)
    BY <1>4 DEF HoldsAt, Bitstream
  <2> QED BY <1>4, <2>1
<1>8. HoldsAt(b, 1, u)
  <2>1. 1 \in Nat \ {0}
    OBVIOUS
  <2> QED BY <1>4, <1>7, <2>1, HoldsBoth, Zenon
<1>9. HoldsAt(b, 1, stream) /\ HoldsAt(b, 1 + Len(stream), z)
  <2>1. 1 \in Nat \ {0} /\ HoldsAt(b, 1, stream \o z)
    BY <1>3, <1>8
  <2> QED BY <1>4, <2>1, HoldsBoth, Zenon
<1>10. \A i \in 1..k : b[(1 + n) + i - 1] = 0
  BY <1>1, <1>5, <1>9 DEF HoldsAt
<1>11. (1 + n) + t > l + 1 \/ ValueAt(b, 1 + n, t) = 0
  <2>1. CASE t <= k
    <3>1. (1 + n) + t <= Len(b) + 1 /\ 1 + n \in Nat \ {0}
      BY <1>5, <1>6, <2>1
    <3>2. \A i \in 1..t : b[(1 + n) + i - 1] = 0
      <4> TAKE i \in 1..t
      <4>1. i \in 1..k
        BY <2>1
      <4> QED BY <1>10, <4>1
    <3> QED BY <1>4, <3>1, <3>2, ZerosRead
  <2>2. CASE t > k /\ more = <<>>
    <3>1. m = 0
      BY <1>5, <2>2
    <3> QED BY <1>6, <2>2, <3>1
  <2> QED BY <1>0, <2>1, <2>2
<1> QED BY <1>4, <1>5, <1>6, <1>9, <1>11 DEF Ended

(* A symbol's stream begins with all segments, and a reader finds their end, be it
   before pad bytes or where no room was left for a terminator (qrinput.c:1192-1245). *)
THEOREM PaddedIsRead ==
  ASSUME NEW stream \in Bitstream, NEW version \in Nat, NEW level, DataLength(version, level) \in Nat,
         Len(stream) <= 8 * DataLength(version, level)
  PROVE  LET b == AppendPaddingBit(stream, version, level)
         IN  /\ b \in Bitstream /\ HoldsAt(b, 1, stream) /\ EndsAt(b, 1 + Len(stream), version, FALSE)
             /\ stream = <<>> /\ DataLength(version, level) # 0 => ValueAt(b, 1, 4) # 3
<1>1. PICK n \in Nat, most \in Nat : n = Len(stream) /\ most = DataLength(version, level) /\ n <= 8 * most
  BY DEF Bitstream
<1> DEFINE free == 8 * most - n
           words == (n + 4 + 7) \div 8
           b == AppendPaddingBit(stream, version, level)
<1>2. b = IF free <= 4 THEN stream \o FromNum(free, 0)
          ELSE (stream \o FromNum(8 * words - n, 0)) \o PadBytes(most - words)
  BY <1>1 DEF AppendPaddingBit
<1>3. free \in Nat /\ words \in Nat /\ 8 * words >= n + 4 /\ 8 * words <= n + 11
  BY <1>1
<1>4. \E k \in 0..24, more \in Bitstream : /\ 4 <= k \/ more = <<>>
                                           /\ b = (stream \o FromNum(k, 0)) \o more
                                           /\ stream = <<>> /\ most # 0 => 4 <= k
  <2>1. CASE free <= 4
    <3>1. free \in 0..24 /\ <<>> \in Bitstream
      BY <1>3, <2>1 DEF Bitstream
    <3>2. FromNum(free, 0) \in Bitstream
      BY <3>1, Zeros
    <3>3. b = (stream \o FromNum(free, 0)) \o <<>>
      <4>1. b = stream \o FromNum(free, 0)
        BY <1>2, <2>1
      <4>2. stream \o FromNum(free, 0) \in Bitstream
        BY <3>2, Joining
      <4> QED BY <4>1, <4>2 DEF Bitstream
    <3>4. ~(stream = <<>> /\ most # 0)
      <4> SUFFICES ASSUME stream = <<>>, most # 0 PROVE FALSE
        OBVIOUS
      <4>1. n = 0
        BY <1>1
      <4> QED BY <2>1, <4>1
    <3> HIDE DEF free, b
    <3> QED BY <3>1, <3>3, <3>4
  <2>2. CASE free > 4
    <3>1. PICK k \in 0..24 : k = 8 * words - n /\ 4 <= k
      BY <1>3
    <3>2. PICK more \in Bitstream : more = PadBytes(most - words)
      <4>1. most - words \in Int
        BY <1>3
      <4> QED BY <4>1, PaddingInBits
    <3>3. b = (stream \o FromNum(k, 0)) \o more
      <4>1. b = (stream \o FromNum(8 * words - n, 0)) \o PadBytes(most - words)
        BY <1>2, <1>3, <2>2
      <4> HIDE DEF words, b
      <4> QED BY <3>1, <3>2, <4>1
    <3> HIDE DEF free, b
    <3> QED BY <3>1, <3>3
  <2>3. free <= 4 \/ free > 4
    BY <1>3
  <2> HIDE DEF free, b
  <2> QED BY <2>1, <2>2, <2>3, Zenon
<1> HIDE DEF b
<1>5. PICK k \in 0..24, more \in Bitstream : /\ 4 <= k \/ more = <<>>
                                             /\ b = (stream \o FromNum(k, 0)) \o more
                                             /\ stream = <<>> /\ most # 0 => 4 <= k
  BY <1>4
<1>6. /\ b \in Bitstream /\ HoldsAt(b, 1, stream) /\ Len(b) = Len(stream) + k + Len(more)
      /\ (1 + Len(stream)) + 4 > Len(b) + 1 \/ ValueAt(b, 1 + Len(stream), 4) = 0
  <2>1. 4 \in 0..24
    OBVIOUS
  <2>2. Padded(b, stream, k, more, 4)
    BY <1>5 DEF Padded
  <2>3. Ended(b, stream, k, more, 4)
    BY <2>1, <2>2, PadEnds, Zenon
  <2> QED BY <2>3 DEF Ended
<1>7. EndsAt(b, 1 + Len(stream), version, FALSE)
  BY <1>6, Zenon DEF EndsAt
<1>8. ASSUME stream = <<>>, most # 0 PROVE ValueAt(b, 1, 4) # 3
  <2>1. 4 <= k /\ Len(stream) = 0 /\ Len(more) \in Nat
    BY <1>5, <1>8 DEF Bitstream
  <2>2. ~((1 + Len(stream)) + 4 > Len(b) + 1) /\ 1 + Len(stream) = 1
    BY <1>6, <2>1
  <2>3. ValueAt(b, 1, 4) = 0
    BY <1>6, <2>2
  <2> QED BY <2>3
<1> QED BY <1>1, <1>6, <1>7, <1>8, Zenon DEF b

\* No padded stream of a Micro symbol is longer than its whole bytes.
MicroRoom(version) == <<24, 40, 88, 128>>[version]

(* In so little room no length overflows. *)
LEMMA RoomyIn ==
  ASSUME NEW b \in Bitstream, NEW version \in 1..4, Len(b) <= MicroRoom(version)
  PROVE  Roomy(b, version, TRUE)
<1> SUFFICES ASSUME NEW mode \in MicroModes(version), NEW n \in Nat \ {0}, SegmentBits(mode, n, version, TRUE) <= Len(b)
             PROVE  n < 2^LengthBits(mode, version, TRUE)
  BY DEF Roomy
<1>1. Len(b) \in Nat /\ 2^3 = 8 /\ 2^4 = 16 /\ 2^5 = 32 /\ 2^6 = 64
  BY FirstPowers DEF Bitstream
<1>2. version \in {1, 2, 3, 4} /\ mode \in {"NUM", "AN", "8", "KANJI"}
  BY DEF MicroModes
<1>3. PICK c \in Nat : c = CharBits(mode, n) /\ (mode = "NUM" => 3 * c >= 10 * n) /\ (mode = "AN" => 2 * c >= 11 * n)
                       /\ (mode = "8" => c = 8 * n) /\ (mode = "KANJI" => c = 13 * n)
  <2>1. CASE mode = "NUM"
    <3>1. PICK g \in Nat, r \in {0, 1, 2} : g = n \div 3 /\ r = n % 3 /\ n = 3 * g + r
      OBVIOUS
    <3>2. CharBits(mode, n) = 10 * g + <<0, 4, 7>>[r + 1]
      BY <2>1, <3>1 DEF CharBits
    <3>3. CharBits(mode, n) \in Nat /\ 3 * CharBits(mode, n) >= 10 * n
      BY <3>1, <3>2
    <3> QED BY <2>1, <3>3
  <2>2. CASE mode = "AN"
    <3>1. PICK g \in Nat, r \in {0, 1} : g = n \div 2 /\ r = n % 2 /\ n = 2 * g + r
      OBVIOUS
    <3>2. CharBits(mode, n) = 11 * g + 6 * r
      BY <2>2, <3>1 DEF CharBits
    <3>3. CharBits(mode, n) \in Nat /\ 2 * CharBits(mode, n) >= 11 * n
      BY <3>1, <3>2
    <3> QED BY <2>2, <3>3
  <2>3. CASE mode = "8"
    BY <2>3 DEF CharBits
  <2>4. CASE mode = "KANJI"
    BY <2>4 DEF CharBits
  <2> QED BY <1>2, <2>1, <2>2, <2>3, <2>4
<1>4. PICK l \in 3..16 : l = LengthBits(mode, version, TRUE) /\ l = MicroLengthIndicator(mode, version)
  BY LengthsAgree DEF Sayable
<1>5. PICK d \in Nat : d = Len(b) /\ (version - 1) + l + c <= d
  <2>1. SegmentBits(mode, n, version, TRUE) = (version - 1) + l + c
    BY <1>3, <1>4, Zenon DEF SegmentBits
  <2> QED BY <1>1, <2>1, Zenon
<1>6. CASE version = 1
  <2>1. mode \in {"NUM"} /\ d <= 24
    BY <1>2, <1>5, <1>6 DEF MicroModes, MicroRoom
  <2>2. CASE mode = "NUM"
    <3>1. l = 3
      BY <1>4, <1>6, <2>2 DEF MicroLengthIndicator
    <3>2. 3 * c >= 10 * n /\ 0 + 3 + c <= d
      BY <1>3, <1>5, <1>6, <2>2, <3>1
    <3>3. n < 8
      BY <2>1, <3>2
    <3>4. 2^l = 8
      BY <1>1, <3>1
    <3> QED BY <1>4, <3>3, <3>4
  <2> QED BY <2>1, <2>2
<1>7. CASE version = 2
  <2>1. mode \in {"NUM", "AN"} /\ d <= 40
    BY <1>2, <1>5, <1>7 DEF MicroModes, MicroRoom
  <2>2. CASE mode = "NUM"
    <3>1. l = 4
      BY <1>4, <1>7, <2>2 DEF MicroLengthIndicator
    <3>2. 3 * c >= 10 * n /\ 1 + 4 + c <= d
      BY <1>3, <1>5, <1>7, <2>2, <3>1
    <3>3. n < 16
      BY <2>1, <3>2
    <3>4. 2^l = 16
      BY <1>1, <3>1
    <3> QED BY <1>4, <3>3, <3>4
  <2>3. CASE mode = "AN"
    <3>1. l = 3
      BY <1>4, <1>7, <2>3 DEF MicroLengthIndicator
    <3>2. 2 * c >= 11 * n /\ 1 + 3 + c <= d
      BY <1>3, <1>5, <1>7, <2>3, <3>1
    <3>3. n < 8
      BY <2>1, <3>2
    <3>4. 2^l = 8
      BY <1>1, <3>1
    <3> QED BY <1>4, <3>3, <3>4
  <2> QED BY <2>1, <2>2, <2>3
<1>8. CASE version = 3
  <2>1. mode \in {"NUM", "AN", "8", "KANJI"} /\ d <= 88
    BY <1>2, <1>5, <1>8 DEF MicroModes, MicroRoom
  <2>2. CASE mode = "NUM"
    <3>1. l = 5
      BY <1>4, <1>8, <2>2 DEF MicroLengthIndicator
    <3>2. 3 * c >= 10 * n /\ 2 + 5 + c <= d
      BY <1>3, <1>5, <1>8, <2>2, <3>1
    <3>3. n < 32
      BY <2>1, <3>2
    <3>4. 2^l = 32
      BY <1>1, <3>1
    <3> QED BY <1>4, <3>3, <3>4
  <2>3. CASE mode = "AN"
    <3>1. l = 4
      BY <1>4, <1>8, <2>3 DEF MicroLengthIndicator
    <3>2. 2 * c >= 11 * n /\ 2 + 4 + c <= d
      BY <1>3, <1>5, <1>8, <2>3, <3>1
    <3>3. n < 16
      BY <2>1, <3>2
    <3>4. 2^l = 16
      BY <1>1, <3>1
    <3> QED BY <1>4, <3>3, <3>4
  <2>4. CASE mode = "8"
    <3>1. l = 4
      BY <1>4, <1>8, <2>4 DEF MicroLengthIndicator
    <3>2. c = 8 * n /\ 2 + 4 + c <= d
      BY <1>3, <1>5, <1>8, <2>4, <3>1
    <3>3. n < 16
      BY <2>1, <3>2
    <3>4. 2^l = 16
      BY <1>1, <3>1
    <3> QED BY <1>4, <3>3, <3>4
  <2>5. CASE mode = "KANJI"
    <3>1. l = 3
      BY <1>4, <1>8, <2>5 DEF MicroLengthIndicator
    <3>2. c = 13 * n /\ 2 + 3 + c <= d
      BY <1>3, <1>5, <1>8, <2>5, <3>1
    <3>3. n < 8
      BY <2>1, <3>2
    <3>4. 2^l = 8
      BY <1>1, <3>1
    <3> QED BY <1>4, <3>3, <3>4
  <2> QED BY <2>1, <2>2, <2>3, <2>4, <2>5
<1>9. CASE version = 4
  <2>1. mode \in {"NUM", "AN", "8", "KANJI"} /\ d <= 128
    BY <1>2, <1>5, <1>9 DEF MicroModes, MicroRoom
  <2>2. CASE mode = "NUM"
    <3>1. l = 6
      BY <1>4, <1>9, <2>2 DEF MicroLengthIndicator
    <3>2. 3 * c >= 10 * n /\ 3 + 6 + c <= d
      BY <1>3, <1>5, <1>9, <2>2, <3>1
    <3>3. n < 64
      BY <2>1, <3>2
    <3>4. 2^l = 64
      BY <1>1, <3>1
    <3> QED BY <1>4, <3>3, <3>4
  <2>3. CASE mode = "AN"
    <3>1. l = 5
      BY <1>4, <1>9, <2>3 DEF MicroLengthIndicator
    <3>2. 2 * c >= 11 * n /\ 3 + 5 + c <= d
      BY <1>3, <1>5, <1>9, <2>3, <3>1
    <3>3. n < 32
      BY <2>1, <3>2
    <3>4. 2^l = 32
      BY <1>1, <3>1
    <3> QED BY <1>4, <3>3, <3>4
  <2>4. CASE mode = "8"
    <3>1. l = 5
      BY <1>4, <1>9, <2>4 DEF MicroLengthIndicator
    <3>2. c = 8 * n /\ 3 + 5 + c <= d
      BY <1>3, <1>5, <1>9, <2>4, <3>1
    <3>3. n < 32
      BY <2>1, <3>2
    <3>4. 2^l = 32
      BY <1>1, <3>1
    <3> QED BY <1>4, <3>3, <3>4
  <2>5. CASE mode = "KANJI"
    <3>1. l = 4
      BY <1>4, <1>9, <2>5 DEF MicroLengthIndicator
    <3>2. c = 13 * n /\ 3 + 4 + c <= d
      BY <1>3, <1>5, <1>9, <2>5, <3>1
    <3>3. n < 16
      BY <2>1, <3>2
    <3>4. 2^l = 16
      BY <1>1, <3>1
    <3> QED BY <1>4, <3>3, <3>4
  <2> QED BY <2>1, <2>2, <2>3, <2>4, <2>5
<1> QED BY <1>2, <1>6, <1>7, <1>8, <1>9

\* A Micro symbol's bits, and its whole bytes, if it has a level.
MicroBounds(version, level) ==
  \E m \in Nat : /\ m = MicroDataLengthBit(version, level) /\ 8 * ((m + 6) \div 8) <= MicroRoom(version)
                 /\ m <= MicroRoom(version)
(* The room of each Micro version (mqrspec.c:45-81). *)
LEMMA MicroBits ==
  ASSUME NEW version \in 1..4, NEW level \in Level
  PROVE  MicroBounds(version, level)
<1>1. \A e \in Nat : e \in {0, 2, 5, 6, 8, 10, 14} => e * 8 \in Nat
  OBVIOUS
<1>2. version \in {1, 2, 3, 4} /\ level \in {0, 1, 2, 3}
  BY DEF Level
<1>3. CASE version = 1
  <2>1. MicroDataLengthBit(version, level) \in {0, 20}
    BY <1>2, <1>3 DEF MicroDataLengthBit, MicroECCLength, MicroWidth
  <2> QED BY <1>3, <2>1 DEF MicroBounds, MicroRoom
<1>4. CASE version = 2
  <2>1. MicroDataLengthBit(version, level) \in {0, 32, 40}
    BY <1>2, <1>4 DEF MicroDataLengthBit, MicroECCLength, MicroWidth
  <2> QED BY <1>4, <2>1 DEF MicroBounds, MicroRoom
<1>5. CASE version = 3
  <2>1. MicroDataLengthBit(version, level) \in {0, 68, 84}
    BY <1>2, <1>5 DEF MicroDataLengthBit, MicroECCLength, MicroWidth
  <2> QED BY <1>5, <2>1 DEF MicroBounds, MicroRoom
<1>6. CASE version = 4
  <2>1. MicroDataLengthBit(version, level) \in {0, 80, 112, 128}
    BY <1>2, <1>6 DEF MicroDataLengthBit, MicroECCLength, MicroWidth
  <2> QED BY <1>6, <2>1 DEF MicroBounds, MicroRoom
<1> QED BY <1>2, <1>3, <1>4, <1>5, <1>6

(* The same for a Micro symbol, whose terminator grows with its version
   (qrinput.c:1257-1324). *)
THEOREM MicroPaddedIsRead ==
  ASSUME NEW stream \in Bitstream, NEW version \in 1..4, NEW level \in Level,
         Len(stream) <= MicroDataLengthBit(version, level)
  PROVE  LET b == AppendPaddingBitMQR(stream, version, level)
         IN  /\ b \in Bitstream /\ HoldsAt(b, 1, stream) /\ EndsAt(b, 1 + Len(stream), version, TRUE)
             /\ Len(b) <= MicroRoom(version)
<1>1. PICK n \in Nat, maxbits \in Nat, room \in Nat :
        /\ n = Len(stream) /\ maxbits = MicroDataLengthBit(version, level) /\ n <= maxbits
        /\ room = MicroRoom(version) /\ 8 * ((maxbits + 6) \div 8) <= room /\ maxbits <= room
  <2>1. PICK m \in Nat : /\ m = MicroDataLengthBit(version, level) /\ 8 * ((m + 6) \div 8) <= MicroRoom(version)
                         /\ m <= MicroRoom(version)
    BY MicroBits DEF MicroBounds
  <2>2. MicroRoom(version) \in Nat
    <3>1. version \in {1, 2, 3, 4}
      OBVIOUS
    <3> QED BY <3>1 DEF MicroRoom
  <2>3. Len(stream) \in Nat
    BY DEF Bitstream
  <2> QED BY <2>1, <2>2, <2>3
<1>2. PICK t \in 3..9 : t = 2 * version + 1
  OBVIOUS
<1> DEFINE maxwords == maxbits \div 8
           free == maxbits - n
           words == (n + t + 7) \div 8
           half == IF maxbits > 8 * words /\ words = maxwords THEN maxbits - 8 * words ELSE 0
           tail == IF words >= maxwords THEN <<>>
                   ELSE PadBytes(maxwords - words) \o FromNum(maxbits - 8 * maxwords, 0)
           b == AppendPaddingBitMQR(stream, version, level)
<1>3. b = IF free <= t THEN stream \o FromNum(free, 0)
          ELSE (stream \o FromNum((8 * words - n) + half, 0)) \o tail
  BY <1>1, <1>2 DEF AppendPaddingBitMQR
<1>4. /\ free \in Nat /\ words \in Nat /\ maxwords \in Nat /\ 8 * words >= n + t /\ 8 * words <= n + t + 7
      /\ 8 * maxwords <= maxbits /\ maxbits <= 8 * maxwords + 7
  <2>1. n <= maxbits
    BY <1>1, Zenon
  <2>2. free \in Nat
    BY <2>1
  <2>3. words \in Nat /\ 8 * words >= n + t /\ 8 * words <= n + t + 7
    OBVIOUS
  <2>4. maxwords \in Nat /\ 8 * maxwords <= maxbits /\ maxbits <= 8 * maxwords + 7
    OBVIOUS
  <2> QED BY <2>2, <2>3, <2>4, Zenon
<1>4e. maxbits > 8 * words /\ words = maxwords => maxbits - 8 * words \in 0..7
  BY <1>4
<1>4a. half \in Nat /\ half <= 7 /\ (half > 0 => 8 * words + half = maxbits) /\ (words # maxwords => half = 0)
  <2> HIDE DEF words, maxwords
  <2>1. half \in 0..7 /\ (words # maxwords => half = 0)
    BY <1>4e
  <2>2. half > 0 => 8 * words + half = maxbits
    BY <1>4
  <2> HIDE DEF half
  <2> QED BY <2>1, <2>2
<1>4b. PICK W \in Nat, M \in Nat, H \in Nat, F \in Nat :
        /\ W = words /\ M = maxwords /\ H = half /\ F = free /\ F = maxbits - n
        /\ 8 * W >= n + t /\ 8 * W <= n + t + 7 /\ 8 * M <= maxbits /\ maxbits <= 8 * M + 7
        /\ H <= 7 /\ (H > 0 => 8 * W + H = maxbits) /\ (W # M => H = 0)
  <2>1. free = maxbits - n
    OBVIOUS
  <2> HIDE DEF words, maxwords, half, free
  <2> QED BY <1>4, <1>4a, <2>1
<1>4c. /\ 8 * W >= n + t /\ 8 * W <= n + t + 7 /\ 8 * M <= maxbits /\ maxbits <= 8 * M + 7
       /\ H <= 7 /\ (H > 0 => 8 * W + H = maxbits) /\ (W # M => H = 0) /\ F = maxbits - n
  BY <1>4b, Zenon
<1>4d. n <= maxbits /\ maxbits <= room
  BY <1>1, Zenon
<1> DEFINE Takes(k, more) == n + k + Len(more) <= room
<1>5. \E k \in 0..24, more \in Bitstream : Padded(b, stream, k, more, t) /\ Takes(k, more)
  <2>1. CASE free <= t
    <3>1. free \in 0..24 /\ <<>> \in Bitstream
      BY <1>4, <2>1 DEF Bitstream
    <3>2. FromNum(free, 0) \in Bitstream
      BY <3>1, Zeros
    <3>3. b = (stream \o FromNum(free, 0)) \o <<>>
      <4>1. b = stream \o FromNum(free, 0)
        BY <1>3, <2>1
      <4>2. stream \o FromNum(free, 0) \in Bitstream
        BY <3>2, Joining
      <4> HIDE DEF b, free
      <4> QED BY <4>1, <4>2 DEF Bitstream
    <3>4. Takes(free, <<>>)
      BY <1>4d
    <3>5. Padded(b, stream, free, <<>>, t)
      <4> HIDE DEF b, free
      <4> QED BY <3>3 DEF Padded
    <3> HIDE DEF free, b, Takes
    <3> QED BY <3>1, <3>4, <3>5
  <2>2. CASE free > t
    <3> HIDE DEF words, maxwords, half, free
    <3>0. tail = IF W >= M THEN <<>> ELSE PadBytes(M - W) \o FromNum(maxbits - 8 * M, 0)
      BY <1>4b
    <3>0a. F > t
      BY <1>4b, <2>2, Zenon
    <3>1. PICK k \in 0..24 : k = (8 * W - n) + H /\ t <= k
      <4>1. (8 * W - n) + H \in 0..24 /\ t <= (8 * W - n) + H
        BY <1>4c
      <4> QED BY <4>1
    <3>2. b = (stream \o FromNum(k, 0)) \o tail
      <4>1. b = (stream \o FromNum((8 * words - n) + half, 0)) \o tail
        <5>1. ~(F <= t)
          BY <3>0a
        <5> HIDE DEF tail, b
        <5> QED BY <1>3, <1>4b, <5>1, Zenon
      <4> HIDE DEF b, tail
      <4> QED BY <1>4b, <3>1, <4>1
    <3>3. Padded(b, stream, k, tail, t)
      <4> HIDE DEF b, tail
      <4> QED BY <3>1, <3>2 DEF Padded
    <3> HIDE DEF tail, b
    <3>4. CASE W >= M
      <4>1. tail = <<>> /\ <<>> \in Bitstream /\ Len(<<>>) = 0
        BY <3>0, <3>4 DEF Bitstream
      <4>2. 8 * W + H <= room
        <5>1. CASE H > 0
          BY <1>4c, <1>4d, <5>1
        <5>2. CASE H = 0
          <6>1. PICK q \in Nat : q = (maxbits + 6) \div 8 /\ 8 * q <= room /\ maxbits + 6 <= 8 * q + 7
            BY <1>1
          <6>2. 8 * W <= n + t + 7 /\ n + t + 1 <= maxbits
            BY <1>4c, <3>0a
          <6>3. W <= q
            BY <6>1, <6>2
          <6> QED BY <5>2, <6>1, <6>3
        <5> QED BY <5>1, <5>2
      <4>3. n + k + 0 <= room
        BY <3>1, <4>2
      <4>4. Takes(k, tail)
        BY <4>1, <4>3
      <4> HIDE DEF Takes
      <4> QED BY <3>3, <4>1, <4>4
    <3>5. CASE W < M
      <4>1. PICK w \in Nat, r \in 0..7 : w = M - W /\ r = maxbits - 8 * M
        <5>1. M - W \in Nat /\ maxbits - 8 * M \in 0..7
          BY <1>4c, <3>5
        <5> QED BY <5>1
      <4>2. PICK y \in Bitstream, z \in Bitstream : y = PadBytes(w) /\ Len(y) = 8 * w /\ z = FromNum(r, 0) /\ Len(z) = r
        <5>1. PadBytes(w) \in Bitstream
          BY PaddingInBits
        <5>2. Sized(PadBytes(w), 8 * w)
          BY SizedPadBytes
        <5>3. r \in 0..24
          OBVIOUS
        <5>4. FromNum(r, 0) \in Bitstream /\ Len(FromNum(r, 0)) = r
          BY <5>3, Zeros
        <5> QED BY <5>1, <5>2, <5>4 DEF Sized
      <4>3. tail = y \o z
        <5>1. ~(W >= M)
          BY <3>5
        <5> QED BY <3>0, <4>1, <4>2, <5>1, Zenon
      <4>4. y \o z \in Bitstream /\ Len(y \o z) = Len(y) + Len(z)
        BY DEF Bitstream
      <4>5. tail \in Bitstream /\ Len(tail) = 8 * w + r
        BY <4>2, <4>3, <4>4, Zenon
      <4>6. n + k + (8 * w + r) <= room
        BY <1>4c, <1>4d, <3>1, <3>5, <4>1
      <4>7. Takes(k, tail)
        BY <4>5, <4>6
      <4> HIDE DEF Takes
      <4> QED BY <3>3, <4>5, <4>7
    <3> QED BY <3>4, <3>5
  <2>3. free <= t \/ free > t
    BY <1>2, <1>4
  <2> HIDE DEF free, b, Takes
  <2> QED BY <2>1, <2>2, <2>3, Zenon
<1> HIDE DEF b, Takes
<1>6. PICK k \in 0..24, more \in Bitstream : Padded(b, stream, k, more, t) /\ Takes(k, more)
  BY <1>5
<1>7. Ended(b, stream, k, more, t)
  <2>1. t \in 0..24
    OBVIOUS
  <2> QED BY <1>6, <2>1, PadEnds, Zenon
<1>8. b \in Bitstream /\ HoldsAt(b, 1, stream)
  BY <1>7, Zenon DEF Ended
<1>9. EndsAt(b, 1 + Len(stream), version, TRUE)
  BY <1>2, <1>7, Zenon DEF EndsAt, Ended
<1>10. Len(b) <= MicroRoom(version)
  BY <1>1, <1>6, <1>7 DEF Ended, Takes
<1> QED BY <1>8, <1>9, <1>10, Zenon DEF b

-----------------------------------------------------------------------------
(* From an input's stream to the text. *)

\* An input's stream begins as its first segment does.
LEMMA InputLeads ==
  ASSUME NEW i \in Inputs, i.entries # <<>>, ~i.mqr
  PROVE  \E id \in Marks \cup {3} : /\ Leads(CreateBitStream(i), id)
                                   /\ (id = 3) = (i.entries[1].mode = "STRUCTURE")
<1> DEFINE s == [k \in DOMAIN i.entries |-> EncodeBitStream(i.entries[k], i.version, i.mqr)]
<1>1. i.entries \in Seq(Segments) /\ i.version \in Nat /\ i.mqr = FALSE
  BY InputFields
<1>2. PICK n \in Nat \ {0} : DOMAIN i.entries = 1..n /\ Len(i.entries) = n
  BY <1>1
<1>3. CreateBitStream(i) = FlattenSeq(s)
  BY DEF CreateBitStream
<1>4. ASSUME NEW k \in 1..n
      PROVE  /\ i.entries[k] \in Segments /\ s[k] \in Seq(Binary)
             /\ s[k] = EncodeBitStream(i.entries[k], i.version, FALSE)
  <2>1. i.entries[k] \in Segments
    BY <1>1, <1>2
  <2>2. s[k] = EncodeBitStream(i.entries[k], i.version, FALSE)
    BY <1>1, <1>2
  <2>3. EncodeBitStream(i.entries[k], i.version, FALSE) \in Seq(Binary)
    BY <1>1, <2>1, SegmentInBits DEF Bitstream
  <2> QED BY <2>1, <2>2, <2>3
<1>5. s \in Seq(Seq(Binary)) /\ Len(s) = n /\ s # <<>>
  <2>1. DOMAIN s = 1..n /\ s = [k \in 1..n |-> s[k]]
    BY <1>2
  <2> DEFINE S == Seq(Binary)
  <2>2. \A k \in 1..n : s[k] \in S
    BY <1>4
  <2> HIDE DEF s, S
  <2>3. s \in Seq(S) /\ Len(s) = n
    BY <2>1, <2>2
  <2>4. s # <<>>
    BY <2>3
  <2> QED BY <2>3, <2>4 DEF S
<1> HIDE DEF s
<1>6. PICK g : Accumulates(g, s, n) /\ FlattenSeq(s) = g[n]
  BY <1>5, Flattened, Zenon
<1>7. \A k \in 1..n : g[k] = IF k = 1 THEN s[k] ELSE g[k - 1] \o s[k]
  BY <1>6, AccumulatesAt DEF Adds
<1>8. PICK id \in Marks \cup {3} : Leads(s[1], id) /\ (id = 3) = (i.entries[1].mode = "STRUCTURE")
  <2>1. 1 \in 1..n
    OBVIOUS
  <2>2. PICK e \in Segments : e = i.entries[1] /\ s[1] = EncodeBitStream(e, i.version, FALSE)
    BY <1>4, <2>1
  <2>3. CASE e.mode = "STRUCTURE"
    <3>1. FALSE \in BOOLEAN
      OBVIOUS
    <3>2. \E u \in Bitstream : EncodeBitStream(e, i.version, FALSE) = FromNum(4, 3) \o u
      BY <1>1, <2>3, <3>1, SetHeaderIs, Zenon
    <3>3. Leads(s[1], 3)
      BY <2>2, <3>2, Zenon DEF Leads
    <3> QED BY <2>2, <2>3, <3>3
  <2>4. CASE e.mode # "STRUCTURE"
    <3>1. PICK id \in Marks : Leads(EncodeBitStream(e, i.version, FALSE), id)
      BY <1>1, <2>4, EntryLeads
    <3>2. id # 3
      BY DEF Marks
    <3> QED BY <2>2, <2>4, <3>1, <3>2
  <2> QED BY <2>3, <2>4
<1>9. id \in Int
  BY DEF Marks
<1> DEFINE Good(x) == x \in Bitstream /\ Leads(x, id)
           T == {k \in Nat : k + 1 <= n => Good(g[k + 1])}
<1>10. 0 \in T
  <2>1. 1 \in 1..n
    OBVIOUS
  <2>2. g[1] = s[1] /\ s[1] \in Bitstream
    BY <1>4, <1>7, <2>1 DEF Bitstream
  <2>3. Good(g[1])
    BY <1>8, <2>2
  <2> HIDE DEF Good
  <2> QED BY <2>3
<1>11. ASSUME NEW k \in Nat, k \in T PROVE k + 1 \in T
  <2> SUFFICES ASSUME k + 2 <= n PROVE Good(g[k + 2])
    OBVIOUS
  <2>1. PICK c \in 1..n, d \in 1..n : c = k + 1 /\ d = k + 2 /\ d - 1 = c /\ d # 1
    OBVIOUS
  <2>2. Good(g[c])
    <3> HIDE DEF Good
    <3> QED BY <1>11, <2>1
  <2>3. PICK x \in Bitstream, y \in Bitstream : x = g[c] /\ y = s[d]
    BY <1>4, <2>2 DEF Bitstream
  <2>4. g[d] = x \o y
    BY <1>7, <2>1, <2>3
  <2>5. x \o y \in Bitstream
    BY Joining
  <2>6. Leads(x \o y, id)
    BY <1>9, <2>2, <2>3, LeadsOn, Zenon
  <2>7. Good(g[d])
    BY <2>4, <2>5, <2>6, Zenon
  <2> HIDE DEF Good
  <2> QED BY <2>1, <2>7
<1> HIDE DEF T
<1>12. Nat \subseteq T
  BY <1>10, <1>11, Induction
<1>13. PICK m \in Nat : m + 1 = n
  OBVIOUS
<1>14. Good(g[n])
  <2>1. m \in T
    BY <1>12
  <2> HIDE DEF Good
  <2> QED BY <1>13, <2>1 DEF T
<1> QED BY <1>3, <1>6, <1>8, <1>14, Zenon

(* A reader takes what a stream begins with for the header of a set if, and only if,
   it is one (qrinput.c:735-760). *)
THEOREM HeaderTells ==
  ASSUME NEW i \in Inputs, ReadableInput(i), NEW b \in Bitstream, HoldsAt(b, 1, CreateBitStream(i)),
         i.entries = <<>> /\ ~i.mqr => ValueAt(b, 1, 4) # 3
  PROVE  (IF HeaderIn(b, i.mqr) = <<>> THEN 1 ELSE 21) = FirstOf(i)
<1>0. i.entries \in Seq(Segments) /\ i.mqr \in BOOLEAN
  BY InputFields
<1>1. HeaderIn(b, i.mqr) = <<>> <=> ~(~i.mqr /\ ValueAt(b, 1, 4) = 3)
  <2>1. 1 + 4 - 1 = 4
    OBVIOUS
  <2>2. ValueAt(b, 1, 4) = Number(SubSeq(b, 1, 4))
    BY <2>1 DEF ValueAt
  <2>3. HeaderIn(b, i.mqr) = IF ~i.mqr /\ Number(SubSeq(b, 1, 4)) = 3
          THEN <<[index |-> Number(SubSeq(b, 5, 5 + 4 - 1)), last |-> Number(SubSeq(b, 9, 9 + 4 - 1)),
                  parity |-> Number(SubSeq(b, 13, 13 + 8 - 1))]>> ELSE <<>>
    BY <2>1 DEF HeaderIn
  <2> QED BY <2>2, <2>3
<1>2. CASE i.mqr
  <2>1. HeaderIn(b, i.mqr) = <<>>
    BY <1>1, <1>2
  <2>2. ASSUME i.entries # <<>>, i.entries[1].mode = "STRUCTURE" PROVE FALSE
    <3>1. 1 \in DOMAIN i.entries /\ i.entries[1] \in Segments
      BY <1>0, <2>2
    <3>2. Readable(i.entries[1], i.version, i.mqr)
      BY <1>2, <3>1 DEF ReadableInput
    <3> QED BY <2>2, <3>1, <3>2, ToldIsText
  <2> QED BY <2>1, <2>2 DEF FirstOf
<1>3. CASE ~i.mqr /\ i.entries = <<>>
  BY <1>1, <1>3 DEF FirstOf
<1>4. CASE ~i.mqr /\ i.entries # <<>>
  <2>1. PICK id \in Marks \cup {3} : /\ Leads(CreateBitStream(i), id)
                                    /\ (id = 3) = (i.entries[1].mode = "STRUCTURE")
    BY <1>4, InputLeads
  <2>2. id \in 0..15
    BY DEF Marks
  <2>3. ValueAt(b, 1, 4) = id
    BY <2>1, <2>2, LeadIsRead
  <2>4. HeaderIn(b, i.mqr) = <<>> <=> ~(i.entries[1].mode = "STRUCTURE")
    BY <1>1, <1>4, <2>1, <2>3
  <2> QED BY <1>4, <2>4 DEF FirstOf
<1> QED BY <1>0, <1>2, <1>3, <1>4

(* Places each leading to a later one can be followed to their end. *)
LEMMA AnyChainExists ==
  ASSUME NEW m \in Nat, NEW n \in Nat, NEW stop, NEW next, \A p \in m..n : p \notin stop => next[p] \in p + 1..n, NEW piece
  PROVE  \E f : Chained(f, m, n, stop, piece, next)
<1> DEFINE At(w, p) == IF p \in stop THEN piece[p] ELSE piece[p] \o w[next[p]]
           Part(w, k) == \A p \in m..n : p + k > n => w[p] = At(w, p)
           T == {k \in Nat : \E w : Part(w, k)}
<1>1. 0 \in T
  <2>1. Part([p \in Nat |-> <<>>], 0)
    OBVIOUS
  <2> HIDE DEF Part
  <2> QED BY <2>1
<1>2. ASSUME NEW k \in Nat, k \in T PROVE k + 1 \in T
  <2>1. PICK w : Part(w, k)
    BY <1>2
  <2>2. PICK p \in Int : p = n - k
    OBVIOUS
  <2>3. CASE p < m
    <3>1. Part(w, k + 1)
      BY <2>1, <2>2, <2>3
    <3> HIDE DEF Part
    <3> QED BY <3>1
  <2>4. CASE p >= m
    <3>1. PICK x : x = At(w, p)
      OBVIOUS
    <3>2. PICK u : u = [q \in m..n |-> IF q = p THEN x ELSE w[q]]
      OBVIOUS
    <3>3. p \in m..n
      BY <2>2, <2>4
    <3>4. u[p] = x /\ \A q \in m..n : q # p => u[q] = w[q]
      BY <3>2, <3>3
    <3>5. ASSUME NEW q \in m..n, q >= p PROVE At(u, q) = At(w, q)
      <4>1. CASE q \in stop
        BY <4>1
      <4>2. CASE q \notin stop
        <5>1. next[q] \in q + 1..n
          BY <4>2
        <5>2. next[q] \in m..n /\ next[q] # p
          BY <3>3, <3>5, <5>1
        <5>3. u[next[q]] = w[next[q]]
          BY <3>4, <5>2
        <5> QED BY <4>2, <5>3
      <4> QED BY <4>1, <4>2
    <3> HIDE DEF At
    <3>6. ASSUME NEW q \in m..n, q + (k + 1) > n PROVE u[q] = At(u, q)
      <4>1. q >= p
        BY <2>2, <3>6
      <4>2. CASE q = p
        BY <3>1, <3>4, <3>5, <4>1, <4>2
      <4>3. CASE q # p
        <5>1. q + k > n
          BY <2>2, <4>1, <4>3
        <5> QED BY <2>1, <3>4, <3>5, <4>1, <4>3, <5>1
      <4> QED BY <4>2, <4>3
    <3>7. Part(u, k + 1)
      BY <3>6
    <3> HIDE DEF Part
    <3> QED BY <3>7
  <2> QED BY <2>2, <2>3, <2>4
<1> HIDE DEF T
<1>3. Nat \subseteq T
  BY <1>1, <1>2, Induction
<1>4. PICK w : Part(w, n + 1)
  <2>1. n + 1 \in T
    BY <1>3
  <2> HIDE DEF Part
  <2> QED BY <2>1 DEF T
<1>5. PICK f : f = [p \in m..n |-> w[p]]
  OBVIOUS
<1>6. ASSUME NEW p \in m..n PROVE f[p] = At(f, p)
  <2>1. f[p] = w[p] /\ w[p] = At(w, p)
    <3>1. p + (n + 1) > n
      OBVIOUS
    <3> HIDE DEF At
    <3> QED BY <1>4, <1>5, <3>1
  <2>2. CASE p \in stop
    BY <2>1, <2>2
  <2>3. CASE p \notin stop
    <3>1. next[p] \in m..n
      BY <2>3
    <3>2. f[next[p]] = w[next[p]]
      BY <1>5, <3>1
    <3> QED BY <2>1, <2>3, <3>2
  <2> QED BY <2>2, <2>3
<1>7. f = [p \in m..n |-> At(f, p)]
  <2> HIDE DEF At
  <2> QED BY <1>5, <1>6
<1> QED BY <1>7 DEF Chained

(* What a reader makes of a stream, from the first segment on and from every place. *)
LEMMA DecodeIs ==
  ASSUME NEW b \in Bitstream, NEW first \in {1, 21}, NEW version, NEW mqr
  PROVE  \E D : Decodes(D, b, first, version, mqr) /\ Decode(b, first, version, mqr) = D[1]
<1> DEFINE Ends(p) == EndsAt(b, p, version, mqr)
           Seg(p) == SegmentAt(b, p, version, mqr)
           Is(f) == f = [p \in 1..Len(b) + 1 |-> IF Ends(p) THEN <<>> ELSE Seg(p).text \o f[p + Seg(p).bits]]
           from == CHOOSE f : Is(f)
<1>1. Decode(b, first, version, mqr) = from[first]
  BY Zenon DEF Decode
<1>2. PICK n \in Nat : n = Len(b) + 1
  BY DEF Bitstream
<1>3. \A p \in 1..n : ~Ends(p) => p + Seg(p).bits \in p + 1..n
  BY <1>2, Zenon DEF EndsAt
<1> HIDE DEF Ends, Seg
<1>4. \E f : Is(f)
  <2> DEFINE stop == {p \in 1..n : Ends(p)}
             piece == [p \in 1..n |-> IF Ends(p) THEN <<>> ELSE Seg(p).text]
             next == [p \in 1..n |-> p + Seg(p).bits]
  <2>1. \A p \in 1..n : p \notin stop => next[p] \in p + 1..n
    BY <1>3
  <2>2. 1 \in Nat
    OBVIOUS
  <2>3. \A f : Chained(f, 1, n, stop, piece, next) => Is(f)
    <3> TAKE f
    <3> HAVE Chained(f, 1, n, stop, piece, next)
    <3>1. f = [p \in 1..n |-> IF p \in stop THEN piece[p] ELSE piece[p] \o f[next[p]]]
      BY Zenon DEF Chained
    <3>2. ASSUME NEW p \in 1..n
          PROVE  (IF p \in stop THEN piece[p] ELSE piece[p] \o f[next[p]])
                   = IF Ends(p) THEN <<>> ELSE Seg(p).text \o f[p + Seg(p).bits]
      OBVIOUS
    <3>3. f = [p \in 1..n |-> IF Ends(p) THEN <<>> ELSE Seg(p).text \o f[p + Seg(p).bits]]
      BY <3>1, <3>2
    <3> QED BY <1>2, <3>3, Zenon
  <2> HIDE DEF stop, piece, next, Is
  <2>4. \E f : Chained(f, 1, n, stop, piece, next)
    BY <2>1, <2>2, AnyChainExists
  <2> QED BY <2>3, <2>4
<1>5. Is(from)
  BY <1>4, Zenon
<1> HIDE DEF from
<1>6. \A p \in 1..n : from[p] = IF Ends(p) THEN <<>> ELSE Seg(p).text \o from[p + Seg(p).bits]
  BY <1>2, <1>5
<1> DEFINE D == [p \in Nat |-> IF p = 1 THEN from[first] ELSE from[p]]
<1>7. D[1] = from[first] /\ D[1] = D[first]
  OBVIOUS
<1>8. ASSUME NEW p \in 1..n, p # 1 \/ first = 1
      PROVE  D[p] = IF Ends(p) THEN <<>> ELSE Seg(p).text \o D[p + Seg(p).bits]
  <2>1. D[p] = from[p] /\ p \in Nat
    BY <1>8
  <2>2. CASE Ends(p)
    BY <1>6, <2>1, <2>2
  <2>3. CASE ~Ends(p)
    <3>1. PICK q \in 1..n : q = p + Seg(p).bits /\ q # 1
      <4>1. p + Seg(p).bits \in p + 1..n
        BY <1>3, <2>3
      <4> QED BY <4>1
    <3>2. D[q] = from[q]
      BY <3>1
    <3> HIDE DEF D
    <3> QED BY <1>6, <2>1, <2>3, <3>1, <3>2
  <2> QED BY <2>2, <2>3
<1> HIDE DEF D
<1>9. Decodes(D, b, first, version, mqr)
  <2>1. \A p \in 1..n : p # 1 \/ first = 1 => D[p] = IF Ends(p) THEN <<>> ELSE Seg(p).text \o D[p + Seg(p).bits]
    BY <1>8, Zenon
  <2> QED BY <1>2, <1>7, <2>1, Zenon DEF Decodes, Ends, Seg
<1> QED BY <1>1, <1>7, <1>9, Zenon

\* What is read when all bits of an input are padded to what its symbol has.
PaddedStream(i) ==
  IF i.mqr THEN AppendPaddingBitMQR(CreateBitStream(i), i.version, i.level)
  ELSE AppendPaddingBit(CreateBitStream(i), i.version, i.level)
FitsIn(i) ==
  Len(CreateBitStream(i)) <= IF i.mqr THEN MicroDataLengthBit(i.version, i.level) ELSE 8 * DataLength(i.version, i.level)

(* For every input whose entries a reader can read and whose bits fit, what is read
   of the padded stream is what the entries hold, in their order: in symbols and
   Micro symbols of every version, with and without a set's header
   (qrinput.c:1055-1142, 1192-1324). *)
THEOREM StreamIsRead ==
  ASSUME NEW i \in Inputs, ReadableInput(i), FitsIn(i), i.mqr \/ i.version >= 1
  PROVE  TextIn(PaddedStream(i), i.version, i.mqr) = FlattenSeq(ToldList(i))
<1>1. /\ i.version \in 0..VersionMax /\ i.version \in Nat /\ i.level \in Level /\ i.mqr \in BOOLEAN
      /\ i.mqr => i.version \in 1..4
  BY InputFields DEF MicroVersionMax
<1>2. PICK stream \in Bitstream : stream = CreateBitStream(i)
  BY CreateInBits
<1>3. PICK b : b = PaddedStream(i)
  OBVIOUS
<1>4. /\ b \in Bitstream /\ HoldsAt(b, 1, stream) /\ EndsAt(b, 1 + Len(stream), i.version, i.mqr)
      /\ Roomy(b, i.version, i.mqr) /\ (stream = <<>> /\ ~i.mqr => ValueAt(b, 1, 4) # 3)
  <2>1. CASE i.mqr
    <3>1. b = AppendPaddingBitMQR(stream, i.version, i.level)
      BY <1>2, <1>3, <2>1, Zenon DEF PaddedStream
    <3>2. Len(stream) <= MicroDataLengthBit(i.version, i.level)
      BY <1>2, <2>1, Zenon DEF FitsIn
    <3>3. i.version \in 1..4 /\ i.mqr = TRUE
      BY <1>1, <2>1
    <3>4. b \in Bitstream /\ HoldsAt(b, 1, stream) /\ EndsAt(b, 1 + Len(stream), i.version, TRUE) /\ Len(b) <= MicroRoom(i.version)
      BY <1>1, <3>1, <3>2, <3>3, MicroPaddedIsRead, Zenon
    <3>5. Roomy(b, i.version, TRUE)
      BY <3>3, <3>4, RoomyIn, Zenon
    <3> QED BY <3>3, <3>4, <3>5, Zenon
  <2>2. CASE ~i.mqr
    <3>1. b = AppendPaddingBit(stream, i.version, i.level)
      BY <1>2, <1>3, <2>2, Zenon DEF PaddedStream
    <3>2. Len(stream) <= 8 * DataLength(i.version, i.level)
      BY <1>2, <2>2, Zenon DEF FitsIn
    <3>3. DataLength(i.version, i.level) \in Nat /\ DataLength(i.version, i.level) # 0
      <4>1. i.version \in 1..VersionMax /\ i.level \in 0..3
        BY <1>1, <2>2 DEF Level, VersionMax
      <4>2. PICK v, l : v = i.version /\ l = i.level
        OBVIOUS
      <4>3. Fits(v, l)
        BY <4>1, <4>2, TableFits
      <4>4. DataLength(v, l) \in Nat \ {0}
        BY <4>3, Zenon DEF Fits
      <4> QED BY <4>2, <4>4
    <3>4. i.mqr = FALSE
      BY <1>1, <2>2
    <3>5. /\ b \in Bitstream /\ HoldsAt(b, 1, stream) /\ EndsAt(b, 1 + Len(stream), i.version, FALSE)
          /\ (stream = <<>> /\ DataLength(i.version, i.level) # 0 => ValueAt(b, 1, 4) # 3)
      BY <1>1, <3>1, <3>2, <3>3, PaddedIsRead, Zenon
    <3>6. Roomy(b, i.version, FALSE)
      BY DEF Roomy
    <3> QED BY <3>3, <3>4, <3>5, <3>6, Zenon
  <2> QED BY <2>1, <2>2
<1>5. (IF HeaderIn(b, i.mqr) = <<>> THEN 1 ELSE 21) = FirstOf(i)
  <2>1. i.entries = <<>> => stream = <<>>
    <3> SUFFICES ASSUME i.entries = <<>> PROVE CreateBitStream(i) = <<>>
      BY <1>2
    <3>1. [k \in DOMAIN i.entries |-> EncodeBitStream(i.entries[k], i.version, i.mqr)] = <<>>
      OBVIOUS
    <3> QED BY <3>1 DEF CreateBitStream, FlattenSeq
  <2>2. HoldsAt(b, 1, CreateBitStream(i))
    BY <1>2, <1>4, Zenon
  <2>3. i.entries = <<>> /\ ~i.mqr => ValueAt(b, 1, 4) # 3
    BY <1>4, <2>1, Zenon
  <2> QED BY <1>4, <2>2, <2>3, HeaderTells, Zenon
<1>6. FirstOf(i) \in {1, 21}
  BY DEF FirstOf
<1>7. PICK D : Decodes(D, b, FirstOf(i), i.version, i.mqr) /\ Decode(b, FirstOf(i), i.version, i.mqr) = D[1]
  <2>1. PICK first \in {1, 21} : first = FirstOf(i)
    BY <1>6
  <2>2. \E D : Decodes(D, b, first, i.version, i.mqr) /\ Decode(b, first, i.version, i.mqr) = D[1]
    BY <1>4, DecodeIs
  <2> QED BY <2>1, <2>2, Zenon
<1>8. TextIn(b, i.version, i.mqr) = D[1]
  BY <1>5, <1>7, Zenon DEF TextIn
<1>9. PICK t : t = FlattenSeq(ToldList(i))
  OBVIOUS
<1>10. Reads(D, 1, 1 + Len(stream), t) /\ Begins(1 + Len(stream), FirstOf(i))
  <2>1. HoldsAt(b, 1, CreateBitStream(i))
    BY <1>2, <1>4, Zenon
  <2>2. /\ Reads(D, 1, 1 + Len(CreateBitStream(i)), FlattenSeq(ToldList(i)))
        /\ Begins(1 + Len(CreateBitStream(i)), FirstOf(i))
    BY <1>4, <1>7, <2>1, InputIsRead, Zenon
  <2> QED BY <1>2, <1>9, <2>2, Zenon
<1>11. D[1 + Len(stream)] = <<>>
  <2>1. 1 + Len(stream) \in 1..Len(b) + 1
    <3>1. Len(stream) \in Nat /\ Len(b) \in Nat /\ 1 + Len(stream) <= Len(b) + 1
      BY <1>4 DEF HoldsAt, Bitstream
    <3> QED BY <3>1
  <2>2. 1 + Len(stream) # 1 \/ FirstOf(i) = 1
    BY <1>10, Zenon DEF Begins
  <2> QED BY <1>4, <1>7, <2>1, <2>2, Zenon DEF Decodes
<1>12. t \in Seq(Int) /\ D[1] = t \o <<>>
  <2>1. <<>> \in Seq(Int)
    OBVIOUS
  <2> QED BY <1>10, <1>11, <2>1, Zenon DEF Reads
<1>13. t \o <<>> = t
  BY <1>12
<1> QED BY <1>3, <1>8, <1>9, <1>12, <1>13, Zenon

-----------------------------------------------------------------------------
(* Sequences, and small letters. *)

\* r is s and x behind it.
IsLonger(r, s, x) ==
  /\ r # <<>> /\ Len(r) = Len(s) + 1 /\ r[Len(s) + 1] = x /\ \A k \in 1..Len(s) : r[k] = s[k]
  /\ Len(s) = 0 => s = <<>>
(* Appending, place by place. *)
LEMMA OneMore ==
  ASSUME NEW Z, NEW s \in Seq(Z), NEW x \in Z
  PROVE  Append(s, x) \in Seq(Z) /\ Len(s) \in Nat /\ IsLonger(Append(s, x), s, x)
<1>1. Append(s, x) \in Seq(Z) /\ Len(Append(s, x)) = Len(s) + 1 /\ Len(s) \in Nat /\ (Len(s) = 0 => s = <<>>)
  OBVIOUS
<1>2. Append(s, x)[Len(s) + 1] = x /\ \A k \in 1..Len(s) : Append(s, x)[k] = s[k]
  OBVIOUS
<1>3. Append(s, x) # <<>>
  BY <1>1
<1> QED BY <1>1, <1>2, <1>3 DEF IsLonger

(* One more sequence goes behind the others. *)
LEMMA FlattenAppend ==
  ASSUME NEW S, NEW s \in Seq(Seq(S)), NEW x \in Seq(S)
  PROVE  FlattenSeq(Append(s, x)) = FlattenSeq(s) \o x
<1> DEFINE Z == Seq(S)
<1>1. s \in Seq(Z) /\ x \in Z
  OBVIOUS
<1> HIDE DEF Z
<1>2. PICK r : r = Append(s, x)
  OBVIOUS
<1>3. PICK n \in Nat : /\ n = Len(s) /\ r \in Seq(Z) /\ r # <<>> /\ Len(r) = n + 1 /\ r[n + 1] = x
                       /\ \A k \in 1..n : r[k] = s[k]
                       /\ n = 0 => s = <<>>
  <2>1. r \in Seq(Z) /\ Len(s) \in Nat /\ IsLonger(r, s, x)
    BY <1>1, <1>2, OneMore, Zenon
  <2> QED BY <2>1, Zenon DEF IsLonger
<1>4. PICK h : Accumulates(h, r, n + 1) /\ FlattenSeq(r) = h[n + 1]
  <2>1. PICK m : m = Len(r)
    OBVIOUS
  <2>2. r \in Seq(Seq(S)) /\ r # <<>>
    BY <1>3, Zenon DEF Z
  <2>3. \E h : Accumulates(h, r, m) /\ FlattenSeq(r) = h[m]
    BY <2>1, <2>2, Flattened, Zenon
  <2>4. m = n + 1
    BY <1>3, <2>1, Zenon
  <2> QED BY <2>3, <2>4, Zenon
<1>5. \A k \in 1..n + 1 : h[k] = IF k = 1 THEN r[k] ELSE h[k - 1] \o r[k]
  <2>1. \A k \in 1..n + 1 : Adds(h, r, k)
    BY <1>4, AccumulatesAt, Zenon
  <2> QED BY <2>1 DEF Adds
<1>6. CASE n = 0
  <2>1. h[1] = x
    BY <1>3, <1>5, <1>6
  <2>2. s = <<>>
    BY <1>3, <1>6
  <2>3. FlattenSeq(s) = <<>>
    BY <2>2 DEF FlattenSeq
  <2>4. <<>> \o x = x
    OBVIOUS
  <2>5. n + 1 = 1
    BY <1>6
  <2> QED BY <1>2, <1>4, <2>1, <2>3, <2>4, <2>5, Zenon
<1>7. CASE n # 0
  <2>1. s # <<>>
    <3> SUFFICES ASSUME s = <<>> PROVE FALSE
      OBVIOUS
    <3>1. Len(s) = 0
      OBVIOUS
    <3> QED BY <1>3, <1>7, <3>1
  <2>2. PICK g : Accumulates(g, s, n) /\ FlattenSeq(s) = g[n]
    BY <1>3, <2>1, Flattened, Zenon
  <2>3. \A k \in 1..n : g[k] = IF k = 1 THEN s[k] ELSE g[k - 1] \o s[k]
    <3>1. \A k \in 1..n : Adds(g, s, k)
      BY <2>2, AccumulatesAt, Zenon
    <3> QED BY <3>1 DEF Adds
  <2> DEFINE T == {k \in Nat : k + 1 <= n => g[k + 1] = h[k + 1]}
  <2>4. 0 \in T
    <3>1. 1 \in 1..n /\ 1 \in 1..n + 1
      BY <1>7
    <3> QED BY <1>3, <1>5, <2>3, <3>1
  <2>5. ASSUME NEW k \in Nat, k \in T PROVE k + 1 \in T
    <3> SUFFICES ASSUME k + 2 <= n PROVE g[k + 2] = h[k + 2]
      OBVIOUS
    <3>1. PICK c \in 1..n, d \in 1..n : c = k + 1 /\ d = k + 2 /\ d - 1 = c /\ d # 1 /\ d \in 1..n + 1
      OBVIOUS
    <3>2. g[c] = h[c]
      BY <2>5, <3>1
    <3>3. g[d] = g[c] \o s[d] /\ h[d] = h[c] \o r[d]
      BY <1>5, <2>3, <3>1
    <3> QED BY <1>3, <3>1, <3>2, <3>3
  <2> HIDE DEF T
  <2>6. Nat \subseteq T
    BY <2>4, <2>5, Induction
  <2>7. g[n] = h[n]
    <3>1. PICK m \in Nat : m + 1 = n
      BY <1>7
    <3>2. m \in T
      BY <2>6
    <3> QED BY <3>1, <3>2 DEF T
  <2>8. h[n + 1] = h[n] \o x
    <3>1. n + 1 \in 1..n + 1 /\ n + 1 # 1 /\ (n + 1) - 1 = n
      BY <1>7
    <3> QED BY <1>3, <1>5, <3>1
  <2> QED BY <1>2, <1>4, <2>2, <2>7, <2>8, Zenon
<1> QED BY <1>6, <1>7

(* A sequence is its first element and the rest, from every place on. *)
LEMMA FirstAndRest ==
  ASSUME NEW w \in Seq(Int), NEW n \in Nat, n = Len(w)
  PROVE  /\ SubSeq(w, n + 1, n) = <<>> /\ SubSeq(w, 1, n) = w
         /\ \A p \in 1..n : SubSeq(w, p, n) = << w[p] >> \o SubSeq(w, p + 1, n)
<1>1. SubSeq(w, n + 1, n) = <<>> /\ SubSeq(w, 1, n) = w
  OBVIOUS
<1>2. ASSUME NEW p \in 1..n PROVE SubSeq(w, p, n) = << w[p] >> \o SubSeq(w, p + 1, n)
  <2>1. SubSeq(w, p, p) = << w[p] >> /\ w[p] \in Int
    <3>1. PICK v : v = SubSeq(w, p, p)
      OBVIOUS
    <3>2. v \in Seq(Int) /\ Len(v) = 1 /\ v[1] = w[p] /\ w[p] \in Int
      BY <3>1, SubSeqProperties
    <3>3. v = << w[p] >>
      BY <3>2
    <3> QED BY <3>1, <3>2, <3>3
  <2>2. CASE p = n
    <3>1. SubSeq(w, p + 1, n) = <<>> /\ SubSeq(w, p, n) = << w[p] >>
      BY <1>1, <2>1, <2>2
    <3>2. << w[p] >> \o <<>> = << w[p] >>
      BY <2>1
    <3> QED BY <3>1, <3>2, Zenon
  <2>3. CASE p # n
    <3>1. p \in 1..Len(w) /\ p \in p..Len(w) /\ p < Len(w)
      BY <2>3
    <3>2. SubSeq(w, p, p) \o SubSeq(w, p + 1, Len(w)) = SubSeq(w, p, Len(w))
      BY <3>1, PartsJoin
    <3> QED BY <2>1, <3>2, Zenon
  <2> QED BY <2>2, <2>3
<1> QED BY <1>1, <1>2

(* Without Kanji every small letter, and nothing else, becomes a capital
   (split.c:267-289). *)
THEOREM UpperIsCapitals ==
  ASSUME NEW t \in Seq(Byte)
  PROVE  DupAndToUpper(t, FALSE) = Capitals(t, FALSE) /\ Capitals(t, FALSE) \in Seq(Byte)
<1> DEFINE Up(c) == IF c \in 97..122 THEN c - 32 ELSE c
           from(f, p) == CASE p > Len(t) -> <<>>
                         [] IdentifyMode(t, p, FALSE) = "KANJI" -> SubSeq(t, p, p + 1) \o f[p + 2]
                         [] OTHER -> << IF t[p] \in 97..122 THEN t[p] - 32 ELSE t[p] >> \o f[p + 1]
           Is(f) == f = [p \in 1..Len(t) + 1 |-> from(f, p)]
           u == CHOOSE f : Is(f)
<1>1. PICK n \in Nat : n = Len(t) /\ DOMAIN t = 1..n /\ \A i \in 1..n : t[i] \in Byte
  OBVIOUS
<1>2. PICK w : w = [i \in 1..n |-> Up(t[i])]
  OBVIOUS
<1>3. Capitals(t, FALSE) = w
  BY <1>1, <1>2 DEF Capitals
<1>4. w \in Seq(Byte) /\ w \in Seq(Int) /\ Len(w) = n
  <2>1. \A i \in 1..n : Up(t[i]) \in Byte /\ Up(t[i]) \in Int
    <3> TAKE i \in 1..n
    <3>1. PICK c \in 0..255 : c = t[i]
      BY <1>1 DEF Byte
    <3>2. Up(c) \in 0..255 /\ Up(c) \in Int
      OBVIOUS
    <3> QED BY <3>1, <3>2 DEF Byte
  <2> HIDE DEF Up
  <2> QED BY <1>2, <2>1
<1>5. DupAndToUpper(t, FALSE) = u[1]
  BY Zenon DEF DupAndToUpper
<1>6. \A p, f : IdentifyMode(t, p, FALSE) # "KANJI"
  BY DEF IdentifyMode
<1>7. ASSUME NEW f, NEW p \in 1..n + 1 PROVE from(f, p) = IF p = n + 1 THEN <<>> ELSE << Up(t[p]) >> \o f[p + 1]
  <2>1. CASE p = n + 1
    <3>1. p > Len(t)
      BY <1>1, <2>1
    <3> QED BY <1>6, <2>1, <3>1, Zenon
  <2>2. CASE p # n + 1
    <3>1. ~(p > Len(t))
      BY <1>1, <2>2
    <3> QED BY <1>6, <2>2, <3>1, Zenon
  <2> QED BY <2>1, <2>2
<1> HIDE DEF from
<1>8. PICK v : v = [p \in 1..n + 1 |-> SubSeq(w, p, n)]
  OBVIOUS
<1>9. Is(v)
  <2>1. ASSUME NEW p \in 1..n + 1 PROVE v[p] = from(v, p)
    <3>1. CASE p = n + 1
      BY <1>4, <1>7, <1>8, <3>1, FirstAndRest, ZenonT(60)
    <3>2. CASE p # n + 1
      <4>1. p \in 1..n /\ p + 1 \in 1..n + 1
        BY <3>2
      <4>2. v[p] = SubSeq(w, p, n) /\ v[p + 1] = SubSeq(w, p + 1, n)
        BY <1>8, <4>1
      <4>3. w[p] = Up(t[p])
        BY <1>2, <4>1, Zenon
      <4>4. SubSeq(w, p, n) = << w[p] >> \o SubSeq(w, p + 1, n)
        BY <1>4, <4>1, FirstAndRest
      <4>5. from(v, p) = << Up(t[p]) >> \o v[p + 1]
        BY <1>7, <3>2, Zenon
      <4> HIDE DEF Up
      <4> QED BY <4>2, <4>3, <4>4, <4>5
    <3> QED BY <3>1, <3>2
  <2>2. v = [p \in 1..n + 1 |-> from(v, p)]
    <3>1. v = [p \in 1..n + 1 |-> v[p]]
      BY <1>8
    <3> QED BY <2>1, <3>1
  <2> QED BY <1>1, <2>2, Zenon
<1>10. Is(u)
  <2> HIDE DEF Is
  <2> QED BY <1>9, Zenon
<1>11. ASSUME NEW f, Is(f), NEW p \in 1..n + 1
       PROVE  f[p] = IF p = n + 1 THEN <<>> ELSE << Up(t[p]) >> \o f[p + 1]
  <2>1. f[p] = from(f, p)
    <3>1. f = [q \in 1..n + 1 |-> from(f, q)]
      BY <1>1, <1>11, Zenon
    <3> QED BY <3>1, Zenon
  <2> QED BY <1>7, <2>1, Zenon
<1> HIDE DEF Is, u, Up
<1> DEFINE T == {k \in Nat : k <= n => \A p \in 1..n + 1 : p = n + 1 - k => u[p] = v[p]}
<1>12. 0 \in T
  <2>1. n + 1 \in 1..n + 1 /\ n + 1 - 0 = n + 1
    OBVIOUS
  <2>2. u[n + 1] = <<>> /\ v[n + 1] = <<>>
    BY <1>9, <1>10, <1>11, <2>1, Zenon
  <2> QED BY <2>1, <2>2
<1>13. ASSUME NEW k \in Nat, k \in T PROVE k + 1 \in T
  <2> SUFFICES ASSUME k + 1 <= n, NEW p \in 1..n + 1, p = n + 1 - (k + 1) PROVE u[p] = v[p]
    OBVIOUS
  <2>1. p # n + 1 /\ p + 1 \in 1..n + 1 /\ p + 1 = n + 1 - k /\ k <= n
    OBVIOUS
  <2>2. u[p + 1] = v[p + 1]
    BY <1>13, <2>1
  <2>3. u[p] = << Up(t[p]) >> \o u[p + 1] /\ v[p] = << Up(t[p]) >> \o v[p + 1]
    BY <1>9, <1>10, <1>11, <2>1, Zenon
  <2> QED BY <2>2, <2>3, Zenon
<1> HIDE DEF T
<1>14. Nat \subseteq T
  BY <1>12, <1>13, Induction
<1>15. u[1] = v[1]
  <2>1. n \in T /\ 1 \in 1..n + 1 /\ 1 = n + 1 - n
    BY <1>14
  <2> QED BY <2>1 DEF T
<1>16. v[1] = w
  <2>1. v[1] = SubSeq(w, 1, n)
    BY <1>8
  <2> QED BY <1>4, <2>1, FirstAndRest
<1> QED BY <1>3, <1>4, <1>5, <1>15, <1>16, Zenon

-----------------------------------------------------------------------------
(* What the segments of an ordinary call say: split off round by round. *)

(* An ordinary call: a text without Kanji, or bytes, for one symbol; and what its
   input says of it when a text is left to be split. *)
Plain(c) == c.op \in {"string", "data"} /\ ~c.structured /\ (c.op = "string" => c.kanji = FALSE)
AskedOf(c) ==
  CASE c.op = "string" -> IF c.casesensitive THEN c.text ELSE Capitals(c.text, FALSE)
    [] c.op = "data" -> c.text
PlainEntries(s) == \A k \in DOMAIN s : s[k].mode \in {"NUM", "AN", "8"} /\ Legible(s[k].mode, s[k].data)
Datas(s) == [k \in DOMAIN s |-> s[k].data]
Says(c, i, t) ==
  /\ i.fnc1 = 0 /\ PlainEntries(i.entries) /\ t \in Seq(Byte)
  /\ FlattenSeq(Datas(i.entries)) \o t = AskedOf(c)

(* The data of segments is numbers. *)
LEMMA DatasType ==
  ASSUME NEW s \in Seq(Segments)
  PROVE  Datas(s) \in Seq(Seq(Int)) /\ FlattenSeq(Datas(s)) \in Seq(Int)
<1>1. \A e \in Segments : e.data \in Seq(Int)
  BY DEF Segments
<1> DEFINE Z == Seq(Int)
<1>2. \A e \in Segments : e.data \in Z
  BY <1>1
<1> HIDE DEF Z
<1>3. Datas(s) \in Seq(Z)
  BY <1>2 DEF Datas
<1>4. Datas(s) \in Seq(Seq(Int))
  BY <1>3 DEF Z
<1> QED BY <1>4, FlatType, Zenon

(* One more segment's data goes behind that of the others. *)
LEMMA OneMoreEntry ==
  ASSUME NEW s \in Seq(Segments), PlainEntries(s), NEW e \in Segments, e.mode \in {"NUM", "AN", "8"}, Legible(e.mode, e.data)
  PROVE  /\ PlainEntries(Append(s, e))
         /\ FlattenSeq(Datas(Append(s, e))) = FlattenSeq(Datas(s)) \o e.data
<1>1. PICK r : r = Append(s, e)
  OBVIOUS
<1>2. IsLonger(r, s, e) /\ r \in Seq(Segments) /\ Len(s) \in Nat
  BY <1>1, OneMore, Zenon
<1>3. DOMAIN r = 1..Len(s) + 1 /\ DOMAIN s = 1..Len(s)
  BY <1>2 DEF IsLonger
<1>4. PlainEntries(r)
  <2>1. ASSUME NEW k \in DOMAIN r PROVE r[k] = e \/ (k \in DOMAIN s /\ r[k] = s[k])
    BY <1>2, <1>3 DEF IsLonger
  <2> QED BY <2>1, Zenon DEF PlainEntries
<1> DEFINE Z == Seq(Int)
<1>5. Datas(s) \in Seq(Z) /\ e.data \in Z /\ Datas(r) \in Seq(Z)
  BY <1>2, DatasType DEF Segments
<1>6. DOMAIN Datas(s) = DOMAIN s /\ DOMAIN Datas(r) = DOMAIN r /\ (\A k \in DOMAIN s : Datas(s)[k] = s[k].data)
      /\ \A k \in DOMAIN r : Datas(r)[k] = r[k].data
  BY DEF Datas
<1> HIDE DEF Z
<1>7. Datas(r) = Append(Datas(s), e.data)
  <2>1. PICK x \in Z : x = e.data
    BY <1>5
  <2>2. PICK d \in Seq(Z) : d = Datas(s)
    BY <1>5
  <2>3. PICK f \in Seq(Z) : f = Datas(r)
    BY <1>5
  <2>4. PICK n \in Nat : n = Len(s) /\ DOMAIN d = 1..n /\ DOMAIN f = 1..n + 1
    BY <1>2, <1>3, <1>6, <2>2, <2>3
  <2>5. \A k \in 1..n : f[k] = d[k]
    <3> TAKE k \in 1..n
    <3>1. k \in DOMAIN r /\ k \in DOMAIN s /\ r[k] = s[k]
      BY <1>2, <1>3, <2>4 DEF IsLonger
    <3> QED BY <1>6, <2>2, <2>3, <3>1, Zenon
  <2>6. f[n + 1] = x
    <3>1. n + 1 \in DOMAIN r /\ r[n + 1] = e
      BY <1>2, <1>3, <2>4 DEF IsLonger
    <3> QED BY <1>6, <2>1, <2>3, <3>1, Zenon
  <2>7. Len(d) = n /\ Len(f) = n + 1
    BY <2>4
  <2>8. f = Append(d, x)
    BY <2>5, <2>6, <2>7
  <2> QED BY <2>1, <2>2, <2>3, <2>8, Zenon
<1>8. FlattenSeq(Append(Datas(s), e.data)) = FlattenSeq(Datas(s)) \o e.data
  BY <1>5, FlattenAppend DEF Z
<1> QED BY <1>1, <1>4, <1>7, <1>8, Zenon

(* An input's other fields stay. *)
LEMMA OthersKept ==
  ASSUME NEW i \in Inputs, NEW s, NEW v
  PROVE  /\ [i EXCEPT !.entries = s].entries = s /\ [i EXCEPT !.entries = s].fnc1 = i.fnc1
         /\ [i EXCEPT !.version = v].entries = i.entries /\ [i EXCEPT !.version = v].fnc1 = i.fnc1
         /\ [i EXCEPT !.version = i.version] = i /\ [i EXCEPT !.entries = i.entries] = i
<1>1. i = [x \in {"version", "level", "mqr", "fnc1", "appid", "entries"} |-> i[x]]
  BY DEF Inputs
<1> QED BY <1>1

(* Without Kanji a round of the splitting takes a segment of digits, letters or
   bytes (split.c:83-242). *)
LEMMA EatPlain ==
  ASSUME NEW t \in Seq(Byte), t # <<>>, NEW v \in Nat
  PROVE  /\ Eat(t, FALSE, v).mode \in {"NUM", "AN", "8"} /\ Eat(t, FALSE, v).size \in 1..Len(t)
         /\ Acceptable(Eat(t, FALSE, v).mode, SubSeq(t, 1, Eat(t, FALSE, v).size))
<1>1. t \in Seq(Nat)
  BY BytesAreNumbers, Zenon
<1>2. FALSE \in BOOLEAN
  OBVIOUS
<1>3. /\ Eat(t, FALSE, v).size \in 1..Len(t)
      /\ Acceptable(Eat(t, FALSE, v).mode, SubSeq(t, 1, Eat(t, FALSE, v).size))
  BY <1>1, <1>2, SplitTakesWhatIsAcceptable, Zenon
<1> DEFINE mode(p) == IdentifyMode(t, p, FALSE)
<1>4. \A p : mode(p) # "KANJI"
  BY DEF IdentifyMode
<1>5. mode(1) \in {"NUM", "AN", "8"}
  <2>1. 1 <= Len(t)
    OBVIOUS
  <2> QED BY <2>1 DEF IdentifyMode
<1>6. Eat8(t, FALSE, v).mode = "8"
  BY <1>1, <1>2, Eat8Takes, Zenon
<1>60. \A m, n : Segment(m, n).mode = m
  BY DEF Segment
<1>7. EatAn(t, FALSE, v) = Eat8(t, FALSE, v) \/ EatAn(t, FALSE, v).mode = "AN"
  <2>1. \/ EatAn(t, FALSE, v) = Eat8(t, FALSE, v)
        \/ \E n : EatAn(t, FALSE, v) = Segment("AN", n)
    BY Zenon DEF EatAn
  <2> QED BY <1>60, <2>1, Zenon
<1>8. EatAn(t, FALSE, v).mode = "AN" \/ EatAn(t, FALSE, v).mode = "8"
  BY <1>6, <1>7, Zenon
<1>9. EatNum(t, FALSE, v).mode \in {"NUM", "AN", "8"}
  <2>1. \/ EatNum(t, FALSE, v) = Eat8(t, FALSE, v)
        \/ EatNum(t, FALSE, v) = EatAn(t, FALSE, v)
        \/ \E n : EatNum(t, FALSE, v) = Segment("NUM", n)
    BY Zenon DEF EatNum
  <2>2. \/ EatNum(t, FALSE, v).mode = "NUM" \/ EatNum(t, FALSE, v).mode = "AN" \/ EatNum(t, FALSE, v).mode = "8"
    BY <1>6, <1>60, <1>8, <2>1, Zenon
  <2> QED BY <2>2
<1>10. Eat(t, FALSE, v).mode \in {"NUM", "AN", "8"}
  <2> HIDE DEF mode
  <2>1. Eat(t, FALSE, v) = CASE mode(1) = "NUM" -> EatNum(t, FALSE, v)
                            [] mode(1) = "AN" -> EatAn(t, FALSE, v)
                            [] mode(1) = "KANJI" -> EatKanji(t)
                            [] mode(1) = "8" -> Eat8(t, FALSE, v)
    BY Zenon DEF Eat, mode
  <2> QED BY <1>5, <1>6, <1>8, <1>9, <2>1
<1> QED BY <1>3, <1>10, Zenon

(* What the library accepts in these modes is legible. *)
LEMMA PlainIsLegible ==
  ASSUME NEW mode \in {"NUM", "AN", "8"}, NEW data \in Seq(Byte), Acceptable(mode, data)
  PROVE  Legible(mode, data)
<1>1. \A k \in DOMAIN data : data[k] \in Byte
  OBVIOUS
<1> QED BY <1>1 DEF Legible, Acceptable

(* A text is its first characters and the others. *)
LEMMA CutInTwo ==
  ASSUME NEW t \in Seq(Byte), NEW n \in 1..Len(t)
  PROVE  /\ SubSeq(t, 1, n) \in Seq(Byte) /\ SubSeq(t, n + 1, Len(t)) \in Seq(Byte)
         /\ SubSeq(t, 1, n) \o SubSeq(t, n + 1, Len(t)) = t
<1>1. SubSeq(t, 1, n) \in Seq(Byte) /\ SubSeq(t, n + 1, Len(t)) \in Seq(Byte)
  OBVIOUS
<1>2. t \in Seq(Int)
  BY BytesAreNumbers, Zenon
<1>3. SubSeq(t, 1, Len(t)) = t
  BY <1>2
<1>4. CASE n < Len(t)
  <2>1. 1 \in 1..Len(t) /\ n \in 1..Len(t)
    OBVIOUS
  <2>2. SubSeq(t, 1, n) \o SubSeq(t, n + 1, Len(t)) = SubSeq(t, 1, Len(t))
    BY <1>2, <1>4, <2>1, PartsJoin
  <2> QED BY <1>1, <1>3, <2>2, Zenon
<1>5. CASE n = Len(t)
  <2>1. SubSeq(t, n + 1, Len(t)) = <<>> /\ SubSeq(t, 1, n) = t
    BY <1>2, <1>3, <1>5
  <2>2. t \o <<>> = t
    BY <1>2
  <2> QED BY <1>1, <2>1, <2>2, Zenon
<1> QED BY <1>4, <1>5

(* Concatenation. *)
LEMMA Associates ==
  ASSUME NEW f \in Seq(Int), NEW g \in Seq(Int), NEW h \in Seq(Int)
  PROVE  (f \o g) \o h = f \o (g \o h) /\ f \o <<>> = f /\ <<>> \o f = f
OBVIOUS

(* What is split off is one more segment, and the rest is left (split.c:83-311). *)
LEMMA SplitSays ==
  ASSUME NEW c, NEW i \in Inputs, NEW t, t # <<>>, Says(c, i, t), NEW mode, NEW size,
         mode = Eat(t, FALSE, i.version).mode, size = Eat(t, FALSE, i.version).size
  PROVE  Says(c, [i EXCEPT !.entries = Append(i.entries, Entry(mode, SubSeq(t, 1, size)))], SubSeq(t, size + 1, Len(t)))
<1>1. t \in Seq(Byte) /\ i.fnc1 = 0 /\ PlainEntries(i.entries) /\ FlattenSeq(Datas(i.entries)) \o t = AskedOf(c)
  BY Zenon DEF Says
<1>2. i.version \in Nat /\ i.entries \in Seq(Segments)
  BY InputFields, Zenon
<1>3. mode \in {"NUM", "AN", "8"} /\ size \in 1..Len(t) /\ Acceptable(mode, SubSeq(t, 1, size))
  BY <1>1, <1>2, EatPlain, Zenon
<1>4. PICK n \in 1..Len(t) : n = size
  BY <1>3, Zenon
<1>5. PICK data \in Seq(Byte) : data = SubSeq(t, 1, n)
  BY <1>1, CutInTwo, Zenon
<1>6. PICK left \in Seq(Byte) : left = SubSeq(t, n + 1, Len(t))
  BY <1>1, CutInTwo, Zenon
<1>7. t \in Seq(Int) /\ data \in Seq(Int) /\ left \in Seq(Int)
  BY <1>1, BytesAreNumbers, Zenon
<1>8. data \o left = t
  BY <1>1, <1>5, <1>6, CutInTwo, Zenon
<1>9. PICK e : e = Entry(mode, data)
  BY Zenon
<1>10. e.mode = mode /\ e.data = data
  <2>1. \A m, d : Entry(m, d).mode = m /\ Entry(m, d).data = d
    BY DEF Entry
  <2> QED BY <1>9, <2>1, Zenon
<1>11. Acceptable(mode, data)
  BY <1>3, <1>4, <1>5, Zenon
<1>12. e \in Segments
  <2>1. {"NUM", "AN", "8"} \subseteq SplittableMode
    BY DEF SplittableMode
  <2>2. mode \in SplittableMode
    BY <1>3, <2>1, Zenon
  <2> QED BY <1>7, <1>9, <1>11, <2>2, EntryIsSegment, Zenon
<1>13. Legible(mode, data)
  BY <1>3, <1>11, PlainIsLegible, Zenon
<1>14. PICK s \in Seq(Segments) : s = Append(i.entries, e)
  BY <1>2, <1>12, OneMore, Zenon
<1>15. PlainEntries(s) /\ FlattenSeq(Datas(s)) = FlattenSeq(Datas(i.entries)) \o data
  BY <1>1, <1>2, <1>3, <1>10, <1>12, <1>13, <1>14, OneMoreEntry, Zenon
<1>16. FlattenSeq(Datas(s)) \o left = AskedOf(c)
  <2>1. PICK f \in Seq(Int) : f = FlattenSeq(Datas(i.entries))
    BY <1>2, DatasType, Zenon
  <2>2. (f \o data) \o left = f \o (data \o left)
    BY <1>7, Associates, ZenonT(60)
  <2> QED BY <1>1, <1>8, <1>15, <2>1, <2>2, Zenon
<1>17. [i EXCEPT !.entries = s].entries = s /\ [i EXCEPT !.entries = s].fnc1 = 0
  BY <1>1, OthersKept, Zenon
<1>18. Says(c, [i EXCEPT !.entries = s], left)
  BY <1>15, <1>16, <1>17, Zenon DEF Says
<1> QED BY <1>4, <1>5, <1>6, <1>9, <1>14, <1>18, Zenon

(* The entries of an ordinary call are those a reader can read, and it is told
   what was asked for. *)
LEMMA PlainIsReadable ==
  ASSUME NEW c, NEW i \in Inputs, Says(c, i, <<>>), i.mqr \/ i.version >= 1,
         i.mqr => \A k \in DOMAIN i.entries : HasMode(i.entries[k].mode, i.version, TRUE)
  PROVE  ReadableInput(i) /\ FlattenSeq(ToldList(i)) = AskedOf(c)
<1>1. PlainEntries(i.entries) /\ FlattenSeq(Datas(i.entries)) \o <<>> = AskedOf(c)
  BY Zenon DEF Says
<1>2. /\ i.version \in 0..VersionMax /\ i.version \in Nat /\ i.mqr \in BOOLEAN /\ i.entries \in Seq(Segments)
      /\ i.mqr => i.version \in 1..4
  BY InputFields DEF MicroVersionMax
<1>3. ~i.mqr => i.version \in 1..40
  BY <1>2 DEF VersionMax
<1>4. ASSUME NEW k \in DOMAIN i.entries PROVE Readable(i.entries[k], i.version, i.mqr) /\ Told(i.entries[k]) = i.entries[k].data
  <2>1. PICK e : e = i.entries[k]
    OBVIOUS
  <2>2. e.mode \in {"NUM", "AN", "8"} /\ Legible(e.mode, e.data)
    BY <1>1, <2>1, Zenon DEF PlainEntries
  <2>3. e.mode \in SplittableMode
    BY <2>2 DEF SplittableMode
  <2>4. Sayable(e.mode, i.version, i.mqr)
    <3>1. CASE i.mqr
      <4>1. HasMode(e.mode, i.version, TRUE)
        BY <2>1, <3>1, Zenon
      <4>2. (e.mode = "AN" => i.version >= 2) /\ (e.mode = "8" => i.version >= 3)
        BY <4>1 DEF HasMode
      <4>3. e.mode \in MicroModes(i.version)
        BY <1>2, <2>2, <3>1, <4>2 DEF MicroModes
      <4> QED BY <1>2, <3>1, <4>3, Zenon DEF Sayable
    <3>2. CASE ~i.mqr
      BY <1>3, <2>3, <3>2, Zenon DEF Sayable
    <3> QED BY <3>1, <3>2
  <2>5. Told(e) = e.data
    BY <2>2 DEF Told
  <2> QED BY <1>3, <2>1, <2>2, <2>3, <2>4, <2>5, Zenon DEF Readable
<1>5. ReadableInput(i)
  BY <1>4, Zenon DEF ReadableInput
<1>6. ToldList(i) = Datas(i.entries)
  BY <1>4 DEF ToldList, Datas
<1>7. FlattenSeq(Datas(i.entries)) \o <<>> = FlattenSeq(Datas(i.entries))
  <2>1. PICK f \in Seq(Int) : f = FlattenSeq(Datas(i.entries))
    BY <1>2, DatasType, Zenon
  <2>2. f \o <<>> = f
    OBVIOUS
  <2> QED BY <2>1, <2>2, Zenon
<1> QED BY <1>1, <1>5, <1>6, <1>7, Zenon

-----------------------------------------------------------------------------
(* The stages of a call that write and pad the stream. *)

(* A text is all that is left when its splitting begins (split.c:291-311). *)
LEMMA StringBegins ==
  ASSUME NEW c, CallOK(c), c.op = "string", Plain(c), NEW v \in Int, NEW level \in Level, NEW mqr \in BOOLEAN, ValidInput(v, level, mqr)
  PROVE  Says(c, NewInput(v, level, mqr), IF c.casesensitive THEN c.text ELSE DupAndToUpper(c.text, c.kanji))
<1>1. c.text \in Seq(Byte) /\ c.kanji = FALSE /\ c.casesensitive \in BOOLEAN
  BY DEF CallOK, Plain
<1>2. PICK t : t = IF c.casesensitive THEN c.text ELSE DupAndToUpper(c.text, c.kanji)
  BY Zenon
<1>3. t \in Seq(Byte) /\ t = AskedOf(c)
  <2>1. DupAndToUpper(c.text, c.kanji) = Capitals(c.text, FALSE) /\ Capitals(c.text, FALSE) \in Seq(Byte)
    BY <1>1, UpperIsCapitals, Zenon
  <2>2. AskedOf(c) = IF c.casesensitive THEN c.text ELSE Capitals(c.text, FALSE)
    BY DEF AskedOf
  <2> QED BY <1>1, <1>2, <2>1, <2>2, Zenon
<1>4. PICK i : i = NewInput(v, level, mqr)
  BY Zenon
<1>5. i.fnc1 = 0 /\ i.entries = <<>>
  BY <1>4 DEF NewInput
<1>6. PlainEntries(<<>>) /\ Datas(<<>>) = <<>>
  BY DEF PlainEntries, Datas
<1>7. FlattenSeq(<<>>) = <<>>
  BY DEF FlattenSeq
<1>8. <<>> \o t = t
  <2>1. t \in Seq(Int)
    BY <1>3, BytesAreNumbers, Zenon
  <2> QED BY <2>1, Associates, Zenon
<1>9. Says(c, i, t)
  BY <1>3, <1>5, <1>6, <1>7, <1>8, Zenon DEF Says
<1> QED BY <1>2, <1>4, <1>9, Zenon

(* Bytes are one segment from the beginning (qrencode.c:679-706). *)
LEMMA BytesBegin ==
  ASSUME NEW c, c.op = "data", c.text \in Seq(Byte), c.text # <<>>, NEW new \in Inputs, new.fnc1 = 0
  PROVE  Says(c, [new EXCEPT !.entries = <<Entry("8", c.text)>>], <<>>)
<1>1. PICK t \in Seq(Byte) : t = c.text /\ t # <<>>
  BY Zenon
<1>2. t \in Seq(Int)
  BY BytesAreNumbers, Zenon
<1>3. PICK e : e = Entry("8", t)
  BY Zenon
<1>4. e.mode = "8" /\ e.data = t
  BY <1>3 DEF Entry
<1>5. Acceptable("8", t)
  BY <1>1 DEF Acceptable
<1>6. e \in Segments
  BY <1>2, <1>3, <1>5, EntryIsSegment DEF SplittableMode
<1>7. Legible("8", t)
  BY <1>5, PlainIsLegible
<1>8. PlainEntries(<<>>) /\ Datas(<<>>) = <<>> /\ <<>> \in Seq(Segments)
  BY DEF PlainEntries, Datas
<1>9. FlattenSeq(<<>>) = <<>>
  BY DEF FlattenSeq
<1>10. PICK s : s = Append(<<>>, e)
  BY Zenon
<1>11. s = << e >>
  <2>1. e \in Segments
    BY <1>6
  <2> QED BY <1>10
<1>12. PlainEntries(s) /\ FlattenSeq(Datas(s)) = <<>> \o t
  <2>1. "8" \in {"NUM", "AN", "8"}
    OBVIOUS
  <2> QED BY <1>4, <1>6, <1>7, <1>8, <1>9, <1>10, <2>1, OneMoreEntry, Zenon
<1>13. (<<>> \o t) \o <<>> = t
  <2>1. <<>> \o t = t /\ t \o <<>> = t
    BY <1>2, Associates, Zenon
  <2> QED BY <2>1, Zenon
<1>14. AskedOf(c) = t
  BY <1>1 DEF AskedOf
<1>15. [new EXCEPT !.entries = s].entries = s /\ [new EXCEPT !.entries = s].fnc1 = 0
  BY OthersKept, Zenon
<1>16. <<>> \in Seq(Byte)
  OBVIOUS
<1>17. Says(c, [new EXCEPT !.entries = s], <<>>)
  BY <1>12, <1>13, <1>14, <1>15, <1>16, Zenon DEF Says
<1> QED BY <1>1, <1>3, <1>11, <1>17, Zenon

(* The version does not change what segments say. *)
LEMMA VersionSays ==
  ASSUME NEW c, NEW i \in Inputs, NEW t, Says(c, i, t), NEW v
  PROVE  Says(c, [i EXCEPT !.version = v], t)
<1>1. PICK j : j = [i EXCEPT !.version = v]
  BY Zenon
<1>2. j.fnc1 = i.fnc1 /\ j.entries = i.entries
  BY <1>1, OthersKept, Zenon
<1> QED BY <1>1, <1>2, Zenon DEF Says

(* The bits that are padded are those of all segments, in the version they are
   padded for, and there is room for them. *)
SaidPart ==
  /\ stage = "pad" => bits = CreateBitStream(input)
  /\ stage = "check" => bits = PaddedStream(input) /\ FitsIn(input) /\ (input.mqr \/ input.version >= 1)

(* What the segments of an ordinary call say, with the text that is left, is what
   was asked for; and a Micro symbol has their modes. *)
WordsPart ==
  Plain(call) =>
    /\ ~Idle => struct = <<>> /\ stage \notin {"cut", "parts", "inputs"}
    /\ stage = "split" => call.op = "string" /\ Says(call, input, rest)
    /\ stage \in {"merge", "write", "pad", "check"} => Says(call, input, <<>>)
    /\ stage \in {"pad", "check"} /\ input.mqr =>
         \A k \in DOMAIN input.entries : HasMode(input.entries[k].mode, input.version, TRUE)

(* The stages that write a stream, or take it over, leave it whole. *)
LEMMA StreamIsWhole ==
  ASSUME FeedInv, SaidPart, MergeBitStream \/ ConvertData \/ InitBlocks
  PROVE  SaidPart'
<1>1. stage \notin {"idle", "done", "failed"}
  BY DEF MergeBitStream, ConvertData, InitBlocks
<1>2. input \in Inputs
  BY <1>1, AtWork, Zenon
<1>3. CASE MergeBitStream
  <2>1. \/ stage' \in {"failed", "write"}
        \/ stage' = "pad" /\ bits' = CreateBitStream(input) /\ input' = input
    BY <1>3 DEF MergeBitStream, Fail
  <2> QED BY <2>1, Zenon DEF SaidPart
<1>4. CASE ConvertData
  <2> DEFINE v == MinimumVersion((Len(CreateBitStream(input)) + 7) \div 8, input.level)
             w == IF v > input.version THEN v ELSE input.version
  <2>1. \/ stage' = "failed"
        \/ /\ bits' = CreateBitStream(input)
           /\ stage' = IF v > input.version THEN "write" ELSE "pad"
           /\ input' = [input EXCEPT !.version = w]
    BY <1>4, Zenon DEF ConvertData, Fail
  <2> HIDE DEF v
  <2>2. stage' = "pad" => bits' = CreateBitStream(input) /\ input' = [input EXCEPT !.version = input.version]
    BY <2>1
  <2>3. stage' = "pad" => input' = input
    BY <1>2, <2>2, OthersKept, Zenon
  <2>4. stage' # "check"
    BY <2>1
  <2> QED BY <2>2, <2>3, <2>4, Zenon DEF SaidPart
<1>5. CASE InitBlocks
  <2> DEFINE capacity == IF input.mqr THEN MicroDataLengthBit(input.version, input.level)
                         ELSE 8 * DataLength(input.version, input.level)
             padded == IF input.mqr THEN AppendPaddingBitMQR(bits, input.version, input.level)
                       ELSE AppendPaddingBit(bits, input.version, input.level)
  <2>0. stage = "pad" /\ input' = input
    BY <1>5 DEF InitBlocks, inputVars
  <2>1. \/ Len(bits) > capacity /\ stage' = "failed"
        \/ ~(Len(bits) > capacity) /\ bits' = padded /\ stage' = "check"
    BY <1>5, Zenon DEF InitBlocks, Fail
  <2>2. CASE stage' = "failed"
    BY <2>2 DEF SaidPart
  <2>3. CASE ~(Len(bits) > capacity) /\ bits' = padded /\ stage' = "check"
    <3>1. bits = CreateBitStream(input) /\ bits \in Bitstream /\ (input.mqr \/ input.version >= 1)
      BY <2>0 DEF SaidPart, FeedInv, TypedPart
    <3>2. bits' = PaddedStream(input')
      BY <2>0, <2>3, <3>1, Zenon DEF PaddedStream
    <3>3. PICK n \in Nat : n = Len(bits)
      BY <3>1 DEF Bitstream
    <3>4. capacity \in Nat
      <4>1. /\ input.version \in 0..VersionMax /\ input.version \in Nat /\ input.level \in Level
            /\ input.mqr => input.version \in 1..MicroVersionMax /\ MicroECCLength(input.version, input.level) # 0
        BY <1>2, InputFields, Zenon
      <4>2. CASE input.mqr
        <5>1. MicroDataLengthBit(input.version, input.level) \in Nat
          BY <4>1, <4>2, MicroTableFits, Zenon DEF MicroFits
        <5> QED BY <4>2, <5>1, Zenon
      <4>3. CASE ~input.mqr
        <5>1. input.version \in 1..VersionMax /\ input.level \in 0..3
          BY <3>1, <4>1, <4>3 DEF Level, VersionMax
        <5>2. PICK d \in Nat : d = DataLength(input.version, input.level)
          BY <5>1, TableFits, Zenon DEF Fits
        <5>3. capacity = 8 * d
          BY <4>3, <5>2, Zenon
        <5>4. 8 * d \in Nat
          OBVIOUS
        <5> QED BY <5>3, <5>4, Zenon
      <4> QED BY <4>2, <4>3, Zenon
    <3>5. PICK m \in Nat : m = capacity
      BY <3>4, Zenon
    <3>6. n <= m
      <4>1. ~(n > m)
        BY <2>3, <3>3, <3>5, Zenon
      <4> QED BY <4>1
    <3>7. FitsIn(input')
      BY <2>0, <3>1, <3>3, <3>5, <3>6, Zenon DEF FitsIn
    <3>8. input'.mqr \/ input'.version >= 1
      BY <2>0, <3>1, Zenon
    <3> HIDE DEF capacity, padded
    <3> QED BY <2>3, <3>2, <3>7, <3>8 DEF SaidPart
  <2> QED BY <2>1, <2>2, <2>3, Zenon
<1> QED BY <1>3, <1>4, <1>5, Zenon

(* A call's first stage has no stream yet. *)
LEMMA NoStreamBegins ==
  ASSUME \/ QRcode_encodeString \/ QRcode_encodeData \/ MakeInput \/ MakeStruct \/ ClearCache \/ AskFrame
         \/ SplitString \/ AppendPart \/ CutEntry \/ KeepEntry \/ EndCut \/ AppendInput
         \/ StartFilling \/ PlaceCode \/ ApplyMask \/ KeepBest \/ Deliver
  PROVE  stage' \notin {"write", "pad", "check"}
<1>1. \A inputs, parity : BeginSet(inputs, parity) => stage' \in {"failed", "merge"}
  BY Zenon DEF BeginSet, Fail
<1>2. CASE QRcode_encodeString \/ QRcode_encodeData \/ MakeInput \/ MakeStruct \/ ClearCache \/ AskFrame
  BY <1>2 DEF QRcode_encodeString, QRcode_encodeData, MakeInput, MakeStruct, ClearCache, AskFrame, Begin
<1>3. CASE SplitString \/ AppendPart
  BY <1>3 DEF SplitString, AppendPart, Fail
<1>4. CASE CutEntry \/ KeepEntry
  <2>1. stage = "cut" /\ (stage' = stage \/ stage' = "failed")
    BY <1>4, Zenon DEF CutEntry, KeepEntry, Fail
  <2> QED BY <2>1
<1>5. CASE EndCut
  <2>1. stage' \in {"failed", "merge"}
    BY <1>1, <1>5, Zenon DEF EndCut
  <2> QED BY <2>1
<1>6. CASE AppendInput
  <2>1. stage = "inputs" /\ (stage' \in {"failed", "merge"} \/ stage' = stage \/ stage' = "failed")
    BY <1>1, <1>6, Zenon DEF AppendInput, Fail
  <2> QED BY <2>1
<1>7. CASE StartFilling \/ PlaceCode \/ ApplyMask \/ KeepBest \/ Deliver
  BY <1>7 DEF StartFilling, PlaceCode, ApplyMask, KeepBest, Deliver, Fail
<1> QED BY <1>2, <1>3, <1>4, <1>5, <1>6, <1>7

\* What the blocks take from the stream leaves it as it is.
LEMMA StreamStays ==
  ASSUME InitRS \/ EncodeRS
  PROVE  /\ stage = "check" /\ stage' \in {"check", "frame"}
         /\ UNCHANGED <<call, bits, input, rest, struct>>
BY DEF InitRS, EncodeRS, callVars, inputVars, cacheVars

(* Every action of the library keeps what the bits are. *)
LEMMA LibrarySays ==
  ASSUME FeedInv, SaidPart, Next
  PROVE  SaidPart'
<1>1. CASE InitRS \/ EncodeRS
  BY <1>1, StreamStays DEF SaidPart
<1>2. CASE stage' \notin {"write", "pad", "check"}
  BY <1>2 DEF SaidPart
<1> QED BY <1>1, <1>2, StreamIsWhole, NoStreamBegins, Zenon DEF Next

\* An ordinary call that has failed or is done says nothing more.
LEMMA WordsEnd ==
  ASSUME stage' \in {"idle", "done", "failed"} \/ ~Plain(call')
  PROVE  WordsPart'
BY DEF WordsPart, Idle

(* A call begins with all of its text left. *)
LEMMA WordsBegin ==
  ASSUME FeedInv, QRcode_encodeString \/ QRcode_encodeData \/ MakeInput \/ MakeStruct \/ ClearCache \/ AskFrame
  PROVE  WordsPart'
<1> DEFINE c == Head(script)
<1>0. script # <<>>
  BY Zenon DEF QRcode_encodeString, QRcode_encodeData, MakeInput, MakeStruct, ClearCache, AskFrame, Begin
<1>00. CallOK(c)
  BY <1>0, CallAsked, Zenon
<1>1. CASE QRcode_encodeString
  <2> DEFINE left == IF c.casesensitive THEN c.text ELSE DupAndToUpper(c.text, c.kanji)
             new == NewInput(c.version, c.level, c.mqr)
             valid == c.text # <<>> /\ ValidInput(c.version, c.level, c.mqr) /\ (c.structured => c.version > 0)
  <2>1. /\ c.op = "string" /\ call' = c /\ struct' = <<>> /\ rest' = left /\ input' = new
        /\ \/ valid /\ stage' = "split"
           \/ stage' = "failed"
    BY <1>1, Zenon DEF QRcode_encodeString, Begin
  <2>2. ASSUME valid, Plain(c) PROVE Says(c, new, left)
    <3>1. c.version \in Int /\ c.level \in Level /\ c.mqr \in BOOLEAN
      BY <1>00, <2>1 DEF CallOK
    <3> QED BY <1>00, <2>1, <2>2, <3>1, StringBegins, Zenon
  <2>3. CASE stage' = "failed"
    BY <2>3, WordsEnd
  <2>4. CASE valid /\ stage' = "split"
    <3>1. Plain(call') => Says(call', input', rest')
      BY <2>1, <2>2, <2>4, Zenon
    <3> HIDE DEF c, left, new, valid
    <3> QED BY <2>1, <2>4, <3>1 DEF WordsPart
  <2> QED BY <2>1, <2>3, <2>4, Zenon
<1>2. CASE QRcode_encodeData
  <2> DEFINE new == NewInput(c.version, c.level, c.mqr)
             valid == c.text # <<>> /\ ValidInput(c.version, c.level, c.mqr) /\ (c.structured => c.version > 0)
             entered == [new EXCEPT !.entries = <<Entry("8", c.text)>>]
  <2>1. /\ c.op = "data" /\ call' = c /\ struct' = <<>> /\ rest' = <<>> /\ input' = entered
        /\ \/ valid /\ stage' = IF c.structured THEN "cut" ELSE "merge"
           \/ stage' = "failed"
    BY <1>2, Zenon DEF QRcode_encodeData, Begin
  <2>2. ASSUME valid, Plain(c) PROVE Says(c, entered, <<>>)
    <3>1. c.version \in Int /\ c.level \in Level /\ c.mqr \in BOOLEAN /\ c.text \in Seq(Byte)
      BY <1>00, <2>1 DEF CallOK
    <3>2. new \in Inputs /\ new.fnc1 = 0
      <4>1. new.fnc1 = 0
        BY DEF NewInput
      <4> QED BY <2>2, <3>1, <4>1, NewIsInput, Zenon
    <3> HIDE DEF new
    <3> QED BY <2>1, <2>2, <3>1, <3>2, BytesBegin, Zenon
  <2>3. CASE stage' = "failed"
    BY <2>3, WordsEnd
  <2>4. CASE valid /\ stage' = IF c.structured THEN "cut" ELSE "merge"
    <3>1. Plain(call') => Says(call', input', <<>>)
      BY <2>1, <2>2, <2>4, Zenon
    <3>2. Plain(call') => stage' = "merge"
      BY <2>1, <2>4, Zenon DEF Plain
    <3> HIDE DEF c, entered, new, valid
    <3> QED BY <2>1, <3>1, <3>2 DEF WordsPart
  <2> QED BY <2>1, <2>3, <2>4, Zenon
<1>3. CASE MakeInput \/ MakeStruct \/ ClearCache
  <2>1. call' = c /\ (c.op = "input" \/ c.op = "set" \/ c.op = "clear")
    BY <1>3, Zenon DEF MakeInput, MakeStruct, ClearCache, Begin
  <2>2. ~Plain(call')
    <3> HIDE DEF c
    <3> QED BY <2>1 DEF Plain
  <2> QED BY <2>2, WordsEnd
<1>4. CASE AskFrame
  <2>1. stage' = "done"
    BY <1>4 DEF AskFrame
  <2> QED BY <2>1, WordsEnd
<1> QED BY <1>1, <1>2, <1>3, <1>4, Zenon

(* A round of the splitting moves characters from the text to a segment. *)
LEMMA WordsSplit ==
  ASSUME FeedInv, WordsPart, SplitString
  PROVE  WordsPart'
<1> DEFINE s == Eat(rest, call.kanji, input.version)
           data == SubSeq(rest, 1, s.size)
<1>1. /\ stage = "split"
      /\ IF rest = <<>>
         THEN stage' = (IF call.structured THEN "cut" ELSE "merge") /\ UNCHANGED <<errno, rest, input>>
         ELSE IF Acceptable(s.mode, data)
         THEN /\ rest' = SubSeq(rest, s.size + 1, Len(rest))
              /\ input' = [input EXCEPT !.entries = Append(@, Entry(s.mode, data))]
              /\ UNCHANGED <<stage, errno>>
         ELSE Fail(EINVAL) /\ UNCHANGED <<rest, input>>
      /\ UNCHANGED <<call, struct>>
  BY Zenon DEF SplitString
<1>2. CASE ~Plain(call)
  BY <1>1, <1>2, WordsEnd, Zenon
<1>3. CASE Plain(call)
  <2>1. struct = <<>> /\ Says(call, input, rest)
    BY <1>1, <1>3 DEF WordsPart, Idle
  <2>3. call.kanji = FALSE /\ ~call.structured
    BY <1>1, <1>3 DEF Plain, WordsPart
  <2>4. input \in Inputs
    <3>1. stage \notin {"idle", "done", "failed"}
      BY <1>1
    <3> QED BY <3>1, AtWork, Zenon
  <2>5. CASE rest = <<>>
    <3>1. stage' = "merge" /\ UNCHANGED <<input, call, struct>>
      BY <1>1, <2>3, <2>5, Zenon
    <3>2. Says(call', input', <<>>)
      BY <2>1, <2>5, <3>1, Zenon
    <3> HIDE DEF s, data
    <3> QED BY <2>1, <3>1, <3>2 DEF WordsPart
  <2>6. CASE rest # <<>> /\ Acceptable(s.mode, data)
    <3>1. /\ rest' = SubSeq(rest, s.size + 1, Len(rest))
          /\ input' = [input EXCEPT !.entries = Append(input.entries, Entry(s.mode, data))]
          /\ stage' = "split" /\ call' = call /\ struct' = struct
      BY <1>1, <2>6, Zenon
    <3>2. Says(call', input', rest')
      <4>1. PICK mode, size : mode = s.mode /\ size = s.size
        BY Zenon
      <4>2. mode = Eat(rest, FALSE, input.version).mode /\ size = Eat(rest, FALSE, input.version).size
        BY <2>3, <4>1, Zenon
      <4>3. Says(call, [input EXCEPT !.entries = Append(input.entries, Entry(mode, SubSeq(rest, 1, size)))],
                 SubSeq(rest, size + 1, Len(rest)))
        BY <2>1, <2>4, <2>6, <4>2, SplitSays, Zenon
      <4> QED BY <3>1, <4>1, <4>3, Zenon
    <3>3. call'.op = "string"
      BY <1>1, <1>3, <3>1 DEF WordsPart
    <3> HIDE DEF s, data
    <3> QED BY <2>1, <3>1, <3>2, <3>3 DEF WordsPart
  <2>7. CASE rest # <<>> /\ ~Acceptable(s.mode, data)
    <3>1. stage' = "failed"
      BY <1>1, <2>7, Zenon DEF Fail
    <3> QED BY <3>1, WordsEnd
  <2> QED BY <2>5, <2>6, <2>7, Zenon
<1> QED BY <1>2, <1>3

(* Writing the stream changes no segment, and may settle the version. *)
LEMMA WordsMerge ==
  ASSUME FeedInv, WordsPart, MergeBitStream
  PROVE  WordsPart'
<1> DEFINE fnc1 == IF input.fnc1 = 2 THEN <<Entry("FNC1SECOND", <<input.appid>>)>> ELSE <<>>
           entries == fnc1 \o input.entries
           v == EstimateVersion(entries, input.level)
           w == IF v > input.version THEN v ELSE input.version
<1>0. /\ stage = "merge"
      /\ IF input.mqr
         THEN IF \A i \in DOMAIN input.entries : HasMode(input.entries[i].mode, input.version, TRUE)
              THEN bits' = CreateBitStream(input) /\ stage' = "pad" /\ UNCHANGED <<errno, input>>
              ELSE Fail(EINVAL) /\ UNCHANGED <<bits, input>>
         ELSE IF input.fnc1 = 1 THEN Fail(EINVAL) /\ UNCHANGED <<bits, input>>
         ELSE /\ input' = [input EXCEPT !.entries = entries, !.version = w]
              /\ stage' = "write"
              /\ UNCHANGED <<bits, errno>>
      /\ UNCHANGED <<call, rest, struct>>
  BY Zenon DEF MergeBitStream
<1>1. input \in Inputs
  <2>1. stage \notin {"idle", "done", "failed"}
    BY <1>0
  <2> QED BY <2>1, AtWork, Zenon
<1>2. CASE ~Plain(call)
  BY <1>0, <1>2, WordsEnd, Zenon
<1>3. CASE Plain(call)
  <2>1. struct = <<>> /\ Says(call, input, <<>>)
    BY <1>0, <1>3 DEF WordsPart, Idle
  <2>2. CASE stage' = "failed"
    BY <2>2, WordsEnd
  <2>3. CASE stage' = "pad" /\ input' = input /\ \A i \in DOMAIN input.entries : HasMode(input.entries[i].mode, input.version, TRUE)
    <3>1. Says(call', input', <<>>)
      BY <1>0, <2>1, <2>3, Zenon
    <3>2. \A k \in DOMAIN input'.entries : HasMode(input'.entries[k].mode, input'.version, TRUE)
      BY <2>3, Zenon
    <3>3. call' = call /\ struct' = <<>> /\ stage' = "pad"
      BY <1>0, <2>1, <2>3, Zenon
    <3> HIDE DEF fnc1, entries, v, w
    <3> QED BY <3>1, <3>2, <3>3 DEF WordsPart
  <2>4. CASE stage' = "write" /\ input' = [input EXCEPT !.entries = entries, !.version = w]
    <3>1. input.entries \in Seq(Segments)
      BY <1>1, InputFields, Zenon
    <3>2. entries = input.entries
      <4>1. input.fnc1 = 0
        BY <2>1, Zenon DEF Says
      <4>2. fnc1 = <<>>
        BY <4>1
      <4>3. <<>> \o input.entries = input.entries
        BY <3>1
      <4> QED BY <4>2, <4>3, Zenon
    <3>3. input' = [[input EXCEPT !.entries = entries] EXCEPT !.version = w]
      <4> HIDE DEF entries, w
      <4> QED BY <1>1, <2>4, EntriesAndVersion, Zenon
    <3>4. [input EXCEPT !.entries = entries] = input
      <4> HIDE DEF entries
      <4> QED BY <1>1, <3>2, OthersKept, Zenon
    <3>5. input' = [input EXCEPT !.version = w]
      <4> HIDE DEF entries, w
      <4> QED BY <3>3, <3>4, Zenon
    <3>6. Says(call', input', <<>>)
      <4> HIDE DEF w
      <4> QED BY <1>0, <1>1, <2>1, <3>5, VersionSays, Zenon
    <3>7. call' = call /\ struct' = <<>> /\ stage' = "write"
      BY <1>0, <2>1, <2>4, Zenon
    <3> HIDE DEF fnc1, entries, v, w
    <3> QED BY <3>6, <3>7 DEF WordsPart
  <2> HIDE DEF entries, w
  <2> QED BY <1>0, <2>2, <2>3, <2>4, Zenon DEF Fail
<1> QED BY <1>2, <1>3

(* Taking the stream over, or a larger version, changes no segment. *)
LEMMA WordsConvert ==
  ASSUME FeedInv, WordsPart, ConvertData
  PROVE  WordsPart'
<1> DEFINE v == MinimumVersion((Len(CreateBitStream(input)) + 7) \div 8, input.level)
           w == IF v > input.version THEN v ELSE input.version
<1>0. /\ stage = "write" /\ UNCHANGED <<call, rest, struct>>
      /\ \/ stage' = "failed"
         \/ /\ stage' = IF v > input.version THEN "write" ELSE "pad"
            /\ input' = [input EXCEPT !.version = w]
  BY Zenon DEF ConvertData, Fail
<1> HIDE DEF v, w
<1>1. input \in Inputs /\ ~input.mqr
  <2>1. stage \notin {"idle", "done", "failed"}
    BY <1>0
  <2>2. ~input.mqr
    BY <1>0 DEF FeedInv, TypedPart
  <2> QED BY <2>1, <2>2, AtWork, Zenon
<1>2. CASE ~Plain(call)
  BY <1>0, <1>2, WordsEnd, Zenon
<1>3. CASE stage' = "failed"
  BY <1>3, WordsEnd
<1>4. CASE Plain(call) /\ stage' = (IF v > input.version THEN "write" ELSE "pad") /\ input' = [input EXCEPT !.version = w]
  <2>1. struct = <<>> /\ Says(call, input, <<>>)
    BY <1>0, <1>4 DEF WordsPart, Idle
  <2>2. Says(call', input', <<>>)
    BY <1>0, <1>1, <1>4, <2>1, VersionSays, Zenon
  <2>3. ~input'.mqr
    BY <1>1, <1>4, VersionSet, Zenon
  <2>4. call' = call /\ struct' = <<>> /\ stage' \in {"write", "pad"}
    BY <1>0, <1>4, <2>1
  <2> QED BY <2>2, <2>3, <2>4 DEF WordsPart
<1> QED BY <1>0, <1>2, <1>3, <1>4

(* Every action of the library keeps what the segments say. *)
LEMMA LibraryWords ==
  ASSUME FeedInv, WordsPart, Next
  PROVE  WordsPart'
<1>1. CASE QRcode_encodeString \/ QRcode_encodeData \/ MakeInput \/ MakeStruct \/ ClearCache \/ AskFrame
  BY <1>1, WordsBegin
<1>2. CASE SplitString
  BY <1>2, WordsSplit
<1>3. CASE AppendPart \/ CutEntry \/ KeepEntry \/ EndCut \/ AppendInput
  <2>1. stage \in {"parts", "cut", "inputs"} /\ call' = call
    BY <1>3 DEF AppendPart, CutEntry, KeepEntry, EndCut, AppendInput, callVars
  <2>2. ~Plain(call)
    BY <2>1 DEF WordsPart, Idle
  <2> QED BY <2>1, <2>2, WordsEnd, Zenon
<1>4. CASE MergeBitStream
  BY <1>4, WordsMerge
<1>5. CASE ConvertData
  BY <1>5, WordsConvert
<1>6. CASE InitBlocks
  <2>1. /\ stage = "pad" /\ stage' \in {"failed", "check"} /\ UNCHANGED <<call, input, struct>>
    BY <1>6, Zenon DEF InitBlocks, Fail, inputVars, callVars
  <2> QED BY <2>1 DEF WordsPart, Idle
<1>7. CASE InitRS \/ EncodeRS
  BY <1>7, StreamStays DEF WordsPart, Idle
<1>8. CASE StartFilling \/ PlaceCode \/ ApplyMask \/ KeepBest
  <2>1. /\ ~Idle /\ UNCHANGED <<call, struct>>
        /\ stage' \in {"fill", "mask", "failed", "weigh", "made"}
    BY <1>8 DEF StartFilling, PlaceCode, ApplyMask, KeepBest, callVars, inputVars, Idle, Fail
  <2> QED BY <2>1 DEF WordsPart
<1>9. CASE Deliver
  <2>1. /\ stage = "made" /\ call' = call
        /\ stage' \in {"done", "failed"} \/ struct # <<>>
    BY <1>9, Zenon DEF Deliver, Fail
  <2>2. stage' \in {"idle", "done", "failed"} \/ ~Plain(call')
    BY <2>1 DEF WordsPart, Idle
  <2> QED BY <2>2, WordsEnd
<1> QED BY <1>1, <1>2, <1>3, <1>4, <1>5, <1>6, <1>7, <1>8, <1>9, Zenon DEF Next

-----------------------------------------------------------------------------
(* What holds in every run. *)

(* What the stream at hand says. *)
SaidInv == SaidPart /\ WordsPart

(* The programs begin with no call at hand. *)
LEMMA SaidBegins == ToolInit => SaidInv
<1> SUFFICES ASSUME ToolInit PROVE SaidInv
  OBVIOUS
<1>1. stage = "idle"
  BY DEF ToolInit, Init
<1> QED BY <1>1 DEF SaidInv, SaidPart, WordsPart, Idle

(* Every step of the library and of the tool keeps it. *)
LEMMA SaidStep == FeedInv /\ SaidInv /\ [ToolNext]_<<toolVars, vars>> => SaidInv'
<1> SUFFICES ASSUME FeedInv, SaidPart, WordsPart, [ToolNext]_<<toolVars, vars>> PROVE SaidInv'
  BY DEF SaidInv
<1>1. CASE Library
  <2>1. SaidPart' /\ WordsPart'
    BY <1>1, LibrarySays, LibraryWords, Zenon DEF Library
  <2> QED BY <2>1, Zenon DEF SaidInv
<1>2. CASE UNCHANGED <<stage, call, bits, input, rest, struct>>
  <2>1. SaidPart'
    BY <1>2 DEF SaidPart
  <2>2. WordsPart'
    BY <1>2 DEF WordsPart, Idle
  <2> QED BY <2>1, <2>2 DEF SaidInv
<1>3. CASE Encode \/ createBarcode
  <2>1. UNCHANGED <<stage, call, bits, input, rest, struct>>
    BY <1>3 DEF Encode, createBarcode, inputVars, codeVars
  <2> QED BY <1>2, <2>1
<1>4. CASE UNCHANGED vars
  <2>1. UNCHANGED <<stage, call, bits, input, rest, struct>>
    BY <1>4 DEF vars, callVars, inputVars, codeVars
  <2> QED BY <1>2, <2>1
<1>5. CASE ParseOption \/ Return \/ WriteBitmap \/ WriteImage \/ EndOfMain
  <2>1. UNCHANGED vars
    BY <1>5, Zenon DEF ParseOption, Return, WriteBitmap, WriteImage, EndOfMain
  <2> QED BY <1>4, <2>1
<1>6. CASE UNCHANGED <<toolVars, vars>>
  <2>1. UNCHANGED vars
    BY <1>6
  <2> QED BY <1>4, <2>1
<1> QED BY <1>1, <1>3, <1>5, <1>6 DEF ToolNext

(* In every run of any program, whatever calls came before, the stream that is
   about to be cut into blocks says what the entries of its input hold: the
   estimates, the version that grows, the cutting of a set and the padding lose
   nothing (qrinput.c:1055-1324, 1350-1382, 1579-1698). *)
THEOREM StreamsReadBack ==
  ToolSpec => [](stage = "check" /\ ReadableInput(input) => TextIn(bits, input.version, input.mqr) = FlattenSeq(ToldList(input)))
<1>1. FeedInv /\ SaidInv => (stage = "check" /\ ReadableInput(input) => TextIn(bits, input.version, input.mqr) = FlattenSeq(ToldList(input)))
  <2> SUFFICES ASSUME FeedInv, SaidPart, stage = "check", ReadableInput(input)
               PROVE  TextIn(bits, input.version, input.mqr) = FlattenSeq(ToldList(input))
    BY DEF SaidInv
  <2>1. bits = PaddedStream(input) /\ FitsIn(input) /\ (input.mqr \/ input.version >= 1)
    BY DEF SaidPart
  <2>2. input \in Inputs
    BY AtWork
  <2> QED BY <2>1, <2>2, StreamIsRead, Zenon
<1> QED BY ToolBegins, ToolStep, FeedBegins, FeedStep, SaidBegins, SaidStep, <1>1, PTL DEF ToolSpec

(* In every run, the stream of an ordinary call says the text of the call, with
   capitals where case does not matter: whichever way the text was split, and
   whatever version was found, no character is lost, doubled, moved or taken for
   another (split.c:83-311, qrinput.c:1055-1382, qrencode.c:627-706). *)
THEOREM TextIsEncoded ==
  ToolSpec => [](stage = "check" /\ Plain(call) => TextIn(bits, input.version, input.mqr) = Asked)
<1>1. FeedInv /\ SaidInv => (stage = "check" /\ Plain(call) => TextIn(bits, input.version, input.mqr) = Asked)
  <2> SUFFICES ASSUME FeedInv, SaidPart, WordsPart, stage = "check", Plain(call)
               PROVE  TextIn(bits, input.version, input.mqr) = Asked
    BY DEF SaidInv
  <2>1. bits = PaddedStream(input) /\ FitsIn(input) /\ (input.mqr \/ input.version >= 1)
    BY DEF SaidPart
  <2>2. input \in Inputs
    BY AtWork
  <2>3. /\ Says(call, input, <<>>)
        /\ input.mqr => \A k \in DOMAIN input.entries : HasMode(input.entries[k].mode, input.version, TRUE)
    BY DEF WordsPart
  <2>4. ReadableInput(input) /\ FlattenSeq(ToldList(input)) = AskedOf(call)
    BY <2>1, <2>2, <2>3, PlainIsReadable, Zenon
  <2>5. AskedOf(call) = Asked
    BY DEF AskedOf, Asked, Plain
  <2> QED BY <2>1, <2>2, <2>4, <2>5, StreamIsRead, Zenon
<1> QED BY ToolBegins, ToolStep, FeedBegins, FeedStep, SaidBegins, SaidStep, <1>1, PTL DEF ToolSpec
=============================================================================
