--------------------------- MODULE QREncodeProofs ---------------------------
(***************************************************************************)
(* Proofs about the library at work, from the text to the blocks that are  *)
(* placed in a symbol.                                                     *)
(*   Splitting: why each segment holds only what its mode can.  The four   *)
(* functions walk along a text; a walk is a function on its places, so     *)
(* that what it stops at is found by induction on how far the end is.      *)
(*   Segments: why the bits of a segment are bits, and those of a list of  *)
(* them, in each mode, for every version: eight of them make a byte, which *)
(* is what check bytes are computed from.                                  *)
(*   Blocks: why the data that fill a symbol can be cut as its row of the  *)
(* table says, which is read off the two tables of all 40 versions, and    *)
(* why a block takes the generator it is given, is fed one byte after the  *)
(* other, and is a word of the code when it is fed (CodeWhole).            *)
(*   Calls: that all of this holds at each stage of every call, FeedInv.   *)
(* A kept generator is one that was made as such; the types of all that a  *)
(* call puts in an input are what keeps its bits bits.                     *)
(***************************************************************************)
EXTENDS QRCodeProofs

(***************************************************************************)
(* Walking through a text.                                                 *)
(***************************************************************************)
(* A walk from p to n that goes on at next[p] unless p is in stop. *)
Walks(w, m, n, stop, next) == w = [p \in m..n |-> IF p \in stop THEN p ELSE w[next[p]]]

LEMMA WalkExists ==
  ASSUME NEW m \in Nat, NEW n \in Nat, m <= n, NEW stop, NEW next, \A p \in m..n : p \notin stop => next[p] \in p + 1..n
  PROVE  \E w : Walks(w, m, n, stop, next)
<1> DEFINE Part(w, k) == \A p \in n - k..n : p >= m => w[p] = IF p \in stop THEN p ELSE w[next[p]]
           T == {k \in Nat : \E w \in [Nat -> Nat] : Part(w, k)}
<1>1. n \in stop
  OBVIOUS
<1>2. 0 \in T
  <2>1. Part([p \in Nat |-> p], 0)
    BY <1>1
  <2>2. [p \in Nat |-> p] \in [Nat -> Nat]
    OBVIOUS
  <2> HIDE DEF Part
  <2> QED BY <2>1, <2>2
<1>3. ASSUME NEW k \in Nat, k \in T PROVE k + 1 \in T
  <2>1. PICK w \in [Nat -> Nat] : Part(w, k)
    BY <1>3
  <2>2. PICK p \in Int : p = n - (k + 1)
    OBVIOUS
  <2>3. CASE p < m
    <3>1. Part(w, k + 1)
      BY <2>1, <2>2, <2>3
    <3> HIDE DEF Part
    <3> QED BY <2>1, <3>1
  <2>4. CASE p >= m
    <3>1. p \in m..n /\ p \in Nat
      BY <2>2, <2>4
    <3> DEFINE u == [w EXCEPT ![p] = IF p \in stop THEN p ELSE w[next[p]]]
    <3>2. p \notin stop => next[p] \in p + 1..n
      BY <3>1
    <3>3. u \in [Nat -> Nat] /\ u[p] = (IF p \in stop THEN p ELSE w[next[p]])
          /\ \A q \in Nat : q # p => u[q] = w[q]
      BY <3>1, <3>2
    <3> HIDE DEF u
    <3>4. ASSUME NEW q \in n - (k + 1)..n, q >= m PROVE u[q] = IF q \in stop THEN q ELSE u[next[q]]
      <4>1. q \in m..n /\ q \in Nat /\ (q # p => q \in n - k..n)
        BY <2>2, <3>4
      <4>2. q \notin stop => next[q] \in q + 1..n /\ next[q] # p
        BY <2>2, <4>1
      <4>3. q \notin stop => u[next[q]] = w[next[q]]
        BY <3>3, <4>1, <4>2
      <4>4. CASE q = p
        BY <3>3, <4>3, <4>4
      <4>5. CASE q # p
        <5>1. w[q] = IF q \in stop THEN q ELSE w[next[q]]
          BY <2>1, <4>1, <4>5
        <5> QED BY <3>3, <4>1, <4>3, <4>5, <5>1
      <4> QED BY <4>4, <4>5
    <3>5. Part(u, k + 1)
      BY <3>4
    <3> HIDE DEF Part
    <3> QED BY <3>3, <3>5
  <2> QED BY <2>2, <2>3, <2>4
<1> HIDE DEF T
<1>4. n - m \in T
  <2>1. n - m \in Nat
    OBVIOUS
  <2>2. Nat \subseteq T
    BY <1>2, <1>3, Induction
  <2> QED BY <2>1, <2>2
<1>5. PICK w \in [Nat -> Nat] : Part(w, n - m)
  BY <1>4 DEF T
<1> DEFINE v == [p \in m..n |-> w[p]]
<1>6. v = [p \in m..n |-> IF p \in stop THEN p ELSE v[next[p]]]
  <2>1. ASSUME NEW p \in m..n PROVE w[p] = IF p \in stop THEN p ELSE v[next[p]]
    <3>1. p \in n - (n - m)..n /\ p >= m
      OBVIOUS
    <3>2. w[p] = IF p \in stop THEN p ELSE w[next[p]]
      BY <1>5, <3>1
    <3>3. p \notin stop => next[p] \in m..n
      OBVIOUS
    <3>4. p \notin stop => v[next[p]] = w[next[p]]
      BY <3>3
    <3> QED BY <3>2, <3>4
  <2> QED BY <2>1
<1> HIDE DEF v
<1> QED BY <1>6 DEF Walks

(* What a walk comes to, from every place. *)
LEMMA WalkLeads ==
  ASSUME NEW m \in Nat, NEW n \in Nat, m <= n, NEW stop, NEW next, \A p \in m..n : p \notin stop => next[p] \in p + 1..n,
         NEW w, Walks(w, m, n, stop, next), NEW R,
         \A p \in m..n : p \in stop => <<p, p>> \in R,
         \A p \in m..n : \A q \in m..n : p \notin stop /\ q >= next[p] /\ <<next[p], q>> \in R => <<p, q>> \in R
  PROVE  \A p \in m..n : w[p] \in p..n /\ <<p, w[p]>> \in R
<1> DEFINE T == {k \in Nat : \A p \in n - k..n : p >= m => w[p] \in p..n /\ <<p, w[p]>> \in R}
<1>0. \A p \in m..n : w[p] = IF p \in stop THEN p ELSE w[next[p]]
  BY DEF Walks
<1>1. 0 \in T
  <2>1. n \in stop /\ n \in m..n
    OBVIOUS
  <2>2. w[n] = n /\ <<n, n>> \in R
    BY <1>0, <2>1
  <2> QED BY <2>2
<1>2. ASSUME NEW k \in Nat, k \in T PROVE k + 1 \in T
  <2> SUFFICES ASSUME NEW p \in n - (k + 1)..n, p >= m PROVE w[p] \in p..n /\ <<p, w[p]>> \in R
    OBVIOUS
  <2>1. p \in m..n
    OBVIOUS
  <2>2. CASE p \in stop
    BY <1>0, <2>1, <2>2
  <2>3. CASE p \notin stop
    <3>1. next[p] \in p + 1..n /\ w[p] = w[next[p]]
      BY <1>0, <2>1, <2>3
    <3>2. next[p] \in n - k..n /\ next[p] >= m
      BY <2>1, <3>1
    <3>3. w[next[p]] \in next[p]..n /\ <<next[p], w[next[p]]>> \in R
      BY <1>2, <3>2
    <3>4. PICK q \in m..n : q = w[p] /\ q >= next[p]
      BY <2>1, <3>1, <3>3
    <3>5. <<p, q>> \in R
      BY <2>1, <2>3, <3>1, <3>3, <3>4
    <3> QED BY <2>1, <3>1, <3>4, <3>5
  <2> QED BY <2>2, <2>3
<1> HIDE DEF T
<1>3. n - m \in T
  <2>1. n - m \in Nat
    OBVIOUS
  <2>2. Nat \subseteq T
    BY <1>1, <1>2, Induction
  <2> QED BY <2>1, <2>2
<1> QED BY <1>3 DEF T

LEMMA WalkEnds ==
  ASSUME NEW m \in Nat, NEW n \in Nat, m <= n, NEW stop, NEW next, \A p \in m..n : p \notin stop => next[p] \in p + 1..n,
         NEW w, Walks(w, m, n, stop, next)
  PROVE  \A p \in m..n : w[p] \in p..n
<1> DEFINE R == Nat \X Nat
<1>1. \A p \in m..n : p \in stop => <<p, p>> \in R
  OBVIOUS
<1>2. \A p \in m..n : \A q \in m..n : p \notin stop /\ q >= next[p] /\ <<next[p], q>> \in R => <<p, q>> \in R
  OBVIOUS
<1> HIDE DEF R
<1>3. \A p \in m..n : w[p] \in p..n /\ <<p, w[p]>> \in R
  BY <1>1, <1>2, WalkLeads, Zenon
<1> QED BY <1>3

LEMMA PastRunIs ==
  ASSUME NEW t \in Seq(Nat), NEW p \in 1..Len(t) + 1, NEW S
  PROVE  /\ PastRun(t, p, S) \in p..Len(t) + 1
         /\ \A i \in p..PastRun(t, p, S) - 1 : t[i] \in S
         /\ PastRun(t, p, S) <= Len(t) => t[PastRun(t, p, S)] \notin S
         /\ p <= Len(t) /\ t[p] \in S => PastRun(t, p, S) > p
<1>0. PICK n \in Nat : n = Len(t)
  OBVIOUS
<1> DEFINE Out == {q \in p..n + 1 : q <= n => t[q] \notin S}
           Is(q) == (\A i \in p..q - 1 : t[i] \in S) /\ (q <= n => t[q] \notin S)
<1>1. Out \in SUBSET Nat /\ n + 1 \in Out
  BY <1>0
<1>2. PICK q \in Out : \A u \in Out : q <= u
  BY <1>1, LeastIn
<1>3. q \in p..n + 1 /\ Is(q)
  <2>1. \A i \in p..q - 1 : t[i] \in S
    <3> SUFFICES ASSUME NEW i \in p..q - 1, t[i] \notin S PROVE FALSE
      OBVIOUS
    <3>1. i \in Out
      BY <1>0, <1>2
    <3> QED BY <1>0, <1>2, <3>1
  <2> QED BY <2>1
<1>4. PastRun(t, p, S) = CHOOSE r \in p..n + 1 : Is(r)
  BY <1>0, Zenon DEF PastRun
<1> HIDE DEF Is
<1>5. PICK r : r = PastRun(t, p, S) /\ r \in p..n + 1 /\ Is(r)
  BY <1>3, <1>4, Zenon
<1>6. t[p] \in S /\ p <= n => r > p
  BY <1>0, <1>5 DEF Is
<1> QED BY <1>0, <1>5, <1>6 DEF Is

LEMMA IdentifyIs ==
  ASSUME NEW t \in Seq(Nat), NEW p \in 1..Len(t) + 1, NEW kanji \in BOOLEAN
  PROVE  /\ IdentifyMode(t, p, kanji) \in {"NUL", "NUM", "AN", "KANJI", "8"}
         /\ IdentifyMode(t, p, kanji) = "NUL" <=> p = Len(t) + 1
         /\ IdentifyMode(t, p, kanji) = "NUM" <=> p <= Len(t) /\ t[p] \in Digit
         /\ IdentifyMode(t, p, kanji) = "AN" <=> p <= Len(t) /\ t[p] \in AnChar /\ t[p] \notin Digit
         /\ IdentifyMode(t, p, kanji) = "KANJI" => p < Len(t) /\ KanjiWord(t[p], t[p + 1]) /\ kanji
         /\ IdentifyMode(t, p, kanji) \in {"KANJI", "8"} => p <= Len(t) /\ t[p] \notin AnChar
BY DEF IdentifyMode

LEMMA DigitsAreAn == Digit \subseteq AnChar
<1>1. ASSUME NEW d \in Digit PROVE d \in AnChar
  <2>1. d - 47 \in 1..45 /\ d - 47 <= 10 /\ (d - 47) + 47 = d
    BY DEF Digit
  <2>2. AnOrder[d - 47] = d
    BY <2>1 DEF AnOrder
  <2> QED BY <2>1, <2>2 DEF AnChar
<1> QED BY <1>1

(* Split_eat8 takes one character at least, and no more than there are. *)
LEMMA Eat8Takes ==
  ASSUME NEW t \in Seq(Nat), t # <<>>, NEW kanji \in BOOLEAN, NEW v \in Nat
  PROVE  Eat8(t, kanji, v).mode = "8" /\ Eat8(t, kanji, v).size \in 1..Len(t)
<1>0. PICK n \in Nat \ {0}, e \in Nat : n = Len(t) /\ e = n + 1 /\ 2 <= e
  OBVIOUS
<1> DEFINE mode(p) == IdentifyMode(t, p, kanji)
           num(p) == PastRun(t, p, Digit)
           an(p) == PastRun(t, p, AnChar)
           stop == {p \in 2..e : \/ mode(p) \in {"NUL", "KANJI"}
                                 \/ mode(p) = "NUM" /\ Leave8ForNum(p - 1, num(p) - p, v) < 0
                                 \/ mode(p) = "AN" /\ Leave8ForAn(p - 1, an(p) - p, v) < 0}
           next == [p \in 2..e |-> IF mode(p) = "NUM" THEN num(p) ELSE IF mode(p) = "AN" THEN an(p) ELSE p + 1]
           Is(w) == w = [p \in 2..Len(t) + 1 |->
                  CASE IdentifyMode(t, p, kanji) \in {"NUL", "KANJI"} -> p
                    [] IdentifyMode(t, p, kanji) = "NUM" ->
                         LET q == PastRun(t, p, Digit)
                         IN  IF Leave8ForNum(p - 1, q - p, v) < 0 THEN p ELSE w[q]
                    [] IdentifyMode(t, p, kanji) = "AN" ->
                         LET q == PastRun(t, p, AnChar)
                         IN  IF Leave8ForAn(p - 1, q - p, v) < 0 THEN p ELSE w[q]
                    [] OTHER -> w[p + 1]]
           walk == CHOOSE w : Is(w)
<1>1. \A p \in 2..e : /\ mode(p) \in {"NUL", "NUM", "AN", "KANJI", "8"}
                      /\ mode(p) = "NUL" <=> p = e
                      /\ mode(p) = "NUM" => num(p) \in p + 1..e
                      /\ mode(p) = "AN" => an(p) \in p + 1..e
  <2> TAKE p \in 2..e
  <2>1. p \in 1..Len(t) + 1
    BY <1>0
  <2>2. /\ mode(p) \in {"NUL", "NUM", "AN", "KANJI", "8"} /\ (mode(p) = "NUL" <=> p = e)
        /\ mode(p) = "NUM" => p <= n /\ t[p] \in Digit
        /\ mode(p) = "AN" => p <= n /\ t[p] \in AnChar
    BY <1>0, <2>1, IdentifyIs
  <2>3. /\ num(p) \in p..e /\ (p <= n /\ t[p] \in Digit => num(p) > p)
        /\ an(p) \in p..e /\ (p <= n /\ t[p] \in AnChar => an(p) > p)
    BY <1>0, <2>1, PastRunIs
  <2> HIDE DEF mode, num, an
  <2> QED BY <2>2, <2>3
<1> HIDE DEF num, an, mode
<1>2. \A p \in 2..e : p \notin stop => next[p] \in p + 1..e
  <2> TAKE p \in 2..e
  <2> HAVE p \notin stop
  <2>1. mode(p) # "NUL"
    OBVIOUS
  <2>2. next[p] = IF mode(p) = "NUM" THEN num(p) ELSE IF mode(p) = "AN" THEN an(p) ELSE p + 1
    OBVIOUS
  <2> HIDE DEF next, stop
  <2> QED BY <1>0, <1>1, <2>1, <2>2
<1>3. \A w : Is(w) <=> Walks(w, 2, e, stop, next)
  <2> TAKE w
  <2>1. \A p \in 2..e :
          (CASE mode(p) \in {"NUL", "KANJI"} -> p
             [] mode(p) = "NUM" -> IF Leave8ForNum(p - 1, num(p) - p, v) < 0 THEN p ELSE w[num(p)]
             [] mode(p) = "AN" -> IF Leave8ForAn(p - 1, an(p) - p, v) < 0 THEN p ELSE w[an(p)]
             [] OTHER -> w[p + 1])
          = IF p \in stop THEN p ELSE w[next[p]]
    <3> TAKE p \in 2..e
    <3>1. CASE mode(p) \in {"NUL", "KANJI"}
      BY <3>1
    <3>2. CASE mode(p) = "NUM"
      BY <3>2
    <3>3. CASE mode(p) = "AN"
      BY <3>3
    <3>4. CASE mode(p) = "8"
      BY <3>4
    <3> QED BY <1>1, <3>1, <3>2, <3>3, <3>4
  <2>2. Is(w) <=> w = [p \in 2..e |->
          (CASE mode(p) \in {"NUL", "KANJI"} -> p
             [] mode(p) = "NUM" -> IF Leave8ForNum(p - 1, num(p) - p, v) < 0 THEN p ELSE w[num(p)]
             [] mode(p) = "AN" -> IF Leave8ForAn(p - 1, an(p) - p, v) < 0 THEN p ELSE w[an(p)]
             [] OTHER -> w[p + 1])]
    BY <1>0, Zenon DEF mode, num, an
  <2> HIDE DEF Is, stop, next
  <2>3. [p \in 2..e |->
          (CASE mode(p) \in {"NUL", "KANJI"} -> p
             [] mode(p) = "NUM" -> IF Leave8ForNum(p - 1, num(p) - p, v) < 0 THEN p ELSE w[num(p)]
             [] mode(p) = "AN" -> IF Leave8ForAn(p - 1, an(p) - p, v) < 0 THEN p ELSE w[an(p)]
             [] OTHER -> w[p + 1])] = [p \in 2..e |-> IF p \in stop THEN p ELSE w[next[p]]]
    BY <2>1, Zenon
  <2> QED BY <2>2, <2>3 DEF Walks
<1>4. Eat8(t, kanji, v) = Segment("8", walk[2] - 1)
  BY Zenon DEF Eat8
<1> HIDE DEF Is, stop, next
<1>5. Walks(walk, 2, e, stop, next)
  <2>1. \E w : Walks(w, 2, e, stop, next)
    BY <1>0, <1>2, WalkExists
  <2> QED BY <1>3, <2>1
<1> HIDE DEF walk
<1>6. walk[2] \in 2..e
  <2>1. \A p \in 2..e : walk[p] \in p..e
    BY <1>0, <1>2, <1>5, WalkEnds
  <2>2. 2 \in 2..e
    BY <1>0
  <2> QED BY <2>1, <2>2
<1>7. walk[2] - 1 \in 1..n
  BY <1>0, <1>6
<1> QED BY <1>0, <1>4, <1>7 DEF Segment

(* What Split_eatAn takes when it starts with a letter, or with digits that would not
   pay alone and a letter behind them: characters both of whose modes it knows, or
   what Split_eat8 takes. *)
AnStarts(t, kanji, v) ==
  \E n \in 0..Len(t) - 1 : /\ \A i \in 1..n : t[i] \in Digit
                           /\ t[n + 1] \in AnChar /\ t[n + 1] \notin Digit
                           /\ n > 0 => NumBeforeAn(n, v) > 0
AnTaken(t, r) == r.mode = "AN" /\ r.size \in 1..Len(t) /\ \A i \in 1..r.size : t[i] \in AnChar
NotAn(t) == \E i \in 1..Len(t) : t[i] \notin AnChar

LEMMA EatAnTakes ==
  ASSUME NEW t \in Seq(Nat), t # <<>>, NEW kanji \in BOOLEAN, NEW v \in Nat, AnStarts(t, kanji, v)
  PROVE  \/ AnTaken(t, EatAn(t, kanji, v))
         \/ NotAn(t) /\ EatAn(t, kanji, v) = Eat8(t, kanji, v)
<1>0. PICK n \in Nat \ {0}, e \in Nat : n = Len(t) /\ e = n + 1 /\ 1 <= e
  OBVIOUS
<1> DEFINE num(p) == PastRun(t, p, Digit)
           stop == {p \in 1..e : \/ p > n \/ t[p] \notin AnChar
                                 \/ t[p] \in Digit /\ LeaveAnForNum(p - 1, num(p) - p, v) < 0}
           next == [p \in 1..e |-> IF t[p] \in Digit THEN num(p) ELSE p + 1]
           Is(w) == w = [p \in 1..Len(t) + 1 |->
                           IF p > Len(t) \/ t[p] \notin AnChar THEN p
                           ELSE IF t[p] \in Digit
                           THEN LET q == PastRun(t, p, Digit)
                                IN  IF LeaveAnForNum(p - 1, q - p, v) < 0 THEN p ELSE w[q]
                           ELSE w[p + 1]]
           walk == CHOOSE w : Is(w)
           run == walk[1] - 1
<1>1. \A p \in 1..e : /\ num(p) \in p..e /\ (p <= n /\ t[p] \in Digit => num(p) > p)
                      /\ \A i \in p..num(p) - 1 : t[i] \in Digit
                      /\ num(p) <= n => t[num(p)] \notin Digit
  <2> TAKE p \in 1..e
  <2>1. p \in 1..Len(t) + 1
    BY <1>0
  <2> QED BY <1>0, <2>1, PastRunIs
<1> HIDE DEF num
<1>2. \A p \in 1..e : p \notin stop => next[p] \in p + 1..e
  <2> TAKE p \in 1..e
  <2> HAVE p \notin stop
  <2>1. p <= n /\ next[p] = IF t[p] \in Digit THEN num(p) ELSE p + 1
    OBVIOUS
  <2>2. num(p) \in p..e /\ (p <= n /\ t[p] \in Digit => num(p) > p)
    BY <1>1
  <2> HIDE DEF next, stop
  <2> QED BY <1>0, <2>1, <2>2
<1>3. \A w : Is(w) <=> Walks(w, 1, e, stop, next)
  <2> TAKE w
  <2>1. \A p \in 1..e :
          (IF p > n \/ t[p] \notin AnChar THEN p
           ELSE IF t[p] \in Digit THEN IF LeaveAnForNum(p - 1, num(p) - p, v) < 0 THEN p ELSE w[num(p)]
           ELSE w[p + 1])
          = IF p \in stop THEN p ELSE w[next[p]]
    OBVIOUS
  <2>2. Is(w) <=> w = [p \in 1..e |->
          (IF p > n \/ t[p] \notin AnChar THEN p
           ELSE IF t[p] \in Digit THEN IF LeaveAnForNum(p - 1, num(p) - p, v) < 0 THEN p ELSE w[num(p)]
           ELSE w[p + 1])]
    BY <1>0, Zenon DEF num
  <2> HIDE DEF Is, stop, next
  <2>3. [p \in 1..e |->
          (IF p > n \/ t[p] \notin AnChar THEN p
           ELSE IF t[p] \in Digit THEN IF LeaveAnForNum(p - 1, num(p) - p, v) < 0 THEN p ELSE w[num(p)]
           ELSE w[p + 1])] = [p \in 1..e |-> IF p \in stop THEN p ELSE w[next[p]]]
    BY <2>1, Zenon
  <2> QED BY <2>2, <2>3 DEF Walks
<1>4. EatAn(t, kanji, v) = IF run < Len(t) /\ t[run + 1] \notin AnChar /\ AnBefore8(run, v) > 0
                           THEN Eat8(t, kanji, v) ELSE Segment("AN", run)
  BY Zenon DEF EatAn
<1> HIDE DEF Is
<1>5. Walks(walk, 1, e, stop, next)
  <2> HIDE DEF stop, next
  <2>1. \E w : Walks(w, 1, e, stop, next)
    BY <1>0, <1>2, WalkExists
  <2> QED BY <1>3, <2>1
<1> HIDE DEF walk
<1>6. /\ \A p \in 1..e : walk[p] \in p..e
      /\ walk = [p \in 1..e |-> IF p \in stop THEN p ELSE walk[next[p]]]
  <2> HIDE DEF stop, next
  <2>1. 1 \in Nat /\ e \in Nat /\ 1 <= e
    BY <1>0
  <2>2. \A p \in 1..e : walk[p] \in p..e
    BY <1>2, <1>5, <2>1, WalkEnds, Zenon
  <2> QED BY <1>5, <2>2 DEF Walks
<1> DEFINE R == {pq \in (1..e) \X (1..e) : \A i \in pq[1]..pq[2] - 1 : t[i] \in AnChar}
<1>7. \A i \in 1..walk[1] - 1 : t[i] \in AnChar
  <2>1. \A p \in 1..e : p \in stop => <<p, p>> \in R
    OBVIOUS
  <2>2. \A p \in 1..e : \A q \in 1..e : p \notin stop /\ q >= next[p] /\ <<next[p], q>> \in R => <<p, q>> \in R
    <3> SUFFICES ASSUME NEW p \in 1..e, NEW q \in 1..e, p \notin stop, q >= next[p], <<next[p], q>> \in R,
                        NEW i \in p..q - 1
                 PROVE  t[i] \in AnChar
      BY <1>0, <1>2, ZenonT(60)
    <3>1. t[p] \in AnChar /\ p <= n /\ next[p] \in p + 1..e /\ (t[p] \in Digit => next[p] = num(p))
          /\ (t[p] \notin Digit => next[p] = p + 1)
      BY <1>2
    <3>2. CASE i >= next[p]
      BY <3>1, <3>2
    <3>3. CASE i < next[p]
      <4>1. t[p] \in Digit => i \in p..num(p) - 1
        BY <3>1, <3>3
      <4>2. t[p] \notin Digit => i = p
        BY <3>1, <3>3
      <4>3. t[p] \in Digit => t[i] \in Digit
        BY <1>1, <4>1
      <4> QED BY <3>1, <4>2, <4>3, DigitsAreAn
    <3> QED BY <3>1, <3>2, <3>3
  <2> HIDE DEF R, stop, next
  <2>3. 1 \in Nat /\ e \in Nat /\ 1 <= e
    BY <1>0
  <2>5. \A p \in 1..e : walk[p] \in p..e /\ <<p, walk[p]>> \in R
    BY <1>2, <1>5, <2>1, <2>2, <2>3, WalkLeads, Zenon
  <2>4. <<1, walk[1]>> \in R
    BY <1>0, <2>5
  <2> QED BY <2>4 DEF R
<1>8. walk[1] \in 2..e
  <2>1. PICK k \in 0..n - 1 : /\ \A i \in 1..k : t[i] \in Digit
                              /\ t[k + 1] \in AnChar /\ t[k + 1] \notin Digit
                              /\ k > 0 => NumBeforeAn(k, v) > 0
    BY <1>0 DEF AnStarts
  <2>2. 1 \in 1..e /\ (1 \notin stop => next[1] \in 2..e)
    BY <1>0, <1>2
  <2>3. 1 \notin stop
    <3>1. CASE k = 0
      BY <1>0, <2>1, <3>1
    <3>2. CASE k > 0
      <4>1. t[1] \in Digit
        BY <2>1, <3>2
      <4>2. num(1) = k + 1
        <5>1. PICK m \in 1..e : /\ m = num(1) /\ (\A i \in 1..m - 1 : t[i] \in Digit)
                                /\ m <= n => t[m] \notin Digit
          <6>1. \E m \in 1..e : m = num(1)
            BY <1>1, <2>2
          <6> QED BY <1>1, <2>2, <6>1
        <5>2. m > k
          <6>1. m \in 1..k => m <= n
            BY <1>0, <2>1
          <6> QED BY <2>1, <5>1, <6>1
        <5>3. ~(m > k + 1)
          <6>1. m > k + 1 => k + 1 \in 1..m - 1
            BY <2>1, <5>1
          <6> QED BY <2>1, <5>1, <6>1
        <5> QED BY <2>1, <5>1, <5>2, <5>3
      <4>3. LeaveAnForNum(0, k, v) >= 0
        BY <2>1, <3>2, DigitsHandedOverAreKept
      <4>4. num(1) - 1 = k /\ 1 - 1 = 0
        BY <2>1, <4>2
      <4>5. LeaveAnForNum(0, k, v) \in Int
        <5>1. NumHead(v) \in Int
          BY Heads
        <5>2. EstimateBitsModeNum(k) \in Int
          <6>1. k % 3 \in {0, 1, 2}
            OBVIOUS
          <6> QED BY <6>1 DEF EstimateBitsModeNum
        <5> QED BY <2>1, <5>1, <5>2 DEF LeaveAnForNum, EstimateBitsModeAn
      <4>6. ~(LeaveAnForNum(1 - 1, num(1) - 1, v) < 0)
        BY <4>3, <4>4, <4>5
      <4> QED BY <1>0, <4>1, <4>6, DigitsAreAn
    <3> QED BY <2>1, <3>1, <3>2
  <2>4. walk[1] = walk[next[1]] /\ next[1] \in 2..e
    BY <1>6, <2>2, <2>3
  <2> HIDE DEF next, stop
  <2>5. next[1] \in 1..e
    BY <1>0, <2>4
  <2>6. walk[next[1]] \in next[1]..e
    BY <1>6, <2>5
  <2> QED BY <1>0, <2>4, <2>6
<1> HIDE DEF stop, next, R
<1>9. run \in 1..n /\ \A i \in 1..run : t[i] \in AnChar
  BY <1>0, <1>7, <1>8
<1> HIDE DEF run
<1> QED BY <1>0, <1>4, <1>9 DEF AnTaken, NotAn, Segment

(* Split_eatKanji takes pairs of bytes, and the first one. *)
LEMMA EatKanjiTakes ==
  ASSUME NEW t \in Seq(Nat), IdentifyMode(t, 1, TRUE) = "KANJI"
  PROVE  /\ EatKanji(t).mode = "KANJI" /\ EatKanji(t).size \in 1..Len(t)
         /\ Acceptable("KANJI", SubSeq(t, 1, EatKanji(t).size))
<1>0. PICK n \in Nat, e \in Nat : n = Len(t) /\ e = n + 1 /\ 1 <= e
  OBVIOUS
<1> DEFINE pair(p) == IdentifyMode(t, p, TRUE) = "KANJI"
           stop == {p \in 1..e : ~pair(p)}
           next == [p \in 1..e |-> p + 2]
           Is(w) == w = [p \in 1..Len(t) + 1 |-> IF IdentifyMode(t, p, TRUE) = "KANJI" THEN w[p + 2] ELSE p]
           walk == CHOOSE w : Is(w)
<1>1. \A p \in 1..e : pair(p) => p < n /\ KanjiWord(t[p], t[p + 1])
  <2> TAKE p \in 1..e
  <2>1. p \in 1..Len(t) + 1
    BY <1>0
  <2> QED BY <1>0, <2>1, IdentifyIs
<1>2. pair(1)
  OBVIOUS
<1> HIDE DEF pair
<1>3. \A p \in 1..e : p \notin stop => next[p] \in p + 1..e
  BY <1>0, <1>1
<1>4. \A w : Is(w) <=> Walks(w, 1, e, stop, next)
  <2> TAKE w
  <2>1. \A p \in 1..e : (IF pair(p) THEN w[p + 2] ELSE p) = IF p \in stop THEN p ELSE w[next[p]]
    OBVIOUS
  <2>2. Is(w) <=> w = [p \in 1..e |-> IF pair(p) THEN w[p + 2] ELSE p]
    BY <1>0, Zenon DEF pair
  <2> HIDE DEF Is, stop, next
  <2>3. [p \in 1..e |-> IF pair(p) THEN w[p + 2] ELSE p] = [p \in 1..e |-> IF p \in stop THEN p ELSE w[next[p]]]
    BY <2>1, Zenon
  <2> QED BY <2>2, <2>3 DEF Walks
<1>5. EatKanji(t) = Segment("KANJI", walk[1] - 1)
  BY Zenon DEF EatKanji
<1> HIDE DEF Is
<1>6. Walks(walk, 1, e, stop, next)
  <2> HIDE DEF stop, next
  <2>1. \E w : Walks(w, 1, e, stop, next)
    BY <1>0, <1>3, WalkExists
  <2> QED BY <1>4, <2>1
<1> HIDE DEF walk
<1> DEFINE R == {pq \in (1..e) \X (1..e) :
                   \E h \in Nat : pq[2] = pq[1] + 2 * h /\ \A j \in 0..h - 1 : pair(pq[1] + 2 * j)}
<1>7. \A p \in 1..e : walk[p] \in p..e /\ <<p, walk[p]>> \in R
  <2>1. \A p \in 1..e : p \in stop => <<p, p>> \in R
    <3> TAKE p \in 1..e
    <3>1. p = p + 2 * 0 /\ \A j \in 0..0 - 1 : pair(p + 2 * j)
      OBVIOUS
    <3> QED BY <3>1
  <2>2. \A p \in 1..e : \A q \in 1..e : p \notin stop /\ q >= next[p] /\ <<next[p], q>> \in R => <<p, q>> \in R
    <3> SUFFICES ASSUME NEW p \in 1..e, NEW q \in 1..e, p \notin stop, q >= next[p], <<next[p], q>> \in R
                 PROVE  <<p, q>> \in R
      OBVIOUS
    <3>1. pair(p) /\ next[p] = p + 2
      OBVIOUS
    <3>2. PICK h \in Nat : q = (p + 2) + 2 * h /\ \A j \in 0..h - 1 : pair((p + 2) + 2 * j)
      BY <3>1
    <3>3. PICK k \in Nat : k = h + 1
      OBVIOUS
    <3>4. ASSUME NEW j \in 0..k - 1 PROVE pair(p + 2 * j)
      <4>1. CASE j = 0
        BY <3>1, <4>1
      <4>2. CASE j # 0
        <5>1. PICK l \in 0..h - 1 : l = j - 1
          BY <3>3, <4>2
        <5>2. (p + 2) + 2 * l = p + 2 * j
          BY <5>1
        <5> QED BY <3>2, <5>2
      <4> QED BY <4>1, <4>2
    <3>5. q = p + 2 * k
      BY <3>2, <3>3
    <3> QED BY <3>4, <3>5
  <2> HIDE DEF R, stop, next
  <2>3. 1 \in Nat /\ e \in Nat /\ 1 <= e
    BY <1>0
  <2> QED BY <1>3, <1>6, <2>1, <2>2, <2>3, WalkLeads, Zenon
<1>8. walk[1] \in 1..e /\ <<1, walk[1]>> \in R /\ walk[1] # 1
  <2>1. 1 \in 1..e
    BY <1>0
  <2>2. walk[1] = walk[3] /\ 3 \in 1..e
    BY <1>0, <1>1, <1>2, <1>6, <2>1 DEF Walks
  <2> HIDE DEF R
  <2>3. walk[1] \in 1..e /\ <<1, walk[1]>> \in R
    BY <1>7, <2>1
  <2>4. walk[3] \in 3..e
    BY <1>7, <2>2
  <2> QED BY <2>2, <2>3, <2>4
<1>9. PICK h \in Nat : walk[1] = 1 + 2 * h /\ \A j \in 0..h - 1 : pair(1 + 2 * j)
  BY <1>8
<1>10. PICK s \in 1..n : s = walk[1] - 1 /\ s = 2 * h
  BY <1>0, <1>8, <1>9
<1>11. SubSeq(t, 1, s) = [i \in 1..s |-> t[i]] /\ Len(SubSeq(t, 1, s)) = s /\ SubSeq(t, 1, s) # <<>>
  BY <1>0, <1>10
<1>13. ASSUME NEW i \in 1..h PROVE KanjiWord(SubSeq(t, 1, s)[2 * i - 1], SubSeq(t, 1, s)[2 * i])
  <2>1. PICK j \in 0..h - 1 : j = i - 1 /\ 2 * i - 1 = 1 + 2 * j
    BY <1>9
  <2>2. PICK p \in 1..s : p = 1 + 2 * j /\ 2 * i = p + 1 /\ p + 1 \in 1..s /\ 2 * i - 1 = p
    BY <1>10, <2>1
  <2>3. pair(p)
    BY <1>9, <2>1, <2>2
  <2>4. KanjiWord(t[p], t[p + 1])
    BY <1>0, <1>1, <1>10, <2>2, <2>3
  <2> QED BY <1>11, <2>2, <2>4
<1>12. Acceptable("KANJI", SubSeq(t, 1, s))
  <2>1. s % 2 = 0 /\ s \div 2 = h
    BY <1>10
  <2> QED BY <1>11, <1>13, <2>1 DEF Acceptable
<1> QED BY <1>0, <1>5, <1>10, <1>12 DEF Segment

(* Each round of Split_splitString takes a piece of the text, of one character at
   least, in a mode that has all its characters: QRinput_append refuses none
   (split.c:83-265, qrinput.c:865-893).  It asks for a mode
   wider than digits, or than letters, only where the text has a character that
   the narrower one lacks. *)
THEOREM SplitTakesWhatIsAcceptable ==
  ASSUME NEW t \in Seq(Nat), t # <<>>, NEW kanji \in BOOLEAN, NEW v \in Nat
  PROVE  /\ Eat(t, kanji, v).mode \in SplittableMode
         /\ Eat(t, kanji, v).size \in 1..Len(t)
         /\ Acceptable(Eat(t, kanji, v).mode, SubSeq(t, 1, Eat(t, kanji, v).size))
         /\ Eat(t, kanji, v).mode # "NUM" => \E i \in 1..Len(t) : t[i] \notin Digit
         /\ Eat(t, kanji, v).mode \in {"8", "KANJI"} => \E i \in 1..Len(t) : t[i] \notin AnChar
<1> DEFINE Good(r) == /\ r.mode \in SplittableMode /\ r.size \in 1..Len(t)
                      /\ Acceptable(r.mode, SubSeq(t, 1, r.size))
                      /\ r.mode # "NUM" => \E i \in 1..Len(t) : t[i] \notin Digit
                      /\ r.mode \in {"8", "KANJI"} => \E i \in 1..Len(t) : t[i] \notin AnChar
<1>0. PICK n \in Nat \ {0} : n = Len(t) /\ 1 \in 1..n /\ 1 \in 1..Len(t) + 1
  OBVIOUS
<1>1. ASSUME NEW s \in 1..n
      PROVE  SubSeq(t, 1, s) = [i \in 1..s |-> t[i]] /\ Len(SubSeq(t, 1, s)) = s /\ SubSeq(t, 1, s) # <<>>
             /\ DOMAIN SubSeq(t, 1, s) = 1..s
  BY <1>0
<1>2. NotAn(t) => Good(Eat8(t, kanji, v))
  <2> SUFFICES ASSUME NotAn(t) PROVE Good(Eat8(t, kanji, v))
    OBVIOUS
  <2>1. PICK s \in 1..n : s = Eat8(t, kanji, v).size
    BY <1>0, Eat8Takes
  <2>2. Acceptable("8", SubSeq(t, 1, s))
    BY <1>1, <2>1 DEF Acceptable
  <2>3. Eat8(t, kanji, v).mode = "8"
    BY Eat8Takes
  <2>4. \E i \in 1..Len(t) : t[i] \notin AnChar
    BY DEF NotAn
  <2> QED BY <1>0, <2>1, <2>2, <2>3, <2>4, DigitsAreAn DEF SplittableMode
<1>3. AnStarts(t, kanji, v) => Good(EatAn(t, kanji, v))
  <2> SUFFICES ASSUME AnStarts(t, kanji, v) PROVE Good(EatAn(t, kanji, v))
    OBVIOUS
  <2>1. CASE AnTaken(t, EatAn(t, kanji, v))
    <3>1. PICK s \in 1..n : s = EatAn(t, kanji, v).size /\ \A i \in 1..s : t[i] \in AnChar
      BY <1>0, <2>1 DEF AnTaken
    <3>2. \A i \in DOMAIN SubSeq(t, 1, s) : SubSeq(t, 1, s)[i] \in AnChar
      BY <1>1, <3>1
    <3>3. Acceptable("AN", SubSeq(t, 1, s))
      BY <1>1, <3>2 DEF Acceptable
    <3>4. \E i \in 1..Len(t) : t[i] \notin Digit
      BY <1>0 DEF AnStarts
    <3> QED BY <1>0, <2>1, <3>1, <3>3, <3>4 DEF AnTaken, SplittableMode
  <2>2. CASE NotAn(t) /\ EatAn(t, kanji, v) = Eat8(t, kanji, v)
    <3> HIDE DEF Good
    <3> QED BY <1>2, <2>2
  <2> HIDE DEF Good
  <2> QED BY <2>1, <2>2, EatAnTakes
<1> DEFINE mode(p) == IdentifyMode(t, p, kanji)
<1>4. \A p \in 1..Len(t) + 1 :
        /\ mode(p) \in {"NUL", "NUM", "AN", "KANJI", "8"}
        /\ mode(p) = "NUL" <=> p = Len(t) + 1
        /\ mode(p) = "NUM" <=> p <= Len(t) /\ t[p] \in Digit
        /\ mode(p) = "AN" <=> p <= Len(t) /\ t[p] \in AnChar /\ t[p] \notin Digit
        /\ mode(p) = "KANJI" => kanji
        /\ mode(p) \in {"KANJI", "8"} => p <= Len(t) /\ t[p] \notin AnChar
  BY IdentifyIs
<1>5. mode(1) = "NUM" => Good(EatNum(t, kanji, v))
  <2> SUFFICES ASSUME mode(1) = "NUM" PROVE Good(EatNum(t, kanji, v))
    OBVIOUS
  <2>1. PICK m \in 2..n + 1 : m = PastRun(t, 1, Digit) /\ \A i \in 1..m - 1 : t[i] \in Digit
    BY <1>0, <1>4, PastRunIs, SMTT(40)
  <2>2. PICK s \in 1..n : s = m - 1 /\ m = s + 1 /\ m \in 1..Len(t) + 1
    BY <1>0, <2>1
  <2>3. EatNum(t, kanji, v) =
          CASE mode(s + 1) = "8" /\ NumBefore8(s, v) > 0 -> Eat8(t, kanji, v)
            [] mode(s + 1) = "AN" /\ NumBeforeAn(s, v) > 0 -> EatAn(t, kanji, v)
            [] OTHER -> Segment("NUM", s)
    BY <2>1, <2>2 DEF EatNum
  <2>4. CASE mode(s + 1) = "8" /\ NumBefore8(s, v) > 0
    <3>1. t[m] \notin AnChar /\ m <= Len(t)
      BY <1>4, <2>2, <2>4
    <3>2. NotAn(t)
      BY <2>2, <3>1 DEF NotAn
    <3>3. EatNum(t, kanji, v) = Eat8(t, kanji, v)
      BY <2>3, <2>4
    <3> HIDE DEF Good
    <3> QED BY <1>2, <3>2, <3>3
  <2>5. CASE mode(s + 1) = "AN" /\ NumBeforeAn(s, v) > 0
    <3>1. t[s + 1] \in AnChar /\ t[s + 1] \notin Digit /\ m <= Len(t)
      BY <1>4, <2>2, <2>5
    <3>2. s \in 0..Len(t) - 1 /\ \A i \in 1..s : t[i] \in Digit
      BY <1>0, <2>1, <2>2, <3>1
    <3>3. AnStarts(t, kanji, v)
      BY <2>5, <3>1, <3>2 DEF AnStarts
    <3>4. EatNum(t, kanji, v) = EatAn(t, kanji, v)
      BY <2>3, <2>5
    <3> HIDE DEF Good
    <3> QED BY <1>3, <3>3, <3>4
  <2>6. CASE ~(mode(s + 1) = "8" /\ NumBefore8(s, v) > 0) /\ ~(mode(s + 1) = "AN" /\ NumBeforeAn(s, v) > 0)
    <3>1. EatNum(t, kanji, v) = Segment("NUM", s)
      BY <2>3, <2>6
    <3>2. \A i \in DOMAIN SubSeq(t, 1, s) : SubSeq(t, 1, s)[i] \in Digit
      BY <1>1, <2>1, <2>2
    <3>3. Acceptable("NUM", SubSeq(t, 1, s))
      BY <1>1, <3>2 DEF Acceptable
    <3> QED BY <1>0, <3>1, <3>3 DEF Segment, SplittableMode
  <2> HIDE DEF Good, mode
  <2> QED BY <2>4, <2>5, <2>6
<1>6. mode(1) = "AN" => Good(EatAn(t, kanji, v))
  <2> SUFFICES ASSUME mode(1) = "AN" PROVE Good(EatAn(t, kanji, v))
    OBVIOUS
  <2>1. t[1] \in AnChar /\ t[1] \notin Digit
    BY <1>0, <1>4
  <2>2. 0 \in 0..Len(t) - 1 /\ 0 + 1 = 1 /\ \A i \in 1..0 : t[i] \in Digit
    BY <1>0
  <2>3. AnStarts(t, kanji, v)
    BY <2>1, <2>2 DEF AnStarts
  <2> HIDE DEF Good
  <2> QED BY <1>3, <2>3
<1>7. mode(1) = "KANJI" => Good(EatKanji(t))
  <2> SUFFICES ASSUME mode(1) = "KANJI" PROVE Good(EatKanji(t))
    OBVIOUS
  <2>1. kanji = TRUE
    BY <1>0, <1>4
  <2>2. IdentifyMode(t, 1, TRUE) = "KANJI"
    BY <2>1
  <2>3. t[1] \notin AnChar /\ t[1] \notin Digit
    BY <1>0, <1>4, DigitsAreAn
  <2> HIDE DEF mode
  <2> QED BY <1>0, <2>2, <2>3, EatKanjiTakes DEF SplittableMode
<1>8. mode(1) = "8" => Good(Eat8(t, kanji, v))
  <2> SUFFICES ASSUME mode(1) = "8" PROVE Good(Eat8(t, kanji, v))
    OBVIOUS
  <2>1. NotAn(t)
    BY <1>0, <1>4 DEF NotAn
  <2> HIDE DEF Good
  <2> QED BY <1>2, <2>1
<1>9. mode(1) \in {"NUM", "AN", "KANJI", "8"}
  BY <1>0, <1>4
<1>10. Eat(t, kanji, v) = CASE mode(1) = "NUM" -> EatNum(t, kanji, v)
                            [] mode(1) = "AN" -> EatAn(t, kanji, v)
                            [] mode(1) = "KANJI" -> EatKanji(t)
                            [] mode(1) = "8" -> Eat8(t, kanji, v)
  BY DEF Eat
<1>11. Good(Eat(t, kanji, v))
  <2> HIDE DEF Good, mode
  <2>1. CASE mode(1) = "NUM"
    BY <1>5, <1>10, <2>1
  <2>2. CASE mode(1) = "AN"
    BY <1>6, <1>10, <2>2
  <2>3. CASE mode(1) = "KANJI"
    BY <1>7, <1>10, <2>3
  <2>4. CASE mode(1) = "8"
    BY <1>8, <1>10, <2>4
  <2> QED BY <1>9, <2>1, <2>2, <2>3, <2>4
<1> QED BY <1>11, Zenon

Binary == {0, 1}
Bitstream == Seq(Binary)

LEMMA NumInBits ==
  ASSUME NEW n \in Int, NEW x \in Int
  PROVE  FromNum(n, x) \in Bitstream
BY DEF FromNum, Bitstream, Binary

LEMMA NumsInBits ==
  ASSUME NEW n \in Nat, n > 0, NEW s \in Seq(Int)
  PROVE  FromNums(n, s) \in Bitstream
<1>1. PICK m \in Nat : m = Len(s) /\ n * m \in Nat
  OBVIOUS
<1>2. ASSUME NEW i \in 1..n * m PROVE s[((i - 1) \div n) + 1] \in Int
  <2>1. (i - 1) \div n \in 0..m - 1
    <3>1. PICK j \in Nat : j = i - 1 /\ j < n * m
      BY <1>1
    <3>2. PICK q \in Nat : q = j \div n
      OBVIOUS
    <3>3. n * q <= j
      BY <3>2
    <3>4. q < m
      <4> SUFFICES ASSUME q >= m PROVE FALSE
        BY <1>1, <3>2
      <4>1. n * q >= n * m
        BY <1>1, <3>2
      <4> QED BY <3>1, <3>3, <4>1
    <3> QED BY <3>1, <3>2, <3>4
  <2> QED BY <1>1, <2>1
<1>3. FromNums(n, s) = [i \in 1..n * m |-> (s[((i - 1) \div n) + 1] \div 2^(n - 1 - ((i - 1) % n))) % 2]
  BY <1>1 DEF FromNums
<1>4. ASSUME NEW i \in 1..n * m PROVE (s[((i - 1) \div n) + 1] \div 2^(n - 1 - ((i - 1) % n))) % 2 \in Binary
  <2>1. PICK x \in Int : x = s[((i - 1) \div n) + 1]
    BY <1>2
  <2>2. (x \div 2^(n - 1 - ((i - 1) % n))) % 2 \in {0, 1}
    OBVIOUS
  <2> QED BY <2>1, <2>2 DEF Binary
<1> QED BY <1>1, <1>3, <1>4 DEF Bitstream

LEMMA Joining ==
  ASSUME NEW a \in Bitstream, NEW b \in Bitstream
  PROVE  a \o b \in Bitstream
BY DEF Bitstream

LEMMA PaddingInBits ==
  ASSUME NEW n \in Int
  PROVE  PadBytes(n) \in Bitstream
<1> DEFINE bytes == [i \in 1..n |-> IF i % 2 = 1 THEN 236 ELSE 17]
<1>1. bytes \in Seq(Int)
  OBVIOUS
<1> HIDE DEF bytes
<1> QED BY <1>1, NumsInBits DEF PadBytes, bytes

(* Padding appends bits to bits. *)
LEMMA PaddedInBits ==
  ASSUME NEW stream \in Bitstream, NEW version \in Nat, NEW level, DataLength(version, level) \in Nat
  PROVE  AppendPaddingBit(stream, version, level) \in Bitstream
<1>1. PICK n \in Nat, most \in Nat : n = Len(stream) /\ most = DataLength(version, level)
  BY DEF Bitstream
<1> DEFINE free == 8 * most - n
           words == (n + 4 + 7) \div 8
<1>2. free \in Int /\ words \in Int /\ 8 * words - n \in Int /\ most - words \in Int
  OBVIOUS
<1>3. AppendPaddingBit(stream, version, level) =
        IF free <= 4 THEN stream \o FromNum(free, 0)
        ELSE (stream \o FromNum(8 * words - n, 0)) \o PadBytes(most - words)
  BY <1>1 DEF AppendPaddingBit
<1>4. FromNum(free, 0) \in Bitstream /\ FromNum(8 * words - n, 0) \in Bitstream /\ PadBytes(most - words) \in Bitstream
  BY <1>2, NumInBits, PaddingInBits
<1> HIDE DEF free, words
<1> QED BY <1>3, <1>4, Joining

LEMMA MicroPaddedInBits ==
  ASSUME NEW stream \in Bitstream, NEW version \in Nat, NEW level, MicroDataLengthBit(version, level) \in Nat
  PROVE  AppendPaddingBitMQR(stream, version, level) \in Bitstream
<1>1. PICK n \in Nat, maxbits \in Nat : n = Len(stream) /\ maxbits = MicroDataLengthBit(version, level)
  BY DEF Bitstream
<1> DEFINE maxwords == maxbits \div 8
           terminator == 2 * version + 1
           free == maxbits - n
           words == (n + terminator + 7) \div 8
           half == IF maxbits > 8 * words /\ words = maxwords THEN maxbits - 8 * words ELSE 0
           tail == IF words >= maxwords THEN <<>>
                   ELSE PadBytes(maxwords - words) \o FromNum(maxbits - 8 * maxwords, 0)
<1>2. /\ free \in Int /\ words \in Int /\ (8 * words - n) + half \in Int /\ maxwords - words \in Int
      /\ maxbits - 8 * maxwords \in Int
  OBVIOUS
<1>3. AppendPaddingBitMQR(stream, version, level) =
        IF free <= terminator THEN stream \o FromNum(free, 0)
        ELSE (stream \o FromNum((8 * words - n) + half, 0)) \o tail
  BY <1>1 DEF AppendPaddingBitMQR
<1>4. FromNum(free, 0) \in Bitstream /\ FromNum((8 * words - n) + half, 0) \in Bitstream
  BY <1>2, NumInBits
<1>5. PadBytes(maxwords - words) \in Bitstream /\ FromNum(maxbits - 8 * maxwords, 0) \in Bitstream
  BY <1>2, NumInBits, PaddingInBits
<1> HIDE DEF free, words, maxwords, half, terminator
<1>6. tail \in Bitstream
  <2>1. <<>> \in Bitstream
    BY DEF Bitstream
  <2> QED BY <1>5, <2>1, Joining
<1> HIDE DEF tail
<1> QED BY <1>3, <1>4, <1>6, Joining

LEMMA CodeOfLetter ==
  ASSUME NEW c \in AnChar
  PROVE  AnTable[c] \in Int
<1>1. \E i \in 1..45 : AnOrder[i] = c
  BY DEF AnChar
<1> DEFINE place == CHOOSE i \in 1..45 : AnOrder[i] = c
<1>2. place \in 1..45
  BY <1>1
<1>3. AnTable[c] = place - 1
  BY DEF AnTable
<1> HIDE DEF place
<1> QED BY <1>2, <1>3

LEMMA PayloadInBits ==
  ASSUME NEW s \in Seq(Int), s # <<>>
  PROVE  /\ EncodeModeNum(s) \in Bitstream
         /\ (\A i \in DOMAIN s : s[i] \in AnChar) => EncodeModeAn(s) \in Bitstream
         /\ EncodeMode8(s) \in Bitstream /\ EncodeModeKanji(s) \in Bitstream
         /\ Len(s) = 3 => EncodeModeStructure(s) \in Bitstream
         /\ Len(s) = 4 => EncodeModeECI(s) \in Bitstream
         /\ EncodeModeFNC1Second(s) \in Bitstream
<1>0. PICK n \in Nat \ {0} : n = Len(s) /\ DOMAIN s = 1..n /\ \A i \in 1..n : s[i] \in Int
  OBVIOUS
<1>1. EncodeModeNum(s) \in Bitstream
  <2> DEFINE threes == [i \in 1..n \div 3 |-> (100 * (s[3 * i - 2] - 48) + 10 * (s[3 * i - 1] - 48)) + (s[3 * i] - 48)]
             one == FromNum(4, s[n] - 48)
             two == FromNum(7, 10 * (s[n - 1] - 48) + (s[n] - 48))
             behind == CASE n % 3 = 0 -> <<>> [] n % 3 = 1 -> one [] n % 3 = 2 -> two
  <2>1. EncodeModeNum(s) = FromNums(10, threes) \o behind
    BY <1>0 DEF EncodeModeNum
  <2>2. threes \in Seq(Int)
    <3>1. \A i \in 1..n \div 3 : 3 * i - 2 \in 1..n /\ 3 * i - 1 \in 1..n /\ 3 * i \in 1..n
      OBVIOUS
    <3>2. \A i \in 1..n \div 3 : (100 * (s[3 * i - 2] - 48) + 10 * (s[3 * i - 1] - 48)) + (s[3 * i] - 48) \in Int
      <4> TAKE i \in 1..n \div 3
      <4>1. PICK a \in Int, b \in Int, c \in Int : a = s[3 * i - 2] /\ b = s[3 * i - 1] /\ c = s[3 * i]
        BY <1>0, <3>1
      <4>2. (100 * (a - 48) + 10 * (b - 48)) + (c - 48) \in Int
        OBVIOUS
      <4> QED BY <4>1, <4>2, Zenon
    <3> QED BY <3>2
  <2>3. behind \in Bitstream
    <3>1. PICK k \in {0, 1, 2} : k = n % 3
      OBVIOUS
    <3>2. n \in 1..n /\ (k = 2 => n - 1 \in 1..n)
      BY <3>1
    <3>3. s[n] - 48 \in Int
      BY <1>0, <3>2
    <3>4. k = 2 => 10 * (s[n - 1] - 48) + (s[n] - 48) \in Int
      BY <1>0, <3>2
    <3>5. one \in Bitstream
      BY <3>3, NumInBits
    <3>6. k = 2 => two \in Bitstream
      BY <3>4, NumInBits
    <3> HIDE DEF one, two
    <3>7. <<>> \in Bitstream
      BY DEF Bitstream
    <3>8. behind = CASE k = 0 -> <<>> [] k = 1 -> one [] k = 2 -> two
      BY <3>1
    <3> HIDE DEF behind
    <3> QED BY <3>5, <3>6, <3>7, <3>8
  <2> HIDE DEF threes, behind
  <2> QED BY <2>1, <2>2, <2>3, NumsInBits, Joining
<1>2. ASSUME \A i \in DOMAIN s : s[i] \in AnChar PROVE EncodeModeAn(s) \in Bitstream
  <2> DEFINE pairs == [i \in 1..n \div 2 |-> 45 * AnTable[s[2 * i - 1]] + AnTable[s[2 * i]]]
             behind == IF n % 2 = 1 THEN FromNum(6, AnTable[s[n]]) ELSE <<>>
  <2>1. EncodeModeAn(s) = FromNums(11, pairs) \o behind
    BY <1>0 DEF EncodeModeAn
  <2>2. \A i \in 1..n : AnTable[s[i]] \in Int
    BY <1>0, <1>2, CodeOfLetter
  <2>3. pairs \in Seq(Int)
    <3>1. \A i \in 1..n \div 2 : 2 * i - 1 \in 1..n /\ 2 * i \in 1..n
      OBVIOUS
    <3>2. \A i \in 1..n \div 2 : 45 * AnTable[s[2 * i - 1]] + AnTable[s[2 * i]] \in Int
      BY <2>2, <3>1
    <3> QED BY <3>2
  <2>4. behind \in Bitstream
    <3>1. FromNum(6, AnTable[s[n]]) \in Bitstream
      BY <1>0, <2>2, NumInBits
    <3> QED BY <3>1 DEF Bitstream
  <2> HIDE DEF pairs, behind
  <2> QED BY <2>1, <2>3, <2>4, NumsInBits, Joining
<1>3. EncodeMode8(s) \in Bitstream
  BY NumsInBits DEF EncodeMode8
<1>4. EncodeModeKanji(s) \in Bitstream
  <2> DEFINE base(val) == IF val <= \h9ffc THEN val - \h8140 ELSE val - \hc140
             code(val) == \hc0 * (base(val) \div 256) + (base(val) % 256)
             pairs == [i \in 1..n \div 2 |-> code(256 * s[2 * i - 1] + s[2 * i])]
  <2>1. EncodeModeKanji(s) = FromNums(13, pairs)
    BY <1>0 DEF EncodeModeKanji
  <2>2. \A val \in Int : code(val) \in Int
    OBVIOUS
  <2> HIDE DEF code
  <2>3. pairs \in Seq(Int)
    <3>1. \A i \in 1..n \div 2 : 2 * i - 1 \in 1..n /\ 2 * i \in 1..n
      OBVIOUS
    <3>2. \A i \in 1..n \div 2 : 256 * s[2 * i - 1] + s[2 * i] \in Int
      BY <1>0, <3>1
    <3>3. \A i \in 1..n \div 2 : code(256 * s[2 * i - 1] + s[2 * i]) \in Int
      BY <2>2, <3>2
    <3> QED BY <3>3
  <2> HIDE DEF pairs
  <2> QED BY <2>1, <2>3, NumsInBits
<1>5. ASSUME Len(s) = 3 PROVE EncodeModeStructure(s) \in Bitstream
  <2>1. s[1] - 1 \in Int /\ s[2] - 1 \in Int /\ s[3] \in Int
    <3>1. 1 \in 1..n /\ 2 \in 1..n /\ 3 \in 1..n
      BY <1>0, <1>5
    <3> QED BY <1>0, <3>1
  <2>2. FromNum(4, 3) \in Bitstream /\ FromNum(4, s[2] - 1) \in Bitstream /\ FromNum(4, s[1] - 1) \in Bitstream /\ FromNum(8, s[3]) \in Bitstream
    BY <2>1, NumInBits
  <2> QED BY <2>2, Joining DEF EncodeModeStructure
<1>6. ASSUME Len(s) = 4 PROVE EncodeModeECI(s) \in Bitstream
  <2>1. s[1] \in Int /\ s[2] \in Int /\ s[3] \in Int /\ s[4] \in Int
    <3>1. 1 \in 1..n /\ 2 \in 1..n /\ 3 \in 1..n /\ 4 \in 1..n
      BY <1>0, <1>6
    <3> QED BY <1>0, <3>1
  <2>2. DecodeEci(s) \in Int
    <3>1. PICK a \in Int, b \in Int, c \in Int, d \in Int : a = s[1] /\ b = s[2] /\ c = s[3] /\ d = s[4]
      BY <2>1
    <3>2. DecodeEci(s) = a + 256 * b + 65536 * c + 16777216 * d
      BY <3>1 DEF DecodeEci
    <3>3. 256 * b \in Int /\ 65536 * c \in Int /\ 16777216 * d \in Int
      OBVIOUS
    <3> QED BY <3>2, <3>3
  <2>3. PICK x \in Int : x = DecodeEci(s)
    BY <2>2
  <2>4. PICK w \in 1..3 : w = EciWords(x)
    BY DEF EciWords
  <2>5. EncodeModeECI(s) = FromNum(4, 7) \o FromNum(8 * w, <<0, \h8000, \hc0000>>[w] + x)
    BY <2>3, <2>4 DEF EncodeModeECI
  <2>6. <<0, \h8000, \hc0000>>[w] + x \in Int /\ 8 * w \in Int
    OBVIOUS
  <2>7. FromNum(4, 7) \in Bitstream /\ FromNum(8 * w, <<0, \h8000, \hc0000>>[w] + x) \in Bitstream
    BY <2>6, NumInBits
  <2> QED BY <2>5, <2>7, Joining
<1>7. EncodeModeFNC1Second(s) \in Bitstream
  <2>1. FromNum(4, 9) \in Bitstream /\ FromNum(8, s[1]) \in Bitstream
    BY <1>0, NumInBits
  <2> QED BY <2>1, Joining DEF EncodeModeFNC1Second
<1> QED BY <1>1, <1>2, <1>3, <1>4, <1>5, <1>6, <1>7

LEMMA HeaderInBits ==
  ASSUME NEW mode \in SplittableMode, NEW size \in Int, NEW version \in Nat, NEW mqr \in BOOLEAN,
         mqr => version \in 1..4
  PROVE  Header(mode, size, version, mqr) \in Bitstream
<1>1. ModeId(mode, TRUE) \in Int /\ ModeId(mode, FALSE) \in Int
  BY DEF ModeId, SplittableMode
<1>2. CASE mqr
  <2>1. MicroLengthIndicator(mode, version) \in Int /\ version - 1 \in Int
    <3>1. version \in {1, 2, 3, 4} /\ mode \in {"NUM", "AN", "8", "KANJI"}
      BY <1>2 DEF SplittableMode
    <3> QED BY <3>1 DEF MicroLengthIndicator
  <2>2. FromNum(version - 1, ModeId(mode, TRUE)) \in Bitstream /\ FromNum(MicroLengthIndicator(mode, version), size) \in Bitstream
    BY <1>1, <1>2, <2>1, NumInBits
  <2> QED BY <1>2, <2>2, Joining DEF Header
<1>3. CASE ~mqr
  <2>1. PICK id \in Int : id = ModeId(mode, FALSE)
    BY <1>1
  <2>2. PICK l \in Int : l = LengthIndicator(mode, version)
    BY DEF LengthIndicator, SplittableMode
  <2>3. FromNum(4, id) \in Bitstream
    BY NumInBits
  <2>4. FromNum(l, size) \in Bitstream
    BY NumInBits
  <2>5. Header(mode, size, version, mqr) = FromNum(4, id) \o FromNum(l, size)
    BY <1>3, <2>1, <2>2 DEF Header
  <2> QED BY <2>3, <2>4, <2>5, Joining
<1> QED BY <1>2, <1>3

(* Pieces put one after the other, from p on; after the one at p comes the one at
   next[p], unless p is in stop. *)
Chained(f, m, n, stop, piece, next) ==
  f = [p \in m..n |-> IF p \in stop THEN piece[p] ELSE piece[p] \o f[next[p]]]

LEMMA ChainExists ==
  ASSUME NEW m \in Nat, NEW n \in Nat, NEW S, NEW stop, NEW next, \A p \in m..n : p \notin stop => next[p] \in p + 1..n,
         NEW piece, \A p \in m..n : piece[p] \in Seq(S)
  PROVE  \E f : Chained(f, m, n, stop, piece, next)
<1> DEFINE Part(w, k) == \A p \in m..n : p + k > n => w[p] = IF p \in stop THEN piece[p] ELSE piece[p] \o w[next[p]]
           T == {k \in Nat : \E w \in [Nat -> Seq(S)] : Part(w, k)}
<1>1. 0 \in T
  <2>1. Part([p \in Nat |-> <<>>], 0)
    OBVIOUS
  <2>2. [p \in Nat |-> <<>>] \in [Nat -> Seq(S)]
    OBVIOUS
  <2> HIDE DEF Part
  <2> QED BY <2>1, <2>2
<1>2. ASSUME NEW k \in Nat, k \in T PROVE k + 1 \in T
  <2>1. PICK w \in [Nat -> Seq(S)] : Part(w, k)
    BY <1>2
  <2>2. PICK p \in Int : p = n - k
    OBVIOUS
  <2>3. CASE p < m
    <3>1. Part(w, k + 1)
      BY <2>1, <2>2, <2>3
    <3> HIDE DEF Part
    <3> QED BY <2>1, <3>1
  <2>4. CASE p >= m
    <3>1. p \in m..n /\ p \in Nat
      BY <2>2, <2>4
    <3> DEFINE x == IF p \in stop THEN piece[p] ELSE piece[p] \o w[next[p]]
    <3>2. x \in Seq(S)
      <4>1. piece[p] \in Seq(S)
        BY <3>1
      <4>2. p \notin stop => next[p] \in Nat
        BY <3>1, SMTT(40)
      <4>3. p \notin stop => w[next[p]] \in Seq(S)
        BY <4>2
      <4> QED BY <4>1, <4>3
    <3> HIDE DEF x
    <3> DEFINE u == [w EXCEPT ![p] = x]
    <3>3. u \in [Nat -> Seq(S)] /\ u[p] = x /\ \A q \in Nat : q # p => u[q] = w[q]
      BY <3>1, <3>2
    <3> HIDE DEF u
    <3>4. ASSUME NEW q \in m..n, q + (k + 1) > n PROVE u[q] = IF q \in stop THEN piece[q] ELSE piece[q] \o u[next[q]]
      <4>1. q \in Nat /\ (q # p => q + k > n)
        BY <2>2, <3>4
      <4>2. q \notin stop => next[q] \in Nat /\ next[q] # p
        BY <2>2, <3>4
      <4>3. q \notin stop => u[next[q]] = w[next[q]]
        BY <3>3, <4>1, <4>2
      <4>4. CASE q = p
        BY <3>3, <4>3, <4>4 DEF x
      <4>5. CASE q # p
        <5>1. w[q] = IF q \in stop THEN piece[q] ELSE piece[q] \o w[next[q]]
          BY <2>1, <4>1, <4>5
        <5> QED BY <3>3, <4>1, <4>3, <4>5, <5>1
      <4> QED BY <4>4, <4>5
    <3>5. Part(u, k + 1)
      BY <3>4
    <3> HIDE DEF Part
    <3> QED BY <3>3, <3>5
  <2> HIDE DEF T
  <2> QED BY <2>2, <2>3, <2>4
<1> HIDE DEF T
<1>3. PICK k \in Nat : k \in T /\ \A p \in m..n : p + k > n
  <2>1. n + 1 \in Nat /\ \A p \in m..n : p + (n + 1) > n
    OBVIOUS
  <2>2. Nat \subseteq T
    BY <1>1, <1>2, Induction
  <2> QED BY <2>1, <2>2
<1>4. PICK w \in [Nat -> Seq(S)] : Part(w, k)
  BY <1>3 DEF T
<1> DEFINE v == [p \in m..n |-> w[p]]
<1>5. v = [p \in m..n |-> IF p \in stop THEN piece[p] ELSE piece[p] \o v[next[p]]]
  <2>1. ASSUME NEW p \in m..n PROVE w[p] = IF p \in stop THEN piece[p] ELSE piece[p] \o v[next[p]]
    <3>1. p + k > n
      BY <1>3
    <3>2. w[p] = IF p \in stop THEN piece[p] ELSE piece[p] \o w[next[p]]
      BY <1>4, <3>1
    <3>3. p \notin stop => next[p] \in m..n
      OBVIOUS
    <3>4. p \notin stop => v[next[p]] = w[next[p]]
      BY <3>3
    <3> QED BY <3>2, <3>4
  <2> QED BY <2>1
<1> HIDE DEF v
<1> QED BY <1>5 DEF Chained

LEMMA ChainType ==
  ASSUME NEW m \in Nat, NEW n \in Nat, NEW S, NEW stop, NEW next, \A p \in m..n : p \notin stop => next[p] \in p + 1..n,
         NEW piece, \A p \in m..n : piece[p] \in Seq(S),
         NEW f, Chained(f, m, n, stop, piece, next)
  PROVE  \A p \in m..n : f[p] \in Seq(S)
<1> DEFINE T == {k \in Nat : \A p \in m..n : p + k > n => f[p] \in Seq(S)}
<1>0. \A p \in m..n : f[p] = IF p \in stop THEN piece[p] ELSE piece[p] \o f[next[p]]
  BY DEF Chained
<1>1. 0 \in T
  OBVIOUS
<1>2. ASSUME NEW k \in Nat, k \in T PROVE k + 1 \in T
  <2> SUFFICES ASSUME NEW p \in m..n, p + (k + 1) > n PROVE f[p] \in Seq(S)
    OBVIOUS
  <2>1. p \in m..n /\ piece[p] \in Seq(S)
    OBVIOUS
  <2>2. CASE p \in stop
    BY <1>0, <2>1, <2>2
  <2>3. CASE p \notin stop
    <3>1. next[p] \in p + 1..n /\ f[p] = piece[p] \o f[next[p]]
      BY <1>0, <2>1, <2>3
    <3>2. next[p] \in m..n /\ next[p] + k > n
      BY <2>1, <3>1
    <3>3. f[next[p]] \in Seq(S)
      BY <1>2, <3>2
    <3> QED BY <2>1, <3>1, <3>3
  <2> QED BY <2>2, <2>3
<1> HIDE DEF T
<1>3. Nat \subseteq T
  BY <1>1, <1>2, Induction
<1>4. n + 1 \in T
  <2>1. n + 1 \in Nat
    OBVIOUS
  <2> QED BY <1>3, <2>1
<1> QED BY <1>4 DEF T

(* What the library makes of the text before it splits it is a text. *)
LEMMA CapitalsAreText ==
  ASSUME NEW t \in Seq(Nat), NEW kanji \in BOOLEAN
  PROVE  DupAndToUpper(t, kanji) \in Seq(Nat)
<1>1. PICK n \in Nat : n = Len(t) /\ \A i \in 1..n : t[i] \in Nat
  OBVIOUS
<1> DEFINE stop == {n + 1}
           pair(p) == IdentifyMode(t, p, kanji) = "KANJI"
           piece == [p \in 1..n + 1 |-> IF p > n THEN <<>> ELSE IF pair(p) THEN SubSeq(t, p, p + 1)
                                        ELSE <<IF t[p] \in 97..122 THEN t[p] - 32 ELSE t[p]>>]
           next == [p \in 1..n + 1 |-> IF pair(p) THEN p + 2 ELSE p + 1]
           Is(upper) ==
             upper = [p \in 1..Len(t) + 1 |->
                       CASE p > Len(t) -> <<>>
                         [] IdentifyMode(t, p, kanji) = "KANJI" -> SubSeq(t, p, p + 1) \o upper[p + 2]
                         [] OTHER -> <<IF t[p] \in 97..122 THEN t[p] - 32 ELSE t[p]>> \o upper[p + 1]]
<1>2. \A p \in 1..n + 1 : pair(p) => p < n
  BY <1>1 DEF IdentifyMode
<1>3. \A p \in 1..n + 1 : p \notin stop => next[p] \in p + 1..n + 1
  BY <1>2
<1>4. \A p \in 1..n + 1 : piece[p] \in Seq(Nat)
  <2> TAKE p \in 1..n + 1
  <2>1. CASE p > n
    BY <2>1
  <2>2. CASE p <= n /\ pair(p)
    <3>1. SubSeq(t, p, p + 1) \in Seq(Nat)
      BY <1>1, <1>2, <2>2, SubSeqProperties
    <3> QED BY <2>2, <3>1
  <2>3. CASE p <= n /\ ~pair(p)
    <3>1. p \in 1..n
      BY <2>3
    <3>2. PICK x \in Nat : x = t[p]
      BY <1>1, <3>1
    <3>3. PICK y \in Nat : y = IF x \in 97..122 THEN x - 32 ELSE x
      OBVIOUS
    <3>4. piece[p] = <<y>>
      BY <2>3, <3>2, <3>3
    <3> HIDE DEF piece
    <3> QED BY <3>4
  <2> QED BY <2>1, <2>2, <2>3
<1>5. \A f : Chained(f, 1, n + 1, stop, piece, next) <=> Is(f)
  <2> TAKE f
  <2> DEFINE one(p) == IF p \in stop THEN piece[p] ELSE piece[p] \o f[next[p]]
             two(p) == CASE p > Len(t) -> <<>>
                         [] IdentifyMode(t, p, kanji) = "KANJI" -> SubSeq(t, p, p + 1) \o f[p + 2]
                         [] OTHER -> <<IF t[p] \in 97..122 THEN t[p] - 32 ELSE t[p]>> \o f[p + 1]
  <2>1. ASSUME NEW p \in 1..n + 1 PROVE one(p) = two(p)
    <3>1. CASE p = n + 1
      <4>1. p > Len(t) /\ p \in stop /\ piece[p] = <<>> /\ ~pair(p)
        BY <1>1, <1>2, <3>1
      <4> QED BY <4>1, Zenon
    <3>2. CASE p # n + 1 /\ pair(p)
      <4>1. ~(p > Len(t)) /\ p \notin stop /\ piece[p] = SubSeq(t, p, p + 1) /\ next[p] = p + 2
        BY <1>1, <3>2
      <4> QED BY <3>2, <4>1, Zenon
    <3>3. CASE p # n + 1 /\ ~pair(p)
      <4>1. ~(p > Len(t)) /\ p \notin stop /\ ~(p > n)
        BY <1>1, <3>3
      <4>2. next[p] = p + 1
        BY <3>3
      <4>3. piece[p] = IF p > n THEN <<>> ELSE IF pair(p) THEN SubSeq(t, p, p + 1)
                       ELSE <<IF t[p] \in 97..122 THEN t[p] - 32 ELSE t[p]>>
        BY Zenon
      <4>5. ~pair(p)
        BY <3>3
      <4> QED BY <4>1, <4>2, <4>3, <4>5, Zenon
    <3> QED BY <3>1, <3>2, <3>3
  <2>2. Chained(f, 1, n + 1, stop, piece, next) <=> f = [p \in 1..n + 1 |-> one(p)]
    BY Zenon DEF Chained
  <2>3. Is(f) <=> f = [p \in 1..n + 1 |-> two(p)]
    BY <1>1, Zenon
  <2> HIDE DEF one, two, Is
  <2>4. [p \in 1..n + 1 |-> one(p)] = [p \in 1..n + 1 |-> two(p)]
    BY <2>1
  <2> QED BY <2>2, <2>3, <2>4
<1> HIDE DEF stop, piece, next
<1> DEFINE u == CHOOSE upper : Is(upper)
<1>6. DupAndToUpper(t, kanji) = u[1]
  BY Zenon DEF DupAndToUpper
<1> HIDE DEF Is
<1>7. 1 \in Nat /\ n + 1 \in Nat /\ 1 \in 1..n + 1
  OBVIOUS
<1>8. \E f : Chained(f, 1, n + 1, stop, piece, next)
  BY <1>3, <1>4, <1>7, ChainExists, Zenon
<1>9. Is(u)
  BY <1>5, <1>8, Zenon
<1> HIDE DEF u
<1>10. Chained(u, 1, n + 1, stop, piece, next)
  BY <1>5, <1>9
<1>11. \A p \in 1..n + 1 : u[p] \in Seq(Nat)
  BY <1>3, <1>4, <1>7, <1>10, ChainType, Zenon
<1> QED BY <1>6, <1>7, <1>11

(* What an entry holds: its data, and what its mode takes of them. *)
Segments ==
  {e \in [mode : SplittableMode \cup {"ECI", "STRUCTURE", "FNC1SECOND"}, data : Seq(Int)] :
     /\ e.data # <<>>
     /\ e.mode = "AN" => \A i \in DOMAIN e.data : e.data[i] \in AnChar
     /\ e.mode = "ECI" => Len(e.data) = 4
     /\ e.mode = "STRUCTURE" => Len(e.data) = 3}

LEMMA WordsType ==
  ASSUME NEW mode, NEW version \in Nat
  PROVE  MaximumWords(mode, version) \in Nat /\ (mode \notin SplittableMode => MaximumWords(mode, version) = 0)
<1>1. CASE mode \notin SplittableMode
  BY <1>1 DEF MaximumWords
<1>2. CASE mode \in SplittableMode
  <2>1. PICK l \in {8, 9, 10, 11, 12, 13, 14, 16} : l = LengthIndicator(mode, version)
    BY <1>2 DEF LengthIndicator, SplittableMode
  <2>2. 2^8 = 256 /\ 2^9 = 512 /\ 2^10 = 1024 /\ 2^11 = 2048 /\ 2^12 = 4096 /\ 2^13 = 8192 /\ 2^14 = 16384 /\ 2^16 = 65536
    OBVIOUS
  <2>5. 2^l \in Nat /\ 2^l >= 1
    <3>1. CASE l = 8
      BY <2>2, <3>1
    <3>2. CASE l = 9
      BY <2>2, <3>2
    <3>3. CASE l = 10
      BY <2>2, <3>3
    <3>4. CASE l = 11
      BY <2>2, <3>4
    <3>5. CASE l = 12
      BY <2>2, <3>5
    <3>6. CASE l = 13
      BY <2>2, <3>6
    <3>7. CASE l = 14
      BY <2>2, <3>7
    <3>8. CASE l = 16
      BY <2>2, <3>8
    <3> QED BY <3>1, <3>2, <3>3, <3>4, <3>5, <3>6, <3>7, <3>8
  <2>3. PICK k \in Nat : k = 2^l - 1
    BY <2>5
  <2>4. MaximumWords(mode, version) = k * (IF mode = "KANJI" THEN 2 ELSE 1)
    BY <1>2, <2>1, <2>3 DEF MaximumWords
  <2> QED BY <1>2, <2>4
<1> QED BY <1>1, <1>2

(* A part of a segment, written behind its header. *)
Chunked(mode, s, version, mqr) ==
  CASE mode = "NUM" -> Header("NUM", Len(s), version, mqr) \o EncodeModeNum(s)
    [] mode = "AN" -> Header("AN", Len(s), version, mqr) \o EncodeModeAn(s)
    [] mode = "8" -> Header("8", Len(s), version, mqr) \o EncodeMode8(s)
    [] mode = "KANJI" -> Header("KANJI", Len(s) \div 2, version, mqr) \o EncodeModeKanji(s)
    [] mode = "STRUCTURE" -> EncodeModeStructure(s)
    [] mode = "ECI" -> EncodeModeECI(s)
    [] mode = "FNC1SECOND" -> EncodeModeFNC1Second(s)

LEMMA ChunkInBits ==
  ASSUME NEW mode \in SplittableMode \cup {"ECI", "STRUCTURE", "FNC1SECOND"}, NEW s \in Seq(Int), s # <<>>,
         mode = "AN" => \A i \in DOMAIN s : s[i] \in AnChar,
         mode = "ECI" => Len(s) = 4, mode = "STRUCTURE" => Len(s) = 3,
         NEW version \in Nat, NEW mqr \in BOOLEAN, mqr => version \in 1..4
  PROVE  Chunked(mode, s, version, mqr) \in Bitstream
<1>1. /\ EncodeModeNum(s) \in Bitstream /\ EncodeMode8(s) \in Bitstream /\ EncodeModeKanji(s) \in Bitstream
      /\ EncodeModeFNC1Second(s) \in Bitstream
      /\ mode = "AN" => EncodeModeAn(s) \in Bitstream
      /\ mode = "STRUCTURE" => EncodeModeStructure(s) \in Bitstream
      /\ mode = "ECI" => EncodeModeECI(s) \in Bitstream
  BY PayloadInBits
<1>2. PICK n \in Int, m \in Int : n = Len(s) /\ m = Len(s) \div 2
  OBVIOUS
<1>3. /\ Header("NUM", n, version, mqr) \in Bitstream /\ Header("AN", n, version, mqr) \in Bitstream
      /\ Header("8", n, version, mqr) \in Bitstream /\ Header("KANJI", m, version, mqr) \in Bitstream
  BY HeaderInBits DEF SplittableMode
<1>4. CASE mode = "NUM"
  BY <1>1, <1>2, <1>3, <1>4, Joining DEF Chunked
<1>5. CASE mode = "AN"
  BY <1>1, <1>2, <1>3, <1>5, Joining DEF Chunked
<1>6. CASE mode = "8"
  BY <1>1, <1>2, <1>3, <1>6, Joining DEF Chunked
<1>7. CASE mode = "KANJI"
  BY <1>1, <1>2, <1>3, <1>7, Joining DEF Chunked
<1>8. CASE mode = "STRUCTURE"
  BY <1>1, <1>8 DEF Chunked
<1>9. CASE mode = "ECI"
  BY <1>1, <1>9 DEF Chunked
<1>10. CASE mode = "FNC1SECOND"
  BY <1>1, <1>10 DEF Chunked
<1> QED BY <1>4, <1>5, <1>6, <1>7, <1>8, <1>9, <1>10 DEF SplittableMode

(* QRinput_encodeBitStream writes bits (qrinput.c:1055-1118). *)
LEMMA SegmentInBits ==
  ASSUME NEW e \in Segments, NEW version \in Nat, NEW mqr \in BOOLEAN, mqr => version \in 1..4
  PROVE  EncodeBitStream(e, version, mqr) \in Bitstream
<1> DEFINE mode == e.mode
           t == e.data
           n == Len(t)
           words == MaximumWords(mode, version)
           Is(f) == f = [p \in 1..n |-> IF words = 0 \/ p + words > n THEN Chunked(mode, SubSeq(t, p, n), version, mqr)
                                       ELSE Chunked(mode, SubSeq(t, p, p + words - 1), version, mqr) \o f[p + words]]
           from == CHOOSE f : Is(f)
<1>1. /\ mode \in SplittableMode \cup {"ECI", "STRUCTURE", "FNC1SECOND"} /\ t \in Seq(Int) /\ n \in Nat \ {0}
      /\ \A i \in 1..n : t[i] \in Int
      /\ mode = "AN" => \A i \in 1..n : t[i] \in AnChar
      /\ mode = "ECI" => n = 4
      /\ mode = "STRUCTURE" => n = 3
  BY DEF Segments
<1>2. words \in Nat /\ (mode \notin SplittableMode => words = 0)
  BY WordsType
<1>3. EncodeBitStream(e, version, mqr) = from[1]
  BY Zenon DEF EncodeBitStream, Chunked
<1>6. Len(t) = n /\ DOMAIN t = 1..n
  BY <1>1
<1> HIDE DEF mode, t, n, words
<1>4. CASE mode \in SplittableMode
  <2> DEFINE stop == {p \in 1..n : words = 0 \/ p + words > n}
             piece == [p \in 1..n |-> IF words = 0 \/ p + words > n THEN Chunked(mode, SubSeq(t, p, n), version, mqr)
                                      ELSE Chunked(mode, SubSeq(t, p, p + words - 1), version, mqr)]
             next == [p \in 1..n |-> p + words]
  <2>1. \A p \in 1..n : p \notin stop => next[p] \in p + 1..n
    BY <1>1, <1>2
  <2>2. \A p \in 1..n : \A q \in p..n : Chunked(mode, SubSeq(t, p, q), version, mqr) \in Bitstream
    <3> TAKE p \in 1..n
    <3> TAKE q \in p..n
    <3>1. PICK s : s = SubSeq(t, p, q)
      OBVIOUS
    <3>2. s \in Seq(Int) /\ Len(s) = q - p + 1 /\ \A i \in 1..q - p + 1 : s[i] = t[p + i - 1] /\ p + i - 1 \in 1..n
      BY <1>1, <1>6, <3>1, SubSeqProperties
    <3>3. s # <<>> /\ (mode = "AN" => \A i \in DOMAIN s : s[i] \in AnChar)
      <4>1. PICK k \in Nat \ {0} : k = q - p + 1
        BY <1>1, <1>2
      <4>2. DOMAIN s = 1..k /\ s # <<>>
        BY <3>2, <4>1
      <4>3. ASSUME mode = "AN", NEW i \in 1..k PROVE s[i] \in AnChar
        <5>1. i \in 1..q - p + 1
          BY <4>1
        <5> QED BY <1>1, <3>2, <4>3, <5>1
      <4> QED BY <4>2, <4>3
    <3>4. mode # "ECI" /\ mode # "STRUCTURE"
      BY <1>4 DEF SplittableMode
    <3> QED BY <1>1, <3>1, <3>2, <3>3, <3>4, ChunkInBits
  <2>3. \A p \in 1..n : piece[p] \in Bitstream
    <3> TAKE p \in 1..n
    <3>1. n \in p..n /\ (~(words = 0 \/ p + words > n) => p + words - 1 \in p..n)
      BY <1>1, <1>2
    <3>2. piece[p] = IF words = 0 \/ p + words > n THEN Chunked(mode, SubSeq(t, p, n), version, mqr)
                     ELSE Chunked(mode, SubSeq(t, p, p + words - 1), version, mqr)
      BY Zenon
    <3> HIDE DEF piece
    <3> QED BY <2>2, <3>1, <3>2, Zenon
  <2>4. \A f : Chained(f, 1, n, stop, piece, next) <=> Is(f)
    <3> TAKE f
    <3>1. Chained(f, 1, n, stop, piece, next) <=> f = [p \in 1..n |-> IF p \in stop THEN piece[p] ELSE piece[p] \o f[next[p]]]
      BY Zenon DEF Chained
    <3>2. ASSUME NEW p \in 1..n
          PROVE  (IF p \in stop THEN piece[p] ELSE piece[p] \o f[next[p]])
                 = IF words = 0 \/ p + words > n THEN Chunked(mode, SubSeq(t, p, n), version, mqr)
                   ELSE Chunked(mode, SubSeq(t, p, p + words - 1), version, mqr) \o f[p + words]
      BY Zenon
    <3> QED BY <3>1, <3>2, Zenon
  <2> HIDE DEF stop, piece, next, Is
  <2>5. 1 \in Nat /\ n \in Nat /\ 1 \in 1..n
    BY <1>1, <1>2
  <2>6. \A p \in 1..n : piece[p] \in Seq(Binary)
    BY <2>3 DEF Bitstream
  <2>7. \E f : Chained(f, 1, n, stop, piece, next)
    BY <2>1, <2>5, <2>6, ChainExists, Zenon
  <2>8. Is(from)
    BY <2>4, <2>7, Zenon
  <2> HIDE DEF from
  <2>9. Chained(from, 1, n, stop, piece, next)
    BY <2>4, <2>8, Zenon
  <2>10. \A p \in 1..n : from[p] \in Seq(Binary)
    BY <2>1, <2>5, <2>6, <2>9, ChainType, Zenon
  <2> QED BY <1>3, <2>5, <2>10 DEF Bitstream
<1>5. CASE mode \notin SplittableMode
  <2>1. Is([p \in 1..n |-> Chunked(mode, SubSeq(t, p, n), version, mqr)])
    BY <1>2, <1>5
  <2>2. Is(from)
    BY <2>1, Zenon
  <2> HIDE DEF from
  <2>3. from[1] = Chunked(mode, SubSeq(t, 1, n), version, mqr)
    <3>1. 1 \in 1..n
      BY <1>1, <1>2
    <3> QED BY <1>2, <1>5, <2>2, <3>1
  <2>4. SubSeq(t, 1, n) = t /\ t # <<>>
    BY <1>1, <1>6
  <2>5. mode = "AN" => \A i \in DOMAIN t : t[i] \in AnChar
    BY <1>1, <1>6
  <2> QED BY <1>1, <1>3, <1>6, <2>3, <2>4, <2>5, ChunkInBits
<1> QED BY <1>4, <1>5

LEMMA FlatType ==
  ASSUME NEW S, NEW seqs \in Seq(Seq(S))
  PROVE  FlattenSeq(seqs) \in Seq(S)
<1>1. CASE seqs = <<>>
  BY <1>1 DEF FlattenSeq
<1>2. CASE seqs # <<>>
  <2>1. PICK n \in Nat \ {0} : n = Len(seqs) /\ \A i \in 1..n : seqs[i] \in Seq(S)
    BY <1>2
  <2>2. PICK g : Accumulates(g, seqs, n) /\ FlattenSeq(seqs) = g[n]
    BY <1>2, <2>1, Flattened
  <2> DEFINE T == {k \in Nat : k + 1 <= n => g[k + 1] \in Seq(S)}
  <2>3. \A i \in 1..n : g[i] = IF i = 1 THEN seqs[i] ELSE g[i - 1] \o seqs[i]
    BY <2>2, AccumulatesAt DEF Adds
  <2>4. 0 \in T
    BY <2>1, <2>3
  <2>5. ASSUME NEW k \in Nat, k \in T PROVE k + 1 \in T
    <3> SUFFICES ASSUME k + 2 <= n PROVE g[k + 2] \in Seq(S)
      OBVIOUS
    <3>1. k + 2 \in 1..n /\ k + 2 # 1 /\ (k + 2) - 1 = k + 1
      OBVIOUS
    <3>2. g[k + 2] = g[k + 1] \o seqs[k + 2]
      BY <2>3, <3>1
    <3> QED BY <2>1, <2>5, <3>1, <3>2
  <2> HIDE DEF T
  <2>6. Nat \subseteq T
    BY <2>4, <2>5, Induction
  <2>7. n - 1 \in T
    <3>1. n - 1 \in Nat
      OBVIOUS
    <3> QED BY <2>6, <3>1
  <2>8. (n - 1) + 1 = n
    OBVIOUS
  <2> QED BY <2>2, <2>7, <2>8 DEF T
<1> QED BY <1>1, <1>2

LEMMA FiniteImage ==
  ASSUME NEW S, IsFiniteSet(S), NEW f
  PROVE  IsFiniteSet({f[x] : x \in S})
<1> DEFINE T == {f[x] : x \in S}
           g == [x \in S |-> f[x]]
<1>1. g \in Surjection(S, T)
  BY DEF Surjection
<1> HIDE DEF g
<1>2. IsFiniteSet(T)
  BY <1>1, FS_Surjection, Zenon
<1> QED BY <1>2

(* Sums of as many numbers as a set has elements. *)
Adding(f, K, w) == f = [s \in SUBSET K |-> IF s = {} THEN 0 ELSE w[CHOOSE x \in s : TRUE] + f[s \ {CHOOSE x \in s : TRUE}]]

LEMMA AddingExists ==
  ASSUME NEW K, IsFiniteSet(K), NEW w, \A x \in K : w[x] \in Int
  PROVE  \E f : Adding(f, K, w)
<1> DEFINE pick(s) == CHOOSE x \in s : TRUE
           of(f, s) == IF s = {} THEN 0 ELSE w[pick(s)] + f[s \ {pick(s)}]
           Part(f, n) == \A s \in SUBSET K : Cardinality(s) < n => f[s] = of(f, s)
           T == {n \in Nat : \E f : f = [s \in SUBSET K |-> f[s]] /\ Part(f, n)}
<1>1. \A s \in SUBSET K : IsFiniteSet(s) /\ Cardinality(s) \in Nat
  BY FS_Subset, FS_CardinalityType
<1>2. \A s \in SUBSET K : s # {} => pick(s) \in s /\ s \ {pick(s)} \in SUBSET K /\ Cardinality(s \ {pick(s)}) = Cardinality(s) - 1
  BY <1>1, FS_RemoveElement
<1> HIDE DEF pick
<1>3. 0 \in T
  <2> DEFINE f == [s \in SUBSET K |-> 0]
  <2>1. f = [s \in SUBSET K |-> f[s]] /\ Part(f, 0)
    BY <1>1
  <2> QED BY <2>1
<1>4. ASSUME NEW n \in Nat, n \in T PROVE n + 1 \in T
  <2>1. PICK f : f = [s \in SUBSET K |-> f[s]] /\ Part(f, n)
    BY <1>4
  <2> DEFINE g == [s \in SUBSET K |-> IF Cardinality(s) = n THEN of(f, s) ELSE f[s]]
  <2>2. \A s \in SUBSET K : g[s] = IF Cardinality(s) = n THEN of(f, s) ELSE f[s]
    OBVIOUS
  <2>3. g = [s \in SUBSET K |-> g[s]]
    OBVIOUS
  <2> HIDE DEF g
  <2>4. \A s \in SUBSET K : Cardinality(s) < n + 1 => of(g, s) = of(f, s)
    <3> TAKE s \in SUBSET K
    <3> HAVE Cardinality(s) < n + 1
    <3>1. CASE s = {}
      BY <3>1
    <3>2. CASE s # {}
      <4>1. s \ {pick(s)} \in SUBSET K /\ Cardinality(s \ {pick(s)}) # n
        BY <1>1, <1>2, <3>2
      <4>2. g[s \ {pick(s)}] = f[s \ {pick(s)}]
        BY <2>2, <4>1, Zenon
      <4> QED BY <4>2
    <3> QED BY <3>1, <3>2
  <2>5. Part(g, n + 1)
    <3> SUFFICES ASSUME NEW s \in SUBSET K, Cardinality(s) < n + 1 PROVE g[s] = of(g, s)
      OBVIOUS
    <3>1. of(g, s) = of(f, s)
      BY <2>4
    <3> HIDE DEF of
    <3>2. CASE Cardinality(s) = n
      BY <2>2, <3>1, <3>2
    <3>3. CASE Cardinality(s) # n
      <4>1. Cardinality(s) < n
        BY <1>1, <3>3
      <4> QED BY <2>1, <2>2, <3>1, <3>3, <4>1
    <3> QED BY <3>2, <3>3
  <2> HIDE DEF Part
  <2> QED BY <2>3, <2>5
<1> HIDE DEF T
<1>5. PICK n \in Nat : n \in T /\ \A s \in SUBSET K : Cardinality(s) < n
  <2>1. Nat \subseteq T
    BY <1>3, <1>4, Induction
  <2>2. Cardinality(K) \in Nat /\ \A s \in SUBSET K : Cardinality(s) <= Cardinality(K)
    BY FS_Subset, FS_CardinalityType
  <2>3. \A s \in SUBSET K : Cardinality(s) < Cardinality(K) + 1
    BY <1>1, <2>2
  <2> QED BY <2>1, <2>2, <2>3
<1>6. PICK f : f = [s \in SUBSET K |-> f[s]] /\ Part(f, n)
  BY <1>5 DEF T
<1>7. \A s \in SUBSET K : f[s] = of(f, s)
  BY <1>5, <1>6
<1> HIDE DEF of, Part
<1>8. [s \in SUBSET K |-> f[s]] = [s \in SUBSET K |-> of(f, s)]
  BY <1>7
<1>9. f = [s \in SUBSET K |-> of(f, s)]
  BY <1>6, <1>8
<1> QED BY <1>9, Zenon DEF Adding, of, pick

LEMMA AddingType ==
  ASSUME NEW K, IsFiniteSet(K), NEW w, \A x \in K : w[x] \in Int, NEW f, Adding(f, K, w)
  PROVE  f[K] \in Int
<1> DEFINE pick(s) == CHOOSE x \in s : TRUE
           T == {n \in Nat : \A s \in SUBSET K : Cardinality(s) < n => f[s] \in Int}
<1>1. \A s \in SUBSET K : IsFiniteSet(s) /\ Cardinality(s) \in Nat
  BY FS_Subset, FS_CardinalityType
<1>2. \A s \in SUBSET K : s # {} => pick(s) \in s /\ s \ {pick(s)} \in SUBSET K /\ Cardinality(s \ {pick(s)}) = Cardinality(s) - 1
  BY <1>1, FS_RemoveElement
<1>3. \A s \in SUBSET K : f[s] = IF s = {} THEN 0 ELSE w[pick(s)] + f[s \ {pick(s)}]
  BY Zenon DEF Adding
<1> HIDE DEF pick
<1>4. 0 \in T
  BY <1>1
<1>5. ASSUME NEW n \in Nat, n \in T PROVE n + 1 \in T
  <2> SUFFICES ASSUME NEW s \in SUBSET K, Cardinality(s) < n + 1 PROVE f[s] \in Int
    OBVIOUS
  <2>1. CASE s = {}
    <3>1. f[s] = 0
      BY <1>3, <2>1
    <3> QED BY <3>1
  <2>2. CASE s # {}
    <3>1. pick(s) \in s /\ s \ {pick(s)} \in SUBSET K /\ Cardinality(s \ {pick(s)}) < n
      BY <1>1, <1>2, <2>2
    <3>2. f[s \ {pick(s)}] \in Int /\ w[pick(s)] \in Int
      BY <1>5, <3>1
    <3>3. f[s] = w[pick(s)] + f[s \ {pick(s)}]
      BY <1>3, <2>2
    <3> QED BY <3>2, <3>3
  <2> QED BY <2>1, <2>2
<1> HIDE DEF T
<1>6. Nat \subseteq T
  BY <1>4, <1>5, Induction
<1>7. Cardinality(K) + 1 \in T /\ Cardinality(K) < Cardinality(K) + 1
  BY <1>1, <1>6
<1> QED BY <1>7 DEF T

LEMMA Twos == \A k \in 0..7 : 2^k \in Nat
<1>1. 2^7 = 128 /\ 2^6 = 64 /\ 2^5 = 32 /\ 2^4 = 16 /\ 2^3 = 8 /\ 2^2 = 4 /\ 2^1 = 2 /\ 2^0 = 1
  OBVIOUS
<1> TAKE k \in 0..7
<1>2. CASE k = 0
  BY <1>1, <1>2
<1>3. CASE k = 1
  BY <1>1, <1>3
<1>4. CASE k = 2
  BY <1>1, <1>4
<1>5. CASE k = 3
  BY <1>1, <1>5
<1>6. CASE k = 4
  BY <1>1, <1>6
<1>7. CASE k = 5
  BY <1>1, <1>7
<1>8. CASE k = 6
  BY <1>1, <1>8
<1>9. CASE k = 7
  BY <1>1, <1>9
<1> QED BY <1>2, <1>3, <1>4, <1>5, <1>6, <1>7, <1>8, <1>9

(* The bytes that QRinput_calcParity goes through. *)
ParityBytes(inputs) ==
  UNION {UNION {{<<n, i, j>> : j \in DOMAIN inputs[n].entries[i].data} :
                i \in {k \in DOMAIN inputs[n].entries : inputs[n].entries[k].mode # "STRUCTURE"}} :
         n \in DOMAIN inputs}

LEMMA BytesFinite ==
  ASSUME NEW S, NEW inputs \in Seq(S), \A i \in S : i.entries \in Seq(Segments)
  PROVE  IsFiniteSet(ParityBytes(inputs))
<1> DEFINE one(n, i) == {<<n, i, j>> : j \in DOMAIN inputs[n].entries[i].data}
           those(n) == {k \in DOMAIN inputs[n].entries : inputs[n].entries[k].mode # "STRUCTURE"}
           all(n) == UNION {one(n, i) : i \in those(n)}
<1>1. \A n \in DOMAIN inputs : \A i \in DOMAIN inputs[n].entries : IsFiniteSet(one(n, i))
  <2> TAKE n \in DOMAIN inputs
  <2> TAKE i \in DOMAIN inputs[n].entries
  <2>1. inputs[n].entries[i] \in Segments
    OBVIOUS
  <2>2. PICK t \in Seq(Int) : t = inputs[n].entries[i].data
    BY <2>1 DEF Segments
  <2>3. PICK m \in Nat : DOMAIN t = 1..m
    OBVIOUS
  <2> DEFINE f == [j \in 1..m |-> <<n, i, j>>]
  <2>4. one(n, i) = {f[j] : j \in 1..m}
    BY <2>2, <2>3
  <2>5. IsFiniteSet(1..m)
    BY FS_Interval
  <2> HIDE DEF f, one
  <2>6. IsFiniteSet({f[j] : j \in 1..m})
    BY <2>5, FiniteImage, Zenon
  <2> QED BY <2>4, <2>6
<1>2. \A n \in DOMAIN inputs : IsFiniteSet(all(n))
  <2> TAKE n \in DOMAIN inputs
  <2>1. PICK t \in Seq(Segments) : t = inputs[n].entries
    OBVIOUS
  <2>2. PICK m \in Nat : DOMAIN t = 1..m
    OBVIOUS
  <2>3. IsFiniteSet(those(n)) /\ those(n) \subseteq DOMAIN inputs[n].entries
    <3>1. those(n) \in SUBSET (1..m) /\ IsFiniteSet(1..m)
      BY <2>1, <2>2, FS_Interval
    <3> QED BY <2>1, <2>2, <3>1, FS_Subset
  <2> HIDE DEF those
  <2> DEFINE f == [i \in those(n) |-> one(n, i)]
  <2>4. {one(n, i) : i \in those(n)} = {f[i] : i \in those(n)}
    OBVIOUS
  <2> HIDE DEF f
  <2>5. IsFiniteSet({one(n, i) : i \in those(n)})
    <3>1. IsFiniteSet({f[i] : i \in those(n)})
      BY <2>3, FiniteImage, Zenon
    <3> QED BY <2>4, <3>1
  <2>6. \A X \in {one(n, i) : i \in those(n)} : IsFiniteSet(X)
    BY <1>1, <2>3
  <2> HIDE DEF one
  <2> QED BY <2>5, <2>6, FS_UNION
<1>3. PICK m \in Nat : DOMAIN inputs = 1..m
  OBVIOUS
<1>4. IsFiniteSet(DOMAIN inputs)
  BY <1>3, FS_Interval
<1>5. ParityBytes(inputs) = UNION {all(n) : n \in DOMAIN inputs}
  BY DEF ParityBytes
<1> HIDE DEF all
<1> DEFINE f == [n \in DOMAIN inputs |-> all(n)]
<1>6. {all(n) : n \in DOMAIN inputs} = {f[n] : n \in DOMAIN inputs}
  OBVIOUS
<1> HIDE DEF f
<1>7. IsFiniteSet({all(n) : n \in DOMAIN inputs})
  <2>1. IsFiniteSet({f[n] : n \in DOMAIN inputs})
    BY <1>4, FiniteImage, Zenon
  <2> QED BY <1>6, <2>1
<1>8. \A X \in {all(n) : n \in DOMAIN inputs} : IsFiniteSet(X)
  BY <1>2
<1> QED BY <1>5, <1>7, <1>8, FS_UNION

LEMMA ParityType ==
  ASSUME NEW S, NEW inputs \in Seq(S), \A i \in S : i.entries \in Seq(Segments)
  PROVE  Parity(inputs) \in Int
<1> DEFINE those(k) == {b \in ParityBytes(inputs) : (inputs[b[1]].entries[b[2]].data[b[3]] \div 2^k) % 2 = 1}
           w == [k \in 0..7 |-> 2^k * (Cardinality(those(k)) % 2)]
           Is(f) == f = [s \in SUBSET (0..7) |-> IF s = {} THEN 0
                           ELSE 2^(CHOOSE x \in s : TRUE) * (Cardinality(those(CHOOSE x \in s : TRUE)) % 2)
                                + f[s \ {CHOOSE x \in s : TRUE}]]
           from == CHOOSE f : Is(f)
<1>1. Parity(inputs) = from[0..7]
  BY Zenon DEF Parity, MapThenSumSet, MapThenFoldSet, ParityBytes
<1>2. \A k \in 0..7 : w[k] \in Int /\ w[k] = 2^k * (Cardinality(those(k)) % 2)
  <2> TAKE k \in 0..7
  <2>1. IsFiniteSet(those(k))
    BY BytesFinite, FS_Subset
  <2> HIDE DEF those
  <2>2. PICK c \in Nat : c = Cardinality(those(k))
    BY <2>1, FS_CardinalityType
  <2>3. PICK p \in Nat : p = 2^k
    BY Twos
  <2>4. p * (c % 2) \in Int
    OBVIOUS
  <2> QED BY <2>2, <2>3, <2>4
<1> HIDE DEF w, those
<1>3. \A f : Adding(f, 0..7, w) <=> Is(f)
  <2> TAKE f
  <2> DEFINE pick(s) == CHOOSE x \in s : TRUE
  <2>1. \A s \in SUBSET (0..7) : s # {} => w[pick(s)] = 2^pick(s) * (Cardinality(those(pick(s))) % 2)
    BY <1>2
  <2> DEFINE one(s) == IF s = {} THEN 0 ELSE w[pick(s)] + f[s \ {pick(s)}]
             two(s) == IF s = {} THEN 0 ELSE 2^pick(s) * (Cardinality(those(pick(s))) % 2) + f[s \ {pick(s)}]
  <2>2. ASSUME NEW s \in SUBSET (0..7) PROVE one(s) = two(s)
    BY <2>1
  <2>3. Adding(f, 0..7, w) <=> f = [s \in SUBSET (0..7) |-> one(s)]
    BY Zenon DEF Adding
  <2>4. Is(f) <=> f = [s \in SUBSET (0..7) |-> two(s)]
    BY Zenon
  <2> HIDE DEF one, two, Is
  <2>5. [s \in SUBSET (0..7) |-> one(s)] = [s \in SUBSET (0..7) |-> two(s)]
    BY <2>2
  <2> QED BY <2>3, <2>4, <2>5
<1> HIDE DEF Is
<1>4. IsFiniteSet(0..7)
  <2>1. 0 \in Int /\ 7 \in Int
    OBVIOUS
  <2> QED BY <2>1, FS_Interval
<1>5. \E f : Adding(f, 0..7, w)
  BY <1>2, <1>4, AddingExists, Zenon
<1>6. Is(from)
  BY <1>3, <1>5, Zenon
<1> HIDE DEF from
<1>7. Adding(from, 0..7, w)
  BY <1>3, <1>6, Zenon
<1>8. from[0..7] \in Int
  BY <1>2, <1>4, <1>7, AddingType, Zenon
<1> QED BY <1>1, <1>8

(* The inputs the library works on: a Micro one has a level that exists. *)
Inputs ==
  {i \in [version : 0..VersionMax, level : Level, mqr : BOOLEAN, fnc1 : 0..2, appid : Int, entries : Seq(Segments)] :
     i.mqr => i.version \in 1..MicroVersionMax /\ MicroECCLength(i.version, i.level) # 0}

LEMMA InputFields ==
  ASSUME NEW i \in Inputs
  PROVE  /\ i.version \in 0..VersionMax /\ i.version \in Nat /\ i.level \in Level /\ i.mqr \in BOOLEAN
         /\ i.fnc1 \in 0..2 /\ i.appid \in Int /\ i.entries \in Seq(Segments)
         /\ i.mqr => i.version \in 1..MicroVersionMax /\ MicroECCLength(i.version, i.level) # 0
<1>1. /\ i.version \in 0..VersionMax /\ i.level \in Level /\ i.mqr \in BOOLEAN
      /\ i.fnc1 \in 0..2 /\ i.appid \in Int /\ i.entries \in Seq(Segments)
      /\ i.mqr => i.version \in 1..MicroVersionMax /\ MicroECCLength(i.version, i.level) # 0
  BY DEF Inputs
<1>2. i.version \in Nat
  <2>1. PICK v \in 0..40 : v = i.version
    BY <1>1 DEF VersionMax
  <2>2. v \in Nat
    OBVIOUS
  <2> QED BY <2>1, <2>2
<1> QED BY <1>1, <1>2, Zenon

LEMMA EntriesChanged ==
  ASSUME NEW i \in Inputs, NEW entries \in Seq(Segments)
  PROVE  [i EXCEPT !.entries = entries] \in Inputs
BY SMT DEF Inputs

LEMMA FirstChanged ==
  ASSUME NEW i \in Inputs, NEW f \in 0..2
  PROVE  [i EXCEPT !.fnc1 = f] \in Inputs
BY SMT DEF Inputs

LEMMA IdChanged ==
  ASSUME NEW i \in Inputs, NEW a \in Int
  PROVE  [i EXCEPT !.appid = a] \in Inputs
BY SMT DEF Inputs

LEMMA VersionChanged ==
  ASSUME NEW i \in Inputs, ~i.mqr, NEW v \in 0..VersionMax
  PROVE  [i EXCEPT !.version = v] \in Inputs
BY SMT DEF Inputs

LEMMA NewIsInput ==
  ASSUME NEW version \in Int, NEW level \in Level, NEW mqr \in BOOLEAN, ValidInput(version, level, mqr)
  PROVE  NewInput(version, level, mqr) \in Inputs
<1>1. version \in 0..VersionMax /\ (mqr => version \in 1..MicroVersionMax /\ MicroECCLength(version, level) # 0)
  BY DEF ValidInput, VersionMax, MicroVersionMax
<1>2. <<>> \in Seq(Segments)
  OBVIOUS
<1> QED BY <1>1, <1>2 DEF NewInput, Inputs

LEMMA EntryIsSegment ==
  ASSUME NEW mode \in SplittableMode, NEW data \in Seq(Int), Acceptable(mode, data)
  PROVE  Entry(mode, data) \in Segments
<1>1. data # <<>> /\ (mode = "AN" => \A i \in DOMAIN data : data[i] \in AnChar)
  BY DEF Acceptable
<1>2. mode # "ECI" /\ mode # "STRUCTURE"
  BY DEF SplittableMode
<1> QED BY <1>1, <1>2 DEF Entry, Segments

LEMMA EciIsSegment ==
  ASSUME NEW num \in Nat
  PROVE  EciEntry(num) \in Segments
<1> DEFINE data == [i \in 1..4 |-> (num \div 256^(i - 1)) % 256]
<1>1. \A i \in 1..4 : (num \div 256^(i - 1)) % 256 \in Int
  OBVIOUS
<1>2. data \in Seq(Int) /\ Len(data) = 4 /\ data # <<>>
  BY <1>1
<1>3. EciEntry(num) = [mode |-> "ECI", data |-> data]
  BY DEF EciEntry, Entry
<1> HIDE DEF data
<1> QED BY <1>2, <1>3 DEF Segments

LEMMA BytesAreNumbers ==
  ASSUME NEW s \in Seq(Byte)
  PROVE  s \in Seq(Nat) /\ s \in Seq(Int)
<1>1. PICK n \in Nat : n = Len(s) /\ DOMAIN s = 1..n
  OBVIOUS
<1>2. ASSUME NEW k \in 1..n PROVE s[k] \in Nat /\ s[k] \in Int
  <2>1. s[k] \in Byte
    BY <1>1
  <2>2. PICK x \in 0..255 : x = s[k]
    BY <2>1 DEF Byte
  <2>3. x \in Nat /\ x \in Int
    OBVIOUS
  <2> QED BY <2>2, <2>3
<1> QED BY <1>1, <1>2

LEMMA WithIsInput ==
  ASSUME NEW i \in Inputs, NEW part, PartOK(part), NEW j \in With(i, part)
  PROVE  j \in Inputs
<1>0. i.entries \in Seq(Segments)
  BY InputFields
<1>1. CASE part.op = "append"
  <2>1. part.mode \in SplittableMode /\ part.data \in Seq(Byte)
    BY <1>1 DEF PartOK
  <2>2. part.data \in Seq(Int)
    BY <2>1, BytesAreNumbers
  <2>3. j \in IF Acceptable(part.mode, part.data)
              THEN {[i EXCEPT !.entries = Append(i.entries, Entry(part.mode, part.data))]} ELSE {}
    BY <1>1, SMT DEF With
  <2>4. Acceptable(part.mode, part.data) /\ j = [i EXCEPT !.entries = Append(i.entries, Entry(part.mode, part.data))]
    BY <2>3, Zenon
  <2>5. Append(i.entries, Entry(part.mode, part.data)) \in Seq(Segments)
    BY <1>0, <2>1, <2>2, <2>4, EntryIsSegment
  <2> QED BY <2>4, <2>5, EntriesChanged, Zenon
<1>2. CASE part.op = "eci"
  <2>1. part.num \in Nat
    BY <1>2 DEF PartOK
  <2>2. With(i, part) \subseteq {[i EXCEPT !.entries = Append(i.entries, EciEntry(part.num))]}
    BY <1>2, SMT DEF With
  <2>3. j = [i EXCEPT !.entries = Append(i.entries, EciEntry(part.num))]
    BY <2>2, Zenon
  <2>4. Append(i.entries, EciEntry(part.num)) \in Seq(Segments)
    BY <1>0, <2>1, EciIsSegment
  <2> QED BY <2>3, <2>4, EntriesChanged, Zenon
<1>3. CASE part.op = "fnc1"
  <2>1. j \in IF i.mqr THEN {} ELSE {[i EXCEPT !.fnc1 = 1]}
    BY <1>3, SMT DEF With
  <2>2. j = [i EXCEPT !.fnc1 = 1] /\ 1 \in 0..2
    BY <2>1
  <2> QED BY <2>2, FirstChanged, Zenon
<1>4. CASE part.op = "fnc2"
  <2>1. j = [i EXCEPT !.fnc1 = 2, !.appid = part.appid]
    BY <1>4, SMT DEF With
  <2>2. part.appid \in Int /\ 2 \in 0..2
    BY <1>4 DEF PartOK, Byte
  <2>3. PICK k : k = [i EXCEPT !.fnc1 = 2]
    OBVIOUS
  <2>4. k \in Inputs
    BY <2>2, <2>3, FirstChanged, Zenon
  <2>5. j = [k EXCEPT !.appid = part.appid]
    BY <2>1, <2>3, SMT DEF Inputs
  <2> QED BY <2>2, <2>4, <2>5, IdChanged, Zenon
<1> QED BY <1>1, <1>2, <1>3, <1>4 DEF PartOK

LEMMA HeadersAreInputs ==
  ASSUME NEW inputs \in Seq(Inputs), NEW parity \in Int
  PROVE  WithHeaders(inputs, parity) \in Seq(Inputs) /\ Len(WithHeaders(inputs, parity)) = Len(inputs)
<1>1. PICK n \in Nat : n = Len(inputs) /\ DOMAIN inputs = 1..n
  OBVIOUS
<1> DEFINE head(i) == <<n, i, parity>>
           one(i) == [inputs[i] EXCEPT !.entries = <<Entry("STRUCTURE", head(i))>> \o inputs[i].entries]
<1>2. ASSUME NEW i \in 1..n PROVE one(i) \in Inputs
  <2>1. head(i) \in Seq(Int) /\ Len(head(i)) = 3 /\ head(i) # <<>>
    OBVIOUS
  <2>2. Entry("STRUCTURE", head(i)) \in Segments
    <3> HIDE DEF head
    <3> QED BY <2>1 DEF Entry, Segments
  <2>3. inputs[i] \in Inputs /\ inputs[i].entries \in Seq(Segments)
    BY <1>1, InputFields
  <2> HIDE DEF head
  <2>4. <<Entry("STRUCTURE", head(i))>> \o inputs[i].entries \in Seq(Segments)
    BY <2>2, <2>3
  <2> QED BY <2>3, <2>4, EntriesChanged, Zenon
<1>3. WithHeaders(inputs, parity) = [i \in 1..n |-> one(i)]
  BY <1>1, Zenon DEF WithHeaders
<1> HIDE DEF one
<1> QED BY <1>1, <1>2, <1>3

LEMMA CreateInBits ==
  ASSUME NEW i \in Inputs
  PROVE  CreateBitStream(i) \in Bitstream
<1> DEFINE streams == [k \in DOMAIN i.entries |-> EncodeBitStream(i.entries[k], i.version, i.mqr)]
<1>1. i.entries \in Seq(Segments) /\ i.version \in Nat /\ i.mqr \in BOOLEAN /\ (i.mqr => i.version \in 1..4)
  BY InputFields DEF MicroVersionMax
<1>2. PICK n \in Nat : DOMAIN i.entries = 1..n
  BY <1>1
<1>3. ASSUME NEW k \in 1..n PROVE EncodeBitStream(i.entries[k], i.version, i.mqr) \in Seq(Binary)
  <2>1. i.entries[k] \in Segments
    BY <1>1, <1>2
  <2> QED BY <1>1, <2>1, SegmentInBits DEF Bitstream
<1>4. streams \in Seq(Seq(Binary))
  BY <1>2, <1>3
<1> HIDE DEF streams
<1>5. FlattenSeq(streams) \in Seq(Binary)
  BY <1>4, FlatType, Zenon
<1> QED BY <1>5 DEF CreateBitStream, Bitstream, streams

LEMMA LengthOfCodeType ==
  ASSUME NEW mode \in SplittableMode \cup {"ECI", "STRUCTURE", "FNC1SECOND"}, NEW version \in Nat, NEW room \in Int
  PROVE  LengthOfCode(mode, version, room) \in Nat /\ (LengthOfCode(mode, version, room) # 0 => mode \in SplittableMode)
<1> DEFINE payload == room - 4 - LengthIndicator(mode, version)
           left == payload % 10
           size == CASE mode = "NUM" -> 3 * (payload \div 10) + (IF left >= 7 THEN 2 ELSE IF left >= 4 THEN 1 ELSE 0)
                     [] mode = "AN" -> 2 * (payload \div 11) + (IF payload % 11 >= 6 THEN 1 ELSE 0)
                     [] mode = "8" -> payload \div 8
                     [] mode = "KANJI" -> 2 * (payload \div 13)
                     [] OTHER -> 0
           most == MaximumWords(mode, version)
<1>1. LengthIndicator(mode, version) \in Int
  BY DEF LengthIndicator, SplittableMode
<1>2. payload \in Int /\ most \in Nat
  BY <1>1, WordsType
<1>3. LengthOfCode(mode, version, room) = IF payload <= 0 THEN 0 ELSE IF most > 0 /\ size > most THEN most ELSE size
  BY Zenon DEF LengthOfCode
<1>4. ASSUME payload > 0 PROVE size \in Nat /\ (size # 0 => mode \in SplittableMode)
  <2> HIDE DEF payload
  <2>1. CASE mode = "NUM"
    BY <1>2, <1>4, <2>1 DEF SplittableMode
  <2>2. CASE mode = "AN"
    BY <1>2, <1>4, <2>2 DEF SplittableMode
  <2>3. CASE mode = "8"
    BY <1>2, <1>4, <2>3 DEF SplittableMode
  <2>4. CASE mode = "KANJI"
    BY <1>2, <1>4, <2>4 DEF SplittableMode
  <2>5. CASE mode \in {"ECI", "STRUCTURE", "FNC1SECOND"}
    BY <1>2, <1>4, <2>5
  <2> QED BY <2>1, <2>2, <2>3, <2>4, <2>5 DEF SplittableMode
<1>5. most > 0 => mode \in SplittableMode
  BY WordsType
<1> HIDE DEF payload, size, most
<1> QED BY <1>2, <1>3, <1>4, <1>5

LEMMA PiecesAreSegments ==
  ASSUME NEW e \in Segments, NEW n \in Nat, n < Len(e.data), n # 0 => e.mode \in SplittableMode
  PROVE  /\ Entry(e.mode, SubSeq(e.data, n + 1, Len(e.data))) \in Segments
         /\ n # 0 => Entry(e.mode, SubSeq(e.data, 1, n)) \in Segments
<1>1. PICK t \in Seq(Int) : t = e.data
  BY DEF Segments
<1>2. PICK m \in Nat : m = Len(t) /\ DOMAIN t = 1..m
  OBVIOUS
<1>3. e.mode \in SplittableMode \cup {"ECI", "STRUCTURE", "FNC1SECOND"} /\ (e.mode = "AN" => \A i \in 1..m : t[i] \in AnChar)
  BY <1>1, <1>2 DEF Segments
<1>4. ASSUME n # 0, NEW p \in 1..m, NEW q \in p..m PROVE Entry(e.mode, SubSeq(t, p, q)) \in Segments
  <2>1. PICK s : s = SubSeq(t, p, q)
    OBVIOUS
  <2>2. PICK k \in Nat \ {0} : k = q - p + 1
    OBVIOUS
  <2>3. s \in Seq(Int) /\ Len(s) = k /\ \A i \in 1..k : s[i] = t[p + i - 1] /\ p + i - 1 \in 1..m
    <3>1. s \in Seq(Int) /\ Len(s) = q - p + 1 /\ \A i \in 1..q - p + 1 : s[i] = t[p + i - 1] /\ p + i - 1 \in 1..m
      BY <1>2, <2>1, SubSeqProperties
    <3> QED BY <2>2, <3>1
  <2>4. DOMAIN s = 1..k /\ s # <<>>
    BY <2>3
  <2>5. ASSUME e.mode = "AN" PROVE \A i \in DOMAIN s : s[i] \in AnChar
    BY <1>3, <2>3, <2>4, <2>5
  <2>6. e.mode # "ECI" /\ e.mode # "STRUCTURE"
    BY <1>4 DEF SplittableMode
  <2> QED BY <1>3, <2>1, <2>3, <2>4, <2>5, <2>6 DEF Entry, Segments
<1>5. CASE n # 0
  <2>1. n + 1 \in 1..m /\ m \in n + 1..m /\ 1 \in 1..m /\ n \in 1..m
    BY <1>1, <1>2, <1>5
  <2> QED BY <1>1, <1>2, <1>4, <1>5, <2>1
<1>6. CASE n = 0
  <2>1. SubSeq(t, 1, m) = t
    BY <1>2
  <2>2. Entry(e.mode, t) = e
    <3>1. e = [mode |-> e.mode, data |-> e.data]
      BY DEF Segments
    <3> QED BY <1>1, <3>1 DEF Entry
  <2>3. Entry(e.mode, SubSeq(t, n + 1, m)) = e
    <3>1. n + 1 = 1
      BY <1>6
    <3> QED BY <2>1, <2>2, <3>1
  <2> QED BY <1>1, <1>2, <1>6, <2>3
<1> QED BY <1>5, <1>6

(* The number of the bits of a stream from after lo up to last. *)
Gathers(f, stream, lo, last) ==
  f = [k \in lo..last |-> IF k = lo THEN 0 ELSE 2 * f[k - 1] + stream[k]]

LEMMA GatheringExists ==
  ASSUME NEW stream \in Bitstream, NEW lo \in Nat, NEW last \in Nat, lo <= last, last <= Len(stream)
  PROVE  \E f : Gathers(f, stream, lo, last)
<1> DEFINE n == last - lo
           step == [p \in Nat \X Nat |-> IF p[1] \in 1..n THEN 2 * p[2] + stream[lo + p[1]] ELSE 0]
<1>1. n \in Nat /\ \A k \in lo + 1..last : stream[k] \in {0, 1}
  BY DEF Bitstream, Binary
<1>2. \A k, y \in Nat : (IF k \in 1..n THEN 2 * y + stream[lo + k] ELSE 0) \in Nat
  <2> TAKE k, y \in Nat
  <2>1. CASE k \in 1..n
    <3>1. lo + k \in lo + 1..last
      BY <2>1
    <3>2. PICK b \in {0, 1} : b = stream[lo + k]
      BY <1>1, <3>1
    <3> QED BY <2>1, <3>2
  <2>2. CASE k \notin 1..n
    BY <2>2
  <2> QED BY <2>1, <2>2
<1>3. step \in [Nat \X Nat -> Nat]
  BY <1>2
<1>4. \A k, y \in Nat : step[<<k, y>>] = IF k \in 1..n THEN 2 * y + stream[lo + k] ELSE 0
  OBVIOUS
<1> HIDE DEF step, n
<1>5. PICK g \in [0..n -> Nat] : Iterates(g, step, 0, n)
  <2>1. 0 \in Nat
    OBVIOUS
  <2> QED BY <1>1, <1>3, <2>1, IterationExists
<1> DEFINE f == [k \in lo..last |-> g[k - lo]]
<1>6. \A k \in lo..last : f[k] = IF k = lo THEN 0 ELSE 2 * f[k - 1] + stream[k]
  <2> TAKE k \in lo..last
  <2>1. CASE k = lo
    BY <1>5, <2>1 DEF Iterates
  <2>2. CASE k # lo
    <3>1. k - lo \in 1..n /\ k - 1 \in lo..last /\ (k - 1) - lo = (k - lo) - 1 /\ (k - lo) - 1 \in 0..n /\ lo + (k - lo) = k
      BY <2>2 DEF n
    <3>2. PICK j \in 1..n : j = k - lo
      BY <3>1
    <3>3. g[j] = step[<<j, g[j - 1]>>] /\ g[j - 1] \in Nat /\ j \in Nat
      BY <1>1, <1>5, <3>1, <3>2 DEF Iterates
    <3>4. g[j] = 2 * g[j - 1] + stream[lo + j]
      BY <1>4, <3>3
    <3>5. f[k] = g[j] /\ f[k - 1] = g[j - 1] /\ lo + j = k
      BY <3>1, <3>2
    <3> QED BY <2>2, <3>4, <3>5
  <2> QED BY <2>1, <2>2
<1>7. f = [k \in lo..last |-> f[k]]
  OBVIOUS
<1> HIDE DEF f
<1>8. [k \in lo..last |-> f[k]] = [k \in lo..last |-> IF k = lo THEN 0 ELSE 2 * f[k - 1] + stream[k]]
  BY <1>6
<1> QED BY <1>7, <1>8, Zenon DEF Gathers

LEMMA Doubling ==
  ASSUME NEW top \in Nat, NEW y \in 0..top, NEW b \in {0, 1}
  PROVE  2 * y + b \in 0..2 * top + 1
OBVIOUS

LEMMA GatheredByte ==
  ASSUME NEW stream \in Bitstream, NEW lo \in Nat, NEW m \in 1..8, lo + m <= Len(stream),
         NEW f, Gathers(f, stream, lo, lo + m)
  PROVE  f[lo + m] \in Field
<1>1. f[lo] = 0 /\ \A k \in 1..m : f[lo + k] = 2 * f[(lo + k) - 1] + stream[lo + k]
  <2>1. \A k \in lo..lo + m : f[k] = IF k = lo THEN 0 ELSE 2 * f[k - 1] + stream[k]
    BY Zenon DEF Gathers
  <2>2. \A k \in 1..m : lo + k \in lo..lo + m /\ lo + k # lo
    OBVIOUS
  <2>3. lo \in lo..lo + m
    OBVIOUS
  <2> QED BY <2>1, <2>2, <2>3
<1>2. \A k \in 1..m : stream[lo + k] \in {0, 1}
  BY DEF Bitstream, Binary
<1> DEFINE w == [k \in 0..8 |-> f[lo + k]]
           c == [k \in 0..8 |-> stream[lo + k]]
<1>20. \A k \in 0..8 : w[k] = f[lo + k] /\ c[k] = stream[lo + k]
  OBVIOUS
<1> HIDE DEF w, c
<1>3. w[0] = 0 /\ \A k \in 1..m : w[k] = 2 * w[k - 1] + c[k]
  <2>2. w[0] = 0
    <3>1. lo + 0 = lo /\ 0 \in 0..8
      OBVIOUS
    <3> QED BY <1>1, <1>20, <3>1
  <2>3. ASSUME NEW k \in 1..m PROVE w[k] = 2 * w[k - 1] + c[k]
    <3>1. k \in 0..8 /\ k - 1 \in 0..8 /\ lo + (k - 1) = (lo + k) - 1
      OBVIOUS
    <3>2. w[k] = f[lo + k] /\ c[k] = stream[lo + k] /\ w[k - 1] = f[(lo + k) - 1]
      BY <1>20, <3>1
    <3> QED BY <1>1, <3>2
  <2> QED BY <2>2, <2>3
<1>4. \A k \in 1..m : c[k] \in {0, 1}
  <2> TAKE k \in 1..m
  <2>1. k \in 0..8
    OBVIOUS
  <2> QED BY <1>2, <1>20, <2>1
<1>5. f[lo + m] = w[m]
  <2>1. m \in 0..8
    OBVIOUS
  <2> QED BY <1>20, <2>1
<1>16. ASSUME NEW k \in 1..m, NEW top \in Nat, w[k - 1] \in 0..top PROVE w[k] \in 0..2 * top + 1
  <2>1. PICK y \in 0..top, x \in {0, 1} : y = w[k - 1] /\ x = c[k]
    BY <1>4, <1>16
  <2>2. w[k] = 2 * y + x
    BY <1>3, <2>1
  <2>3. 2 * y + x \in 0..2 * top + 1
    BY Zenon, Doubling
  <2> QED BY <2>2, <2>3, Zenon
<1>6. m >= 1 => w[1] \in 0..1
  <2> HAVE m >= 1
  <2>1. 1 \in 1..m /\ 1 - 1 = 0 /\ 2 * 0 + 1 = 1 /\ 0 \in Nat
    OBVIOUS
  <2>2. w[1 - 1] \in 0..0
    BY <1>3, <2>1
  <2>3. w[1] \in 0..2 * 0 + 1
    BY <1>16, <2>1, <2>2, Zenon
  <2> QED BY <2>1, <2>3
<1>7. m >= 2 => w[2] \in 0..3
  <2> HAVE m >= 2
  <2>1. 2 \in 1..m /\ 2 - 1 = 1 /\ 2 * 1 + 1 = 3 /\ 1 \in Nat
    OBVIOUS
  <2>2. w[2 - 1] \in 0..1
    BY <1>6, <2>1
  <2>3. w[2] \in 0..2 * 1 + 1
    BY <1>16, <2>1, <2>2, Zenon
  <2> QED BY <2>1, <2>3
<1>8. m >= 3 => w[3] \in 0..7
  <2> HAVE m >= 3
  <2>1. 3 \in 1..m /\ 3 - 1 = 2 /\ 2 * 3 + 1 = 7 /\ 3 \in Nat
    OBVIOUS
  <2>2. w[3 - 1] \in 0..3
    BY <1>7, <2>1
  <2>3. w[3] \in 0..2 * 3 + 1
    BY <1>16, <2>1, <2>2, Zenon
  <2> QED BY <2>1, <2>3
<1>9. m >= 4 => w[4] \in 0..15
  <2> HAVE m >= 4
  <2>1. 4 \in 1..m /\ 4 - 1 = 3 /\ 2 * 7 + 1 = 15 /\ 7 \in Nat
    OBVIOUS
  <2>2. w[4 - 1] \in 0..7
    BY <1>8, <2>1
  <2>3. w[4] \in 0..2 * 7 + 1
    BY <1>16, <2>1, <2>2, Zenon
  <2> QED BY <2>1, <2>3
<1>10. m >= 5 => w[5] \in 0..31
  <2> HAVE m >= 5
  <2>1. 5 \in 1..m /\ 5 - 1 = 4 /\ 2 * 15 + 1 = 31 /\ 15 \in Nat
    OBVIOUS
  <2>2. w[5 - 1] \in 0..15
    BY <1>9, <2>1
  <2>3. w[5] \in 0..2 * 15 + 1
    BY <1>16, <2>1, <2>2, Zenon
  <2> QED BY <2>1, <2>3
<1>11. m >= 6 => w[6] \in 0..63
  <2> HAVE m >= 6
  <2>1. 6 \in 1..m /\ 6 - 1 = 5 /\ 2 * 31 + 1 = 63 /\ 31 \in Nat
    OBVIOUS
  <2>2. w[6 - 1] \in 0..31
    BY <1>10, <2>1
  <2>3. w[6] \in 0..2 * 31 + 1
    BY <1>16, <2>1, <2>2, Zenon
  <2> QED BY <2>1, <2>3
<1>12. m >= 7 => w[7] \in 0..127
  <2> HAVE m >= 7
  <2>1. 7 \in 1..m /\ 7 - 1 = 6 /\ 2 * 63 + 1 = 127 /\ 63 \in Nat
    OBVIOUS
  <2>2. w[7 - 1] \in 0..63
    BY <1>11, <2>1
  <2>3. w[7] \in 0..2 * 63 + 1
    BY <1>16, <2>1, <2>2, Zenon
  <2> QED BY <2>1, <2>3
<1>13. m >= 8 => w[8] \in 0..255
  <2> HAVE m >= 8
  <2>1. PICK k \in 1..m, top \in Nat : k = 8 /\ top = 127
    OBVIOUS
  <2>2. w[k - 1] \in 0..top
    BY <1>12, <2>1
  <2>3. w[k] \in 0..2 * top + 1
    BY <1>16, <2>2
  <2> QED BY <2>1, <2>3
<1>14. m = 1 \/ m = 2 \/ m = 3 \/ m = 4 \/ m = 5 \/ m = 6 \/ m = 7 \/ m = 8
  OBVIOUS
<1>15. w[m] \in 0..255
  <2>1. 0..1 \subseteq 0..255 /\ 0..3 \subseteq 0..255 /\ 0..7 \subseteq 0..255 /\ 0..15 \subseteq 0..255
        /\ 0..31 \subseteq 0..255 /\ 0..63 \subseteq 0..255 /\ 0..127 \subseteq 0..255
    OBVIOUS
  <2>2. CASE m = 1
    BY <1>6, <2>1, <2>2
  <2>3. CASE m = 2
    BY <1>7, <2>1, <2>3
  <2>4. CASE m = 3
    BY <1>8, <2>1, <2>4
  <2>5. CASE m = 4
    BY <1>9, <2>1, <2>5
  <2>6. CASE m = 5
    BY <1>10, <2>1, <2>6
  <2>7. CASE m = 6
    BY <1>11, <2>1, <2>7
  <2>8. CASE m = 7
    BY <1>12, <2>1, <2>8
  <2>9. CASE m = 8
    BY <1>13, <2>1, <2>9
  <2> QED BY <1>14, <2>2, <2>3, <2>4, <2>5, <2>6, <2>7, <2>8, <2>9
<1> QED BY <1>5, <1>15 DEF Field

(* BitStream_toByte makes bytes, as many as there is a bit for (bitstream.c:182-217). *)
LEMMA BytesInField ==
  ASSUME NEW stream \in Bitstream
  PROVE  ToBytes(stream) \in Seq(Field) /\ Len(ToBytes(stream)) = (Len(stream) + 7) \div 8
<1> DEFINE last(i) == IF 8 * i <= Len(stream) THEN 8 * i ELSE Len(stream)
           Is(f, i) == f = [k \in 8 * (i - 1)..last(i) |->
                              IF k = 8 * (i - 1) THEN 0 ELSE 2 * f[k - 1] + stream[k]]
           of(i) == CHOOSE f : Is(f, i)
<1>1. ToBytes(stream) = [i \in 1..(Len(stream) + 7) \div 8 |-> of(i)[last(i)]]
  BY Zenon DEF ToBytes
<1>2. PICK n \in Nat : n = Len(stream)
  BY DEF Bitstream
<1>3. ASSUME NEW i \in 1..(n + 7) \div 8 PROVE of(i)[last(i)] \in Field
  <2>1. PICK lo \in Nat : lo = 8 * (i - 1)
    OBVIOUS
  <2>2. PICK m \in 1..8 : lo + m = last(i) /\ lo + m <= n
    <3>1. last(i) - lo \in 1..8 /\ lo + (last(i) - lo) = last(i) /\ last(i) <= n
      BY <1>2, <2>1
    <3> QED BY <3>1
  <2>3. \A f : Is(f, i) <=> Gathers(f, stream, lo, lo + m)
    <3> TAKE f
    <3> QED BY <2>1, <2>2, Zenon DEF Gathers
  <2> HIDE DEF Is, last
  <2>4. lo + m \in Nat /\ lo <= lo + m
    OBVIOUS
  <2>5. \E f : Gathers(f, stream, lo, lo + m)
    BY <1>2, <2>2, <2>4, GatheringExists
  <2>6. Is(of(i), i)
    BY <2>3, <2>5, Zenon
  <2> HIDE DEF of
  <2>7. Gathers(of(i), stream, lo, lo + m)
    BY <2>3, <2>6, Zenon
  <2>8. of(i)[lo + m] \in Field
    BY <1>2, <2>2, <2>7, GatheredByte
  <2> QED BY <2>2, <2>8
<1> HIDE DEF of, last
<1>4. PICK size \in Nat : size = (n + 7) \div 8
  OBVIOUS
<1>5. ToBytes(stream) = [i \in 1..size |-> of(i)[last(i)]]
  BY <1>1, <1>2, <1>4, Zenon
<1>6. \A i \in 1..size : of(i)[last(i)] \in Field
  BY <1>3, <1>4, Zenon
<1>7. [i \in 1..size |-> of(i)[last(i)]] \in [1..size -> Field]
  BY <1>6, Zenon
<1>8. ToBytes(stream) \in Seq(Field) /\ Len(ToBytes(stream)) = size
  BY <1>5, <1>7
<1> QED BY <1>2, <1>4, <1>8

(* Two lengths of blocks, of a byte more or less, make up the data (qrspec.c:226-360). *)
Fits(v, l) ==
  LET b == EccTable[v][l + 1]
  IN  /\ b[1] \in Nat \ {0} /\ b[2] \in Nat /\ DataLength(v, l) \in Nat \ {0} /\ ECCLength(v, l) >= b[1] + b[2]
      /\ ECCLength(v, l) \in Nat /\ DataLength(v, l) % (b[1] + b[2]) = b[2]

LEMMA TableFits ==
  ASSUME NEW v \in 1..VersionMax, NEW l \in 0..3
  PROVE  Fits(v, l)
<1>1. Fits(1, l)
  <2>1. Fits(1, 0)
    BY SMTT(40) DEF Fits, EccTable, DataLength, ECCLength, Words, Capacity
  <2>2. Fits(1, 1)
    BY SMTT(40) DEF Fits, EccTable, DataLength, ECCLength, Words, Capacity
  <2>3. Fits(1, 2)
    BY SMTT(40) DEF Fits, EccTable, DataLength, ECCLength, Words, Capacity
  <2>4. Fits(1, 3)
    BY SMTT(40) DEF Fits, EccTable, DataLength, ECCLength, Words, Capacity
  <2> QED BY <2>1, <2>2, <2>3, <2>4
<1>2. Fits(2, l)
  <2>1. Fits(2, 0)
    BY SMTT(40) DEF Fits, EccTable, DataLength, ECCLength, Words, Capacity
  <2>2. Fits(2, 1)
    BY SMTT(40) DEF Fits, EccTable, DataLength, ECCLength, Words, Capacity
  <2>3. Fits(2, 2)
    BY SMTT(40) DEF Fits, EccTable, DataLength, ECCLength, Words, Capacity
  <2>4. Fits(2, 3)
    BY SMTT(40) DEF Fits, EccTable, DataLength, ECCLength, Words, Capacity
  <2> QED BY <2>1, <2>2, <2>3, <2>4
<1>3. Fits(3, l)
  BY SMTT(40) DEF Fits, EccTable, DataLength, ECCLength, Words, Capacity
<1>4. Fits(4, l)
  <2>1. Fits(4, 0)
    BY SMTT(40) DEF Fits, EccTable, DataLength, ECCLength, Words, Capacity
  <2>2. Fits(4, 1)
    BY SMTT(40) DEF Fits, EccTable, DataLength, ECCLength, Words, Capacity
  <2>3. Fits(4, 2)
    BY SMTT(40) DEF Fits, EccTable, DataLength, ECCLength, Words, Capacity
  <2>4. Fits(4, 3)
    BY SMTT(40) DEF Fits, EccTable, DataLength, ECCLength, Words, Capacity
  <2> QED BY <2>1, <2>2, <2>3, <2>4
<1>5. Fits(5, l)
  BY SMTT(40) DEF Fits, EccTable, DataLength, ECCLength, Words, Capacity
<1>6. Fits(6, l)
  <2>1. Fits(6, 0)
    BY SMTT(40) DEF Fits, EccTable, DataLength, ECCLength, Words, Capacity
  <2>2. Fits(6, 1)
    BY SMTT(40) DEF Fits, EccTable, DataLength, ECCLength, Words, Capacity
  <2>3. Fits(6, 2)
    BY SMTT(40) DEF Fits, EccTable, DataLength, ECCLength, Words, Capacity
  <2>4. Fits(6, 3)
    BY SMTT(40) DEF Fits, EccTable, DataLength, ECCLength, Words, Capacity
  <2> QED BY <2>1, <2>2, <2>3, <2>4
<1>7. Fits(7, l)
  BY SMTT(40) DEF Fits, EccTable, DataLength, ECCLength, Words, Capacity
<1>8. Fits(8, l)
  BY SMTT(40) DEF Fits, EccTable, DataLength, ECCLength, Words, Capacity
<1>9. Fits(9, l)
  BY SMTT(40) DEF Fits, EccTable, DataLength, ECCLength, Words, Capacity
<1>10. Fits(10, l)
  BY SMTT(40) DEF Fits, EccTable, DataLength, ECCLength, Words, Capacity
<1>11. Fits(11, l)
  BY SMTT(40) DEF Fits, EccTable, DataLength, ECCLength, Words, Capacity
<1>12. Fits(12, l)
  BY SMTT(40) DEF Fits, EccTable, DataLength, ECCLength, Words, Capacity
<1>13. Fits(13, l)
  BY SMTT(40) DEF Fits, EccTable, DataLength, ECCLength, Words, Capacity
<1>14. Fits(14, l)
  BY SMTT(40) DEF Fits, EccTable, DataLength, ECCLength, Words, Capacity
<1>15. Fits(15, l)
  BY SMTT(40) DEF Fits, EccTable, DataLength, ECCLength, Words, Capacity
<1>16. Fits(16, l)
  BY SMTT(40) DEF Fits, EccTable, DataLength, ECCLength, Words, Capacity
<1>17. Fits(17, l)
  BY SMTT(40) DEF Fits, EccTable, DataLength, ECCLength, Words, Capacity
<1>18. Fits(18, l)
  BY SMTT(40) DEF Fits, EccTable, DataLength, ECCLength, Words, Capacity
<1>19. Fits(19, l)
  BY SMTT(40) DEF Fits, EccTable, DataLength, ECCLength, Words, Capacity
<1>20. Fits(20, l)
  BY SMTT(40) DEF Fits, EccTable, DataLength, ECCLength, Words, Capacity
<1>21. Fits(21, l)
  BY SMTT(40) DEF Fits, EccTable, DataLength, ECCLength, Words, Capacity
<1>22. Fits(22, l)
  <2>1. Fits(22, 0)
    BY SMTT(40) DEF Fits, EccTable, DataLength, ECCLength, Words, Capacity
  <2>2. Fits(22, 1)
    BY SMTT(40) DEF Fits, EccTable, DataLength, ECCLength, Words, Capacity
  <2>3. Fits(22, 2)
    BY SMTT(40) DEF Fits, EccTable, DataLength, ECCLength, Words, Capacity
  <2>4. Fits(22, 3)
    BY SMTT(40) DEF Fits, EccTable, DataLength, ECCLength, Words, Capacity
  <2> QED BY <2>1, <2>2, <2>3, <2>4
<1>23. Fits(23, l)
  BY SMTT(40) DEF Fits, EccTable, DataLength, ECCLength, Words, Capacity
<1>24. Fits(24, l)
  BY SMTT(40) DEF Fits, EccTable, DataLength, ECCLength, Words, Capacity
<1>25. Fits(25, l)
  BY SMTT(40) DEF Fits, EccTable, DataLength, ECCLength, Words, Capacity
<1>26. Fits(26, l)
  BY SMTT(40) DEF Fits, EccTable, DataLength, ECCLength, Words, Capacity
<1>27. Fits(27, l)
  BY SMTT(40) DEF Fits, EccTable, DataLength, ECCLength, Words, Capacity
<1>28. Fits(28, l)
  BY SMTT(40) DEF Fits, EccTable, DataLength, ECCLength, Words, Capacity
<1>29. Fits(29, l)
  BY SMTT(40) DEF Fits, EccTable, DataLength, ECCLength, Words, Capacity
<1>30. Fits(30, l)
  BY SMTT(40) DEF Fits, EccTable, DataLength, ECCLength, Words, Capacity
<1>31. Fits(31, l)
  BY SMTT(40) DEF Fits, EccTable, DataLength, ECCLength, Words, Capacity
<1>32. Fits(32, l)
  BY SMTT(40) DEF Fits, EccTable, DataLength, ECCLength, Words, Capacity
<1>33. Fits(33, l)
  BY SMTT(40) DEF Fits, EccTable, DataLength, ECCLength, Words, Capacity
<1>34. Fits(34, l)
  BY SMTT(40) DEF Fits, EccTable, DataLength, ECCLength, Words, Capacity
<1>35. Fits(35, l)
  BY SMTT(40) DEF Fits, EccTable, DataLength, ECCLength, Words, Capacity
<1>36. Fits(36, l)
  BY SMTT(40) DEF Fits, EccTable, DataLength, ECCLength, Words, Capacity
<1>37. Fits(37, l)
  BY SMTT(40) DEF Fits, EccTable, DataLength, ECCLength, Words, Capacity
<1>38. Fits(38, l)
  BY SMTT(40) DEF Fits, EccTable, DataLength, ECCLength, Words, Capacity
<1>39. Fits(39, l)
  BY SMTT(40) DEF Fits, EccTable, DataLength, ECCLength, Words, Capacity
<1>40. Fits(40, l)
  BY SMTT(40) DEF Fits, EccTable, DataLength, ECCLength, Words, Capacity
<1>41. CASE v \in 1..8
  BY <1>1, <1>2, <1>3, <1>4, <1>5, <1>6, <1>7, <1>8, <1>41
<1>42. CASE v \in 9..16
  BY <1>9, <1>10, <1>11, <1>12, <1>13, <1>14, <1>15, <1>16, <1>42
<1>43. CASE v \in 17..24
  BY <1>17, <1>18, <1>19, <1>20, <1>21, <1>22, <1>23, <1>24, <1>43
<1>44. CASE v \in 25..32
  BY <1>25, <1>26, <1>27, <1>28, <1>29, <1>30, <1>31, <1>32, <1>44
<1>45. CASE v \in 33..40
  BY <1>33, <1>34, <1>35, <1>36, <1>37, <1>38, <1>39, <1>40, <1>45
<1>46. v \in 1..8 \/ v \in 9..16 \/ v \in 17..24 \/ v \in 25..32 \/ v \in 33..40
  BY DEF VersionMax
<1> QED BY <1>41, <1>42, <1>43, <1>44, <1>45, <1>46

LEMMA BlockProduct ==
  ASSUME NEW c \in Nat, NEW k \in Nat, NEW d \in Nat, NEW n \in Nat, n = (c + 1) + k
  PROVE  n * d = (c * d + d) + k * d
<1>1. ((c + 1) + k) * d = (c * d + d) + k * d
  OBVIOUS
<1> QED BY <1>1, Zenon

(* Where the data of the b-th block is, and that it is there. *)
Shared(total, b1, b2, d) == total % (b1 + b2) = b2 /\ d = total \div (b1 + b2)
Placed(start, size, b, b1, d) ==
  /\ start = d * (b - 1) + IF b > b1 THEN b - 1 - b1 ELSE 0
  /\ size = IF b <= b1 THEN d ELSE d + 1

LEMMA BlockBounds ==
  ASSUME NEW total \in Nat \ {0}, NEW b1 \in Nat \ {0}, NEW b2 \in Nat,
         NEW b \in 1..b1 + b2, NEW d \in Nat, NEW start \in Nat, NEW size \in Nat,
         Shared(total, b1, b2, d), Placed(start, size, b, b1, d)
  PROVE  start + size <= total
<1>0. /\ total % (b1 + b2) = b2 /\ d = total \div (b1 + b2)
      /\ start = d * (b - 1) + IF b > b1 THEN b - 1 - b1 ELSE 0
      /\ size = IF b <= b1 THEN d ELSE d + 1
  BY Zenon DEF Shared, Placed
<1>1. PICK n \in Nat \ {0} : n = b1 + b2
  OBVIOUS
<1>2. PICK q \in Int, e \in Int : q = total \div n /\ e = total % n /\ total = n * q + e
  OBVIOUS
<1>3. PICK c \in Nat, k \in Nat : b = c + 1 /\ n = b + k
  <2>1. b - 1 \in Nat /\ b = (b - 1) + 1 /\ n - b \in Nat /\ n = b + (n - b)
    BY <1>1
  <2> QED BY <2>1
<1>4. PICK p \in Int, r \in Nat : p = c * d /\ r = k * d
  OBVIOUS
<1>5. n * d = (p + d) + r
  <2>1. n = (c + 1) + k /\ n \in Nat
    BY <1>3
  <2>2. n * d = (c * d + d) + k * d
    BY <2>1, BlockProduct
  <2> QED BY <1>4, <2>2, Zenon
<1>6. total = ((p + d) + r) + b2 /\ start = p + IF b > b1 THEN b - 1 - b1 ELSE 0
  <2>1. q = d /\ e = b2
    BY <1>0, <1>1, <1>2
  <2>2. total = n * d + b2
    BY <1>2, <2>1
  <2>3. d * (b - 1) = p
    <3>1. b - 1 = c /\ d * c = c * d
      BY <1>3
    <3> QED BY <1>4, <3>1
  <2> QED BY <1>0, <1>5, <2>2, <2>3
<1>7. CASE b <= b1
  BY <1>0, <1>4, <1>6, <1>7
<1>8. CASE b > b1
  <2>1. b - 1 - b1 + 1 <= b2
    BY <1>8
  <2> QED BY <1>0, <1>4, <1>6, <1>8, <2>1
<1> QED BY <1>7, <1>8

(* What is left of a list when its first element is taken. *)
LEMMA TailOfList ==
  ASSUME NEW list, list \in Seq(Range(list)), list # <<>>
  PROVE  /\ Tail(list) \in Seq(Range(Tail(list))) /\ 1 \in DOMAIN list /\ Head(list) = list[1]
         /\ \A i \in DOMAIN Tail(list) : i + 1 \in DOMAIN list /\ Tail(list)[i] = list[i + 1]
<1>1. PICK S : S = Range(list)
  OBVIOUS
<1>2. list \in Seq(S)
  BY <1>1
<1>3. /\ Tail(list) \in Seq(S) /\ 1 \in DOMAIN list /\ Head(list) = list[1]
      /\ \A i \in DOMAIN Tail(list) : i + 1 \in DOMAIN list /\ Tail(list)[i] = list[i + 1]
  BY <1>2
<1>4. PICK t : t = Tail(list)
  OBVIOUS
<1>5. t \in Seq(Range(t))
  <2>0. t \in Seq(S)
    BY <1>3, <1>4, Zenon
  <2>1. PICK n \in Nat : DOMAIN t = 1..n /\ t = [i \in 1..n |-> t[i]]
    BY <2>0
  <2>2. \A i \in 1..n : t[i] \in Range(t)
    BY <2>1 DEF Range
  <2> QED BY <2>1, <2>2
<1> QED BY <1>3, <1>4, <1>5

(* A set of inputs for each list of parts, which QRinput_append and the others make
   of an input one after the other (qrinput.c:223-292, 1704-1725). *)
Makes(f, parts, new) ==
  f = [k \in 0..Len(parts) |-> IF k = 0 THEN {new} ELSE UNION {With(i, parts[k]) : i \in f[k - 1]}]

LEMMA MadeAreInputs ==
  ASSUME NEW parts, PartsOK(parts), NEW new \in Inputs
  PROVE  /\ \E f : Makes(f, parts, new)
         /\ \A f : Makes(f, parts, new) => f[Len(parts)] \subseteq Inputs
<1>1. PICK n \in Nat : n = Len(parts) /\ \A k \in 1..n : PartOK(parts[k])
  <2>1. PICK S : parts \in Seq(S) /\ \A i \in DOMAIN parts : PartOK(parts[i])
    BY DEF PartsOK
  <2> QED BY <2>1
<1> DEFINE all(k, X) == UNION {With(i, parts[k]) : i \in X}
<1>2. ASSUME NEW k \in 1..n, NEW X \in SUBSET Inputs PROVE all(k, X) \in SUBSET Inputs
  <2>1. \A i \in X : \A j \in With(i, parts[k]) : j \in Inputs
    BY <1>1, WithIsInput
  <2> QED BY <2>1, Zenon
<1> HIDE DEF all
<1> DEFINE step == [p \in Nat \X SUBSET Inputs |-> IF p[1] \in 1..n THEN all(p[1], p[2]) ELSE {}]
<1>3. \A k \in Nat, X \in SUBSET Inputs : (IF k \in 1..n THEN all(k, X) ELSE {}) \in SUBSET Inputs
  <2> TAKE k \in Nat, X \in SUBSET Inputs
  <2>1. CASE k \in 1..n
    BY <1>2, <2>1
  <2>2. CASE k \notin 1..n
    BY <2>2
  <2> QED BY <2>1, <2>2
<1>4. step \in [Nat \X SUBSET Inputs -> SUBSET Inputs]
  BY <1>3
<1>5. \A k \in Nat, X \in SUBSET Inputs : step[<<k, X>>] = IF k \in 1..n THEN all(k, X) ELSE {}
  OBVIOUS
<1>6. {new} \in SUBSET Inputs
  OBVIOUS
<1> HIDE DEF step
<1>7. PICK g \in [0..n -> SUBSET Inputs] : Iterates(g, step, {new}, n)
  BY <1>4, <1>6, IterationExists
<1>8. \A k \in 0..n : g[k] = IF k = 0 THEN {new} ELSE all(k, g[k - 1])
  <2> TAKE k \in 0..n
  <2>1. CASE k = 0
    BY <1>7, <2>1 DEF Iterates
  <2>2. CASE k # 0
    <3>1. k \in 1..n /\ k - 1 \in 0..n /\ k \in Nat
      BY <2>2
    <3>2. g[k] = step[<<k, g[k - 1]>>] /\ g[k - 1] \in SUBSET Inputs
      BY <1>7, <3>1 DEF Iterates
    <3> QED BY <1>5, <2>2, <3>1, <3>2
  <2> QED BY <2>1, <2>2
<1>9. Makes(g, parts, new)
  <2>1. g = [k \in 0..n |-> g[k]]
    BY <1>7
  <2>2. [k \in 0..n |-> g[k]] = [k \in 0..n |-> IF k = 0 THEN {new} ELSE all(k, g[k - 1])]
    BY <1>8
  <2> QED BY <1>1, <2>1, <2>2, Zenon DEF Makes, all
<1>10. ASSUME NEW f, Makes(f, parts, new) PROVE f[n] \subseteq Inputs
  <2>1. \A k \in 0..n : f[k] = IF k = 0 THEN {new} ELSE all(k, f[k - 1])
    BY <1>1, <1>10, Zenon DEF Makes, all
  <2> DEFINE T == {k \in 0..n : f[k] \subseteq Inputs}
  <2>2. 0 \in T
    BY <2>1
  <2>3. ASSUME NEW k \in 0..n - 1, k \in T PROVE k + 1 \in T
    <3>1. k + 1 \in 0..n /\ k + 1 # 0 /\ (k + 1) - 1 = k /\ k + 1 \in 1..n
      OBVIOUS
    <3>2. f[k + 1] = all(k + 1, f[k])
      BY <2>1, <3>1
    <3>3. f[k] \in SUBSET Inputs
      BY <2>3
    <3>4. all(k + 1, f[k]) \in SUBSET Inputs
      BY <1>2, <3>1, <3>3
    <3> QED BY <3>1, <3>2, <3>4
  <2> HIDE DEF T
  <2>4. 0..n \subseteq T
    BY <2>2, <2>3, UpTo
  <2>5. n \in 0..n
    OBVIOUS
  <2> QED BY <2>4, <2>5 DEF T
<1> QED BY <1>1, <1>9, <1>10

(* The header FNC1 in second place is an entry of one byte (qrinput.c:1326-1348). *)
LEMMA SecondIsSegment ==
  ASSUME NEW id \in Int
  PROVE  Entry("FNC1SECOND", <<id>>) \in Segments
<1>1. <<id>> \in Seq(Int) /\ <<id>> # <<>>
  OBVIOUS
<1> QED BY <1>1 DEF Entry, Segments

(* The first of the inputs of a set, and those behind it (qrinput.c:1674-1698). *)
LEMMA SetIsInputs ==
  ASSUME NEW inputs \in Seq(Inputs), inputs # <<>>
  PROVE  LET all == WithHeaders(inputs, Parity(inputs)) IN Head(all) \in Inputs /\ Tail(all) \in Seq(Inputs)
<1> DEFINE all == WithHeaders(inputs, Parity(inputs))
<1>1. \A i \in Inputs : i.entries \in Seq(Segments)
  BY InputFields
<1>2. Parity(inputs) \in Int
  BY <1>1, ParityType
<1>3. all \in Seq(Inputs) /\ Len(all) = Len(inputs)
  BY <1>2, HeadersAreInputs
<1> HIDE DEF all
<1>4. all # <<>>
  BY <1>3
<1>5. Head(all) \in Inputs /\ Tail(all) \in Seq(Inputs)
  BY <1>3, <1>4
<1> QED BY <1>5 DEF all

(* The generators that init_rs keeps, and blocks that are on their way through
   encode_rs_char: what is fed and the check bytes so far are a word of the code. *)
Generators == {[pad |-> p, nroots |-> n, genpoly |-> Genpoly(n)] : p \in Int, n \in Nat}
Blocks ==
  {b \in [data : Seq(Field), rs : Generators \cup {NoRS}, fed : Nat, ecc : Seq(Field)] :
     /\ b.ecc # <<>> /\ b.fed <= Len(b.data)
     /\ b.rs = NoRS => b.fed = 0
     /\ b.rs # NoRS => b.rs = [pad |-> 255 - Len(b.data) - Len(b.ecc), nroots |-> Len(b.ecc),
                               genpoly |-> Genpoly(Len(b.ecc))]
     /\ \A i \in 0..Len(b.ecc) - 1 : CodeSoFar(b.data, b.fed, b.ecc, Power(i))}

LEMMA BlockFields ==
  ASSUME NEW b \in Blocks
  PROVE  /\ b.data \in Seq(Field) /\ b.rs \in Generators \cup {NoRS} /\ b.fed \in Nat /\ b.ecc \in Seq(Field)
         /\ b.ecc # <<>> /\ b.fed <= Len(b.data) /\ Len(b.data) \in Nat /\ Len(b.ecc) \in Nat \ {0}
         /\ b.rs = NoRS => b.fed = 0
         /\ b.rs # NoRS => b.rs = [pad |-> 255 - Len(b.data) - Len(b.ecc), nroots |-> Len(b.ecc),
                                   genpoly |-> Genpoly(Len(b.ecc))]
         /\ \A i \in 0..Len(b.ecc) - 1 : CodeSoFar(b.data, b.fed, b.ecc, Power(i))
<1>1. /\ b.data \in Seq(Field) /\ b.rs \in Generators \cup {NoRS} /\ b.fed \in Nat /\ b.ecc \in Seq(Field)
      /\ b.ecc # <<>> /\ b.fed <= Len(b.data)
      /\ b.rs = NoRS => b.fed = 0
      /\ b.rs # NoRS => b.rs = [pad |-> 255 - Len(b.data) - Len(b.ecc), nroots |-> Len(b.ecc),
                                genpoly |-> Genpoly(Len(b.ecc))]
      /\ \A i \in 0..Len(b.ecc) - 1 : CodeSoFar(b.data, b.fed, b.ecc, Power(i))
  BY Zenon DEF Blocks
<1>2. Len(b.data) \in Nat /\ Len(b.ecc) \in Nat \ {0}
  BY <1>1
<1> QED BY <1>1, <1>2, Zenon

LEMMA NewBlock ==
  ASSUME NEW data \in Seq(Field), NEW nroots \in Nat \ {0}
  PROVE  Block(data, nroots) \in Blocks
<1> DEFINE ecc == [i \in 1..nroots |-> 0]
<1>1. 0 \in Field
  BY DEF Field
<1>2. ecc \in Seq(Field) /\ Len(ecc) = nroots /\ ecc # <<>> /\ \A i \in 1..Len(ecc) : ecc[i] = 0
  BY <1>1
<1>3. Block(data, nroots) = [data |-> data, rs |-> NoRS, fed |-> 0, ecc |-> ecc]
  BY DEF Block
<1> HIDE DEF ecc
<1>4. \A i \in 0..Len(ecc) - 1 : CodeSoFar(data, 0, ecc, Power(i))
  <2> TAKE i \in 0..Len(ecc) - 1
  <2>1. i \in Nat
    BY <1>2
  <2> QED BY <1>2, <2>1, PowerType, CodeStarts
<1>5. Len(data) \in Nat
  OBVIOUS
<1>6. PICK b : b = [data |-> data, rs |-> NoRS, fed |-> 0, ecc |-> ecc]
  OBVIOUS
<1>7. /\ b \in [data : Seq(Field), rs : Generators \cup {NoRS}, fed : Nat, ecc : Seq(Field)]
      /\ b.data = data /\ b.rs = NoRS /\ b.fed = 0 /\ b.ecc = ecc
  BY <1>2, <1>6
<1>8. b.fed <= Len(b.data)
  BY <1>5, <1>7
<1>9. \A i \in 0..Len(b.ecc) - 1 : CodeSoFar(b.data, b.fed, b.ecc, Power(i))
  BY <1>4, <1>7, Zenon
<1> QED BY <1>2, <1>3, <1>6, <1>7, <1>8, <1>9, Zenon DEF Blocks

(* init_rs gives a block the generator of its lengths (rscode.c:103-125). *)
LEMMA BlockTakesGenerator ==
  ASSUME NEW b \in Blocks, b.rs = NoRS
  PROVE  LET g == [pad |-> 255 - Len(b.data) - Len(b.ecc), nroots |-> Len(b.ecc), genpoly |-> Genpoly(Len(b.ecc))]
         IN  g \in Generators /\ [b EXCEPT !.rs = g] \in Blocks
<1> DEFINE g == [pad |-> 255 - Len(b.data) - Len(b.ecc), nroots |-> Len(b.ecc), genpoly |-> Genpoly(Len(b.ecc))]
<1>0. Len(b.data) \in Nat /\ Len(b.ecc) \in Nat \ {0}
  BY BlockFields, Zenon
<1>1. PICK n \in Nat \ {0}, p \in Int : n = Len(b.ecc) /\ p = 255 - Len(b.data) - Len(b.ecc)
  <2>1. PICK m \in Nat, n \in Nat \ {0} : m = Len(b.data) /\ n = Len(b.ecc)
    BY <1>0, Zenon
  <2>2. PICK p \in Int : p = 255 - m - n
    OBVIOUS
  <2> QED BY <2>1, <2>2, Zenon
<1>2. g = [pad |-> p, nroots |-> n, genpoly |-> Genpoly(n)]
  BY <1>1, Zenon
<1>3. g \in Generators
  BY <1>2 DEF Generators
<1>4. g # NoRS
  BY <1>2 DEF NoRS
<1>5. PICK c : c = [b EXCEPT !.rs = g]
  OBVIOUS
<1>6. b \in [data : Seq(Field), rs : Generators \cup {NoRS}, fed : Nat, ecc : Seq(Field)]
  BY Zenon DEF Blocks
<1> HIDE DEF g
<1>7. /\ c \in [data : Seq(Field), rs : Generators \cup {NoRS}, fed : Nat, ecc : Seq(Field)]
      /\ c.data = b.data /\ c.rs = g /\ c.fed = b.fed /\ c.ecc = b.ecc
  BY <1>3, <1>5, <1>6
<1>8. c.rs = [pad |-> 255 - Len(c.data) - Len(c.ecc), nroots |-> Len(c.ecc), genpoly |-> Genpoly(Len(c.ecc))]
  BY <1>7, Zenon DEF g
<1>9. /\ c.ecc # <<>> /\ c.fed <= Len(c.data)
      /\ \A i \in 0..Len(c.ecc) - 1 : CodeSoFar(c.data, c.fed, c.ecc, Power(i))
  BY <1>7, BlockFields, Zenon
<1>10. c \in Blocks
  BY <1>4, <1>7, <1>8, <1>9, Zenon DEF Blocks
<1> QED BY <1>3, <1>5, <1>10, Zenon DEF g

LEMMA FedRecord ==
  ASSUME NEW D, NEW R, NEW F, NEW E, NEW b \in [data : D, rs : R, fed : F, ecc : E],
         NEW k \in F, NEW e \in E, NEW c, c = [b EXCEPT !.fed = k, !.ecc = e]
  PROVE  c \in [data : D, rs : R, fed : F, ecc : E] /\ c.data = b.data /\ c.rs = b.rs /\ c.fed = k /\ c.ecc = e
OBVIOUS

(* A byte more is fed (rscode.c:301-327). *)
LEMMA BlockIsFed ==
  ASSUME NEW b \in Blocks, b.rs # NoRS, b.fed < Len(b.data)
  PROVE  [b EXCEPT !.fed = b.fed + 1, !.ecc = Feed(b.ecc, b.rs.genpoly, b.data[b.fed + 1])] \in Blocks
<1>1. PICK n \in Nat \ {0}, m \in Nat, data \in Seq(Field), ecc \in Seq(Field) :
        /\ n = Len(ecc) /\ m = b.fed /\ data = b.data /\ ecc = b.ecc /\ m < Len(data) /\ Len(data) \in Nat
        /\ \A i \in 0..n - 1 : CodeSoFar(data, m, ecc, Power(i))
  BY BlockFields, ZenonT(60)
<1>2. PICK g : g = Genpoly(n) /\ b.rs = [pad |-> 255 - Len(data) - n, nroots |-> n, genpoly |-> g]
  <2>1. b.rs = [pad |-> 255 - Len(b.data) - Len(b.ecc), nroots |-> Len(b.ecc), genpoly |-> Genpoly(Len(b.ecc))]
    BY BlockFields, Zenon
  <2>2. b.rs = [pad |-> 255 - Len(data) - n, nroots |-> n, genpoly |-> Genpoly(n)]
    BY <1>1, <2>1, Zenon
  <2> QED BY <2>2, Zenon
<1>3. Factored(g, n)
  BY <1>2, GenpolyFactored
<1>4. PICK d \in Field : d = data[m + 1]
  BY <1>1
<1>5. g \in Seq(Field) /\ Len(g) = n + 1
  BY <1>3 DEF Factored
<1>6. PICK e : e = Feed(ecc, g, d)
  OBVIOUS
<1>7. e \in Seq(Field) /\ Len(e) = n
  <2>1. FedOnce(e, ecc, g, Xor(d, ecc[1]), n)
    BY <1>1, <1>4, <1>5, <1>6, FeedIs
  <2> QED BY <2>1 DEF FedOnce
<1>8. \A i \in 0..n - 1 : CodeSoFar(data, m + 1, e, Power(i))
  <2> TAKE i \in 0..n - 1
  <2>1. i \in Nat /\ m \in 0..Len(data) - 1 /\ ecc # <<>>
    BY <1>1
  <2>2. Power(i) \in Field /\ Vanishes(g, Power(i)) /\ Factored(g, Len(ecc))
    BY <1>1, <1>3, <2>1, PowerType DEF Factored
  <2>3. CodeSoFar(data, m + 1, Feed(ecc, g, data[m + 1]), Power(i))
    BY <1>1, <2>1, <2>2, CodeFed
  <2> QED BY <1>4, <1>6, <2>3, Zenon
<1>9. PICK k \in Nat : k = m + 1 /\ k <= Len(data)
  BY <1>1
<1>10. PICK c : c = [b EXCEPT !.fed = k, !.ecc = e]
  OBVIOUS
<1>11. b \in [data : Seq(Field), rs : Generators \cup {NoRS}, fed : Nat, ecc : Seq(Field)]
  BY Zenon DEF Blocks
<1>12. /\ c \in [data : Seq(Field), rs : Generators \cup {NoRS}, fed : Nat, ecc : Seq(Field)]
       /\ c.data = data /\ c.rs = b.rs /\ c.fed = k /\ c.ecc = e
  <2>1. k \in Nat /\ e \in Seq(Field) /\ data = b.data
    BY <1>1, <1>7, <1>9, Zenon
  <2> QED BY <1>10, <1>11, <2>1, FedRecord, Zenon
<1>13. c.rs = [pad |-> 255 - Len(c.data) - Len(c.ecc), nroots |-> Len(c.ecc), genpoly |-> Genpoly(Len(c.ecc))]
  BY <1>2, <1>7, <1>12, Zenon
<1>14. c.rs # NoRS /\ c.fed <= Len(c.data) /\ c.ecc # <<>>
  BY <1>7, <1>9, <1>12
<1>15. \A i \in 0..Len(c.ecc) - 1 : CodeSoFar(c.data, c.fed, c.ecc, Power(i))
  BY <1>7, <1>8, <1>9, <1>12, Zenon
<1>16. c \in Blocks
  BY <1>12, <1>13, <1>14, <1>15, Zenon DEF Blocks
<1>17. b.rs.genpoly = g
  BY <1>2
<1>18. [b EXCEPT !.fed = b.fed + 1, !.ecc = Feed(b.ecc, b.rs.genpoly, b.data[b.fed + 1])] = c
  BY <1>1, <1>4, <1>6, <1>9, <1>10, <1>17, Zenon
<1> QED BY <1>16, <1>18, Zenon

(* A block of which all is fed is a word of the code. *)
LEMMA BlockWhole ==
  ASSUME NEW b \in Blocks, b.fed = Len(b.data), NEW i \in 0..Len(b.ecc) - 1
  PROVE  Syndrome(b.data \o b.ecc, i) = 0
<1>1. i \in Nat
  BY BlockFields
<1>2. CodeSoFar(b.data, Len(b.data), b.ecc, Power(i))
  BY BlockFields, ZenonT(60)
<1>3. b.data \in Seq(Field) /\ b.ecc \in Seq(Field)
  BY BlockFields, Zenon
<1> QED BY <1>1, <1>2, <1>3, CodeWhole, Zenon

(* The lengths of Micro symbols (mqrspec.c:40-110). *)
MicroFits(v, l) == MicroECCLength(v, l) # 0 => MicroECCLength(v, l) \in Nat \ {0} /\ MicroDataLengthBit(v, l) \in Nat

LEMMA MicroTableFits ==
  ASSUME NEW v \in 1..MicroVersionMax, NEW l \in Level
  PROVE  MicroFits(v, l)
<1>1. MicroFits(1, 0) /\ MicroFits(1, 1) /\ MicroFits(1, 2) /\ MicroFits(1, 3)
  BY DEF MicroFits, MicroECCLength, MicroDataLengthBit, MicroWidth
<1>2. MicroFits(2, 0) /\ MicroFits(2, 1) /\ MicroFits(2, 2) /\ MicroFits(2, 3)
  BY DEF MicroFits, MicroECCLength, MicroDataLengthBit, MicroWidth
<1>3. MicroFits(3, 0) /\ MicroFits(3, 1) /\ MicroFits(3, 2) /\ MicroFits(3, 3)
  BY DEF MicroFits, MicroECCLength, MicroDataLengthBit, MicroWidth
<1>4. MicroFits(4, 0) /\ MicroFits(4, 1) /\ MicroFits(4, 2) /\ MicroFits(4, 3)
  BY DEF MicroFits, MicroECCLength, MicroDataLengthBit, MicroWidth
<1>5. v = 1 \/ v = 2 \/ v = 3 \/ v = 4
  BY DEF MicroVersionMax
<1>6. l = 0 \/ l = 1 \/ l = 2 \/ l = 3
  BY DEF Level
<1> QED BY <1>1, <1>2, <1>3, <1>4, <1>5, <1>6, Zenon

(* QRraw_new cuts the data into blocks, and none of them ends behind the data
   (qrencode.c:63-120). *)
LEMMA CutIntoBlocks ==
  ASSUME NEW code \in Seq(Field), NEW v \in 1..VersionMax, NEW l \in Level, Len(code) = DataLength(v, l)
  PROVE  LET spec == EccSpec(v, l)
             dl(b) == IF b <= spec.blocks1 THEN spec.data1 ELSE spec.data2
             before(b) == spec.data1 * (b - 1) + IF b > spec.blocks1 THEN b - 1 - spec.blocks1 ELSE 0
         IN  [b \in 1..spec.blocks1 + spec.blocks2 |->
                Block(SubSeq(code, before(b) + 1, before(b) + dl(b)), spec.ecc)] \in Seq(Blocks)
<1> DEFINE spec == EccSpec(v, l)
           dl(b) == IF b <= spec.blocks1 THEN spec.data1 ELSE spec.data2
           before(b) == spec.data1 * (b - 1) + IF b > spec.blocks1 THEN b - 1 - spec.blocks1 ELSE 0
<1>1. Fits(v, l)
  BY TableFits DEF Level
<1>2. PICK total \in Nat \ {0}, b1 \in Nat \ {0}, b2 \in Nat, e \in Nat :
        /\ total = DataLength(v, l) /\ b1 = EccTable[v][l + 1][1] /\ b2 = EccTable[v][l + 1][2]
        /\ e = ECCLength(v, l) /\ total % (b1 + b2) = b2 /\ e >= b1 + b2
  BY <1>1, Zenon DEF Fits
<1>3. PICK n \in Nat \ {0} : n = b1 + b2
  OBVIOUS
<1>4. PICK d \in Nat : d = total \div n
  <2>1. total \div n >= 0 /\ total \div n \in Int
    OBVIOUS
  <2> QED BY <2>1
<1>5. PICK r \in Nat \ {0} : r = e \div n
  <2>1. e \div n >= 1
    <3>1. e >= 1 * n
      BY <1>2, <1>3
    <3> QED BY <3>1, AtLeast
  <2>2. e \div n \in Int
    OBVIOUS
  <2> QED BY <2>1, <2>2
<1>6. /\ spec.blocks1 = b1 /\ spec.blocks2 = b2 /\ spec.data1 = d /\ spec.data2 = d + 1 /\ spec.ecc = r
  BY <1>2, <1>3, <1>4, <1>5 DEF EccSpec
<1> HIDE DEF spec
<1>7. ASSUME NEW b \in 1..n PROVE Block(SubSeq(code, before(b) + 1, before(b) + dl(b)), r) \in Blocks
  <2>1. PICK size \in Nat : size = dl(b) /\ size = IF b <= b1 THEN d ELSE d + 1
    <3>1. dl(b) = IF b <= b1 THEN d ELSE d + 1
      BY <1>6, Zenon
    <3>2. (IF b <= b1 THEN d ELSE d + 1) \in Nat
      OBVIOUS
    <3> QED BY <3>1, <3>2, Zenon
  <2>2. PICK start \in Nat : start = before(b) /\ start = d * (b - 1) + IF b > b1 THEN b - 1 - b1 ELSE 0
    <3>1. before(b) = d * (b - 1) + IF b > b1 THEN b - 1 - b1 ELSE 0
      BY <1>6, Zenon
    <3>2. PICK c \in Nat : c = b - 1
      OBVIOUS
    <3>3. d * c \in Nat
      OBVIOUS
    <3>4. (d * (b - 1) + IF b > b1 THEN b - 1 - b1 ELSE 0) \in Nat
      BY <3>2, <3>3
    <3> QED BY <3>1, <3>4, Zenon
  <2>3. start + size <= total
    <3>1. Shared(total, b1, b2, d) /\ b \in 1..b1 + b2
      BY <1>2, <1>3, <1>4, Zenon DEF Shared
    <3>2. Placed(start, size, b, b1, d)
      BY <2>1, <2>2, Zenon DEF Placed
    <3> QED BY <3>1, <3>2, BlockBounds, Zenon
  <2>4. PICK k \in Nat, m \in Nat : k = start + 1 /\ m = start + size /\ m <= total
    BY <2>3
  <2>5. SubSeq(code, k, m) \in Seq(Field)
    <3>1. \A i \in k..m : code[i] \in Field
      BY <1>2, <2>4
    <3>2. k \in 1..m + 1
      BY <2>4
    <3> QED BY <3>1, <3>2, SubSeqProperties
  <2>6. SubSeq(code, before(b) + 1, before(b) + dl(b)) \in Seq(Field)
    BY <2>1, <2>2, <2>4, <2>5, Zenon
  <2> HIDE DEF before, dl
  <2> QED BY <2>6, NewBlock
<1>8. [b \in 1..n |-> Block(SubSeq(code, before(b) + 1, before(b) + dl(b)), r)] \in Seq(Blocks)
  <2> DEFINE all(b) == Block(SubSeq(code, before(b) + 1, before(b) + dl(b)), r)
  <2>1. \A b \in 1..n : all(b) \in Blocks
    BY <1>7, Zenon
  <2> HIDE DEF all
  <2>2. [b \in 1..n |-> all(b)] \in Seq(Blocks)
    BY <2>1
  <2> QED BY <2>2 DEF all
<1>9. [b \in 1..spec.blocks1 + spec.blocks2 |-> Block(SubSeq(code, before(b) + 1, before(b) + dl(b)), spec.ecc)] \in Seq(Blocks)
  BY <1>3, <1>6, <1>8, Zenon
<1> QED BY <1>9, Zenon DEF spec

(* The calls to come are calls, and so are those a text, parts or lists are left of. *)
ScriptPart == script \in Seq(Range(script)) /\ \A i \in DOMAIN script : CallOK(script[i])
RestPart ==
  /\ stage = "split" => rest \in Seq(Nat) /\ call.kanji \in BOOLEAN /\ (call.structured => input.version >= 1)
  /\ stage = "parts" => PartsOK(rest)
  /\ stage = "inputs" => /\ rest \in Seq(Range(rest)) /\ \A i \in DOMAIN rest : PartsOK(rest[i])
                         /\ NewInput(call.version, call.level, FALSE) \in Inputs

(* While a call is at work its inputs hold segments, and a full symbol has a version
   by the time its bits are cut or padded. *)
TypedPart ==
  /\ ~Idle => input \in Inputs /\ struct \in Seq(Inputs)
  /\ at \in Nat \ {0} /\ used \in Int
  /\ stage = "cut" => input.version >= 1
  /\ stage = "write" => ~input.mqr
  /\ stage = "pad" => bits \in Bitstream /\ (input.mqr \/ input.version >= 1)

(* The blocks are words of the code as far as they are fed, and they all are when
   the frame comes. *)
BlockPart ==
  /\ rslist \subseteq Generators
  /\ stage \in {"check", "frame"} => blocks \in Seq(Blocks)
  /\ stage = "frame" => \A b \in DOMAIN blocks : blocks[b].fed = Len(blocks[b].data)

FeedInv == ScriptPart /\ RestPart /\ TypedPart /\ BlockPart

(* What a call that begins goes on with. *)
Continues(next, left, new, c) ==
  /\ next \in {"split", "cut", "merge", "parts", "inputs", "done"}
  /\ next # "done" => new \in Inputs
  /\ next = "split" => left \in Seq(Nat) /\ c.kanji \in BOOLEAN /\ (c.structured => new.version >= 1)
  /\ next = "cut" => new.version >= 1
  /\ next = "parts" => PartsOK(left)
  /\ next = "inputs" => /\ left \in Seq(Range(left)) /\ \A i \in DOMAIN left : PartsOK(left[i])
                        /\ NewInput(c.version, c.level, FALSE) \in Inputs

LEMMA CallBegins ==
  ASSUME FeedInv, NEW op, NEW valid, NEW next, NEW left, NEW new,
         Begin(op, valid, next, left, new), valid => Continues(next, left, new, Head(script)),
         rslist' \subseteq rslist
  PROVE  FeedInv'
<1>1. /\ script # <<>> /\ script' = Tail(script) /\ call' = Head(script) /\ struct' = <<>> /\ at' = 1 /\ used' = 0
      /\ rest' = left /\ input' = new
      /\ \/ valid /\ stage' = next
         \/ ~valid /\ stage' = "failed"
  BY Zenon DEF Begin
<1>2. ScriptPart'
  <2>1. script \in Seq(Range(script)) /\ \A i \in DOMAIN script : CallOK(script[i])
    BY Zenon DEF FeedInv, ScriptPart
  <2>2. /\ Tail(script) \in Seq(Range(Tail(script)))
        /\ \A i \in DOMAIN Tail(script) : i + 1 \in DOMAIN script /\ Tail(script)[i] = script[i + 1]
    BY <1>1, <2>1, TailOfList, Zenon
  <2>3. \A i \in DOMAIN Tail(script) : CallOK(Tail(script)[i])
    BY <2>1, <2>2, Zenon
  <2> QED BY <1>1, <2>2, <2>3, Zenon DEF ScriptPart
<1>3. rslist' \subseteq Generators
  BY DEF FeedInv, BlockPart
<1>4. struct' \in Seq(Inputs) /\ at' \in Nat \ {0} /\ used' \in Int
  BY <1>1
<1>5. CASE ~valid
  <2>1. stage' = "failed"
    BY <1>1, <1>5
  <2> QED BY <1>2, <1>3, <1>4, <2>1 DEF FeedInv, RestPart, TypedPart, BlockPart, Idle
<1>6. CASE valid
  <2>1. stage' = next /\ Continues(next, left, new, Head(script))
    BY <1>1, <1>6
  <2>2. RestPart'
    BY <1>1, <2>1, Zenon DEF RestPart, Continues
  <2>3. stage' \notin {"write", "pad", "check", "frame"} /\ (~Idle' => input' \in Inputs) /\ (stage' = "cut" => input'.version >= 1)
    BY <1>1, <2>1 DEF Continues, Idle
  <2>4. TypedPart' /\ BlockPart'
    BY <1>3, <1>4, <2>3 DEF TypedPart, BlockPart
  <2> QED BY <1>2, <2>2, <2>4 DEF FeedInv
<1> QED BY <1>5, <1>6

(* What the next call of the script is. *)
LEMMA CallAsked ==
  ASSUME FeedInv, script # <<>>
  PROVE  CallOK(Head(script))
<1>1. script \in Seq(Range(script)) /\ \A i \in DOMAIN script : CallOK(script[i])
  BY Zenon DEF FeedInv, ScriptPart
<1>2. 1 \in DOMAIN script /\ Head(script) = script[1]
  BY <1>1, TailOfList, Zenon
<1> QED BY <1>1, <1>2, Zenon

LEMMA CallsBegin ==
  ASSUME FeedInv, QRcode_encodeString \/ QRcode_encodeData \/ MakeInput \/ MakeStruct \/ ClearCache \/ AskFrame
  PROVE  FeedInv'
<1> DEFINE c == Head(script)
<1>0. script # <<>>
  BY Zenon DEF QRcode_encodeString, QRcode_encodeData, MakeInput, MakeStruct, ClearCache, AskFrame, Begin
<1>00. CallOK(c)
  BY <1>0, CallAsked, Zenon
<1>1. CASE QRcode_encodeString
  <2> DEFINE valid == /\ c.text # <<>>
                      /\ ValidInput(c.version, c.level, c.mqr)
                      /\ c.structured => c.version > 0
             left == IF c.casesensitive THEN c.text ELSE DupAndToUpper(c.text, c.kanji)
             new == NewInput(c.version, c.level, c.mqr)
  <2>1. Begin("string", valid, "split", left, new) /\ UNCHANGED cacheVars
    BY <1>1, Zenon DEF QRcode_encodeString
  <2>2. c.op = "string"
    BY <2>1, Zenon DEF Begin
  <2>3. /\ c.version \in Int /\ c.level \in Level /\ c.mqr \in BOOLEAN /\ c.structured \in BOOLEAN
        /\ c.text \in Seq(Byte) /\ c.kanji \in BOOLEAN /\ c.casesensitive \in BOOLEAN
    BY <1>00, <2>2 DEF CallOK
  <2>4. left \in Seq(Nat)
    <3>1. c.text \in Seq(Nat)
      BY <2>3, BytesAreNumbers, Zenon
    <3>2. DupAndToUpper(c.text, c.kanji) \in Seq(Nat)
      BY <2>3, <3>1, CapitalsAreText, Zenon
    <3> QED BY <3>1, <3>2, Zenon
  <2>5. new.version = c.version
    BY DEF NewInput
  <2>6. valid => Continues("split", left, new, c)
    <3> HAVE valid
    <3>1. new \in Inputs
      BY <2>3, NewIsInput, Zenon
    <3>2. c.structured => new.version >= 1
      BY <2>3, <2>5
    <3> HIDE DEF left, new
    <3> QED BY <2>3, <2>4, <3>1, <3>2 DEF Continues
  <2>8. rslist' \subseteq rslist
    BY <2>1 DEF cacheVars
  <2> HIDE DEF valid, left, new
  <2> QED BY <2>1, <2>6, <2>8, CallBegins, Zenon
<1>2. CASE QRcode_encodeData
  <2> DEFINE valid == /\ c.text # <<>>
                      /\ ValidInput(c.version, c.level, c.mqr)
                      /\ c.structured => c.version > 0
             next == IF c.structured THEN "cut" ELSE "merge"
             new == [NewInput(c.version, c.level, c.mqr) EXCEPT !.entries = <<Entry("8", c.text)>>]
  <2>1. Begin("data", valid, next, <<>>, new) /\ UNCHANGED cacheVars
    BY <1>2, Zenon DEF QRcode_encodeData
  <2>2. c.op = "data"
    BY <2>1, Zenon DEF Begin
  <2>3. /\ c.version \in Int /\ c.level \in Level /\ c.mqr \in BOOLEAN /\ c.structured \in BOOLEAN
        /\ c.text \in Seq(Byte)
    BY <1>00, <2>2 DEF CallOK
  <2>4. valid => Continues(next, <<>>, new, c)
    <3> HAVE valid
    <3>1. NewInput(c.version, c.level, c.mqr) \in Inputs
      BY <2>3, NewIsInput, Zenon
    <3>2. Entry("8", c.text) \in Segments
      <4>1. c.text \in Seq(Int)
        BY <2>3, BytesAreNumbers, Zenon
      <4>2. Acceptable("8", c.text) /\ "8" \in SplittableMode
        BY DEF Acceptable, SplittableMode
      <4> QED BY <4>1, <4>2, EntryIsSegment, Zenon
    <3>3. <<Entry("8", c.text)>> \in Seq(Segments)
      BY <3>2
    <3>4. new \in Inputs
      BY <3>1, <3>3, EntriesChanged, Zenon
    <3>5. new.version = c.version
      BY DEF NewInput
    <3>6. c.structured => new.version >= 1
      BY <2>3, <3>5
    <3> HIDE DEF new
    <3> QED BY <2>3, <3>4, <3>6 DEF Continues
  <2>6. rslist' \subseteq rslist
    BY <2>1 DEF cacheVars
  <2> HIDE DEF valid, next, new
  <2> QED BY <2>1, <2>4, <2>6, CallBegins, Zenon
<1>3. CASE MakeInput
  <2> DEFINE valid == ValidInput(c.version, c.level, c.mqr)
             new == NewInput(c.version, c.level, c.mqr)
  <2>1. Begin("input", valid, "parts", c.parts, new) /\ UNCHANGED cacheVars
    BY <1>3, Zenon DEF MakeInput
  <2>2. c.op = "input"
    BY <2>1, Zenon DEF Begin
  <2>3. c.version \in Int /\ c.level \in Level /\ c.mqr \in BOOLEAN /\ PartsOK(c.parts)
    BY <1>00, <2>2 DEF CallOK
  <2>4. valid => Continues("parts", c.parts, new, c)
    <3> HAVE valid
    <3>1. new \in Inputs
      BY <2>3, NewIsInput, Zenon
    <3> HIDE DEF new
    <3> QED BY <2>3, <3>1 DEF Continues
  <2>6. rslist' \subseteq rslist
    BY <2>1 DEF cacheVars
  <2> HIDE DEF valid, new
  <2> QED BY <2>1, <2>4, <2>6, CallBegins, Zenon
<1>4. CASE MakeStruct
  <2> DEFINE valid == ValidInput(c.version, c.level, FALSE)
             new == NewInput(c.version, c.level, FALSE)
  <2>1. Begin("set", valid, "inputs", c.inputs, new) /\ UNCHANGED cacheVars
    BY <1>4, Zenon DEF MakeStruct
  <2>2. c.op = "set"
    BY <2>1, Zenon DEF Begin
  <2>3. /\ c.version \in Int /\ c.level \in Level
        /\ c.inputs \in Seq(Range(c.inputs)) /\ \A i \in DOMAIN c.inputs : PartsOK(c.inputs[i])
    BY <1>00, <2>2, Zenon DEF CallOK
  <2>4. valid => Continues("inputs", c.inputs, new, c)
    <3> HAVE valid
    <3>1. new \in Inputs
      <4>1. FALSE \in BOOLEAN
        OBVIOUS
      <4> QED BY <2>3, <4>1, NewIsInput, Zenon
    <3>2. new = NewInput(c.version, c.level, FALSE)
      OBVIOUS
    <3> HIDE DEF new
    <3> QED BY <2>3, <3>1, <3>2 DEF Continues
  <2>6. rslist' \subseteq rslist
    BY <2>1 DEF cacheVars
  <2> HIDE DEF valid, new
  <2> QED BY <2>1, <2>4, <2>6, CallBegins, Zenon
<1>5. CASE ClearCache
  <2>1. Begin("clear", TRUE, "done", <<>>, NewInput(0, 0, FALSE)) /\ rslist' \subseteq rslist
    BY <1>5 DEF ClearCache
  <2>2. Continues("done", <<>>, NewInput(0, 0, FALSE), c)
    BY DEF Continues
  <2> QED BY <2>1, <2>2, CallBegins, Zenon
<1>6. CASE AskFrame
  <2>1. script' = Tail(script) /\ stage' = "done" /\ UNCHANGED <<at, used, rslist>>
    BY <1>6 DEF AskFrame, inputVars
  <2>2. ScriptPart'
    <3>1. script \in Seq(Range(script)) /\ \A i \in DOMAIN script : CallOK(script[i])
      BY Zenon DEF FeedInv, ScriptPart
    <3>2. /\ Tail(script) \in Seq(Range(Tail(script)))
          /\ \A i \in DOMAIN Tail(script) : i + 1 \in DOMAIN script /\ Tail(script)[i] = script[i + 1]
      BY <1>0, <3>1, TailOfList, Zenon
    <3>3. \A i \in DOMAIN Tail(script) : CallOK(Tail(script)[i])
      BY <3>1, <3>2, Zenon
    <3> QED BY <2>1, <3>2, <3>3, Zenon DEF ScriptPart
  <2>3. RestPart'
    BY <2>1 DEF RestPart
  <2>4. TypedPart' /\ BlockPart'
    BY <2>1 DEF FeedInv, TypedPart, BlockPart, Idle
  <2> QED BY <2>2, <2>3, <2>4 DEF FeedInv
<1> QED BY <1>1, <1>2, <1>3, <1>4, <1>5, <1>6, Zenon

LEMMA CallStops ==
  ASSUME FeedInv, stage' \in {"failed", "done"}, UNCHANGED <<script, at, used, rslist>>
  PROVE  FeedInv'
<1>1. ScriptPart'
  BY DEF FeedInv, ScriptPart
<1>2. RestPart'
  BY DEF RestPart
<1>3. TypedPart'
  BY DEF FeedInv, TypedPart, Idle
<1>4. BlockPart'
  BY DEF FeedInv, BlockPart
<1> QED BY <1>1, <1>2, <1>3, <1>4 DEF FeedInv

LEMMA CallGoesOn ==
  ASSUME FeedInv, stage' \in {"split", "parts", "inputs", "cut", "merge", "write"}, RestPart',
         input' \in Inputs, struct' \in Seq(Inputs), at' \in Nat \ {0}, used' \in Int,
         stage' = "cut" => input'.version >= 1, stage' = "write" => ~input'.mqr, UNCHANGED <<script, rslist>>
  PROVE  FeedInv'
<1>1. ScriptPart'
  BY DEF FeedInv, ScriptPart
<1>3. TypedPart'
  BY DEF FeedInv, TypedPart, Idle
<1>4. BlockPart'
  BY DEF FeedInv, BlockPart
<1> QED BY <1>1, <1>3, <1>4 DEF FeedInv

(* A set begins with inputs. *)
LEMMA SetBegins ==
  ASSUME FeedInv, NEW inputs \in Seq(Inputs), BeginSet(inputs, Parity(inputs)),
         input \in Inputs, struct \in Seq(Inputs), UNCHANGED <<script, at, used, rslist>>
  PROVE  FeedInv'
<1> DEFINE all == WithHeaders(inputs, Parity(inputs))
<1>1. \/ stage' = "failed"
      \/ inputs # <<>> /\ stage' = "merge" /\ input' = Head(all) /\ struct' = Tail(all)
  <2>1. CASE inputs = <<>>
    BY <2>1, Zenon DEF BeginSet, Fail
  <2>2. CASE inputs # <<>> /\ Len(inputs) > MaxStructuredSymbols
    BY <2>2, Zenon DEF BeginSet, Fail
  <2>3. CASE inputs # <<>> /\ ~(Len(inputs) > MaxStructuredSymbols)
    BY <2>3, Zenon DEF BeginSet
  <2> QED BY <2>1, <2>2, <2>3, Zenon
<1>2. CASE stage' = "failed"
  BY <1>2, CallStops
<1>3. CASE inputs # <<>> /\ stage' = "merge" /\ input' = Head(all) /\ struct' = Tail(all)
  <2>1. Head(all) \in Inputs /\ Tail(all) \in Seq(Inputs)
    BY <1>3, SetIsInputs, Zenon
  <2>2. input' \in Inputs /\ struct' \in Seq(Inputs)
    BY <1>3, <2>1, Zenon
  <2>3. RestPart'
    BY <1>3 DEF RestPart
  <2>4. at' \in Nat \ {0} /\ used' \in Int
    BY DEF FeedInv, TypedPart
  <2> HIDE DEF all
  <2> QED BY <1>3, <2>2, <2>3, <2>4, CallGoesOn
<1> QED BY <1>1, <1>2, <1>3, Zenon

LEMMA AtWork ==
  ASSUME FeedInv, stage \notin {"idle", "done", "failed"}
  PROVE  input \in Inputs /\ struct \in Seq(Inputs) /\ at \in Nat \ {0} /\ used \in Int
BY DEF FeedInv, TypedPart, Idle

LEMMA TextIsSplit ==
  ASSUME FeedInv, SplitString
  PROVE  FeedInv'
<1> DEFINE s == Eat(rest, call.kanji, input.version)
           data == SubSeq(rest, 1, s.size)
<1>1. /\ stage = "split"
      /\ IF rest = <<>>
         THEN stage' = (IF call.structured THEN "cut" ELSE "merge") /\ UNCHANGED <<errno, rest, input>>
         ELSE IF Acceptable(s.mode, data)
         THEN /\ rest' = SubSeq(rest, s.size + 1, Len(rest))
              /\ input' = [input EXCEPT !.entries = Append(@, Entry(s.mode, data))]
              /\ UNCHANGED <<stage, errno>>
         ELSE Fail(EINVAL) /\ UNCHANGED <<rest, input>>
      /\ UNCHANGED <<script, call, at, used, struct, rslist>>
  BY Zenon DEF SplitString, cacheVars
<1>2. /\ rest \in Seq(Nat) /\ call.kanji \in BOOLEAN /\ (call.structured => input.version >= 1)
  BY <1>1 DEF FeedInv, RestPart
<1>3. input \in Inputs /\ struct \in Seq(Inputs) /\ at \in Nat \ {0} /\ used \in Int
  <2>1. stage \notin {"idle", "done", "failed"}
    BY <1>1
  <2> QED BY <2>1, AtWork, Zenon
<1>4. CASE rest = <<>>
  <2>1. stage' = (IF call.structured THEN "cut" ELSE "merge") /\ UNCHANGED <<errno, rest, input>>
    BY <1>1, <1>4, Zenon
  <2>2. RestPart' /\ stage' \in {"cut", "merge"} /\ (stage' = "cut" => input'.version >= 1)
    BY <1>2, <2>1 DEF RestPart
  <2> QED BY <1>1, <1>3, <2>1, <2>2, CallGoesOn
<1>5. CASE rest # <<>> /\ Acceptable(s.mode, data)
  <2>1. /\ rest' = SubSeq(rest, s.size + 1, Len(rest))
        /\ input' = [input EXCEPT !.entries = Append(@, Entry(s.mode, data))]
        /\ UNCHANGED <<stage, errno>>
    BY <1>1, <1>5, Zenon
  <2>2. input.version \in Nat /\ input.entries \in Seq(Segments)
    BY <1>3, InputFields, Zenon
  <2>3. s.mode \in SplittableMode /\ s.size \in 1..Len(rest)
    BY <1>2, <1>5, <2>2, SplitTakesWhatIsAcceptable, Zenon
  <2>4. PICK n \in Nat : n = s.size /\ n >= 1 /\ n <= Len(rest)
    <3>1. PICK n : n = s.size
      BY Zenon
    <3>2. n \in 1..Len(rest)
      BY <2>3, <3>1, Zenon
    <3>3. n \in Nat /\ n >= 1 /\ n <= Len(rest)
      BY <1>2, <3>2
    <3> QED BY <3>1, <3>3, Zenon
  <2>5. SubSeq(rest, 1, n) \in Seq(Int) /\ SubSeq(rest, n + 1, Len(rest)) \in Seq(Nat)
    BY <1>2, <2>4
  <2>6. data \in Seq(Int) /\ rest' \in Seq(Nat)
    BY <2>1, <2>4, <2>5, Zenon
  <2>7. Entry(s.mode, data) \in Segments
    BY <1>5, <2>3, <2>6, EntryIsSegment, Zenon
  <2>8. Append(input.entries, Entry(s.mode, data)) \in Seq(Segments)
    <3> HIDE DEF s, data
    <3> QED BY <2>2, <2>7
  <2>9. input' \in Inputs
    BY <1>3, <2>1, <2>8, EntriesChanged, Zenon
  <2>10. PICK fields : input \in [fields -> {input[x] : x \in fields}] /\ "version" \in fields
    <3>1. input \in [{"version", "level", "mqr", "fnc1", "appid", "entries"} -> {input[x] : x \in {"version", "level", "mqr", "fnc1", "appid", "entries"}}]
      BY <1>3 DEF Inputs
    <3> QED BY <3>1
  <2>11. input'.version = input.version
    <3>1. PICK b : b = Append(input.entries, Entry(s.mode, data))
      BY Zenon
    <3>2. input' = [input EXCEPT !.entries = b]
      BY <2>1, <3>1, Zenon
    <3> HIDE DEF s, data
    <3> QED BY <2>10, <3>2
  <2>12. RestPart' /\ stage' = "split"
    <3> HIDE DEF s, data
    <3> QED BY <1>1, <1>2, <2>1, <2>6, <2>11 DEF RestPart
  <2> HIDE DEF s, data
  <2> QED BY <1>1, <1>3, <2>9, <2>12, CallGoesOn
<1>6. CASE rest # <<>> /\ ~Acceptable(s.mode, data)
  <2>1. stage' = "failed"
    BY <1>1, <1>6, Zenon DEF Fail
  <2> QED BY <1>1, <2>1, CallStops
<1> QED BY <1>4, <1>5, <1>6, Zenon

LEMMA FieldsKept ==
  ASSUME NEW i \in Inputs, NEW entries, NEW f
  PROVE  /\ [i EXCEPT !.entries = entries].version = i.version /\ [i EXCEPT !.entries = entries].mqr = i.mqr
         /\ [i EXCEPT !.fnc1 = f].version = i.version /\ [i EXCEPT !.fnc1 = f].mqr = i.mqr
<1>1. i = [x \in {"version", "level", "mqr", "fnc1", "appid", "entries"} |-> i[x]]
  BY DEF Inputs
<1> QED BY <1>1

LEMMA PartIsAppended ==
  ASSUME FeedInv, AppendPart
  PROVE  FeedInv'
<1>1. /\ stage = "parts"
      /\ IF rest = <<>>
         THEN /\ IF ~call.structured THEN stage' = "merge" /\ UNCHANGED errno
                 ELSE IF input.mqr THEN Fail(EINVAL)
                 ELSE IF input.version = 0 THEN Fail(errno)
                 ELSE stage' = "cut" /\ UNCHANGED errno
              /\ input' = IF call.structured THEN [input EXCEPT !.fnc1 = 0] ELSE input
              /\ UNCHANGED rest
         ELSE \/ /\ input' \in With(input, Head(rest))
                 /\ rest' = Tail(rest)
                 /\ UNCHANGED <<stage, errno>>
              \/ With(input, Head(rest)) = {} /\ Fail(EINVAL) /\ UNCHANGED <<rest, input>>
      /\ UNCHANGED <<script, call, at, used, struct, rslist>>
  BY Zenon DEF AppendPart, cacheVars
<1>2. PartsOK(rest)
  BY <1>1 DEF FeedInv, RestPart
<1>3. input \in Inputs /\ struct \in Seq(Inputs) /\ at \in Nat \ {0} /\ used \in Int
  <2>1. stage \notin {"idle", "done", "failed"}
    BY <1>1
  <2> QED BY <2>1, AtWork, Zenon
<1>4. CASE rest = <<>>
  <2>1. \/ stage' = "failed"
        \/ stage' = "merge"
        \/ stage' = "cut" /\ ~input.mqr /\ input.version # 0
    BY <1>1, <1>4, Zenon DEF Fail
  <2>2. input' = IF call.structured THEN [input EXCEPT !.fnc1 = 0] ELSE input
    BY <1>1, <1>4, Zenon
  <2>3. CASE stage' = "failed"
    BY <1>1, <2>3, CallStops
  <2>4. CASE stage' = "merge" \/ (stage' = "cut" /\ ~input.mqr /\ input.version # 0)
    <3>1. 0 \in 0..2 /\ input.version \in 0..VersionMax
      <4>1. input.version \in 0..VersionMax
        BY <1>3, InputFields, Zenon
      <4> QED BY <4>1
    <3>2. [input EXCEPT !.fnc1 = 0] \in Inputs
      BY <1>3, <3>1, FirstChanged, Zenon
    <3>3. input' \in Inputs
      BY <1>3, <2>2, <3>2, Zenon
    <3>4. input'.version = input.version
      BY <1>3, <2>2, FieldsKept, Zenon
    <3>5. stage' = "cut" => input'.version >= 1
      BY <2>4, <3>1, <3>4 DEF VersionMax
    <3>6. RestPart'
      BY <2>4 DEF RestPart
    <3> QED BY <1>1, <1>3, <2>4, <3>3, <3>5, <3>6, CallGoesOn
  <2> QED BY <2>1, <2>3, <2>4, Zenon
<1>5. CASE rest # <<>> /\ input' \in With(input, Head(rest)) /\ rest' = Tail(rest) /\ UNCHANGED <<stage, errno>>
  <2>1. rest \in Seq(Range(rest)) /\ \A i \in DOMAIN rest : PartOK(rest[i])
    BY <1>2, Zenon DEF PartsOK
  <2>2. /\ Tail(rest) \in Seq(Range(Tail(rest))) /\ 1 \in DOMAIN rest /\ Head(rest) = rest[1]
        /\ \A i \in DOMAIN Tail(rest) : i + 1 \in DOMAIN rest /\ Tail(rest)[i] = rest[i + 1]
    BY <1>5, <2>1, TailOfList, Zenon
  <2>3. PartOK(Head(rest)) /\ PartsOK(Tail(rest))
    BY <2>1, <2>2, Zenon DEF PartsOK
  <2>4. input' \in Inputs
    BY <1>3, <1>5, <2>3, WithIsInput, Zenon
  <2>5. PartsOK(rest')
    BY <1>5, <2>3, Zenon
  <2>6. RestPart' /\ stage' = "parts"
    BY <1>1, <1>5, <2>5 DEF RestPart
  <2> QED BY <1>1, <1>3, <2>4, <2>6, CallGoesOn
<1>6. CASE rest # <<>> /\ Fail(EINVAL)
  <2>1. stage' = "failed"
    BY <1>6, Zenon DEF Fail
  <2> QED BY <1>1, <2>1, CallStops
<1> QED BY <1>1, <1>4, <1>5, <1>6, Zenon

LEMMA InputIsAppended ==
  ASSUME FeedInv, AppendInput
  PROVE  FeedInv'
<1> DEFINE new == NewInput(call.version, call.level, FALSE)
           made[k \in 0..Len(Head(rest))] ==
             IF k = 0 THEN {NewInput(call.version, call.level, FALSE)}
             ELSE UNION {With(i, Head(rest)[k]) : i \in made[k - 1]}
<1>1. /\ stage = "inputs"
      /\ IF rest = <<>> THEN BeginSet(struct, Parity(struct)) /\ UNCHANGED rest
         ELSE \/ /\ \E i \in made[Len(Head(rest))] : struct' = Append(struct, i)
                 /\ rest' = Tail(rest)
                 /\ UNCHANGED <<stage, errno, input>>
              \/ /\ made[Len(Head(rest))] = {}
                 /\ Fail(EINVAL) /\ UNCHANGED <<rest, input, struct>>
      /\ UNCHANGED <<script, call, at, used, rslist>>
  BY Zenon DEF AppendInput, cacheVars
<1>2. /\ rest \in Seq(Range(rest)) /\ (\A i \in DOMAIN rest : PartsOK(rest[i]))
      /\ new \in Inputs
  BY <1>1 DEF FeedInv, RestPart
<1>3. input \in Inputs /\ struct \in Seq(Inputs) /\ at \in Nat \ {0} /\ used \in Int
  <2>1. stage \notin {"idle", "done", "failed"}
    BY <1>1
  <2> QED BY <2>1, AtWork, Zenon
<1>4. CASE rest = <<>>
  <2>1. BeginSet(struct, Parity(struct))
    BY <1>1, <1>4, Zenon
  <2>2. UNCHANGED <<script, at, used, rslist>>
    BY <1>1
  <2> QED BY <1>3, <2>1, <2>2, SetBegins, Zenon
<1>5. CASE /\ rest # <<>>
           /\ \E i \in made[Len(Head(rest))] : struct' = Append(struct, i)
           /\ rest' = Tail(rest)
           /\ UNCHANGED <<stage, errno, input>>
  <2>1. /\ Tail(rest) \in Seq(Range(Tail(rest))) /\ 1 \in DOMAIN rest /\ Head(rest) = rest[1]
        /\ \A i \in DOMAIN Tail(rest) : i + 1 \in DOMAIN rest /\ Tail(rest)[i] = rest[i + 1]
    BY <1>2, <1>5, TailOfList, Zenon
  <2>2. PartsOK(Head(rest))
    BY <1>2, <2>1, Zenon
  <2>3. made[Len(Head(rest))] \subseteq Inputs
    <3>1. PICK f : Makes(f, Head(rest), new)
      BY <1>2, <2>2, MadeAreInputs, Zenon
    <3>2. f = [k \in 0..Len(Head(rest)) |-> IF k = 0 THEN {NewInput(call.version, call.level, FALSE)}
                                            ELSE UNION {With(i, Head(rest)[k]) : i \in f[k - 1]}]
      BY <3>1, Zenon DEF Makes
    <3>3. made = CHOOSE g : g = [k \in 0..Len(Head(rest)) |-> IF k = 0 THEN {NewInput(call.version, call.level, FALSE)}
                                            ELSE UNION {With(i, Head(rest)[k]) : i \in g[k - 1]}]
      BY Zenon DEF made
    <3>4. made = [k \in 0..Len(Head(rest)) |-> IF k = 0 THEN {NewInput(call.version, call.level, FALSE)}
                                            ELSE UNION {With(i, Head(rest)[k]) : i \in made[k - 1]}]
      BY <3>2, <3>3, Zenon
    <3>5. Makes(made, Head(rest), new)
      BY <3>4, Zenon DEF Makes
    <3> HIDE DEF made, new
    <3> QED BY <1>2, <2>2, <3>5, MadeAreInputs, Zenon
  <2>4. PICK i \in Inputs : struct' = Append(struct, i)
    <3> HIDE DEF made
    <3> QED BY <1>5, <2>3, Zenon
  <2>5. struct' \in Seq(Inputs)
    BY <1>3, <2>4
  <2>6. \A j \in DOMAIN rest' : PartsOK(rest'[j])
    BY <1>2, <1>5, <2>1, Zenon
  <2>7. rest' \in Seq(Range(rest'))
    BY <1>5, <2>1, Zenon
  <2>8. RestPart' /\ stage' = "inputs"
    <3>1. call' = call /\ stage' = "inputs" /\ stage = "inputs"
      BY <1>1, <1>5
    <3>2. NewInput(call'.version, call'.level, FALSE) \in Inputs
      BY <1>2, <3>1, Zenon
    <3> HIDE DEF made, new
    <3> QED BY <2>6, <2>7, <3>1, <3>2 DEF RestPart
  <2>9. input' \in Inputs /\ UNCHANGED <<script, at, used, rslist>>
    BY <1>1, <1>3, <1>5
  <2> HIDE DEF made, new
  <2> QED BY <1>3, <2>5, <2>8, <2>9, CallGoesOn
<1>6. CASE rest # <<>> /\ Fail(EINVAL)
  <2>1. stage' = "failed"
    BY <1>6, Zenon DEF Fail
  <2> QED BY <1>1, <2>1, CallStops
<1> HIDE DEF made
<1> QED BY <1>1, <1>4, <1>5, <1>6, Zenon

LEMMA EntriesAreCut ==
  ASSUME FeedInv, CutEntry \/ KeepEntry \/ EndCut
  PROVE  FeedInv'
<1>0. stage = "cut" /\ UNCHANGED <<script, call, rest, rslist>>
  BY DEF CutEntry, KeepEntry, EndCut, cacheVars, callVars
<1>1. input \in Inputs /\ struct \in Seq(Inputs) /\ at \in Nat \ {0} /\ used \in Int
  <2>1. stage \notin {"idle", "done", "failed"}
    BY <1>0
  <2> QED BY <2>1, AtWork, Zenon
<1>2. input.version >= 1
  BY <1>0 DEF FeedInv, TypedPart
<1>3. input.version \in 0..VersionMax /\ input.version \in Nat /\ input.level \in Level /\ input.entries \in Seq(Segments)
  BY <1>1, InputFields, Zenon
<1>4. input.version \in 1..VersionMax
  BY <1>2, <1>3 DEF VersionMax
<1>5. DataLength(input.version, input.level) \in Nat
  <2>1. input.level \in 0..3
    BY <1>3 DEF Level
  <2> QED BY <1>4, <2>1, TableFits, Zenon DEF Fits
<1> DEFINE e == input.entries[at]
           maxbits == 8 * DataLength(input.version, input.level) - StructureHeaderSize
<1>6. maxbits \in Int
  <2>1. PICK d \in Nat : d = DataLength(input.version, input.level)
    BY <1>5, Zenon
  <2>2. 8 * d - StructureHeaderSize \in Int
    BY DEF StructureHeaderSize
  <2> QED BY <2>1, <2>2, Zenon
<1>7. at <= Len(input.entries) => e \in Segments
  BY <1>1, <1>3
<1>8. CASE CutEntry
  <2> DEFINE bytes == LengthOfCode(e.mode, input.version, maxbits - used)
             tail == SubSeq(input.entries, at + 1, Len(input.entries))
             first == SubSeq(input.entries, 1, at - 1)
             part == IF bytes = 0 THEN <<>> ELSE <<Entry(e.mode, SubSeq(e.data, 1, bytes))>>
             left == <<Entry(e.mode, SubSeq(e.data, bytes + 1, Len(e.data)))>> \o tail
             new == NewInput(input.version, input.level, FALSE)
  <2>1. /\ at <= Len(input.entries)
        /\ IF bytes < Len(e.data)
           THEN /\ struct' = Append(struct, [input EXCEPT !.entries = SubSeq(@, 1, at - 1) \o part])
                /\ input' = [new EXCEPT !.entries = left]
                /\ at' = 1 /\ used' = 0
                /\ UNCHANGED <<stage, errno>>
           ELSE Fail(EINVAL) /\ UNCHANGED <<struct, input, at, used>>
    BY <1>8, Zenon DEF CutEntry
  <2>2. e \in Segments
    BY <1>7, <2>1, Zenon
  <2>3. e.mode \in SplittableMode \cup {"ECI", "STRUCTURE", "FNC1SECOND"} /\ e.data \in Seq(Int)
    <3> HIDE DEF e
    <3> QED BY <2>2 DEF Segments
  <2>4. maxbits - used \in Int
    <3> HIDE DEF maxbits
    <3> QED BY <1>1, <1>6
  <2>5. bytes \in Nat /\ (bytes # 0 => e.mode \in SplittableMode)
    <3> HIDE DEF e, maxbits
    <3> QED BY <1>3, <2>3, <2>4, LengthOfCodeType, Zenon
  <2>6. CASE bytes < Len(e.data)
    <3>1. /\ struct' = Append(struct, [input EXCEPT !.entries = first \o part])
          /\ input' = [new EXCEPT !.entries = left]
          /\ at' = 1 /\ used' = 0
          /\ UNCHANGED <<stage, errno>>
      BY <2>1, <2>6, Zenon
    <3>2. /\ Entry(e.mode, SubSeq(e.data, bytes + 1, Len(e.data))) \in Segments
          /\ bytes # 0 => Entry(e.mode, SubSeq(e.data, 1, bytes)) \in Segments
      <4> HIDE DEF e, bytes
      <4> QED BY <2>2, <2>5, <2>6, PiecesAreSegments, Zenon
    <3>3. first \in Seq(Segments) /\ tail \in Seq(Segments)
      BY <1>1, <1>3, <2>1, SMTT(40)
    <3>4. part \in Seq(Segments)
      <4>1. CASE bytes = 0
        <5> <<>> \in Seq(Segments)
          OBVIOUS
        <5> QED BY <4>1, Zenon
      <4>2. CASE bytes # 0
        <5>1. PICK x \in Segments : x = Entry(e.mode, SubSeq(e.data, 1, bytes))
          BY <3>2, <4>2, Zenon
        <5>2. << x >> \in Seq(Segments)
          BY <5>1
        <5> QED BY <4>2, <5>1, <5>2, Zenon
      <4> QED BY <4>1, <4>2, Zenon
    <3>5. left \in Seq(Segments)
      <4>1. PICK x \in Segments : x = Entry(e.mode, SubSeq(e.data, bytes + 1, Len(e.data)))
        BY <3>2, Zenon
      <4>2. << x >> \o tail \in Seq(Segments)
        <5> HIDE DEF tail
        <5> QED BY <3>3
      <4> HIDE DEF e, bytes, tail
      <4> QED BY <4>1, <4>2, Zenon
    <3>6. first \o part \in Seq(Segments)
      <4> HIDE DEF first, part
      <4> QED BY <3>3, <3>4
    <3>7. [input EXCEPT !.entries = first \o part] \in Inputs
      <4> HIDE DEF first, part
      <4> QED BY <1>1, <3>6, EntriesChanged, Zenon
    <3>8. struct' \in Seq(Inputs)
      <4>1. PICK x \in Inputs : x = [input EXCEPT !.entries = first \o part]
        BY <3>7, Zenon
      <4>2. Append(struct, x) \in Seq(Inputs)
        BY <1>1
      <4> HIDE DEF first, part
      <4> QED BY <3>1, <4>1, <4>2, Zenon
    <3>9. new \in Inputs
      <4>1. input.version \in Int /\ FALSE \in BOOLEAN
        BY <1>3
      <4>2. ValidInput(input.version, input.level, FALSE)
        BY <1>3 DEF ValidInput
      <4> QED BY <1>3, <4>1, <4>2, NewIsInput, Zenon
    <3>10. input' \in Inputs
      <4> HIDE DEF new, left
      <4> QED BY <3>1, <3>5, <3>9, EntriesChanged, Zenon
    <3>11. input'.version = input.version
      <4>1. new.version = input.version
        BY DEF NewInput
      <4> HIDE DEF new, left
      <4> QED BY <3>1, <3>9, <4>1, FieldsKept, Zenon
    <3>12. RestPart' /\ stage' = "cut"
      <4>1. stage' = "cut"
        BY <1>0, <3>1
      <4> QED BY <4>1 DEF RestPart
    <3>13. at' \in Nat \ {0} /\ used' \in Int
      BY <3>1
    <3>14. input'.version >= 1
      BY <1>2, <3>11, Zenon
    <3> HIDE DEF new, left, first, part, tail, bytes
    <3> QED BY <1>0, <3>8, <3>10, <3>12, <3>13, <3>14, CallGoesOn
  <2>7. CASE ~(bytes < Len(e.data))
    <3>1. stage' = "failed" /\ UNCHANGED <<at, used>>
      BY <2>1, <2>7, Zenon DEF Fail
    <3> QED BY <1>0, <3>1, CallStops
  <2> HIDE DEF bytes, e
  <2> QED BY <2>6, <2>7, Zenon
<1>9. CASE KeepEntry
  <2>1. /\ at <= Len(input.entries)
        /\ used' = used + Len(EncodeBitStream(e, input.version, FALSE))
        /\ at' = at + 1
        /\ UNCHANGED <<stage, input, struct>>
    BY <1>9, Zenon DEF KeepEntry
  <2>2. e \in Segments
    BY <1>7, <2>1, Zenon
  <2>3. EncodeBitStream(e, input.version, FALSE) \in Bitstream
    <3>1. FALSE \in BOOLEAN /\ (FALSE => input.version \in 1..4)
      OBVIOUS
    <3> HIDE DEF e
    <3> QED BY <1>3, <2>2, <3>1, SegmentInBits, Zenon
  <2>4. PICK m \in Nat : m = Len(EncodeBitStream(e, input.version, FALSE))
    <3>1. PICK x : x = EncodeBitStream(e, input.version, FALSE)
      BY Zenon
    <3>2. x \in Bitstream
      BY <2>3, <3>1, Zenon
    <3>3. Len(x) \in Nat
      BY <3>2 DEF Bitstream
    <3> QED BY <3>1, <3>3, Zenon
  <2>5. used' = used + m
    BY <2>1, <2>4, Zenon
  <2>6. used' \in Int /\ at' \in Nat \ {0}
    BY <1>1, <2>1, <2>5
  <2>7. RestPart' /\ stage' = "cut"
    BY <1>0, <2>1 DEF RestPart
  <2>8. input' \in Inputs /\ struct' \in Seq(Inputs) /\ input'.version >= 1
    BY <1>1, <1>2, <2>1, Zenon
  <2> QED BY <1>0, <2>6, <2>7, <2>8, CallGoesOn
<1>10. CASE EndCut
  <2> DEFINE inputs == Append(struct, input)
  <2>1. inputs \in Seq(Inputs)
    BY <1>1
  <2>2. BeginSet(inputs, Parity(inputs)) /\ UNCHANGED <<at, used>>
    BY <1>10, Zenon DEF EndCut
  <2>3. UNCHANGED <<script, at, used, rslist>>
    BY <1>0, <2>2
  <2> HIDE DEF inputs
  <2> QED BY <1>1, <2>1, <2>2, <2>3, SetBegins, Zenon
<1> QED BY <1>8, <1>9, <1>10, Zenon

LEMMA VersionSet ==
  ASSUME NEW i \in Inputs, NEW v
  PROVE  [i EXCEPT !.version = v].version = v /\ [i EXCEPT !.version = v].mqr = i.mqr
<1>1. i = [x \in {"version", "level", "mqr", "fnc1", "appid", "entries"} |-> i[x]]
  BY DEF Inputs
<1> QED BY <1>1

LEMMA EntriesAndVersion ==
  ASSUME NEW i \in Inputs, NEW entries, NEW v
  PROVE  [i EXCEPT !.entries = entries, !.version = v] = [[i EXCEPT !.entries = entries] EXCEPT !.version = v]
<1>1. i = [x \in {"version", "level", "mqr", "fnc1", "appid", "entries"} |-> i[x]]
  BY DEF Inputs
<1> QED BY <1>1

(* A larger version is one (qrinput.c:979-995). *)
LEMMA LargerVersion ==
  ASSUME NEW i \in Inputs, ~i.mqr, NEW v \in Versions \cup {-1}, NEW w, w = IF v > i.version THEN v ELSE i.version
  PROVE  /\ [i EXCEPT !.version = w] \in Inputs /\ ~[i EXCEPT !.version = w].mqr
         /\ v >= 1 => [i EXCEPT !.version = w].version >= 1
<1>1. i.version \in 0..VersionMax
  BY InputFields, Zenon
<1>2. w \in 0..VersionMax /\ (v >= 1 => w >= 1)
  BY <1>1 DEF Versions, VersionMax
<1> QED BY <1>2, VersionChanged, VersionSet, ZenonT(60)

LEMMA StreamIsMerged ==
  ASSUME FeedInv, MergeBitStream
  PROVE  FeedInv'
<1> DEFINE fnc1 == IF input.fnc1 = 2 THEN <<Entry("FNC1SECOND", <<input.appid>>)>> ELSE <<>>
           entries == fnc1 \o input.entries
           v == EstimateVersion(entries, input.level)
           w == IF v > input.version THEN v ELSE input.version
<1>0. /\ stage = "merge"
      /\ IF input.mqr
         THEN IF \A i \in DOMAIN input.entries : HasMode(input.entries[i].mode, input.version, TRUE)
              THEN bits' = CreateBitStream(input) /\ stage' = "pad" /\ UNCHANGED <<errno, input>>
              ELSE Fail(EINVAL) /\ UNCHANGED <<bits, input>>
         ELSE IF input.fnc1 = 1 THEN Fail(EINVAL) /\ UNCHANGED <<bits, input>>
         ELSE /\ input' = [input EXCEPT !.entries = entries, !.version = w]
              /\ stage' = "write"
              /\ UNCHANGED <<bits, errno>>
      /\ UNCHANGED <<script, call, rest, at, used, struct, rslist>>
  BY Zenon DEF MergeBitStream, cacheVars
<1>1. input \in Inputs /\ struct \in Seq(Inputs) /\ at \in Nat \ {0} /\ used \in Int
  <2>1. stage \notin {"idle", "done", "failed"}
    BY <1>0
  <2> QED BY <2>1, AtWork, Zenon
<1>2. input.appid \in Int /\ input.entries \in Seq(Segments)
  BY <1>1, InputFields, Zenon
<1>3. CASE stage' = "failed"
  BY <1>0, <1>3, CallStops
<1>4. CASE input.mqr /\ bits' = CreateBitStream(input) /\ stage' = "pad" /\ UNCHANGED <<errno, input>>
  <2>1. bits' \in Bitstream
    BY <1>1, <1>4, CreateInBits, Zenon
  <2>2. ScriptPart' /\ RestPart' /\ BlockPart'
    BY <1>0, <1>4 DEF FeedInv, ScriptPart, RestPart, BlockPart
  <2>3. TypedPart'
    BY <1>0, <1>1, <1>4, <2>1 DEF TypedPart
  <2> QED BY <2>2, <2>3 DEF FeedInv
<1>5. CASE ~input.mqr /\ stage' = "write" /\ input' = [input EXCEPT !.entries = entries, !.version = w]
  <2>1. fnc1 \in Seq(Segments)
    <3>1. PICK x \in Segments : x = Entry("FNC1SECOND", <<input.appid>>)
      BY <1>2, SecondIsSegment, Zenon
    <3>2. << x >> \in Seq(Segments) /\ <<>> \in Seq(Segments)
      BY <3>1
    <3> QED BY <3>1, <3>2, Zenon
  <2>2. entries \in Seq(Segments)
    <3> HIDE DEF fnc1
    <3> QED BY <1>2, <2>1
  <2>3. v \in Versions \cup {-1}
    BY EstimatingEnds, Zenon
  <2> DEFINE i == [input EXCEPT !.entries = entries]
  <2> HIDE DEF entries, v
  <2>4. i \in Inputs /\ i.version = input.version /\ i.mqr = input.mqr
    BY <1>1, <2>2, EntriesChanged, FieldsKept, Zenon
  <2>5. input' = [i EXCEPT !.version = w]
    BY <1>1, <1>5, EntriesAndVersion, Zenon
  <2>6. w = IF v > i.version THEN v ELSE i.version
    BY <2>4, Zenon
  <2> HIDE DEF i, w
  <2>7. input' \in Inputs /\ ~input'.mqr
    <3>1. ~i.mqr
      BY <1>5, <2>4, Zenon
    <3> QED BY <2>3, <2>4, <2>5, <2>6, <3>1, LargerVersion, Zenon
  <2>8. RestPart'
    BY <1>5 DEF RestPart
  <2> QED BY <1>0, <1>1, <1>5, <2>7, <2>8, CallGoesOn
<1> HIDE DEF entries, w
<1> QED BY <1>0, <1>3, <1>4, <1>5, Zenon DEF Fail

LEMMA DataIsConverted ==
  ASSUME FeedInv, ConvertData
  PROVE  FeedInv'
<1> DEFINE stream == CreateBitStream(input)
           v == MinimumVersion((Len(stream) + 7) \div 8, input.level)
           w == IF v > input.version THEN v ELSE input.version
<1>0. /\ stage = "write" /\ bits' = stream
      /\ IF v < 0 THEN Fail(ERANGE) /\ UNCHANGED input
         ELSE /\ stage' = IF v > input.version THEN "write" ELSE "pad"
              /\ input' = [input EXCEPT !.version = w]
              /\ UNCHANGED errno
      /\ UNCHANGED <<script, call, rest, at, used, struct, rslist>>
  BY Zenon DEF ConvertData, cacheVars
<1>1. input \in Inputs /\ struct \in Seq(Inputs) /\ at \in Nat \ {0} /\ used \in Int
  <2>1. stage \notin {"idle", "done", "failed"}
    BY <1>0
  <2> QED BY <2>1, AtWork, Zenon
<1>2. ~input.mqr
  BY <1>0 DEF FeedInv, TypedPart
<1>3. v \in Versions \cup {-1}
  BY MinimumVersionType, Zenon
<1>4. bits' \in Bitstream
  BY <1>0, <1>1, CreateInBits, Zenon
<1> HIDE DEF v
<1>5. CASE v < 0
  <2>1. stage' = "failed"
    BY <1>0, <1>5, Zenon DEF Fail
  <2> QED BY <1>0, <2>1, CallStops
<1>6. CASE ~(v < 0)
  <2>1. stage' = (IF v > input.version THEN "write" ELSE "pad") /\ input' = [input EXCEPT !.version = w]
    BY <1>0, <1>6, Zenon
  <2>2. v >= 1
    BY <1>3, <1>6 DEF Versions
  <2>3. w = IF v > input.version THEN v ELSE input.version
    OBVIOUS
  <2> HIDE DEF w
  <2>4. input' \in Inputs /\ ~input'.mqr /\ input'.version >= 1
    BY <1>1, <1>2, <1>3, <2>1, <2>2, <2>3, LargerVersion, Zenon
  <2>5. stage' \in {"write", "pad"}
    BY <2>1
  <2>6. ScriptPart' /\ RestPart' /\ BlockPart'
    BY <1>0, <2>5 DEF FeedInv, ScriptPart, RestPart, BlockPart
  <2>7. TypedPart'
    BY <1>0, <1>1, <1>4, <2>4, <2>5 DEF TypedPart
  <2> QED BY <2>6, <2>7 DEF FeedInv
<1> QED BY <1>5, <1>6, Zenon

LEMMA BlocksAreMade ==
  ASSUME FeedInv, InitBlocks
  PROVE  FeedInv'
<1> DEFINE v == input.version
           level == input.level
           spec == EccSpec(v, input.level)
           dl(b) == IF b <= spec.blocks1 THEN spec.data1 ELSE spec.data2
           before(b) == spec.data1 * (b - 1) + IF b > spec.blocks1 THEN b - 1 - spec.blocks1 ELSE 0
           capacity == IF input.mqr THEN MicroDataLengthBit(v, input.level) ELSE 8 * DataLength(v, input.level)
           padded == IF input.mqr THEN AppendPaddingBitMQR(bits, v, input.level)
                     ELSE AppendPaddingBit(bits, v, input.level)
           datacode == ToBytes(padded)
           cut == [b \in 1..spec.blocks1 + spec.blocks2 |->
                     Block(SubSeq(datacode, before(b) + 1, before(b) + dl(b)), spec.ecc)]
<1>0. /\ stage = "pad"
      /\ IF Len(bits) > capacity THEN Fail(ERANGE) /\ UNCHANGED <<bits, blocks>>
         ELSE /\ bits' = padded
              /\ blocks' = IF input.mqr THEN <<Block(datacode, MicroECCLength(v, input.level))>> ELSE cut
              /\ stage' = "check" /\ UNCHANGED errno
      /\ UNCHANGED <<script, call, rest, input, at, used, struct, rslist>>
  BY Zenon DEF InitBlocks, inputVars, cacheVars
<1>1. input \in Inputs /\ struct \in Seq(Inputs) /\ at \in Nat \ {0} /\ used \in Int
  <2>1. stage \notin {"idle", "done", "failed"}
    BY <1>0
  <2> QED BY <2>1, AtWork, Zenon
<1>2. bits \in Bitstream /\ (input.mqr \/ v >= 1)
  BY <1>0 DEF FeedInv, TypedPart
<1>3. /\ v \in 0..VersionMax /\ v \in Nat /\ level \in Level
      /\ input.mqr => v \in 1..MicroVersionMax /\ MicroECCLength(v, level) # 0
  BY <1>1, InputFields, Zenon
<1>4. CASE Len(bits) > capacity
  <2>1. stage' = "failed"
    BY <1>0, <1>4, Zenon DEF Fail
  <2> QED BY <1>0, <2>1, CallStops
<1>5. CASE ~(Len(bits) > capacity)
  <2>1. /\ blocks' = IF input.mqr THEN <<Block(datacode, MicroECCLength(v, input.level))>> ELSE cut
        /\ stage' = "check"
    BY <1>0, <1>5, Zenon
  <2>2. ASSUME input.mqr PROVE blocks' \in Seq(Blocks)
    <3>1. v \in 1..MicroVersionMax /\ MicroECCLength(v, level) # 0
      BY <1>3, <2>2, Zenon
    <3>2. MicroECCLength(v, level) \in Nat \ {0} /\ MicroDataLengthBit(v, level) \in Nat
      BY <1>3, <3>1, MicroTableFits, Zenon DEF MicroFits
    <3>3. padded = AppendPaddingBitMQR(bits, v, level)
      BY <2>2, Zenon
    <3>4. padded \in Bitstream
      <4> HIDE DEF padded, v, level
      <4> QED BY <1>2, <1>3, <3>2, <3>3, MicroPaddedInBits, Zenon
    <3>5. datacode \in Seq(Field)
      <4> HIDE DEF padded
      <4> QED BY <3>4, BytesInField, Zenon
    <3>6. PICK b \in Blocks : b = Block(datacode, MicroECCLength(v, level))
      <4> HIDE DEF datacode
      <4> QED BY <3>2, <3>5, NewBlock, Zenon
    <3>7. << b >> \in Seq(Blocks)
      BY <3>6
    <3>8. blocks' = << b >>
      BY <2>1, <2>2, <3>6, Zenon
    <3> QED BY <3>7, <3>8, Zenon
  <2>3. ASSUME ~input.mqr PROVE blocks' \in Seq(Blocks)
    <3>1. v \in 1..VersionMax
      BY <1>2, <1>3, <2>3
    <3>2. level \in 0..3
      BY <1>3 DEF Level
    <3>3. DataLength(v, level) \in Nat
      <4> HIDE DEF v, level
      <4> QED BY <3>1, <3>2, TableFits, Zenon DEF Fits
    <3>4. PICK d \in Nat : d = DataLength(v, level)
      BY <3>3, Zenon
    <3>5. padded = AppendPaddingBit(bits, v, level)
      BY <2>3, Zenon
    <3>6. padded \in Bitstream
      <4> HIDE DEF padded, v, level
      <4> QED BY <1>2, <1>3, <3>3, <3>5, PaddedInBits, Zenon
    <3>7. PICK n \in Nat : n = Len(bits) /\ Sized(bits, n)
      BY <1>2 DEF Sized, Bitstream
    <3>8. ~(n > 8 * d)
      <4>1. capacity = 8 * d
        BY <2>3, <3>4, Zenon
      <4> QED BY <1>5, <3>7, <4>1, Zenon
    <3>9. n <= 8 * d
      BY <3>8
    <3>10. Sized(padded, 8 * d)
      <4> HIDE DEF padded, v, level
      <4> QED BY <3>3, <3>4, <3>5, <3>7, <3>9, PaddedFillsSymbol, Zenon
    <3>11. datacode \in Seq(Field) /\ Len(datacode) = (Len(padded) + 7) \div 8
      <4> HIDE DEF padded
      <4> QED BY <3>6, BytesInField, Zenon
    <3>12. Len(datacode) = d
      <4>1. Len(padded) = 8 * d
        BY <3>10, Zenon DEF Sized
      <4>2. (8 * d + 7) \div 8 = d
        OBVIOUS
      <4> QED BY <3>11, <4>1, <4>2, Zenon
    <3>13. cut \in Seq(Blocks)
      <4>1. PICK code \in Seq(Field) : code = datacode /\ Len(code) = d
        BY <3>11, <3>12, Zenon
      <4>2. Len(code) = DataLength(v, level)
        BY <3>4, <4>1, Zenon
      <4>3. cut = [b \in 1..spec.blocks1 + spec.blocks2 |->
                     Block(SubSeq(code, before(b) + 1, before(b) + dl(b)), spec.ecc)]
        <5> HIDE DEF datacode
        <5> QED BY <4>1, Zenon
      <4>4. (LET spc == EccSpec(v, level)
                 len(b) == IF b <= spc.blocks1 THEN spc.data1 ELSE spc.data2
                 bef(b) == spc.data1 * (b - 1) + IF b > spc.blocks1 THEN b - 1 - spc.blocks1 ELSE 0
             IN  [b \in 1..spc.blocks1 + spc.blocks2 |->
                    Block(SubSeq(code, bef(b) + 1, bef(b) + len(b)), spc.ecc)]) \in Seq(Blocks)
        <5> HIDE DEF v, level
        <5> QED BY <1>3, <3>1, <4>2, CutIntoBlocks, Zenon
      <4> QED BY <4>3, <4>4, Zenon
    <3>14. blocks' = cut
      BY <2>1, <2>3, Zenon
    <3> HIDE DEF cut
    <3> QED BY <3>13, <3>14, Zenon
  <2>4. blocks' \in Seq(Blocks)
    BY <2>2, <2>3, Zenon
  <2>5. ScriptPart' /\ RestPart'
    BY <1>0, <2>1 DEF FeedInv, ScriptPart, RestPart
  <2>6. BlockPart'
    BY <1>0, <2>1, <2>4 DEF FeedInv, BlockPart
  <2>7. TypedPart'
    <3>1. stage' = "check" /\ UNCHANGED <<input, struct, at, used>>
      BY <1>0, <2>1
    <3> QED BY <1>1, <3>1 DEF TypedPart
  <2> QED BY <2>5, <2>6, <2>7 DEF FeedInv
<1> HIDE DEF capacity
<1> QED BY <1>4, <1>5, Zenon

(* The block at work is the first that is not done. *)
LEMMA FirstNotDone ==
  ASSUME NEW B, blocks \in Seq(B)
  PROVE  /\ Current \in 1..Len(blocks) + 1
         /\ \A b \in DOMAIN blocks : \/ b >= Current
                                     \/ ~(blocks[b].rs = NoRS \/ blocks[b].fed < 255 - blocks[b].rs.nroots - blocks[b].rs.pad)
         /\ Current \in DOMAIN blocks => \/ blocks[Current].rs = NoRS
                                         \/ blocks[Current].fed < 255 - blocks[Current].rs.nroots - blocks[Current].rs.pad
<1> DEFINE Waits(b) == blocks[b].rs = NoRS \/ blocks[b].fed < 255 - blocks[b].rs.nroots - blocks[b].rs.pad
           S == {b \in DOMAIN blocks : Waits(b)} \cup {Len(blocks) + 1}
           Least(v) == \A u \in S : v <= u
<1>1. Current = CHOOSE v \in S : Least(v)
  BY DEF Current, Min
<1> HIDE DEF Waits
<1>2. S \in SUBSET (1..Len(blocks) + 1) /\ S \in SUBSET Nat /\ S # {}
  OBVIOUS
<1> HIDE DEF S
<1>3. \E v \in S : Least(v)
  BY <1>2, LeastIn, Zenon
<1> HIDE DEF Least
<1>4. Current \in S /\ Least(Current)
  BY <1>1, <1>3, Zenon
<1>5. Current \in 1..Len(blocks) + 1
  BY <1>2, <1>4
<1>6. ASSUME NEW b \in DOMAIN blocks, ~(b >= Current) PROVE ~Waits(b)
  <2>1. b \notin S
    <3>1. b \in S => Current <= b
      BY <1>4, Zenon DEF Least
    <3> QED BY <1>5, <1>6, <3>1
  <2> QED BY <2>1 DEF S
<1>7. Current \in DOMAIN blocks => Waits(Current)
  <2>1. Current \in S
    BY <1>4
  <2> QED BY <1>5, <2>1 DEF S
<1> USE DEF Waits
<1> QED BY <1>5, <1>6, <1>7, Zenon

(* A block that has a generator is fed as many bytes as it has (rscode.c:301-304). *)
LEMMA BytesToFeed ==
  ASSUME NEW b \in Blocks, b.rs # NoRS
  PROVE  255 - b.rs.nroots - b.rs.pad = Len(b.data)
<1>1. /\ b.rs = [pad |-> 255 - Len(b.data) - Len(b.ecc), nroots |-> Len(b.ecc), genpoly |-> Genpoly(Len(b.ecc))]
      /\ Len(b.data) \in Nat /\ Len(b.ecc) \in Nat
  BY BlockFields, Zenon
<1>2. PICK m \in Nat, n \in Nat : m = Len(b.data) /\ n = Len(b.ecc)
  BY <1>1, Zenon
<1>3. b.rs.pad = 255 - m - n /\ b.rs.nroots = n
  BY <1>1, <1>2
<1>4. 255 - n - (255 - m - n) = m
  OBVIOUS
<1> QED BY <1>2, <1>3, <1>4, Zenon

LEMMA BlockChanged ==
  ASSUME NEW list \in Seq(Blocks), NEW k \in DOMAIN list, NEW b \in Blocks
  PROVE  [list EXCEPT ![k] = b] \in Seq(Blocks)
OBVIOUS

LEMMA GeneratorIsGiven ==
  ASSUME FeedInv, InitRS
  PROVE  FeedInv'
<1> DEFINE b == Current
           nroots == Len(blocks[b].ecc)
           pad == 255 - Len(blocks[b].data) - nroots
           kept == {r \in rslist : r.pad = pad /\ r.nroots = nroots}
           made == [pad |-> pad, nroots |-> nroots, genpoly |-> Genpoly(nroots)]
<1>0. /\ stage = "check" /\ b \in DOMAIN blocks /\ blocks[b].rs = NoRS
      /\ \E rs \in IF kept # {} THEN kept ELSE {made} :
           /\ blocks' = [blocks EXCEPT ![b].rs = rs]
           /\ rslist' = rslist \cup {rs}
      /\ UNCHANGED <<stage, script, call, rest, input, at, used, struct>>
  BY Zenon DEF InitRS, callVars, inputVars
<1>1. blocks \in Seq(Blocks) /\ rslist \subseteq Generators
  BY <1>0 DEF FeedInv, BlockPart
<1>2. PICK x \in Blocks : x = blocks[b]
  <2> HIDE DEF b
  <2> QED BY <1>0, <1>1
<1>3. made \in Generators /\ [x EXCEPT !.rs = made] \in Blocks
  <2>1. x.rs = NoRS
    BY <1>0, <1>2, Zenon
  <2>2. LET g == [pad |-> 255 - Len(x.data) - Len(x.ecc), nroots |-> Len(x.ecc), genpoly |-> Genpoly(Len(x.ecc))]
        IN  g \in Generators /\ [x EXCEPT !.rs = g] \in Blocks
    BY <2>1, BlockTakesGenerator, Zenon
  <2> HIDE DEF b
  <2> QED BY <1>2, <2>2, Zenon
<1>4. PICK rs \in IF kept # {} THEN kept ELSE {made} :
           /\ blocks' = [blocks EXCEPT ![b].rs = rs]
           /\ rslist' = rslist \cup {rs}
  BY <1>0, Zenon
<1>5. rs = made
  <2>1. CASE rs = made
    BY <2>1
  <2>2. CASE rs \in rslist /\ rs.pad = pad /\ rs.nroots = nroots
    <3>1. PICK p \in Int, n \in Nat : rs = [pad |-> p, nroots |-> n, genpoly |-> Genpoly(n)]
      <4>1. rs \in Generators
        BY <1>1, <2>2
      <4> QED BY <4>1 DEF Generators
    <3>2. rs.pad = p /\ rs.nroots = n
      BY <3>1
    <3>3. p = pad /\ n = nroots
      BY <2>2, <3>2, Zenon
    <3> HIDE DEF pad, nroots
    <3> QED BY <3>1, <3>3, Zenon
  <2> HIDE DEF made, pad, nroots
  <2> QED BY <1>4, <2>1, <2>2, Zenon
<1>6. PICK g \in Generators : g = made
  BY <1>3, Zenon
<1>7. [x EXCEPT !.rs = g] \in Blocks
  <2> HIDE DEF made
  <2> QED BY <1>3, <1>6, Zenon
<1>8. blocks' = [blocks EXCEPT ![b] = [x EXCEPT !.rs = g]] /\ rslist' = rslist \cup {g}
  <2>1. blocks' = [blocks EXCEPT ![b].rs = g] /\ rslist' = rslist \cup {g}
    <3> HIDE DEF b, made
    <3> QED BY <1>4, <1>5, <1>6, Zenon
  <2> HIDE DEF b
  <2> QED BY <1>2, <2>1, Zenon
<1>9. blocks' \in Seq(Blocks) /\ rslist' \subseteq Generators
  <2>1. PICK y \in Blocks : y = [x EXCEPT !.rs = g]
    BY <1>7, Zenon
  <2>2. [blocks EXCEPT ![b] = y] \in Seq(Blocks)
    <3> HIDE DEF b
    <3> QED BY <1>0, <1>1, BlockChanged, Zenon
  <2>3. rslist' \subseteq Generators
    BY <1>1, <1>8
  <2> HIDE DEF b
  <2> QED BY <1>8, <2>1, <2>2, <2>3, Zenon
<1>10. ScriptPart' /\ RestPart'
  BY <1>0 DEF FeedInv, ScriptPart, RestPart
<1>11. BlockPart'
  BY <1>0, <1>9 DEF FeedInv, BlockPart
<1>12. TypedPart'
  BY <1>0 DEF FeedInv, TypedPart, Idle
<1> QED BY <1>10, <1>11, <1>12 DEF FeedInv

LEMMA ByteIsFed ==
  ASSUME FeedInv, EncodeRS
  PROVE  FeedInv'
<1> DEFINE b == Current
           i == blocks[b].fed + 1
<1>0. /\ stage = "check"
      /\ IF b \notin DOMAIN blocks THEN stage' = "frame" /\ UNCHANGED blocks
         ELSE /\ blocks[b].rs # NoRS
              /\ blocks' = [blocks EXCEPT ![b].fed = i,
                                          ![b].ecc = Feed(@, blocks[b].rs.genpoly, blocks[b].data[i])]
              /\ UNCHANGED stage
      /\ UNCHANGED <<script, call, rest, input, at, used, struct, rslist>>
  BY Zenon DEF EncodeRS, callVars, inputVars, cacheVars
<1>1. blocks \in Seq(Blocks) /\ rslist \subseteq Generators
  BY <1>0 DEF FeedInv, BlockPart
<1>2. /\ Current \in 1..Len(blocks) + 1
      /\ \A k \in DOMAIN blocks : \/ k >= Current
                                  \/ ~(blocks[k].rs = NoRS \/ blocks[k].fed < 255 - blocks[k].rs.nroots - blocks[k].rs.pad)
      /\ Current \in DOMAIN blocks => \/ blocks[Current].rs = NoRS
                                      \/ blocks[Current].fed < 255 - blocks[Current].rs.nroots - blocks[Current].rs.pad
  BY <1>1, FirstNotDone, Zenon
<1>3. ScriptPart'
  BY <1>0 DEF FeedInv, ScriptPart
<1>4. stage' \in {"check", "frame"}
  BY <1>0
<1>5. RestPart' /\ TypedPart'
  BY <1>0, <1>4 DEF FeedInv, RestPart, TypedPart, Idle
<1>6. CASE b \notin DOMAIN blocks
  <2>1. stage' = "frame" /\ UNCHANGED blocks
    BY <1>0, <1>6, Zenon
  <2>2. ASSUME NEW k \in DOMAIN blocks PROVE blocks[k].fed = Len(blocks[k].data)
    <3>1. ~(k >= Current)
      BY <1>1, <1>2, <1>6
    <3>2. PICK x \in Blocks : x = blocks[k]
      BY <1>1
    <3>3. x.rs # NoRS /\ ~(x.fed < 255 - x.rs.nroots - x.rs.pad)
      BY <1>2, <2>2, <3>1, <3>2, Zenon
    <3>4. ~(x.fed < Len(x.data))
      BY <3>3, BytesToFeed, Zenon
    <3>5. x.fed \in Nat /\ Len(x.data) \in Nat /\ x.fed <= Len(x.data)
      BY BlockFields, Zenon
    <3>6. x.fed = Len(x.data)
      BY <3>4, <3>5
    <3> QED BY <3>2, <3>6, Zenon
  <2>3. BlockPart'
    BY <1>0, <1>1, <2>1, <2>2 DEF BlockPart
  <2> QED BY <1>3, <1>5, <2>3 DEF FeedInv
<1>7. CASE b \in DOMAIN blocks
  <2>1. /\ blocks[b].rs # NoRS
        /\ blocks' = [blocks EXCEPT ![b].fed = i,
                                    ![b].ecc = Feed(@, blocks[b].rs.genpoly, blocks[b].data[i])]
        /\ UNCHANGED stage
    BY <1>0, <1>7, Zenon
  <2>2. PICK x \in Blocks : x = blocks[b]
    <3> HIDE DEF b
    <3> QED BY <1>1, <1>7
  <2>3. x.rs # NoRS
    BY <2>1, <2>2, Zenon
  <2>4. x.fed < Len(x.data)
    <3>1. x.fed < 255 - x.rs.nroots - x.rs.pad
      <4>1. \/ blocks[b].rs = NoRS
            \/ blocks[b].fed < 255 - blocks[b].rs.nroots - blocks[b].rs.pad
        BY <1>2, <1>7, Zenon
      <4> QED BY <2>1, <2>2, <4>1, Zenon
    <3> QED BY <2>3, <3>1, BytesToFeed, Zenon
  <2>5. [x EXCEPT !.fed = x.fed + 1, !.ecc = Feed(x.ecc, x.rs.genpoly, x.data[x.fed + 1])] \in Blocks
    BY <2>3, <2>4, BlockIsFed, Zenon
  <2>6. PICK y \in Blocks : y = [x EXCEPT !.fed = x.fed + 1, !.ecc = Feed(x.ecc, x.rs.genpoly, x.data[x.fed + 1])]
    BY <2>5, Zenon
  <2>7. blocks' = [blocks EXCEPT ![b] = y]
    <3>1. PICK n : n = x.fed + 1
      BY Zenon
    <3>2. PICK e : e = Feed(x.ecc, x.rs.genpoly, x.data[n])
      BY Zenon
    <3>3. y = [x EXCEPT !.fed = n, !.ecc = e]
      BY <2>6, <3>1, <3>2, Zenon
    <3>4. blocks' = [blocks EXCEPT ![b].fed = n, ![b].ecc = e]
      BY <2>1, <2>2, <3>1, <3>2, Zenon
    <3> HIDE DEF b
    <3> QED BY <1>1, <1>7, <2>2, <3>3, <3>4
  <2>8. blocks' \in Seq(Blocks)
    <3>1. [blocks EXCEPT ![b] = y] \in Seq(Blocks)
      <4> HIDE DEF b
      <4> QED BY <1>1, <1>7, BlockChanged, Zenon
    <3> HIDE DEF b
    <3> QED BY <2>7, <3>1, Zenon
  <2>9. BlockPart'
    BY <1>0, <1>1, <2>1, <2>8 DEF BlockPart
  <2> QED BY <1>3, <1>5, <2>9 DEF FeedInv
<1> HIDE DEF b
<1> QED BY <1>6, <1>7, Zenon

LEMMA SymbolsAreMade ==
  ASSUME FeedInv, StartFilling \/ PlaceCode \/ ApplyMask \/ KeepBest
  PROVE  FeedInv'
<1>1. /\ ~Idle /\ UNCHANGED <<script, rest, input, at, used, struct, rslist>>
      /\ stage' \in {"fill", "mask", "failed", "weigh", "made"}
  BY DEF StartFilling, PlaceCode, ApplyMask, KeepBest, callVars, inputVars, cacheVars, Idle, Fail
<1>2. ScriptPart'
  BY <1>1 DEF FeedInv, ScriptPart
<1>3. RestPart'
  BY <1>1 DEF RestPart
<1>4. TypedPart'
  BY <1>1 DEF FeedInv, TypedPart, Idle
<1>5. BlockPart'
  BY <1>1 DEF FeedInv, BlockPart
<1> QED BY <1>2, <1>3, <1>4, <1>5 DEF FeedInv

LEMMA SymbolIsDelivered ==
  ASSUME FeedInv, Deliver
  PROVE  FeedInv'
<1>0. /\ stage = "made"
      /\ IF symbol = NoFrame THEN Fail(errno) /\ codes' = <<>> /\ UNCHANGED <<input, struct>>
         ELSE /\ codes' = Append(codes, symbol)
              /\ IF struct = <<>> THEN stage' = "done" /\ UNCHANGED <<input, struct>>
                 ELSE stage' = "merge" /\ input' = Head(struct) /\ struct' = Tail(struct)
              /\ UNCHANGED errno
      /\ UNCHANGED <<script, call, rest, at, used, rslist>>
  BY Zenon DEF Deliver, cacheVars
<1>1. input \in Inputs /\ struct \in Seq(Inputs) /\ at \in Nat \ {0} /\ used \in Int
  <2>1. stage \notin {"idle", "done", "failed"}
    BY <1>0
  <2> QED BY <2>1, AtWork, Zenon
<1>2. \/ stage' \in {"done", "failed"}
      \/ struct # <<>> /\ stage' = "merge" /\ input' = Head(struct) /\ struct' = Tail(struct)
  BY <1>0 DEF Fail
<1>3. CASE stage' \in {"done", "failed"}
  BY <1>0, <1>3, CallStops
<1>4. CASE struct # <<>> /\ stage' = "merge" /\ input' = Head(struct) /\ struct' = Tail(struct)
  <2>1. input' \in Inputs /\ struct' \in Seq(Inputs)
    BY <1>1, <1>4
  <2>2. RestPart'
    BY <1>4 DEF RestPart
  <2> QED BY <1>0, <1>1, <1>4, <2>1, <2>2, CallGoesOn
<1> QED BY <1>2, <1>3, <1>4

(* A step of the library. *)
LEMMA LibraryFeeds ==
  ASSUME FeedInv, Next
  PROVE  FeedInv'
BY CallsBegin, TextIsSplit, PartIsAppended, InputIsAppended, EntriesAreCut, StreamIsMerged, DataIsConverted,
   BlocksAreMade, GeneratorIsGiven, ByteIsFed, SymbolsAreMade, SymbolIsDelivered, Zenon DEF Next

LEMMA FeedBegins == ToolInit => FeedInv
<1> SUFFICES ASSUME ToolInit PROVE FeedInv
  OBVIOUS
<1>1. /\ script \in Scripts /\ stage = "idle" /\ at = 1 /\ used = 0 /\ rslist = {}
  BY DEF ToolInit, Init
<1>2. ScriptPart
  BY <1>1, ScriptsAssumption, Zenon DEF ScriptPart
<1>3. RestPart
  BY <1>1 DEF RestPart
<1>4. TypedPart
  BY <1>1 DEF TypedPart, Idle
<1>5. BlockPart
  BY <1>1 DEF BlockPart
<1> QED BY <1>2, <1>3, <1>4, <1>5 DEF FeedInv

(* A program makes one call, as the library's types want it. *)
LEMMA OneCall ==
  ASSUME NEW c, CallOK(c), NEW s, s = << c >>
  PROVE  s \in Seq(Range(s)) /\ \A i \in DOMAIN s : CallOK(s[i])
<1>1. Range(s) = {c}
  BY DEF Range
<1>2. s \in Seq({c}) /\ \A i \in DOMAIN s : s[i] = c
  OBVIOUS
<1> QED BY <1>1, <1>2, Zenon

LEMMA CallAsBefore ==
  ASSUME FeedInv, stage = "idle", stage' = stage, UNCHANGED <<at, used, rslist>>, NEW c, CallOK(c), script' = << c >>
  PROVE  FeedInv'
<1>1. ScriptPart'
  BY OneCall, Zenon DEF ScriptPart
<1>2. RestPart'
  BY DEF RestPart
<1>3. TypedPart'
  BY DEF FeedInv, TypedPart, Idle
<1>4. BlockPart'
  BY DEF FeedInv, BlockPart
<1> QED BY <1>1, <1>2, <1>3, <1>4 DEF FeedInv

LEMMA FeedStays ==
  ASSUME FeedInv, UNCHANGED vars
  PROVE  FeedInv'
<1> USE DEF vars, callVars, inputVars, codeVars, fillVars, maskVars, cacheVars
<1>1. ScriptPart'
  BY DEF FeedInv, ScriptPart
<1>2. RestPart'
  BY DEF FeedInv, RestPart
<1>3. TypedPart'
  BY DEF FeedInv, TypedPart, Idle
<1>4. BlockPart'
  BY DEF FeedInv, BlockPart
<1> QED BY <1>1, <1>2, <1>3, <1>4 DEF FeedInv

LEMMA FeedStep == ToolInv /\ FeedInv /\ [ToolNext]_<<toolVars, vars>> => FeedInv'
<1> SUFFICES ASSUME ToolInv, FeedInv, [ToolNext]_<<toolVars, vars>> PROVE FeedInv'
  OBVIOUS
<1>1. CASE Library
  BY <1>1, LibraryFeeds, Zenon DEF Library
<1>2. CASE UNCHANGED vars
  BY <1>2, FeedStays, Zenon
<1>3. CASE Encode
  <2>1. CASE UNCHANGED script
    <3>1. UNCHANGED vars
      BY <1>3, <2>1 DEF Encode, vars, callVars
    <3> QED BY <3>1, FeedStays, Zenon
  <2>2. CASE ~(UNCHANGED script)
    <3> DEFINE c == [op |-> IF options.eightbit THEN "data" ELSE "string",
                     text |-> program.text, kanji |-> options.kanji, casesensitive |-> options.casesensitive,
                     version |-> options.version, level |-> options.level,
                     mqr |-> options.micro, structured |-> options.structured]
    <3>1. phase = "options" /\ program.name = "qrencode" /\ script' = << c >>
      BY <1>3, <2>2, Zenon DEF Encode
    <3>2. UNCHANGED <<stage, at, used, rslist>>
      BY <1>3 DEF Encode, inputVars, cacheVars
    <3>3. program \in Programs /\ options \in OptionsType /\ stage = "idle"
      BY <3>1 DEF ToolInv, PhasePart, ProgramPart
    <3>4. program.text \in Seq(Byte)
      BY <3>1, <3>3, ProgramsAssumption
    <3>5. /\ options.version \in Nat /\ options.level \in Level /\ options.micro \in BOOLEAN
          /\ options.structured \in BOOLEAN /\ options.kanji \in BOOLEAN /\ options.casesensitive \in BOOLEAN
      BY <3>3 DEF OptionsType
    <3>6. /\ c.op \in {"data", "string"} /\ c.text = program.text /\ c.version = options.version /\ c.level = options.level
          /\ c.mqr = options.micro /\ c.structured = options.structured /\ c.kanji = options.kanji
          /\ c.casesensitive = options.casesensitive
      OBVIOUS
    <3> HIDE DEF c
    <3>7. CallOK(c)
      BY <3>4, <3>5, <3>6 DEF CallOK
    <3> QED BY <3>1, <3>2, <3>3, <3>7, CallAsBefore, Zenon
  <2> QED BY <2>1, <2>2, Zenon
<1>4. CASE createBarcode
  <2> DEFINE c == [op |-> "string", text |-> BarcodeText(program.ip, program.pass), kanji |-> FALSE, casesensitive |-> TRUE,
                   version |-> 0, level |-> LevelH, mqr |-> FALSE, structured |-> FALSE]
  <2>1. phase = "options" /\ program.name = "createBarcode" /\ script' = << c >>
    BY <1>4, Zenon DEF createBarcode
  <2>2. UNCHANGED <<stage, at, used, rslist>>
    BY <1>4 DEF createBarcode, inputVars, cacheVars
  <2>3. program \in Programs /\ stage = "idle"
    BY <2>1 DEF ToolInv, PhasePart
  <2>4. program.ip \in Seq(Byte) /\ program.pass \in Seq(Byte)
    BY <2>1, <2>3, ProgramsAssumption
  <2>5. BarcodeText(program.ip, program.pass) \in Seq(Byte)
    <3>1. PICK ip \in Seq(Byte), pass \in Seq(Byte) : ip = program.ip /\ pass = program.pass
      BY <2>4
    <3>2. Bar \in Byte
      BY DEF Bar, Byte
    <3>3. ip \o <<Bar>> \o pass \in Seq(Byte)
      BY <3>2
    <3>4. BarcodeText(ip, pass) \in Seq(Byte)
      BY <3>3 DEF BarcodeText
    <3> QED BY <3>1, <3>4, Zenon
  <2>6. /\ c.op = "string" /\ c.text = BarcodeText(program.ip, program.pass) /\ c.version = 0 /\ c.level = LevelH
        /\ c.mqr = FALSE /\ c.structured = FALSE /\ c.kanji = FALSE /\ c.casesensitive = TRUE
    OBVIOUS
  <2> HIDE DEF c
  <2>7. CallOK(c)
    <3>1. /\ c.op = "string" /\ c.text \in Seq(Byte) /\ c.version \in Int /\ c.level \in Level
          /\ c.mqr \in BOOLEAN /\ c.structured \in BOOLEAN /\ c.kanji \in BOOLEAN /\ c.casesensitive \in BOOLEAN
      <4>1. LevelH \in Level /\ 0 \in Int /\ FALSE \in BOOLEAN /\ TRUE \in BOOLEAN
        BY DEF LevelH, Level
      <4> QED BY <2>5, <2>6, <4>1, Zenon
    <3> QED BY <3>1 DEF CallOK
  <2> QED BY <2>1, <2>2, <2>3, <2>7, CallAsBefore, Zenon
<1>5. CASE ParseOption \/ Return \/ WriteBitmap \/ WriteImage \/ EndOfMain
  <2>1. UNCHANGED vars
    BY <1>5, Zenon DEF ParseOption, Return, WriteBitmap, WriteImage, EndOfMain
  <2> QED BY <2>1, FeedStays, Zenon
<1>6. CASE UNCHANGED <<toolVars, vars>>
  <2>1. UNCHANGED vars
    BY <1>6
  <2> QED BY <2>1, FeedStays, Zenon
<1> QED BY <1>1, <1>3, <1>4, <1>5, <1>6 DEF ToolNext

(* Whatever a program asks for and whatever is kept from its earlier calls, the
   data of every block and its check bytes are a word of the Reed-Solomon code
   when the frame comes: they vanish at as many powers of 2 as there are check
   bytes (rscode.c:99-210, 301-327, qrencode.c:63-155, 200-285). *)
THEOREM BlocksEncoded == ToolSpec => []BlocksAreCodewords
<1>1. FeedInv => BlocksAreCodewords
  <2> SUFFICES ASSUME FeedInv, stage = "frame", NEW b \in DOMAIN blocks, NEW i \in 0..Len(blocks[b].ecc) - 1
               PROVE  Syndrome(blocks[b].data \o blocks[b].ecc, i) = 0
    BY DEF BlocksAreCodewords
  <2>1. blocks \in Seq(Blocks) /\ blocks[b].fed = Len(blocks[b].data)
    BY DEF FeedInv, BlockPart
  <2>2. blocks[b] \in Blocks
    BY <2>1
  <2> QED BY <2>1, <2>2, BlockWhole, Zenon
<1> QED BY ToolBegins, ToolStep, FeedBegins, FeedStep, <1>1, PTL DEF ToolSpec
=============================================================================
