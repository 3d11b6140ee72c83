---------------------------- MODULE CommandProofs ----------------------------
(***************************************************************************)
(* Proofs about the way of a command: the stream of texts the phone writes *)
(* and the server parses (CommandStream), the phone's list of messages to  *)
(* send (SendQueue), and its list of those who are told when the way is    *)
(* broken (Activities); for any keys, buttons, moves, commands, producers  *)
(* and activities opened.                                                  *)
(*                                                                         *)
(* The stream: what the server injects is what the phone meant, as long as *)
(* recv cuts between commands.                                             *)
(* The commands written are always those done, followed by                 *)
(* those of the text being parsed, followed by those still to be received  *)
(* (Parted).  A recv moves the second cut, a round of the do-while the     *)
(* first.  That the text of a list of commands can be cut only between     *)
(* commands when what is left is the text of the last few (ReceiveParts)   *)
(* is a fact about FlattenSeq, so FlattenSeq comes first; what it returns  *)
(* for every list follows from the least list that is a counterexample.    *)
(*                                                                         *)
(* The two lists are shared by threads without a lock.                     *)
(* The list of listeners only grows, and an activity can be covered by     *)
(* another one only while no onResume is on its way: so each activity but  *)
(* the one in front has got to the end of its onResume before.             *)
(* Between isEmpty and remove(0) a producer may write back a size it read  *)
(* long ago.  It writes one more than it read, so that only SendMessage    *)
(* itself can bring the size down to nothing.                              *)
(***************************************************************************)
EXTENDS CommandStream, Activities, SendQueue, SequenceTheorems, FiniteSetTheorems,
        WellFoundedInduction, TLAPS

(* Induction over a set rather than over a formula: the least number outside of
   T would have its predecessor in T. *)
LEMMA Induction ==
  ASSUME NEW T, 0 \in T, \A n \in Nat : n \in T => n + 1 \in T
  PROVE  Nat \subseteq T
<1> DEFINE U == {n \in Nat : n \notin T}
           R == {ss \in Nat \X Nat : ss[1] < ss[2]}
<1>1. SUFFICES ASSUME U # {} PROVE FALSE
  OBVIOUS
<1>2. IsWellFoundedOn(R, Nat)
  BY NatLessThanWellFounded DEF OpToRel
<1>3. U \subseteq Nat
  OBVIOUS
<1> HIDE DEF U, R
<1>4. PICK x \in U : \A y \in U : <<y, x>> \notin R
  BY <1>1, <1>2, <1>3, WFMin
<1>5. x \in Nat /\ x \notin T /\ (x - 1 \in Nat /\ x - 1 \in T => x \in T)
  BY <1>3, <1>4 DEF U
<1>6. x # 0
  BY <1>5
<1>7. x - 1 \in U
  BY <1>5, <1>6 DEF U
<1>8. <<x - 1, x>> \in R
  BY <1>5, <1>6 DEF R
<1> QED BY <1>4, <1>7, <1>8

-----------------------------------------------------------------------------
(* FlattenSeq.  What it accumulates: g is it for the first n of seqs. *)
Adds(g, seqs, i) == g[i] = IF i = 1 THEN seqs[i] ELSE g[i - 1] \o seqs[i]
Accumulates(g, seqs, n) ==
  g = [i \in 1..n |-> IF i = 1 THEN seqs[i] ELSE g[i - 1] \o seqs[i]]

Agree(s, t, n) == \A i \in 1..n : s[i] = t[i]

LEMMA AccumulatesAt ==
  ASSUME NEW s, NEW n, NEW g, Accumulates(g, s, n), NEW i \in 1..n
  PROVE  Adds(g, s, i)
BY Zenon DEF Accumulates, Adds

(* Two functions that accumulate the same sequences agree. *)
LEMMA AccumulatesOnce ==
  ASSUME NEW s, NEW t, NEW m \in Nat, NEW n \in Nat, NEW k \in Nat, k <= m, k <= n,
         Agree(s, t, k),
         NEW g, Accumulates(g, s, m), NEW h, Accumulates(h, t, n)
  PROVE  Agree(g, h, k)
<1> DEFINE T == {i \in Nat : i \in 1..k => g[i] = h[i]}
<1>1. 0 \in T
  OBVIOUS
<1>2. ASSUME NEW i \in Nat, i \in T PROVE i + 1 \in T
  <2>1. SUFFICES ASSUME i + 1 \in 1..k PROVE g[i + 1] = h[i + 1]
    OBVIOUS
  <2>2. /\ g[i + 1] = IF i + 1 = 1 THEN s[i + 1] ELSE g[i] \o s[i + 1]
        /\ h[i + 1] = IF i + 1 = 1 THEN t[i + 1] ELSE h[i] \o t[i + 1]
    <3>1. i + 1 \in 1..m /\ i + 1 \in 1..n /\ (i + 1) - 1 = i
      BY <2>1
    <3> HIDE DEF T
    <3>2. Adds(g, s, i + 1) /\ Adds(h, t, i + 1)
      BY <3>1, AccumulatesAt, Zenon
    <3> QED BY <3>1, <3>2 DEF Adds
  <2> QED BY <1>2, <2>1, <2>2 DEF Agree
<1> HIDE DEF T
<1>3. Nat \subseteq T
  BY <1>1, <1>2, Induction
<1> QED BY <1>3 DEF T, Agree

(* There is one that accumulates any number of sequences. *)
LEMMA Accumulated ==
  ASSUME NEW S, NEW seqs \in Seq(Seq(S)), NEW n \in Nat, n <= Len(seqs)
  PROVE  \E g \in [1..n -> Seq(S)] : Accumulates(g, seqs, n)
<1> DEFINE T == {k \in Nat : k <= Len(seqs) => \E g \in [1..k -> Seq(S)] : Accumulates(g, seqs, k)}
<1>1. 0 \in T
  <2>1. [i \in 1..0 |-> <<>>] \in [1..0 -> Seq(S)]
    OBVIOUS
  <2>2. Accumulates([i \in 1..0 |-> <<>>], seqs, 0)
    BY DEF Accumulates
  <2> QED BY <2>1, <2>2
<1>2. ASSUME NEW k \in Nat, k \in T PROVE k + 1 \in T
  <2>1. SUFFICES ASSUME k + 1 <= Len(seqs)
                 PROVE  \E g \in [1..k + 1 -> Seq(S)] : Accumulates(g, seqs, k + 1)
    OBVIOUS
  <2>2. PICK f \in [1..k -> Seq(S)] : Accumulates(f, seqs, k)
    BY <1>2, <2>1
  <2> DEFINE x == IF k + 1 = 1 THEN seqs[k + 1] ELSE f[k] \o seqs[k + 1]
             g == [i \in 1..k + 1 |-> IF i = k + 1 THEN x ELSE f[i]]
  <2>3. x \in Seq(S)
    BY <2>1, <2>2
  <2>4. g \in [1..k + 1 -> Seq(S)]
    BY <2>2, <2>3
  <2>5. \A i \in 1..k + 1 : g[i] = IF i = 1 THEN seqs[i] ELSE g[i - 1] \o seqs[i]
    <3>1. TAKE i \in 1..k + 1
    <3>2. CASE i = k + 1
      BY <3>2
    <3>3. CASE i # k + 1
      <4>1. i \in 1..k /\ g[i] = f[i] /\ (i # 1 => g[i - 1] = f[i - 1])
        BY <3>3
      <4>2. Adds(f, seqs, i)
        BY <2>2, <4>1, AccumulatesAt, Zenon
      <4> QED BY <4>1, <4>2 DEF Adds
    <3> QED BY <3>2, <3>3
  <2>6. Accumulates(g, seqs, k + 1)
    BY <2>4, <2>5 DEF Accumulates
  <2> QED BY <2>4, <2>6
<1> HIDE DEF T
<1>3. Nat \subseteq T
  BY <1>1, <1>2, Induction
<1> QED BY <1>3 DEF T

(* The recursive function of FlattenSeq is that one. *)
LEMMA FlattenByParts ==
  ASSUME NEW S, NEW seqs \in Seq(Seq(S)), seqs # <<>>
  PROVE  \E g \in [1..Len(seqs) -> Seq(S)] :
           Accumulates(g, seqs, Len(seqs)) /\ FlattenSeq(seqs) = g[Len(seqs)]
<1> DEFINE flat == CHOOSE g : g = [i \in 1..Len(seqs) |->
                      IF i = 1 THEN seqs[i] ELSE g[i - 1] \o seqs[i]]
<1>1. FlattenSeq(seqs) = flat[Len(seqs)]
  <2>1. Len(seqs) # 0
    OBVIOUS
  <2> QED BY <2>1, Zenon DEF FlattenSeq
<1>2. PICK g \in [1..Len(seqs) -> Seq(S)] : Accumulates(g, seqs, Len(seqs))
  BY Accumulated
<1>3. Accumulates(flat, seqs, Len(seqs))
  BY <1>2, Zenon DEF Accumulates
<1> HIDE DEF flat
<1>4. \A i \in 1..Len(seqs) : flat[i] = g[i]
  <2>1. Len(seqs) \in Nat /\ Len(seqs) <= Len(seqs) /\ Agree(seqs, seqs, Len(seqs))
    BY DEF Agree
  <2>2. Agree(flat, g, Len(seqs))
    BY <1>2, <1>3, <2>1, AccumulatesOnce, Zenon
  <2> QED BY <2>2 DEF Agree
<1>5. flat = g
  <2>1. flat = [i \in 1..Len(seqs) |-> IF i = 1 THEN seqs[i] ELSE flat[i - 1] \o seqs[i]]
    BY <1>3 DEF Accumulates
  <2>2. flat = [i \in 1..Len(seqs) |-> flat[i]]
    BY <2>1, Zenon
  <2> QED BY <1>4, <2>2
<1> QED BY <1>1, <1>2, <1>5

LEMMA FlattenEmpty == FlattenSeq(<<>>) = <<>>
BY DEF FlattenSeq

LEMMA FlattenType ==
  ASSUME NEW S, NEW seqs \in Seq(Seq(S))
  PROVE  FlattenSeq(seqs) \in Seq(S)
<1>1. CASE seqs = <<>>
  <2>1. <<>> \in Seq(S)
    OBVIOUS
  <2> QED BY <1>1, <2>1, FlattenEmpty, Zenon
<1>2. CASE seqs # <<>>
  <2>1. Len(seqs) \in 1..Len(seqs)
    BY <1>2
  <2>2. PICK g \in [1..Len(seqs) -> Seq(S)] : FlattenSeq(seqs) = g[Len(seqs)]
    BY <1>2, FlattenByParts, Zenon
  <2> QED BY <2>1, <2>2
<1> QED BY <1>1, <1>2

LEMMA FlattenAppend ==
  ASSUME NEW S, NEW seqs \in Seq(Seq(S)), NEW s \in Seq(S)
  PROVE  FlattenSeq(Append(seqs, s)) = FlattenSeq(seqs) \o s
<1> DEFINE n == Len(seqs)
           more == Append(seqs, s)
<1>1. /\ more \in Seq(Seq(S)) /\ more # <<>> /\ Len(more) = n + 1 /\ n \in Nat
      /\ more[n + 1] = s /\ \A i \in 1..n : more[i] = seqs[i]
  <2> DEFINE Q == Seq(S)
  <2>1. seqs \in Seq(Q) /\ s \in Q
    OBVIOUS
  <2> HIDE DEF Q
  <2>2. /\ more \in Seq(Q) /\ more # <<>> /\ Len(more) = n + 1 /\ n \in Nat
        /\ more[n + 1] = s /\ \A i \in 1..n : more[i] = seqs[i]
    BY <2>1, AppendProperties
  <2> QED BY <2>2 DEF Q
<1> HIDE DEF more, n
<1>2. PICK h \in [1..n + 1 -> Seq(S)] : Accumulates(h, more, n + 1) /\ FlattenSeq(more) = h[n + 1]
  BY <1>1, FlattenByParts
<1>3. h[n + 1] = IF n + 1 = 1 THEN s ELSE h[n] \o s
  <2>1. n + 1 \in 1..n + 1 /\ (n + 1) - 1 = n
    BY <1>1
  <2>2. Adds(h, more, n + 1)
    BY <1>2, <2>1, AccumulatesAt, Zenon
  <2> QED BY <1>1, <2>1, <2>2 DEF Adds
<1>4. CASE n = 0
  <2>1. seqs = <<>>
    BY <1>4 DEF n
  <2>2. FlattenSeq(seqs) = <<>>
    BY <2>1, FlattenEmpty
  <2>3. <<>> \o s = s
    OBVIOUS
  <2> QED BY <1>2, <1>3, <1>4, <2>2, <2>3 DEF more
<1>5. CASE n # 0
  <2>1. seqs # <<>>
    BY <1>5 DEF n
  <2>2. PICK g \in [1..n -> Seq(S)] : Accumulates(g, seqs, n) /\ FlattenSeq(seqs) = g[n]
    BY <2>1, FlattenByParts DEF n
  <2>3. Agree(g, h, n)
    <3>1. n \in Nat /\ n <= n /\ n <= n + 1 /\ n + 1 \in Nat /\ Agree(seqs, more, n)
      BY <1>1 DEF Agree
    <3> QED BY <1>1, <1>2, <2>2, <3>1, AccumulatesOnce, Zenon
  <2>4. n \in 1..n /\ n + 1 # 1
    BY <1>1, <1>5
  <2>5. g[n] = h[n]
    BY <2>3, <2>4 DEF Agree
  <2> QED BY <1>2, <1>3, <2>2, <2>4, <2>5 DEF more
<1> QED BY <1>4, <1>5

(* FlattenSeq turns a list of sequences cut anywhere into two sequences cut there. *)
LEMMA FlattenConcat ==
  ASSUME NEW S, NEW s \in Seq(Seq(S)), NEW t \in Seq(Seq(S))
  PROVE  FlattenSeq(s \o t) = FlattenSeq(s) \o FlattenSeq(t)
<1> DEFINE T == {n \in Nat : \A u \in Seq(Seq(S)) :
                   Len(u) = n => FlattenSeq(s \o u) = FlattenSeq(s) \o FlattenSeq(u)}
<1>0. FlattenSeq(s) \in Seq(S)
  BY FlattenType
<1>1. 0 \in T
  <2>1. ASSUME NEW u \in Seq(Seq(S)), Len(u) = 0
        PROVE  FlattenSeq(s \o u) = FlattenSeq(s) \o FlattenSeq(u)
    <3>1. u = <<>> /\ s \o u = s
      BY <2>1
    <3>2. FlattenSeq(u) = <<>>
      BY <3>1, FlattenEmpty
    <3> QED BY <1>0, <3>1, <3>2
  <2> QED BY <2>1
<1>2. ASSUME NEW n \in Nat, n \in T PROVE n + 1 \in T
  <2>1. SUFFICES ASSUME NEW u \in Seq(Seq(S)), Len(u) = n + 1
                 PROVE  FlattenSeq(s \o u) = FlattenSeq(s) \o FlattenSeq(u)
    BY <1>2
  <2>2. PICK v \in Seq(Seq(S)), x \in Seq(S) : u = Append(v, x)
    <3>1. u # <<>>
      BY <2>1
    <3> QED BY <3>1, SequenceEmptyOrAppend, Zenon
  <2>3. Len(v) = n /\ s \o v \in Seq(Seq(S)) /\ s \o u = Append(s \o v, x)
    BY <2>1, <2>2
  <2>4. FlattenSeq(s \o u) = FlattenSeq(s \o v) \o x
    BY <2>3, FlattenAppend
  <2>5. FlattenSeq(s \o v) = FlattenSeq(s) \o FlattenSeq(v)
    BY <1>2, <2>3
  <2>6. FlattenSeq(u) = FlattenSeq(v) \o x /\ FlattenSeq(v) \in Seq(S)
    BY <2>2, FlattenAppend, FlattenType
  <2>7. (FlattenSeq(s) \o FlattenSeq(v)) \o x = FlattenSeq(s) \o (FlattenSeq(v) \o x)
    BY <1>0, <2>2, <2>6, ConcatAssociative, SMTT(40)
  <2> QED BY <2>4, <2>5, <2>6, <2>7, Zenon
<1> HIDE DEF T
<1>3. Nat \subseteq T
  BY <1>1, <1>2, Induction
<1> QED BY <1>3 DEF T

-----------------------------------------------------------------------------
(* What a list of commands is on the wire and what it stands for. *)

TextOf(cs) == FlattenSeq([i \in 1..Len(cs) |-> Text(cs[i])])
MeaningOf(cs) == FlattenSeq([i \in 1..Len(cs) |-> Meant(cs[i])])

Event ==
  ({"key"} \X Int \X {"down", "up"})
    \cup ({"left", "right", "middle"} \X {"down", "up"})
    \cup ({"move"} \X Int \X Int)

LEMMA CommandKinds ==
  ASSUME NEW c \in Command
  PROVE  \/ c.device = "key" /\ c.code \in Numbers /\ c.up \in BOOLEAN
         \/ c.device = "button" /\ c.code \in 0..2 /\ c.up \in BOOLEAN
         \/ c.device = "mouse" /\ c.dx \in Numbers /\ c.dy \in Numbers
<1>1. CASE c \in [device : {"key"}, code : Keys, up : BOOLEAN]
  BY <1>1, TokensAssumption
<1>2. CASE c \in [device : {"button"}, code : Buttons, up : BOOLEAN]
  BY <1>2, TokensAssumption
<1>3. CASE c \in {[device |-> "mouse", dx |-> d[1], dy |-> d[2]] : d \in Moves}
  <2>1. PICK d \in Moves : c = [device |-> "mouse", dx |-> d[1], dy |-> d[2]]
    BY <1>3
  <2> QED BY <2>1, TokensAssumption
<1> QED BY <1>1, <1>2, <1>3 DEF Command

(* A text has tokens and the last one is a bar. *)
LEMMA TextShape ==
  ASSUME NEW c \in Command
  PROVE  /\ Text(c) \in Seq(Int) /\ Len(Text(c)) > 0
         /\ Text(c)[Len(Text(c))] = Bar
<1>1. CASE c.device = "key" /\ c.code \in Numbers
  <2>1. Text(c) = <<10, Bar, IF c.up THEN 1 ELSE 0, Space, c.code, Bar>>
    BY <1>1 DEF Text
  <2> QED BY <1>1, <2>1 DEF Numbers, Bar, Space
<1>2. CASE c.device = "button" /\ c.code \in 0..2
  <2>1. Text(c) = <<11, Bar, IF c.up THEN c.code + 3 ELSE c.code, Bar>>
    BY <1>2 DEF Text
  <2> QED BY <1>2, <2>1 DEF Bar
<1>3. CASE c.device = "mouse" /\ c.dx \in Numbers /\ c.dy \in Numbers
  <2>1. Text(c) = <<12, Bar, c.dx, Space, c.dy, Bar>>
    BY <1>3 DEF Text
  <2> QED BY <1>3, <2>1 DEF Numbers, Bar, Space
<1> QED BY <1>1, <1>2, <1>3, CommandKinds

LEMMA MeantType ==
  ASSUME NEW c \in Command
  PROVE  Meant(c) \in Seq(Event)
<1>0. \A k \in Int, u \in {"down", "up"} : <<"key", k, u>> \in Event
  BY DEF Event
<1>1. CASE c.device = "key" /\ c.code \in Numbers
  <2>0. <<"key", c.code, "down">> \in Event /\ <<"key", c.code, "up">> \in Event
    BY <1>0, <1>1 DEF Numbers
  <2> DEFINE d == <<"key", c.code, "down">>
             u == <<"key", c.code, "up">>
  <2>1. Meant(c) \in {<<d>>, <<d>> \o <<u>>, <<>> \o <<u>>}
    BY <1>1, Zenon DEF Meant
  <2> HIDE DEF d, u
  <2>2. d \in Event /\ u \in Event
    BY <2>0 DEF d, u
  <2> HIDE DEF Event
  <2>3. <<d>> \in Seq(Event) /\ <<u>> \in Seq(Event) /\ <<>> \in Seq(Event)
    BY <2>2
  <2>4. <<d>> \o <<u>> \in Seq(Event) /\ <<>> \o <<u>> \in Seq(Event)
    BY <2>3, ConcatProperties
  <2> QED BY <2>1, <2>3, <2>4
<1>2. CASE c.device = "button" /\ c.code \in 0..2
  <2>1. Meant(c) = << <<(<<"left", "right", "middle">>)[c.code + 1], IF c.up THEN "up" ELSE "down">> >>
    BY <1>2 DEF Meant
  <2>2. (<<"left", "right", "middle">>)[c.code + 1] \in {"left", "right", "middle"}
    BY <1>2
  <2>3. <<(<<"left", "right", "middle">>)[c.code + 1], IF c.up THEN "up" ELSE "down">> \in Event
    BY <2>2 DEF Event
  <2> QED BY <2>1, <2>3
<1>3. CASE c.device = "mouse" /\ c.dx \in Numbers /\ c.dy \in Numbers
  <2>1. Meant(c) = << <<"move", c.dx, c.dy>> >>
    BY <1>3 DEF Meant
  <2>2. <<"move", c.dx, c.dy>> \in Event
    BY <1>3 DEF Event, Numbers
  <2> DEFINE m == <<"move", c.dx, c.dy>>
  <2> HIDE DEF m, Event
  <2>3. m \in Event => <<m>> \in Seq(Event)
    OBVIOUS
  <2> QED BY <2>1, <2>2, <2>3 DEF m
<1> QED BY <1>1, <1>2, <1>3, CommandKinds

LEMMA TextsType ==
  ASSUME NEW cs \in Seq(Command)
  PROVE  /\ [i \in 1..Len(cs) |-> Text(cs[i])] \in Seq(Seq(Int))
         /\ [i \in 1..Len(cs) |-> Meant(cs[i])] \in Seq(Seq(Event))
         /\ TextOf(cs) \in Seq(Int)
         /\ MeaningOf(cs) \in Seq(Event)
<1>1. [i \in 1..Len(cs) |-> Text(cs[i])] \in [1..Len(cs) -> Seq(Int)]
  BY TextShape
<1>2. [i \in 1..Len(cs) |-> Meant(cs[i])] \in [1..Len(cs) -> Seq(Event)]
  <2> HIDE DEF Event
  <2> QED BY MeantType
<1>3. Len(cs) \in Nat
  OBVIOUS
<1>4. [i \in 1..Len(cs) |-> Text(cs[i])] \in Seq(Seq(Int))
  BY <1>1, <1>3
<1>5. [i \in 1..Len(cs) |-> Meant(cs[i])] \in Seq(Seq(Event))
  BY <1>2, <1>3
<1> QED BY <1>4, <1>5, FlattenType, Zenon DEF TextOf, MeaningOf

(* The text, and the meaning, of two lists of commands one after the other. *)
LEMMA TextsConcat ==
  ASSUME NEW s \in Seq(Command), NEW t \in Seq(Command)
  PROVE  /\ TextOf(s \o t) = TextOf(s) \o TextOf(t)
         /\ MeaningOf(s \o t) = MeaningOf(s) \o MeaningOf(t)
<1> DEFINE T(cs) == [i \in 1..Len(cs) |-> Text(cs[i])]
           M(cs) == [i \in 1..Len(cs) |-> Meant(cs[i])]
<1>1. /\ T(s) \in Seq(Seq(Int)) /\ T(t) \in Seq(Seq(Int))
      /\ M(s) \in Seq(Seq(Event)) /\ M(t) \in Seq(Seq(Event))
  BY TextsType
<1>2. /\ s \o t \in Seq(Command) /\ Len(s \o t) = Len(s) + Len(t)
      /\ \A i \in 1..Len(s \o t) : (s \o t)[i] = IF i <= Len(s) THEN s[i] ELSE t[i - Len(s)]
  OBVIOUS
<1>3. T(s \o t) = T(s) \o T(t)
  BY <1>2
<1>4. M(s \o t) = M(s) \o M(t)
  BY <1>2
<1> HIDE DEF T, M
<1>5. /\ FlattenSeq(T(s) \o T(t)) = FlattenSeq(T(s)) \o FlattenSeq(T(t))
      /\ FlattenSeq(M(s) \o M(t)) = FlattenSeq(M(s)) \o FlattenSeq(M(t))
  BY <1>1, FlattenConcat, Zenon
<1> QED BY <1>3, <1>4, <1>5, Zenon DEF T, M, TextOf, MeaningOf

LEMMA TextsEmpty == TextOf(<<>>) = <<>> /\ MeaningOf(<<>>) = <<>>
<1>1. [i \in 1..Len(<<>>) |-> Text((<<>>)[i])] = <<>>
  OBVIOUS
<1>2. [i \in 1..Len(<<>>) |-> Meant((<<>>)[i])] = <<>>
  OBVIOUS
<1> QED BY <1>1, <1>2, FlattenEmpty, Zenon DEF TextOf, MeaningOf

LEMMA FlattenOne ==
  ASSUME NEW S, NEW s \in Seq(S)
  PROVE  FlattenSeq(<<s>>) = s
<1>1. <<>> \in Seq(Seq(S)) /\ Append(<<>>, s) = <<s>> /\ <<>> \o s = s
  OBVIOUS
<1> QED BY <1>1, FlattenAppend, FlattenEmpty, Zenon

LEMMA TextsOne ==
  ASSUME NEW c \in Command
  PROVE  TextOf(<<c>>) = Text(c) /\ MeaningOf(<<c>>) = Meant(c)
<1>1. [i \in 1..Len(<<c>>) |-> Text(<<c>>[i])] = <<Text(c)>>
  OBVIOUS
<1>2. [i \in 1..Len(<<c>>) |-> Meant(<<c>>[i])] = <<Meant(c)>>
  OBVIOUS
<1>3. Text(c) \in Seq(Int) /\ Meant(c) \in Seq(Event)
  BY TextShape, MeantType
<1> QED BY <1>1, <1>2, <1>3, FlattenOne, Zenon DEF TextOf, MeaningOf

LEMMA LastOfConcat ==
  ASSUME NEW S, NEW u \in Seq(S), NEW t \in Seq(S), Len(t) > 0
  PROVE  Len(u \o t) > 0 /\ (u \o t)[Len(u \o t)] = t[Len(t)]
<1>1. Len(u) \in Nat /\ Len(t) \in Nat /\ Len(u \o t) = Len(u) + Len(t)
  OBVIOUS
<1>2. Len(u) + Len(t) \in 1..Len(u) + Len(t)
  BY <1>1
<1>3. (u \o t)[Len(u) + Len(t)] = IF Len(u) + Len(t) <= Len(u) THEN u[Len(u) + Len(t)]
                                   ELSE t[(Len(u) + Len(t)) - Len(u)]
  BY <1>2, ConcatProperties, Zenon
<1>4. ~(Len(u) + Len(t) <= Len(u)) /\ (Len(u) + Len(t)) - Len(u) = Len(t)
  BY <1>1
<1> QED BY <1>1, <1>3, <1>4

LEMMA TokensAssociative ==
  ASSUME NEW s \in Seq(Int), NEW t \in Seq(Int), NEW u \in Seq(Int)
  PROVE  (s \o t) \o u = s \o (t \o u)
BY ConcatAssociative

LEMMA CommandsAssociative ==
  ASSUME NEW s \in Seq(Command), NEW t \in Seq(Command), NEW u \in Seq(Command)
  PROVE  (s \o t) \o u = s \o (t \o u)
<1> DEFINE S == Command
<1>1. s \in Seq(S) /\ t \in Seq(S) /\ u \in Seq(S)
  OBVIOUS
<1> HIDE DEF S
<1>2. (s \o t) \o u = s \o (t \o u)
  BY <1>1, ConcatAssociative
<1> QED BY <1>2 DEF S

LEMMA BeforeLast ==
  ASSUME NEW S, NEW t \in Seq(S), NEW x \in S, Len(t) > 0
  PROVE  /\ Len(t) \in 1..Len(t \o <<x>>)
         /\ (t \o <<x>>)[Len(t)] = t[Len(t)]
<1>1. <<x>> \in Seq(S) /\ Len(<<x>>) = 1 /\ Len(t) \in Nat
  OBVIOUS
<1>2. Len(t) \in 1..Len(t) + Len(<<x>>) /\ Len(t) <= Len(t)
  BY <1>1
<1> QED BY <1>1, <1>2, ConcatProperties, Zenon

(* A text of commands is empty or ends in a bar. *)
LEMMA TextEnds ==
  ASSUME NEW cs \in Seq(Command), cs # <<>>
  PROVE  /\ Len(TextOf(cs)) > 0
         /\ TextOf(cs)[Len(TextOf(cs))] = Bar
<1>1. PICK v \in Seq(Command), c \in Command : cs = Append(v, c)
  BY SequenceEmptyOrAppend, Zenon
<1>2. cs = v \o <<c>> /\ <<c>> \in Seq(Command)
  BY <1>1
<1>3. TextOf(cs) = TextOf(v) \o Text(c)
  BY <1>2, TextsConcat, TextsOne
<1>4. /\ TextOf(v) \in Seq(Int) /\ Text(c) \in Seq(Int)
      /\ Len(Text(c)) > 0 /\ Text(c)[Len(Text(c))] = Bar
  <2>1. TextOf(v) \in Seq(Int)
    BY TextsType, Zenon
  <2>2. /\ Text(c) \in Seq(Int) /\ Len(Text(c)) > 0
        /\ Text(c)[Len(Text(c))] = Bar
    BY TextShape, Zenon
  <2> QED BY <2>1, <2>2, Zenon
<1> QED BY <1>3, <1>4, LastOfConcat, ZenonT(60)

-----------------------------------------------------------------------------
(* std::string::find_first_of and stoi: where they stop in msg. *)

LEMMA MinIs ==
  ASSUME NEW I \in SUBSET Int, NEW p \in I, \A q \in I : p <= q
  PROVE  Min(I) = p
<1> DEFINE m == CHOOSE x \in I : \A y \in I : x =< y
<1>1. m \in I /\ \A y \in I : m =< y
  BY Zenon
<1>2. m \in Int /\ p \in Int /\ m <= p /\ p <= m
  BY <1>1
<1>3. m = p
  <2> HIDE DEF m
  <2> QED BY <1>2
<1> QED BY <1>3, Zenon DEF Min

LEMMA MinIn ==
  ASSUME NEW I \in SUBSET Nat, I # {}
  PROVE  Min(I) \in I
<1> DEFINE R == {ss \in Nat \X Nat : ss[1] < ss[2]}
<1>1. IsWellFoundedOn(R, Nat)
  BY NatLessThanWellFounded DEF OpToRel
<1> HIDE DEF R
<1>2. PICK x \in I : \A y \in I : <<y, x>> \notin R
  BY <1>1, WFMin
<1>3. \A y \in I : x <= y
  <2>1. TAKE y \in I
  <2>2. x \in Nat /\ y \in Nat
    OBVIOUS
  <2>3. ~(y < x)
    BY <1>2, <2>2 DEF R
  <2> QED BY <2>2, <2>3
<1>4. Min(I) = x
  <2>1. I \in SUBSET Int /\ x \in I
    OBVIOUS
  <2> QED BY <1>3, <2>1, MinIs
<1> QED BY <1>4

LEMMA PastIs ==
  ASSUME NEW c, NEW i \in Nat \ {0}, NEW p \in i..Len(msg), msg[p] = c,
         \A q \in i..(p - 1) : msg[q] # c
  PROVE  Past(i, c) = p + 1
<1> DEFINE I == {q \in i..Len(msg) : msg[q] = c}
<1>0. I \in SUBSET Int
  OBVIOUS
<1>1. p \in I /\ \A q \in I : p <= q
  OBVIOUS
<1>2. Min(I) = p
  BY <1>0, <1>1, MinIs
<1>3. p # 0 /\ I # {}
  BY <1>1
<1>4. First(i, LAMBDA token : token = c) = p
  BY <1>2, <1>3, Zenon DEF First, SelectInSubSeq
<1> QED BY <1>3, <1>4, Zenon DEF Past

LEMMA NumberIs ==
  ASSUME NEW i \in 1..Len(msg), msg[i] \notin {Bar, Space}
  PROVE  Number(i) = {msg[i]}
<1> DEFINE I == {q \in i..Len(msg) : msg[q] # Space}
<1>0. I \in SUBSET Int
  OBVIOUS
<1>1. i \in I /\ \A q \in I : i <= q
  OBVIOUS
<1>2. Min(I) = i
  BY <1>0, <1>1, MinIs
<1>3. i # 0 /\ I # {}
  BY <1>1
<1>4. First(i, LAMBDA token : token # Space) = i
  BY <1>2, <1>3, Zenon DEF First, SelectInSubSeq
<1> QED BY <1>3, <1>4, Zenon DEF Number

LEMMA FirstOtherIn ==
  ASSUME msg \in Seq(Int), NEW i \in Nat \ {0}
  PROVE  First(i, LAMBDA token : token # Space) \in {0} \cup (i..Len(msg))
<1> DEFINE I == {q \in i..Len(msg) : msg[q] # Space}
<1>1. First(i, LAMBDA token : token # Space) = IF I # {} THEN Min(I) ELSE 0
  BY Zenon DEF First, SelectInSubSeq
<1>2. I \in SUBSET Nat /\ I \subseteq i..Len(msg)
  OBVIOUS
<1> HIDE DEF I
<1> QED BY <1>1, <1>2, MinIn

LEMMA PastType ==
  ASSUME msg \in Seq(Int), NEW i \in Nat \ {0}, NEW c
  PROVE  Past(i, c) \in Nat \ {0}
<1> DEFINE I == {q \in i..Len(msg) : msg[q] = c}
           at == IF I # {} THEN Min(I) ELSE 0
<1>1. First(i, LAMBDA token : token = c) = at
  BY Zenon DEF First, SelectInSubSeq
<1>2. Past(i, c) = IF at = 0 THEN i ELSE at + 1
  BY <1>1, Zenon DEF Past
<1>3. I \in SUBSET Nat
  OBVIOUS
<1> HIDE DEF I
<1>4. at \in Nat
  BY <1>3, MinIn
<1> HIDE DEF at
<1> QED BY <1>2, <1>4

LEMMA NumberType ==
  ASSUME msg \in Seq(Int), NEW i \in Nat \ {0}
  PROVE  Number(i) \subseteq Int
<1> DEFINE at == First(i, LAMBDA token : token # Space)
<1>1. at \in {0} \cup (i..Len(msg))
  BY FirstOtherIn, Zenon
<1>2. Number(i) = IF at = 0 \/ msg[at] = Bar THEN {} ELSE {msg[at]}
  BY Zenon DEF Number
<1> HIDE DEF at
<1> QED BY <1>1, <1>2

(* The do-while ends when no bar is left. *)
LEMMA BarLeft ==
  ASSUME msg \in Seq(Int), NEW i \in Nat \ {0}
  PROVE  First(i, LAMBDA token : token = Bar) # 0 <=> \E q \in i..Len(msg) : msg[q] = Bar
<1> DEFINE I == {q \in i..Len(msg) : msg[q] = Bar}
<1>1. First(i, LAMBDA token : token = Bar) = IF I # {} THEN Min(I) ELSE 0
  BY Zenon DEF First, SelectInSubSeq
<1>2. I \in SUBSET Nat /\ 0 \notin I
  OBVIOUS
<1>3. I # {} <=> \E q \in i..Len(msg) : msg[q] = Bar
  OBVIOUS
<1> HIDE DEF I
<1> QED BY <1>1, <1>2, <1>3, MinIn

LEMMA Positions ==
  ASSUME msg \in Seq(Int)
  PROVE  /\ Start \in Nat \ {0} /\ Argument \in Nat \ {0} /\ Argument2 \in Nat \ {0}
         /\ Past(Argument, Bar) \in Nat \ {0} /\ Past(Argument2, Bar) \in Nat \ {0}
<1>1. Start \in Nat \ {0}
  BY DEF Start
<1> QED BY <1>1, PastType DEF Argument, Argument2

(* A text whose first command has two arguments, as KeyCommand and MoveCommand
   read it. *)
ReadsTwo(code, a, b, rest) ==
  /\ Number(Start) = {code}
  /\ Number(Argument) = {a} /\ Number(Argument2) = {b}
  /\ Past(Argument2, Bar) = 7 /\ SubSeq(msg, 7, Len(msg)) = rest

LEMMA FrontOfTwo ==
  ASSUME NEW code \in Numbers, NEW a \in Numbers, NEW b \in Numbers, NEW rest \in Seq(Int),
         msg = <<code, Bar, a, Space, b, Bar>> \o rest
  PROVE  ReadsTwo(code, a, b, rest)
<1>1. /\ msg \in Seq(Int) /\ Len(msg) = 6 + Len(rest) /\ Len(rest) \in Nat
      /\ msg[1] = code /\ msg[2] = Bar /\ msg[3] = a /\ msg[4] = Space /\ msg[5] = b /\ msg[6] = Bar
      /\ \A q \in 1..Len(rest) : msg[q + 6] = rest[q]
  BY DEF Numbers, Bar, Space
<1>2. code \notin {Bar, Space} /\ a \notin {Bar, Space} /\ b \notin {Bar, Space} /\ Bar # Space
  BY DEF Numbers, Bar, Space
<1>3. Start = 1
  BY <1>1, <1>2 DEF Start
<1>4. Number(1) = {code}
  <2>1. 1 \in 1..Len(msg) /\ msg[1] = code /\ msg[1] \notin {Bar, Space}
    BY <1>1, <1>2
  <2> QED BY <2>1, NumberIs, Zenon
<1>5. Past(1, Bar) = 3
  BY <1>1, <1>2, PastIs
<1>6. Argument = 3
  BY <1>3, <1>5 DEF Argument
<1>7. Number(3) = {a}
  <2>1. 3 \in 1..Len(msg) /\ msg[3] = a /\ msg[3] \notin {Bar, Space}
    BY <1>1, <1>2
  <2> QED BY <2>1, NumberIs, Zenon
<1>8. Past(3, Space) = 5
  BY <1>1, <1>2, PastIs
<1>9. Argument2 = 5
  BY <1>6, <1>8 DEF Argument2
<1>10. Number(5) = {b}
  <2>1. 5 \in 1..Len(msg) /\ msg[5] = b /\ msg[5] \notin {Bar, Space}
    BY <1>1, <1>2
  <2> QED BY <2>1, NumberIs, Zenon
<1>11. Past(5, Bar) = 7
  BY <1>1, <1>2, PastIs
<1>12. SubSeq(msg, 7, Len(msg)) = rest
  BY <1>1
<1> QED BY <1>3, <1>4, <1>6, <1>7, <1>9, <1>10, <1>11, <1>12 DEF ReadsTwo

(* The same for one argument, as ClickCommand reads it. *)
LEMMA FrontOfOne ==
  ASSUME NEW code \in Numbers, NEW a \in Numbers, NEW rest \in Seq(Int),
         msg = <<code, Bar, a, Bar>> \o rest
  PROVE  /\ Start = 1 /\ Number(Start) = {code} /\ Number(Argument) = {a}
         /\ Past(Argument, Bar) = 5 /\ SubSeq(msg, 5, Len(msg)) = rest
<1>1. /\ msg \in Seq(Int) /\ Len(msg) = 4 + Len(rest) /\ Len(rest) \in Nat
      /\ msg[1] = code /\ msg[2] = Bar /\ msg[3] = a /\ msg[4] = Bar
      /\ \A q \in 1..Len(rest) : msg[q + 4] = rest[q]
  BY DEF Numbers, Bar, Space
<1>2. code \notin {Bar, Space} /\ a \notin {Bar, Space} /\ Bar # Space
  BY DEF Numbers, Bar, Space
<1>3. Start = 1
  BY <1>1, <1>2 DEF Start
<1>4. Number(1) = {code}
  <2>1. 1 \in 1..Len(msg) /\ msg[1] = code /\ msg[1] \notin {Bar, Space}
    BY <1>1, <1>2
  <2> QED BY <2>1, NumberIs, Zenon
<1>5. Past(1, Bar) = 3
  BY <1>1, <1>2, PastIs, SMTT(40)
<1>6. Argument = 3
  BY <1>3, <1>5 DEF Argument
<1>7. Number(3) = {a}
  <2>1. 3 \in 1..Len(msg) /\ msg[3] \notin {Bar, Space}
    BY <1>1, <1>2
  <2> QED BY <1>1, <2>1, NumberIs, Zenon
<1>8. Past(3, Bar) = 5
  BY <1>1, <1>2, PastIs
<1>9. SubSeq(msg, 5, Len(msg)) = rest
  BY <1>1
<1> QED BY <1>3, <1>4, <1>6, <1>7, <1>8, <1>9

-----------------------------------------------------------------------------
(* The inductive invariant: as long as recv has cut the stream between commands,
   the commands written are those done, those in the text being parsed and those
   still to be received, in that order. *)

Typed ==
  /\ commands \in Seq(Command)
  /\ phone \in {"plays", "loggedOut", "gone"}
  /\ wire \in Seq(Int) /\ msg \in Seq(Int)
  /\ thread \in {"fetch", "parse", "left", "refused"}
  /\ events \in Seq(Event)
  /\ whole \in BOOLEAN

Apart(done, held, left) ==
  /\ commands = (done \o held) \o left
  /\ events = MeaningOf(done)
  /\ thread = "parse" => msg # <<>> /\ msg \in {TextOf(held), TextOf(held) \o <<2>>}
  /\ thread # "parse" => held = <<>>
  /\ thread # "refused"
  /\ \/ wire \in {TextOf(left), TextOf(left) \o <<2>>}
     \/ wire = <<>> /\ phone = "gone"
  /\ phone = "plays" => wire = TextOf(left)

Parted == \E done, held, left \in Seq(Command) : Apart(done, held, left)

IInv == Typed /\ (whole => Parted)

(* Another round of the loop if commands are left in the text, and only then. *)
LEMMA ContinueWith ==
  ASSUME msg \in Seq(Int), NEW i \in Nat \ {0}, Continue(i),
         NEW h \in Seq(Command), SubSeq(msg, i, Len(msg)) \in {TextOf(h), TextOf(h) \o << 2 >>}
  PROVE  /\ msg' = SubSeq(msg, i, Len(msg))
         /\ thread' = IF h # <<>> THEN "parse" ELSE "fetch"
         /\ h # <<>> => msg' # <<>>
<1> DEFINE rest == SubSeq(msg, i, Len(msg))
<1>1. /\ rest \in Seq(Int)
      /\ (\E q \in i..Len(msg) : msg[q] = Bar) <=> (\E q \in 1..Len(rest) : rest[q] = Bar)
  <2>1. /\ rest \in Seq(Int) /\ Len(rest) = IF i <= Len(msg) THEN Len(msg) - i + 1 ELSE 0
        /\ \A q \in 1..Len(rest) : rest[q] = msg[q + i - 1]
    OBVIOUS
  <2>2. \A q \in i..Len(msg) : q - i + 1 \in 1..Len(rest) /\ rest[q - i + 1] = msg[q]
    BY <2>1
  <2>3. \A q \in 1..Len(rest) : q + i - 1 \in i..Len(msg)
    BY <2>1
  <2> HIDE DEF rest
  <2> QED BY <2>1, <2>2, <2>3
<1>2. msg' = rest /\ thread' = IF \E q \in 1..Len(rest) : rest[q] = Bar THEN "parse" ELSE "fetch"
  <2>1. thread' = IF First(i, LAMBDA token : token = Bar) # 0 THEN "parse" ELSE "fetch"
    BY Zenon DEF Continue
  <2> QED BY <1>1, <2>1, BarLeft, Zenon DEF Continue
<1>3. TextOf(h) \in Seq(Int)
  BY TextsType, Zenon
<1> HIDE DEF rest
<1>4. CASE h = <<>>
  <2>1. rest \in {<<>>, <<2>>}
    <3>1. <<>> \o <<2>> = <<2>> /\ TextOf(h) = <<>>
      BY <1>4, TextsEmpty
    <3> QED BY <3>1, Zenon DEF rest
  <2>2. ~ \E q \in 1..Len(rest) : rest[q] = Bar
    BY <2>1 DEF Bar
  <2> QED BY <1>2, <1>4, <2>2, Zenon DEF rest
<1>5. CASE h # <<>>
  <2> DEFINE t == TextOf(h)
  <2>1. Len(t) > 0 /\ t[Len(t)] = Bar /\ t \in Seq(Int)
    BY <1>3, <1>5, TextEnds, Zenon
  <2>2. rest \in {t, t \o <<2>>}
    BY Zenon DEF rest
  <2> HIDE DEF t
  <2>3. Len(t) \in 1..Len(rest) /\ rest[Len(t)] = Bar
    <3>1. Len(t) \in 1..Len(t)
      BY <2>1
    <3>2. 2 \in Int
      OBVIOUS
    <3>3. Len(t) \in 1..Len(t \o <<2>>) /\ (t \o <<2>>)[Len(t)] = t[Len(t)]
      BY <2>1, <3>2, BeforeLast, Zenon
    <3> QED BY <2>1, <2>2, <3>1, <3>3, Zenon
  <2>4. rest # <<>>
    BY <2>3
  <2> QED BY <1>2, <1>5, <2>3, <2>4, Zenon DEF rest
<1> QED BY <1>4, <1>5

\* The text the thread holds begins with the first of the commands h.
Leads(h) ==
  \E c \in Command, t \in Seq(Command), rest \in Seq(Int) :
    /\ h = <<c>> \o t /\ msg = Text(c) \o rest
    /\ rest \in {TextOf(t), TextOf(t) \o <<2>>}

(* While it parses, the thread has the text of a command in front or the 2 of a
   logout alone. *)
LEMMA InFront ==
  ASSUME Typed, NEW d \in Seq(Command), NEW h \in Seq(Command), NEW l \in Seq(Command),
         Apart(d, h, l), thread = "parse"
  PROVE  msg = <<2>> \/ Leads(h)
<1>1. msg # <<>> /\ msg \in {TextOf(h), TextOf(h) \o <<2>>}
  BY DEF Apart
<1>2. CASE h = <<>>
  <2>1. TextOf(h) = <<>>
    BY <1>2, TextsEmpty
  <2>2. <<>> \o <<2>> = <<2>>
    OBVIOUS
  <2> QED BY <1>1, <2>1, <2>2
<1>3. CASE h # <<>>
  <2> DEFINE c == Head(h)
             t == Tail(h)
  <2>1. c \in Command /\ t \in Seq(Command) /\ h = <<c>> \o t /\ <<c>> \in Seq(Command)
    <3> HIDE DEF Command
    <3> QED BY <1>3
  <2> HIDE DEF c, t
  <2>2. TextOf(h) = Text(c) \o TextOf(t)
    BY <2>1, TextsConcat, TextsOne, ZenonT(60)
  <2>3. Text(c) \in Seq(Int) /\ TextOf(t) \in Seq(Int) /\ <<2>> \in Seq(Int)
    <3>1. Text(c) \in Seq(Int)
      BY <2>1, TextShape, Zenon
    <3>2. TextOf(t) \in Seq(Int)
      BY <2>1, TextsType, Zenon
    <3> QED BY <3>1, <3>2
  <2>4. (Text(c) \o TextOf(t)) \o <<2>> = Text(c) \o (TextOf(t) \o <<2>>)
    BY <2>3, TokensAssociative, Zenon
  <2>5. TextOf(t) \o <<2>> \in Seq(Int)
    BY <2>3
  <2>6. CASE msg = TextOf(h)
    BY <2>1, <2>2, <2>3, <2>6 DEF Leads
  <2>7. CASE msg = TextOf(h) \o <<2>>
    BY <2>1, <2>2, <2>4, <2>5, <2>7 DEF Leads
  <2> QED BY <1>1, <2>6, <2>7
<1> QED BY <1>2, <1>3

Interprets == KeyCommand \/ ClickCommand \/ MoveCommand

(* With a command in front the thread does what it means and takes its text, all
   of it and no more, and does nothing else. *)
LEMMA KeyInFront ==
  ASSUME NEW c \in Command, c.device = "key", c.code \in Numbers, c.up \in BOOLEAN,
         NEW rest \in Seq(Int), msg = Text(c) \o rest
  PROVE  /\ ~Goodbye /\ ~StillAlive /\ ~Refuse
         /\ Interprets => /\ events' = events \o Meant(c)
                          /\ Continue(7) /\ SubSeq(msg, 7, Len(msg)) = rest
<1> DEFINE a == IF c.up THEN 1 ELSE 0
<1>1. Text(c) = <<10, Bar, a, Space, c.code, Bar>>
  BY Zenon DEF Text
<1>2. 10 \in Numbers /\ a \in Numbers
  BY DEF Numbers, Bar, Space
<1>3. a = IF c.up THEN 1 ELSE 0
  OBVIOUS
<1> HIDE DEF a
<1>4. /\ Number(Start) = {10} /\ Number(Argument) = {a} /\ Number(Argument2) = {c.code}
      /\ Past(Argument2, Bar) = 7 /\ SubSeq(msg, 7, Len(msg)) = rest
  <2>1. msg = <<10, Bar, a, Space, c.code, Bar>> \o rest
    BY <1>1
  <2>2. ReadsTwo(10, a, c.code, rest)
    BY <1>2, <2>1, FrontOfTwo, Zenon
  <2> QED BY <2>2 DEF ReadsTwo
<1>5. ~Code(2) /\ ~Code(3) /\ ~Code(11) /\ ~Code(12)
  BY <1>4 DEF Code
<1>6. Number(Start) \cap {2, 3, 10, 11, 12} # {} /\ Arguments # {}
  <2>1. <<a, c.code>> \in Arguments
    BY <1>4 DEF Arguments
  <2> QED BY <1>4, <2>1
<1>7. KeyEvents(a, c.code) = Meant(c)
  <2>1. a # 0 <=> c.up
    BY <1>3
  <2> QED BY <2>1, Zenon DEF KeyEvents, Meant, pressKey, releaseKey
<1>8. ASSUME KeyCommand
      PROVE  events' = events \o Meant(c) /\ Continue(7)
  <2>1. PICK x \in Number(Argument), k \in Number(Argument2) : events' = events \o KeyEvents(x, k)
    BY <1>8 DEF KeyCommand
  <2>2. x = a /\ k = c.code
    BY <1>4
  <2>3. Continue(7)
    BY <1>4, <1>8, Zenon DEF KeyCommand
  <2> QED BY <1>7, <2>1, <2>2, <2>3
<1> QED BY <1>4, <1>5, <1>6, <1>8 DEF Interprets, Goodbye, StillAlive, Refuse, ClickCommand, MoveCommand

LEMMA MoveInFront ==
  ASSUME NEW c \in Command, c.device = "mouse", c.dx \in Numbers, c.dy \in Numbers,
         NEW rest \in Seq(Int), msg = Text(c) \o rest
  PROVE  /\ ~Goodbye /\ ~StillAlive /\ ~Refuse
         /\ Interprets => /\ events' = Append(events, <<"move", c.dx, c.dy>>)
                          /\ Continue(7) /\ SubSeq(msg, 7, Len(msg)) = rest
<1>1. Text(c) = <<12, Bar, c.dx, Space, c.dy, Bar>>
  BY Zenon DEF Text
<1>2. 12 \in Numbers
  BY DEF Numbers, Bar, Space
<1>4. /\ Number(Start) = {12} /\ Number(Argument) = {c.dx} /\ Number(Argument2) = {c.dy}
      /\ Past(Argument2, Bar) = 7 /\ SubSeq(msg, 7, Len(msg)) = rest
  <2>1. msg = <<12, Bar, c.dx, Space, c.dy, Bar>> \o rest
    BY <1>1
  <2>2. ReadsTwo(12, c.dx, c.dy, rest)
    BY <1>2, <2>1, FrontOfTwo, Zenon
  <2> QED BY <2>2 DEF ReadsTwo
<1>5. ~Code(2) /\ ~Code(3) /\ ~Code(10) /\ ~Code(11)
  BY <1>4 DEF Code
<1>6. Arguments = {<<c.dx, c.dy>>}
  BY <1>4 DEF Arguments
<1>7. ASSUME MoveCommand
      PROVE  events' = Append(events, <<"move", c.dx, c.dy>>) /\ Continue(7)
  <2>1. PICK d \in Arguments : events' = Append(events, <<"move", d[1], d[2]>>)
    BY <1>7 DEF MoveCommand
  <2>2. d[1] = c.dx /\ d[2] = c.dy
    BY <1>6
  <2>3. Continue(7)
    BY <1>4, <1>7, Zenon DEF MoveCommand
  <2> QED BY <2>1, <2>2, <2>3
<1> QED BY <1>4, <1>5, <1>6, <1>7 DEF Interprets, Goodbye, StillAlive, Refuse, ClickCommand, KeyCommand

LEMMA ClickInFront ==
  ASSUME NEW c \in Command, c.device = "button", c.code \in 0..2, c.up \in BOOLEAN,
         NEW rest \in Seq(Int), msg = Text(c) \o rest
  PROVE  /\ ~Goodbye /\ ~StillAlive /\ ~Refuse
         /\ Interprets =>
              /\ events' = Append(events, <<(<<"left", "right", "middle">>)[c.code + 1],
                                            IF c.up THEN "up" ELSE "down">>)
              /\ Continue(5) /\ SubSeq(msg, 5, Len(msg)) = rest
<1> DEFINE a == IF c.up THEN c.code + 3 ELSE c.code
<1>1. Text(c) = <<11, Bar, a, Bar>>
  BY Zenon DEF Text
<1>2. 11 \in Numbers /\ a \in Numbers /\ a \in 0..5
  BY DEF Numbers, Bar, Space
<1>3. MouseEvent(a) = <<(<<"left", "right", "middle">>)[c.code + 1], IF c.up THEN "up" ELSE "down">>
  BY DEF MouseEvent
<1> HIDE DEF a
<1>4. /\ Number(Start) = {11} /\ Number(Argument) = {a}
      /\ Past(Argument, Bar) = 5 /\ SubSeq(msg, 5, Len(msg)) = rest
  BY <1>1, <1>2, FrontOfOne, Zenon
<1>5. ~Code(2) /\ ~Code(3) /\ ~Code(10) /\ ~Code(12)
  BY <1>4 DEF Code
<1>6. ButtonCode = {a}
  BY <1>2, <1>4 DEF ButtonCode
<1>7. ASSUME ClickCommand
      PROVE  events' = Append(events, MouseEvent(a)) /\ Continue(5)
  BY <1>4, <1>6, <1>7, Zenon DEF ClickCommand
<1> QED BY <1>3, <1>4, <1>5, <1>6, <1>7 DEF Interprets, Goodbye, StillAlive, Refuse, KeyCommand, MoveCommand

LEMMA AppendEvent ==
  ASSUME NEW s \in Seq(Event), NEW e, <<e>> \in Seq(Event)
  PROVE  Append(s, e) = s \o <<e>>
<1> DEFINE S == Event
<1>1. s \in Seq(S) /\ <<e>> \in Seq(S)
  OBVIOUS
<1> HIDE DEF S
<1>2. e \in S
  BY <1>1
<1> QED BY <1>1, <1>2, AppendIsConcat

LEMMA CommandInFront ==
  ASSUME Typed, NEW c \in Command, NEW rest \in Seq(Int), msg = Text(c) \o rest
  PROVE  /\ ~Goodbye /\ ~StillAlive /\ ~Refuse
         /\ Interprets => /\ events' = events \o Meant(c)
                          /\ \E i \in Nat \ {0} : Continue(i) /\ SubSeq(msg, i, Len(msg)) = rest
<1>0. events \in Seq(Event)
  BY DEF Typed
<1>1. CASE c.device = "key" /\ c.code \in Numbers /\ c.up \in BOOLEAN
  <2>1. 7 \in Nat \ {0}
    OBVIOUS
  <2> QED BY <1>1, <2>1, KeyInFront, Zenon
<1>2. CASE c.device = "button" /\ c.code \in 0..2 /\ c.up \in BOOLEAN
  <2> DEFINE e == <<(<<"left", "right", "middle">>)[c.code + 1], IF c.up THEN "up" ELSE "down">>
  <2>1. 5 \in Nat \ {0}
    OBVIOUS
  <2>2. Meant(c) = <<e>>
    BY <1>2, Zenon DEF Meant
  <2>3. Append(events, e) = events \o <<e>>
    <3>1. <<e>> \in Seq(Event)
      BY <2>2, MeantType, Zenon
    <3> HIDE DEF e
    <3> QED BY <1>0, <3>1, AppendEvent, Zenon
  <2> QED BY <1>2, <2>1, <2>2, <2>3, ClickInFront, Zenon
<1>3. CASE c.device = "mouse" /\ c.dx \in Numbers /\ c.dy \in Numbers
  <2> DEFINE e == <<"move", c.dx, c.dy>>
  <2>1. 7 \in Nat \ {0}
    OBVIOUS
  <2>2. Meant(c) = <<e>>
    BY <1>3, Zenon DEF Meant
  <2>3. Append(events, e) = events \o <<e>>
    <3>1. <<e>> \in Seq(Event)
      BY <2>2, MeantType, Zenon
    <3> HIDE DEF e
    <3> QED BY <1>0, <3>1, AppendEvent, Zenon
  <2> QED BY <1>3, <2>1, <2>2, <2>3, MoveInFront, Zenon
<1> QED BY <1>1, <1>2, <1>3, CommandKinds

(* With the 2 of a logout alone it leaves. *)
LEMMA LogoutInFront ==
  ASSUME msg = << 2 >>
  PROVE  ~Interprets /\ ~StillAlive /\ ~Refuse
<1>1. /\ Start = 1 /\ Len(msg) = 1 /\ msg[1] = 2
  BY DEF Start, Bar
<1>2. Number(Start) = {2}
  <2>1. 1 \in 1..Len(msg) /\ msg[1] \notin {Bar, Space}
    BY <1>1 DEF Bar, Space
  <2> QED BY <1>1, <2>1, NumberIs, Zenon
<1> QED BY <1>2 DEF Interprets, KeyCommand, ClickCommand, MoveCommand, StillAlive, Refuse, Code

-----------------------------------------------------------------------------
(* Facts about sequences. *)

LEMMA CutInTwo ==
  ASSUME NEW S, NEW s \in Seq(S), NEW n \in 1..Len(s)
  PROVE  /\ SubSeq(s, 1, n) \in Seq(S) /\ SubSeq(s, n + 1, Len(s)) \in Seq(S)
         /\ s = SubSeq(s, 1, n) \o SubSeq(s, n + 1, Len(s))
         /\ Len(SubSeq(s, 1, n)) = n /\ Len(SubSeq(s, n + 1, Len(s))) = Len(s) - n
  OBVIOUS

EndsWith(S, s, t) == \E x \in Seq(S) : s = x \o t

(* Of two sequences that end alike one is the end of the other. *)
LEMMA SameTail ==
  ASSUME NEW S, NEW d \in Seq(S), NEW l \in Seq(S), NEW tail \in Seq(S),
         Len(tail) <= Len(d \o l),
         \A i \in 1..Len(tail) : tail[i] = (d \o l)[Len(d \o l) - Len(tail) + i]
  PROVE  EndsWith(S, l, tail) \/ EndsWith(S, tail, l)
<1>1. /\ Len(d) \in Nat /\ Len(l) \in Nat /\ Len(tail) \in Nat /\ Len(d \o l) = Len(d) + Len(l)
      /\ \A i \in 1..Len(l) : (d \o l)[Len(d) + i] = l[i]
  OBVIOUS
<1>2. CASE Len(tail) <= Len(l)
  <2> DEFINE x == SubSeq(l, 1, Len(l) - Len(tail))
  <2>1. /\ x \in Seq(S) /\ Len(x) = Len(l) - Len(tail)
        /\ \A i \in 1..Len(x) : x[i] = l[i]
    BY <1>1, <1>2
  <2> HIDE DEF x
  <2>2. \A i \in 1..Len(tail) : l[Len(x) + i] = tail[i]
    <3>1. TAKE i \in 1..Len(tail)
    <3>2. Len(x) + i \in 1..Len(l) /\ Len(d) + (Len(x) + i) = Len(d \o l) - Len(tail) + i
      BY <1>1, <1>2, <2>1
    <3> QED BY <1>1, <3>2
  <2>3. l = x \o tail
    <3>1. Len(l) = Len(x \o tail) /\ x \o tail \in Seq(S)
      BY <1>1, <2>1
    <3>2. ASSUME NEW i \in 1..Len(l) PROVE l[i] = (x \o tail)[i]
      <4>1. CASE i <= Len(x)
        BY <1>1, <2>1, <4>1
      <4>2. CASE i > Len(x)
        <5>1. i - Len(x) \in 1..Len(tail) /\ Len(x) + (i - Len(x)) = i
          BY <1>1, <2>1, <4>2
        <5>2. l[i] = tail[i - Len(x)]
          BY <2>2, <5>1
        <5> QED BY <1>1, <2>1, <4>2, <5>2
      <4> QED BY <1>1, <2>1, <4>1, <4>2
    <3> QED BY <3>1, <3>2, SeqEqual
  <2> QED BY <2>1, <2>3 DEF EndsWith
<1>3. CASE Len(tail) > Len(l)
  <2> DEFINE x == SubSeq(tail, 1, Len(tail) - Len(l))
  <2>1. /\ x \in Seq(S) /\ Len(x) = Len(tail) - Len(l)
        /\ \A i \in 1..Len(x) : x[i] = tail[i]
    BY <1>1, <1>3
  <2> HIDE DEF x
  <2>2. \A i \in 1..Len(l) : tail[Len(x) + i] = l[i]
    <3>1. TAKE i \in 1..Len(l)
    <3>2. /\ Len(x) + i \in 1..Len(tail)
          /\ Len(d) + i = Len(d \o l) - Len(tail) + (Len(x) + i)
      BY <1>1, <1>3, <2>1
    <3> QED BY <1>1, <3>2
  <2>3. tail = x \o l
    <3>1. Len(tail) = Len(x \o l) /\ x \o l \in Seq(S)
      BY <1>1, <2>1
    <3>2. ASSUME NEW i \in 1..Len(tail) PROVE tail[i] = (x \o l)[i]
      <4>1. CASE i <= Len(x)
        BY <1>1, <2>1, <4>1
      <4>2. CASE i > Len(x)
        <5>1. i - Len(x) \in 1..Len(l) /\ Len(x) + (i - Len(x)) = i
          BY <1>1, <2>1, <4>2
        <5>2. tail[i] = l[i - Len(x)]
          BY <2>2, <5>1
        <5> QED BY <1>1, <2>1, <4>2, <5>2
      <4> QED BY <1>1, <2>1, <4>1, <4>2
    <3> QED BY <3>1, <3>2, SeqEqual
  <2> QED BY <2>1, <2>3 DEF EndsWith
<1> QED BY <1>1, <1>2, <1>3

LEMMA SameFront ==
  ASSUME NEW s \in Seq(Int), NEW t \in Seq(Int), NEW u \in Seq(Int), s \o u = t \o u
  PROVE  s = t
BY ConcatSimplifications

LEMMA LogoutOrNot ==
  ASSUME NEW w \in {<<>>, << 2 >>}, NEW t \in Seq(Int)
  PROVE  /\ w \in Seq(Int) /\ t \o w \in {t, t \o <<2>>} /\ <<>> \o w = w
         /\ w = <<>> => t \o w = t
         /\ t \o w = t => w = <<>>
         /\ t \o w \in Seq(Int) /\ Len(t \o w) = Len(t) + Len(w)
<1>1. CASE w = <<>>
  BY <1>1
<1>2. CASE w = <<2>>
  <2>1. <<2>> \in Seq(Int) /\ Len(<<2>>) = 1 /\ <<2>> # <<>>
    OBVIOUS
  <2>2. /\ t \o <<2>> \in Seq(Int) /\ Len(t \o <<2>>) = Len(t) + 1 /\ Len(t) \in Nat
        /\ <<>> \o <<2>> = <<2>>
    BY <2>1
  <2>3. t \o <<2>> # t
    BY <2>2
  <2> QED BY <1>2, <2>1, <2>2, <2>3, Zenon
<1> QED BY <1>1, <1>2

-----------------------------------------------------------------------------
(* What each action does to the parts. *)

LEMMA WriteParts ==
  ASSUME Typed, Parted, NEW c \in Command, Write(c)
  PROVE  Parted'
<1>1. PICK d \in Seq(Command), h \in Seq(Command), l \in Seq(Command) : Apart(d, h, l)
  BY DEF Parted
<1>2. <<c>> \in Seq(Command) /\ l \o <<c>> \in Seq(Command) /\ d \o h \in Seq(Command)
  OBVIOUS
<1>3. commands' = (d \o h) \o (l \o <<c>>)
  <2>1. commands' = commands \o <<c>>
    BY AppendIsConcat DEF Write, Typed
  <2>2. commands = (d \o h) \o l
    BY <1>1 DEF Apart
  <2>3. ((d \o h) \o l) \o <<c>> = (d \o h) \o (l \o <<c>>)
    BY <1>2, CommandsAssociative, ZenonT(60)
  <2> QED BY <2>1, <2>2, <2>3
<1>4. wire' = TextOf(l \o <<c>>)
  <2>1. wire = TextOf(l) /\ wire' = wire \o Text(c)
    BY <1>1 DEF Write, Apart
  <2> QED BY <1>2, <2>1, TextsConcat, TextsOne, Zenon
<1>5. Apart(d, h, l \o <<c>>)'
  BY <1>1, <1>3, <1>4 DEF Apart, Write
<1> QED BY <1>2, <1>5 DEF Parted

LEMMA LogoutParts ==
  ASSUME Typed, Parted, Logout
  PROVE  Parted'
<1>1. PICK d \in Seq(Command), h \in Seq(Command), l \in Seq(Command) : Apart(d, h, l)
  BY DEF Parted
<1>2. wire' = TextOf(l) \o <<2>>
  <2>1. wire' = wire \o <<2>>
    BY AppendIsConcat DEF Logout, Typed
  <2> QED BY <1>1, <2>1 DEF Apart, Logout
<1>3. Apart(d, h, l)'
  BY <1>1, <1>2 DEF Apart, Logout
<1> QED BY <1>3 DEF Parted

LEMMA HangUpParts ==
  ASSUME Typed, Parted, HangUp
  PROVE  Parted'
<1>1. PICK d \in Seq(Command), h \in Seq(Command), l \in Seq(Command) : Apart(d, h, l)
  BY DEF Parted
<1>2. Apart(d, h, l)'
  BY <1>1 DEF Apart, HangUp
<1> QED BY <1>2 DEF Parted

LEMMA ReceiveNothingParts ==
  ASSUME Typed, Parted, ReceiveNothing
  PROVE  Parted'
<1>1. PICK d \in Seq(Command), h \in Seq(Command), l \in Seq(Command) : Apart(d, h, l)
  BY DEF Parted
<1>2. h = <<>>
  BY <1>1 DEF Apart, ReceiveNothing
<1>3. TextOf(h) \o <<2>> = <<2>> /\ <<2>> # <<>>
  <2>1. TextOf(h) = <<>> /\ <<>> \o <<2>> = <<2>>
    BY <1>2, TextsEmpty
  <2> QED BY <2>1
<1>4. Apart(d, h, l)'
  BY <1>1, <1>3 DEF Apart, ReceiveNothing
<1> QED BY <1>4 DEF Parted

(* A recv that ends between two commands takes those in front of the cut. *)
LEMMA ReceiveParts ==
  ASSUME Typed, Parted, NEW n \in 1..Len(wire), Receive(n), whole'
  PROVE  Parted'
<1>1. PICK d \in Seq(Command), h \in Seq(Command), l \in Seq(Command) : Apart(d, h, l)
  BY DEF Parted
<1>2. h = <<>> /\ commands = d \o l /\ events = MeaningOf(d)
  <2>1. h = <<>>
    BY <1>1 DEF Apart, Receive
  <2>2. d \o <<>> = d
    OBVIOUS
  <2> QED BY <1>1, <2>1, <2>2 DEF Apart
<1>3. /\ msg' \in Seq(Int) /\ wire' \in Seq(Int) /\ wire = msg' \o wire'
      /\ msg' # <<>> /\ Len(wire) = Len(msg') + Len(wire') /\ Len(msg') > 0
  <2>1. wire \in Seq(Int) /\ msg' = SubSeq(wire, 1, n) /\ wire' = SubSeq(wire, n + 1, Len(wire))
    BY DEF Typed, Receive
  <2>2. /\ msg' \in Seq(Int) /\ wire' \in Seq(Int) /\ wire = msg' \o wire'
        /\ Len(msg') = n /\ Len(wire') = Len(wire) - n
    BY <2>1, CutInTwo, ZenonT(60)
  <2>3. n > 0 /\ Len(wire) \in Nat /\ n \in Nat
    BY <2>1
  <2>4. msg' # <<>>
    BY <2>2, <2>3
  <2> QED BY <2>2, <2>3, <2>4
<1>4. TextOf(l) \in Seq(Int)
  BY TextsType, Zenon
<1>5. PICK w \in {<<>>, <<2>>} : wire = TextOf(l) \o w
  <2>1. wire # <<>>
    BY <1>3
  <2>2. TextOf(l) \o <<>> = TextOf(l)
    BY <1>4
  <2> QED BY <1>1, <2>1, <2>2 DEF Apart
<1>6. phone = "plays" => w = <<>>
  <2>1. phone = "plays" => wire = TextOf(l)
    BY <1>1 DEF Apart
  <2> QED BY <1>4, <1>5, <2>1
<1>7. CASE wire' = <<>>
  <2>1. msg' = TextOf(l) \o w
    <3>1. msg' \o <<>> = msg'
      BY <1>3
    <3> QED BY <1>3, <1>5, <1>7, <3>1, Zenon
  <2>2. TextOf(<<>>) = <<>> /\ <<>> \in Seq(Command) /\ (d \o l) \o <<>> = d \o l
    BY TextsEmpty
  <2>3. msg' \in {TextOf(l), TextOf(l) \o <<2>>}
    BY <1>4, <2>1, LogoutOrNot, Zenon
  <2>4. Apart(d, l, <<>>)'
    BY <1>2, <1>3, <1>7, <2>2, <2>3 DEF Apart, Receive
  <2> QED BY <2>2, <2>4 DEF Parted
<1>8. CASE wire' # <<>>
  <2> DEFINE logout == IF wire' # <<>> /\ Last(wire') = 2 THEN <<2>> ELSE <<>>
             last(k) == [i \in 1..k |-> commands[Len(commands) - k + i]]
  <2>1. PICK k \in 0..Len(commands) :
          wire' = FlattenSeq([i \in 1..k |-> Text(commands[Len(commands) - k + i])]) \o logout
    BY Zenon DEF Receive, BeginsWithCommand
  <2>2. /\ last(k) \in Seq(Command) /\ Len(last(k)) = k /\ k \in Nat
        /\ \A i \in 1..k : last(k)[i] = commands[Len(commands) - k + i]
    BY DEF Typed
  <2>3. wire' = TextOf(last(k)) \o logout
    <3>1. [i \in 1..k |-> Text(commands[Len(commands) - k + i])] = [i \in 1..Len(last(k)) |-> Text(last(k)[i])]
      BY <2>2
    <3> QED BY <2>1, <3>1, Zenon DEF TextOf
  <2>4. logout = w
    <3>1. wire'[Len(wire')] = wire[Len(wire)]
      BY <1>3, <1>8, LastOfConcat
    <3>2. logout = IF wire[Len(wire)] = 2 THEN <<2>> ELSE <<>>
      BY <1>8, <3>1, Zenon DEF Last
    <3>3. CASE w = <<2>>
      <4>1. wire[Len(wire)] = 2
        BY <1>4, <1>5, <3>3
      <4> QED BY <3>2, <3>3, <4>1
    <3>4. CASE w = <<>>
      <4>1. wire = TextOf(l)
        BY <1>4, <1>5, <3>4
      <4>2. l # <<>>
        BY <1>3, <4>1, TextsEmpty
      <4>3. wire[Len(wire)] = Bar
        BY <4>1, <4>2, TextEnds, Zenon
      <4> QED BY <3>2, <3>4, <4>3 DEF Bar
    <3> QED BY <3>3, <3>4
  <2>4a. PICK tail \in Seq(Command) : tail = last(k)
    BY <2>2
  <2>5. tail \in Seq(Command) /\ TextOf(tail) \in Seq(Int) /\ wire' = TextOf(tail) \o w
    BY <2>3, <2>4, <2>4a, TextsType, Zenon
  <2>6. Len(TextOf(tail)) < Len(TextOf(l))
    BY <1>3, <1>4, <1>5, <2>5
  <2>7. /\ Len(tail) <= Len(d \o l)
        /\ \A i \in 1..Len(tail) : tail[i] = (d \o l)[Len(d \o l) - Len(tail) + i]
    BY <1>2, <2>2, <2>4a
  <2> HIDE DEF logout, last
  <2>8. EndsWith(Command, l, tail) \/ EndsWith(Command, tail, l)
    BY <2>5, <2>7, SameTail, Zenon
  <2>9. PICK x \in Seq(Command) : l = x \o tail
    <3>1. ASSUME NEW x \in Seq(Command), tail = x \o l PROVE FALSE
      <4>1. TextOf(tail) = TextOf(x) \o TextOf(l) /\ TextOf(x) \in Seq(Int)
        BY <3>1, TextsConcat, TextsType, Zenon
      <4>2. Len(TextOf(tail)) = Len(TextOf(x)) + Len(TextOf(l))
        BY <1>4, <4>1, ConcatProperties
      <4>3. Len(TextOf(x)) \in Nat /\ Len(TextOf(l)) \in Nat
        BY <1>4, <4>1, LenProperties
      <4> QED BY <2>6, <4>2, <4>3
    <3> QED BY <2>8, <3>1 DEF EndsWith
  <2>10. TextOf(l) = TextOf(x) \o TextOf(tail) /\ TextOf(x) \in Seq(Int)
    BY <2>5, <2>9, TextsConcat, TextsType, Zenon
  <2>11. msg' = TextOf(x)
    <3>1. w \in Seq(Int)
      BY <1>4, LogoutOrNot, Zenon
    <3>2. wire = (TextOf(x) \o TextOf(tail)) \o w
      BY <1>5, <2>10
    <3>3. wire = TextOf(x) \o wire'
      BY <2>5, <2>10, <3>1, <3>2, TokensAssociative, Zenon
    <3> QED BY <1>3, <2>10, <3>3, SameFront, Zenon
  <2>12. commands' = (d \o x) \o tail
    <3>1. commands' = d \o (x \o tail)
      BY <1>2, <2>9 DEF Receive
    <3>2. (d \o x) \o tail = d \o (x \o tail)
      BY <2>5, CommandsAssociative, ZenonT(60)
    <3> QED BY <3>1, <3>2
  <2>13. /\ wire' \in {TextOf(tail), TextOf(tail) \o <<2>>}
         /\ phone = "plays" => wire' = TextOf(tail)
    BY <1>6, <2>5, LogoutOrNot, Zenon
  <2>14. Apart(d, x, tail)'
    BY <1>2, <1>3, <2>11, <2>12, <2>13 DEF Apart, Receive
  <2> QED BY <2>5, <2>9, <2>14 DEF Parted
<1> QED BY <1>7, <1>8

(* The command in front is done, and leaves the text. *)
LEMMA InterpretsParts ==
  ASSUME Typed, Parted, thread = "parse", Interprets
  PROVE  Parted'
<1>1. PICK d \in Seq(Command), h \in Seq(Command), l \in Seq(Command) : Apart(d, h, l)
  BY DEF Parted
<1>2. PICK c \in Command, t \in Seq(Command), rest \in Seq(Int) :
         /\ h = <<c>> \o t /\ msg = Text(c) \o rest
         /\ rest \in {TextOf(t), TextOf(t) \o <<2>>}
  <2>1. msg # <<2>>
    BY LogoutInFront
  <2>2. msg = <<2>> \/ Leads(h)
    BY <1>1, InFront, Zenon
  <2> QED BY <2>1, <2>2, Zenon DEF Leads
<1>3. PICK i \in Nat \ {0} : Continue(i) /\ SubSeq(msg, i, Len(msg)) = rest
  BY <1>2, CommandInFront
<1>4. events' = events \o Meant(c)
  BY <1>2, CommandInFront
<1>5. /\ msg' = rest /\ thread' = IF t # <<>> THEN "parse" ELSE "fetch"
      /\ t # <<>> => msg' # <<>>
  BY <1>2, <1>3, ContinueWith DEF Typed
<1>6. <<c>> \in Seq(Command) /\ d \o <<c>> \in Seq(Command)
  OBVIOUS
<1>7. events' = MeaningOf(d \o <<c>>)
  <2>1. events = MeaningOf(d)
    BY <1>1 DEF Apart
  <2>2. MeaningOf(d \o <<c>>) = MeaningOf(d) \o MeaningOf(<<c>>)
    BY <1>6, TextsConcat, ZenonT(60)
  <2>3. MeaningOf(<<c>>) = Meant(c)
    BY TextsOne, ZenonT(60)
  <2> QED BY <1>4, <2>1, <2>2, <2>3
<1>8. commands = ((d \o <<c>>) \o t) \o l
  <2>1. commands = (d \o (<<c>> \o t)) \o l
    BY <1>1, <1>2 DEF Apart
  <2>2. (d \o <<c>>) \o t = d \o (<<c>> \o t)
    BY <1>6, CommandsAssociative, ZenonT(60)
  <2> QED BY <2>1, <2>2
<1>9. UNCHANGED <<commands, phone, wire>>
  BY DEF Interprets, KeyCommand, ClickCommand, MoveCommand
<1>10. Apart(d \o <<c>>, t, l)'
  BY <1>1, <1>2, <1>5, <1>7, <1>8, <1>9 DEF Apart
<1> QED BY <1>6, <1>10 DEF Parted

LEMMA GoodbyeParts ==
  ASSUME Typed, Parted, Goodbye
  PROVE  Parted'
<1>1. PICK d \in Seq(Command), h \in Seq(Command), l \in Seq(Command) : Apart(d, h, l)
  BY DEF Parted
<1>2. msg = <<2>>
  <2>1. msg = <<2>> \/ Leads(h)
    <3>1. thread = "parse"
      BY DEF Goodbye, Code
    <3> QED BY <1>1, <3>1, InFront, Zenon
  <2>2. ASSUME Leads(h) PROVE FALSE
    BY <2>2, CommandInFront, Zenon DEF Leads
  <2> QED BY <2>1, <2>2, Zenon
<1>3. h = <<>>
  <2>1. SUFFICES ASSUME h # <<>> PROVE FALSE
    OBVIOUS
  <2>2. PICK u \in {<<>>, <<2>>} : msg = TextOf(h) \o u
    <3>1. TextOf(h) \in Seq(Int)
      BY TextsType, Zenon
    <3>2. TextOf(h) \o <<>> = TextOf(h)
      BY <3>1
    <3> QED BY <1>1, <3>2 DEF Apart, Goodbye, Code
  <2>3. Len(TextOf(h)) > 0 /\ TextOf(h)[Len(TextOf(h))] = Bar /\ TextOf(h) \in Seq(Int)
    BY <2>1, TextEnds, TextsType, Zenon
  <2>4. Len(TextOf(h) \o u) = Len(TextOf(h)) + Len(u) /\ Len(TextOf(h)) \in Nat
    BY <2>3, LogoutOrNot
  <2>5. Len(TextOf(h)) = 1 /\ u = <<>>
    BY <1>2, <2>2, <2>3, <2>4
  <2>6. msg = TextOf(h)
    BY <2>2, <2>3, <2>5, LogoutOrNot, Zenon
  <2> QED BY <1>2, <2>3, <2>5, <2>6 DEF Bar
<1>4. Apart(d, h, l)'
  BY <1>1, <1>3 DEF Apart, Goodbye
<1> QED BY <1>4 DEF Parted

LEMMA NeitherRefusedNorAlive ==
  ASSUME Typed, Parted
  PROVE  ~StillAlive /\ ~Refuse
<1>1. PICK d \in Seq(Command), h \in Seq(Command), l \in Seq(Command) : Apart(d, h, l)
  BY DEF Parted
<1>2. CASE thread = "parse"
  <2>1. msg = <<2>> \/ Leads(h)
    BY <1>1, <1>2, InFront, Zenon
  <2>2. CASE msg = <<2>>
    BY <2>2, LogoutInFront, Zenon
  <2>3. CASE Leads(h)
    BY <2>3, CommandInFront, Zenon DEF Leads
  <2> QED BY <2>1, <2>2, <2>3, Zenon
<1>3. CASE thread # "parse"
  BY <1>3 DEF StillAlive, Refuse, Code
<1> QED BY <1>2, <1>3

-----------------------------------------------------------------------------
(* Types. *)

LEMMA EventTypes ==
  /\ \A k \in Int : pressKey(k) \in Event /\ releaseKey(k) \in Event
  /\ \A c \in 0..5 : MouseEvent(c) \in Event
  /\ \A x, y \in Int : <<"move", x, y>> \in Event
<1>1. ASSUME NEW k \in Int PROVE pressKey(k) \in Event /\ releaseKey(k) \in Event
  BY DEF Event, pressKey, releaseKey
<1>2. ASSUME NEW c \in 0..5 PROVE MouseEvent(c) \in Event
  <2>1. MouseEvent(c) \in {"left", "right", "middle"} \X {"down", "up"}
    BY DEF MouseEvent
  <2> QED BY <2>1 DEF Event
<1>3. ASSUME NEW x \in Int, NEW y \in Int PROVE <<"move", x, y>> \in Event
  BY DEF Event
<1> QED BY <1>1, <1>2, <1>3

LEMMA KeyEventsType ==
  ASSUME NEW a, NEW k \in Int
  PROVE  KeyEvents(a, k) \in Seq(Event)
<1> DEFINE d == pressKey(k)
           u == releaseKey(k)
           S == Event
<1>1. d \in S /\ u \in S
  BY EventTypes
<1>2. KeyEvents(a, k) \in {<<d>> \o <<u>>, <<>> \o <<u>>, <<d>>}
  BY Zenon DEF KeyEvents
<1> HIDE DEF d, u, S
<1>3. <<d>> \o <<u>> \in Seq(S) /\ <<>> \o <<u>> \in Seq(S) /\ <<d>> \in Seq(S)
  BY <1>1
<1>4. KeyEvents(a, k) \in Seq(S)
  BY <1>2, <1>3
<1> QED BY <1>4 DEF S

LEMMA EventsGrow ==
  ASSUME NEW s \in Seq(Event), NEW t \in Seq(Event), NEW e \in Event
  PROVE  s \o t \in Seq(Event) /\ Append(s, e) \in Seq(Event)
<1> DEFINE S == Event
<1>1. s \in Seq(S) /\ t \in Seq(S) /\ e \in S
  OBVIOUS
<1> HIDE DEF S
<1>2. s \o t \in Seq(S) /\ Append(s, e) \in Seq(S)
  BY <1>1
<1> QED BY <1>2 DEF S

LEMMA TypedInit == Init => Typed
BY DEF Init, Typed

LEMMA TypedNext ==
  ASSUME Typed, [Next]_vars
  PROVE  Typed'
<1> USE DEF Typed
<1>1. ASSUME NEW c \in Command, Write(c) PROVE Typed'
  <2>1. Text(c) \in Seq(Int)
    BY TextShape, Zenon
  <2>2. wire \o Text(c) \in Seq(Int)
    BY <2>1
  <2>3. Append(commands, c) \in Seq(Command)
    BY AppendProperties
  <2> QED BY <1>1, <2>2, <2>3 DEF Write
<1>2. ASSUME Logout PROVE Typed'
  BY <1>2 DEF Logout
<1>3. ASSUME HangUp PROVE Typed'
  <2>1. <<>> \in Seq(Int)
    OBVIOUS
  <2> QED BY <1>3, <2>1 DEF HangUp
<1>4. ASSUME NEW n \in 1..Len(wire), Receive(n) PROVE Typed'
  <2>1. SubSeq(wire, 1, n) \in Seq(Int) /\ SubSeq(wire, n + 1, Len(wire)) \in Seq(Int)
    OBVIOUS
  <2>2. whole' \in BOOLEAN
    BY <1>4 DEF Receive
  <2> QED BY <1>4, <2>1, <2>2 DEF Receive
<1>5. ASSUME NEW n \in 1..Len(wire), ReceiveInside(n) PROVE Typed'
  <2>1. SubSeq(wire, 1, n - 1) \in Seq(Int) /\ SubSeq(wire, n + 1, Len(wire)) \in Seq(Int)
    OBVIOUS
  <2>2. wire[n] \div 10 \in Int /\ <<wire[n] % 10>> \in Seq(Int)
    BY <1>5, SMTT(40) DEF ReceiveInside
  <2>3. /\ Append(SubSeq(wire, 1, n - 1), wire[n] \div 10) \in Seq(Int)
        /\ <<wire[n] % 10>> \o SubSeq(wire, n + 1, Len(wire)) \in Seq(Int)
    BY <2>1, <2>2
  <2> QED BY <1>5, <2>3 DEF ReceiveInside
<1>6. ASSUME ReceiveNothing PROVE Typed'
  BY <1>6 DEF ReceiveNothing
<1>7. ASSUME NEW i \in Nat \ {0}, Continue(i)
      PROVE  msg' \in Seq(Int) /\ thread' \in {"fetch", "parse"}
  <2>1. SubSeq(msg, i, Len(msg)) \in Seq(Int)
    OBVIOUS
  <2> QED BY <1>7, <2>1, Zenon DEF Continue
<1>8. /\ Number(Argument) \subseteq Int /\ Number(Argument2) \subseteq Int
      /\ Start \in Nat \ {0}
      /\ Past(Argument, Bar) \in Nat \ {0} /\ Past(Argument2, Bar) \in Nat \ {0}
  BY Positions, NumberType
<1>9. ASSUME KeyCommand PROVE Typed'
  <2>1. PICK a \in Number(Argument), k \in Number(Argument2) : events' = events \o KeyEvents(a, k)
    BY <1>9 DEF KeyCommand
  <2>2. events' \in Seq(Event)
    BY <1>8, <2>1, KeyEventsType, EventsGrow, EventTypes
  <2>3. msg' \in Seq(Int) /\ thread' \in {"fetch", "parse"}
    BY <1>7, <1>8, <1>9, Zenon DEF KeyCommand
  <2> QED BY <1>9, <2>2, <2>3 DEF KeyCommand
<1>10. ASSUME ClickCommand PROVE Typed'
  <2>1. PICK code \in ButtonCode : events' = Append(events, MouseEvent(code))
    BY <1>10 DEF ClickCommand
  <2>2. events' \in Seq(Event)
    BY <2>1, EventsGrow, EventTypes DEF ButtonCode
  <2>3. msg' \in Seq(Int) /\ thread' \in {"fetch", "parse"}
    BY <1>7, <1>8, <1>10, Zenon DEF ClickCommand
  <2> QED BY <1>10, <2>2, <2>3 DEF ClickCommand
<1>11. ASSUME MoveCommand PROVE Typed'
  <2>1. PICK d \in Arguments : events' = Append(events, <<"move", d[1], d[2]>>)
    BY <1>11 DEF MoveCommand
  <2>2. d[1] \in Int /\ d[2] \in Int
    BY <1>8 DEF Arguments
  <2>3. events' \in Seq(Event)
    BY <2>1, <2>2, EventsGrow, EventTypes
  <2>4. msg' \in Seq(Int) /\ thread' \in {"fetch", "parse"}
    BY <1>7, <1>8, <1>11, Zenon DEF MoveCommand
  <2> QED BY <1>11, <2>3, <2>4 DEF MoveCommand
<1>12. ASSUME Goodbye PROVE Typed'
  <2>1. SubSeq(msg, Start, Len(msg)) \in Seq(Int)
    BY <1>8
  <2> QED BY <1>12, <2>1 DEF Goodbye
<1>13. ASSUME StillAlive PROVE Typed'
  <2>1. msg' \in Seq(Int) /\ thread' \in {"fetch", "parse"}
    BY <1>7, <1>8, <1>13, Zenon DEF StillAlive
  <2> QED BY <1>13, <2>1 DEF StillAlive
<1>14. ASSUME Refuse PROVE Typed'
  BY <1>14 DEF Refuse
<1>15. ASSUME UNCHANGED vars PROVE Typed'
  BY <1>15 DEF vars
<1> QED BY <1>1, <1>2, <1>3, <1>4, <1>5, <1>6, <1>9, <1>10, <1>11, <1>12, <1>13, <1>14, <1>15
        DEF Next, Phone, Server

LEMMA TypedImpliesTypeOK == Typed => TypeOK
<1>1. ASSUME NEW e \in Event PROVE e[1] \in {"key", "left", "right", "middle", "move"}
  BY DEF Event
<1>2. ASSUME events \in Seq(Event), NEW i \in DOMAIN events PROVE events[i] \in Event
  <2> DEFINE S == Event
  <2>1. events \in Seq(S)
    BY <1>2
  <2> HIDE DEF S
  <2>2. events[i] \in S
    BY <1>2, <2>1
  <2> QED BY <2>2 DEF S
<1> QED BY <1>1, <1>2 DEF Typed, TypeOK

-----------------------------------------------------------------------------
(* IInv is inductive and implies what the runs check. *)

LEMMA IInvInit == Init => IInv
<1>1. SUFFICES ASSUME Init PROVE Parted
  BY TypedInit DEF IInv
<1>2. <<>> \in Seq(Command) /\ (<<>> \o <<>>) \o <<>> = <<>>
  OBVIOUS
<1>3. TextOf(<<>>) = <<>> /\ MeaningOf(<<>>) = <<>>
  BY TextsEmpty
<1>4. Apart(<<>>, <<>>, <<>>)
  BY <1>1, <1>2, <1>3 DEF Init, Apart
<1> QED BY <1>2, <1>4 DEF Parted

LEMMA IInvNext == IInv /\ [Next]_vars => IInv'
<1>1. SUFFICES ASSUME IInv, [Next]_vars, whole' PROVE Parted'
  BY TypedNext DEF IInv
<1>2. Typed
  BY <1>1 DEF IInv
<1>3. whole
  <2>1. ASSUME NEW n \in 1..Len(wire), Receive(n) PROVE whole
    BY <1>1, <1>2, <2>1 DEF Receive, Typed
  <2> QED BY <1>1, <2>1 DEF Next, Phone, Server, Write, Logout, HangUp, ReceiveInside, ReceiveNothing,
              KeyCommand, ClickCommand, MoveCommand, Goodbye, StillAlive, Refuse, vars
<1>4. Parted
  BY <1>1, <1>3 DEF IInv
<1>5. ASSUME NEW c \in Command, Write(c) PROVE Parted'
  BY <1>2, <1>4, <1>5, WriteParts
<1>6. CASE Logout
  BY <1>2, <1>4, <1>6, LogoutParts
<1>7. CASE HangUp
  BY <1>2, <1>4, <1>7, HangUpParts
<1>8. ASSUME NEW n \in 1..Len(wire), Receive(n) PROVE Parted'
  BY <1>1, <1>2, <1>4, <1>8, ReceiveParts
<1>9. ASSUME NEW n \in 1..Len(wire), ReceiveInside(n) PROVE Parted'
  BY <1>1, <1>9 DEF ReceiveInside
<1>10. CASE ReceiveNothing
  BY <1>2, <1>4, <1>10, ReceiveNothingParts
<1>11. CASE KeyCommand \/ ClickCommand \/ MoveCommand
  <2>1. thread = "parse" /\ Interprets
    BY <1>11 DEF Interprets, KeyCommand, ClickCommand, MoveCommand, Code
  <2> QED BY <1>2, <1>4, <2>1, InterpretsParts
<1>12. CASE Goodbye
  BY <1>2, <1>4, <1>12, GoodbyeParts
<1>13. CASE StillAlive \/ Refuse
  BY <1>2, <1>4, <1>13, NeitherRefusedNorAlive
<1>14. CASE UNCHANGED vars
  BY <1>4, <1>14 DEF vars, Parted, Apart
<1> QED BY <1>1, <1>5, <1>6, <1>7, <1>8, <1>9, <1>10, <1>11, <1>12, <1>13, <1>14 DEF Next, Phone, Server

LEMMA MeaningIs ==
  ASSUME commands \in Seq(Command)
  PROVE  Meaning = MeaningOf(commands)
<1>1. DOMAIN commands = 1..Len(commands)
  OBVIOUS
<1> QED BY <1>1, Zenon DEF Meaning, MeaningOf

LEMMA IInvFollows == IInv => EventsFollowCommands
<1>1. SUFFICES ASSUME Typed, Parted PROVE IsPrefix(events, Meaning)
  BY DEF IInv, EventsFollowCommands
<1>2. PICK d \in Seq(Command), h \in Seq(Command), l \in Seq(Command) : Apart(d, h, l)
  BY <1>1 DEF Parted
<1>3. commands = d \o (h \o l) /\ h \o l \in Seq(Command)
  <2>1. h \o l \in Seq(Command) /\ commands = (d \o h) \o l
    BY <1>2 DEF Apart
  <2> QED BY <2>1, CommandsAssociative
<1>4. Meaning = events \o MeaningOf(h \o l)
  BY <1>1, <1>2, <1>3, MeaningIs, TextsConcat DEF Apart, Typed
<1> DEFINE S == Event
           m == MeaningOf(h \o l)
<1>5. events \in Seq(S) /\ m \in Seq(S)
  BY <1>1, <1>3, TextsType DEF Typed
<1> HIDE DEF S, m
<1>6. Len(events) <= Len(events \o m) /\ SubSeq(events, 1, Len(events)) = SubSeq(events \o m, 1, Len(events))
  BY <1>5
<1> QED BY <1>4, <1>6 DEF m, IsPrefix

LEMMA IInvLeaves == IInv => NothingLeftBehind
<1>1. SUFFICES ASSUME Typed, Parted
               PROVE  /\ thread # "refused"
                      /\ thread = "fetch" /\ wire = <<>> /\ phone # "gone" => events = Meaning
  BY DEF IInv, NothingLeftBehind
<1>2. PICK d \in Seq(Command), h \in Seq(Command), l \in Seq(Command) : Apart(d, h, l)
  BY <1>1 DEF Parted
<1>3. ASSUME thread = "fetch", wire = <<>>, phone # "gone" PROVE events = Meaning
  <2>1. h = <<>>
    BY <1>2, <1>3 DEF Apart
  <2>2. TextOf(l) = <<>>
    <3>1. TextOf(l) \in Seq(Int)
      BY TextsType, Zenon
    <3>2. wire \in {TextOf(l), TextOf(l) \o <<2>>}
      BY <1>2, <1>3 DEF Apart
    <3>3. TextOf(l) \o <<2>> # <<>>
      BY <3>1
    <3> QED BY <1>3, <3>2, <3>3
  <2>3. l = <<>>
    <3>1. Len(<<>>) = 0
      OBVIOUS
    <3> QED BY <2>2, <3>1, TextEnds
  <2>4. commands = d
    BY <1>2, <2>1, <2>3 DEF Apart
  <2> QED BY <1>1, <1>2, <2>4, MeaningIs DEF Apart, Typed
<1> QED BY <1>2, <1>3 DEF Apart

(* The commands written are those done, those in the text and those still to come. *)
THEOREM PartsInvariant == Spec => []IInv
BY IInvInit, IInvNext, PTL DEF Spec

(* The texts stay numbers, bars and spaces and the events those SendInput knows,
   even where recv cuts a command apart (ServerLogic.cpp:85-281). *)
THEOREM TypeCorrect == Spec => []TypeOK
<1>1. IInv => TypeOK
  BY TypedImpliesTypeOK DEF IInv
<1> QED BY <1>1, PartsInvariant, PTL

(* What has been injected is what the first commands mean, in the order in which
   the phone wrote them and none twice, as long as every recv ended between two
   commands, however many it took at once (ServerLogic.cpp:101-267). *)
THEOREM EventsFollow == Spec => []EventsFollowCommands
BY IInvFollows, PartsInvariant, PTL

(* Nothing is left unread in a text that several commands share, and a player
   whose commands arrive whole is never answered with 201 (ServerLogic.cpp:
   101-118, 132-188, 261-267). *)
THEOREM LeftBehind == Spec => []NothingLeftBehind
BY IInvLeaves, PartsInvariant, PTL

-----------------------------------------------------------------------------
(* The listeners. *)

Shapes ==
  /\ stack \in Seq(Activity)
  /\ listeners \in Seq(Activity)
  /\ ui \in {"idle", "check", "add"}
  /\ ui # "idle" => stack # <<>>
  /\ opens \in 0..MaxOpens

ListenInv == Shapes /\ OpenListens

(* What opening or resuming an activity does to the stack and to the list. *)
LEMMA LastIsIn ==
  ASSUME NEW S, NEW s \in Seq(S), s # <<>>
  PROVE  Len(s) \in DOMAIN s /\ Last(s) = s[Len(s)] /\ Last(s) \in S
BY DEF Last

LEMMA FrontIsPrefix ==
  ASSUME NEW S, NEW s \in Seq(S), s # <<>>
  PROVE  /\ Front(s) \in Seq(S) /\ Len(Front(s)) = Len(s) - 1
         /\ \A i \in 1..Len(s) - 1 : Front(s)[i] = s[i]
         /\ DOMAIN Front(s) = 1..Len(s) - 1
<1> DEFINE n == Len(s) - 1
           f == SubSeq(s, 1, n)
<1>1. n \in Nat /\ \A i \in 1..n : s[i] \in S
  OBVIOUS
<1>2. Front(s) = f
  BY DEF Front
<1> HIDE DEF n
<1>3. /\ f \in Seq(S) /\ Len(f) = IF 1 <= n THEN n - 1 + 1 ELSE 0
      /\ \A i \in 1..n - 1 + 1 : f[i] = s[1 + i - 1]
  BY <1>1, SubSeqProperties
<1> HIDE DEF f
<1>4. Len(f) = n /\ \A i \in 1..n : f[i] = s[i]
  BY <1>1, <1>3
<1>5. DOMAIN f = 1..n
  BY <1>3, <1>4
<1> QED BY <1>2, <1>3, <1>4, <1>5 DEF n

LEMMA ContainsGrows ==
  ASSUME NEW S, NEW s \in Seq(S), NEW e \in S
  PROVE  /\ Contains(Append(s, e), e)
         /\ \A a : Contains(s, a) => Contains(Append(s, e), a)
<1>1. Append(s, e) \in Seq(S) /\ Len(Append(s, e)) = Len(s) + 1
  OBVIOUS
<1>2. Append(s, e)[Len(s) + 1] = e /\ \A i \in 1..Len(s) : Append(s, e)[i] = s[i]
  OBVIOUS
<1>3. Len(s) \in Nat
  OBVIOUS
<1> QED BY <1>1, <1>2, <1>3 DEF Contains

LEMMA InitListenInv == ScreensInit => ListenInv
<1> SUFFICES ASSUME ScreensInit PROVE ListenInv
  OBVIOUS
<1>1. Shapes
  BY BoundAssumption DEF ScreensInit, Shapes, Activity
<1>2. OpenListens
  BY DEF ScreensInit, OpenListens
<1> QED BY <1>1, <1>2 DEF ListenInv

LEMMA NextListenInv == ListenInv /\ [ScreensNext]_screensVars => ListenInv'
<1> SUFFICES ASSUME ListenInv, [ScreensNext]_screensVars
             PROVE  ListenInv'
  OBVIOUS
<1> USE DEF ListenInv
<1>1. CASE ResumeCheck
  BY <1>1 DEF ResumeCheck, reporters, Shapes, OpenListens
<1>2. CASE ResumeAdd
  <2>1. stack' = stack /\ ui' = "idle" /\ listeners' = Append(listeners, Last(stack)) /\ opens' = opens
    BY <1>2 DEF ResumeAdd
  <2>2. stack # <<>>
    BY <1>2 DEF ResumeAdd, Shapes
  <2>3. Last(stack) = stack[Len(stack)] /\ Last(stack) \in Activity
    BY <2>2, LastIsIn DEF Shapes
  <2>4. Shapes'
    BY <2>1, <2>3 DEF Shapes
  <2>5. ASSUME NEW i \in DOMAIN stack PROVE Contains(listeners', stack[i])
    <3>1. CASE i < Len(stack)
      BY <2>1, <2>3, <3>1, ContainsGrows DEF Shapes, OpenListens
    <3>2. CASE i = Len(stack)
      BY <2>1, <2>3, <3>2, ContainsGrows DEF Shapes
    <3> QED BY <3>1, <3>2 DEF Shapes
  <2> QED BY <2>1, <2>4, <2>5 DEF OpenListens
<1>3. CASE Open
  <2>1. stack' = Append(stack, opens + 2) /\ opens' = opens + 1 /\ ui' = "check" /\ listeners' = listeners
    BY <1>3 DEF Open
  <2>2. opens + 2 \in Activity /\ opens' \in 0..MaxOpens
    BY <1>3, BoundAssumption DEF Open, Shapes, Activity
  <2>3. Shapes'
    BY <2>1, <2>2 DEF Shapes
  <2>4. \A i \in DOMAIN stack : Contains(listeners, stack[i])
    BY <1>3 DEF Open, OpenListens
  <2>5. \A i \in DOMAIN stack' : i < Len(stack') => i \in DOMAIN stack /\ stack'[i] = stack[i]
    BY <2>1, <2>2 DEF Shapes
  <2> QED BY <2>1, <2>3, <2>4, <2>5 DEF OpenListens
<1>4. ASSUME Close PROVE ListenInv'
  <2>1. stack' = Front(stack) /\ stack # <<>> /\ ui = "idle"
        /\ ui' = (IF Len(stack) > 1 THEN "check" ELSE "idle") /\ listeners' = listeners /\ opens' = opens
    BY <1>4 DEF Close
  <2>2. Shapes'
    BY <2>1, FrontIsPrefix DEF Shapes
  <2>3. \A i \in DOMAIN stack' : i \in DOMAIN stack /\ stack'[i] = stack[i]
    BY <2>1, FrontIsPrefix DEF Shapes
  <2> QED BY <2>1, <2>2, <2>3 DEF OpenListens
<1>5. ASSUME NEW r \in Reporter, Fail(r) \/ onError(r)
      PROVE  ListenInv'
  BY <1>5 DEF Fail, onError, OnErrorTest, Notify, NotifyThrows, OnErrorEnd, SetErr, screen, Shapes, OpenListens
<1>6. CASE UNCHANGED screensVars
  BY <1>6 DEF screensVars, Shapes, OpenListens
<1>7. QED
  BY <1>1, <1>2, <1>3, <1>4, <1>5, <1>6 DEF ScreensNext, Resume, Finished, Back

(* However activities are opened and left (ChooseTemplate.java:26-46,
   TemplateChooseOptions.java:34-63) onError finds each open one in the list. *)
THEOREM OpenOnesListen == ScreensSpec => []OpenListens
<1>1. ListenInv => OpenListens
  BY DEF ListenInv
<1>2. QED
  BY <1>1, InitListenInv, NextListenInv, PTL DEF ScreensSpec

-----------------------------------------------------------------------------
(* All that matters of the types: sizes, read or stored, are naturals. *)
SizesAreNaturals ==
  /\ size \in Nat
  /\ seen \in [Producers -> Nat]
  /\ sender = "store" => sizeSeen \in Nat \ {0}

QueueInv == SizesAreNaturals /\ RemoveDoesNotThrow

(* The list is empty at first, and nobody is about to remove from it. *)
LEMMA QueueBegins == QueueInit => QueueInv
  BY DEF QueueInit, QueueInv, SizesAreNaturals, RemoveDoesNotThrow

(* No step of a producer or of SendMessage breaks the invariant. *)
LEMMA QueueStep == QueueInv /\ [QueueNext]_queueVars => QueueInv'
<1> SUFFICES ASSUME QueueInv, [QueueNext]_queueVars
             PROVE  QueueInv'
  OBVIOUS
<1> USE DEF QueueInv, SizesAreNaturals, RemoveDoesNotThrow
<1>1. ASSUME NEW p \in Producers, AddLoad(p)
      PROVE  QueueInv'
  BY <1>1 DEF AddLoad
<1>2. ASSUME NEW p \in Producers, AddStore(p)
      PROVE  QueueInv'
  BY <1>2 DEF AddStore
<1>3. CASE Poll
  BY <1>3 DEF Poll
<1>4. CASE RemoveLoad
  BY <1>4 DEF RemoveLoad
<1>5. CASE RemoveStore
  BY <1>5 DEF RemoveStore
<1>6. CASE UNCHANGED queueVars
  BY <1>6 DEF queueVars
<1>7. QED
  BY <1>1, <1>2, <1>3, <1>4, <1>5, <1>6 DEF QueueNext

(* ArrayList.remove(0) never throws in getFirstSend (ClientLogic.java:67),
   although neither add nor remove is synchronised. *)
THEOREM RemoveNeverThrows == QueueSpec => []RemoveDoesNotThrow
<1>1. QueueInv => RemoveDoesNotThrow
  BY DEF QueueInv
<1>2. QED
  BY <1>1, QueueBegins, QueueStep, PTL DEF QueueSpec

-----------------------------------------------------------------------------
(* No message goes out twice.  Of every message there is at most one copy, in the
   array or with the sender, and none once it was sent; and a producer has still
   to write the last message it began.  That the slots suffice is a matter of
   counting: a size is never more than the number of messages begun. *)
Begun == {m \in Message : m[2] <= added[m[1]]}
Old == {m \in Begun : producer[m[1]] = "store" => m[2] # added[m[1]]}

Types ==
  /\ array \in [Slots -> Message \cup {Null}]
  /\ producer \in [Producers -> {"idle", "store"}]
  /\ added \in [Producers -> 0..MaxAdds]
  /\ \A p \in Producers : producer[p] = "store" => added[p] # 0
  /\ seen \in [Producers -> Nat]
  /\ size \in Nat /\ sizeSeen \in Nat
  /\ sender \in {"poll", "load", "store", "dead"}
  /\ sent \in Seq(Message \cup {Null})
  /\ result \in Message \cup {Null}

SizesCount ==
  /\ size <= Cardinality(Begun)
  /\ \A p \in Producers : producer[p] = "store" => seen[p] < Cardinality(Begun)
  /\ sender = "store" => sizeSeen # 0 /\ sizeSeen <= Cardinality(Begun)

OneCopy ==
  /\ \A i, j \in Slots : array[i] = array[j] /\ array[i] # Null => i = j
  /\ \A i \in Slots : array[i] # Null => array[i] \in Old /\ \A k \in DOMAIN sent : sent[k] # array[i]
  /\ sender = "store" /\ result # Null =>
       /\ result \in Old
       /\ \A i \in Slots \ {0} : array[i] # result
       /\ \A k \in DOMAIN sent : sent[k] # result
  /\ \A k \in DOMAIN sent : sent[k] # Null => sent[k] \in Old

SentInv == Types /\ SizesCount /\ OneCopy /\ NoneSentTwice /\ RemoveDoesNotThrow

LEMMA NullIsNone == Null \notin Message
  BY DEF Null, Message

(* As many messages as slots, but one. *)
LEMMA BegunFits ==
  ASSUME Types
  PROVE  /\ IsFiniteSet(Begun) /\ Cardinality(Begun) \in Nat
         /\ Cardinality(Begun) \in Slots
         /\ Slots = 0..(Cardinality(Producers) * MaxAdds)
         /\ Cardinality(Producers) * MaxAdds \in Nat
<1>1. IsFiniteSet(1..MaxAdds) /\ Cardinality(1..MaxAdds) = MaxAdds
  BY ProducersAssumption, FS_Interval
<1>2. IsFiniteSet(Message) /\ Cardinality(Message) = Cardinality(Producers) * MaxAdds
  BY <1>1, ProducersAssumption, FS_Product DEF Message
<1>3. IsFiniteSet(Begun) /\ Cardinality(Begun) <= Cardinality(Message)
  BY <1>2, FS_Subset DEF Begun
<1>4. Cardinality(Begun) \in Nat /\ Cardinality(Message) \in Nat
  BY <1>2, <1>3, FS_CardinalityType
<1> QED BY <1>2, <1>3, <1>4 DEF Slots

LEMMA InitSentInv == QueueInit => SentInv
<1> SUFFICES ASSUME QueueInit PROVE SentInv
  OBVIOUS
<1>1. Types
  BY ProducersAssumption DEF QueueInit, Types
<1>2. SizesCount
  BY <1>1, BegunFits DEF QueueInit, SizesCount
<1>3. OneCopy /\ NoneSentTwice /\ RemoveDoesNotThrow
  BY DEF QueueInit, OneCopy, NoneSentTwice, RemoveDoesNotThrow
<1> QED BY <1>1, <1>2, <1>3 DEF SentInv

(* A producer begins a message: there is one more, and it is nowhere yet. *)
LEMMA AddLoadKeeps ==
  ASSUME SentInv, NEW p \in Producers, AddLoad(p)
  PROVE  SentInv'
<1> USE DEF SentInv
<1> DEFINE new == <<p, added[p] + 1>>
<1>1. new \in Message /\ new \notin Begun
  <2>1. added[p] \in 0..MaxAdds /\ added[p] < MaxAdds
    BY DEF AddLoad, Types
  <2>2. added[p] + 1 \in 1..MaxAdds /\ ~(added[p] + 1 <= added[p])
    BY <2>1, ProducersAssumption
  <2>3. new[1] = p /\ new[2] = added[p] + 1
    OBVIOUS
  <2> QED BY <2>2, <2>3 DEF Message, Begun
<1>2. Types'
  <2>1. added' \in [Producers -> 0..MaxAdds] /\ added[p] + 1 # 0
    BY ProducersAssumption DEF AddLoad, Types
  <2> QED BY <2>1 DEF AddLoad, Types
<1>3. Begun' = Begun \cup {new}
  BY <1>1 DEF AddLoad, Types, Message, Begun
<1>4. Cardinality(Begun') = Cardinality(Begun) + 1
  BY <1>1, <1>3, BegunFits, FS_AddElement
<1>5. SizesCount'
  BY <1>4, BegunFits DEF AddLoad, Types, SizesCount
<1>6. Old \subseteq Old'
  BY <1>1, <1>3 DEF AddLoad, Types, Old, Begun, Message
<1>7. OneCopy'
  BY <1>6 DEF AddLoad, OneCopy
<1> QED BY <1>2, <1>5, <1>7 DEF AddLoad, NoneSentTwice, RemoveDoesNotThrow

(* It is written: now it is somewhere, but it was nowhere before. *)
LEMMA AddStoreKeeps ==
  ASSUME SentInv, NEW p \in Producers, AddStore(p)
  PROVE  SentInv'
<1> USE DEF SentInv
<1> DEFINE new == <<p, added[p]>>
<1>0. Begun' = Begun
  BY DEF AddStore, Begun
<1>1. new \notin Old
  BY DEF AddStore, Old
<1>2. seen[p] \in Nat /\ seen[p] + 1 <= Cardinality(Begun)
  BY BegunFits DEF AddStore, SizesCount, Types
<1>3. new \in Begun
  <2>1. added[p] \in 1..MaxAdds
    BY ProducersAssumption DEF AddStore, Types
  <2> QED BY <2>1, ProducersAssumption DEF Begun, Message
<1>4. Types'
  <2>1. array' \in [Slots -> Message \cup {Null}]
    BY <1>3 DEF AddStore, Types, Begun
  <2> QED BY <1>2, <2>1 DEF AddStore, Types
<1>5. SizesCount'
  BY <1>0, <1>2 DEF AddStore, SizesCount, Types
<1>6. ASSUME NEW m \in Old PROVE m \in Old' /\ m # new
  <2>1. m \in Begun'
    BY <1>0 DEF Old
  <2>2. producer'[m[1]] = "store" => producer[m[1]] = "store"
    BY DEF AddStore, Types
  <2> QED BY <1>1, <2>1, <2>2 DEF Old, AddStore
<1>7. new \in Old'
  BY <1>0, <1>3 DEF AddStore, Types, Old
<1>8. OneCopy'
  <2>1. \A i \in Slots : array'[i] = IF i = seen[p] THEN new ELSE array[i]
    BY DEF AddStore, Types
  <2>2. \A i, j \in Slots : array'[i] = array'[j] /\ array'[i] # Null => i = j
    BY <1>6, <2>1 DEF OneCopy
  <2>3. \A k \in DOMAIN sent : sent[k] # Null => sent[k] # new
    BY <1>6 DEF OneCopy
  <2>4. \A i \in Slots : array'[i] # Null => array'[i] \in Old' /\ \A k \in DOMAIN sent : sent[k] # array'[i]
    BY <1>3, <1>6, <1>7, <2>1, <2>3, NullIsNone DEF OneCopy, Begun
  <2>5. sender = "store" /\ result # Null =>
          /\ result \in Old'
          /\ \A i \in Slots \ {0} : array'[i] # result
          /\ \A k \in DOMAIN sent : sent[k] # result
    BY <1>6, <2>1 DEF OneCopy
  <2>6. \A k \in DOMAIN sent : sent[k] # Null => sent[k] \in Old'
    BY <1>6 DEF OneCopy
  <2>7. sent' = sent /\ result' = result /\ sender' = sender
    BY DEF AddStore
  <2> QED BY <2>2, <2>4, <2>5, <2>6, <2>7 DEF OneCopy
<1> QED BY <1>4, <1>5, <1>8, <1>2 DEF AddStore, NoneSentTwice, RemoveDoesNotThrow

\* What remove loads from the first slot is nowhere else.
LEMMA RemoveLoadKeeps ==
  ASSUME SentInv, RemoveLoad
  PROVE  SentInv'
<1> USE DEF SentInv
<1>1. 0 \in Slots
  BY BegunFits
<1>2. Types'
  BY <1>1 DEF RemoveLoad, Types
<1>3. Begun' = Begun /\ Old' = Old
  BY DEF RemoveLoad, Begun, Old
<1>4. SizesCount'
  BY <1>3 DEF RemoveLoad, SizesCount, RemoveDoesNotThrow, Types
<1>5. OneCopy'
  BY <1>1, <1>3 DEF RemoveLoad, OneCopy
<1> QED BY <1>2, <1>4, <1>5 DEF RemoveLoad, NoneSentTwice, RemoveDoesNotThrow

(* The shift moves the content of the slots from the second on, each to a slot of
   its own, and what was in the first is gone when it is sent. *)
LEMMA RemoveStoreKeeps ==
  ASSUME SentInv, RemoveStore
  PROVE  SentInv'
<1> USE DEF SentInv
<1> DEFINE from(i) == IF i < sizeSeen - 1 THEN i + 1 ELSE i
<1>1. sizeSeen \in Slots /\ sizeSeen # 0 /\ Slots \subseteq Nat /\ 0 \in Slots
  BY BegunFits DEF RemoveStore, SizesCount, Types
<1>2. ASSUME NEW i \in Slots, array'[i] # Null
      PROVE  array'[i] = array[from(i)] /\ from(i) \in Slots \ {0}
  <2>1. i \in Nat /\ sizeSeen \in Nat
    BY <1>1
  <2>2. array'[i] = IF i < sizeSeen - 1 THEN array[i + 1] ELSE IF i = sizeSeen - 1 THEN Null ELSE array[i]
    BY DEF RemoveStore
  <2>3. i + 1 \in Slots \/ ~(i < sizeSeen - 1)
    BY <1>1, BegunFits
  <2> QED BY <1>1, <1>2, <2>1, <2>2, <2>3
<1>3. \A i, j \in Slots : array'[i] # Null /\ array'[j] # Null /\ from(i) = from(j) => i = j
  <2> SUFFICES ASSUME NEW i \in Slots, NEW j \in Slots, array'[i] # Null, array'[j] # Null, from(i) = from(j)
               PROVE  i = j
    OBVIOUS
  <2>1. i # sizeSeen - 1 /\ j # sizeSeen - 1
    BY DEF RemoveStore
  <2> QED BY <1>1, <2>1
<1>4. Types'
  <2>1. array' \in [Slots -> Message \cup {Null}]
    <3>1. \A i \in Slots : array'[i] \in Message \cup {Null}
      BY <1>2 DEF Types
    <3> QED BY <3>1 DEF RemoveStore
  <2>2. sent' \in Seq(Message \cup {Null}) /\ sizeSeen - 1 \in Nat
    BY <1>1 DEF RemoveStore, Types
  <2> QED BY <2>1, <2>2 DEF RemoveStore, Types
<1>5. Begun' = Begun /\ Old' = Old
  BY DEF RemoveStore, Begun, Old
<1>6. SizesCount'
  BY <1>1, <1>5, BegunFits DEF RemoveStore, SizesCount, Types
<1>7. /\ DOMAIN sent' = 1..Len(sent) + 1 /\ DOMAIN sent = 1..Len(sent) /\ Len(sent) \in Nat
      /\ \A k \in DOMAIN sent' : sent'[k] = IF k \in DOMAIN sent THEN sent[k] ELSE result
  BY DEF RemoveStore, Types
<1>8. result # Null =>
        result \in Old /\ (\A i \in Slots \ {0} : array[i] # result) /\ \A k \in DOMAIN sent : sent[k] # result
  BY DEF RemoveStore, OneCopy
<1> HIDE DEF from
<1>9. OneCopy'
  <2>1. \A i, j \in Slots : array'[i] = array'[j] /\ array'[i] # Null => i = j
    BY <1>2, <1>3 DEF OneCopy
  <2>2. ASSUME NEW i \in Slots, array'[i] # Null
        PROVE  array'[i] \in Old' /\ \A k \in DOMAIN sent' : sent'[k] # array'[i]
    BY <1>2, <1>5, <1>7, <1>8, <2>2 DEF OneCopy
  <2>3. \A k \in DOMAIN sent' : sent'[k] # Null => sent'[k] \in Old'
    BY <1>5, <1>7, <1>8 DEF OneCopy
  <2> QED BY <2>1, <2>2, <2>3 DEF RemoveStore, OneCopy
<1>10. NoneSentTwice'
  BY <1>7, <1>8 DEF NoneSentTwice
<1> QED BY <1>4, <1>6, <1>9, <1>10 DEF RemoveStore, RemoveDoesNotThrow

LEMMA NextSentInv == SentInv /\ [QueueNext]_queueVars => SentInv'
<1> SUFFICES ASSUME SentInv, [QueueNext]_queueVars
             PROVE  SentInv'
  OBVIOUS
<1>1. ASSUME NEW p \in Producers, AddLoad(p)
      PROVE  SentInv'
  BY <1>1, AddLoadKeeps
<1>2. ASSUME NEW p \in Producers, AddStore(p)
      PROVE  SentInv'
  BY <1>2, AddStoreKeeps
<1>3. CASE Poll
  BY <1>3 DEF Poll, SentInv, Types, SizesCount, OneCopy, Begun, Old, NoneSentTwice, RemoveDoesNotThrow
<1>4. CASE RemoveLoad
  BY <1>4, RemoveLoadKeeps
<1>5. CASE RemoveStore
  BY <1>5, RemoveStoreKeeps
<1>6. CASE UNCHANGED queueVars
  BY <1>6 DEF queueVars, SentInv, Types, SizesCount, OneCopy, Begun, Old, NoneSentTwice, RemoveDoesNotThrow
<1>7. QED
  BY <1>1, <1>2, <1>3, <1>4, <1>5, <1>6 DEF QueueNext

(* However the unsynchronised add and remove overwrite one another's work, they
   lose messages only and never repeat one (ClientLogic.java:55-69). *)
THEOREM NoMessageGoesOutTwice == QueueSpec => []NoneSentTwice
<1>1. SentInv => NoneSentTwice
  BY DEF SentInv
<1>2. QED
  BY <1>1, InitSentInv, NextSentInv, PTL DEF QueueSpec
=============================================================================
