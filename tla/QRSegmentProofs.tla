---------------------------- MODULE QRSegmentProofs ----------------------------
(***************************************************************************)
(* What is written into a segment is what a reader gets out of it: the     *)
(* loops of the encoder (QRInput) are the inverse of the reader's          *)
(* (QRReader), for any data of each mode, for headers, and for segments so *)
(* long that they are written in parts.                                    *)
(*                                                                         *)
(* A stream "holds" bits at a place (HoldsAt).  What is put together from  *)
(* pieces holds each piece at its own place, so that every number is read  *)
(* where it was written (HoldsNumber), hence the data of each mode, hence  *)
(* a segment, with its length, hence all parts of a long one (EntryIsRead).*)
(* The reader's recursion is not unfolded: what it says from a place on is *)
(* a function D of the place (Decodes), and a segment takes D from one     *)
(* place to another (Reads), so that segments are chained.                 *)
(***************************************************************************)
EXTENDS QREncodeProofs

-----------------------------------------------------------------------------
(* Numbers among the bits: what is read where a number was written. *)

(* The powers of 2 that occur. *)
LEMMA FirstPowers ==
  /\ 2^0 = 1 /\ 2^1 = 2 /\ 2^2 = 4 /\ 2^3 = 8 /\ 2^4 = 16 /\ 2^5 = 32 /\ 2^6 = 64 /\ 2^7 = 128 /\ 2^8 = 256
  /\ 2^9 = 512 /\ 2^10 = 1024 /\ 2^11 = 2048 /\ 2^12 = 4096 /\ 2^13 = 8192 /\ 2^14 = 16384 /\ 2^15 = 32768 /\ 2^16 = 65536 /\ 2^17 = 131072
  /\ 2^18 = 262144 /\ 2^19 = 524288 /\ 2^20 = 1048576 /\ 2^21 = 2097152 /\ 2^22 = 4194304 /\ 2^23 = 8388608 /\ 2^24 = 16777216
OBVIOUS

(* Each is twice the one before. *)
LEMMA PowersOfTwo == \A k \in 0..23 : 2^k \in Nat \ {0} /\ 2^(k + 1) = 2 * 2^k
<1> TAKE k \in 0..23
<1>1. CASE k = 0
  BY <1>1, FirstPowers
<1>2. CASE k = 1
  BY <1>2, FirstPowers
<1>3. CASE k = 2
  BY <1>3, FirstPowers
<1>4. CASE k = 3
  BY <1>4, FirstPowers
<1>5. CASE k = 4
  BY <1>5, FirstPowers
<1>6. CASE k = 5
  BY <1>6, FirstPowers
<1>7. CASE k = 6
  BY <1>7, FirstPowers
<1>8. CASE k = 7
  BY <1>8, FirstPowers
<1>9. CASE k = 8
  BY <1>9, FirstPowers
<1>10. CASE k = 9
  BY <1>10, FirstPowers
<1>11. CASE k = 10
  BY <1>11, FirstPowers
<1>12. CASE k = 11
  BY <1>12, FirstPowers
<1>13. CASE k = 12
  BY <1>13, FirstPowers
<1>14. CASE k = 13
  BY <1>14, FirstPowers
<1>15. CASE k = 14
  BY <1>15, FirstPowers
<1>16. CASE k = 15
  BY <1>16, FirstPowers
<1>17. CASE k = 16
  BY <1>17, FirstPowers
<1>18. CASE k = 17
  BY <1>18, FirstPowers
<1>19. CASE k = 18
  BY <1>19, FirstPowers
<1>20. CASE k = 19
  BY <1>20, FirstPowers
<1>21. CASE k = 20
  BY <1>21, FirstPowers
<1>22. CASE k = 21
  BY <1>22, FirstPowers
<1>23. CASE k = 22
  BY <1>23, FirstPowers
<1>24. CASE k = 23
  BY <1>24, FirstPowers
<1> QED BY <1>1, <1>2, <1>3, <1>4, <1>5, <1>6, <1>7, <1>8, <1>9, <1>10, <1>11, <1>12, <1>13, <1>14, <1>15, <1>16, <1>17, <1>18, <1>19, <1>20, <1>21, <1>22, <1>23, <1>24

(* The last bit of a quotient is what halving it leaves. *)
LEMMA HalfQuotient ==
  ASSUME NEW x \in Nat, NEW c \in Nat \ {0}
  PROVE  x \div c = 2 * (x \div (2 * c)) + ((x \div c) % 2)
<1>1. PICK q \in Nat, r \in 0..c - 1 : x = c * q + r
  <2>1. x = c * (x \div c) + (x % c) /\ x % c \in 0..c - 1 /\ x \div c \in Nat
    OBVIOUS
  <2> QED BY <2>1
<1>2. PICK h \in Nat, e \in {0, 1} : q = 2 * h + e
  <2>1. q = 2 * (q \div 2) + (q % 2) /\ q % 2 \in {0, 1} /\ q \div 2 \in Nat
    OBVIOUS
  <2> QED BY <2>1
<1>3. x \div c = q
  BY <1>1, DivMod
<1>4. x \div (2 * c) = h
  <2>1. x = (2 * c) * h + (c * e + r) /\ c * e + r \in 0..(2 * c) - 1
    <3>1. c * (2 * h + e) = (2 * c) * h + c * e
      OBVIOUS
    <3>2. c * e \in {0, c}
      BY <1>2
    <3> QED BY <1>1, <1>2, <3>1, <3>2
  <2>2. PICK d \in Nat \ {0}, s \in Nat : d = 2 * c /\ s = c * e + r
    BY <2>1
  <2> QED BY <2>1, <2>2, DivMod
<1>5. q = 2 * h + (q % 2)
  BY <1>2
<1> QED BY <1>3, <1>4, <1>5

\* A stream b has the bits s from its p-th on.
HoldsAt(b, p, s) == p + Len(s) <= Len(b) + 1 /\ \A i \in 1..Len(s) : b[p + i - 1] = s[i]

(* Two streams one behind the other are held where each is. *)
LEMMA HoldsBoth ==
  ASSUME NEW b \in Bitstream, NEW p \in Nat \ {0}, NEW s \in Bitstream, NEW t \in Bitstream
  PROVE  HoldsAt(b, p, s \o t) <=> HoldsAt(b, p, s) /\ HoldsAt(b, p + Len(s), t)
<1>1. PICK n \in Nat, m \in Nat : n = Len(s) /\ m = Len(t) /\ Len(s \o t) = n + m
  BY DEF Bitstream
<1>2. /\ \A i \in 1..n : (s \o t)[i] = s[i]
      /\ \A i \in 1..m : (s \o t)[n + i] = t[i]
  BY <1>1 DEF Bitstream
<1>3. ASSUME HoldsAt(b, p, s \o t) PROVE HoldsAt(b, p, s) /\ HoldsAt(b, p + n, t)
  <2>1. p + (n + m) <= Len(b) + 1 /\ \A i \in 1..n + m : b[p + i - 1] = (s \o t)[i]
    BY <1>1, <1>3 DEF HoldsAt
  <2>2. Len(b) \in Nat
    BY DEF Bitstream
  <2>3. \A i \in 1..n : b[p + i - 1] = s[i]
    <3> TAKE i \in 1..n
    <3>1. i \in 1..n + m
      OBVIOUS
    <3> QED BY <1>2, <2>1, <3>1
  <2>4. \A i \in 1..m : b[(p + n) + i - 1] = t[i]
    <3> TAKE i \in 1..m
    <3>1. n + i \in 1..n + m /\ p + (n + i) - 1 = (p + n) + i - 1
      OBVIOUS
    <3>2. b[p + (n + i) - 1] = (s \o t)[n + i]
      BY <2>1, <3>1
    <3> QED BY <1>2, <3>1, <3>2
  <2>5. p + n <= Len(b) + 1 /\ (p + n) + m <= Len(b) + 1
    BY <2>1, <2>2
  <2> QED BY <1>1, <2>3, <2>4, <2>5 DEF HoldsAt
<1>4. ASSUME HoldsAt(b, p, s), HoldsAt(b, p + n, t) PROVE HoldsAt(b, p, s \o t)
  <2>1. (p + n) + m <= Len(b) + 1 /\ \A i \in 1..n : b[p + i - 1] = s[i]
    BY <1>1, <1>4 DEF HoldsAt
  <2>2. \A i \in 1..m : b[(p + n) + i - 1] = t[i]
    BY <1>1, <1>4 DEF HoldsAt
  <2>3. \A i \in 1..n + m : b[p + i - 1] = (s \o t)[i]
    <3> TAKE i \in 1..n + m
    <3>1. CASE i \in 1..n
      BY <1>2, <2>1, <3>1
    <3>2. CASE i \notin 1..n
      <4>1. i - n \in 1..m /\ (p + n) + (i - n) - 1 = p + i - 1 /\ n + (i - n) = i
        BY <3>2
      <4>2. PICK j \in 1..m : j = i - n
        BY <4>1
      <4>3. b[(p + n) + j - 1] = t[j] /\ (s \o t)[n + j] = t[j]
        BY <1>2, <2>2
      <4>4. (p + n) + j - 1 = p + i - 1 /\ n + j = i
        BY <4>2
      <4> QED BY <4>3, <4>4
    <3> QED BY <3>1, <3>2
  <2>4. p + (n + m) <= Len(b) + 1
    BY <2>1 DEF Bitstream
  <2> QED BY <1>1, <2>3, <2>4 DEF HoldsAt
<1> QED BY <1>1, <1>3, <1>4

(* What a number is of before its last bits are read. *)
LEMMA ValueSteps ==
  ASSUME NEW b \in Bitstream, NEW p \in Nat \ {0}, NEW n \in 0..24, p + n <= Len(b) + 1
  PROVE  \E value : /\ ValueAt(b, p, n) = value[n] /\ value[0] = 0
                    /\ \A k \in 1..n : value[k] = 2 * value[k - 1] + b[p + k - 1]
<1> DEFINE t == SubSeq(b, p, p + n - 1)
           Is(f) == f = [k \in 0..Len(t) |-> IF k = 0 THEN 0 ELSE 2 * f[k - 1] + t[k]]
           value == CHOOSE f : Is(f)
<1>1. b \in Seq(Binary) /\ Len(b) \in Nat
  BY DEF Bitstream
<1>2. Len(t) = n /\ t \in Bitstream /\ \A k \in 1..n : t[k] = b[p + k - 1]
  <2>1. CASE n = 0
    BY <1>1, <2>1 DEF Bitstream
  <2>2. CASE n # 0
    <3>1. PICK last \in Nat : last = p + n - 1 /\ p \in 1..last /\ last \in 1..Len(b) /\ p \in 1..Len(b) /\ n = last - p + 1
      BY <1>1, <2>2
    <3>2. t = SubSeq(b, p, last)
      BY <3>1
    <3>3. t \in Seq(Binary) /\ Len(t) = last - p + 1 /\ \A i \in 1..last - p + 1 : t[i] = b[p + i - 1]
      BY <1>1, <3>1, <3>2, SubSeqProperties
    <3> QED BY <3>1, <3>3 DEF Bitstream
  <2> QED BY <2>1, <2>2
<1>3. ValueAt(b, p, n) = value[Len(t)]
  BY Zenon DEF ValueAt, Number
<1> HIDE DEF t
<1>4. \A f : Is(f) <=> Gathers(f, t, 0, n)
  BY <1>2, Zenon DEF Gathers
<1>5. Gathers(value, t, 0, n)
  <2>1. 0 \in Nat /\ n \in Nat /\ 0 <= n /\ n <= Len(t)
    BY <1>2
  <2>2. \E f : Gathers(f, t, 0, n)
    BY <1>2, <2>1, GatheringExists, Zenon
  <2> HIDE DEF Is
  <2> QED BY <1>4, <2>2, Zenon
<1> HIDE DEF value
<1>6. \A k \in 0..n : value[k] = IF k = 0 THEN 0 ELSE 2 * value[k - 1] + t[k]
  BY <1>5, Zenon DEF Gathers
<1>7. value[0] = 0
  BY <1>6
<1>8. \A k \in 1..n : value[k] = 2 * value[k - 1] + b[p + k - 1]
  <2> TAKE k \in 1..n
  <2>1. k \in 0..n /\ k # 0
    OBVIOUS
  <2> QED BY <1>2, <1>6, <2>1
<1> QED BY <1>2, <1>3, <1>7, <1>8, Zenon

(* A number written at p is the value there. *)
LEMMA HoldsNumber ==
  ASSUME NEW b \in Bitstream, NEW p \in Nat \ {0}, NEW n \in 0..24, NEW x \in Nat, x < 2^n, HoldsAt(b, p, FromNum(n, x))
  PROVE  ValueAt(b, p, n) = x
<1>1. /\ Len(FromNum(n, x)) = n /\ \A i \in 1..n : FromNum(n, x)[i] = (x \div 2^(n - i)) % 2
  BY DEF FromNum
<1>2. p + n <= Len(b) + 1 /\ \A i \in 1..n : b[p + i - 1] = (x \div 2^(n - i)) % 2
  BY <1>1 DEF HoldsAt
<1>3. PICK value : /\ ValueAt(b, p, n) = value[n] /\ value[0] = 0
                   /\ \A k \in 1..n : value[k] = 2 * value[k - 1] + b[p + k - 1]
  BY <1>2, ValueSteps
<1> DEFINE T == {k \in Nat : k <= n => value[k] = x \div 2^(n - k)}
<1>8. 0 \in T
  <2>1. PICK c \in Nat \ {0} : c = 2^n /\ x < c
    <3>1. n \in 0..23 => 2^n \in Nat \ {0}
      BY PowersOfTwo
    <3>2. n = 24 => 2^n \in Nat \ {0}
      BY FirstPowers
    <3> QED BY <3>1, <3>2
  <2>2. x \div c = 0
    BY <2>1
  <2> QED BY <1>3, <2>1, <2>2
<1>9. ASSUME NEW k \in Nat, k \in T PROVE k + 1 \in T
  <2> SUFFICES ASSUME k + 1 <= n PROVE value[k + 1] = x \div 2^(n - (k + 1))
    OBVIOUS
  <2>1. PICK d \in 0..23 : d = n - (k + 1) /\ d + 1 = n - k
    OBVIOUS
  <2>2. PICK c \in Nat \ {0} : c = 2^d /\ 2^(d + 1) = 2 * c
    BY PowersOfTwo
  <2>3. k + 1 \in 0..n /\ k + 1 # 0 /\ (k + 1) - 1 = k /\ k + 1 \in 1..n
    OBVIOUS
  <2>4. value[k + 1] = 2 * value[k] + b[p + (k + 1) - 1]
    BY <1>3, <2>3
  <2>5. b[p + (k + 1) - 1] = (x \div c) % 2
    BY <1>2, <2>1, <2>2, <2>3
  <2>6. value[k] = x \div (2 * c)
    BY <1>9, <2>1, <2>2, <2>3
  <2>7. x \div c = 2 * (x \div (2 * c)) + ((x \div c) % 2)
    BY HalfQuotient
  <2> QED BY <2>1, <2>2, <2>4, <2>5, <2>6, <2>7
<1> HIDE DEF T
<1>10. n \in T
  BY <1>8, <1>9, Induction
<1>11. value[n] = x \div 2^(n - n)
  BY <1>10 DEF T
<1>12. 2^(n - n) = 1
  BY FirstPowers
<1> QED BY <1>3, <1>11, <1>12

(* A number that is 0 has no other bits. *)
LEMMA ZeroBits ==
  ASSUME NEW b \in Bitstream, NEW p \in Nat \ {0}, NEW n \in 0..24, p + n <= Len(b) + 1, ValueAt(b, p, n) = 0
  PROVE  \A i \in 1..n : b[p + i - 1] = 0
<1>1. PICK value : /\ ValueAt(b, p, n) = value[n] /\ value[0] = 0
                   /\ \A k \in 1..n : value[k] = 2 * value[k - 1] + b[p + k - 1]
  BY ValueSteps, ZenonT(60)
<1>2. \A k \in 1..n : b[p + k - 1] \in {0, 1}
  <2> TAKE k \in 1..n
  <2>1. p + k - 1 \in 1..Len(b) /\ b \in Seq(Binary)
    BY DEF Bitstream
  <2> QED BY <2>1 DEF Binary
<1> DEFINE N == {k \in Nat : k <= n => value[k] \in Nat}
<1>3. 0 \in N
  BY <1>1
<1>4. ASSUME NEW k \in Nat, k \in N PROVE k + 1 \in N
  <2> SUFFICES ASSUME k + 1 <= n PROVE value[k + 1] \in Nat
    OBVIOUS
  <2>1. k + 1 \in 1..n /\ (k + 1) - 1 = k
    OBVIOUS
  <2>2. value[k + 1] = 2 * value[k] + b[p + (k + 1) - 1] /\ b[p + (k + 1) - 1] \in {0, 1}
    BY <1>1, <1>2, <2>1
  <2> QED BY <1>4, <2>2, SMTT(40)
<1> HIDE DEF N
<1>5. Nat \subseteq N
  BY <1>3, <1>4, Induction
<1>6. \A k \in 0..n : value[k] \in Nat
  BY <1>5 DEF N
<1> DEFINE Z == {k \in Nat : k <= n => value[n - k] = 0 /\ \A i \in n - k + 1..n : b[p + i - 1] = 0}
<1>7. 0 \in Z
  BY <1>1
<1>8. ASSUME NEW k \in Nat, k \in Z PROVE k + 1 \in Z
  <2> SUFFICES ASSUME k + 1 <= n PROVE value[n - (k + 1)] = 0 /\ \A i \in n - (k + 1) + 1..n : b[p + i - 1] = 0
    OBVIOUS
  <2>1. PICK j \in 1..n : j = n - k /\ j - 1 = n - (k + 1) /\ j - 1 \in 0..n
    OBVIOUS
  <2>2. value[j] = 0 /\ \A i \in j + 1..n : b[p + i - 1] = 0
    BY <1>8, <2>1
  <2>3. PICK x \in Nat, y \in {0, 1} : x = value[j - 1] /\ y = b[p + j - 1] /\ value[j] = 2 * x + y
    BY <1>1, <1>2, <1>6, <2>1
  <2>4. x = 0 /\ y = 0
    <3>1. 2 * x + y = 0
      BY <2>2, <2>3
    <3> QED BY <3>1
  <2>5. \A i \in j..n : b[p + i - 1] = 0
    <3> TAKE i \in j..n
    <3>1. i = j \/ i \in j + 1..n
      BY <2>1
    <3> QED BY <2>2, <2>3, <2>4, <3>1
  <2>6. n - (k + 1) + 1 = j
    BY <2>1
  <2> QED BY <2>1, <2>3, <2>4, <2>5, <2>6
<1> HIDE DEF Z
<1>9. Nat \subseteq Z
  BY <1>7, <1>8, Induction
<1>10. PICK k \in Nat, one \in Nat : k = n /\ k <= n /\ one = n - k + 1 /\ one = 1
  OBVIOUS
<1>11. \A i \in one..n : b[p + i - 1] = 0
  BY <1>9, <1>10 DEF Z
<1> QED BY <1>10, <1>11

(* The bits of the number 0. *)
LEMMA Zeros ==
  ASSUME NEW k \in 0..24
  PROVE  /\ FromNum(k, 0) \in Bitstream /\ Len(FromNum(k, 0)) = k /\ \A i \in 1..k : FromNum(k, 0)[i] = 0
         /\ 0 < 2^k
<1>1. 0 < 2^k
  <2>1. k \in 0..23 => 2^k \in Nat \ {0}
    BY PowersOfTwo
  <2>2. k = 24 => 2^k \in Nat \ {0}
    BY FirstPowers
  <2> QED BY <2>1, <2>2
<1>2. FromNum(k, 0) \in Bitstream
  BY NumInBits
<1>3. ASSUME NEW i \in 1..k PROVE FromNum(k, 0)[i] = 0
  <2>1. PICK d \in 0..23 : d = k - i
    OBVIOUS
  <2>2. PICK c \in Nat \ {0} : c = 2^d
    BY PowersOfTwo
  <2>3. FromNum(k, 0)[i] = (0 \div c) % 2
    BY <2>1, <2>2 DEF FromNum
  <2>4. 0 \div c = 0
    OBVIOUS
  <2> QED BY <2>3, <2>4
<1>4. Len(FromNum(k, 0)) = k
  BY DEF FromNum
<1> QED BY <1>1, <1>2, <1>3, <1>4

\* Zeros are read as 0.
(* Zeros are read as the number 0. *)
LEMMA ZerosRead ==
  ASSUME NEW b \in Bitstream, NEW p \in Nat \ {0}, NEW n \in 0..24, p + n <= Len(b) + 1, \A i \in 1..n : b[p + i - 1] = 0
  PROVE  ValueAt(b, p, n) = 0
<1>1. HoldsAt(b, p, FromNum(n, 0))
  BY Zeros DEF HoldsAt
<1> QED BY <1>1, Zeros, HoldsNumber

(* Some bits of a number are not 0, then neither is the number. *)
LEMMA NotZero ==
  ASSUME NEW b \in Bitstream, NEW p \in Nat \ {0}, NEW n \in 0..24, p + n <= Len(b) + 1,
         NEW j \in Nat, NEW k \in 0..24, j + k <= n, ValueAt(b, p + j, k) # 0
  PROVE  ValueAt(b, p, n) # 0
<1> SUFFICES ASSUME ValueAt(b, p, n) = 0 PROVE FALSE
  OBVIOUS
<1>1. \A i \in 1..n : b[p + i - 1] = 0
  BY ZeroBits
<1>2. PICK q \in Nat \ {0} : q = p + j
  OBVIOUS
<1>3. \A i \in 1..k : b[q + i - 1] = 0
  <2> TAKE i \in 1..k
  <2>1. j + i \in 1..n /\ p + (j + i) - 1 = q + i - 1
    BY <1>2
  <2>2. b[p + (j + i) - 1] = 0
    BY <1>1, <2>1
  <2> QED BY <2>1, <2>2
<1>4. q + k <= Len(b) + 1
  BY <1>2 DEF Bitstream
<1>5. ValueAt(b, q, k) = 0
  BY <1>3, <1>4, ZerosRead
<1> QED BY <1>2, <1>5

(* Each of a row of numbers is held at its own place. *)
LEMMA HoldsNumbers ==
  ASSUME NEW b \in Bitstream, NEW p \in Nat \ {0}, NEW n \in 1..16, NEW s \in Seq(Int), NEW k \in 1..Len(s),
         HoldsAt(b, p, FromNums(n, s))
  PROVE  HoldsAt(b, p + n * (k - 1), FromNum(n, s[k]))
<1>1. PICK m \in Nat : m = Len(s) /\ n * m \in Nat /\ k \in 1..m
  OBVIOUS
<1>2. /\ Len(FromNums(n, s)) = n * m
      /\ \A i \in 1..n * m : FromNums(n, s)[i] = (s[((i - 1) \div n) + 1] \div 2^(n - 1 - ((i - 1) % n))) % 2
  BY <1>1 DEF FromNums
<1>3. p + n * m <= Len(b) + 1 /\ \A i \in 1..n * m : b[p + i - 1] = (s[((i - 1) \div n) + 1] \div 2^(n - 1 - ((i - 1) % n))) % 2
  BY <1>2 DEF HoldsAt
<1>4. Len(FromNum(n, s[k])) = n /\ \A j \in 1..n : FromNum(n, s[k])[j] = (s[k] \div 2^(n - j)) % 2
  BY DEF FromNum
<1>5. n * (k - 1) \in Nat /\ n * (k - 1) + n <= n * m
  <2>1. n * k <= n * m /\ n * (k - 1) = n * k - n /\ n * (k - 1) >= 0
    BY <1>1
  <2> QED BY <2>1
<1>6. PICK q \in Nat : q = n * (k - 1) /\ q + n <= n * m
  BY <1>5
<1>7. ASSUME NEW j \in 1..n PROVE b[(p + q) + j - 1] = (s[k] \div 2^(n - j)) % 2
  <2>1. PICK i \in 1..n * m : i = q + j
    BY <1>1, <1>6
  <2>2. (i - 1) \div n = k - 1 /\ (i - 1) % n = j - 1
    <3>1. PICK u \in Int, w \in 0..n - 1 : u = k - 1 /\ w = j - 1
      BY <1>1
    <3>2. i - 1 = n * u + w
      BY <1>6, <2>1, <3>1
    <3>3. n \in Nat \ {0}
      OBVIOUS
    <3>4. (n * u + w) \div n = u /\ (n * u + w) % n = w
      BY <3>3, DivMod
    <3> QED BY <3>1, <3>2, <3>4
  <2>3. ((i - 1) \div n) + 1 = k /\ n - 1 - ((i - 1) % n) = n - j
    BY <2>2
  <2>4. b[p + i - 1] = (s[k] \div 2^(n - j)) % 2
    BY <1>3, <2>3
  <2>5. p + i - 1 = (p + q) + j - 1
    BY <2>1
  <2> QED BY <2>4, <2>5
<1>8. Len(b) \in Nat
  BY DEF Bitstream
<1>9. (p + q) + n <= Len(b) + 1
  BY <1>1, <1>3, <1>6, <1>8
<1> QED BY <1>4, <1>6, <1>7, <1>9 DEF HoldsAt

-----------------------------------------------------------------------------
(* The data of a segment, mode by mode (qrinput.c:411-860). *)

(* How many bits a row of numbers takes. *)
LEMMA FromNumsLength ==
  ASSUME NEW n \in 1..16, NEW s \in Seq(Int)
  PROVE  Len(FromNums(n, s)) = n * Len(s) /\ FromNums(n, s) \in Bitstream
<1>1. FromNums(n, s) \in Bitstream
  BY NumsInBits
<1>2. PICK m \in Nat : m = Len(s) /\ n * m \in Nat
  OBVIOUS
<1> QED BY <1>1, <1>2 DEF FromNums

(* How many bits a number takes. *)
LEMMA FromNumLength ==
  ASSUME NEW n \in Nat, NEW x \in Int
  PROVE  Len(FromNum(n, x)) = n /\ FromNum(n, x) \in Bitstream
<1>1. FromNum(n, x) \in Bitstream
  BY NumInBits
<1> QED BY <1>1 DEF FromNum

(* The powers of 10 that occur. *)
LEMMA Tens == 10^0 = 1 /\ 10^1 = 10 /\ 10^2 = 100
OBVIOUS

\* The figure of w that is e from its end.
FigureFromEnd(w, e) == (w \div 10^e) % 10

AreFigures(w, x, y, z) == x \in 0..9 /\ y \in 0..9 /\ z \in 0..9 /\ w = 100 * x + 10 * y + z

(* The figures of a number of three digits. *)
LEMMA FigureOf ==
  ASSUME NEW w, NEW x, NEW y, NEW z, AreFigures(w, x, y, z)
  PROVE  FigureFromEnd(w, 2) = x /\ FigureFromEnd(w, 1) = y /\ FigureFromEnd(w, 0) = z
<1>1. x \in 0..9 /\ y \in 0..9 /\ z \in 0..9 /\ w = 100 * x + 10 * y + z
  BY DEF AreFigures
<1>2. (w \div 100) % 10 = x /\ (w \div 10) % 10 = y /\ (w \div 1) % 10 = z
  BY <1>1
<1> QED BY <1>2, Tens DEF FigureFromEnd

(* Numbers of the widths that occur are read where they were written. *)
LEMMA HoldsSmall ==
  ASSUME NEW b \in Bitstream, NEW p \in Nat \ {0}, NEW x \in Nat
  PROVE  /\ x < 16 /\ HoldsAt(b, p, FromNum(4, x)) => ValueAt(b, p, 4) = x
         /\ x < 64 /\ HoldsAt(b, p, FromNum(6, x)) => ValueAt(b, p, 6) = x
         /\ x < 128 /\ HoldsAt(b, p, FromNum(7, x)) => ValueAt(b, p, 7) = x
         /\ x < 256 /\ HoldsAt(b, p, FromNum(8, x)) => ValueAt(b, p, 8) = x
         /\ x < 1024 /\ HoldsAt(b, p, FromNum(10, x)) => ValueAt(b, p, 10) = x
         /\ x < 2048 /\ HoldsAt(b, p, FromNum(11, x)) => ValueAt(b, p, 11) = x
         /\ x < 8192 /\ HoldsAt(b, p, FromNum(13, x)) => ValueAt(b, p, 13) = x
<1>1. \A n \in 4..13 : n \in 0..24
  OBVIOUS
<1>2. 2^4 = 16 /\ 2^6 = 64 /\ 2^7 = 128 /\ 2^8 = 256 /\ 2^10 = 1024 /\ 2^11 = 2048 /\ 2^13 = 8192
  BY FirstPowers
<1> QED BY <1>1, <1>2, HoldsNumber

(* The numbers a stream was made of are read again, each at its place. *)
LEMMA NumbersAreRead ==
  ASSUME NEW b \in Bitstream, NEW p \in Nat \ {0}, NEW n \in 1..16, NEW s \in Seq(Int), NEW g \in 0..Len(s) - 1,
         HoldsAt(b, p, FromNums(n, s)), s[g + 1] \in Nat, s[g + 1] < 2^n
  PROVE  ValueAt(b, p + n * g, n) = s[g + 1]
<1>1. PICK k \in 1..Len(s) : k = g + 1 /\ k - 1 = g
  OBVIOUS
<1>2. HoldsAt(b, p + n * (k - 1), FromNum(n, s[k]))
  BY HoldsNumbers
<1>3. PICK q \in Nat \ {0} : q = p + n * (k - 1)
  BY <1>1
<1>4. n \in 0..24 /\ s[k] \in Nat /\ s[k] < 2^n
  BY <1>1
<1>5. ValueAt(b, q, n) = s[k]
  BY <1>2, <1>3, <1>4, HoldsNumber
<1> QED BY <1>1, <1>3, <1>5

(* Digits are read as they were written, three to ten bits, one or two left
   over to four or seven, for digits of every number (qrinput.c:411-460). *)
THEOREM DigitsAreRead ==
  ASSUME NEW b \in Bitstream, NEW p \in Nat \ {0}, NEW s \in Seq(Int), \A i \in DOMAIN s : s[i] \in Digit, s # <<>>,
         HoldsAt(b, p, EncodeModeNum(s))
  PROVE  CharsAt(b, "NUM", p, Len(s)) = s /\ Len(EncodeModeNum(s)) = CharBits("NUM", Len(s))
<1>0. PICK n \in Nat \ {0} : n = Len(s) /\ DOMAIN s = 1..n /\ \A i \in 1..n : s[i] \in 48..57
  BY DEF Digit
<1>1. PICK m \in Nat, over \in 0..2 : m = n \div 3 /\ over = n % 3 /\ n = 3 * m + over
  OBVIOUS
<1>d. PICK d : d = [i \in 1..n |-> s[i] - 48]
  OBVIOUS
<1>e. \A i \in 1..n : d[i] \in 0..9 /\ s[i] = 48 + d[i] /\ s[i] - 48 = d[i]
  BY <1>0, <1>d
<1> DEFINE threes == [i \in 1..m |-> 100 * (s[3 * i - 2] - 48) + 10 * (s[3 * i - 1] - 48) + (s[3 * i] - 48)]
           one == FromNum(4, s[n] - 48)
           two == FromNum(7, 10 * (s[n - 1] - 48) + (s[n] - 48))
           behind == CASE over = 0 -> <<>> [] over = 1 -> one [] over = 2 -> two
<1>2. EncodeModeNum(s) = FromNums(10, threes) \o behind
  BY <1>0, <1>1 DEF EncodeModeNum
<1>4. threes \in Seq(Int) /\ Len(threes) = m /\ \A i \in 1..m : threes[i] = 100 * d[3 * i - 2] + 10 * d[3 * i - 1] + d[3 * i]
  <2>1. \A i \in 1..m : 100 * (s[3 * i - 2] - 48) + 10 * (s[3 * i - 1] - 48) + (s[3 * i] - 48) \in Int
    <3> TAKE i \in 1..m
    <3>1. 3 * i - 2 \in 1..n /\ 3 * i - 1 \in 1..n /\ 3 * i \in 1..n
      BY <1>1
    <3>2. PICK x \in Int, y \in Int, z \in Int : x = s[3 * i - 2] - 48 /\ y = s[3 * i - 1] - 48 /\ z = s[3 * i] - 48
      BY <1>0, <3>1
    <3>3. 100 * x + 10 * y + z \in Int
      OBVIOUS
    <3> QED BY <3>2, <3>3, Zenon
  <2>2. \A i \in 1..m : threes[i] = 100 * d[3 * i - 2] + 10 * d[3 * i - 1] + d[3 * i]
    <3> TAKE i \in 1..m
    <3>1. 3 * i - 2 \in 1..n /\ 3 * i - 1 \in 1..n /\ 3 * i \in 1..n
      BY <1>1
    <3>2. s[3 * i - 2] - 48 = d[3 * i - 2] /\ s[3 * i - 1] - 48 = d[3 * i - 1] /\ s[3 * i] - 48 = d[3 * i]
      BY <1>e, <3>1
    <3> QED BY <3>2, Zenon
  <2> QED BY <2>1, <2>2
<1>5. over = 1 => one = FromNum(4, d[n]) /\ d[n] \in 0..9
  BY <1>e
<1>6. over = 2 => two = FromNum(7, 10 * d[n - 1] + d[n]) /\ d[n] \in 0..9 /\ d[n - 1] \in 0..9 /\ 10 * d[n - 1] + d[n] \in 0..99
  <2> SUFFICES ASSUME over = 2 PROVE two = FromNum(7, 10 * d[n - 1] + d[n]) /\ d[n] \in 0..9 /\ d[n - 1] \in 0..9 /\ 10 * d[n - 1] + d[n] \in 0..99
    OBVIOUS
  <2>1. n - 1 \in 1..n /\ n \in 1..n
    BY <1>1
  <2>2. s[n - 1] - 48 = d[n - 1] /\ s[n] - 48 = d[n] /\ d[n] \in 0..9 /\ d[n - 1] \in 0..9
    BY <1>e, <2>1
  <2>3. two = FromNum(7, 10 * d[n - 1] + d[n])
    BY <2>2, Zenon
  <2>4. 10 * d[n - 1] + d[n] \in 0..99
    <3>1. \A x, y \in 0..9 : 10 * x + y \in 0..99
      OBVIOUS
    <3> QED BY <2>2, <3>1, Zenon
  <2> HIDE DEF two
  <2> QED BY <2>2, <2>3, <2>4
<1> HIDE DEF threes, one, two
<1>7. behind \in Bitstream /\ Len(behind) = IF over = 0 THEN 0 ELSE IF over = 1 THEN 4 ELSE 7
  <2>1. CASE over = 0
    <3>1. behind = <<>>
      BY <2>1
    <3> QED BY <2>1, <3>1 DEF Bitstream
  <2>2. CASE over = 1
    <3>1. behind = one
      BY <2>2
    <3>2. 4 \in Nat /\ d[n] \in Int /\ one = FromNum(4, d[n])
      BY <1>5, <2>2
    <3>3. Len(one) = 4 /\ one \in Bitstream
      BY <3>2, FromNumLength, Zenon
    <3> QED BY <2>2, <3>1, <3>3
  <2>3. CASE over = 2
    <3>1. behind = two
      BY <2>3
    <3>2. PICK y \in Int : y = 10 * d[n - 1] + d[n] /\ two = FromNum(7, y)
      <4>1. 10 * d[n - 1] + d[n] \in Int
        <5>1. 0..99 \subseteq Int
          OBVIOUS
        <5> QED BY <1>6, <2>3, <5>1, Zenon
      <4> QED BY <1>6, <2>3, <4>1, Zenon
    <3>3. 7 \in Nat
      OBVIOUS
    <3>4. Len(two) = 7 /\ two \in Bitstream
      BY <3>2, <3>3, FromNumLength, Zenon
    <3> QED BY <2>3, <3>1, <3>4
  <2> QED BY <2>1, <2>2, <2>3
<1>8. Len(FromNums(10, threes)) = 10 * m /\ FromNums(10, threes) \in Bitstream
  <2>1. 10 \in 1..16
    OBVIOUS
  <2> QED BY <1>4, <2>1, FromNumsLength
<1>9. HoldsAt(b, p, FromNums(10, threes)) /\ HoldsAt(b, p + 10 * m, behind)
  <2>1. PICK u \in Bitstream, v \in Bitstream : u = FromNums(10, threes) /\ v = behind /\ EncodeModeNum(s) = u \o v
    BY <1>2, <1>7, <1>8
  <2>2. HoldsAt(b, p, u) /\ HoldsAt(b, p + Len(u), v)
    BY <2>1, HoldsBoth
  <2> QED BY <1>8, <2>1, <2>2
<1>10. ASSUME NEW g \in 0..m - 1
       PROVE  ValueAt(b, p + 10 * g, 10) = 100 * d[3 * g + 1] + 10 * d[3 * g + 2] + d[3 * g + 3]
  <2>1. g + 1 \in 1..m /\ 3 * (g + 1) - 2 = 3 * g + 1 /\ 3 * (g + 1) - 1 = 3 * g + 2 /\ 3 * (g + 1) = 3 * g + 3
        /\ 3 * g + 1 \in 1..n /\ 3 * g + 2 \in 1..n /\ 3 * g + 3 \in 1..n
    BY <1>1
  <2>2. threes[g + 1] = 100 * d[3 * g + 1] + 10 * d[3 * g + 2] + d[3 * g + 3]
    <3>1. threes[g + 1] = 100 * d[3 * (g + 1) - 2] + 10 * d[3 * (g + 1) - 1] + d[3 * (g + 1)]
      BY <1>4, <2>1
    <3> QED BY <2>1, <3>1
  <2>3. PICK x \in 0..9, y \in 0..9, z \in 0..9 : x = d[3 * g + 1] /\ y = d[3 * g + 2] /\ z = d[3 * g + 3]
    BY <1>e, <2>1
  <2>4. threes[g + 1] \in Nat /\ threes[g + 1] < 2^10
    <3>1. 100 * x + 10 * y + z \in Nat /\ 100 * x + 10 * y + z < 1024
      OBVIOUS
    <3>2. threes[g + 1] = 100 * x + 10 * y + z
      BY <2>2, <2>3
    <3>3. 2^10 = 1024
      BY FirstPowers
    <3> QED BY <3>1, <3>2, <3>3
  <2>5. 10 \in 1..16 /\ g \in 0..Len(threes) - 1
    BY <1>4
  <2> QED BY <1>4, <1>9, <2>2, <2>4, <2>5, NumbersAreRead, ZenonT(60)
<1>11. over = 1 => ValueAt(b, p + 10 * m, 4) = d[n]
  <2> SUFFICES ASSUME over = 1 PROVE ValueAt(b, p + 10 * m, 4) = d[n]
    OBVIOUS
  <2>1. PICK w \in 0..9, q \in Nat \ {0} : w = d[n] /\ q = p + 10 * m
    BY <1>5
  <2>2. HoldsAt(b, q, FromNum(4, w))
    BY <1>5, <1>9, <2>1
  <2>3. w \in Nat /\ w < 16
    OBVIOUS
  <2>4. ValueAt(b, q, 4) = w
    BY <2>2, <2>3, HoldsSmall
  <2> QED BY <2>1, <2>4
<1>12. over = 2 => ValueAt(b, p + 10 * m, 7) = 10 * d[n - 1] + d[n]
  <2> SUFFICES ASSUME over = 2 PROVE ValueAt(b, p + 10 * m, 7) = 10 * d[n - 1] + d[n]
    OBVIOUS
  <2>1. PICK w \in 0..99, q \in Nat \ {0} : w = 10 * d[n - 1] + d[n] /\ q = p + 10 * m
    BY <1>6
  <2>2. HoldsAt(b, q, FromNum(7, w))
    BY <1>6, <1>9, <2>1
  <2>3. w \in Nat /\ w < 128
    OBVIOUS
  <2>4. ValueAt(b, q, 7) = w
    BY <2>2, <2>3, HoldsSmall
  <2> QED BY <2>1, <2>4
<1> HIDE DEF behind
<1> DEFINE Here(g) == IF n - 3 * g >= 3 THEN 3 ELSE n - 3 * g
           Group(g) == ValueAt(b, p + 10 * g, <<4, 7, 10>>[Here(g)])
           Char(k) == 48 + ((Group((k - 1) \div 3) \div 10^(Here((k - 1) \div 3) - 1 - ((k - 1) % 3))) % 10)
<1>13. CharsAt(b, "NUM", p, n) = [k \in 1..n |-> Char(k)]
  BY Zenon DEF CharsAt
<1>14. ASSUME NEW k \in 1..n PROVE Char(k) = s[k]
  <2>1. PICK g \in 0..m, j \in 0..2 : g = (k - 1) \div 3 /\ j = (k - 1) % 3 /\ k = 3 * g + j + 1
    <3>1. PICK x \in Nat : x = k - 1 /\ x < 3 * m + over
      BY <1>1
    <3>2. PICK g \in Nat, j \in 0..2 : g = x \div 3 /\ j = x % 3 /\ x = 3 * g + j
      OBVIOUS
    <3>3. g \in 0..m
      BY <3>1, <3>2
    <3> QED BY <3>1, <3>2, <3>3
  <2>2. PICK h \in 1..3 : h = Here(g) /\ j < h
    BY <1>1, <2>1
  <2>3. PICK w : w = ValueAt(b, p + 10 * g, <<4, 7, 10>>[h])
    OBVIOUS
  <2>4. Char(k) = 48 + FigureFromEnd(w, h - 1 - j)
    <3>1. w = Group(g)
      BY <2>2, <2>3, Zenon
    <3> HIDE DEF Group, Here
    <3> QED BY <2>1, <2>2, <3>1, Zenon DEF FigureFromEnd
  <2>5. FigureFromEnd(w, h - 1 - j) = d[k]
    <3> HIDE DEF Char, Group
    <3>1. CASE g < m
      <4>1. h = 3 /\ <<4, 7, 10>>[h] = 10 /\ g \in 0..m - 1
        BY <1>1, <2>2, <3>1
      <4>2. 3 * g + 1 \in 1..n /\ 3 * g + 2 \in 1..n /\ 3 * g + 3 \in 1..n
        BY <1>1, <4>1
      <4>3. PICK x \in 0..9, y \in 0..9, z \in 0..9 : x = d[3 * g + 1] /\ y = d[3 * g + 2] /\ z = d[3 * g + 3]
        BY <1>e, <4>2
      <4>4. w = 100 * x + 10 * y + z
        BY <1>10, <2>3, <4>1, <4>3
      <4>5. PICK e \in 0..2 : e = h - 1 - j
        BY <2>2, <4>1
      <4>6. /\ e = 2 => FigureFromEnd(w, e) = x
            /\ e = 1 => FigureFromEnd(w, e) = y
            /\ e = 0 => FigureFromEnd(w, e) = z
        <5>1. AreFigures(w, x, y, z)
          BY <4>3, <4>4 DEF AreFigures
        <5>2. FigureFromEnd(w, 2) = x /\ FigureFromEnd(w, 1) = y /\ FigureFromEnd(w, 0) = z
          BY <5>1, FigureOf, Zenon
        <5> QED BY <5>2
      <4>7. (e = 2 => d[k] = x) /\ (e = 1 => d[k] = y) /\ (e = 0 => d[k] = z)
        <5>1. CASE j = 0
          <6>1. k = 3 * g + 1 /\ e = 2
            BY <2>1, <4>1, <4>5, <5>1
          <6> QED BY <4>3, <6>1
        <5>2. CASE j = 1
          <6>1. k = 3 * g + 2 /\ e = 1
            BY <2>1, <4>1, <4>5, <5>2
          <6> QED BY <4>3, <6>1
        <5>3. CASE j = 2
          <6>1. k = 3 * g + 3 /\ e = 0
            BY <2>1, <4>1, <4>5, <5>3
          <6> QED BY <4>3, <6>1
        <5> QED BY <5>1, <5>2, <5>3
      <4> QED BY <4>5, <4>6, <4>7
    <3>2. CASE g = m /\ over = 1
      <4>1. h = 1 /\ <<4, 7, 10>>[h] = 4 /\ j = 0 /\ k = n
        BY <1>1, <2>1, <2>2, <3>2
      <4>2. PICK z \in 0..9 : z = d[n]
        BY <1>5, <3>2
      <4>3. w = z
        BY <1>11, <2>3, <3>2, <4>1, <4>2
      <4>4. PICK x \in 0..9, y \in 0..9 : x = 0 /\ y = 0
        OBVIOUS
      <4>5. PICK e \in 0..2 : e = h - 1 - j /\ e = 0
        BY <2>2, <4>1
      <4>6. w = 100 * x + 10 * y + z
        BY <4>3, <4>4
      <4>7. /\ e = 2 => FigureFromEnd(w, e) = x
            /\ e = 1 => FigureFromEnd(w, e) = y
            /\ e = 0 => FigureFromEnd(w, e) = z
        <5>1. AreFigures(w, x, y, z)
          BY <4>2, <4>4, <4>6 DEF AreFigures
        <5>2. FigureFromEnd(w, 2) = x /\ FigureFromEnd(w, 1) = y /\ FigureFromEnd(w, 0) = z
          BY <5>1, FigureOf, Zenon
        <5> QED BY <5>2
      <4>8. (e = 2 => d[k] = x) /\ (e = 1 => d[k] = y) /\ (e = 0 => d[k] = z)
        BY <4>1, <4>2, <4>5
      <4> QED BY <4>5, <4>7, <4>8
    <3>3. CASE g = m /\ over = 2
      <4>1. h = 2 /\ <<4, 7, 10>>[h] = 7 /\ (j = 0 => k = n - 1) /\ (j # 0 => k = n)
        BY <1>1, <2>1, <2>2, <3>3
      <4>2. PICK y \in 0..9, z \in 0..9 : y = d[n - 1] /\ z = d[n]
        BY <1>6, <3>3
      <4>3. w = 10 * y + z
        BY <1>12, <2>3, <3>3, <4>1, <4>2
      <4>4. PICK x \in 0..9 : x = 0
        OBVIOUS
      <4>5. PICK e \in 0..2 : e = h - 1 - j /\ (j = 0 => e = 1) /\ (j # 0 => e = 0)
        BY <2>2, <4>1
      <4>6. w = 100 * x + 10 * y + z
        BY <4>3, <4>4
      <4>7. /\ e = 2 => FigureFromEnd(w, e) = x
            /\ e = 1 => FigureFromEnd(w, e) = y
            /\ e = 0 => FigureFromEnd(w, e) = z
        <5>1. AreFigures(w, x, y, z)
          BY <4>2, <4>4, <4>6 DEF AreFigures
        <5>2. FigureFromEnd(w, 2) = x /\ FigureFromEnd(w, 1) = y /\ FigureFromEnd(w, 0) = z
          BY <5>1, FigureOf, Zenon
        <5> QED BY <5>2
      <4>8. (e = 2 => d[k] = x) /\ (e = 1 => d[k] = y) /\ (e = 0 => d[k] = z)
        BY <4>1, <4>2, <4>5
      <4> QED BY <4>5, <4>7, <4>8
    <3> QED BY <1>1, <2>1, <3>1, <3>2, <3>3
  <2> HIDE DEF Char
  <2>6. s[k] = 48 + d[k]
    BY <1>e
  <2> QED BY <2>4, <2>5, <2>6
<1> HIDE DEF Char
<1>15. CharsAt(b, "NUM", p, n) = s
  <2>1. [k \in 1..n |-> Char(k)] = [k \in 1..n |-> s[k]]
    BY <1>14
  <2>2. s = [k \in 1..n |-> s[k]]
    BY <1>0
  <2> QED BY <1>13, <2>1, <2>2, Zenon
<1>16. Len(EncodeModeNum(s)) = 10 * m + Len(behind)
  <2>1. \A x, y \in Bitstream : Len(x \o y) = Len(x) + Len(y)
    BY DEF Bitstream
  <2> QED BY <1>2, <1>7, <1>8, <2>1
<1>17. CharBits("NUM", n) = 10 * m + <<0, 4, 7>>[over + 1]
  BY <1>1 DEF CharBits
<1>18. <<0, 4, 7>>[over + 1] = IF over = 0 THEN 0 ELSE IF over = 1 THEN 4 ELSE 7
  OBVIOUS
<1> QED BY <1>0, <1>7, <1>15, <1>16, <1>17, <1>18

(* AnTable and AnOrder are inverse to one another (qrinput.c:464-487). *)
LEMMA LetterOf ==
  ASSUME NEW c \in AnChar
  PROVE  AnTable[c] \in 0..44 /\ AnOrder[1 + AnTable[c]] = c
<1>1. \E i \in 1..45 : AnOrder[i] = c
  BY DEF AnChar
<1> DEFINE place == CHOOSE i \in 1..45 : AnOrder[i] = c
<1>2. place \in 1..45 /\ AnOrder[place] = c
  BY <1>1
<1>3. AnTable[c] = place - 1
  BY DEF AnTable
<1> HIDE DEF place
<1>4. AnTable[c] \in 0..44 /\ 1 + AnTable[c] = place
  BY <1>2, <1>3
<1> QED BY <1>2, <1>4

IsPair(w, x, y) == x \in 0..44 /\ y \in 0..44 /\ w = 45 * x + y

(* Two letters and the number they become. *)
LEMMA PairOf ==
  ASSUME NEW w, NEW x, NEW y, IsPair(w, x, y)
  PROVE  w \div 45 = x /\ w % 45 = y /\ w \in Nat /\ w < 2048
<1>1. x \in 0..44 /\ y \in 0..44 /\ w = 45 * x + y
  BY DEF IsPair
<1> QED BY <1>1

(* Letters are read as they were written, two to eleven bits, one left over to
   six, for letters of every number (qrinput.c:524-569). *)
THEOREM LettersAreRead ==
  ASSUME NEW b \in Bitstream, NEW p \in Nat \ {0}, NEW s \in Seq(Int), \A i \in DOMAIN s : s[i] \in AnChar, s # <<>>,
         HoldsAt(b, p, EncodeModeAn(s))
  PROVE  CharsAt(b, "AN", p, Len(s)) = s /\ Len(EncodeModeAn(s)) = CharBits("AN", Len(s))
<1>0. PICK n \in Nat \ {0} : n = Len(s) /\ DOMAIN s = 1..n /\ \A i \in 1..n : s[i] \in AnChar
  OBVIOUS
<1>1. PICK m \in Nat, over \in 0..1 : m = n \div 2 /\ over = n % 2 /\ n = 2 * m + over
  OBVIOUS
<1>d. PICK d : d = [i \in 1..n |-> AnTable[s[i]]]
  OBVIOUS
<1>e. \A i \in 1..n : d[i] \in 0..44 /\ AnTable[s[i]] = d[i] /\ AnOrder[1 + d[i]] = s[i]
  BY <1>0, <1>d, LetterOf
<1> DEFINE twos == [i \in 1..m |-> 45 * AnTable[s[2 * i - 1]] + AnTable[s[2 * i]]]
           one == FromNum(6, AnTable[s[n]])
           behind == IF over = 1 THEN one ELSE <<>>
<1>2. EncodeModeAn(s) = FromNums(11, twos) \o behind
  BY <1>0, <1>1 DEF EncodeModeAn
<1>3. \A i \in 1..m : IsPair(twos[i], d[2 * i - 1], d[2 * i])
  <2> TAKE i \in 1..m
  <2>1. 2 * i - 1 \in 1..n /\ 2 * i \in 1..n
    BY <1>1
  <2>2. twos[i] = 45 * d[2 * i - 1] + d[2 * i]
    BY <1>e, <2>1, Zenon
  <2> HIDE DEF twos
  <2> QED BY <1>e, <2>1, <2>2, Zenon DEF IsPair
<1>4. twos \in Seq(Int) /\ Len(twos) = m
  <2>1. \A i \in 1..m : 45 * AnTable[s[2 * i - 1]] + AnTable[s[2 * i]] \in Int
    <3> TAKE i \in 1..m
    <3>1. twos[i] \in Nat
      BY <1>3, PairOf
    <3> QED BY <3>1
  <2> QED BY <2>1
<1>5. one = FromNum(6, d[n]) /\ d[n] \in 0..44
  BY <1>e
<1> HIDE DEF twos, one
<1>7. behind \in Bitstream /\ Len(behind) = 6 * over
  <2>1. CASE over = 0
    <3>1. behind = <<>>
      BY <2>1
    <3> QED BY <2>1, <3>1 DEF Bitstream
  <2>2. CASE over = 1
    <3>1. behind = one
      BY <2>2
    <3>2. 6 \in Nat /\ d[n] \in Int /\ one = FromNum(6, d[n])
      <4>1. 0..44 \subseteq Int /\ 6 \in Nat
        OBVIOUS
      <4> QED BY <1>5, <4>1, Zenon
    <3>3. Len(one) = 6 /\ one \in Bitstream
      BY <3>2, FromNumLength, Zenon
    <3> QED BY <2>2, <3>1, <3>3
  <2> QED BY <2>1, <2>2
<1>8. Len(FromNums(11, twos)) = 11 * m /\ FromNums(11, twos) \in Bitstream
  <2>1. 11 \in 1..16
    OBVIOUS
  <2> QED BY <1>4, <2>1, FromNumsLength
<1>9. HoldsAt(b, p, FromNums(11, twos)) /\ HoldsAt(b, p + 11 * m, behind)
  <2>1. PICK u \in Bitstream, v \in Bitstream : u = FromNums(11, twos) /\ v = behind /\ EncodeModeAn(s) = u \o v
    BY <1>2, <1>7, <1>8
  <2>2. HoldsAt(b, p, u) /\ HoldsAt(b, p + Len(u), v)
    BY <2>1, HoldsBoth
  <2> QED BY <1>8, <2>1, <2>2
<1>10. ASSUME NEW g \in 0..m - 1
       PROVE  IsPair(ValueAt(b, p + 11 * g, 11), d[2 * g + 1], d[2 * g + 2])
  <2>1. g + 1 \in 1..m /\ 2 * (g + 1) - 1 = 2 * g + 1 /\ 2 * (g + 1) = 2 * g + 2
    BY <1>1
  <2>2. IsPair(twos[g + 1], d[2 * g + 1], d[2 * g + 2])
    <3>1. IsPair(twos[g + 1], d[2 * (g + 1) - 1], d[2 * (g + 1)])
      BY <1>3, <2>1
    <3> QED BY <2>1, <3>1
  <2>4. twos[g + 1] \in Nat /\ twos[g + 1] < 2048
    BY <2>2, PairOf
  <2>5. 11 \in 1..16 /\ g \in 0..Len(twos) - 1
    BY <1>4
  <2>3. twos[g + 1] \in Nat /\ twos[g + 1] < 2^11
    BY <2>4, FirstPowers
  <2>6. ValueAt(b, p + 11 * g, 11) = twos[g + 1]
    BY <1>4, <1>9, <2>3, <2>5, NumbersAreRead
  <2> QED BY <2>2, <2>6, Zenon
<1>11. over = 1 => ValueAt(b, p + 11 * m, 6) = d[n]
  <2> SUFFICES ASSUME over = 1 PROVE ValueAt(b, p + 11 * m, 6) = d[n]
    OBVIOUS
  <2>1. PICK w \in 0..44, q \in Nat \ {0} : w = d[n] /\ q = p + 11 * m
    BY <1>5
  <2>2. HoldsAt(b, q, FromNum(6, w))
    BY <1>5, <1>9, <2>1
  <2>3. w \in Nat /\ w < 64
    OBVIOUS
  <2>4. ValueAt(b, q, 6) = w
    BY <2>2, <2>3, HoldsSmall
  <2> QED BY <2>1, <2>4
<1> HIDE DEF behind
<1> DEFINE Pair(k) == k % 2 = 0 \/ k < n
           Group(k) == ValueAt(b, p + 11 * ((k - 1) \div 2), IF Pair(k) THEN 11 ELSE 6)
           Char(k) == AnOrder[1 + (IF k % 2 = 0 \/ ~Pair(k) THEN Group(k) % 45 ELSE Group(k) \div 45)]
<1>13. CharsAt(b, "AN", p, n) = [k \in 1..n |-> Char(k)]
  BY Zenon DEF CharsAt
<1>14. ASSUME NEW k \in 1..n PROVE Char(k) = s[k]
  <2>1. PICK g \in 0..m, j \in 0..1 : g = (k - 1) \div 2 /\ k = 2 * g + j + 1
    BY <1>1
  <2>2. (k % 2 = 0) <=> j = 1
    BY <2>1
  <2>3. AnOrder[1 + d[k]] = s[k]
    BY <1>e
  <2>4. CASE g < m
    <3>1. Pair(k) /\ g \in 0..m - 1
      BY <1>1, <2>1, <2>2, <2>4
    <3>2. PICK w, x, y : w = ValueAt(b, p + 11 * g, 11) /\ x = d[2 * g + 1] /\ y = d[2 * g + 2]
      OBVIOUS
    <3>3. w \div 45 = x /\ w % 45 = y
      BY <1>10, <3>1, <3>2, PairOf
    <3>4. Group(k) = w
      BY <2>1, <3>1, <3>2, Zenon
    <3> HIDE DEF Pair, Group
    <3>5. CASE j = 1
      <4>1. k = 2 * g + 2 /\ Char(k) = AnOrder[1 + (w % 45)]
        BY <2>1, <2>2, <3>4, <3>5
      <4> QED BY <2>3, <3>2, <3>3, <4>1
    <3>6. CASE j = 0
      <4>1. k = 2 * g + 1 /\ Char(k) = AnOrder[1 + (w \div 45)]
        BY <2>1, <2>2, <3>1, <3>4, <3>6
      <4> QED BY <2>3, <3>2, <3>3, <4>1
    <3> QED BY <3>5, <3>6
  <2>5. CASE g = m
    <3>1. over = 1 /\ k = n /\ j = 0 /\ ~Pair(k)
      BY <1>1, <2>1, <2>2, <2>5
    <3>2. Group(k) = d[n]
      BY <1>11, <2>1, <2>5, <3>1, Zenon
    <3> HIDE DEF Pair, Group
    <3>3. Char(k) = AnOrder[1 + (d[n] % 45)]
      BY <3>1, <3>2, Zenon
    <3>4. d[n] % 45 = d[n]
      <4>1. \A x \in 0..44 : x % 45 = x
        OBVIOUS
      <4> QED BY <1>5, <4>1, Zenon
    <3> QED BY <2>3, <3>1, <3>3, <3>4
  <2> QED BY <2>1, <2>4, <2>5
<1> HIDE DEF Char
<1>15. CharsAt(b, "AN", p, n) = s
  <2>1. [k \in 1..n |-> Char(k)] = [k \in 1..n |-> s[k]]
    BY <1>14
  <2>2. s = [k \in 1..n |-> s[k]]
    BY <1>0
  <2> QED BY <1>13, <2>1, <2>2, Zenon
<1>16. Len(EncodeModeAn(s)) = 11 * m + 6 * over
  <2>1. \A x, y \in Bitstream : Len(x \o y) = Len(x) + Len(y)
    BY DEF Bitstream
  <2> QED BY <1>2, <1>7, <1>8, <2>1
<1>17. CharBits("AN", n) = 11 * m + 6 * over
  BY <1>1 DEF CharBits
<1> QED BY <1>0, <1>15, <1>16, <1>17

(* Bytes are read as they were written (qrinput.c:594-625). *)
THEOREM BytesAreRead ==
  ASSUME NEW b \in Bitstream, NEW p \in Nat \ {0}, NEW s \in Seq(Int), \A i \in DOMAIN s : s[i] \in Byte, s # <<>>,
         HoldsAt(b, p, EncodeMode8(s))
  PROVE  CharsAt(b, "8", p, Len(s)) = s /\ Len(EncodeMode8(s)) = CharBits("8", Len(s))
<1>0. PICK n \in Nat \ {0} : n = Len(s) /\ DOMAIN s = 1..n /\ \A i \in 1..n : s[i] \in 0..255
  BY DEF Byte
<1>1. 8 \in 1..16 /\ 2^8 = 256
  BY FirstPowers
<1>2. CharsAt(b, "8", p, n) = [k \in 1..n |-> ValueAt(b, p + 8 * (k - 1), 8)]
  BY Zenon DEF CharsAt
<1>3. ASSUME NEW k \in 1..n PROVE ValueAt(b, p + 8 * (k - 1), 8) = s[k]
  <2>1. PICK g \in 0..n - 1 : g = k - 1 /\ g + 1 = k
    OBVIOUS
  <2>2. s[g + 1] \in Nat /\ s[g + 1] < 2^8 /\ g \in 0..Len(s) - 1
    <3>1. PICK x \in 0..255 : x = s[g + 1]
      BY <1>0, <2>1
    <3>2. x \in Nat /\ x < 2^8 /\ g \in 0..Len(s) - 1
      BY <1>0, <1>1, <2>1
    <3> QED BY <3>1, <3>2
  <2>3. HoldsAt(b, p, FromNums(8, s))
    BY DEF EncodeMode8
  <2>4. ValueAt(b, p + 8 * g, 8) = s[g + 1]
    BY <1>1, <2>2, <2>3, NumbersAreRead
  <2> QED BY <2>1, <2>4
<1>4. CharsAt(b, "8", p, n) = s
  <2>1. [k \in 1..n |-> ValueAt(b, p + 8 * (k - 1), 8)] = [k \in 1..n |-> s[k]]
    BY <1>3
  <2>2. s = [k \in 1..n |-> s[k]]
    BY <1>0
  <2> QED BY <1>2, <2>1, <2>2, Zenon
<1>5. Len(EncodeMode8(s)) = 8 * n
  BY <1>0, <1>1, FromNumsLength DEF EncodeMode8
<1> QED BY <1>0, <1>4, <1>5 DEF CharBits

(* Two bytes of Shift-JIS whose second one is from 64 on, as in all its characters,
   and the number of thirteen bits they become. *)
Character(c, d) == c \in (129..159) \cup (224..235) /\ d \in 64..255
KanjiCode(val) ==
  LET base == IF val <= \h9ffc THEN val - \h8140 ELSE val - \hc140
  IN  \hc0 * (base \div 256) + (base % 256)

ReadAs(w, c, d) ==
  /\ w \in Nat /\ w < 8192 /\ (w % 192) + 64 = d
  /\ c = IF (w \div 192) + 129 > 159 THEN (w \div 192) + 129 + 64 ELSE (w \div 192) + 129

(* What a reader makes of a word of 13 bits are the two bytes it was made of. *)
LEMMA KanjiOf ==
  ASSUME NEW c, NEW d, Character(c, d), KanjiWord(c, d), NEW w, w = KanjiCode(256 * c + d)
  PROVE  ReadAs(w, c, d)
<1>1. c \in (129..159) \cup (224..235) /\ d \in 64..255
  BY DEF Character
<1>2. CASE c \in 129..159
  <2>1. PICK val \in Int, x \in 0..30, y \in 0..191 : val = 256 * c + d /\ x = c - 129 /\ y = d - 64
    BY <1>1, <1>2, SMTT(40)
  <2>2. val <= 40956
    BY <1>1, <1>2, <2>1, SMTT(40) DEF KanjiWord
  <2>3. val - 33088 = 256 * x + y
    BY <1>1, <1>2, <2>1
  <2>4. (256 * x + y) \div 256 = x /\ (256 * x + y) % 256 = y
    OBVIOUS
  <2>5. w = 192 * x + y
    BY <2>1, <2>2, <2>3, <2>4 DEF KanjiCode
  <2>6. w % 192 = y /\ w \div 192 = x /\ w \in Nat /\ w < 8192
    BY <2>5
  <2>7. ~((w \div 192) + 129 > 159) /\ c = (w \div 192) + 129 /\ d = y + 64
    BY <1>1, <1>2, <2>1, <2>6
  <2> QED BY <2>6, <2>7 DEF ReadAs
<1>3. CASE c \in 224..235
  <2>1. PICK val \in Int, x \in 31..42, y \in 0..191 : val = 256 * c + d /\ x = c - 193 /\ y = d - 64
    BY <1>1, <1>3
  <2>2. val > 40956
    BY <1>1, <1>3, <2>1
  <2>3. val - 49472 = 256 * x + y
    BY <1>1, <1>3, <2>1
  <2>4. (256 * x + y) \div 256 = x /\ (256 * x + y) % 256 = y
    OBVIOUS
  <2>5. w = 192 * x + y
    BY <2>1, <2>2, <2>3, <2>4 DEF KanjiCode
  <2>6. w % 192 = y /\ w \div 192 = x
    BY <2>5
  <2>7. (w \div 192) + 129 > 159 /\ c = (w \div 192) + 129 + 64 /\ d = y + 64
    BY <2>1, <2>6
  <2>8. x = 42 => y <= 127
    BY <1>1, <1>3, <2>1, SMTT(40) DEF KanjiWord
  <2>9. w \in Nat /\ w < 8192
    BY <2>5, <2>8
  <2> QED BY <2>6, <2>7, <2>9 DEF ReadAs
<1> QED BY <1>1, <1>2, <1>3

(* The characters of Kanji mode are read as they were written, two bytes to
   thirteen bits, in both ranges of the table (qrinput.c:676-719). *)
THEOREM KanjiAreRead ==
  ASSUME NEW b \in Bitstream, NEW p \in Nat \ {0}, NEW s \in Seq(Int), NEW n \in Nat \ {0}, Len(s) = 2 * n,
         \A i \in 1..n : Character(s[2 * i - 1], s[2 * i]) /\ KanjiWord(s[2 * i - 1], s[2 * i]),
         HoldsAt(b, p, EncodeModeKanji(s))
  PROVE  CharsAt(b, "KANJI", p, n) = s /\ Len(EncodeModeKanji(s)) = CharBits("KANJI", n)
<1> DEFINE words == [i \in 1..n |-> KanjiCode(256 * s[2 * i - 1] + s[2 * i])]
<1>1. EncodeModeKanji(s) = FromNums(13, words)
  <2>1. Len(s) \div 2 = n
    OBVIOUS
  <2>2. EncodeModeKanji(s) = FromNums(13, [i \in 1..Len(s) \div 2 |-> KanjiCode(256 * s[2 * i - 1] + s[2 * i])])
    BY DEF EncodeModeKanji, KanjiCode
  <2> QED BY <2>1, <2>2, Zenon
<1>2. \A i \in 1..n : words[i] = KanjiCode(256 * s[2 * i - 1] + s[2 * i])
  BY Zenon
<1>3. ASSUME NEW i \in 1..n
      PROVE  ReadAs(words[i], s[2 * i - 1], s[2 * i])
  <2>1. PICK w, c, d : w = words[i] /\ c = s[2 * i - 1] /\ d = s[2 * i]
    OBVIOUS
  <2>2. Character(c, d) /\ KanjiWord(c, d) /\ w = KanjiCode(256 * c + d)
    BY <1>2, <2>1, Zenon
  <2>3. ReadAs(w, c, d)
    BY <2>2, KanjiOf, Zenon
  <2> QED BY <2>1, <2>3, Zenon
<1>4. words \in Seq(Int) /\ Len(words) = n
  <2>1. \A i \in 1..n : KanjiCode(256 * s[2 * i - 1] + s[2 * i]) \in Int
    BY <1>2, <1>3 DEF ReadAs
  <2> QED BY <2>1
<1> HIDE DEF words
<1>5. 13 \in 1..16
  OBVIOUS
<1>6. ASSUME NEW g \in 0..n - 1 PROVE ValueAt(b, p + 13 * g, 13) = words[g + 1]
  <2>1. g + 1 \in 1..n /\ g \in 0..Len(words) - 1
    BY <1>4
  <2>2. words[g + 1] \in Nat /\ words[g + 1] < 2^13
    <3>1. words[g + 1] \in Nat /\ words[g + 1] < 8192
      BY <1>3, <2>1 DEF ReadAs
    <3> QED BY <3>1, FirstPowers
  <2>3. HoldsAt(b, p, FromNums(13, words))
    BY <1>1
  <2> QED BY <1>4, <1>5, <2>1, <2>2, <2>3, NumbersAreRead
<1> DEFINE Code(k) == ValueAt(b, p + 13 * ((k - 1) \div 2), 13)
           High(k) == (Code(k) \div 192) + 129
           Char(k) == IF k % 2 = 0 THEN (Code(k) % 192) + 64 ELSE IF High(k) > 159 THEN High(k) + 64 ELSE High(k)
<1>7. CharsAt(b, "KANJI", p, n) = [k \in 1..2 * n |-> Char(k)]
  BY Zenon DEF CharsAt
<1>8. ASSUME NEW k \in 1..2 * n PROVE Char(k) = s[k]
  <2>1. PICK g \in 0..n - 1, j \in 0..1 : g = (k - 1) \div 2 /\ k = 2 * g + j + 1
    BY SMTT(40)
  <2>2. (k % 2 = 0 <=> j = 1) /\ g + 1 \in 1..n /\ 2 * (g + 1) = 2 * g + 2 /\ 2 * (g + 1) - 1 = 2 * g + 1
    BY <2>1
  <2>3. PICK w : w = words[g + 1]
    OBVIOUS
  <2>4. Code(k) = w
    BY <1>6, <2>1, <2>3, Zenon
  <2>5. /\ (w % 192) + 64 = s[2 * (g + 1)]
        /\ s[2 * (g + 1) - 1] = IF (w \div 192) + 129 > 159 THEN (w \div 192) + 129 + 64 ELSE (w \div 192) + 129
    <3>1. ReadAs(w, s[2 * (g + 1) - 1], s[2 * (g + 1)])
      BY <1>3, <2>2, <2>3, Zenon
    <3> QED BY <3>1 DEF ReadAs
  <2>6. High(k) = (w \div 192) + 129
    BY <2>4, Zenon
  <2> HIDE DEF Code, High
  <2>7. CASE j = 1
    <3>1. Char(k) = (w % 192) + 64
      BY <2>2, <2>4, <2>7, Zenon
    <3>2. k = 2 * (g + 1)
      BY <2>1, <2>2, <2>7
    <3> QED BY <2>5, <3>1, <3>2, Zenon
  <2>8. CASE j = 0
    <3>1. k % 2 # 0
      BY <2>2, <2>8
    <3>2. Char(k) = IF (w \div 192) + 129 > 159 THEN (w \div 192) + 129 + 64 ELSE (w \div 192) + 129
      BY <2>6, <3>1, ZenonT(60)
    <3>3. k = 2 * (g + 1) - 1
      BY <2>1, <2>2, <2>8
    <3> QED BY <2>5, <3>2, <3>3, ZenonT(60)
  <2> QED BY <2>1, <2>7, <2>8
<1> HIDE DEF Char
<1>9. CharsAt(b, "KANJI", p, n) = s
  <2>1. [k \in 1..2 * n |-> Char(k)] = [k \in 1..2 * n |-> s[k]]
    BY <1>8
  <2>2. s = [k \in 1..2 * n |-> s[k]]
    OBVIOUS
  <2> QED BY <1>7, <2>1, <2>2, Zenon
<1>10. Len(EncodeModeKanji(s)) = 13 * n
  BY <1>1, <1>4, <1>5, FromNumsLength
<1> QED BY <1>9, <1>10 DEF CharBits

-----------------------------------------------------------------------------
(* A segment, with its header. *)

\* The modes that a symbol of a version can say.
Sayable(mode, version, mqr) ==
  IF mqr THEN version \in 1..4 /\ mode \in MicroModes(version) ELSE version \in 1..40 /\ mode \in SplittableMode

(* The width of a length is the reader's (qrspec.c:145-159, mqrspec.c:95-105). *)
LEMMA LengthsAgree ==
  ASSUME NEW mode, NEW version, NEW mqr \in BOOLEAN, Sayable(mode, version, mqr)
  PROVE  /\ LengthBits(mode, version, mqr) \in 3..16
         /\ LengthBits(mode, version, mqr) =
              IF mqr THEN MicroLengthIndicator(mode, version) ELSE LengthIndicator(mode, version)
<1>1. CASE mqr
  <2>1. version \in {1, 2, 3, 4} /\ mode \in MicroModes(version)
    BY <1>1 DEF Sayable
  <2>2. CASE mode = "NUM"
    BY <1>1, <2>1, <2>2 DEF LengthBits, MicroLengthIndicator
  <2>3. CASE mode = "AN"
    BY <1>1, <2>1, <2>3 DEF LengthBits, MicroLengthIndicator, MicroModes
  <2>4. CASE mode = "8"
    BY <1>1, <2>1, <2>4 DEF LengthBits, MicroLengthIndicator, MicroModes
  <2>5. CASE mode = "KANJI"
    BY <1>1, <2>1, <2>5 DEF LengthBits, MicroLengthIndicator, MicroModes
  <2> QED BY <2>1, <2>2, <2>3, <2>4, <2>5 DEF MicroModes
<1>2. CASE ~mqr
  <2>1. version \in 1..40 /\ mode \in {"NUM", "AN", "8", "KANJI"}
    BY <1>2 DEF Sayable, SplittableMode
  <2>2. mode \in SplittableMode
    BY <1>2 DEF Sayable
  <2>3. CASE mode = "NUM"
    BY <1>2, <2>1, <2>2, <2>3 DEF LengthBits, LengthIndicator
  <2>4. CASE mode = "AN"
    BY <1>2, <2>1, <2>2, <2>4 DEF LengthBits, LengthIndicator
  <2>5. CASE mode = "8"
    BY <1>2, <2>1, <2>2, <2>5 DEF LengthBits, LengthIndicator
  <2>6. CASE mode = "KANJI"
    BY <1>2, <2>1, <2>2, <2>6 DEF LengthBits, LengthIndicator
  <2> QED BY <2>1, <2>3, <2>4, <2>5, <2>6
<1> QED BY <1>1, <1>2

(* The numbers of the modes that have data (qrinput.c:411-719). *)
LEMMA ModeIds ==
  ASSUME NEW mode \in SplittableMode
  PROVE  /\ ModeId(mode, FALSE) \in {1, 2, 4, 8} /\ ModeId(mode, TRUE) \in 0..3
         /\ <<"NUM", "AN", "SET", "8", "FNC1", "", "ECI", "KANJI", "FNC1SECOND">>[ModeId(mode, FALSE)] = mode
         /\ <<"NUM", "AN", "8", "KANJI">>[ModeId(mode, TRUE) + 1] = mode
         /\ (ModeId(mode, TRUE) = 0 <=> mode = "NUM")
<1>1. CASE mode = "NUM"
  BY <1>1 DEF ModeId
<1>2. CASE mode = "AN"
  BY <1>2 DEF ModeId
<1>3. CASE mode = "8"
  BY <1>3 DEF ModeId
<1>4. CASE mode = "KANJI"
  BY <1>4 DEF ModeId
<1> QED BY <1>1, <1>2, <1>3, <1>4 DEF SplittableMode

(* The mode and the length before a segment's data are read as they were written,
   and are no terminator (qrinput.c:411-719, 1055-1118). *)
LEMMA HeaderIsRead ==
  ASSUME NEW b \in Bitstream, NEW p \in Nat \ {0}, NEW mode, NEW version, NEW mqr \in BOOLEAN, Sayable(mode, version, mqr),
         NEW size \in Nat \ {0}, size < 2^LengthBits(mode, version, mqr), HoldsAt(b, p, Header(mode, size, version, mqr))
  PROVE  LET m == ModeBits(version, mqr)
             l == LengthBits(mode, version, mqr)
         IN  /\ m \in 0..4 /\ Len(Header(mode, size, version, mqr)) = m + l
             /\ ModeAt(b, p, version, mqr) = mode /\ ValueAt(b, p + m, l) = size
             /\ ~mqr => ValueAt(b, p, 4) # 0
             /\ mqr /\ p + 2 * version + 1 <= Len(b) + 1 => ValueAt(b, p, 2 * version + 1) # 0
<1> DEFINE m == ModeBits(version, mqr)
           l == LengthBits(mode, version, mqr)
           id == ModeId(mode, mqr)
<1>0. mode \in SplittableMode /\ version \in Nat
  <2>1. CASE mqr
    <3>1. version \in {1, 2, 3, 4} /\ mode \in MicroModes(version)
      BY <2>1 DEF Sayable
    <3> QED BY <3>1 DEF MicroModes, SplittableMode
  <2>2. CASE ~mqr
    BY <2>2 DEF Sayable
  <2> QED BY <2>1, <2>2
<1>1. l \in 3..16 /\ l = IF mqr THEN MicroLengthIndicator(mode, version) ELSE LengthIndicator(mode, version)
  BY LengthsAgree
<1>2. m \in 0..4 /\ m = IF mqr THEN version - 1 ELSE 4
  <2>1. mqr => version \in 1..4
    BY DEF Sayable
  <2> QED BY <2>1 DEF ModeBits
<1>3. id \in Nat /\ id < 2^m
  <2>1. CASE ~mqr
    <3>1. id \in {1, 2, 4, 8} /\ m = 4
      BY <1>0, <1>2, <2>1, ModeIds
    <3> QED BY <3>1, FirstPowers
  <2>2. CASE mqr
    <3>0. id = ModeId(mode, TRUE)
      BY <2>2
    <3>1. version \in {1, 2, 3, 4} /\ mode \in MicroModes(version) /\ m = version - 1
      BY <1>2, <2>2 DEF Sayable
    <3>2. CASE version = 1
      BY <3>0, <3>1, <3>2, FirstPowers DEF MicroModes, ModeId
    <3>3. CASE version = 2
      BY <3>0, <3>1, <3>3, FirstPowers DEF MicroModes, ModeId
    <3>4. CASE version \in {3, 4}
      <4>1. ModeId(mode, TRUE) \in 0..3
        BY <1>0, ModeIds
      <4>2. m \in {2, 3}
        BY <3>1, <3>4
      <4>3. id \in 0..3
        BY <3>0, <4>1
      <4> HIDE DEF m, id
      <4>4. 2^m \in {4, 8}
        <5>1. CASE m = 2
          BY <5>1, FirstPowers
        <5>2. CASE m = 3
          BY <5>2, FirstPowers
        <5> QED BY <4>2, <5>1, <5>2
      <4> QED BY <4>3, <4>4
    <3> QED BY <3>1, <3>2, <3>3, <3>4
  <2> QED BY <2>1, <2>2
<1>4. Header(mode, size, version, mqr) = FromNum(m, id) \o FromNum(l, size)
  BY <1>1, <1>2 DEF Header
<1>5. size < 2^l
  OBVIOUS
<1> HIDE DEF m, l, id
<1>6. /\ Len(FromNum(m, id)) = m /\ FromNum(m, id) \in Bitstream
      /\ Len(FromNum(l, size)) = l /\ FromNum(l, size) \in Bitstream
  <2>1. m \in Nat /\ l \in Nat /\ id \in Int /\ size \in Int
    BY <1>1, <1>2, <1>3
  <2> QED BY <2>1, FromNumLength
<1>7. HoldsAt(b, p, FromNum(m, id)) /\ HoldsAt(b, p + m, FromNum(l, size))
  BY <1>4, <1>6, HoldsBoth, ZenonT(60)
<1>8. Len(Header(mode, size, version, mqr)) = m + l
  <2>1. \A x, y \in Bitstream : Len(x \o y) = Len(x) + Len(y)
    BY DEF Bitstream
  <2> QED BY <1>4, <1>6, <2>1
<1>9. ValueAt(b, p, m) = id
  <2>1. m \in 0..24
    BY <1>2
  <2> QED BY <1>3, <1>7, <2>1, HoldsNumber
<1>10. ValueAt(b, p + m, l) = size
  <2>1. l \in 0..24 /\ p + m \in Nat \ {0} /\ size \in Nat
    BY <1>1, <1>2
  <2> QED BY <1>5, <1>7, <2>1, HoldsNumber
<1>11. ModeAt(b, p, version, mqr) = mode /\ (~mqr => ValueAt(b, p, 4) # 0)
  <2>1. CASE ~mqr
    <3>1. m = 4 /\ id = ModeId(mode, FALSE)
      BY <1>2, <2>1 DEF id
    <3>2. ModeAt(b, p, version, mqr) = <<"NUM", "AN", "SET", "8", "FNC1", "", "ECI", "KANJI", "FNC1SECOND">>[ValueAt(b, p, 4)]
      BY <2>1 DEF ModeAt
    <3>3. ValueAt(b, p, 4) = ModeId(mode, FALSE)
      BY <1>9, <3>1
    <3>4. PICK k : k = ModeId(mode, FALSE)
      OBVIOUS
    <3>5. k \in {1, 2, 4, 8} /\ <<"NUM", "AN", "SET", "8", "FNC1", "", "ECI", "KANJI", "FNC1SECOND">>[k] = mode
      BY <1>0, <3>4, ModeIds
    <3>9. k \in {1, 2, 4, 8}
      BY <3>5
    <3>10. ValueAt(b, p, 4) = k
      BY <3>3, <3>4, Zenon
    <3>11. k # 0
      BY <3>9
    <3>6. ValueAt(b, p, 4) = k /\ k # 0
      BY <3>10, <3>11, Zenon
    <3>7. ModeAt(b, p, version, mqr) = <<"NUM", "AN", "SET", "8", "FNC1", "", "ECI", "KANJI", "FNC1SECOND">>[k]
      BY <3>2, <3>6, Zenon
    <3>8. ModeAt(b, p, version, mqr) = mode
      BY <3>5, <3>7, Zenon
    <3> QED BY <3>6, <3>8
  <2>2. CASE mqr
    <3>1. m = version - 1 /\ id = ModeId(mode, TRUE)
      BY <1>2, <2>2 DEF id
    <3>2. ModeAt(b, p, version, mqr) = <<"NUM", "AN", "8", "KANJI">>[ValueAt(b, p, version - 1) + 1]
      BY <2>2 DEF ModeAt
    <3>3. ValueAt(b, p, version - 1) = ModeId(mode, TRUE)
      BY <1>9, <3>1
    <3>4. <<"NUM", "AN", "8", "KANJI">>[ModeId(mode, TRUE) + 1] = mode
      BY <1>0, ModeIds
    <3> QED BY <2>2, <3>2, <3>3, <3>4
  <2> QED BY <2>1, <2>2
<1>12. ASSUME mqr, p + 2 * version + 1 <= Len(b) + 1 PROVE ValueAt(b, p, 2 * version + 1) # 0
  <2>1. PICK n \in 0..24 : n = 2 * version + 1 /\ p + n <= Len(b) + 1 /\ m = version - 1
    <3>1. version \in {1, 2, 3, 4}
      BY <1>12 DEF Sayable
    <3> QED BY <1>2, <1>12, <3>1
  <2>2. CASE id # 0
    <3>1. PICK j \in Nat : j = 0
      OBVIOUS
    <3>2. m \in 0..24 /\ j + m <= n /\ p + j = p
      BY <1>2, <2>1, <3>1
    <3>3. ValueAt(b, p + j, m) # 0
      BY <1>9, <2>2, <3>2
    <3>4. ValueAt(b, p, n) # 0
      BY <2>1, <3>2, <3>3, NotZero
    <3> QED BY <2>1, <3>4
  <2>3. CASE id = 0
    <3>1. mode = "NUM"
      BY <1>0, <1>12, <2>3, ModeIds DEF id
    <3>2. l = version + 2
      BY <1>12, <3>1 DEF l, LengthBits
    <3>3. l \in 0..24 /\ m \in Nat /\ m + l <= n
      BY <1>1, <1>2, <2>1, <3>2, SMTT(40)
    <3>4. ValueAt(b, p + m, l) # 0
      BY <1>10
    <3>5. ValueAt(b, p, n) # 0
      BY <2>1, <3>3, <3>4, NotZero
    <3> QED BY <2>1, <3>5
  <2> QED BY <2>2, <2>3
<1>13. /\ m \in 0..4 /\ Len(Header(mode, size, version, mqr)) = m + l
       /\ ModeAt(b, p, version, mqr) = mode /\ ValueAt(b, p + m, l) = size
       /\ ~mqr => ValueAt(b, p, 4) # 0
       /\ mqr /\ p + 2 * version + 1 <= Len(b) + 1 => ValueAt(b, p, 2 * version + 1) # 0
  BY <1>2, <1>8, <1>10, <1>11, <1>12
<1> QED BY <1>13, Zenon DEF m, l

\* The data of a segment that readers understand, how many characters they are, and their bits.
Legible(mode, s) ==
  CASE mode = "NUM" -> \A i \in DOMAIN s : s[i] \in Digit
    [] mode = "AN" -> \A i \in DOMAIN s : s[i] \in AnChar
    [] mode = "8" -> \A i \in DOMAIN s : s[i] \in Byte
    [] mode = "KANJI" -> /\ Len(s) % 2 = 0
                         /\ \A i \in 1..Len(s) \div 2 : Character(s[2 * i - 1], s[2 * i]) /\ KanjiWord(s[2 * i - 1], s[2 * i])
Characters(mode, s) == IF mode = "KANJI" THEN Len(s) \div 2 ELSE Len(s)
Payload(mode, s) ==
  CASE mode = "NUM" -> EncodeModeNum(s)
    [] mode = "AN" -> EncodeModeAn(s)
    [] mode = "8" -> EncodeMode8(s)
    [] mode = "KANJI" -> EncodeModeKanji(s)

(* The data of a segment is read as it was written, in whichever mode. *)
LEMMA PayloadIsRead ==
  ASSUME NEW b \in Bitstream, NEW p \in Nat \ {0}, NEW mode \in SplittableMode, NEW s \in Seq(Int), s # <<>>,
         Legible(mode, s), HoldsAt(b, p, Payload(mode, s))
  PROVE  /\ CharsAt(b, mode, p, Characters(mode, s)) = s
         /\ Len(Payload(mode, s)) = CharBits(mode, Characters(mode, s))
         /\ Characters(mode, s) \in Nat \ {0}
<1>0. Len(s) \in Nat \ {0}
  OBVIOUS
<1>1. CASE mode = "NUM"
  <2>1. Characters(mode, s) = Len(s) /\ Payload(mode, s) = EncodeModeNum(s) /\ \A i \in DOMAIN s : s[i] \in Digit
    BY <1>1 DEF Characters, Payload, Legible
  <2>2. HoldsAt(b, p, EncodeModeNum(s))
    BY <2>1, Zenon
  <2>3. CharsAt(b, "NUM", p, Len(s)) = s /\ Len(EncodeModeNum(s)) = CharBits("NUM", Len(s))
    BY <2>1, <2>2, DigitsAreRead
  <2> QED BY <1>0, <1>1, <2>1, <2>3, Zenon
<1>2. CASE mode = "AN"
  <2>1. Characters(mode, s) = Len(s) /\ Payload(mode, s) = EncodeModeAn(s) /\ \A i \in DOMAIN s : s[i] \in AnChar
    BY <1>2 DEF Characters, Payload, Legible
  <2>2. HoldsAt(b, p, EncodeModeAn(s))
    BY <2>1, Zenon
  <2>3. CharsAt(b, "AN", p, Len(s)) = s /\ Len(EncodeModeAn(s)) = CharBits("AN", Len(s))
    BY <2>1, <2>2, LettersAreRead
  <2> QED BY <1>0, <1>2, <2>1, <2>3, Zenon
<1>3. CASE mode = "8"
  <2>1. Characters(mode, s) = Len(s) /\ Payload(mode, s) = EncodeMode8(s) /\ \A i \in DOMAIN s : s[i] \in Byte
    BY <1>3 DEF Characters, Payload, Legible
  <2>2. HoldsAt(b, p, EncodeMode8(s))
    BY <2>1, Zenon
  <2>3. CharsAt(b, "8", p, Len(s)) = s /\ Len(EncodeMode8(s)) = CharBits("8", Len(s))
    BY <2>1, <2>2, BytesAreRead
  <2> QED BY <1>0, <1>3, <2>1, <2>3, Zenon
<1>4. CASE mode = "KANJI"
  <2>1. /\ Characters(mode, s) = Len(s) \div 2 /\ Payload(mode, s) = EncodeModeKanji(s) /\ Len(s) % 2 = 0
        /\ \A i \in 1..Len(s) \div 2 : Character(s[2 * i - 1], s[2 * i]) /\ KanjiWord(s[2 * i - 1], s[2 * i])
    BY <1>4 DEF Characters, Payload, Legible
  <2>2. HoldsAt(b, p, EncodeModeKanji(s))
    BY <2>1, Zenon
  <2>3. PICK n \in Nat \ {0} : n = Len(s) \div 2 /\ Len(s) = 2 * n
    BY <1>0, <2>1
  <2>4. \A i \in 1..n : Character(s[2 * i - 1], s[2 * i]) /\ KanjiWord(s[2 * i - 1], s[2 * i])
    BY <2>1, <2>3, Zenon
  <2>5. CharsAt(b, "KANJI", p, n) = s /\ Len(EncodeModeKanji(s)) = CharBits("KANJI", n)
    BY <2>2, <2>3, <2>4, KanjiAreRead
  <2>6. Characters(mode, s) = n
    BY <2>1, <2>3
  <2> QED BY <1>4, <2>1, <2>3, <2>5, <2>6, Zenon
<1> QED BY <1>1, <1>2, <1>3, <1>4 DEF SplittableMode

(* A part of a segment is its header and its data. *)
LEMMA ChunkIs ==
  ASSUME NEW mode \in SplittableMode, NEW s, NEW version, NEW mqr
  PROVE  Chunked(mode, s, version, mqr) = Header(mode, Characters(mode, s), version, mqr) \o Payload(mode, s)
<1>1. CASE mode = "NUM"
  BY <1>1 DEF Chunked, Characters, Payload
<1>2. CASE mode = "AN"
  BY <1>2 DEF Chunked, Characters, Payload
<1>3. CASE mode = "8"
  BY <1>3 DEF Chunked, Characters, Payload
<1>4. CASE mode = "KANJI"
  BY <1>4 DEF Chunked, Characters, Payload
<1> QED BY <1>1, <1>2, <1>3, <1>4 DEF SplittableMode

\* A segment at p is no end, says a text, and takes some bits.
IsRead(b, p, version, mqr, text, size) ==
  /\ SegmentAt(b, p, version, mqr).text = text /\ SegmentAt(b, p, version, mqr).bits = size
  /\ size \in Nat \ {0} /\ p + size <= Len(b) + 1 /\ ~EndsAt(b, p, version, mqr)

(* A segment with characters has bits for them. *)
LEMMA FewestBits ==
  ASSUME NEW mode \in SplittableMode, NEW n \in Nat \ {0}
  PROVE  CharBits(mode, n) \in Nat /\ CharBits(mode, n) >= IF mode = "NUM" THEN 4 ELSE IF mode = "AN" THEN 6 ELSE 8
<1>1. CASE mode = "NUM"
  <2>1. PICK k \in Nat, r \in 0..2 : k = n \div 3 /\ r = n % 3 /\ n = 3 * k + r
    OBVIOUS
  <2>2. CharBits(mode, n) = 10 * k + <<0, 4, 7>>[r + 1]
    BY <1>1, <2>1 DEF CharBits
  <2>3. CASE r = 0
    BY <1>1, <2>1, <2>2, <2>3
  <2>4. CASE r # 0
    BY <1>1, <2>1, <2>2, <2>4
  <2> QED BY <2>3, <2>4
<1>2. CASE mode = "AN"
  BY <1>2 DEF CharBits
<1>3. CASE mode = "8"
  BY <1>3 DEF CharBits
<1>4. CASE mode = "KANJI"
  BY <1>4 DEF CharBits
<1> QED BY <1>1, <1>2, <1>3, <1>4 DEF SplittableMode

(* A part of a segment, with its header, is read as it was written. *)
LEMMA ChunkIsRead ==
  ASSUME NEW b \in Bitstream, NEW p \in Nat \ {0}, NEW mode \in SplittableMode, NEW s \in Seq(Int), s # <<>>,
         Legible(mode, s), NEW version, NEW mqr \in BOOLEAN, Sayable(mode, version, mqr),
         Len(Chunked(mode, s, version, mqr)) <= Len(b) => Characters(mode, s) < 2^LengthBits(mode, version, mqr),
         Chunked(mode, s, version, mqr) \in Bitstream, Payload(mode, s) \in Bitstream,
         Header(mode, Characters(mode, s), version, mqr) \in Bitstream,
         HoldsAt(b, p, Chunked(mode, s, version, mqr))
  PROVE  IsRead(b, p, version, mqr, s, Len(Chunked(mode, s, version, mqr)))
<1> DEFINE n == Characters(mode, s)
           head == Header(mode, n, version, mqr)
           payload == Payload(mode, s)
           m == ModeBits(version, mqr)
           l == LengthBits(mode, version, mqr)
<1>1. Chunked(mode, s, version, mqr) = head \o payload /\ head \in Bitstream /\ payload \in Bitstream
  BY ChunkIs
<1>2. HoldsAt(b, p, head) /\ HoldsAt(b, p + Len(head), payload)
  <2> HIDE DEF head, payload
  <2> QED BY <1>1, HoldsBoth
<1>3. n \in Nat \ {0} /\ Len(head) \in Nat /\ p + Len(head) \in Nat \ {0}
  <2>1. n \in Nat
    BY DEF Characters
  <2>2. n # 0
    <3>1. Len(s) \in Nat \ {0}
      OBVIOUS
    <3>2. mode = "KANJI" => Len(s) % 2 = 0
      BY DEF Legible
    <3> QED BY <3>1, <3>2 DEF Characters
  <2>3. Len(head) \in Nat
    <3> HIDE DEF head
    <3> QED BY <1>1 DEF Bitstream
  <2> QED BY <2>1, <2>2, <2>3
<1>6. CharsAt(b, mode, p + Len(head), n) = s /\ Len(payload) = CharBits(mode, n)
  <2> HIDE DEF head
  <2> QED BY <1>2, <1>3, PayloadIsRead
<1>4. /\ m \in 0..4 /\ Len(head) = m + l
      /\ ModeAt(b, p, version, mqr) = mode /\ ValueAt(b, p + m, l) = n
      /\ ~mqr => ValueAt(b, p, 4) # 0
      /\ mqr /\ p + 2 * version + 1 <= Len(b) + 1 => ValueAt(b, p, 2 * version + 1) # 0
  <2>1. Len(Chunked(mode, s, version, mqr)) <= Len(b)
    <3>1. p + Len(Chunked(mode, s, version, mqr)) <= Len(b) + 1
      BY DEF HoldsAt
    <3>2. Len(Chunked(mode, s, version, mqr)) \in Nat /\ Len(b) \in Nat
      BY DEF Bitstream
    <3> QED BY <3>1, <3>2
  <2>2. n < 2^l
    BY <2>1
  <2> QED BY <1>2, <1>3, <2>2, HeaderIsRead
<1>5. l \in 3..16 /\ l = IF mqr THEN MicroLengthIndicator(mode, version) ELSE LengthIndicator(mode, version)
  BY LengthsAgree
<1>7. CharBits(mode, n) \in Nat /\ CharBits(mode, n) >= IF mode = "NUM" THEN 4 ELSE IF mode = "AN" THEN 6 ELSE 8
  BY <1>3, FewestBits
<1> HIDE DEF n, head, payload, m, l
<1>8. Len(head \o payload) = Len(head) + Len(payload)
  BY <1>1 DEF Bitstream
<1>9. PICK size \in Nat \ {0} : size = Len(Chunked(mode, s, version, mqr)) /\ size = m + (l + CharBits(mode, n))
  <2>1. PICK x \in 0..4, y \in 3..16, z \in Nat : x = m /\ y = l /\ z = CharBits(mode, n)
    BY <1>4, <1>5, <1>7
  <2>2. Len(Chunked(mode, s, version, mqr)) = (x + y) + z
    BY <1>1, <1>4, <1>6, <1>8, <2>1, Zenon
  <2>3. (x + y) + z \in Nat \ {0} /\ (x + y) + z = x + (y + z)
    OBVIOUS
  <2> QED BY <2>1, <2>2, <2>3, Zenon
<1>10. p + size <= Len(b) + 1
  BY <1>9 DEF HoldsAt
<1>11. SegmentAt(b, p, version, mqr) = [text |-> s, bits |-> size]
  <2>1. (p + m) + l = p + Len(head)
    BY <1>4, <1>5
  <2>2. mode # "FNC1SECOND" /\ mode # "ECI"
    BY DEF SplittableMode
  <2>3. SegmentAt(b, p, version, mqr) =
          [text |-> CharsAt(b, mode, (p + m) + l, ValueAt(b, p + m, l)),
           bits |-> m + (l + CharBits(mode, ValueAt(b, p + m, l)))]
    BY <1>4, <2>2, Zenon DEF SegmentAt, m, l
  <2> QED BY <1>4, <1>6, <1>9, <2>1, <2>3, Zenon
<1>12. ~EndsAt(b, p, version, mqr)
  <2>1. CASE ~mqr
    <3>1. size >= 4
      <4>1. m = 4
        BY <2>1 DEF m, ModeBits
      <4>2. PICK y \in 3..16, z \in Nat : y = l /\ z = CharBits(mode, n)
        BY <1>5, <1>7
      <4>3. size = 4 + (y + z)
        BY <1>9, <4>1, <4>2, Zenon
      <4> QED BY <4>3
    <3>2. SegmentAt(b, p, version, mqr).bits = size /\ Len(b) \in Nat
      BY <1>11 DEF Bitstream
    <3> QED BY <1>4, <1>9, <1>10, <2>1, <3>1, <3>2 DEF EndsAt
  <2>2. CASE mqr
    <3>1. version \in {1, 2, 3, 4} /\ mode \in MicroModes(version) /\ m = version - 1
      BY <2>2 DEF Sayable, m, ModeBits
    <3>2. l \in version..version + 2 /\ (mode # "NUM" /\ mode # "KANJI" => l = version + 1) /\ (mode = "NUM" => l = version + 2)
      BY <2>2, <3>1 DEF l, LengthBits, MicroModes
    <3>3. size >= 2 * version + 1
      BY <1>7, <1>9, <3>1, <3>2
    <3>4. SegmentAt(b, p, version, mqr).bits = size /\ Len(b) \in Nat
      BY <1>11 DEF Bitstream
    <3>5. PICK t \in Nat : t = 2 * version + 1
      BY <3>1
    <3>6. p + t <= Len(b) + 1 /\ ValueAt(b, p, t) # 0
      BY <1>4, <1>10, <2>2, <3>1, <3>3, <3>4, <3>5
    <3>7. EndsAt(b, p, version, mqr) <=>
            \/ p + t > Len(b) + 1
            \/ ValueAt(b, p, t) = 0
            \/ p + SegmentAt(b, p, version, mqr).bits \notin p + 1..Len(b) + 1
      BY <2>2, <3>5 DEF EndsAt
    <3> QED BY <1>9, <1>10, <3>4, <3>6, <3>7
  <2> QED BY <2>1, <2>2
<1> QED BY <1>9, <1>10, <1>11, <1>12 DEF IsRead

(* The bits of an ECI number after those that tell how many bytes it has. *)
Marked(x, y) == y = 32768 + x
SameBits(x, y) == \A d \in 0..13 : (y \div 2^d) % 2 = (x \div 2^d) % 2

(* The marks of a number's length do not touch its bits. *)
LEMMA BitsBelow ==
  ASSUME NEW x \in Nat, NEW y \in Nat, Marked(x, y)
  PROVE  SameBits(x, y)
<1> SUFFICES ASSUME NEW d \in 0..13 PROVE (y \div 2^d) % 2 = (x \div 2^d) % 2
  BY DEF SameBits
<1>1. CASE d = 0
  <2>1. (y \div 1) % 2 = (x \div 1) % 2
    BY DEF Marked
  <2>2. 2^d = 1
    BY <1>1, FirstPowers
  <2> QED BY <1>1, <2>1, <2>2
<1>2. CASE d = 1
  <2>1. (y \div 2) % 2 = (x \div 2) % 2
    BY DEF Marked
  <2>2. 2^d = 2
    BY <1>2, FirstPowers
  <2> QED BY <1>2, <2>1, <2>2
<1>3. CASE d = 2
  <2>1. (y \div 4) % 2 = (x \div 4) % 2
    BY DEF Marked
  <2>2. 2^d = 4
    BY <1>3, FirstPowers
  <2> QED BY <1>3, <2>1, <2>2
<1>4. CASE d = 3
  <2>1. (y \div 8) % 2 = (x \div 8) % 2
    BY DEF Marked
  <2>2. 2^d = 8
    BY <1>4, FirstPowers
  <2> QED BY <1>4, <2>1, <2>2
<1>5. CASE d = 4
  <2>1. (y \div 16) % 2 = (x \div 16) % 2
    BY DEF Marked
  <2>2. 2^d = 16
    BY <1>5, FirstPowers
  <2> QED BY <1>5, <2>1, <2>2
<1>6. CASE d = 5
  <2>1. (y \div 32) % 2 = (x \div 32) % 2
    BY DEF Marked
  <2>2. 2^d = 32
    BY <1>6, FirstPowers
  <2> QED BY <1>6, <2>1, <2>2
<1>7. CASE d = 6
  <2>1. (y \div 64) % 2 = (x \div 64) % 2
    BY DEF Marked
  <2>2. 2^d = 64
    BY <1>7, FirstPowers
  <2> QED BY <1>7, <2>1, <2>2
<1>8. CASE d = 7
  <2>1. (y \div 128) % 2 = (x \div 128) % 2
    BY DEF Marked
  <2>2. 2^d = 128
    BY <1>8, FirstPowers
  <2> QED BY <1>8, <2>1, <2>2
<1>9. CASE d = 8
  <2>1. (y \div 256) % 2 = (x \div 256) % 2
    BY DEF Marked
  <2>2. 2^d = 256
    BY <1>9, FirstPowers
  <2> QED BY <1>9, <2>1, <2>2
<1>10. CASE d = 9
  <2>1. (y \div 512) % 2 = (x \div 512) % 2
    BY DEF Marked
  <2>2. 2^d = 512
    BY <1>10, FirstPowers
  <2> QED BY <1>10, <2>1, <2>2
<1>11. CASE d = 10
  <2>1. (y \div 1024) % 2 = (x \div 1024) % 2
    BY DEF Marked
  <2>2. 2^d = 1024
    BY <1>11, FirstPowers
  <2> QED BY <1>11, <2>1, <2>2
<1>12. CASE d = 11
  <2>1. (y \div 2048) % 2 = (x \div 2048) % 2
    BY DEF Marked
  <2>2. 2^d = 2048
    BY <1>12, FirstPowers
  <2> QED BY <1>12, <2>1, <2>2
<1>13. CASE d = 12
  <2>1. (y \div 4096) % 2 = (x \div 4096) % 2
    BY DEF Marked
  <2>2. 2^d = 4096
    BY <1>13, FirstPowers
  <2> QED BY <1>13, <2>1, <2>2
<1>14. CASE d = 13
  <2>1. (y \div 8192) % 2 = (x \div 8192) % 2
    BY DEF Marked
  <2>2. 2^d = 8192
    BY <1>14, FirstPowers
  <2> QED BY <1>14, <2>1, <2>2
<1> QED BY <1>1, <1>2, <1>3, <1>4, <1>5, <1>6, <1>7, <1>8, <1>9, <1>10, <1>11, <1>12, <1>13, <1>14

(* Where a number is held its last bits are held too. *)
LEMMA HoldsLower ==
  ASSUME NEW b \in Bitstream, NEW p \in Nat \ {0}, NEW n \in 0..24, NEW j \in 0..n, NEW x \in Nat, NEW y \in Nat,
         HoldsAt(b, p, FromNum(n, x)), \A d \in 0..n - j - 1 : (x \div 2^d) % 2 = (y \div 2^d) % 2
  PROVE  HoldsAt(b, p + j, FromNum(n - j, y))
<1>0. Len(FromNum(n, x)) = n /\ Len(FromNum(n - j, y)) = n - j
  BY FromNumLength
<1>1. p + n <= Len(b) + 1 /\ \A i \in 1..n : b[p + i - 1] = (x \div 2^(n - i)) % 2
  <2>1. \A i \in 1..n : FromNum(n, x)[i] = (x \div 2^(n - i)) % 2
    BY DEF FromNum
  <2> QED BY <1>0, <2>1 DEF HoldsAt
<1>2. \A i \in 1..n - j : FromNum(n - j, y)[i] = (y \div 2^((n - j) - i)) % 2
  BY DEF FromNum
<1>3. ASSUME NEW i \in 1..n - j PROVE b[(p + j) + i - 1] = FromNum(n - j, y)[i]
  <2>1. PICK k \in 1..n, d \in 0..n - j - 1 : k = j + i /\ d = (n - j) - i /\ d = n - k /\ (p + j) + i - 1 = p + k - 1
    BY <1>3
  <2>2. b[p + k - 1] = (x \div 2^d) % 2
    BY <1>1, <2>1
  <2>3. (x \div 2^d) % 2 = (y \div 2^d) % 2
    OBVIOUS
  <2>4. FromNum(n - j, y)[i] = (y \div 2^d) % 2
    BY <1>2, <1>3, <2>1
  <2> QED BY <2>1, <2>2, <2>3, <2>4
<1>4. (p + j) + (n - j) <= Len(b) + 1
  BY <1>1
<1> QED BY <1>0, <1>3, <1>4 DEF HoldsAt

(* A number of fourteen bits is read where it was written. *)
LEMMA HoldsEci ==
  ASSUME NEW b \in Bitstream, NEW p \in Nat \ {0}, NEW x \in Nat, x < 16384, HoldsAt(b, p, FromNum(14, x))
  PROVE  ValueAt(b, p, 14) = x
<1>1. 14 \in 0..24 /\ x < 2^14
  BY FirstPowers
<1> QED BY <1>1, HoldsNumber

(* The number of an application is read as it was written (qrinput.c:773-791). *)
THEOREM ApplicationIsRead ==
  ASSUME NEW b \in Bitstream, NEW p \in Nat \ {0}, NEW s \in Seq(Int), Len(s) = 1, s[1] \in Byte, NEW version,
         HoldsAt(b, p, EncodeModeFNC1Second(s))
  PROVE  IsRead(b, p, version, FALSE, <<Fnc1Mark(s[1])>>, 12) /\ Len(EncodeModeFNC1Second(s)) = 12
<1>0. PICK x \in Nat : x = s[1] /\ x < 256
  BY DEF Byte
<1>1. EncodeModeFNC1Second(s) = FromNum(4, 9) \o FromNum(8, x)
  BY <1>0 DEF EncodeModeFNC1Second
<1>2. FromNum(4, 9) \in Bitstream /\ FromNum(8, x) \in Bitstream /\ Len(FromNum(4, 9)) = 4 /\ Len(FromNum(8, x)) = 8
  <2>1. x \in Int /\ 8 \in Nat /\ 4 \in Nat /\ 9 \in Int
    OBVIOUS
  <2>2. FromNum(8, x) \in Bitstream /\ Len(FromNum(8, x)) = 8
    BY <2>1, FromNumLength
  <2>3. FromNum(4, 9) \in Bitstream /\ Len(FromNum(4, 9)) = 4
    BY <2>1, FromNumLength
  <2> QED BY <2>2, <2>3
<1>3. PICK u \in Bitstream, v \in Bitstream : u = FromNum(4, 9) /\ v = FromNum(8, x) /\ Len(u) = 4 /\ Len(v) = 8
  BY <1>2, Zenon
<1>4. HoldsAt(b, p, u) /\ HoldsAt(b, p + 4, v)
  <2>1. HoldsAt(b, p, u \o v)
    BY <1>1, <1>3, Zenon
  <2>2. HoldsAt(b, p, u) /\ HoldsAt(b, p + Len(u), v)
    BY <2>1, HoldsBoth
  <2> QED BY <1>3, <2>2, Zenon
<1>5. ValueAt(b, p, 4) = 9 /\ ValueAt(b, p + 4, 8) = x
  <2>1. HoldsAt(b, p, FromNum(4, 9)) /\ HoldsAt(b, p + 4, FromNum(8, x))
    BY <1>3, <1>4, Zenon
  <2>2. p + 4 \in Nat \ {0} /\ x < 256 /\ 9 \in Nat /\ 9 < 16
    BY <1>0
  <2>3. ValueAt(b, p, 4) = 9
    BY <2>1, <2>2, HoldsSmall
  <2>4. ValueAt(b, p + 4, 8) = x
    BY <2>1, <2>2, HoldsSmall
  <2> QED BY <2>3, <2>4
<1>6. p + 12 <= Len(b) + 1 /\ Len(b) \in Nat
  <2>1. (p + 4) + Len(v) <= Len(b) + 1
    BY <1>4, Zenon DEF HoldsAt
  <2>2. Len(b) \in Nat
    BY DEF Bitstream
  <2>3. (p + 4) + 8 <= Len(b) + 1
    BY <1>3, <2>1, Zenon
  <2> QED BY <2>2, <2>3
<1>7. Len(EncodeModeFNC1Second(s)) = 12
  <2>1. \A f, g \in Bitstream : Len(f \o g) = Len(f) + Len(g)
    BY DEF Bitstream
  <2>2. Len(u \o v) = 4 + 8
    BY <1>3, <2>1, Zenon
  <2>3. Len(EncodeModeFNC1Second(s)) = 4 + 8
    BY <1>1, <1>3, <2>2, Zenon
  <2> QED BY <2>3
<1>8. ModeAt(b, p, version, FALSE) = "FNC1SECOND" /\ ModeBits(version, FALSE) = 4
  <2>1. ModeAt(b, p, version, FALSE) = <<"NUM", "AN", "SET", "8", "FNC1", "", "ECI", "KANJI", "FNC1SECOND">>[9]
    BY <1>5, Zenon DEF ModeAt
  <2>2. <<"NUM", "AN", "SET", "8", "FNC1", "", "ECI", "KANJI", "FNC1SECOND">>[9] = "FNC1SECOND"
    BY Zenon
  <2> QED BY <2>1, <2>2, Zenon DEF ModeBits
<1>9. PICK mark : mark = <<Fnc1Mark(x)>>
  OBVIOUS
<1>15. PICK size \in Nat \ {0} : size = 12 /\ 4 + 8 = size
  OBVIOUS
<1>10. SegmentAt(b, p, version, FALSE) = [text |-> mark, bits |-> size]
  <2>1. SegmentAt(b, p, version, FALSE) = [text |-> <<Fnc1Mark(ValueAt(b, p + 4, 8))>>, bits |-> 4 + 8]
    BY <1>8, Zenon DEF SegmentAt
  <2> QED BY <1>5, <1>9, <1>15, <2>1, Zenon
<1>11. SegmentAt(b, p, version, FALSE).text = mark /\ SegmentAt(b, p, version, FALSE).bits = size
  <2>1. PICK r : r = [text |-> mark, bits |-> size]
    OBVIOUS
  <2>2. r.text = mark /\ r.bits = size
    BY <2>1
  <2> QED BY <1>10, <2>1, <2>2, Zenon
<1>12. ~EndsAt(b, p, version, FALSE)
  <2>1. ~(p + 4 > Len(b) + 1) /\ ~(ValueAt(b, p, 4) = 0) /\ p + size \in p + 1..Len(b) + 1
    BY <1>5, <1>6, <1>15
  <2>2. EndsAt(b, p, version, FALSE) <=>
          \/ p + 4 > Len(b) + 1
          \/ ValueAt(b, p, 4) = 0
          \/ p + SegmentAt(b, p, version, FALSE).bits \notin p + 1..Len(b) + 1
    BY Zenon DEF EndsAt
  <2> QED BY <1>11, <2>1, <2>2, Zenon
<1>13. p + size <= Len(b) + 1
  BY <1>6, <1>15
<1>14. IsRead(b, p, version, FALSE, mark, size)
  BY <1>11, <1>12, <1>13, Zenon DEF IsRead
<1> QED BY <1>0, <1>7, <1>9, <1>14, <1>15, Zenon

\* The number of a character set that takes two bytes at most.
TwoBytes(s, x) == x = DecodeEci(s) /\ x < 16384

(* The number of a character set is read as it was written, if it is one of one
   or two bytes (qrinput.c:826-859). *)
THEOREM CharacterSetIsRead ==
  ASSUME NEW b \in Bitstream, NEW p \in Nat \ {0}, NEW s, NEW x \in Nat, TwoBytes(s, x), NEW version,
         HoldsAt(b, p, EncodeModeECI(s))
  PROVE  IsRead(b, p, version, FALSE, <<EciMark(x)>>, Len(EncodeModeECI(s)))
<1>1. PICK n \in 0..24, y \in Nat : /\ (n = 8 /\ x < 128 /\ y = x) \/ (n = 16 /\ y = 32768 + x)
                                    /\ EncodeModeECI(s) = FromNum(4, 7) \o FromNum(n, y)
  <2>1. CASE x < 128
    <3>1. EciWords(x) = 1
      BY <2>1 DEF EciWords
    <3>2. EncodeModeECI(s) = FromNum(4, 7) \o FromNum(8, x)
      BY <3>1, SMT DEF EncodeModeECI, TwoBytes
    <3> QED BY <2>1, <3>2
  <2>2. CASE x >= 128
    <3>1. EciWords(x) = 2
      BY <2>2 DEF EciWords, TwoBytes
    <3>2. EncodeModeECI(s) = FromNum(4, 7) \o FromNum(16, 32768 + x)
      BY <3>1, SMT DEF EncodeModeECI, TwoBytes
    <3>3. PICK y \in Nat : y = 32768 + x
      BY SMT
    <3> QED BY <3>2, <3>3, SMT
  <2> QED BY <2>1, <2>2, SMTT(40)
<1>4. FromNum(4, 7) \in Bitstream /\ FromNum(n, y) \in Bitstream /\ Len(FromNum(4, 7)) = 4 /\ Len(FromNum(n, y)) = n
  <2>1. n \in Nat /\ y \in Int /\ 4 \in Nat /\ 7 \in Int
    OBVIOUS
  <2>2. FromNum(n, y) \in Bitstream /\ Len(FromNum(n, y)) = n
    BY <2>1, FromNumLength
  <2>3. FromNum(4, 7) \in Bitstream /\ Len(FromNum(4, 7)) = 4
    BY <2>1, FromNumLength
  <2> QED BY <2>2, <2>3
<1>5. HoldsAt(b, p, FromNum(4, 7)) /\ HoldsAt(b, p + 4, FromNum(n, y))
  <2>1. EncodeModeECI(s) = FromNum(4, 7) \o FromNum(n, y)
    BY <1>1
  <2>2. PICK u \in Bitstream, v \in Bitstream : u = FromNum(4, 7) /\ v = FromNum(n, y) /\ Len(u) = 4
    BY <1>4, Zenon
  <2>3. HoldsAt(b, p, u \o v)
    BY <2>1, <2>2, Zenon
  <2>4. HoldsAt(b, p, u) /\ HoldsAt(b, p + Len(u), v)
    BY <2>3, HoldsBoth
  <2> QED BY <2>2, <2>4, Zenon
<1>6. PICK q \in Nat \ {0} : q = p + 4
  OBVIOUS
<1>7. q + n <= Len(b) + 1 /\ \A i \in 1..n : b[q + i - 1] = (y \div 2^(n - i)) % 2
  <2>1. \A i \in 1..n : FromNum(n, y)[i] = (y \div 2^(n - i)) % 2
    BY DEF FromNum
  <2> QED BY <1>4, <1>5, <1>6, <2>1 DEF HoldsAt
<1>8. ValueAt(b, p, 4) = 7
  BY <1>5, HoldsSmall
<1>9. ModeAt(b, p, version, FALSE) = "ECI" /\ ModeBits(version, FALSE) = 4
  <2>1. ModeAt(b, p, version, FALSE) = <<"NUM", "AN", "SET", "8", "FNC1", "", "ECI", "KANJI", "FNC1SECOND">>[7]
    BY <1>8, Zenon DEF ModeAt
  <2>2. <<"NUM", "AN", "SET", "8", "FNC1", "", "ECI", "KANJI", "FNC1SECOND">>[7] = "ECI"
    BY Zenon
  <2> QED BY <2>1, <2>2, Zenon DEF ModeBits
<1>10. Len(EncodeModeECI(s)) = 4 + n /\ Len(b) \in Nat
  <2>1. EncodeModeECI(s) = FromNum(4, 7) \o FromNum(n, y)
    BY <1>1
  <2>2. PICK u \in Bitstream, v \in Bitstream : u = FromNum(4, 7) /\ v = FromNum(n, y) /\ Len(u) = 4 /\ Len(v) = n
    BY <1>4, Zenon
  <2>5. \A f, g \in Bitstream : Len(f \o g) = Len(f) + Len(g)
    BY DEF Bitstream
  <2>3. Len(u \o v) = 4 + n
    BY <2>2, <2>5, Zenon
  <2>4. Len(b) \in Nat
    BY DEF Bitstream
  <2> QED BY <2>1, <2>2, <2>3, <2>4, Zenon
<1>11. SegmentAt(b, p, version, FALSE) = [text |-> <<EciMark(x)>>, bits |-> 4 + n]
  <2>0. SegmentAt(b, p, version, FALSE) =
          IF b[q] = 0 THEN [text |-> <<EciMark(ValueAt(b, q, 8))>>, bits |-> 4 + 8]
          ELSE IF b[q + 1] = 0 THEN [text |-> <<EciMark(ValueAt(b, q + 2, 14))>>, bits |-> 4 + 16]
          ELSE [text |-> <<EciMark(ValueAt(b, q + 3, 21))>>, bits |-> 4 + 24]
    BY <1>6, <1>9, Zenon DEF SegmentAt
  <2>1. CASE n = 8
    <3>1. x < 128 /\ y = x
      BY <1>1, <2>1, SMT
    <3>2. b[q] = (x \div 128) % 2
      <4>1. 1 \in 1..n /\ q + 1 - 1 = q /\ n - 1 = 7
        BY <2>1
      <4>2. b[q] = (x \div 2^7) % 2
        BY <1>7, <3>1, <4>1
      <4> QED BY <4>2, FirstPowers
    <3>3. b[q] = 0
      BY <3>1, <3>2
    <3>4. ValueAt(b, q, 8) = x
      <4>1. x < 256 /\ HoldsAt(b, q, FromNum(8, x))
        BY <1>5, <1>6, <2>1, <3>1
      <4> QED BY <4>1, HoldsSmall
    <3> QED BY <2>0, <2>1, <3>3, <3>4, Zenon
  <2>2. CASE n = 16
    <3>1. y = 32768 + x
      BY <1>1, <2>2, SMT
    <3>2. b[q] = (y \div 32768) % 2 /\ b[q + 1] = (y \div 16384) % 2
      <4>1. 1 \in 1..n /\ q + 1 - 1 = q /\ n - 1 = 15
        BY <2>2
      <4>2. 2 \in 1..n /\ q + 2 - 1 = q + 1 /\ n - 2 = 14
        BY <2>2
      <4>3. b[q] = (y \div 2^15) % 2 /\ b[q + 1] = (y \div 2^14) % 2
        BY <1>7, <4>1, <4>2
      <4> QED BY <4>3, FirstPowers, SMT
    <3>3. b[q] = 1 /\ b[q + 1] = 0
      BY <3>1, <3>2, SMT DEF TwoBytes
    <3>4. HoldsAt(b, q + 2, FromNum(14, x))
      <4>1. PICK j \in 0..n : j = 2 /\ n - j = 14 /\ n - j - 1 = 13
        BY <2>2
      <4>6. SameBits(x, y)
        BY <3>1, BitsBelow, SMT DEF Marked
      <4>5. \A d \in 0..13 : (y \div 2^d) % 2 = (x \div 2^d) % 2
        BY <4>6, Zenon DEF SameBits
      <4>2. \A d \in 0..n - j - 1 : (y \div 2^d) % 2 = (x \div 2^d) % 2
        BY <4>1, <4>5, Zenon
      <4>3. n \in 0..24 /\ HoldsAt(b, q, FromNum(n, y))
        BY <1>5, <1>6
      <4> QED BY <4>1, <4>2, <4>3, HoldsLower
    <3>5. ValueAt(b, q + 2, 14) = x
      BY <3>4, HoldsEci DEF TwoBytes
    <3>6. ~(1 = 0)
      OBVIOUS
    <3> QED BY <2>0, <2>2, <3>3, <3>5, <3>6, Zenon
  <2>3. n = 8 \/ n = 16
    BY <1>1
  <2> QED BY <2>1, <2>2, <2>3
<1>12. ~EndsAt(b, p, version, FALSE)
  <2>1. n >= 8 /\ p + (4 + n) <= Len(b) + 1
    <3>1. n = 8 \/ n = 16
      BY <1>1
    <3> QED BY <1>6, <1>7, <3>1
  <2>2. PICK r : r = [text |-> <<EciMark(x)>>, bits |-> 4 + n]
    OBVIOUS
  <2>3. r.bits = 4 + n /\ SegmentAt(b, p, version, FALSE) = r
    BY <1>11, <2>2
  <2>4. SegmentAt(b, p, version, FALSE).bits = 4 + n
    BY <2>3, Zenon
  <2>5. ~(p + 4 > Len(b) + 1) /\ ~(ValueAt(b, p, 4) = 0)
    BY <1>8, <1>10, <2>1
  <2>6. p + (4 + n) \in p + 1..Len(b) + 1
    BY <1>10, <2>1
  <2>7. EndsAt(b, p, version, FALSE) <=>
          \/ p + 4 > Len(b) + 1
          \/ ValueAt(b, p, 4) = 0
          \/ p + SegmentAt(b, p, version, FALSE).bits \notin p + 1..Len(b) + 1
    BY Zenon DEF EndsAt
  <2> QED BY <2>4, <2>5, <2>6, <2>7, Zenon
<1>13. p + (4 + n) <= Len(b) + 1 /\ 4 + n \in Nat \ {0}
  BY <1>6, <1>7
<1>14. SegmentAt(b, p, version, FALSE).text = <<EciMark(x)>> /\ SegmentAt(b, p, version, FALSE).bits = 4 + n
  <2>1. PICK mark : mark = <<EciMark(x)>>
    OBVIOUS
  <2>2. PICK r : r = [text |-> mark, bits |-> 4 + n]
    OBVIOUS
  <2>3. r.text = mark /\ r.bits = 4 + n
    BY <2>2
  <2> QED BY <1>11, <2>1, <2>2, <2>3, Zenon
<1>15. PICK size \in Nat \ {0} : size = 4 + n
  BY <1>13
<1>16. IsRead(b, p, version, FALSE, <<EciMark(x)>>, size)
  BY <1>12, <1>13, <1>14, <1>15, Zenon DEF IsRead
<1> QED BY <1>10, <1>15, <1>16, Zenon

-----------------------------------------------------------------------------
(* A long segment is a chain of parts. *)

(* What a reader makes of the stream from every place on, the first place standing
   for the one the text begins at. *)
Decodes(D, b, first, version, mqr) ==
  /\ D[1] = D[first]
  /\ \A p \in 1..Len(b) + 1 : p # 1 \/ first = 1 =>
       D[p] = IF EndsAt(b, p, version, mqr) THEN <<>>
              ELSE SegmentAt(b, p, version, mqr).text \o D[p + SegmentAt(b, p, version, mqr).bits]
\* From p to q it reads t.
Reads(D, p, q, t) == t \in Seq(Int) /\ (D[q] \in Seq(Int) => D[p] = t \o D[q])

(* Reading goes on where it stopped. *)
LEMMA ReadsThen ==
  ASSUME NEW D, NEW p, NEW q, NEW r, NEW t, NEW u, Reads(D, p, q, t), Reads(D, q, r, u)
  PROVE  Reads(D, p, r, t \o u)
<1>1. t \in Seq(Int) /\ u \in Seq(Int)
  BY DEF Reads
<1>2. ASSUME D[r] \in Seq(Int) PROVE D[p] = (t \o u) \o D[r]
  <2>1. PICK v \in Seq(Int) : v = D[r]
    BY <1>2
  <2>2. D[q] = u \o v
    BY <1>2, <2>1 DEF Reads
  <2>3. u \o v \in Seq(Int)
    BY <1>1
  <2>4. D[p] = t \o (u \o v)
    BY <2>2, <2>3 DEF Reads
  <2>5. t \o (u \o v) = (t \o u) \o v
    BY <1>1
  <2> QED BY <2>1, <2>4, <2>5
<1>3. t \o u \in Seq(Int)
  BY <1>1
<1> QED BY <1>2, <1>3 DEF Reads

(* A reader takes a segment's text and goes on behind it. *)
LEMMA OneIsRead ==
  ASSUME NEW b \in Bitstream, NEW first, NEW version, NEW mqr, NEW D, Decodes(D, b, first, version, mqr),
         NEW p \in Nat \ {0}, p # 1 \/ first = 1, NEW text \in Seq(Int), NEW size, IsRead(b, p, version, mqr, text, size)
  PROVE  Reads(D, p, p + size, text)
<1>1. size \in Nat \ {0} /\ p + size <= Len(b) + 1 /\ ~EndsAt(b, p, version, mqr)
  BY DEF IsRead
<1>2. SegmentAt(b, p, version, mqr).text = text /\ SegmentAt(b, p, version, mqr).bits = size
  BY DEF IsRead
<1>3. p \in 1..Len(b) + 1
  <2>1. Len(b) \in Nat
    BY DEF Bitstream
  <2> QED BY <1>1, <2>1
<1>4. D[p] = IF EndsAt(b, p, version, mqr) THEN <<>>
             ELSE SegmentAt(b, p, version, mqr).text \o D[p + SegmentAt(b, p, version, mqr).bits]
  BY <1>3, Zenon DEF Decodes
<1>5. D[p] = text \o D[p + size]
  BY <1>1, <1>2, <1>4, Zenon
<1> QED BY <1>5, Zenon DEF Reads

(* A long segment is written as one part after the other (qrinput.c:1055-1118). *)
SegmentParts(from, e, version, mqr) ==
  LET n == Len(e.data)
      words == MaximumWords(e.mode, version)
  IN  \A i \in 1..n :
        /\ from[i] \in Bitstream
        /\ from[i] = IF words = 0 \/ i + words > n THEN Chunked(e.mode, SubSeq(e.data, i, n), version, mqr)
                     ELSE Chunked(e.mode, SubSeq(e.data, i, i + words - 1), version, mqr) \o from[i + words]

(* Each part is followed by the next. *)
LEMMA SegmentInParts ==
  ASSUME NEW e \in Segments, e.mode \in SplittableMode, NEW version \in Nat, NEW mqr \in BOOLEAN, mqr => version \in 1..4
  PROVE  \E from : EncodeBitStream(e, version, mqr) = from[1] /\ SegmentParts(from, e, version, mqr)
<1> DEFINE mode == e.mode
           t == e.data
           n == Len(t)
           words == MaximumWords(mode, version)
           Is(f) == f = [p \in 1..n |-> IF words = 0 \/ p + words > n THEN Chunked(mode, SubSeq(t, p, n), version, mqr)
                                       ELSE Chunked(mode, SubSeq(t, p, p + words - 1), version, mqr) \o f[p + words]]
           from == CHOOSE f : Is(f)
<1>1. /\ mode \in SplittableMode /\ t \in Seq(Int) /\ n \in Nat \ {0}
      /\ mode = "AN" => \A i \in 1..n : t[i] \in AnChar
  BY DEF Segments
<1>2. words \in Nat
  BY WordsType
<1>3. EncodeBitStream(e, version, mqr) = from[1]
  BY Zenon DEF EncodeBitStream, Chunked
<1>6. Len(t) = n /\ DOMAIN t = 1..n
  BY <1>1
<1>7. mode \in SplittableMode \cup {"ECI", "STRUCTURE", "FNC1SECOND"} /\ mode # "ECI" /\ mode # "STRUCTURE"
  BY <1>1 DEF SplittableMode
<1>8. ASSUME \A p \in 1..n : from[p] \in Bitstream, Is(from) PROVE SegmentParts(from, e, version, mqr)
  <2> HIDE DEF from
  <2>1. \A p \in 1..n : from[p] = IF words = 0 \/ p + words > n THEN Chunked(mode, SubSeq(t, p, n), version, mqr)
                                  ELSE Chunked(mode, SubSeq(t, p, p + words - 1), version, mqr) \o from[p + words]
    BY <1>8, Zenon
  <2> QED BY <1>8, <2>1, Zenon DEF SegmentParts
<1> HIDE DEF mode, t, n, words
<1> DEFINE stop == {p \in 1..n : words = 0 \/ p + words > n}
           piece == [p \in 1..n |-> IF words = 0 \/ p + words > n THEN Chunked(mode, SubSeq(t, p, n), version, mqr)
                                    ELSE Chunked(mode, SubSeq(t, p, p + words - 1), version, mqr)]
           next == [p \in 1..n |-> p + words]
<1>9. \A p \in 1..n : p \notin stop => next[p] \in p + 1..n
  BY <1>1, <1>2
<1>10. \A p \in 1..n : \A q \in p..n : Chunked(mode, SubSeq(t, p, q), version, mqr) \in Bitstream
  <2> TAKE p \in 1..n
  <2> TAKE q \in p..n
  <2>1. PICK s : s = SubSeq(t, p, q)
    OBVIOUS
  <2>2. s \in Seq(Int) /\ Len(s) = q - p + 1 /\ \A i \in 1..q - p + 1 : s[i] = t[p + i - 1] /\ p + i - 1 \in 1..n
    BY <1>1, <1>6, <2>1, SubSeqProperties
  <2>3. s # <<>> /\ (mode = "AN" => \A i \in DOMAIN s : s[i] \in AnChar)
    <3>1. PICK k \in Nat \ {0} : k = q - p + 1
      BY <1>1, <1>2
    <3>2. DOMAIN s = 1..k /\ s # <<>>
      BY <2>2, <3>1
    <3>3. ASSUME mode = "AN", NEW i \in 1..k PROVE s[i] \in AnChar
      <4>1. i \in 1..q - p + 1
        BY <3>1
      <4> QED BY <1>1, <2>2, <3>3, <4>1
    <3> QED BY <3>2, <3>3
  <2> QED BY <1>7, <2>1, <2>2, <2>3, ChunkInBits
<1>11. \A p \in 1..n : piece[p] \in Bitstream
  <2> TAKE p \in 1..n
  <2>1. n \in p..n /\ (~(words = 0 \/ p + words > n) => p + words - 1 \in p..n)
    BY <1>1, <1>2
  <2>2. piece[p] = IF words = 0 \/ p + words > n THEN Chunked(mode, SubSeq(t, p, n), version, mqr)
                   ELSE Chunked(mode, SubSeq(t, p, p + words - 1), version, mqr)
    BY Zenon
  <2> HIDE DEF piece
  <2> QED BY <1>10, <2>1, <2>2, Zenon
<1>12. \A f : Chained(f, 1, n, stop, piece, next) <=> Is(f)
  <2> TAKE f
  <2>1. Chained(f, 1, n, stop, piece, next) <=> f = [p \in 1..n |-> IF p \in stop THEN piece[p] ELSE piece[p] \o f[next[p]]]
    BY Zenon DEF Chained
  <2>2. ASSUME NEW p \in 1..n
        PROVE  (IF p \in stop THEN piece[p] ELSE piece[p] \o f[next[p]])
               = IF words = 0 \/ p + words > n THEN Chunked(mode, SubSeq(t, p, n), version, mqr)
                 ELSE Chunked(mode, SubSeq(t, p, p + words - 1), version, mqr) \o f[p + words]
    BY Zenon
  <2> QED BY <2>1, <2>2, Zenon
<1> HIDE DEF stop, piece, next, Is
<1>13. 1 \in Nat /\ n \in Nat /\ 1 \in 1..n
  BY <1>1, <1>2
<1>14. \A p \in 1..n : piece[p] \in Seq(Binary)
  BY <1>11 DEF Bitstream
<1>15. \E f : Chained(f, 1, n, stop, piece, next)
  BY <1>9, <1>13, <1>14, ChainExists, Zenon
<1>16. Is(from)
  BY <1>12, <1>15, Zenon
<1> HIDE DEF from
<1>17. Chained(from, 1, n, stop, piece, next)
  BY <1>12, <1>16, Zenon
<1>18. \A p \in 1..n : from[p] \in Seq(Binary)
  BY <1>9, <1>13, <1>14, <1>17, ChainType, Zenon
<1>19. SegmentParts(from, e, version, mqr)
  BY <1>8, <1>16, <1>18 DEF Bitstream
<1> QED BY <1>3, <1>19

(* A part of legible data is legible. *)
LEMMA LegiblePart ==
  ASSUME NEW mode \in SplittableMode, NEW t \in Seq(Int), Legible(mode, t), NEW i \in 1..Len(t), NEW j \in i..Len(t),
         mode = "KANJI" => i % 2 = 1 /\ (j - i + 1) % 2 = 0
  PROVE  /\ SubSeq(t, i, j) \in Seq(Int) /\ SubSeq(t, i, j) # <<>> /\ Len(SubSeq(t, i, j)) = j - i + 1
         /\ Legible(mode, SubSeq(t, i, j))
<1>1. PICK s : s = SubSeq(t, i, j)
  OBVIOUS
<1>2. PICK n \in Nat, m \in Nat \ {0} : n = Len(t) /\ DOMAIN t = 1..n /\ m = j - i + 1 /\ i + m - 1 <= n
  OBVIOUS
<1>3. s \in Seq(Int) /\ Len(s) = m /\ \A k \in 1..m : s[k] = t[i + k - 1]
  <2>1. s \in Seq(Int) /\ Len(s) = j - i + 1 /\ \A k \in 1..j - i + 1 : s[k] = t[i + k - 1]
    BY <1>1, <1>2, SubSeqProperties
  <2> QED BY <1>2, <2>1
<1>4. DOMAIN s = 1..m /\ s # <<>>
  BY <1>3
<1>5. \A k \in 1..m : i + k - 1 \in 1..n
  BY <1>2
<1>6. CASE mode = "NUM"
  <2>1. \A k \in 1..n : t[k] \in Digit
    BY <1>2, <1>6 DEF Legible
  <2>2. \A k \in 1..m : s[k] \in Digit
    BY <1>3, <1>5, <2>1
  <2>3. Legible(mode, s)
    BY <1>4, <1>6, <2>2 DEF Legible
  <2> QED BY <1>1, <1>2, <1>3, <1>4, <2>3
<1>7. CASE mode = "AN"
  <2>1. \A k \in 1..n : t[k] \in AnChar
    BY <1>2, <1>7 DEF Legible
  <2>2. \A k \in 1..m : s[k] \in AnChar
    BY <1>3, <1>5, <2>1
  <2>3. Legible(mode, s)
    BY <1>4, <1>7, <2>2 DEF Legible
  <2> QED BY <1>1, <1>2, <1>3, <1>4, <2>3
<1>8. CASE mode = "8"
  <2>1. \A k \in 1..n : t[k] \in Byte
    BY <1>2, <1>8 DEF Legible
  <2>2. \A k \in 1..m : s[k] \in Byte
    BY <1>3, <1>5, <2>1
  <2>3. Legible(mode, s)
    BY <1>4, <1>8, <2>2 DEF Legible
  <2> QED BY <1>1, <1>2, <1>3, <1>4, <2>3
<1>9. CASE mode = "KANJI"
  <2> DEFINE Good(c, d) == Character(c, d) /\ KanjiWord(c, d)
  <2>1. n % 2 = 0 /\ \A k \in 1..n \div 2 : Good(t[2 * k - 1], t[2 * k])
    BY <1>2, <1>9 DEF Legible
  <2> HIDE DEF Good
  <2>2. PICK a \in Nat : i = 2 * a + 1
    BY <1>9
  <2>3. PICK h \in Nat : m = 2 * h /\ m \div 2 = h
    <3>1. m % 2 = 0
      BY <1>2, <1>9
    <3>2. PICK h \in Nat : h = m \div 2
      OBVIOUS
    <3> QED BY <3>1, <3>2
  <2>4. ASSUME NEW k \in 1..h PROVE Good(s[2 * k - 1], s[2 * k])
    <3>1. 2 * k - 1 \in 1..m /\ 2 * k \in 1..m
      BY <2>3
    <3>2. PICK c \in 1..n \div 2 : c = a + k
      BY <1>2, <2>1, <2>2, <2>3
    <3>3. i + (2 * k - 1) - 1 = 2 * c - 1 /\ i + 2 * k - 1 = 2 * c
      BY <2>2, <3>2
    <3>4. s[2 * k - 1] = t[2 * c - 1] /\ s[2 * k] = t[2 * c]
      BY <1>3, <3>1, <3>3
    <3> QED BY <2>1, <3>4
  <2>5. Len(s) % 2 = 0 /\ \A k \in 1..Len(s) \div 2 : Good(s[2 * k - 1], s[2 * k])
    BY <1>3, <2>3, <2>4
  <2>6. Legible(mode, s)
    BY <1>9, <2>5 DEF Legible, Good
  <2> QED BY <1>1, <1>2, <1>3, <1>4, <2>6
<1> QED BY <1>6, <1>7, <1>8, <1>9 DEF SplittableMode

(* The longest part has as many characters as its length can tell (qrspec.c:161-183, mqrspec.c:107-120). *)
LEMMA WordsAre ==
  ASSUME NEW mode \in SplittableMode, NEW version \in Nat
  PROVE  \E w \in Nat \ {0} : /\ 2^LengthIndicator(mode, version) = w + 1
                              /\ MaximumWords(mode, version) = IF mode = "KANJI" THEN 2 * w ELSE w
<1>1. PICK l \in {8, 9, 10, 11, 12, 13, 14, 16} : l = LengthIndicator(mode, version)
  BY DEF LengthIndicator, SplittableMode
<1>2. PICK w \in Nat \ {0} : 2^l = w + 1
  <2>1. 2^l - 1 \in Nat \ {0} /\ 2^l \in Nat
    <3>1. PICK k \in 0..23 : k + 1 = l
      BY <1>1
    <3>2. 2^k \in Nat \ {0} /\ 2^(k + 1) = 2 * 2^k
      BY PowersOfTwo
    <3>3. PICK c \in Nat \ {0} : c = 2^k
      BY <3>2
    <3>4. 2^l = 2 * c
      BY <3>1, <3>2, <3>3
    <3> QED BY <3>4
  <2>2. PICK w \in Nat \ {0}, x \in Nat : w = 2^l - 1 /\ x = 2^l
    BY <2>1
  <2> QED BY <2>2
<1>3. MaximumWords(mode, version) = w * (IF mode = "KANJI" THEN 2 ELSE 1)
  <2>1. MaximumWords(mode, version) = (2^l - 1) * (IF mode = "KANJI" THEN 2 ELSE 1)
    BY <1>1, Zenon DEF MaximumWords
  <2>2. 2^l - 1 = w
    BY <1>2
  <2> QED BY <2>1, <2>2, Zenon
<1>4. MaximumWords(mode, version) = IF mode = "KANJI" THEN 2 * w ELSE w
  BY <1>3
<1> QED BY <1>1, <1>2, <1>4

\* An entry whose segment a reader understands, and what it is told.
Readable(e, version, mqr) ==
  /\ ~mqr => version \in 1..40
  /\ \/ e.mode \in SplittableMode /\ Legible(e.mode, e.data) /\ Sayable(e.mode, version, mqr)
     \/ ~mqr /\ e.mode = "ECI" /\ \E x \in Nat : TwoBytes(e.data, x)
     \/ ~mqr /\ e.mode = "FNC1SECOND" /\ Len(e.data) = 1 /\ e.data[1] \in Byte
Told(e) ==
  CASE e.mode = "ECI" -> <<EciMark(DecodeEci(e.data))>>
    [] e.mode = "FNC1SECOND" -> <<Fnc1Mark(e.data[1])>>
    [] e.mode = "STRUCTURE" -> <<>>
    [] OTHER -> e.data
\* No stream of a Micro symbol has more characters in a segment than it can say.
Roomy(b, version, mqr) ==
  mqr => \A mode \in MicroModes(version) : \A n \in Nat \ {0} :
           SegmentBits(mode, n, version, TRUE) <= Len(b) => n < 2^LengthBits(mode, version, TRUE)

(* Legible data becomes bits. *)
LEMMA LegiblePayload ==
  ASSUME NEW mode \in SplittableMode, NEW s \in Seq(Int), s # <<>>, Legible(mode, s)
  PROVE  Payload(mode, s) \in Bitstream
<1>1. /\ EncodeModeNum(s) \in Bitstream /\ EncodeMode8(s) \in Bitstream /\ EncodeModeKanji(s) \in Bitstream
      /\ (\A i \in DOMAIN s : s[i] \in AnChar) => EncodeModeAn(s) \in Bitstream
  BY PayloadInBits
<1>2. CASE mode = "NUM"
  BY <1>1, <1>2 DEF Payload
<1>3. CASE mode = "AN"
  <2>1. \A i \in DOMAIN s : s[i] \in AnChar
    BY <1>3 DEF Legible
  <2> QED BY <1>1, <1>3, <2>1 DEF Payload
<1>4. CASE mode = "8"
  BY <1>1, <1>4 DEF Payload
<1>5. CASE mode = "KANJI"
  BY <1>1, <1>5 DEF Payload
<1> QED BY <1>2, <1>3, <1>4, <1>5 DEF SplittableMode

(* A part of a segment is as long as the standard says. *)
LEMMA ChunkSize ==
  ASSUME NEW mode \in SplittableMode, NEW s \in Seq(Int), s # <<>>, Legible(mode, s),
         NEW version, Sayable(mode, version, TRUE)
  PROVE  Len(Chunked(mode, s, version, TRUE)) = SegmentBits(mode, Characters(mode, s), version, TRUE)
<1>1. PICK n : n = Characters(mode, s)
  OBVIOUS
<1>2. PICK v \in Bitstream : v = Payload(mode, s)
  BY LegiblePayload
<1>3. Len(v) = CharBits(mode, n) /\ n \in Nat \ {0}
  <2>1. HoldsAt(v, 1, v)
    BY DEF HoldsAt, Bitstream
  <2>2. 1 \in Nat \ {0} /\ HoldsAt(v, 1, Payload(mode, s))
    BY <1>2, <2>1
  <2> QED BY <1>1, <1>2, <2>2, PayloadIsRead
<1>4. version \in 1..4 /\ mode \in MicroModes(version)
  BY DEF Sayable
<1>5. PICK l \in 3..16 : l = LengthBits(mode, version, TRUE) /\ l = MicroLengthIndicator(mode, version)
  BY LengthsAgree
<1>6. PICK id \in Int : id = ModeId(mode, TRUE)
  <2>1. ModeId(mode, TRUE) \in 0..3
    BY ModeIds
  <2>2. \A x \in 0..3 : x \in Int
    OBVIOUS
  <2> QED BY <2>1, <2>2, Zenon
<1>7. PICK u \in Bitstream : u = Header(mode, n, version, TRUE) /\ Len(u) = (version - 1) + l
  <2>1. /\ FromNum(version - 1, id) \in Bitstream /\ Len(FromNum(version - 1, id)) = version - 1
        /\ FromNum(l, n) \in Bitstream /\ Len(FromNum(l, n)) = l
    <3>1. version - 1 \in Nat /\ l \in Nat /\ n \in Int
      BY <1>3, <1>4
    <3> QED BY <3>1, FromNumLength
  <2>2. Header(mode, n, version, TRUE) = FromNum(version - 1, id) \o FromNum(l, n)
    BY <1>5, <1>6 DEF Header
  <2>3. \A f, g \in Bitstream : f \o g \in Bitstream /\ Len(f \o g) = Len(f) + Len(g)
    BY DEF Bitstream
  <2>4. PICK f \in Bitstream, g \in Bitstream : f = FromNum(version - 1, id) /\ g = FromNum(l, n)
    BY <2>1
  <2>5. Len(f) = version - 1 /\ Len(g) = l /\ Header(mode, n, version, TRUE) = f \o g
    BY <2>1, <2>2, <2>4
  <2>6. f \o g \in Bitstream /\ Len(f \o g) = Len(f) + Len(g)
    BY <2>3, Zenon
  <2>7. Len(f \o g) = (version - 1) + l
    BY <2>5, <2>6, Zenon
  <2> QED BY <2>5, <2>6, <2>7, Zenon
<1>8. Chunked(mode, s, version, TRUE) = u \o v
  BY <1>1, <1>2, <1>7, ChunkIs, Zenon
<1>9. Len(u \o v) = Len(u) + Len(v)
  BY DEF Bitstream
<1>10. SegmentBits(mode, n, version, TRUE) = (version - 1) + LengthBits(mode, version, TRUE) + CharBits(mode, n)
  BY Zenon DEF SegmentBits
<1> QED BY <1>1, <1>3, <1>5, <1>7, <1>8, <1>9, <1>10, Zenon

(* A part no longer than its length can tell is read as it was written. *)
LEMMA PartIsRead ==
  ASSUME NEW b \in Bitstream, NEW version \in Nat, NEW mqr \in BOOLEAN, Roomy(b, version, mqr),
         NEW mode \in SplittableMode, Sayable(mode, version, mqr),
         NEW s \in Seq(Int), s # <<>>, Legible(mode, s), MaximumWords(mode, version) >= Len(s),
         NEW p \in Nat \ {0}, HoldsAt(b, p, Chunked(mode, s, version, mqr))
  PROVE  IsRead(b, p, version, mqr, s, Len(Chunked(mode, s, version, mqr)))
<1> DEFINE n == Characters(mode, s)
<1>1. n \in Nat \ {0} /\ (mode = "KANJI" => Len(s) = 2 * n) /\ (mode # "KANJI" => Len(s) = n)
  <2>1. Len(s) \in Nat \ {0}
    OBVIOUS
  <2>2. mode = "KANJI" => Len(s) % 2 = 0
    BY DEF Legible
  <2> QED BY <2>1, <2>2 DEF Characters
<1> HIDE DEF n
<1>2. mqr => version \in 1..4 /\ mode \in MicroModes(version)
  BY DEF Sayable
<1>3. Header(mode, n, version, mqr) \in Bitstream
  BY <1>1, <1>2, HeaderInBits
<1>4. Payload(mode, s) \in Bitstream
  BY LegiblePayload
<1>5. Chunked(mode, s, version, mqr) \in Bitstream
  <2>1. Chunked(mode, s, version, mqr) = Header(mode, n, version, mqr) \o Payload(mode, s)
    BY ChunkIs DEF n
  <2> QED BY <1>3, <1>4, <2>1, Joining
<1>6. Len(Chunked(mode, s, version, mqr)) <= Len(b) => n < 2^LengthBits(mode, version, mqr)
  <2>1. CASE mqr
    <3>1. SegmentBits(mode, n, version, TRUE) <= Len(b) => n < 2^LengthBits(mode, version, TRUE)
      BY <1>1, <1>2, <2>1 DEF Roomy
    <3>2. Len(Chunked(mode, s, version, mqr)) = SegmentBits(mode, n, version, TRUE)
      BY <2>1, ChunkSize, Zenon DEF n
    <3> QED BY <2>1, <3>1, <3>2, Zenon
  <2>2. CASE ~mqr
    <3>1. LengthBits(mode, version, mqr) = LengthIndicator(mode, version)
      BY <2>2, LengthsAgree
    <3>2. PICK w \in Nat \ {0} : /\ 2^LengthIndicator(mode, version) = w + 1
                                 /\ MaximumWords(mode, version) = IF mode = "KANJI" THEN 2 * w ELSE w
      BY WordsAre
    <3>3. n <= w
      BY <1>1, <3>2
    <3>4. PICK c \in Nat : c = 2^LengthIndicator(mode, version)
      BY <3>2
    <3>5. n < c
      BY <1>1, <3>2, <3>3, <3>4
    <3> QED BY <3>1, <3>4, <3>5, Zenon
  <2> QED BY <2>1, <2>2
<1> QED BY <1>3, <1>4, <1>5, <1>6, ChunkIsRead DEF n

(* The places of a part. *)
LEMMA PartOf ==
  ASSUME NEW t \in Seq(Int), NEW i \in 1..Len(t), NEW j \in i..Len(t), NEW s, s = SubSeq(t, i, j)
  PROVE  s \in Seq(Int) /\ Len(s) = j - i + 1 /\ \A l \in 1..j - i + 1 : s[l] = t[i + l - 1]
<1>1. i \in Int /\ j \in Int /\ i <= j
  OBVIOUS
<1>2. \A k \in i..j : t[k] \in Int
  OBVIOUS
<1>3. SubSeq(t, i, j) \in Seq(Int)
  BY <1>1, <1>2, SubSeqProperties
<1>4. Len(SubSeq(t, i, j)) = IF i <= j THEN j - i + 1 ELSE 0
  BY <1>1, <1>2, SubSeqProperties
<1>5. \A l \in 1..j - i + 1 : SubSeq(t, i, j)[l] = t[i + l - 1]
  BY <1>1, <1>2, SubSeqProperties
<1> QED BY <1>1, <1>3, <1>4, <1>5

(* Neighbouring parts are a part. *)
LEMMA PartsJoin ==
  ASSUME NEW t \in Seq(Int), NEW i \in 1..Len(t), NEW j \in i..Len(t), j < Len(t)
  PROVE  SubSeq(t, i, j) \o SubSeq(t, j + 1, Len(t)) = SubSeq(t, i, Len(t))
<1>1. PICK n \in Nat, m \in Nat, k \in Nat \ {0} : n = Len(t) /\ m = j - i + 1 /\ k = n - j /\ m + k = n - i + 1
  OBVIOUS
<1>2. PICK s : s = SubSeq(t, i, j)
  OBVIOUS
<1>3. PICK r : r = SubSeq(t, j + 1, n)
  OBVIOUS
<1>4. PICK a : a = SubSeq(t, i, n)
  OBVIOUS
<1>5. s \in Seq(Int) /\ Len(s) = m /\ \A l \in 1..m : s[l] = t[i + l - 1]
  <2>1. s \in Seq(Int) /\ Len(s) = j - i + 1 /\ \A l \in 1..j - i + 1 : s[l] = t[i + l - 1]
    BY <1>2, PartOf, ZenonT(60)
  <2> QED BY <1>1, <2>1
<1>6. r \in Seq(Int) /\ Len(r) = k /\ \A l \in 1..k : r[l] = t[(j + 1) + l - 1]
  <2>1. PICK p \in 1..Len(t) : p = j + 1
    BY <1>1
  <2>2. PICK q \in p..Len(t) : q = n /\ q - p + 1 = k
    BY <1>1, <2>1
  <2>3. r = SubSeq(t, p, q)
    BY <1>3, <2>1, <2>2
  <2>4. r \in Seq(Int) /\ Len(r) = q - p + 1 /\ \A l \in 1..q - p + 1 : r[l] = t[p + l - 1]
    <3>1. p \in 1..Len(t) /\ q \in p..Len(t) /\ r = SubSeq(t, p, q)
      BY <2>3, Zenon
    <3> QED BY <3>1, PartOf, SMTT(40)
  <2> QED BY <2>1, <2>2, <2>4
<1>7. a \in Seq(Int) /\ Len(a) = m + k /\ \A l \in 1..m + k : a[l] = t[i + l - 1]
  <2>1. PICK q \in i..Len(t) : q = n /\ q - i + 1 = m + k
    BY <1>1
  <2>2. a = SubSeq(t, i, q)
    BY <1>4, <2>1
  <2>3. a \in Seq(Int) /\ Len(a) = q - i + 1 /\ \A l \in 1..q - i + 1 : a[l] = t[i + l - 1]
    BY <2>2, PartOf, ZenonT(60)
  <2> QED BY <2>1, <2>3
<1>8. /\ s \o r \in Seq(Int) /\ Len(s \o r) = m + k
      /\ \A l \in 1..m + k : (s \o r)[l] = IF l <= m THEN s[l] ELSE r[l - m]
  <2>1. s \in Seq(Int) /\ r \in Seq(Int) /\ Len(s) = m /\ Len(r) = k
    BY <1>5, <1>6
  <2>2. /\ s \o r \in Seq(Int) /\ Len(s \o r) = Len(s) + Len(r)
        /\ \A l \in 1..Len(s) + Len(r) : (s \o r)[l] = IF l <= Len(s) THEN s[l] ELSE r[l - Len(s)]
    BY <2>1, ConcatProperties
  <2> QED BY <2>1, <2>2, Zenon
<1>9. ASSUME NEW l \in 1..m + k PROVE (s \o r)[l] = a[l]
  <2>1. CASE l <= m
    <3>1. l \in 1..m /\ (s \o r)[l] = s[l]
      BY <1>8, <2>1
    <3>2. s[l] = t[i + l - 1] /\ a[l] = t[i + l - 1]
      BY <1>5, <1>7, <3>1
    <3> QED BY <3>1, <3>2
  <2>2. CASE l > m
    <3>1. PICK h \in 1..k : l = m + h
      <4>1. l - m \in 1..k /\ l = m + (l - m)
        BY <2>2
      <4> QED BY <4>1
    <3>2. (s \o r)[l] = r[h]
      <4>1. ~(l <= m) /\ l - m = h
        BY <3>1
      <4> QED BY <1>8, <4>1
    <3>3. r[h] = t[(j + 1) + h - 1]
      BY <1>6
    <3>4. (j + 1) + h - 1 = i + l - 1
      BY <1>1, <3>1
    <3>5. r[h] = t[i + l - 1]
      BY <3>3, <3>4
    <3> QED BY <1>7, <3>2, <3>5
  <2>3. l <= m \/ l > m
    OBVIOUS
  <2> QED BY <2>1, <2>2, <2>3, Zenon
<1>10. s \o r = a
  <2>1. PICK x : x = s \o r
    OBVIOUS
  <2>5. PICK y \in Nat : y = m + k
    OBVIOUS
  <2>2. x \in Seq(Int) /\ a \in Seq(Int) /\ Len(x) = y /\ Len(a) = y
    BY <1>7, <1>8, <2>1, <2>5
  <2>3. \A l \in 1..y : x[l] = a[l]
    BY <1>9, <2>1, <2>5
  <2>4. x = a
    BY <2>2, <2>3
  <2> QED BY <2>1, <2>4
<1> QED BY <1>1, <1>2, <1>3, <1>4, <1>10, Zenon

\* No segment begins at the first place if the text begins later.
Begins(p, first) == p # 1 \/ first = 1

(* Every part of a long segment is read behind the one before (qrinput.c:1055-1118). *)
LEMMA PartsAreRead ==
  ASSUME NEW b \in Bitstream, NEW first, NEW version \in Nat, NEW mqr \in BOOLEAN, NEW D,
         Decodes(D, b, first, version, mqr), Roomy(b, version, mqr),
         NEW e \in Segments, e.mode \in SplittableMode, Legible(e.mode, e.data), Sayable(e.mode, version, mqr),
         NEW from, SegmentParts(from, e, version, mqr),
         NEW p \in Nat \ {0}, Begins(p, first), HoldsAt(b, p, from[1])
  PROVE  Reads(D, p, p + Len(from[1]), e.data) /\ Len(from[1]) \in Nat \ {0}
<1>1. PICK mode, t, n, words : mode = e.mode /\ t = e.data /\ n = Len(t) /\ words = MaximumWords(mode, version)
  OBVIOUS
<1>2. mode \in SplittableMode /\ t \in Seq(Int) /\ n \in Nat \ {0} /\ Legible(mode, t) /\ Sayable(mode, version, mqr)
  BY <1>1 DEF Segments
<1>0. n \in Nat /\ n > 0
  BY <1>2
<1>3. words \in Nat \ {0} /\ (mode = "KANJI" => words % 2 = 0 /\ n % 2 = 0)
  <2>1. PICK w \in Nat \ {0} : MaximumWords(mode, version) = IF mode = "KANJI" THEN 2 * w ELSE w
    BY <1>2, WordsAre
  <2>2. mode = "KANJI" => n % 2 = 0
    BY <1>1, <1>2 DEF Legible
  <2>3. words = IF mode = "KANJI" THEN 2 * w ELSE w
    BY <1>1, <2>1, Zenon
  <2>4. words \in Nat \ {0} /\ (mode = "KANJI" => words % 2 = 0)
    BY <2>3
  <2> QED BY <2>2, <2>4
<1>4. \A i \in 1..n : from[i] = IF words = 0 \/ i + words > n THEN Chunked(mode, SubSeq(t, i, n), version, mqr)
                                 ELSE Chunked(mode, SubSeq(t, i, i + words - 1), version, mqr) \o from[i + words]
  BY <1>1, Zenon DEF SegmentParts
<1>5. \A i \in 1..n : from[i] \in Bitstream
  BY <1>1, Zenon DEF SegmentParts
<1>6. mqr => version \in 1..4
  BY <1>2 DEF Sayable
<1> DEFINE Aligned(i) == mode = "KANJI" => i % 2 = 1
           Read(i) == \A q \in Nat \ {0} : (q # 1 \/ first = 1) /\ HoldsAt(b, q, from[i]) =>
                        Reads(D, q, q + Len(from[i]), SubSeq(t, i, n)) /\ Len(from[i]) \in Nat \ {0}
           T == {k \in Nat : \A i \in 1..n : i + k > n /\ Aligned(i) => Read(i)}
<1>7. ASSUME NEW i \in 1..n, NEW j \in i..n, j - i + 1 <= words, mode = "KANJI" => i % 2 = 1 /\ (j - i + 1) % 2 = 0,
             NEW u, u = Chunked(mode, SubSeq(t, i, j), version, mqr)
      PROVE  /\ u \in Bitstream
             /\ \A q \in Nat \ {0} : (q # 1 \/ first = 1) /\ HoldsAt(b, q, u) =>
                  Reads(D, q, q + Len(u), SubSeq(t, i, j)) /\ Len(u) \in Nat \ {0}
  <2>1. PICK s : s = SubSeq(t, i, j)
    OBVIOUS
  <2>2. s \in Seq(Int) /\ s # <<>> /\ Len(s) = j - i + 1 /\ Legible(mode, s)
    <3>1. mode \in SplittableMode /\ t \in Seq(Int) /\ Legible(mode, t) /\ i \in 1..Len(t) /\ j \in i..Len(t)
      BY <1>1, <1>2
    <3> QED BY <1>7, <2>1, <3>1, LegiblePart, Zenon
  <2>3. MaximumWords(mode, version) >= Len(s)
    BY <1>1, <1>7, <2>2
  <2>4. u = Chunked(mode, s, version, mqr)
    BY <1>7, <2>1, Zenon
  <2>5. u \in Bitstream
    <3>1. mode = "AN" => \A k \in DOMAIN s : s[k] \in AnChar
      BY <2>2 DEF Legible
    <3>2. mode \in SplittableMode \cup {"ECI", "STRUCTURE", "FNC1SECOND"} /\ mode # "ECI" /\ mode # "STRUCTURE"
      BY <1>2 DEF SplittableMode
    <3> QED BY <1>6, <2>2, <2>4, <3>1, <3>2, ChunkInBits
  <2>6. ASSUME NEW q \in Nat \ {0}, q # 1 \/ first = 1, HoldsAt(b, q, u)
        PROVE  Reads(D, q, q + Len(u), s) /\ Len(u) \in Nat \ {0}
    <3>1. HoldsAt(b, q, Chunked(mode, s, version, mqr))
      BY <2>4, <2>6, Zenon
    <3>2. IsRead(b, q, version, mqr, s, Len(Chunked(mode, s, version, mqr)))
      BY <1>2, <2>2, <2>3, <3>1, PartIsRead
    <3>3. IsRead(b, q, version, mqr, s, Len(u))
      BY <2>4, <3>2, Zenon
    <3>4. Reads(D, q, q + Len(u), s)
      BY <2>2, <2>6, <3>3, OneIsRead
    <3> QED BY <3>3, <3>4, Zenon DEF IsRead
  <2> QED BY <2>1, <2>5, <2>6, Zenon
<1>8. 0 \in T
  <2>1. ASSUME NEW i \in 1..n, i + 0 > n PROVE FALSE
    BY <1>0, <2>1
  <2> HIDE DEF Aligned, Read
  <2> QED BY <2>1
<1>9. ASSUME NEW k \in Nat, k \in T PROVE k + 1 \in T
  <2> SUFFICES ASSUME NEW i \in 1..n, i + (k + 1) > n, Aligned(i) PROVE Read(i)
    OBVIOUS
  <2>1. CASE i + words > n
    <3>1. from[i] = Chunked(mode, SubSeq(t, i, n), version, mqr)
      BY <1>4, <2>1
    <3>2. n \in i..n /\ n - i + 1 <= words /\ (mode = "KANJI" => i % 2 = 1 /\ (n - i + 1) % 2 = 0)
      BY <1>2, <1>3, <2>1
    <3> HIDE DEF T, Aligned
    <3>3. \A q \in Nat \ {0} : (q # 1 \/ first = 1) /\ HoldsAt(b, q, from[i]) =>
            Reads(D, q, q + Len(from[i]), SubSeq(t, i, n)) /\ Len(from[i]) \in Nat \ {0}
      BY <1>7, <3>1, <3>2, Zenon
    <3> QED BY <3>3, Zenon
  <2>2. CASE i + words <= n
    <3>1. PICK j \in i..n, h \in 1..n : j = i + words - 1 /\ h = i + words /\ h = j + 1 /\ j < n /\ j - i + 1 = words
      BY <1>2, <1>3, <2>2
    <3>2. PICK u : u = Chunked(mode, SubSeq(t, i, j), version, mqr)
      OBVIOUS
    <3>3. from[i] = u \o from[h]
      <4>1. ~(words = 0 \/ i + words > n) /\ i + words = h /\ i + words - 1 = j
        BY <1>0, <1>3, <2>2, <3>1
      <4> QED BY <1>4, <3>2, <4>1, Zenon
    <3>4. mode = "KANJI" => i % 2 = 1 /\ (j - i + 1) % 2 = 0
      BY <1>3, <3>1
    <3>5. Read(h)
      <4>1. h + k > n /\ Aligned(h)
        <5>1. h + k > n
          BY <1>0, <1>3, <3>1
        <5>2. mode = "KANJI" => h % 2 = 1
          BY <1>3, <3>1
        <5> QED BY <5>1, <5>2
      <4> HIDE DEF Aligned, Read
      <4> QED BY <1>9, <4>1
    <3>6. PICK v : v = from[h] /\ v \in Bitstream
      BY <1>5
    <3>7. j - i + 1 <= words
      BY <1>3, <3>1
    <3> HIDE DEF T, Aligned
    <3>8. /\ u \in Bitstream
          /\ \A q \in Nat \ {0} : (q # 1 \/ first = 1) /\ HoldsAt(b, q, u) =>
               Reads(D, q, q + Len(u), SubSeq(t, i, j)) /\ Len(u) \in Nat \ {0}
      BY <1>7, <3>2, <3>4, <3>7
    <3>9. SubSeq(t, i, j) \o SubSeq(t, h, n) = SubSeq(t, i, n)
      <4>1. t \in Seq(Int) /\ i \in 1..Len(t) /\ j \in i..Len(t) /\ j < Len(t)
        BY <1>1, <1>2, <3>1
      <4>2. SubSeq(t, i, j) \o SubSeq(t, j + 1, Len(t)) = SubSeq(t, i, Len(t))
        BY <4>1, PartsJoin
      <4> QED BY <1>1, <3>1, <4>2
    <3>10. ASSUME NEW q \in Nat \ {0}, q # 1 \/ first = 1, HoldsAt(b, q, from[i])
           PROVE  Reads(D, q, q + Len(from[i]), SubSeq(t, i, n)) /\ Len(from[i]) \in Nat \ {0}
      <4>1. HoldsAt(b, q, u) /\ HoldsAt(b, q + Len(u), v)
        BY <3>3, <3>6, <3>8, <3>10, HoldsBoth
      <4>2. Reads(D, q, q + Len(u), SubSeq(t, i, j)) /\ Len(u) \in Nat \ {0}
        BY <3>8, <3>10, <4>1
      <4>3. PICK r \in Nat \ {0} : r = q + Len(u) /\ r # 1
        BY <4>2
      <4>4. Reads(D, r, r + Len(v), SubSeq(t, h, n)) /\ Len(v) \in Nat \ {0}
        BY <3>5, <3>6, <4>1, <4>3, Zenon
      <4>5. Reads(D, q, r + Len(v), SubSeq(t, i, j) \o SubSeq(t, h, n))
        BY <4>2, <4>3, <4>4, ReadsThen, Zenon
      <4>6. Len(from[i]) = Len(u) + Len(v)
        <5>1. \A x, y \in Bitstream : Len(x \o y) = Len(x) + Len(y)
          BY DEF Bitstream
        <5> QED BY <3>3, <3>6, <3>8, <5>1, Zenon
      <4>7. r + Len(v) = q + Len(from[i]) /\ Len(from[i]) \in Nat \ {0}
        BY <4>2, <4>3, <4>4, <4>6
      <4> QED BY <3>9, <4>5, <4>7, Zenon
    <3> QED BY <3>10, Zenon
  <2>3. i + words > n \/ i + words <= n
    BY <1>0, <1>3
  <2> HIDE DEF Read
  <2> QED BY <2>1, <2>2, <2>3
<1> HIDE DEF T
<1>10. Nat \subseteq T
  BY <1>8, <1>9, Induction
<1>11. Read(1)
  <2>1. n \in T /\ 1 \in 1..n /\ 1 + n > n
    BY <1>2, <1>10
  <2> QED BY <2>1 DEF T
<1>12. SubSeq(t, 1, n) = t
  BY <1>1, <1>2
<1>13. Reads(D, p, p + Len(from[1]), SubSeq(t, 1, n)) /\ Len(from[1]) \in Nat \ {0}
  BY <1>11, Zenon DEF Begins
<1> QED BY <1>1, <1>12, <1>13, Zenon
=============================================================================
