---------------------------- MODULE QRCodeProofs ----------------------------
(***************************************************************************)
(* Proofs about bar codes, from the text to the picture.                   *)
(*   Splitting: why the functions that cut a text into segments may call   *)
(* one another: what one of them refuses to take alone the next one takes. *)
(* The costs the code compares are written without the headers that both   *)
(* sides of a comparison have, so that this is a matter of arithmetic.     *)
(*   Padding: why a padded stream just fills a symbol.                     *)
(*   Check bytes: why those of a block are what a reader expects.  The     *)
(* code's ^, defined digit by digit, is a group whose elements are their   *)
(* own inverses; doubling is linear in it, and so is the product, which is *)
(* doublings and additions.  That it commutes and associates follows from  *)
(* there: both sides are made by the same rounds.  A polynomial that is    *)
(* extended by a factor vanishes where it did and at the new root; a byte  *)
(* that goes through the loop of encode_rs_char changes the value of data  *)
(* and check bytes by a multiple of the generator's, which is nothing at   *)
(* its roots.                                                              *)
(*   Scanning: why who scans a bar code gets in.                           *)
(*   Pictures: why each kind of file shows the symbol, and why a program   *)
(* never writes one of anything but a square.                              *)
(***************************************************************************)
EXTENDS QRTool, SequenceTheorems, FunctionTheorems, FiniteSetTheorems, WellFoundedInduction, TLAPS

(* What holds of 0, and of n + 1 if of n, holds of every number. *)
LEMMA Induction ==
  ASSUME NEW T, 0 \in T, \A n \in Nat : n \in T => n + 1 \in T
  PROVE  Nat \subseteq T
<1> DEFINE U == {n \in Nat : n \notin T}
           R == {ss \in Nat \X Nat : ss[1] < ss[2]}
<1>1. SUFFICES ASSUME U # {} PROVE FALSE
  OBVIOUS
<1>2. IsWellFoundedOn(R, Nat)
  BY NatLessThanWellFounded DEF OpToRel
<1>3. U \subseteq Nat
  OBVIOUS
<1> HIDE DEF U, R
<1>4. PICK x \in U : \A y \in U : <<y, x>> \notin R
  BY <1>1, <1>2, <1>3, WFMin
<1>5. x \in Nat /\ x \notin T /\ (x - 1 \in Nat /\ x - 1 \in T => x \in T)
  BY <1>3, <1>4 DEF U
<1>6. x # 0
  BY <1>5
<1>7. x - 1 \in U
  BY <1>5, <1>6 DEF U
<1>8. <<x - 1, x>> \in R
  BY <1>5, <1>6 DEF R
<1> QED BY <1>4, <1>7, <1>8

\* The four bits of a number below 16.
Four == 0..15
Odd(x) == x % 2
XorBits(a, b) ==
  Odd(a + b) + 2 * Odd((a \div 2) + (b \div 2)) + 4 * Odd((a \div 4) + (b \div 4)) + 8 * Odd((a \div 8) + (b \div 8))

Fours == (0..15) \X (0..15)
XorTable(f) ==
  f = [p \in Fours |-> IF p = <<0, 0>> THEN 0 ELSE 2 * f[<<p[1] \div 2, p[2] \div 2>>] + ((p[1] + p[2]) % 2)]

LEMMA HalvedXor ==
  ASSUME NEW a \in 0..15, NEW b \in 0..15
  PROVE  /\ XorBits(a, b) = 2 * XorBits(a \div 2, b \div 2) + ((a + b) % 2)
         /\ a \div 2 \in 0..15 /\ b \div 2 \in 0..15
         /\ XorBits(a, b) \in 0..15
BY SMTT(40) DEF XorBits, Odd

LEMMA XorTableIs ==
  \A a \in 0..15, b \in 0..15 : XorOfFour[<<a, b>>] = XorBits(a, b)
<1> DEFINE g == [p \in Fours |-> XorBits(p[1], p[2])]
           of == CHOOSE f : XorTable(f)
<1>1. XorTable(g)
  <2>1. \A p \in Fours : XorBits(p[1], p[2]) =
           IF p = <<0, 0>> THEN 0 ELSE 2 * g[<<p[1] \div 2, p[2] \div 2>>] + ((p[1] + p[2]) % 2)
    <3> TAKE p \in Fours
    <3>0. PICK a \in 0..15, b \in 0..15 : p = <<a, b>>
      BY DEF Fours
    <3>1. CASE a = 0 /\ b = 0
      BY <3>0, <3>1 DEF XorBits, Odd
    <3>2. CASE ~(a = 0 /\ b = 0)
      <4>1. g[<<a \div 2, b \div 2>>] = XorBits(a \div 2, b \div 2)
        BY HalvedXor DEF Fours
      <4> HIDE DEF g
      <4> QED BY <3>0, <3>2, <4>1, HalvedXor
    <3> QED BY <3>1, <3>2
  <2> HIDE DEF g
  <2>2. g = [p \in Fours |-> XorBits(p[1], p[2])]
    BY DEF g
  <2>3. g = [p \in Fours |-> IF p = <<0, 0>> THEN 0 ELSE 2 * g[<<p[1] \div 2, p[2] \div 2>>] + ((p[1] + p[2]) % 2)]
    BY <2>1, <2>2, Zenon
  <2> QED BY <2>3, Zenon DEF XorTable
<1>2. XorTable(of)
  BY <1>1, Zenon
<1>3. XorOfFour = of
  BY Zenon DEF XorOfFour, XorTable, Fours
<1> HIDE DEF of, g
<1>4. \A a \in 0..15, b \in 0..15 :
         of[<<a, b>>] = IF a = 0 /\ b = 0 THEN 0 ELSE 2 * of[<<a \div 2, b \div 2>>] + ((a + b) % 2)
  <2> TAKE a \in 0..15, b \in 0..15
  <2>1. PICK p \in Fours : p = <<a, b>>
    BY DEF Fours
  <2>2. of[p] = IF p = <<0, 0>> THEN 0 ELSE 2 * of[<<p[1] \div 2, p[2] \div 2>>] + ((p[1] + p[2]) % 2)
    BY <1>2 DEF XorTable
  <2> QED BY <2>1, <2>2
<1>5. XorBits(0, 0) = 0 /\ of[<<0, 0>>] = 0
  BY <1>4, SMTT(40) DEF XorBits, Odd
<1>6. ASSUME NEW a \in 0..15, NEW b \in 0..15, of[<<a \div 2, b \div 2>>] = XorBits(a \div 2, b \div 2)
      PROVE  of[<<a, b>>] = XorBits(a, b)
  <2>1. CASE a = 0 /\ b = 0
    BY <1>5, <2>1
  <2>2. CASE ~(a = 0 /\ b = 0)
    <3>1. of[<<a, b>>] = 2 * of[<<a \div 2, b \div 2>>] + ((a + b) % 2)
      BY <1>4, <2>2
    <3> QED BY <1>6, <3>1, HalvedXor
  <2> QED BY <2>1, <2>2
<1>7. \A a \in 0..1, b \in 0..1 : of[<<a, b>>] = XorBits(a, b)
  <2> TAKE a \in 0..1, b \in 0..1
  <2>1. a \div 2 = 0 /\ b \div 2 = 0 /\ a \in 0..15 /\ b \in 0..15
    OBVIOUS
  <2>2. of[<<a \div 2, b \div 2>>] = XorBits(a \div 2, b \div 2)
    BY <1>5, <2>1
  <2> QED BY <1>6, <2>1, <2>2
<1>8. \A a \in 0..3, b \in 0..3 : of[<<a, b>>] = XorBits(a, b)
  <2> TAKE a \in 0..3, b \in 0..3
  <2>1. a \div 2 \in 0..1 /\ b \div 2 \in 0..1 /\ a \in 0..15 /\ b \in 0..15
    OBVIOUS
  <2>2. of[<<a \div 2, b \div 2>>] = XorBits(a \div 2, b \div 2)
    BY <1>7, <2>1
  <2> QED BY <1>6, <2>1, <2>2
<1>9. \A a \in 0..7, b \in 0..7 : of[<<a, b>>] = XorBits(a, b)
  <2> TAKE a \in 0..7, b \in 0..7
  <2>1. a \div 2 \in 0..3 /\ b \div 2 \in 0..3 /\ a \in 0..15 /\ b \in 0..15
    OBVIOUS
  <2>2. of[<<a \div 2, b \div 2>>] = XorBits(a \div 2, b \div 2)
    BY <1>8, <2>1
  <2> QED BY <1>6, <2>1, <2>2
<1>10. \A a \in 0..15, b \in 0..15 : of[<<a, b>>] = XorBits(a, b)
  <2> TAKE a \in 0..15, b \in 0..15
  <2>1. a \div 2 \in 0..7 /\ b \div 2 \in 0..7 /\ a \in 0..15 /\ b \in 0..15
    OBVIOUS
  <2>2. of[<<a \div 2, b \div 2>>] = XorBits(a \div 2, b \div 2)
    BY <1>9, <2>1
  <2> QED BY <1>6, <2>1, <2>2
<1> QED BY <1>3, <1>10

-----------------------------------------------------------------------------
(* The exclusive or of numbers below 4096, by its digits. *)

\* Numbers of at most twelve bits, and their digits of four.
Twelve == 0..4095
Lo(a) == a % 16
Mid(a) == (a \div 16) % 16
Hi(a) == a \div 256

LEMMA DigitTypes ==
  ASSUME NEW a \in Twelve
  PROVE  Lo(a) \in 0..15 /\ Mid(a) \in 0..15 /\ Hi(a) \in 0..15 /\ (a \div 256) % 16 = Hi(a)
<1>1. Lo(a) \in 0..15
  BY DEF Twelve, Lo
<1>2. Mid(a) \in 0..15
  BY DEF Twelve, Mid
<1>3. Hi(a) \in 0..15
  BY DEF Twelve, Hi
<1>4. (a \div 256) % 16 = Hi(a)
  BY <1>3 DEF Hi
<1> QED BY <1>1, <1>2, <1>3, <1>4

LEMMA Sixteens == 16^0 = 1 /\ 16^1 = 16 /\ 16^2 = 256 /\ 16^3 = 4096 /\ 16^4 = 65536 /\ 16^5 = 1048576
OBVIOUS

\* A digit of an exclusive or, and the condition for the rest to be zero.
XorDigit(a, b, k) == XorOfFour[<<(a \div 16^k) % 16, (b \div 16^k) % 16>>]
Below(a, b, k) == 16^k > a /\ 16^k > b
XorFrom(f, a, b) ==
  f = [k \in 0..5 |-> IF 16^k > a /\ 16^k > b THEN 0
                      ELSE 16^k * XorOfFour[<<(a \div 16^k) % 16, (b \div 16^k) % 16>>] + f[k + 1]]

LEMMA XorDigits ==
  ASSUME NEW a \in Twelve, NEW b \in Twelve
  PROVE  /\ XorDigit(a, b, 0) = XorBits(Lo(a), Lo(b))
         /\ XorDigit(a, b, 1) = XorBits(Mid(a), Mid(b))
         /\ XorDigit(a, b, 2) = XorBits(Hi(a), Hi(b))
         /\ XorBits(Lo(a), Lo(b)) \in 0..15 /\ XorBits(Mid(a), Mid(b)) \in 0..15 /\ XorBits(Hi(a), Hi(b)) \in 0..15
<1>1. a \div 1 = a /\ b \div 1 = b
  BY DEF Twelve
<1>2. /\ XorDigit(a, b, 0) = XorOfFour[<<Lo(a), Lo(b)>>]
      /\ XorDigit(a, b, 1) = XorOfFour[<<Mid(a), Mid(b)>>]
      /\ XorDigit(a, b, 2) = XorOfFour[<<Hi(a), Hi(b)>>]
  <2>1. XorDigit(a, b, 0) = XorOfFour[<<(a \div 1) % 16, (b \div 1) % 16>>]
    BY Sixteens DEF XorDigit
  <2>2. XorDigit(a, b, 1) = XorOfFour[<<(a \div 16) % 16, (b \div 16) % 16>>]
    BY Sixteens DEF XorDigit
  <2>3. XorDigit(a, b, 2) = XorOfFour[<<(a \div 256) % 16, (b \div 256) % 16>>]
    BY Sixteens DEF XorDigit
  <2> QED BY <1>1, <2>1, <2>2, <2>3, DigitTypes DEF Lo, Mid
<1>3. /\ Lo(a) \in 0..15 /\ Mid(a) \in 0..15 /\ Hi(a) \in 0..15
      /\ Lo(b) \in 0..15 /\ Mid(b) \in 0..15 /\ Hi(b) \in 0..15
  BY DigitTypes
<1> QED BY <1>2, <1>3, XorTableIs, HalvedXor

LEMMA XorBelow ==
  ASSUME NEW a \in Twelve, NEW b \in Twelve
  PROVE  /\ Below(a, b, 3) /\ Below(a, b, 4) /\ Below(a, b, 5)
         /\ Below(a, b, 2) => XorDigit(a, b, 2) = 0
         /\ Below(a, b, 1) => XorDigit(a, b, 1) = 0 /\ XorDigit(a, b, 2) = 0
         /\ Below(a, b, 0) => XorDigit(a, b, 0) = 0 /\ XorDigit(a, b, 1) = 0 /\ XorDigit(a, b, 2) = 0
<1>1. Below(a, b, 3) /\ Below(a, b, 4) /\ Below(a, b, 5)
  BY Sixteens DEF Below, Twelve
<1>2. /\ Below(a, b, 2) => Hi(a) = 0 /\ Hi(b) = 0
      /\ Below(a, b, 1) => Hi(a) = 0 /\ Hi(b) = 0 /\ Mid(a) = 0 /\ Mid(b) = 0
      /\ Below(a, b, 0) => Hi(a) = 0 /\ Hi(b) = 0 /\ Mid(a) = 0 /\ Mid(b) = 0 /\ Lo(a) = 0 /\ Lo(b) = 0
  <2>1. \A x \in Twelve : (256 > x => Hi(x) = 0) /\ (16 > x => Hi(x) = 0 /\ Mid(x) = 0)
                          /\ (1 > x => Hi(x) = 0 /\ Mid(x) = 0 /\ Lo(x) = 0)
    BY DEF Twelve, Hi, Mid, Lo
  <2> QED BY <2>1, Sixteens DEF Below
<1>3. XorBits(0, 0) = 0
  BY DEF XorBits, Odd
<1> QED BY <1>1, <1>2, <1>3, XorDigits

LEMMA XorFromExists ==
  ASSUME NEW a \in Twelve, NEW b \in Twelve
  PROVE  \E f : XorFrom(f, a, b)
<1> DEFINE f2 == IF Below(a, b, 2) THEN 0 ELSE 16^2 * XorDigit(a, b, 2) + 0
           f1 == IF Below(a, b, 1) THEN 0 ELSE 16^1 * XorDigit(a, b, 1) + f2
           f0 == IF Below(a, b, 0) THEN 0 ELSE 16^0 * XorDigit(a, b, 0) + f1
           g == [k \in 0..5 |-> IF k = 0 THEN f0 ELSE IF k = 1 THEN f1 ELSE IF k = 2 THEN f2 ELSE 0]
           e(k) == IF Below(a, b, k) THEN 0 ELSE 16^k * XorDigit(a, b, k) + g[k + 1]
<1>1. g[0] = f0 /\ g[1] = f1 /\ g[2] = f2 /\ g[3] = 0 /\ g[4] = 0 /\ g[5] = 0
  OBVIOUS
<1>2. g = [k \in 0..5 |-> g[k]]
  OBVIOUS
<1>3. 0 + 1 = 1 /\ 1 + 1 = 2 /\ 2 + 1 = 3
  OBVIOUS
<1> HIDE DEF g
<1>4. g[0] = e(0) /\ g[1] = e(1) /\ g[2] = e(2) /\ g[3] = e(3) /\ g[4] = e(4) /\ g[5] = e(5)
  BY <1>1, <1>3, XorBelow, Zenon
<1> HIDE DEF e
<1>5. \A k \in 0..5 : g[k] = e(k)
  BY <1>4
<1>6. g = [k \in 0..5 |-> e(k)]
  BY <1>2, <1>5, Zenon
<1>7. XorFrom(g, a, b)
  BY <1>6, Zenon DEF XorFrom, e, Below, XorDigit
<1> QED BY <1>7, Zenon

(* The digits of the exclusive or. *)
LEMMA XorIs ==
  ASSUME NEW a \in Twelve, NEW b \in Twelve
  PROVE  Xor(a, b) = XorBits(Lo(a), Lo(b)) + 16 * XorBits(Mid(a), Mid(b)) + 256 * XorBits(Hi(a), Hi(b))
<1> DEFINE from == CHOOSE f : XorFrom(f, a, b)
           e(k) == IF Below(a, b, k) THEN 0 ELSE 16^k * XorDigit(a, b, k) + from[k + 1]
<1>1. XorFrom(from, a, b)
  BY XorFromExists, Zenon
<1>2. Xor(a, b) = from[0]
  BY Zenon DEF Xor, XorFrom
<1> HIDE DEF from
<1>3. \A k \in 0..5 : from[k] = e(k)
  BY <1>1, Zenon DEF XorFrom, Below, XorDigit
<1> HIDE DEF e
<1>4. from[0] = e(0) /\ from[1] = e(1) /\ from[2] = e(2) /\ from[3] = e(3)
  BY <1>3
<1>5. from[3] = 0
  BY <1>4, XorBelow DEF e
<1>6. from[2] = 256 * XorDigit(a, b, 2)
  BY <1>4, <1>5, XorBelow, XorDigits, Sixteens DEF e
<1>7. from[1] = 16 * XorDigit(a, b, 1) + 256 * XorDigit(a, b, 2)
  BY <1>4, <1>6, XorBelow, XorDigits, Sixteens DEF e
<1>8. from[0] = XorDigit(a, b, 0) + 16 * XorDigit(a, b, 1) + 256 * XorDigit(a, b, 2)
  BY <1>4, <1>7, XorBelow, XorDigits, Sixteens DEF e
<1> QED BY <1>2, <1>8, XorDigits

-----------------------------------------------------------------------------
(* The bits of the digits, and from them the laws of the exclusive or. *)

LEMMA BitsOfFour ==
  ASSUME NEW p \in {0, 1}, NEW q \in {0, 1}, NEW r \in {0, 1}, NEW s \in {0, 1}, NEW c, c = p + 2 * q + 4 * r + 8 * s
  PROVE  c % 2 = p /\ (c \div 2) % 2 = q /\ (c \div 4) % 2 = r /\ (c \div 8) % 2 = s /\ c \in 0..15
OBVIOUS

LEMMA OddSum ==
  ASSUME NEW x \in Int, NEW y \in Int
  PROVE  Odd(x + y) \in {0, 1} /\ Odd(x + y) = Odd(Odd(x) + Odd(y)) /\ Odd(x) \in {0, 1}
BY DEF Odd

LEMMA XorBitsBits ==
  ASSUME NEW a \in 0..15, NEW b \in 0..15, NEW c, c = XorBits(a, b)
  PROVE  /\ Odd(c) = Odd(Odd(a) + Odd(b))
         /\ Odd(c \div 2) = Odd(Odd(a \div 2) + Odd(b \div 2))
         /\ Odd(c \div 4) = Odd(Odd(a \div 4) + Odd(b \div 4))
         /\ Odd(c \div 8) = Odd(Odd(a \div 8) + Odd(b \div 8))
<1>1. /\ a \div 2 \in Int /\ a \div 4 \in Int /\ a \div 8 \in Int
      /\ b \div 2 \in Int /\ b \div 4 \in Int /\ b \div 8 \in Int
  OBVIOUS
<1>2. PICK p \in {0, 1}, q \in {0, 1}, r \in {0, 1}, s \in {0, 1} :
        /\ p = Odd(a + b) /\ q = Odd((a \div 2) + (b \div 2))
        /\ r = Odd((a \div 4) + (b \div 4)) /\ s = Odd((a \div 8) + (b \div 8))
  <2>1. a \in Int /\ b \in Int
    OBVIOUS
  <2>2. /\ Odd(a + b) \in {0, 1} /\ Odd((a \div 2) + (b \div 2)) \in {0, 1}
        /\ Odd((a \div 4) + (b \div 4)) \in {0, 1} /\ Odd((a \div 8) + (b \div 8)) \in {0, 1}
    BY <1>1, <2>1, OddSum, Zenon
  <2> QED BY <2>2, Zenon
<1>3. c = p + 2 * q + 4 * r + 8 * s
  BY <1>2 DEF XorBits
<1>4. Odd(c) = p /\ Odd(c \div 2) = q /\ Odd(c \div 4) = r /\ Odd(c \div 8) = s
  <2>1. c % 2 = p /\ (c \div 2) % 2 = q /\ (c \div 4) % 2 = r /\ (c \div 8) % 2 = s
    BY <1>3, BitsOfFour
  <2> QED BY <2>1 DEF Odd
<1>5. /\ Odd(a + b) = Odd(Odd(a) + Odd(b))
      /\ Odd((a \div 2) + (b \div 2)) = Odd(Odd(a \div 2) + Odd(b \div 2))
      /\ Odd((a \div 4) + (b \div 4)) = Odd(Odd(a \div 4) + Odd(b \div 4))
      /\ Odd((a \div 8) + (b \div 8)) = Odd(Odd(a \div 8) + Odd(b \div 8))
  <2>1. a \in Int /\ b \in Int
    OBVIOUS
  <2> QED BY <1>1, <2>1, OddSum, ZenonT(60)
<1> QED BY <1>2, <1>4, <1>5

LEMMA XorBitsOf ==
  ASSUME NEW a \in 0..15, NEW b \in 0..15
  PROVE  XorBits(a, b) = Odd(Odd(a) + Odd(b)) + 2 * Odd(Odd(a \div 2) + Odd(b \div 2))
                         + 4 * Odd(Odd(a \div 4) + Odd(b \div 4)) + 8 * Odd(Odd(a \div 8) + Odd(b \div 8))
<1>1. /\ a \div 2 \in Int /\ a \div 4 \in Int /\ a \div 8 \in Int
      /\ b \div 2 \in Int /\ b \div 4 \in Int /\ b \div 8 \in Int
  OBVIOUS
<1>5. /\ Odd(a + b) = Odd(Odd(a) + Odd(b))
      /\ Odd((a \div 2) + (b \div 2)) = Odd(Odd(a \div 2) + Odd(b \div 2))
      /\ Odd((a \div 4) + (b \div 4)) = Odd(Odd(a \div 4) + Odd(b \div 4))
      /\ Odd((a \div 8) + (b \div 8)) = Odd(Odd(a \div 8) + Odd(b \div 8))
  <2>1. a \in Int /\ b \in Int
    OBVIOUS
  <2> QED BY <1>1, <2>1, OddSum, Zenon
<1> QED BY <1>5, Zenon DEF XorBits

LEMMA OddLaws ==
  ASSUME NEW x \in {0, 1}, NEW y \in {0, 1}, NEW z \in {0, 1}
  PROVE  /\ Odd(Odd(x + y) + z) = Odd(x + Odd(y + z)) /\ Odd(x + x) = 0 /\ Odd(0 + x) = x /\ Odd(x + 0) = x
         /\ Odd(x + y) = Odd(y + x) /\ Odd(x + y) \in {0, 1}
BY DEF Odd

LEMMA XorBitsLaws ==
  ASSUME NEW a \in 0..15, NEW b \in 0..15
  PROVE  /\ XorBits(a, b) \in 0..15 /\ XorBits(a, b) = XorBits(b, a)
         /\ XorBits(a, a) = 0 /\ XorBits(0, a) = a
<1>1. XorBits(a, b) \in 0..15
  BY HalvedXor
<1>2. XorBits(a, b) = XorBits(b, a)
  BY DEF XorBits
<1>3. XorBits(a, a) = 0
  BY DEF XorBits, Odd
<1>4. XorBits(0, a) = a
  BY DEF XorBits, Odd
<1> QED BY <1>1, <1>2, <1>3, <1>4

LEMMA XorBitsAssociate ==
  ASSUME NEW a \in 0..15, NEW b \in 0..15, NEW c \in 0..15
  PROVE  XorBits(XorBits(a, b), c) = XorBits(a, XorBits(b, c))
<1>0. \A x \in 0..15 : /\ Odd(x) \in {0, 1} /\ Odd(x \div 2) \in {0, 1}
                       /\ Odd(x \div 4) \in {0, 1} /\ Odd(x \div 8) \in {0, 1}
  <2> TAKE x \in 0..15
  <2>1. x \in Int /\ x \div 2 \in Int /\ x \div 4 \in Int /\ x \div 8 \in Int
    OBVIOUS
  <2> QED BY <2>1, OddSum
<1>1. PICK ab \in 0..15, bc \in 0..15 : ab = XorBits(a, b) /\ bc = XorBits(b, c)
  BY HalvedXor
<1>2. XorBits(ab, c) = Odd(Odd(ab) + Odd(c)) + 2 * Odd(Odd(ab \div 2) + Odd(c \div 2))
                       + 4 * Odd(Odd(ab \div 4) + Odd(c \div 4)) + 8 * Odd(Odd(ab \div 8) + Odd(c \div 8))
  BY XorBitsOf
<1>3. XorBits(a, bc) = Odd(Odd(a) + Odd(bc)) + 2 * Odd(Odd(a \div 2) + Odd(bc \div 2))
                       + 4 * Odd(Odd(a \div 4) + Odd(bc \div 4)) + 8 * Odd(Odd(a \div 8) + Odd(bc \div 8))
  BY XorBitsOf
<1>4. /\ Odd(Odd(ab) + Odd(c)) = Odd(Odd(a) + Odd(bc))
      /\ Odd(Odd(ab \div 2) + Odd(c \div 2)) = Odd(Odd(a \div 2) + Odd(bc \div 2))
      /\ Odd(Odd(ab \div 4) + Odd(c \div 4)) = Odd(Odd(a \div 4) + Odd(bc \div 4))
      /\ Odd(Odd(ab \div 8) + Odd(c \div 8)) = Odd(Odd(a \div 8) + Odd(bc \div 8))
  <2>1. /\ Odd(ab) = Odd(Odd(a) + Odd(b)) /\ Odd(bc) = Odd(Odd(b) + Odd(c))
        /\ Odd(ab \div 2) = Odd(Odd(a \div 2) + Odd(b \div 2)) /\ Odd(bc \div 2) = Odd(Odd(b \div 2) + Odd(c \div 2))
        /\ Odd(ab \div 4) = Odd(Odd(a \div 4) + Odd(b \div 4)) /\ Odd(bc \div 4) = Odd(Odd(b \div 4) + Odd(c \div 4))
        /\ Odd(ab \div 8) = Odd(Odd(a \div 8) + Odd(b \div 8)) /\ Odd(bc \div 8) = Odd(Odd(b \div 8) + Odd(c \div 8))
    BY <1>1, XorBitsBits
  <2> QED BY <2>1, <1>0, OddLaws
<1> QED BY <1>1, <1>2, <1>3, <1>4

LEMMA DigitsOf ==
  ASSUME NEW p \in 0..15, NEW q \in 0..15, NEW r \in 0..15, NEW c, c = p + 16 * q + 256 * r
  PROVE  c \in Twelve /\ Lo(c) = p /\ Mid(c) = q /\ Hi(c) = r
BY DEF Twelve, Lo, Mid, Hi

LEMMA FromDigits ==
  ASSUME NEW a \in Twelve
  PROVE  a = Lo(a) + 16 * Mid(a) + 256 * Hi(a)
BY DEF Twelve, Lo, Mid, Hi

LEMMA XorHasDigits ==
  ASSUME NEW a \in Twelve, NEW b \in Twelve
  PROVE  /\ Xor(a, b) \in Twelve
         /\ Lo(Xor(a, b)) = XorBits(Lo(a), Lo(b))
         /\ Mid(Xor(a, b)) = XorBits(Mid(a), Mid(b))
         /\ Hi(Xor(a, b)) = XorBits(Hi(a), Hi(b))
<1>1. PICK p \in 0..15, q \in 0..15, r \in 0..15 :
        p = XorBits(Lo(a), Lo(b)) /\ q = XorBits(Mid(a), Mid(b)) /\ r = XorBits(Hi(a), Hi(b))
  BY XorDigits
<1>2. PICK c : c = Xor(a, b)
  OBVIOUS
<1>3. c = p + 16 * q + 256 * r
  BY <1>1, <1>2, XorIs
<1>4. c \in Twelve /\ Lo(c) = p /\ Mid(c) = q /\ Hi(c) = r
  BY <1>3, DigitsOf
<1> QED BY <1>1, <1>2, <1>4

(* Numbers are the same if their digits are. *)
LEMMA SameDigits ==
  ASSUME NEW a \in Twelve, NEW b \in Twelve, Lo(a) = Lo(b), Mid(a) = Mid(b), Hi(a) = Hi(b)
  PROVE  a = b
<1>1. a = Lo(a) + 16 * Mid(a) + 256 * Hi(a) /\ b = Lo(b) + 16 * Mid(b) + 256 * Hi(b)
  BY FromDigits
<1> QED BY <1>1

(* The code's ^ : a group in which every number is its own inverse. *)
LEMMA XorCommutes ==
  ASSUME NEW a \in Twelve, NEW b \in Twelve
  PROVE  Xor(a, b) = Xor(b, a)
<1>1. /\ XorBits(Lo(a), Lo(b)) = XorBits(Lo(b), Lo(a)) /\ XorBits(Mid(a), Mid(b)) = XorBits(Mid(b), Mid(a))
      /\ XorBits(Hi(a), Hi(b)) = XorBits(Hi(b), Hi(a))
  BY DigitTypes, XorBitsLaws
<1> QED BY <1>1, XorHasDigits, SameDigits

LEMMA XorInverse ==
  ASSUME NEW a \in Twelve
  PROVE  Xor(a, a) = 0
<1>1. XorBits(Lo(a), Lo(a)) = 0 /\ XorBits(Mid(a), Mid(a)) = 0 /\ XorBits(Hi(a), Hi(a)) = 0
  BY DigitTypes, XorBitsLaws
<1>2. 0 \in Twelve /\ Lo(0) = 0 /\ Mid(0) = 0 /\ Hi(0) = 0
  BY DEF Twelve, Lo, Mid, Hi
<1> QED BY <1>1, <1>2, XorHasDigits, SameDigits

LEMMA XorNeutral ==
  ASSUME NEW a \in Twelve
  PROVE  Xor(0, a) = a /\ Xor(a, 0) = a
<1>1. 0 \in Twelve /\ Lo(0) = 0 /\ Mid(0) = 0 /\ Hi(0) = 0
  BY DEF Twelve, Lo, Mid, Hi
<1>2. XorBits(0, Lo(a)) = Lo(a) /\ XorBits(0, Mid(a)) = Mid(a) /\ XorBits(0, Hi(a)) = Hi(a)
  BY DigitTypes, XorBitsLaws
<1>3. Xor(0, a) = a
  BY <1>1, <1>2, XorHasDigits, SameDigits
<1> QED BY <1>1, <1>3, XorCommutes

LEMMA XorAssociates ==
  ASSUME NEW a \in Twelve, NEW b \in Twelve, NEW c \in Twelve
  PROVE  Xor(Xor(a, b), c) = Xor(a, Xor(b, c))
<1>1. PICK x \in Twelve, y \in Twelve : x = Xor(a, b) /\ y = Xor(b, c)
  BY XorHasDigits
<1>2. /\ Lo(x) = XorBits(Lo(a), Lo(b)) /\ Mid(x) = XorBits(Mid(a), Mid(b)) /\ Hi(x) = XorBits(Hi(a), Hi(b))
      /\ Lo(y) = XorBits(Lo(b), Lo(c)) /\ Mid(y) = XorBits(Mid(b), Mid(c)) /\ Hi(y) = XorBits(Hi(b), Hi(c))
  BY <1>1, XorHasDigits
<1>3. PICK l \in Twelve, r \in Twelve : l = Xor(x, c) /\ r = Xor(a, y)
  BY XorHasDigits
<1>4. /\ Lo(l) = XorBits(Lo(x), Lo(c)) /\ Mid(l) = XorBits(Mid(x), Mid(c)) /\ Hi(l) = XorBits(Hi(x), Hi(c))
      /\ Lo(r) = XorBits(Lo(a), Lo(y)) /\ Mid(r) = XorBits(Mid(a), Mid(y)) /\ Hi(r) = XorBits(Hi(a), Hi(y))
  BY <1>3, XorHasDigits
<1>5. /\ XorBits(XorBits(Lo(a), Lo(b)), Lo(c)) = XorBits(Lo(a), XorBits(Lo(b), Lo(c)))
      /\ XorBits(XorBits(Mid(a), Mid(b)), Mid(c)) = XorBits(Mid(a), XorBits(Mid(b), Mid(c)))
      /\ XorBits(XorBits(Hi(a), Hi(b)), Hi(c)) = XorBits(Hi(a), XorBits(Hi(b), Hi(c)))
  <2>1. /\ Lo(a) \in 0..15 /\ Mid(a) \in 0..15 /\ Hi(a) \in 0..15
        /\ Lo(b) \in 0..15 /\ Mid(b) \in 0..15 /\ Hi(b) \in 0..15
        /\ Lo(c) \in 0..15 /\ Mid(c) \in 0..15 /\ Hi(c) \in 0..15
    BY DigitTypes
  <2>2. XorBits(XorBits(Lo(a), Lo(b)), Lo(c)) = XorBits(Lo(a), XorBits(Lo(b), Lo(c)))
    BY <2>1, XorBitsAssociate, SMT
  <2>3. XorBits(XorBits(Mid(a), Mid(b)), Mid(c)) = XorBits(Mid(a), XorBits(Mid(b), Mid(c)))
    BY <2>1, XorBitsAssociate, SMT
  <2>4. XorBits(XorBits(Hi(a), Hi(b)), Hi(c)) = XorBits(Hi(a), XorBits(Hi(b), Hi(c)))
    BY <2>1, XorBitsAssociate, SMT
  <2> QED BY <2>2, <2>3, <2>4
<1>6. l = r
  BY <1>2, <1>4, <1>5, SameDigits
<1> QED BY <1>1, <1>3, <1>6

LEMMA XorType ==
  ASSUME NEW a \in Twelve, NEW b \in Twelve
  PROVE  Xor(a, b) \in Twelve
BY XorHasDigits

-----------------------------------------------------------------------------
(* Doubling. *)

LEMMA Interchange ==
  ASSUME NEW p \in Twelve, NEW q \in Twelve, NEW r \in Twelve, NEW s \in Twelve
  PROVE  Xor(Xor(p, q), Xor(r, s)) = Xor(Xor(p, r), Xor(q, s))
<1>1. Xor(p, q) \in Twelve /\ Xor(r, s) \in Twelve /\ Xor(q, s) \in Twelve /\ Xor(q, r) \in Twelve /\ Xor(p, r) \in Twelve
  BY XorType
<1>2. Xor(Xor(p, q), Xor(r, s)) = Xor(p, Xor(q, Xor(r, s)))
  BY <1>1, XorAssociates, SMT
<1>3. Xor(q, Xor(r, s)) = Xor(Xor(q, r), s)
  BY <1>1, XorAssociates, SMT
<1>4. Xor(Xor(q, r), s) = Xor(Xor(r, q), s)
  BY XorCommutes, Zenon
<1>5. Xor(Xor(r, q), s) = Xor(r, Xor(q, s))
  BY <1>1, XorAssociates, SMT
<1>6. Xor(p, Xor(r, Xor(q, s))) = Xor(Xor(p, r), Xor(q, s))
  BY <1>1, XorAssociates, SMT
<1> QED BY <1>2, <1>3, <1>4, <1>5, <1>6, Zenon

\* The elements of the field.
Field == 0..255

LEMMA FieldDigits ==
  ASSUME NEW a \in Field
  PROVE  a \in Twelve /\ Hi(a) = 0 /\ Mid(a) = a \div 16
BY DEF Field, Twelve, Hi, Mid

LEMMA InField ==
  ASSUME NEW a \in Twelve, Hi(a) = 0
  PROVE  a \in Field
BY DEF Field, Twelve, Hi

LEMMA FieldXor ==
  ASSUME NEW a \in Field, NEW b \in Field
  PROVE  Xor(a, b) \in Field
<1>1. Xor(a, b) \in Twelve /\ Hi(Xor(a, b)) = XorBits(0, 0)
  BY FieldDigits, XorHasDigits
<1>2. XorBits(0, 0) = 0
  BY XorBitsLaws
<1> QED BY <1>1, <1>2, InField

LEMMA ShiftBits ==
  ASSUME NEW x \in 0..15, NEW y \in 0..15, NEW c \in {0, 1}, NEW d \in {0, 1}
  PROVE  XorBits(2 * (x % 8) + c, 2 * (y % 8) + d) = 2 * (XorBits(x, y) % 8) + Odd(c + d)
<1>1. PICK u \in 0..15, v \in 0..15 : u = 2 * (x % 8) + c /\ v = 2 * (y % 8) + d
  OBVIOUS
<1>2. Odd(u) = c /\ Odd(u \div 2) = Odd(x) /\ Odd(u \div 4) = Odd(x \div 2) /\ Odd(u \div 8) = Odd(x \div 4)
  BY <1>1 DEF Odd
<1>3. Odd(v) = d /\ Odd(v \div 2) = Odd(y) /\ Odd(v \div 4) = Odd(y \div 2) /\ Odd(v \div 8) = Odd(y \div 4)
  BY <1>1 DEF Odd
<1>4. XorBits(u, v) = Odd(c + d) + 2 * Odd(Odd(x) + Odd(y)) + 4 * Odd(Odd(x \div 2) + Odd(y \div 2))
                      + 8 * Odd(Odd(x \div 4) + Odd(y \div 4))
  BY <1>2, <1>3, XorBitsOf
<1>5. PICK z \in 0..15 : z = XorBits(x, y)
  BY HalvedXor
<1>6. /\ Odd(z) = Odd(Odd(x) + Odd(y)) /\ Odd(z \div 2) = Odd(Odd(x \div 2) + Odd(y \div 2))
      /\ Odd(z \div 4) = Odd(Odd(x \div 4) + Odd(y \div 4))
  BY <1>5, XorBitsBits
<1>7. z % 8 = Odd(z) + 2 * Odd(z \div 2) + 4 * Odd(z \div 4)
  BY DEF Odd
<1>8. Odd(c + d) \in Int /\ Odd(z) \in Int /\ Odd(z \div 2) \in Int /\ Odd(z \div 4) \in Int
  BY DEF Odd
<1> QED BY <1>1, <1>4, <1>5, <1>6, <1>7, <1>8

LEMMA TopBit ==
  ASSUME NEW x \in 0..15, NEW y \in 0..15
  PROVE  XorBits(x, y) \div 8 = Odd((x \div 8) + (y \div 8))
<1>1. PICK z \in 0..15 : z = XorBits(x, y)
  BY HalvedXor
<1>2. Odd(z \div 8) = Odd(Odd(x \div 8) + Odd(y \div 8))
  BY <1>1, XorBitsBits
<1>3. Odd(z \div 8) = z \div 8 /\ Odd(x \div 8) = x \div 8 /\ Odd(y \div 8) = y \div 8
  BY DEF Odd
<1> QED BY <1>1, <1>2, <1>3

LEMMA ShiftedDigits ==
  ASSUME NEW a \in Field
  PROVE  /\ 2 * a \in Twelve
         /\ Lo(2 * a) = 2 * (Lo(a) % 8) + 0
         /\ Mid(2 * a) = 2 * (Mid(a) % 8) + (Lo(a) \div 8)
         /\ Hi(2 * a) = Mid(a) \div 8
         /\ Lo(a) \div 8 \in {0, 1} /\ Mid(a) \div 8 \in {0, 1}
<1>1. PICK p \in 0..15, q \in 0..15 : a = p + 16 * q /\ Lo(a) = p /\ Mid(a) = q
  <2>1. a = Lo(a) + 16 * Mid(a) + 256 * Hi(a) /\ Hi(a) = 0
    BY FieldDigits, FromDigits
  <2> QED BY <2>1, FieldDigits, DigitTypes
<1>2. PICK r \in 0..7, c \in {0, 1}, t \in 0..7, d \in {0, 1} :
        p = r + 8 * c /\ q = t + 8 * d /\ r = p % 8 /\ c = p \div 8 /\ t = q % 8 /\ d = q \div 8
  <2>1. p = (p % 8) + 8 * (p \div 8) /\ q = (q % 8) + 8 * (q \div 8) /\ p % 8 \in 0..7 /\ q % 8 \in 0..7
        /\ p \div 8 \in {0, 1} /\ q \div 8 \in {0, 1}
    OBVIOUS
  <2> QED BY <2>1
<1>3. 2 * a = 2 * r + 16 * (2 * t + c) + 256 * d
  BY <1>1, <1>2
<1>4. 2 * r \in 0..15 /\ 2 * t + c \in 0..15 /\ d \in 0..15
  OBVIOUS
<1>5. 2 * a \in Twelve /\ Lo(2 * a) = 2 * r /\ Mid(2 * a) = 2 * t + c /\ Hi(2 * a) = d
  BY <1>3, <1>4, DigitsOf
<1> QED BY <1>1, <1>2, <1>5

LEMMA XorShifted ==
  ASSUME NEW a \in Field, NEW b \in Field
  PROVE  2 * Xor(a, b) = Xor(2 * a, 2 * b)
<1>1. PICK x \in Field : x = Xor(a, b)
  BY FieldXor
<1>2. Lo(x) = XorBits(Lo(a), Lo(b)) /\ Mid(x) = XorBits(Mid(a), Mid(b))
  BY <1>1, FieldDigits, XorHasDigits
<1>3. PICK s \in Twelve : s = Xor(2 * a, 2 * b)
  BY ShiftedDigits, XorType
<1>4. /\ Lo(s) = XorBits(Lo(2 * a), Lo(2 * b)) /\ Mid(s) = XorBits(Mid(2 * a), Mid(2 * b))
      /\ Hi(s) = XorBits(Hi(2 * a), Hi(2 * b))
  BY <1>3, ShiftedDigits, XorHasDigits
<1>5. Lo(a) \in 0..15 /\ Mid(a) \in 0..15 /\ Lo(b) \in 0..15 /\ Mid(b) \in 0..15
  BY FieldDigits, DigitTypes
<1>6. PICK p \in {0, 1}, q \in {0, 1}, r \in {0, 1}, t \in {0, 1} :
        p = Lo(a) \div 8 /\ q = Lo(b) \div 8 /\ r = Mid(a) \div 8 /\ t = Mid(b) \div 8
  BY ShiftedDigits
<1>7. Lo(s) = 2 * (Lo(x) % 8) + 0
  <2>1. Lo(s) = XorBits(2 * (Lo(a) % 8) + 0, 2 * (Lo(b) % 8) + 0)
    BY <1>4, ShiftedDigits
  <2>2. Odd(0 + 0) = 0
    BY DEF Odd
  <2> QED BY <1>2, <1>5, <2>1, <2>2, ShiftBits
<1>8. Mid(s) = 2 * (Mid(x) % 8) + (Lo(x) \div 8)
  <2>1. Mid(s) = XorBits(2 * (Mid(a) % 8) + p, 2 * (Mid(b) % 8) + q)
    BY <1>4, <1>6, ShiftedDigits
  <2>2. Mid(s) = 2 * (Mid(x) % 8) + Odd(p + q)
    BY <1>2, <1>5, <2>1, ShiftBits
  <2>3. Lo(x) \div 8 = Odd(p + q)
    BY <1>2, <1>5, <1>6, TopBit
  <2> QED BY <2>2, <2>3
<1>9. Hi(s) = Mid(x) \div 8
  <2>1. Hi(s) = XorBits(r, t)
    BY <1>4, <1>6, ShiftedDigits
  <2>2. XorBits(r, t) = Odd(r + t)
    BY DEF XorBits, Odd
  <2>3. Mid(x) \div 8 = Odd(r + t)
    BY <1>2, <1>5, <1>6, TopBit
  <2> QED BY <2>1, <2>2, <2>3
<1>10. s = 2 * x
  BY <1>7, <1>8, <1>9, ShiftedDigits, SameDigits
<1> QED BY <1>1, <1>3, <1>10

\* What Double takes away when the eighth bit is carried out.
Carry(a) == IF a < 128 THEN 0 ELSE 285

LEMMA CarryDigits ==
  ASSUME NEW a \in Field
  PROVE  Carry(a) \in Twelve /\ Hi(Carry(a)) = Mid(a) \div 8 /\ (a < 128 <=> Mid(a) \div 8 = 0)
<1>1. Mid(a) = a \div 16 /\ Mid(a) \in 0..15
  BY FieldDigits, DigitTypes
<1>2. a < 128 <=> Mid(a) \div 8 = 0
  BY <1>1 DEF Field
<1>3. Mid(a) \div 8 \in {0, 1}
  BY ShiftedDigits
<1>4. 0 \in Twelve /\ 285 \in Twelve /\ Hi(0) = 0 /\ Hi(285) = 1
  BY DEF Twelve, Hi
<1> QED BY <1>2, <1>3, <1>4 DEF Carry

LEMMA DoubleIs ==
  ASSUME NEW a \in Field
  PROVE  Double(a) = Xor(2 * a, Carry(a)) /\ Double(a) \in Field
<1>1. 2 * a \in Twelve /\ Hi(2 * a) = Mid(a) \div 8 /\ Mid(a) \div 8 \in {0, 1}
  BY ShiftedDigits
<1>2. Double(a) = Xor(2 * a, Carry(a))
  <2>1. CASE a < 128
    BY <1>1, <2>1, XorNeutral DEF Double, Carry
  <2>2. CASE ~(a < 128)
    BY <2>2 DEF Double, Carry
  <2> QED BY <2>1, <2>2
<1>3. Xor(2 * a, Carry(a)) \in Twelve /\ Hi(Xor(2 * a, Carry(a))) = XorBits(Mid(a) \div 8, Mid(a) \div 8)
  BY <1>1, CarryDigits, XorHasDigits
<1>4. XorBits(Mid(a) \div 8, Mid(a) \div 8) = 0
  BY <1>1, XorBitsLaws
<1> QED BY <1>2, <1>3, <1>4, InField

LEMMA CarryLinear ==
  ASSUME NEW a \in Field, NEW b \in Field
  PROVE  Carry(Xor(a, b)) = Xor(Carry(a), Carry(b))
<1>1. PICK x \in Field : x = Xor(a, b)
  BY FieldXor
<1>2. Mid(x) = XorBits(Mid(a), Mid(b)) /\ Mid(a) \in 0..15 /\ Mid(b) \in 0..15
  BY <1>1, FieldDigits, XorHasDigits, DigitTypes
<1>3. PICK r \in {0, 1}, t \in {0, 1} : r = Mid(a) \div 8 /\ t = Mid(b) \div 8
  BY ShiftedDigits
<1>4. Mid(x) \div 8 = Odd(r + t)
  BY <1>2, <1>3, TopBit
<1>5. Odd(0 + 0) = 0 /\ Odd(0 + 1) = 1 /\ Odd(1 + 0) = 1 /\ Odd(1 + 1) = 0
  BY DEF Odd
<1>6. (x < 128 <=> Odd(r + t) = 0) /\ (a < 128 <=> r = 0) /\ (b < 128 <=> t = 0)
  BY <1>3, <1>4, CarryDigits
<1>7. 285 \in Twelve /\ 0 \in Twelve
  BY DEF Twelve
<1>8. Xor(285, 285) = 0 /\ Xor(0, 0) = 0 /\ Xor(0, 285) = 285 /\ Xor(285, 0) = 285
  BY <1>7, XorInverse, XorNeutral
<1> QED BY <1>1, <1>5, <1>6, <1>8 DEF Carry

(* Doubling is linear. *)
LEMMA DoubleLinear ==
  ASSUME NEW a \in Field, NEW b \in Field
  PROVE  Double(Xor(a, b)) = Xor(Double(a), Double(b))
<1>1. PICK x \in Field : x = Xor(a, b)
  BY FieldXor
<1>2. 2 * a \in Twelve /\ 2 * b \in Twelve /\ Carry(a) \in Twelve /\ Carry(b) \in Twelve
  BY ShiftedDigits, CarryDigits
<1>3. Double(x) = Xor(Xor(2 * a, 2 * b), Xor(Carry(a), Carry(b)))
  BY <1>1, DoubleIs, XorShifted, CarryLinear
<1>4. Xor(Xor(2 * a, 2 * b), Xor(Carry(a), Carry(b))) = Xor(Xor(2 * a, Carry(a)), Xor(2 * b, Carry(b)))
  BY <1>2, Interchange
<1> QED BY <1>1, <1>3, <1>4, DoubleIs

-----------------------------------------------------------------------------
(* The product, as the last of nine values. *)

LEMMA UpTo ==
  ASSUME NEW n \in Nat, NEW T, 0 \in T, \A k \in 0..n - 1 : k \in T => k + 1 \in T
  PROVE  0..n \subseteq T
<1> DEFINE U == {k \in Nat : k <= n => k \in T}
<1>1. 0 \in U
  OBVIOUS
<1>2. \A k \in Nat : k \in U => k + 1 \in U
  OBVIOUS
<1> HIDE DEF U
<1>3. Nat \subseteq U
  BY <1>1, <1>2, Induction
<1> QED BY <1>3 DEF U

(* The values of a loop with n rounds. *)
Iterates(f, step, x, n) == f[0] = x /\ \A k \in 1..n : f[k] = step[<<k, f[k - 1]>>]

LEMMA IterationExists ==
  ASSUME NEW S, NEW x \in S, NEW step \in [Nat \X S -> S], NEW n \in Nat
  PROVE  \E f \in [0..n -> S] : Iterates(f, step, x, n)
<1> DEFINE T == {m \in Nat : \E f \in [0..m -> S] : Iterates(f, step, x, m)}
<1>1. 0 \in T
  <2> DEFINE f == [k \in 0..0 |-> x]
  <2>1. f \in [0..0 -> S] /\ Iterates(f, step, x, 0)
    BY DEF Iterates
  <2> QED BY <2>1
<1>2. ASSUME NEW m \in Nat, m \in T PROVE m + 1 \in T
  <2>1. PICK g \in [0..m -> S] : Iterates(g, step, x, m)
    BY <1>2
  <2> DEFINE y == step[<<m + 1, g[m]>>]
             f == [k \in 0..m + 1 |-> IF k = m + 1 THEN y ELSE g[k]]
  <2>2. y \in S
    <3>1. g[m] \in S
      BY <2>1
    <3> QED BY <3>1
  <2>3. f \in [0..m + 1 -> S] /\ f[m + 1] = y /\ \A k \in 0..m : f[k] = g[k]
    BY <2>1, <2>2
  <2> HIDE DEF f, y
  <2>4. f[0] = x
    BY <2>1, <2>3 DEF Iterates
  <2>5. \A k \in 1..m + 1 : f[k] = step[<<k, f[k - 1]>>]
    <3> TAKE k \in 1..m + 1
    <3>1. CASE k = m + 1
      <4>1. k - 1 = m /\ m \in 0..m
        BY <3>1
      <4>2. f[k - 1] = g[m] /\ f[k] = y
        BY <2>3, <3>1, <4>1
      <4> QED BY <3>1, <4>2 DEF y
    <3>2. CASE k \in 1..m
      <4>1. f[k] = g[k] /\ f[k - 1] = g[k - 1] /\ g[k] = step[<<k, g[k - 1]>>]
        BY <2>1, <2>3, <3>2 DEF Iterates
      <4> QED BY <4>1
    <3> QED BY <3>1, <3>2
  <2> QED BY <2>3, <2>4, <2>5 DEF Iterates
<1> HIDE DEF T
<1>3. n \in T
  BY <1>1, <1>2, Induction
<1> QED BY <1>3 DEF T

\* The k-th bit of a byte from the left.
BitAt(b, k) == (b \div 2^(8 - k)) % 2

LEMMA BitAts ==
  ASSUME NEW b \in Field
  PROVE  /\ BitAt(b, 1) = Odd(Mid(b) \div 8) /\ BitAt(b, 2) = Odd(Mid(b) \div 4)
         /\ BitAt(b, 3) = Odd(Mid(b) \div 2) /\ BitAt(b, 4) = Odd(Mid(b))
         /\ BitAt(b, 5) = Odd(Lo(b) \div 8) /\ BitAt(b, 6) = Odd(Lo(b) \div 4)
         /\ BitAt(b, 7) = Odd(Lo(b) \div 2) /\ BitAt(b, 8) = Odd(Lo(b))
<1>1. /\ 2^(8 - 1) = 128 /\ 2^(8 - 2) = 64 /\ 2^(8 - 3) = 32 /\ 2^(8 - 4) = 16
      /\ 2^(8 - 5) = 8 /\ 2^(8 - 6) = 4 /\ 2^(8 - 7) = 2 /\ 2^(8 - 8) = 1
  OBVIOUS
<1>2. PICK p \in 0..15, q \in 0..15 : b = p + 16 * q /\ Lo(b) = p /\ Mid(b) = q
  <2>1. b = Lo(b) + 16 * Mid(b) + 256 * Hi(b) /\ Hi(b) = 0
    BY FieldDigits, FromDigits
  <2> QED BY <2>1, FieldDigits, DigitTypes
<1>3. /\ b \div 128 = q \div 8 /\ b \div 64 = q \div 4 /\ b \div 32 = q \div 2 /\ b \div 16 = q
  BY <1>2
<1>4. /\ (b \div 8) % 2 = (p \div 8) % 2 /\ (b \div 4) % 2 = (p \div 4) % 2
      /\ (b \div 2) % 2 = (p \div 2) % 2 /\ (b \div 1) % 2 = p % 2
  BY <1>2
<1> QED BY <1>1, <1>2, <1>3, <1>4 DEF BitAt, Odd

LEMMA BitAtType ==
  ASSUME NEW b \in Field, NEW k \in 1..8
  PROVE  BitAt(b, k) \in {0, 1}
<1>1. \A x \in Int : Odd(x) \in {0, 1}
  BY DEF Odd
<1>2. Lo(b) \in 0..15 /\ Mid(b) \in 0..15
  BY FieldDigits, DigitTypes
<1>3. k \in {1, 2, 3, 4, 5, 6, 7, 8}
  OBVIOUS
<1> QED BY <1>1, <1>2, <1>3, BitAts

LEMMA BitAtXor ==
  ASSUME NEW b \in Field, NEW c \in Field, NEW k \in 1..8
  PROVE  BitAt(Xor(b, c), k) = Odd(BitAt(b, k) + BitAt(c, k))
<1>1. PICK x \in Field : x = Xor(b, c)
  BY FieldXor
<1>2. /\ Lo(b) \in 0..15 /\ Mid(b) \in 0..15 /\ Lo(c) \in 0..15 /\ Mid(c) \in 0..15
      /\ Lo(x) = XorBits(Lo(b), Lo(c)) /\ Mid(x) = XorBits(Mid(b), Mid(c))
  BY <1>1, FieldDigits, XorHasDigits, DigitTypes
<1>3. /\ Odd(Lo(x)) = Odd(Odd(Lo(b)) + Odd(Lo(c)))
      /\ Odd(Lo(x) \div 2) = Odd(Odd(Lo(b) \div 2) + Odd(Lo(c) \div 2))
      /\ Odd(Lo(x) \div 4) = Odd(Odd(Lo(b) \div 4) + Odd(Lo(c) \div 4))
      /\ Odd(Lo(x) \div 8) = Odd(Odd(Lo(b) \div 8) + Odd(Lo(c) \div 8))
  BY <1>2, XorBitsBits
<1>4. /\ Odd(Mid(x)) = Odd(Odd(Mid(b)) + Odd(Mid(c)))
      /\ Odd(Mid(x) \div 2) = Odd(Odd(Mid(b) \div 2) + Odd(Mid(c) \div 2))
      /\ Odd(Mid(x) \div 4) = Odd(Odd(Mid(b) \div 4) + Odd(Mid(c) \div 4))
      /\ Odd(Mid(x) \div 8) = Odd(Odd(Mid(b) \div 8) + Odd(Mid(c) \div 8))
  BY <1>2, XorBitsBits
<1>5. k \in {1, 2, 3, 4, 5, 6, 7, 8}
  OBVIOUS
<1> QED BY <1>1, <1>3, <1>4, <1>5, BitAts

(* init_rs_char's product, bit by bit of the second factor. *)
Multiplies(f, a, b) ==
  /\ f \in [0..8 -> Field] /\ f[0] = 0
  /\ \A k \in 1..8 : f[k] = Xor(Double(f[k - 1]), a * BitAt(b, k))
MultipliesIn(f, a, b) ==
  f = [k \in 0..8 |-> IF k = 0 THEN 0 ELSE Xor(Double(f[k - 1]), a * ((b \div 2^(8 - k)) % 2))]

LEMMA Taken ==
  ASSUME NEW a \in Field, NEW t \in {0, 1}
  PROVE  a * t \in Field /\ a * 0 = 0 /\ a * 1 = a
BY DEF Field

LEMMA MultipliesExists ==
  ASSUME NEW a \in Field, NEW b \in Field
  PROVE  \E f : Multiplies(f, a, b)
<1> DEFINE step == [p \in Nat \X Field |-> IF p[1] \in 1..8 THEN Xor(Double(p[2]), a * BitAt(b, p[1])) ELSE 0]
<1>1. 0 \in Field
  BY DEF Field
<1>2. \A k \in Nat, x \in Field : (IF k \in 1..8 THEN Xor(Double(x), a * BitAt(b, k)) ELSE 0) \in Field
  <2> TAKE k \in Nat, x \in Field
  <2>1. CASE k \in 1..8
    <3>1. a * BitAt(b, k) \in Field
      BY <2>1, BitAtType, Taken
    <3> QED BY <2>1, <3>1, DoubleIs, FieldXor
  <2>2. CASE k \notin 1..8
    BY <1>1, <2>2
  <2> QED BY <2>1, <2>2
<1>3. step \in [Nat \X Field -> Field]
  BY <1>2
<1>4. \A k \in 1..8, x \in Field : step[<<k, x>>] = Xor(Double(x), a * BitAt(b, k))
  OBVIOUS
<1> HIDE DEF step
<1>5. PICK f \in [0..8 -> Field] : Iterates(f, step, 0, 8)
  <2>1. 8 \in Nat
    OBVIOUS
  <2> QED BY <1>1, <1>3, <2>1, IterationExists
<1>6. \A k \in 1..8 : f[k] = Xor(Double(f[k - 1]), a * BitAt(b, k))
  <2> TAKE k \in 1..8
  <2>1. f[k - 1] \in Field
    BY <1>5
  <2>2. f[k] = step[<<k, f[k - 1]>>]
    BY <1>5 DEF Iterates
  <2> QED BY <1>4, <2>1, <2>2
<1> QED BY <1>5, <1>6 DEF Multiplies, Iterates

LEMMA MultipliesBoth ==
  ASSUME NEW a \in Field, NEW b \in Field, NEW f
  PROVE  /\ Multiplies(f, a, b) => MultipliesIn(f, a, b)
         /\ MultipliesIn(f, a, b) => Multiplies(f, a, b)
<1>1. ASSUME Multiplies(f, a, b) PROVE MultipliesIn(f, a, b)
  <2>1. f = [k \in 0..8 |-> f[k]]
    BY <1>1 DEF Multiplies
  <2>2. \A k \in 0..8 : f[k] = IF k = 0 THEN 0 ELSE Xor(Double(f[k - 1]), a * ((b \div 2^(8 - k)) % 2))
    <3> TAKE k \in 0..8
    <3>1. k = 0 \/ k \in 1..8
      OBVIOUS
    <3> QED BY <1>1, <3>1, Zenon DEF Multiplies, BitAt
  <2> QED BY <2>1, <2>2, Zenon DEF MultipliesIn
<1>2. ASSUME MultipliesIn(f, a, b) PROVE Multiplies(f, a, b)
  <2>1. \A k \in 0..8 : f[k] = IF k = 0 THEN 0 ELSE Xor(Double(f[k - 1]), a * ((b \div 2^(8 - k)) % 2))
    BY <1>2, Zenon DEF MultipliesIn
  <2>2. f[0] = 0
    BY <2>1
  <2>3. \A k \in 1..8 : f[k] = Xor(Double(f[k - 1]), a * BitAt(b, k))
    <3> TAKE k \in 1..8
    <3>1. k \in 0..8 /\ k # 0
      OBVIOUS
    <3> QED BY <2>1, <3>1, Zenon DEF BitAt
  <2> DEFINE T == {k \in 0..8 : f[k] \in Field}
  <2>4. 0 \in T
    BY <2>2 DEF Field
  <2>5. ASSUME NEW k \in 0..7, k \in T PROVE k + 1 \in T
    <3>1. f[k] \in Field /\ k + 1 \in 1..8 /\ (k + 1) - 1 = k
      BY <2>5
    <3>2. f[k + 1] = Xor(Double(f[k]), a * BitAt(b, k + 1))
      BY <2>3, <3>1
    <3>3. a * BitAt(b, k + 1) \in Field
      BY <3>1, BitAtType, Taken
    <3> QED BY <3>1, <3>2, <3>3, DoubleIs, FieldXor
  <2> HIDE DEF T
  <2>6. 0..8 \subseteq T
    <3>1. 8 \in Nat /\ 8 - 1 = 7
      OBVIOUS
    <3> QED BY <2>4, <2>5, <3>1, UpTo
  <2>7. f \in [0..8 -> Field]
    <3>1. f = [k \in 0..8 |-> IF k = 0 THEN 0 ELSE Xor(Double(f[k - 1]), a * ((b \div 2^(8 - k)) % 2))]
      BY <1>2, Zenon DEF MultipliesIn
    <3>2. DOMAIN f = 0..8 /\ f = [k \in 0..8 |-> f[k]]
      BY <3>1
    <3> QED BY <2>6, <3>2 DEF T
  <2> QED BY <2>2, <2>3, <2>7 DEF Multiplies
<1> QED BY <1>1, <1>2

LEMMA MultipliesZero ==
  ASSUME NEW a \in Field, NEW b \in Field, NEW f, Multiplies(f, a, b), a = 0 \/ b = 0
  PROVE  f[8] = 0
<1> DEFINE T == {k \in 0..8 : f[k] = 0}
<1>1. 0 \in T
  BY DEF Multiplies
<1>2. ASSUME NEW k \in 0..7, k \in T PROVE k + 1 \in T
  <2>1. k + 1 \in 1..8 /\ (k + 1) - 1 = k /\ f[k] = 0
    BY <1>2
  <2>2. a * BitAt(b, k + 1) = 0
    <3>1. CASE a = 0
      BY <2>1, <3>1, BitAtType
    <3>2. CASE b = 0
      <4>1. Lo(0) = 0 /\ Mid(0) = 0 /\ Odd(0) = 0 /\ 0 \div 2 = 0 /\ 0 \div 4 = 0 /\ 0 \div 8 = 0
        BY DEF Lo, Mid, Odd
      <4>2. k + 1 \in {1, 2, 3, 4, 5, 6, 7, 8}
        OBVIOUS
      <4>3. BitAt(b, k + 1) = 0
        BY <3>2, <4>1, <4>2, BitAts
      <4> QED BY <4>3, Taken
    <3> QED BY <3>1, <3>2
  <2>3. Double(0) = 0 /\ 0 \in Twelve
    BY DEF Double, Twelve
  <2>4. f[k + 1] = Xor(0, 0)
    BY <2>1, <2>2, <2>3 DEF Multiplies
  <2> QED BY <2>1, <2>3, <2>4, XorNeutral
<1> HIDE DEF T
<1>3. 0..8 \subseteq T
  <2>1. 8 \in Nat /\ 8 - 1 = 7
    OBVIOUS
  <2> QED BY <1>1, <1>2, <2>1, UpTo
<1> QED BY <1>3 DEF T

LEMMA ProductIs ==
  ASSUME NEW a \in Field, NEW b \in Field
  PROVE  \E f : Multiplies(f, a, b) /\ Product(a, b) = f[8]
<1> DEFINE sum == CHOOSE f : MultipliesIn(f, a, b)
<1>1. Product(a, b) = IF a = 0 \/ b = 0 THEN 0 ELSE sum[8]
  BY Zenon DEF Product, MultipliesIn
<1>2. MultipliesIn(sum, a, b)
  BY MultipliesExists, MultipliesBoth, Zenon
<1> HIDE DEF sum
<1>3. Multiplies(sum, a, b)
  BY <1>2, MultipliesBoth, Zenon
<1>4. a = 0 \/ b = 0 => sum[8] = 0
  BY <1>3, MultipliesZero, Zenon
<1> QED BY <1>1, <1>3, <1>4

-----------------------------------------------------------------------------
(* Its laws. *)

LEMMA ProductType ==
  ASSUME NEW a \in Field, NEW b \in Field
  PROVE  Product(a, b) \in Field
<1>1. PICK f : Multiplies(f, a, b) /\ Product(a, b) = f[8]
  BY ProductIs
<1>2. f \in [0..8 -> Field]
  BY <1>1 DEF Multiplies
<1>3. 8 \in 0..8
  OBVIOUS
<1> QED BY <1>1, <1>2, <1>3

(* Two loops whose rounds correspond end with corresponding values. *)
LEMMA SameRounds ==
  ASSUME NEW T, 0 \in T, \A k \in 1..8 : k - 1 \in T => k \in T
  PROVE  8 \in T
<1>1. 1 - 1 = 0 /\ 2 - 1 = 1 /\ 3 - 1 = 2 /\ 4 - 1 = 3 /\ 5 - 1 = 4 /\ 6 - 1 = 5 /\ 7 - 1 = 6 /\ 8 - 1 = 7
  OBVIOUS
<1>2. 1 \in 1..8 /\ 2 \in 1..8 /\ 3 \in 1..8 /\ 4 \in 1..8 /\ 5 \in 1..8 /\ 6 \in 1..8 /\ 7 \in 1..8 /\ 8 \in 1..8
  OBVIOUS
<1> QED BY <1>1, <1>2, SMT

LEMMA Round ==
  ASSUME NEW f, NEW a \in Field, NEW b \in Field, Multiplies(f, a, b), NEW k \in 1..8
  PROVE  /\ f[k - 1] \in Field /\ f[k] \in Field /\ a * BitAt(b, k) \in Field
         /\ f[k] = Xor(Double(f[k - 1]), a * BitAt(b, k)) /\ Double(f[k - 1]) \in Field
<1>1. k - 1 \in 0..8 /\ k \in 0..8
  OBVIOUS
<1>2. a * BitAt(b, k) \in Field
  BY BitAtType, Taken
<1> QED BY <1>1, <1>2, DoubleIs DEF Multiplies

LEMMA FieldInTwelve == Field \subseteq Twelve
BY DEF Field, Twelve

LEMMA TakenXor ==
  ASSUME NEW a \in Field, NEW b \in Field, NEW t \in {0, 1}
  PROVE  Xor(a, b) * t = Xor(a * t, b * t)
<1>1. Xor(a, b) \in Field /\ Xor(0, 0) = 0
  <2>1. 0 \in Twelve
    BY DEF Twelve
  <2> QED BY <2>1, FieldXor, XorNeutral
<1>2. CASE t = 0
  <2>1. Xor(a, b) * t = 0 /\ a * t = 0 /\ b * t = 0
    BY <1>1, <1>2, Taken
  <2> QED BY <1>1, <2>1
<1>3. CASE t = 1
  <2>1. Xor(a, b) * t = Xor(a, b) /\ a * t = a /\ b * t = b
    BY <1>1, <1>3, Taken
  <2> QED BY <2>1
<1> QED BY <1>2, <1>3

(* A product is linear in its first factor. *)
LEMMA ProductLinear ==
  ASSUME NEW a \in Field, NEW b \in Field, NEW x \in Field
  PROVE  Product(Xor(a, b), x) = Xor(Product(a, x), Product(b, x))
<1>1. PICK f : Multiplies(f, a, x) /\ Product(a, x) = f[8]
  BY ProductIs
<1>2. PICK g : Multiplies(g, b, x) /\ Product(b, x) = g[8]
  BY ProductIs
<1>3. PICK c \in Field : c = Xor(a, b)
  BY FieldXor
<1>4. PICK h : Multiplies(h, c, x) /\ Product(c, x) = h[8]
  BY ProductIs
<1> DEFINE T == {k \in 0..8 : h[k] = Xor(f[k], g[k])}
<1>5. 0 \in T
  <2>1. 0 \in Twelve
    BY DEF Twelve
  <2>2. Xor(0, 0) = 0
    BY <2>1, XorNeutral
  <2>3. f[0] = 0 /\ g[0] = 0 /\ h[0] = 0
    BY <1>1, <1>2, <1>4 DEF Multiplies
  <2>4. h[0] = Xor(f[0], g[0])
    BY <2>2, <2>3
  <2> QED BY <2>4
<1>6. ASSUME NEW k \in 1..8, k - 1 \in T PROVE k \in T
  <2>1. PICK p \in Field, q \in Field, r \in Field, s \in Field :
           p = f[k - 1] /\ q = g[k - 1] /\ r = a * BitAt(x, k) /\ s = b * BitAt(x, k)
    BY <1>1, <1>2, Round
  <2>2. f[k] = Xor(Double(p), r) /\ g[k] = Xor(Double(q), s)
    BY <1>1, <1>2, <2>1, Round
  <2>3. h[k - 1] = Xor(p, q)
    BY <1>6, <2>1
  <2>4. h[k] = Xor(Double(Xor(p, q)), c * BitAt(x, k))
    BY <1>4, <2>3, Round
  <2>5. c * BitAt(x, k) = Xor(r, s)
    BY <1>3, <2>1, TakenXor, BitAtType
  <2>6. Double(p) \in Field /\ Double(q) \in Field /\ Double(Xor(p, q)) = Xor(Double(p), Double(q))
    BY DoubleLinear, DoubleIs
  <2>7. Double(p) \in Twelve /\ Double(q) \in Twelve /\ r \in Twelve /\ s \in Twelve
    BY <2>6, FieldInTwelve
  <2>8. Xor(Xor(Double(p), Double(q)), Xor(r, s)) = Xor(Xor(Double(p), r), Xor(Double(q), s))
    BY <2>7, Interchange
  <2>9. h[k] = Xor(f[k], g[k])
    BY <2>2, <2>4, <2>5, <2>6, <2>8
  <2> QED BY <2>9
<1> HIDE DEF T
<1>7. 8 \in T
  BY <1>5, <1>6, SameRounds
<1> QED BY <1>1, <1>2, <1>3, <1>4, <1>7 DEF T

LEMMA ProductDoubles ==
  ASSUME NEW a \in Field, NEW x \in Field
  PROVE  Product(Double(a), x) = Double(Product(a, x))
<1>1. PICK f : Multiplies(f, a, x) /\ Product(a, x) = f[8]
  BY ProductIs
<1>2. PICK c \in Field : c = Double(a)
  BY DoubleIs
<1>3. PICK h : Multiplies(h, c, x) /\ Product(c, x) = h[8]
  BY ProductIs
<1>4. Double(0) = 0
  BY DEF Double
<1> DEFINE T == {k \in 0..8 : h[k] = Double(f[k])}
<1>5. 0 \in T
  <2>1. h[0] = Double(f[0])
    BY <1>1, <1>3, <1>4 DEF Multiplies
  <2> QED BY <2>1
<1>6. ASSUME NEW k \in 1..8, k - 1 \in T PROVE k \in T
  <2>1. PICK p \in Field, r \in Field, t \in {0, 1} :
           p = f[k - 1] /\ r = a * BitAt(x, k) /\ t = BitAt(x, k)
    BY <1>1, Round, BitAtType
  <2>2. f[k] = Xor(Double(p), r)
    BY <1>1, <2>1, Round
  <2>3. h[k - 1] = Double(p)
    BY <1>6, <2>1
  <2>4. h[k] = Xor(Double(Double(p)), c * t)
    BY <1>3, <2>1, <2>3, Round
  <2>5. c * t = Double(r)
    <3>1. CASE t = 0
      <4>1. c * t = 0 /\ r = 0
        BY <2>1, <3>1, Taken
      <4> QED BY <1>4, <4>1
    <3>2. CASE t = 1
      <4>1. c * t = c /\ r = a
        BY <2>1, <3>2, Taken
      <4> QED BY <1>2, <4>1
    <3> QED BY <3>1, <3>2
  <2>6. Double(p) \in Field
    BY DoubleIs
  <2>7. Double(Xor(Double(p), r)) = Xor(Double(Double(p)), Double(r))
    BY <2>6, DoubleLinear
  <2>8. h[k] = Double(f[k])
    BY <2>2, <2>4, <2>5, <2>7
  <2> QED BY <2>8
<1> HIDE DEF T
<1>7. 8 \in T
  BY <1>5, <1>6, SameRounds
<1> QED BY <1>1, <1>2, <1>3, <1>7 DEF T

(* It makes no difference by which of two factors one multiplies first. *)
LEMMA ProductOrder ==
  ASSUME NEW a \in Field, NEW x \in Field, NEW y \in Field
  PROVE  Product(Product(a, x), y) = Product(Product(a, y), x)
<1>1. PICK f : Multiplies(f, a, y) /\ Product(a, y) = f[8]
  BY ProductIs
<1>2. PICK c \in Field : c = Product(a, x)
  BY ProductType
<1>3. PICK h : Multiplies(h, c, y) /\ Product(c, y) = h[8]
  BY ProductIs
<1>4. Product(0, x) = 0
  BY DEF Product
<1> DEFINE T == {k \in 0..8 : h[k] = Product(f[k], x)}
<1>5. 0 \in T
  <2>1. h[0] = Product(f[0], x)
    BY <1>1, <1>3, <1>4 DEF Multiplies
  <2> QED BY <2>1
<1>6. ASSUME NEW k \in 1..8, k - 1 \in T PROVE k \in T
  <2>1. PICK p \in Field, r \in Field, t \in {0, 1} :
           p = f[k - 1] /\ r = a * BitAt(y, k) /\ t = BitAt(y, k)
    BY <1>1, Round, BitAtType
  <2>2. f[k] = Xor(Double(p), r)
    BY <1>1, <2>1, Round
  <2>3. h[k - 1] = Product(p, x)
    BY <1>6, <2>1
  <2>4. h[k] = Xor(Double(Product(p, x)), c * t)
    BY <1>3, <2>1, <2>3, Round
  <2>5. c * t = Product(r, x)
    <3>1. CASE t = 0
      <4>1. c * t = 0 /\ r = 0
        BY <2>1, <3>1, Taken
      <4> QED BY <1>4, <4>1
    <3>2. CASE t = 1
      <4>1. c * t = c /\ r = a
        BY <2>1, <3>2, Taken
      <4> QED BY <1>2, <4>1
    <3> QED BY <3>1, <3>2
  <2>6. Double(p) \in Field /\ Double(Product(p, x)) = Product(Double(p), x)
    BY DoubleIs, ProductDoubles
  <2>7. Product(Xor(Double(p), r), x) = Xor(Product(Double(p), x), Product(r, x))
    BY <2>6, ProductLinear
  <2>8. h[k] = Product(f[k], x)
    BY <2>2, <2>4, <2>5, <2>6, <2>7
  <2> QED BY <2>8
<1> HIDE DEF T
<1>7. 8 \in T
  BY <1>5, <1>6, SameRounds
<1> QED BY <1>1, <1>2, <1>3, <1>7 DEF T

\* A bit goes into the lowest place, which doubling leaves empty.
LEMMA BitEnters ==
  ASSUME NEW m \in 0..127, NEW t \in {0, 1}
  PROVE  Xor(Double(m), t) = 2 * m + t
<1>1. m \in Field /\ t \in Field /\ Double(m) = 2 * m
  BY DEF Field, Double
<1>2. 2 * m \in Field
  BY DEF Field
<1>3. PICK p \in 0..15, q \in 0..15 : p = Lo(m) /\ q = Mid(m)
  BY <1>1, FieldDigits, DigitTypes
<1>4. Lo(2 * m) = 2 * (p % 8) + 0 /\ Lo(2 * m) \in 0..15 /\ Mid(2 * m) \in 0..15 /\ Hi(2 * m) = 0
  <2>1. 2 * m \in Twelve /\ Hi(2 * m) = 0
    BY <1>2, FieldDigits
  <2>2. Lo(2 * m) = 2 * (p % 8) + 0
    BY <1>1, <1>3, ShiftedDigits
  <2> QED BY <2>1, <2>2, DigitTypes
<1>5. Lo(t) = 2 * (0 % 8) + t /\ Mid(t) = 0 /\ Hi(t) = 0
  BY DEF Lo, Mid, Hi
<1>6. XorBits(p, 0) = p /\ Odd(0 + t) = t
  BY XorBitsLaws DEF Odd
<1>7. Lo(Xor(2 * m, t)) = 2 * (p % 8) + t
  <2>1. Lo(Xor(2 * m, t)) = XorBits(2 * (p % 8) + 0, 2 * (0 % 8) + t)
    BY <1>1, <1>2, <1>4, <1>5, FieldInTwelve, XorHasDigits
  <2>2. XorBits(2 * (p % 8) + 0, 2 * (0 % 8) + t) = 2 * (XorBits(p, 0) % 8) + Odd(0 + t)
    <3>1. 0 \in 0..15 /\ 0 \in {0, 1}
      OBVIOUS
    <3> QED BY <3>1, ShiftBits
  <2> QED BY <1>6, <2>1, <2>2
<1>8. Mid(Xor(2 * m, t)) = Mid(2 * m) /\ Hi(Xor(2 * m, t)) = 0
  <2>1. Mid(Xor(2 * m, t)) = XorBits(Mid(2 * m), 0) /\ Hi(Xor(2 * m, t)) = XorBits(0, 0)
    BY <1>1, <1>2, <1>4, <1>5, FieldInTwelve, XorHasDigits
  <2> QED BY <1>4, <2>1, XorBitsLaws
<1>9. Xor(2 * m, t) \in Twelve /\ Xor(2 * m, t) = Lo(Xor(2 * m, t)) + 16 * Mid(Xor(2 * m, t)) + 256 * Hi(Xor(2 * m, t))
  BY <1>1, <1>2, FieldInTwelve, XorType, FromDigits
<1>10. 2 * m = Lo(2 * m) + 16 * Mid(2 * m) + 256 * Hi(2 * m)
  BY <1>2, FieldInTwelve, FromDigits
<1>11. PICK u \in Int, v \in Int : u = 2 * (p % 8) /\ v = Mid(2 * m)
  BY <1>4
<1>12. Xor(2 * m, t) = u + t + 16 * v
  <2>1. PICK y : y = Xor(2 * m, t)
    OBVIOUS
  <2>2. y = Lo(y) + 16 * Mid(y) + 256 * Hi(y) /\ Lo(y) = u + t /\ Mid(y) = v /\ Hi(y) = 0
    BY <1>7, <1>8, <1>9, <1>11, <2>1
  <2> QED BY <2>1, <2>2
<1>13. 2 * m = u + 16 * v
  BY <1>4, <1>10, <1>11
<1> QED BY <1>1, <1>12, <1>13

(* One is neutral: the product takes over the bits of the second factor. *)
LEMMA ProductOfOne ==
  ASSUME NEW b \in Field
  PROVE  Product(1, b) = b
<1>1. 1 \in Field /\ 0 \in Field
  BY DEF Field
<1>2. PICK f : Multiplies(f, 1, b) /\ Product(1, b) = f[8]
  BY <1>1, ProductIs
<1> DEFINE T == {k \in 0..8 : f[k] = b \div 2^(8 - k)}
<1>3. 0 \in T
  <2>1. 2^(8 - 0) = 256
    OBVIOUS
  <2>2. b \div 256 = 0
    BY DEF Field
  <2>3. f[0] = b \div 2^(8 - 0)
    BY <1>2, <2>1, <2>2 DEF Multiplies
  <2> QED BY <2>3
<1>4. ASSUME NEW k \in 1..8, k - 1 \in T PROVE k \in T
  <2>1. PICK t \in {0, 1} : t = BitAt(b, k)
    BY BitAtType
  <2>2. f[k] = Xor(Double(f[k - 1]), t)
    <3>1. 1 * BitAt(b, k) = t
      BY <2>1
    <3> QED BY <1>1, <1>2, <3>1, Round
  <2>3. f[k - 1] = b \div 2^(8 - (k - 1))
    BY <1>4
  <2>4. /\ 2^0 = 1 /\ 2^1 = 2 /\ 2^2 = 4 /\ 2^3 = 8 /\ 2^4 = 16 /\ 2^5 = 32 /\ 2^6 = 64 /\ 2^7 = 128 /\ 2^8 = 256
    OBVIOUS
  <2>5. PICK d \in {1, 2, 4, 8, 16, 32, 64, 128} : 2^(8 - k) = d /\ 2^(8 - (k - 1)) = 2 * d
    <3>1. PICK e \in {0, 1, 2, 3, 4, 5, 6, 7} : 8 - k = e /\ 8 - (k - 1) = e + 1
      OBVIOUS
    <3>2. /\ 0 + 1 = 1 /\ 1 + 1 = 2 /\ 2 + 1 = 3 /\ 3 + 1 = 4 /\ 4 + 1 = 5 /\ 5 + 1 = 6 /\ 6 + 1 = 7 /\ 7 + 1 = 8
      OBVIOUS
    <3>3. \E d \in {1, 2, 4, 8, 16, 32, 64, 128} : 2^e = d /\ 2^(e + 1) = 2 * d
      <4>1. CASE e = 0
        <5>1. 2^e = 1 /\ 2^(e + 1) = 2 /\ 2 = 2 * 1
          BY <2>4, <3>2, <4>1
        <5> QED BY <5>1, Zenon
      <4>2. CASE e = 1
        <5>1. 2^e = 2 /\ 2^(e + 1) = 4 /\ 4 = 2 * 2
          BY <2>4, <3>2, <4>2
        <5> QED BY <5>1, Zenon
      <4>3. CASE e = 2
        <5>1. 2^e = 4 /\ 2^(e + 1) = 8 /\ 8 = 2 * 4
          BY <2>4, <3>2, <4>3
        <5> QED BY <5>1, Zenon
      <4>4. CASE e = 3
        <5>1. 2^e = 8 /\ 2^(e + 1) = 16 /\ 16 = 2 * 8
          BY <2>4, <3>2, <4>4
        <5> QED BY <5>1, Zenon
      <4>5. CASE e = 4
        <5>1. 2^e = 16 /\ 2^(e + 1) = 32 /\ 32 = 2 * 16
          BY <2>4, <3>2, <4>5
        <5> QED BY <5>1, Zenon
      <4>6. CASE e = 5
        <5>1. 2^e = 32 /\ 2^(e + 1) = 64 /\ 64 = 2 * 32
          BY <2>4, <3>2, <4>6
        <5> QED BY <5>1, Zenon
      <4>7. CASE e = 6
        <5>1. 2^e = 64 /\ 2^(e + 1) = 128 /\ 128 = 2 * 64
          BY <2>4, <3>2, <4>7
        <5> QED BY <5>1, Zenon
      <4>8. CASE e = 7
        <5>1. 2^e = 128 /\ 2^(e + 1) = 256 /\ 256 = 2 * 128
          BY <2>4, <3>2, <4>8
        <5> QED BY <5>1, Zenon
      <4> QED BY <4>1, <4>2, <4>3, <4>4, <4>5, <4>6, <4>7, <4>8
    <3> QED BY <3>1, <3>3
  <2>6. b \div (2 * d) \in 0..127 /\ b \div d = 2 * (b \div (2 * d)) + ((b \div d) % 2)
    BY DEF Field
  <2>7. t = (b \div d) % 2
    BY <2>1, <2>5 DEF BitAt
  <2>8. f[k] = b \div d
    BY <2>2, <2>3, <2>5, <2>6, <2>7, BitEnters
  <2> QED BY <2>5, <2>8
<1> HIDE DEF T
<1>5. 8 \in T
  BY <1>3, <1>4, SameRounds
<1>6. f[8] = b \div 1
  <2>1. 2^(8 - 8) = 1
    OBVIOUS
  <2> QED BY <1>5, <2>1 DEF T
<1> QED BY <1>2, <1>6 DEF Field

(* Products of the field: init_rs_char and encode_rs_char add the logarithms of
   two bytes in whichever order (rscode.c:67-73, 190-203, 306-316), and so may. *)
THEOREM ProductCommutes ==
  ASSUME NEW a \in Field, NEW b \in Field
  PROVE  Product(a, b) = Product(b, a)
<1>1. 1 \in Field
  BY DEF Field
<1>2. Product(Product(1, a), b) = Product(Product(1, b), a)
  BY <1>1, ProductOrder
<1> QED BY <1>2, ProductOfOne

(* Nor does it matter in which order three of them are multiplied, so that a factor
   of the generator multiplies each of its terms alike (rscode.c:190-203). *)
THEOREM ProductAssociates ==
  ASSUME NEW a \in Field, NEW b \in Field, NEW c \in Field
  PROVE  Product(Product(a, b), c) = Product(a, Product(b, c))
<1>1. PICK p \in Field : p = Product(b, c)
  BY ProductType
<1>2. Product(p, a) = Product(a, p)
  BY ProductCommutes
<1>3. Product(Product(b, c), a) = Product(Product(b, a), c)
  BY ProductOrder
<1>4. Product(b, a) = Product(a, b)
  BY ProductCommutes
<1> QED BY <1>1, <1>2, <1>3, <1>4

-----------------------------------------------------------------------------
(* Polynomials. *)

(* The values of a polynomial with n more coefficients c after a value w. *)
Evaluates(h, w, c, x, n) ==
  /\ h \in [0..n -> Field] /\ h[0] = w
  /\ \A k \in 1..n : h[k] = Xor(Product(h[k - 1], x), c[k])

LEMMA ProductZero ==
  ASSUME NEW x \in Field
  PROVE  Product(0, x) = 0 /\ Xor(0, x) = x /\ Xor(x, 0) = x /\ Xor(x, x) = 0 /\ 0 \in Field
<1>1. x \in Twelve
  BY FieldInTwelve
<1>2. 0 \in Field
  BY DEF Field
<1>3. Product(0, x) = 0
  BY Zenon DEF Product
<1> QED BY <1>1, <1>2, <1>3, XorNeutral, XorInverse

LEMMA EvaluationExists ==
  ASSUME NEW w \in Field, NEW x \in Field, NEW n \in Nat, NEW c, \A k \in 1..n : c[k] \in Field
  PROVE  \E h : Evaluates(h, w, c, x, n)
<1> DEFINE step == [p \in Nat \X Field |-> IF p[1] \in 1..n THEN Xor(Product(p[2], x), c[p[1]]) ELSE w]
<1>1. \A k \in Nat, y \in Field : (IF k \in 1..n THEN Xor(Product(y, x), c[k]) ELSE w) \in Field
  <2> TAKE k \in Nat, y \in Field
  <2>1. CASE k \in 1..n
    BY <2>1, ProductType, FieldXor
  <2>2. CASE k \notin 1..n
    BY <2>2
  <2> QED BY <2>1, <2>2
<1>2. step \in [Nat \X Field -> Field]
  BY <1>1
<1>3. \A k \in 1..n, y \in Field : step[<<k, y>>] = Xor(Product(y, x), c[k])
  OBVIOUS
<1> HIDE DEF step
<1>4. PICK h \in [0..n -> Field] : Iterates(h, step, w, n)
  BY <1>2, IterationExists
<1>5. \A k \in 1..n : h[k] = Xor(Product(h[k - 1], x), c[k])
  <2> TAKE k \in 1..n
  <2>1. h[k - 1] \in Field
    BY <1>4
  <2>2. h[k] = step[<<k, h[k - 1]>>]
    BY <1>4 DEF Iterates
  <2> QED BY <1>3, <2>1, <2>2
<1> QED BY <1>4, <1>5 DEF Evaluates, Iterates

LEMMA Value ==
  ASSUME NEW h, NEW w, NEW c, NEW x, NEW n \in Nat, Evaluates(h, w, c, x, n), NEW k \in 1..n
  PROVE  h[k - 1] \in Field /\ h[k] \in Field /\ h[k] = Xor(Product(h[k - 1], x), c[k])
<1>1. k - 1 \in 0..n /\ k \in 0..n
  OBVIOUS
<1> QED BY <1>1 DEF Evaluates

LEMMA EvaluationUnique ==
  ASSUME NEW w, NEW x, NEW n \in Nat, NEW c, NEW e, \A k \in 1..n : c[k] = e[k],
         NEW h, NEW g, Evaluates(h, w, c, x, n), Evaluates(g, w, e, x, n)
  PROVE  \A k \in 0..n : h[k] = g[k]
<1> DEFINE T == {k \in 0..n : h[k] = g[k]}
<1>1. 0 \in T
  BY DEF Evaluates
<1>2. \A k \in 0..n - 1 : k \in T => k + 1 \in T
  <2> TAKE k \in 0..n - 1
  <2> HAVE k \in T
  <2>1. k + 1 \in 1..n /\ (k + 1) - 1 = k /\ h[k] = g[k]
    OBVIOUS
  <2>2. h[k + 1] = Xor(Product(h[k], x), c[k + 1]) /\ g[k + 1] = Xor(Product(g[k], x), e[k + 1])
    BY <2>1 DEF Evaluates
  <2>3. c[k + 1] = e[k + 1]
    BY <2>1
  <2> QED BY <2>1, <2>2, <2>3
<1> HIDE DEF T
<1>3. 0..n \subseteq T
  BY <1>1, <1>2, UpTo
<1> QED BY <1>3 DEF T

LEMMA PowerType ==
  ASSUME NEW i \in Nat
  PROVE  Power(i) \in Field
<1> DEFINE Doubles(p) == p = [n \in 0..i |-> IF n = 0 THEN 1 ELSE Double(p[n - 1])]
           p == CHOOSE p : Doubles(p)
           step == [q \in Nat \X Field |-> Double(q[2])]
<1>1. Power(i) = p[i]
  BY Zenon DEF Power
<1>2. step \in [Nat \X Field -> Field]
  BY DoubleIs
<1>3. \A k \in Nat, y \in Field : step[<<k, y>>] = Double(y)
  OBVIOUS
<1>4. 1 \in Field
  BY DEF Field
<1> HIDE DEF step
<1>5. PICK f \in [0..i -> Field] : Iterates(f, step, 1, i)
  BY <1>2, <1>4, IterationExists
<1>6. Doubles(f)
  <2>1. f = [n \in 0..i |-> f[n]]
    BY <1>5
  <2>2. \A n \in 0..i : f[n] = IF n = 0 THEN 1 ELSE Double(f[n - 1])
    <3> TAKE n \in 0..i
    <3>1. CASE n = 0
      BY <1>5, <3>1 DEF Iterates
    <3>2. CASE n # 0
      <4>1. n \in 1..i /\ n \in Nat /\ n - 1 \in 0..i
        BY <3>2
      <4>2. f[n] = step[<<n, f[n - 1]>>] /\ f[n - 1] \in Field
        BY <1>5, <4>1 DEF Iterates
      <4> QED BY <1>3, <3>2, <4>1, <4>2
    <3> QED BY <3>1, <3>2
  <2> QED BY <2>1, <2>2, Zenon
<1>7. Doubles(p)
  BY <1>6, Zenon
<1> HIDE DEF p
<1>8. \A n \in 0..i : p[n] = IF n = 0 THEN 1 ELSE Double(p[n - 1])
  BY <1>7, Zenon
<1> DEFINE T == {k \in 0..i : p[k] \in Field}
<1>9. 0 \in T
  BY <1>4, <1>8
<1>10. \A k \in 0..i - 1 : k \in T => k + 1 \in T
  <2> TAKE k \in 0..i - 1
  <2> HAVE k \in T
  <2>1. k + 1 \in 0..i /\ k + 1 # 0 /\ (k + 1) - 1 = k /\ p[k] \in Field
    OBVIOUS
  <2>2. p[k + 1] = Double(p[k])
    BY <1>8, <2>1
  <2>3. p[k + 1] \in Field
    BY <2>1, <2>2, DoubleIs
  <2> QED BY <2>1, <2>3
<1> HIDE DEF T
<1>11. 0..i \subseteq T
  BY <1>9, <1>10, UpTo
<1> QED BY <1>1, <1>11 DEF T

\* That a polynomial, from the constant coefficient on, is zero at x.
Vanishes(g, x) ==
  \E h : Evaluates(h, 0, [k \in 1..Len(g) |-> g[Len(g) + 1 - k]], x, Len(g)) /\ h[Len(g)] = 0

LEMMA Factor ==
  ASSUME NEW a \in Field, NEW b \in Field, NEW c \in Field, NEW d \in Field, NEW x \in Field, NEW r \in Field
  PROVE  Xor(Product(Xor(a, Product(b, r)), x), Xor(c, Product(d, r)))
           = Xor(Xor(Product(a, x), c), Product(Xor(Product(b, x), d), r))
<1>1. PICK p \in Field, q \in Field, s \in Field, t \in Field, u \in Field :
         p = Product(a, x) /\ q = Product(b, r) /\ s = Product(q, x) /\ t = Product(d, r) /\ u = Product(b, x)
  BY ProductType
<1>2. Product(Xor(a, q), x) = Xor(p, s)
  BY <1>1, ProductLinear
<1>3. Product(Xor(u, d), r) = Xor(Product(u, r), t)
  BY <1>1, ProductLinear
<1>4. Product(u, r) = s
  BY <1>1, ProductOrder
<1>5. Xor(Xor(p, s), Xor(c, t)) = Xor(Xor(p, c), Xor(s, t))
  BY FieldInTwelve, Interchange
<1> QED BY <1>1, <1>2, <1>3, <1>4, <1>5

LEMMA TimesRootIs ==
  ASSUME NEW g \in Seq(Field), Len(g) > 0
  PROVE  /\ TimesRoot(g) \in Seq(Field) /\ Len(TimesRoot(g)) = Len(g) + 1 /\ TimesRoot(g)[Len(g) + 1] = 1
         /\ TimesRoot(g)[1] = Xor(0, Product(g[1], Power(Len(g) - 1)))
         /\ \A j \in 2..Len(g) : TimesRoot(g)[j] = Xor(g[j - 1], Product(g[j], Power(Len(g) - 1)))
<1> DEFINE r == Power(Len(g) - 1)
           s == [j \in 1..Len(g) |-> Xor(IF j = 1 THEN 0 ELSE g[j - 1], Product(g[j], r))]
<1>1. r \in Field
  <2>1. Len(g) - 1 \in Nat
    OBVIOUS
  <2> QED BY <2>1, PowerType
<1>2. TimesRoot(g) = Append(s, 1)
  BY Zenon DEF TimesRoot
<1> HIDE DEF r
<1>3. \A j \in 1..Len(g) : Xor(IF j = 1 THEN 0 ELSE g[j - 1], Product(g[j], r)) \in Field
  <2> TAKE j \in 1..Len(g)
  <2>1. g[j] \in Field
    OBVIOUS
  <2>2. (IF j = 1 THEN 0 ELSE g[j - 1]) \in Field
    <3>1. CASE j = 1
      BY <3>1 DEF Field
    <3>2. CASE j # 1
      <4>1. j - 1 \in 1..Len(g)
        BY <3>2
      <4> QED BY <3>2, <4>1
    <3> QED BY <3>1, <3>2
  <2> QED BY <1>1, <2>1, <2>2, ProductType, FieldXor
<1>4. s \in Seq(Field) /\ Len(s) = Len(g)
  BY <1>3
<1>5. s[1] = Xor(0, Product(g[1], r)) /\ \A j \in 2..Len(g) : s[j] = Xor(g[j - 1], Product(g[j], r))
  OBVIOUS
<1> HIDE DEF s
<1>6. 1 \in Field
  BY DEF Field
<1>7. Append(s, 1) \in Seq(Field) /\ Len(Append(s, 1)) = Len(g) + 1 /\ Append(s, 1)[Len(g) + 1] = 1
      /\ \A j \in 1..Len(g) : Append(s, 1)[j] = s[j]
  BY <1>4, <1>6
<1> QED BY <1>2, <1>5, <1>7 DEF r

LEMMA TimesRootValue ==
  ASSUME NEW g \in Seq(Field), Len(g) > 0, g[Len(g)] = 1, NEW x \in Field,
         NEW h, Evaluates(h, 0, [k \in 1..Len(g) |-> g[Len(g) + 1 - k]], x, Len(g))
  PROVE  LET z == TimesRoot(g)
         IN  \E f : /\ Evaluates(f, 0, [k \in 1..Len(z) |-> z[Len(z) + 1 - k]], x, Len(z))
                    /\ f[Len(z)] = Xor(Product(h[Len(g)], x), Product(h[Len(g)], Power(Len(g) - 1)))
<1>1. PICK n \in Nat \ {0} : n = Len(g)
  OBVIOUS
<1>2. PICK r \in Field : r = Power(n - 1)
  <2>1. n - 1 \in Nat
    OBVIOUS
  <2> QED BY <2>1, PowerType
<1>3. PICK z : z = TimesRoot(g)
  OBVIOUS
<1>4. /\ z \in Seq(Field) /\ Len(z) = n + 1 /\ z[n + 1] = 1 /\ z[1] = Xor(0, Product(g[1], r))
      /\ \A j \in 2..n : z[j] = Xor(g[j - 1], Product(g[j], r))
  BY <1>1, <1>2, <1>3, TimesRootIs
<1> DEFINE c == [k \in 1..n |-> g[n + 1 - k]]
           e == [k \in 1..n + 1 |-> z[n + 2 - k]]
<1>5. Evaluates(h, 0, c, x, n)
  BY <1>1
<1>6. /\ \A k \in 1..n : c[k] = g[n + 1 - k] /\ c[k] \in Field
      /\ \A k \in 1..n + 1 : e[k] = z[n + 2 - k] /\ e[k] \in Field
  <2>1. \A k \in 1..n : n + 1 - k \in 1..n
    OBVIOUS
  <2>2. \A k \in 1..n + 1 : n + 2 - k \in 1..n + 1
    OBVIOUS
  <2>3. (\A j \in 1..n : g[j] \in Field) /\ (\A j \in 1..n + 1 : z[j] \in Field)
    BY <1>1, <1>4
  <2> QED BY <2>1, <2>2, <2>3
<1>7. e = [k \in 1..Len(z) |-> z[Len(z) + 1 - k]]
  BY <1>4
<1> HIDE DEF c, e
<1>8. PICK f : Evaluates(f, 0, e, x, n + 1)
  <2>1. 0 \in Field /\ n + 1 \in Nat
    BY DEF Field
  <2> QED BY <1>6, <2>1, EvaluationExists
<1> DEFINE T == {k \in 0..n - 1 : f[k + 1] = Xor(h[k + 1], Product(h[k], r))}
<1>9. 0 \in T
  <2>1. h[1] = 1
    <3>1. 1 \in 1..n /\ 1 - 1 = 0 /\ n + 1 - 1 = n
      OBVIOUS
    <3>2. h[1] = Xor(Product(h[0], x), c[1]) /\ h[0] = 0
      BY <1>5, <3>1 DEF Evaluates
    <3>3. c[1] = 1
      BY <1>1, <1>6, <3>1
    <3>4. 1 \in Field
      BY DEF Field
    <3> QED BY <3>2, <3>3, <3>4, ProductZero
  <2>2. f[1] = 1
    <3>1. 1 \in 1..n + 1 /\ 1 - 1 = 0 /\ n + 2 - 1 = n + 1
      OBVIOUS
    <3>2. f[1] = Xor(Product(f[0], x), e[1]) /\ f[0] = 0
      BY <1>8, <3>1 DEF Evaluates
    <3>3. e[1] = 1
      BY <1>4, <1>6, <3>1
    <3>4. 1 \in Field
      BY DEF Field
    <3> QED BY <3>2, <3>3, <3>4, ProductZero
  <2>3. h[0] = 0 /\ 1 \in Field
    BY <1>5 DEF Evaluates, Field
  <2>4. f[0 + 1] = Xor(h[0 + 1], Product(h[0], r))
    BY <2>1, <2>2, <2>3, ProductZero
  <2> QED BY <2>4
<1>10. \A k \in 0..(n - 1) - 1 : k \in T => k + 1 \in T
  <2> TAKE k \in 0..(n - 1) - 1
  <2> HAVE k \in T
  <2>1. /\ k + 1 \in 1..n /\ k + 2 \in 1..n /\ k + 2 \in 1..n + 1 /\ n - k \in 2..n /\ n - k \in 1..n
        /\ (k + 1) - 1 = k /\ (k + 2) - 1 = k + 1
        /\ n + 2 - (k + 2) = n - k /\ n + 1 - (k + 2) = (n - k) - 1 /\ n + 1 - (k + 1) = n - k
    OBVIOUS
  <2>2. PICK a \in Field, b \in Field : a = h[k + 1] /\ b = h[k]
    BY <1>5, <2>1, Value
  <2>3. PICK p \in Field, q \in Field : p = c[k + 2] /\ q = c[k + 1]
    BY <1>6, <2>1
  <2>4. h[k + 2] = Xor(Product(a, x), p) /\ h[k + 1] = Xor(Product(b, x), q)
    BY <1>5, <2>1, <2>2, <2>3, Value
  <2>5. e[k + 2] = Xor(p, Product(q, r))
    <3>1. e[k + 2] = z[n - k] /\ p = g[(n - k) - 1] /\ q = g[n - k]
      BY <1>6, <2>1, <2>3
    <3> QED BY <1>4, <2>1, <3>1
  <2>6. f[k + 1] = Xor(a, Product(b, r))
    BY <2>2
  <2>7. f[k + 2] = Xor(Product(f[k + 1], x), e[k + 2])
    BY <1>8, <2>1 DEF Evaluates
  <2>8. f[k + 2] = Xor(Xor(Product(a, x), p), Product(Xor(Product(b, x), q), r))
    BY <2>5, <2>6, <2>7, Factor, SMTT(40)
  <2>9. f[k + 2] = Xor(h[k + 2], Product(h[k + 1], r))
    BY <2>4, <2>8
  <2>10. f[(k + 1) + 1] = Xor(h[(k + 1) + 1], Product(h[k + 1], r))
    <3>1. (k + 1) + 1 = k + 2
      OBVIOUS
    <3> QED BY <2>9, <3>1
  <2>11. k + 1 \in 0..n - 1
    OBVIOUS
  <2> QED BY <2>10, <2>11
<1> HIDE DEF T
<1>11. n - 1 \in T
  <2>1. n - 1 \in Nat /\ n - 1 \in 0..n - 1
    OBVIOUS
  <2>2. 0..n - 1 \subseteq T
    BY <1>9, <1>10, <2>1, UpTo
  <2> QED BY <2>1, <2>2
<1>12. f[n + 1] = Xor(Product(h[n], x), Product(h[n], r))
  <2>1. n \in 1..n /\ n + 1 \in 1..n + 1 /\ (n + 1) - 1 = n /\ (n - 1) + 1 = n /\ n + 2 - (n + 1) = 1 /\ n + 1 - n = 1
    OBVIOUS
  <2>2. PICK a \in Field, b \in Field, q \in Field : a = h[n] /\ b = h[n - 1] /\ q = c[n] /\ q = g[1]
    BY <1>5, <1>6, <2>1, Value
  <2>3. a = Xor(Product(b, x), q)
    BY <1>5, <2>1, <2>2 DEF Evaluates
  <2>4. f[n] = Xor(a, Product(b, r))
    BY <1>11, <2>1, <2>2 DEF T
  <2>5. f[n + 1] = Xor(Product(f[n], x), e[n + 1]) /\ e[n + 1] = Xor(0, Product(q, r))
    BY <1>4, <1>6, <1>8, <2>1, <2>2 DEF Evaluates
  <2>6. 0 \in Field
    BY DEF Field
  <2>7. f[n + 1] = Xor(Xor(Product(a, x), 0), Product(Xor(Product(b, x), q), r))
    BY <2>4, <2>5, <2>6, Factor
  <2>8. Xor(Product(a, x), 0) = Product(a, x)
    BY ProductType, ProductZero
  <2> QED BY <2>2, <2>3, <2>7, <2>8
<1> QED BY <1>1, <1>2, <1>3, <1>4, <1>7, <1>8, <1>12

(* A polynomial of i factors x + 2^m. *)
Factored(g, i) ==
  /\ g \in Seq(Field) /\ Len(g) = i + 1 /\ g[i + 1] = 1
  /\ \A m \in 0..i - 1 : Vanishes(g, Power(m))

LEMMA NextFactor ==
  ASSUME NEW i \in Nat, NEW g, Factored(g, i)
  PROVE  Factored(TimesRoot(g), i + 1)
<1>1. PICK z : z = TimesRoot(g)
  OBVIOUS
<1>2. g \in Seq(Field) /\ Len(g) = i + 1 /\ g[Len(g)] = 1 /\ Len(g) > 0 /\ Len(g) - 1 = i
  BY DEF Factored
<1>3. z \in Seq(Field) /\ Len(z) = (i + 1) + 1 /\ z[(i + 1) + 1] = 1
  BY <1>1, <1>2, TimesRootIs
<1>4. ASSUME NEW m \in 0..(i + 1) - 1 PROVE Vanishes(z, Power(m))
  <2>1. PICK x \in Field : x = Power(m)
    <3>1. m \in Nat
      OBVIOUS
    <3> QED BY <3>1, PowerType
  <2> DEFINE c == [k \in 1..Len(g) |-> g[Len(g) + 1 - k]]
  <2>2. \A k \in 1..Len(g) : c[k] \in Field
    <3> TAKE k \in 1..Len(g)
    <3>1. Len(g) + 1 - k \in 1..Len(g)
      BY <1>2
    <3> QED BY <1>2, <3>1
  <2> HIDE DEF c
  <2>3. PICK h : Evaluates(h, 0, c, x, Len(g)) /\ (m \in 0..i - 1 => h[Len(g)] = 0)
    <3>1. CASE m \in 0..i - 1
      <4>1. Vanishes(g, x)
        BY <2>1, <3>1 DEF Factored
      <4> QED BY <3>1, <4>1 DEF Vanishes, c
    <3>2. CASE m \notin 0..i - 1
      <4>1. 0 \in Field /\ Len(g) \in Nat
        BY <1>2 DEF Field
      <4> QED BY <2>2, <3>2, <4>1, EvaluationExists
    <3> QED BY <3>1, <3>2
  <2>4. PICK f : /\ Evaluates(f, 0, [k \in 1..Len(z) |-> z[Len(z) + 1 - k]], x, Len(z))
                 /\ f[Len(z)] = Xor(Product(h[Len(g)], x), Product(h[Len(g)], Power(i)))
    <3>1. \E f : /\ Evaluates(f, 0, [k \in 1..Len(z) |-> z[Len(z) + 1 - k]], x, Len(z))
                 /\ f[Len(z)] = Xor(Product(h[Len(g)], x), Product(h[Len(g)], Power(Len(g) - 1)))
      BY <1>1, <1>2, <2>3, TimesRootValue, Zenon DEF c
    <3> QED BY <1>2, <3>1
  <2>5. f[Len(z)] = 0
    <3>1. h[Len(g)] \in Field
      BY <1>2, <2>3 DEF Evaluates
    <3>2. Power(i) \in Field
      BY PowerType
    <3>3. CASE m = i
      <4>1. f[Len(z)] = Xor(Product(h[Len(g)], x), Product(h[Len(g)], x))
        BY <2>1, <2>4, <3>3
      <4>2. Product(h[Len(g)], x) \in Field
        BY <3>1, ProductType
      <4> QED BY <4>1, <4>2, ProductZero
    <3>4. CASE m \in 0..i - 1
      <4>1. h[Len(g)] = 0
        BY <2>3, <3>4
      <4>2. Product(0, x) = 0 /\ Product(0, Power(i)) = 0 /\ Xor(0, 0) = 0
        BY <3>2, ProductZero
      <4> QED BY <2>4, <4>1, <4>2
    <3> QED BY <3>3, <3>4
  <2> QED BY <2>1, <2>4, <2>5 DEF Vanishes
<1> QED BY <1>1, <1>3, <1>4 DEF Factored

(* init_rs_char: the polynomial of a code is the product of its factors. *)
LEMMA GenpolyFactored ==
  ASSUME NEW n \in Nat
  PROVE  Factored(Genpoly(n), n)
<1> DEFINE Multiplied(g) == g = [i \in 0..n |-> IF i = 0 THEN <<1>> ELSE TimesRoot(g[i - 1])]
           g == CHOOSE g : Multiplied(g)
           S == {p \in Seq(Field) : Len(p) > 0}
           step == [q \in Nat \X S |-> TimesRoot(q[2])]
<1>1. Genpoly(n) = g[n]
  BY Zenon DEF Genpoly
<1>2. step \in [Nat \X S -> S]
  <2>1. \A p \in S : TimesRoot(p) \in S
    <3> TAKE p \in S
    <3>1. TimesRoot(p) \in Seq(Field) /\ Len(TimesRoot(p)) = Len(p) + 1 /\ Len(p) \in Nat
      BY TimesRootIs
    <3> QED BY <3>1
  <2> HIDE DEF S
  <2> QED BY <2>1
<1>3. \A k \in Nat, y \in S : step[<<k, y>>] = TimesRoot(y)
  <2> HIDE DEF S
  <2> QED OBVIOUS
<1>4. <<1>> \in S
  BY DEF Field
<1> HIDE DEF step, S
<1>5. PICK f \in [0..n -> S] : Iterates(f, step, <<1>>, n)
  BY <1>2, <1>4, IterationExists
<1>6. Multiplied(f)
  <2>1. f = [i \in 0..n |-> f[i]]
    BY <1>5
  <2>2. \A i \in 0..n : f[i] = IF i = 0 THEN <<1>> ELSE TimesRoot(f[i - 1])
    <3> TAKE i \in 0..n
    <3>1. CASE i = 0
      BY <1>5, <3>1 DEF Iterates
    <3>2. CASE i # 0
      <4>1. i \in 1..n /\ i \in Nat /\ i - 1 \in 0..n
        BY <3>2
      <4>2. f[i] = step[<<i, f[i - 1]>>] /\ f[i - 1] \in S
        BY <1>5, <4>1 DEF Iterates
      <4> QED BY <1>3, <3>2, <4>1, <4>2
    <3> QED BY <3>1, <3>2
  <2> QED BY <2>1, <2>2, Zenon
<1>7. Multiplied(g)
  BY <1>6, Zenon
<1> HIDE DEF g
<1>8. \A i \in 0..n : g[i] = IF i = 0 THEN <<1>> ELSE TimesRoot(g[i - 1])
  BY <1>7, Zenon
<1> DEFINE T == {i \in 0..n : Factored(g[i], i)}
<1>9. 0 \in T
  <2>1. Factored(<<1>>, 0)
    <3>1. <<1>> \in Seq(Field) /\ Len(<<1>>) = 0 + 1 /\ <<1>>[0 + 1] = 1 /\ 0..0 - 1 = {}
      BY DEF Field
    <3> QED BY <3>1 DEF Factored
  <2>2. 0 \in 0..n /\ g[0] = <<1>>
    BY <1>8
  <2> HIDE DEF g
  <2> QED BY <2>1, <2>2
<1>10. \A k \in 0..n - 1 : k \in T => k + 1 \in T
  <2> TAKE k \in 0..n - 1
  <2> HAVE k \in T
  <2>1. k + 1 \in 0..n /\ k + 1 # 0 /\ (k + 1) - 1 = k /\ Factored(g[k], k) /\ k \in Nat
    OBVIOUS
  <2>2. g[k + 1] = TimesRoot(g[k])
    BY <1>8, <2>1
  <2>3. Factored(g[k + 1], k + 1)
    BY <2>1, <2>2, NextFactor
  <2> QED BY <2>1, <2>3
<1> HIDE DEF T
<1>11. 0..n \subseteq T
  BY <1>9, <1>10, UpTo
<1> QED BY <1>1, <1>11 DEF T

-----------------------------------------------------------------------------
(* The loop that divides. *)

(* A round of a division by g with one more root r, or of a multiplication by one:
   the sum of both polynomials' values, the second one's times r, is again one. *)
RoundAdds(a, b, c, d, x, r) ==
  Xor(Product(Xor(a, Product(b, r)), x), Xor(c, Product(d, r)))
    = Xor(Xor(Product(a, x), c), Product(Xor(Product(b, x), d), r))
LEMMA Rounded ==
  ASSUME NEW a \in Field, NEW b \in Field, NEW c \in Field, NEW d \in Field, NEW x \in Field, NEW r \in Field
  PROVE  RoundAdds(a, b, c, d, x, r)
BY Factor DEF RoundAdds

(* The check bytes f that those of a parity become after d, with feedback fb. *)
FedOnce(f, parity, g, fb, n) ==
  /\ f \in Seq(Field) /\ Len(f) = n
  /\ \A k \in 1..n - 1 : f[k] = Xor(parity[k + 1], Product(g[n + 1 - k], fb))
  /\ f[n] = Xor(0, Product(g[1], fb))

LEMMA FeedIs ==
  ASSUME NEW parity \in Seq(Field), NEW n \in Nat \ {0}, Len(parity) = n,
         NEW g \in Seq(Field), Len(g) = n + 1, NEW d \in Field
  PROVE  FedOnce(Feed(parity, g, d), parity, g, Xor(d, parity[1]), n)
<1> DEFINE fb == Xor(d, parity[1])
           q == Append(parity, 0)
           s == [j \in 1..n + 1 |-> Xor(q[j], Product(g[n + 2 - j], fb))]
<1>1. Feed(parity, g, d) = Tail(s)
  BY DEF Feed
<1>2. fb \in Field
  <2>1. parity[1] \in Field
    OBVIOUS
  <2> QED BY <2>1, FieldXor
<1>3. q[n + 1] = 0 /\ (\A j \in 1..n : q[j] = parity[j]) /\ \A j \in 1..n + 1 : q[j] \in Field
  <2>1. 0 \in Field
    BY DEF Field
  <2>2. q[n + 1] = 0 /\ \A j \in 1..n : q[j] = parity[j]
    OBVIOUS
  <2>3. \A j \in 1..n : parity[j] \in Field
    OBVIOUS
  <2>4. \A j \in 1..n + 1 : j \in 1..n \/ j = n + 1
    OBVIOUS
  <2> QED BY <2>1, <2>2, <2>3, <2>4
<1> HIDE DEF fb, q
<1>4. \A j \in 1..n + 1 : Xor(q[j], Product(g[n + 2 - j], fb)) \in Field
  <2> TAKE j \in 1..n + 1
  <2>1. n + 2 - j \in 1..n + 1
    OBVIOUS
  <2>2. g[n + 2 - j] \in Field
    BY <2>1
  <2> QED BY <1>2, <1>3, <2>2, ProductType, FieldXor
<1>5. s \in Seq(Field) /\ Len(s) = n + 1
  BY <1>4
<1>6. \A j \in 1..n + 1 : s[j] = Xor(q[j], Product(g[n + 2 - j], fb))
  OBVIOUS
<1> HIDE DEF s
<1>7. Tail(s) \in Seq(Field) /\ Len(Tail(s)) = n /\ \A k \in 1..n : Tail(s)[k] = s[k + 1]
  BY <1>5
<1>8. \A k \in 1..n - 1 : Tail(s)[k] = Xor(parity[k + 1], Product(g[n + 1 - k], fb))
  <2> TAKE k \in 1..n - 1
  <2>1. k \in 1..n /\ k + 1 \in 1..n /\ k + 1 \in 1..n + 1 /\ n + 2 - (k + 1) = n + 1 - k
    OBVIOUS
  <2>2. Tail(s)[k] = Xor(q[k + 1], Product(g[n + 2 - (k + 1)], fb))
    BY <1>6, <1>7, <2>1
  <2> QED BY <1>3, <2>1, <2>2
<1>9. Tail(s)[n] = Xor(0, Product(g[1], fb))
  <2>1. n \in 1..n /\ n + 1 \in 1..n + 1 /\ n + 2 - (n + 1) = 1
    OBVIOUS
  <2>2. Tail(s)[n] = Xor(q[n + 1], Product(g[n + 2 - (n + 1)], fb))
    BY <1>6, <1>7, <2>1
  <2> QED BY <1>3, <2>1, <2>2
<1>10. FedOnce(Tail(s), parity, g, fb, n)
  BY <1>7, <1>8, <1>9 DEF FedOnce
<1> QED BY <1>1, <1>10 DEF fb

(* That n more coefficients after a value w make it zero. *)
Cleared(w, c, x, n) == \E b : Evaluates(b, w, c, x, n) /\ b[n] = 0

LEMMA FeedValue ==
  ASSUME NEW parity \in Seq(Field), NEW n \in Nat \ {0}, Len(parity) = n,
         NEW g \in Seq(Field), Len(g) = n + 1, g[n + 1] = 1, NEW d \in Field,
         NEW w \in Field, NEW x \in Field, Vanishes(g, x),
         Cleared(w, parity, x, n)
  PROVE  Cleared(Xor(Product(w, x), d), Feed(parity, g, d), x, n)
<1>0. PICK a : Evaluates(a, w, parity, x, n) /\ a[n] = 0
  BY DEF Cleared
<1>1. PICK fb \in Field : fb = Xor(d, parity[1])
  <2>1. parity[1] \in Field
    OBVIOUS
  <2> QED BY <2>1, FieldXor
<1>2. PICK f : f = Feed(parity, g, d)
  OBVIOUS
<1>3. /\ f \in Seq(Field) /\ Len(f) = n /\ f[n] = Xor(0, Product(g[1], fb))
      /\ \A k \in 1..n - 1 : f[k] = Xor(parity[k + 1], Product(g[n + 1 - k], fb))
  <2>1. FedOnce(f, parity, g, fb, n)
    BY <1>1, <1>2, FeedIs, Zenon
  <2> QED BY <2>1 DEF FedOnce
<1> DEFINE c == [k \in 1..n + 1 |-> g[n + 2 - k]]
<1>4. \A k \in 1..n + 1 : c[k] = g[n + 2 - k] /\ c[k] \in Field
  <2>1. \A k \in 1..n + 1 : n + 2 - k \in 1..n + 1
    OBVIOUS
  <2> QED BY <2>1
<1>5. c = [k \in 1..Len(g) |-> g[Len(g) + 1 - k]]
  OBVIOUS
<1> HIDE DEF c
<1>6. PICK h : Evaluates(h, 0, c, x, n + 1) /\ h[n + 1] = 0
  <2>1. PICK h : Evaluates(h, 0, c, x, Len(g)) /\ h[Len(g)] = 0
    BY <1>5 DEF Vanishes
  <2> QED BY <2>1
<1>7. PICK v \in Field : v = Xor(Product(w, x), d)
  BY ProductType, FieldXor
<1>8. PICK b : Evaluates(b, v, f, x, n)
  <2>1. \A k \in 1..n : f[k] \in Field
    BY <1>3
  <2> QED BY <2>1, EvaluationExists
<1> DEFINE T == {k \in 0..n - 1 : b[k] = Xor(a[k + 1], Product(h[k + 1], fb))}
<1>9. 0 \in T
  <2>1. h[1] = 1
    <3>1. 1 \in 1..n + 1 /\ 1 - 1 = 0 /\ n + 2 - 1 = n + 1
      OBVIOUS
    <3>2. h[1] = Xor(Product(h[0], x), c[1]) /\ h[0] = 0
      BY <1>6, <3>1 DEF Evaluates
    <3>3. c[1] = 1 /\ 1 \in Field
      BY <1>4, <3>1
    <3> QED BY <3>2, <3>3, ProductZero
  <2>2. PICK p \in Field, q \in Field : p = Product(w, x) /\ q = parity[1]
    <3>1. parity[1] \in Field
      OBVIOUS
    <3> QED BY <3>1, ProductType
  <2>3. a[1] = Xor(p, q)
    <3>1. 1 \in 1..n /\ 1 - 1 = 0
      OBVIOUS
    <3>2. a[1] = Xor(Product(a[0], x), parity[1]) /\ a[0] = w
      BY <1>0, <3>1 DEF Evaluates
    <3> QED BY <2>2, <3>2
  <2>4. Product(h[1], fb) = Xor(d, q)
    BY <1>1, <2>1, <2>2, ProductOfOne
  <2>5. Xor(Xor(p, q), Xor(d, q)) = Xor(Xor(p, d), Xor(q, q))
    BY FieldInTwelve, Interchange
  <2>6. Xor(q, q) = 0 /\ Xor(Xor(p, d), 0) = Xor(p, d)
    BY FieldXor, ProductZero
  <2>7. b[0] = Xor(p, d)
    BY <1>7, <1>8, <2>2 DEF Evaluates
  <2>8. b[0] = Xor(a[0 + 1], Product(h[0 + 1], fb))
    <3>1. 0 + 1 = 1
      OBVIOUS
    <3> QED BY <2>3, <2>4, <2>5, <2>6, <2>7, <3>1
  <2> QED BY <2>8
<1>10. \A k \in 0..(n - 1) - 1 : k \in T => k + 1 \in T
  <2> TAKE k \in 0..(n - 1) - 1
  <2> HAVE k \in T
  <2>1. /\ k + 1 \in 1..n - 1 /\ k + 1 \in 1..n /\ k + 2 \in 1..n /\ k + 2 \in 1..n + 1 /\ k + 1 \in 1..n + 1
        /\ (k + 1) - 1 = k /\ (k + 2) - 1 = k + 1 /\ (k + 1) + 1 = k + 2
        /\ n + 2 - (k + 2) = n - k /\ n + 1 - (k + 1) = n - k
    OBVIOUS
  <2>2. PICK y \in Field, z \in Field : y = a[k + 1] /\ z = h[k + 1]
    BY <1>0, <1>6, <2>1 DEF Evaluates
  <2>3. PICK p \in Field, q \in Field : p = parity[k + 2] /\ q = c[k + 2] /\ q = g[n - k]
    BY <1>4, <2>1
  <2>4. a[k + 2] = Xor(Product(y, x), p)
    BY <1>0, <2>1, <2>2, <2>3 DEF Evaluates
  <2>5. h[k + 2] = Xor(Product(z, x), q)
    <3>1. h[k + 2] = Xor(Product(h[(k + 2) - 1], x), c[k + 2])
      BY <1>6, <2>1 DEF Evaluates
    <3> QED BY <2>1, <2>2, <2>3, <3>1
  <2>6. f[k + 1] = Xor(p, Product(q, fb))
    BY <1>3, <2>1, <2>3
  <2>7. b[k] = Xor(y, Product(z, fb))
    BY <2>2
  <2>8. b[k + 1] = Xor(Product(b[k], x), f[k + 1])
    BY <1>8, <2>1 DEF Evaluates
  <2>9. b[k + 1] = Xor(Xor(Product(y, x), p), Product(Xor(Product(z, x), q), fb))
    <3>1. RoundAdds(y, z, p, q, x, fb)
      BY Rounded, Zenon
    <3> QED BY <2>6, <2>7, <2>8, <3>1 DEF RoundAdds
  <2>10. b[k + 1] = Xor(a[(k + 1) + 1], Product(h[(k + 1) + 1], fb))
    BY <2>1, <2>4, <2>5, <2>9
  <2>11. k + 1 \in 0..n - 1
    OBVIOUS
  <2> QED BY <2>10, <2>11
<1> HIDE DEF T
<1>11. n - 1 \in T
  <2>1. n - 1 \in Nat /\ n - 1 \in 0..n - 1
    OBVIOUS
  <2>2. 0..n - 1 \subseteq T
    BY <1>9, <1>10, <2>1, UpTo
  <2> QED BY <2>1, <2>2
<1>12. b[n] = 0
  <2>1. n \in 1..n /\ n \in 0..n + 1 /\ n + 1 \in 1..n + 1 /\ (n + 1) - 1 = n /\ (n - 1) + 1 = n /\ n + 2 - (n + 1) = 1
    OBVIOUS
  <2>2. PICK z \in Field, q \in Field : z = h[n] /\ q = c[n + 1] /\ q = g[1]
    BY <1>4, <1>6, <2>1 DEF Evaluates
  <2>3. Xor(Product(z, x), q) = 0
    BY <1>6, <2>1, <2>2 DEF Evaluates
  <2>4. b[n - 1] = Xor(0, Product(z, fb))
    BY <1>0, <1>11, <2>1, <2>2 DEF T
  <2>5. b[n] = Xor(Product(b[n - 1], x), f[n]) /\ f[n] = Xor(0, Product(q, fb))
    BY <1>3, <1>8, <2>1, <2>2 DEF Evaluates
  <2>6. 0 \in Field
    BY DEF Field
  <2>7. b[n] = Xor(Xor(Product(0, x), 0), Product(Xor(Product(z, x), q), fb))
    <3>1. RoundAdds(0, z, 0, q, x, fb)
      BY <2>6, Rounded, Zenon
    <3> QED BY <2>4, <2>5, <3>1 DEF RoundAdds
  <2>8. Product(0, x) = 0 /\ Product(0, fb) = 0 /\ Xor(0, 0) = 0
    BY <2>6, ProductZero
  <2> QED BY <2>3, <2>7, <2>8
<1> QED BY <1>2, <1>7, <1>8, <1>12 DEF Cleared

(* With m bytes of a block's data fed, these and the check bytes are a word of the
   code: of the polynomial's values the last one is zero at x. *)
CodeSoFar(data, m, ecc, x) ==
  \E h, a : Evaluates(h, 0, data, x, m) /\ Evaluates(a, h[m], ecc, x, Len(ecc)) /\ a[Len(ecc)] = 0

LEMMA CodeStarts ==
  ASSUME NEW data, NEW ecc \in Seq(Field), \A i \in 1..Len(ecc) : ecc[i] = 0, NEW x \in Field
  PROVE  CodeSoFar(data, 0, ecc, x)
<1> DEFINE h == [k \in 0..0 |-> 0]
           a == [k \in 0..Len(ecc) |-> 0]
<1>1. 0 \in Field /\ Product(0, x) = 0 /\ Xor(0, 0) = 0
  BY ProductZero
<1>2. Evaluates(h, 0, data, x, 0) /\ h[0] = 0
  <2>1. 1..0 = {}
    OBVIOUS
  <2> QED BY <1>1, <2>1 DEF Evaluates
<1>3. Evaluates(a, 0, ecc, x, Len(ecc)) /\ a[Len(ecc)] = 0
  <2>1. a \in [0..Len(ecc) -> Field] /\ a[0] = 0 /\ a[Len(ecc)] = 0
    BY <1>1
  <2>2. \A k \in 1..Len(ecc) : a[k] = 0 /\ a[k - 1] = 0
    OBVIOUS
  <2> HIDE DEF a
  <2>3. \A k \in 1..Len(ecc) : a[k] = Xor(Product(a[k - 1], x), ecc[k])
    BY <1>1, <2>2
  <2> QED BY <2>1, <2>3 DEF Evaluates
<1> HIDE DEF h, a
<1> QED BY <1>2, <1>3 DEF CodeSoFar

LEMMA CodeFed ==
  ASSUME NEW data \in Seq(Field), NEW m \in 0..Len(data) - 1, NEW ecc \in Seq(Field), ecc # <<>>,
         NEW x \in Field, NEW g, Factored(g, Len(ecc)), Vanishes(g, x), CodeSoFar(data, m, ecc, x)
  PROVE  CodeSoFar(data, m + 1, Feed(ecc, g, data[m + 1]), x)
<1>1. PICK h, a : Evaluates(h, 0, data, x, m) /\ Evaluates(a, h[m], ecc, x, Len(ecc)) /\ a[Len(ecc)] = 0
  BY DEF CodeSoFar
<1>2. PICK n \in Nat \ {0} : n = Len(ecc)
  OBVIOUS
<1>3. g \in Seq(Field) /\ Len(g) = n + 1 /\ g[n + 1] = 1
  BY <1>2 DEF Factored
<1>4. PICK d \in Field : d = data[m + 1]
  OBVIOUS
<1>5. PICK w \in Field : w = h[m]
  BY <1>1 DEF Evaluates
<1>6. PICK b : Evaluates(b, Xor(Product(w, x), d), Feed(ecc, g, d), x, n) /\ b[n] = 0
  <2>1. Cleared(w, ecc, x, n) /\ Len(ecc) = n
    BY <1>1, <1>2, <1>5 DEF Cleared
  <2>2. Cleared(Xor(Product(w, x), d), Feed(ecc, g, d), x, n)
    BY <1>3, <2>1, FeedValue
  <2> QED BY <2>2 DEF Cleared
<1>7. PICK f : f = Feed(ecc, g, d) /\ Len(f) = n
  <2>1. FedOnce(Feed(ecc, g, d), ecc, g, Xor(d, ecc[1]), n)
    BY <1>2, <1>3, FeedIs
  <2> QED BY <2>1 DEF FedOnce
<1> DEFINE e == [k \in 0..m + 1 |-> IF k = m + 1 THEN Xor(Product(w, x), d) ELSE h[k]]
<1>8. e[m + 1] = Xor(Product(w, x), d) /\ \A k \in 0..m : e[k] = h[k]
  OBVIOUS
<1>9. Evaluates(e, 0, data, x, m + 1)
  <2>1. Xor(Product(w, x), d) \in Field
    BY ProductType, FieldXor
  <2>2. e \in [0..m + 1 -> Field]
    <3>1. \A k \in 0..m + 1 : k # m + 1 => h[k] \in Field
      BY <1>1 DEF Evaluates
    <3> QED BY <2>1, <3>1
  <2> HIDE DEF e
  <2>3. e[0] = 0
    BY <1>1, <1>8 DEF Evaluates
  <2>4. \A k \in 1..m + 1 : e[k] = Xor(Product(e[k - 1], x), data[k])
    <3> TAKE k \in 1..m + 1
    <3>1. CASE k = m + 1
      <4>1. k - 1 = m /\ m \in 0..m
        BY <3>1
      <4> QED BY <1>4, <1>5, <1>8, <3>1, <4>1
    <3>2. CASE k \in 1..m
      <4>1. k \in 0..m /\ k - 1 \in 0..m
        BY <3>2
      <4>2. h[k] = Xor(Product(h[k - 1], x), data[k])
        BY <1>1, <3>2 DEF Evaluates
      <4> QED BY <1>8, <4>1, <4>2
    <3> QED BY <3>1, <3>2
  <2> QED BY <2>2, <2>3, <2>4 DEF Evaluates
<1> HIDE DEF e
<1>10. CodeSoFar(data, m + 1, f, x)
  BY <1>6, <1>7, <1>8, <1>9, Zenon DEF CodeSoFar
<1> QED BY <1>4, <1>7, <1>10

(* Syndrome is the last of the values of all bytes. *)
LEMMA SyndromeIs ==
  ASSUME NEW code \in Seq(Field), NEW i \in Nat, NEW v,
         Evaluates(v, 0, code, Power(i), Len(code))
  PROVE  Syndrome(code, i) = v[Len(code)]
<1>1. PICK x \in Field : x = Power(i)
  BY PowerType
<1> DEFINE Is(value) == value = [n \in 0..Len(code) |-> IF n = 0 THEN 0 ELSE Xor(Product(value[n - 1], x), code[n])]
           u == CHOOSE value : Is(value)
<1>2. Syndrome(code, i) = u[Len(code)]
  BY <1>1, Zenon DEF Syndrome
<1>3. Is(v)
  <2>1. v = [n \in 0..Len(code) |-> v[n]] /\ v[0] = 0 /\ \A k \in 1..Len(code) : v[k] = Xor(Product(v[k - 1], x), code[k])
    BY <1>1 DEF Evaluates
  <2>2. \A n \in 0..Len(code) : n = 0 \/ n \in 1..Len(code)
    OBVIOUS
  <2>3. \A n \in 0..Len(code) : v[n] = IF n = 0 THEN 0 ELSE Xor(Product(v[n - 1], x), code[n])
    BY <2>1, <2>2
  <2> QED BY <2>1, <2>3, Zenon
<1>4. Is(u)
  BY <1>3, Zenon
<1> HIDE DEF u
<1>5. \A n \in 0..Len(code) : u[n] = IF n = 0 THEN 0 ELSE Xor(Product(u[n - 1], x), code[n])
  BY <1>4, Zenon
<1> DEFINE T == {n \in 0..Len(code) : u[n] = v[n]}
<1>6. 0 \in T
  <2>1. 0 \in 0..Len(code) /\ u[0] = 0
    BY <1>5
  <2> QED BY <2>1 DEF Evaluates
<1>7. \A k \in 0..Len(code) - 1 : k \in T => k + 1 \in T
  <2> TAKE k \in 0..Len(code) - 1
  <2> HAVE k \in T
  <2>1. k + 1 \in 0..Len(code) /\ k + 1 \in 1..Len(code) /\ k + 1 # 0 /\ (k + 1) - 1 = k /\ u[k] = v[k]
    OBVIOUS
  <2>2. u[k + 1] = Xor(Product(u[k], x), code[k + 1])
    BY <1>5, <2>1
  <2>3. v[k + 1] = Xor(Product(v[k], x), code[k + 1])
    BY <1>1, <2>1 DEF Evaluates
  <2> QED BY <2>1, <2>2, <2>3
<1> HIDE DEF T
<1>8. 0..Len(code) \subseteq T
  <2>1. Len(code) \in Nat
    OBVIOUS
  <2> QED BY <1>6, <1>7, <2>1, UpTo
<1> QED BY <1>2, <1>8 DEF T

LEMMA CodeWhole ==
  ASSUME NEW data \in Seq(Field), NEW ecc \in Seq(Field), NEW i \in Nat,
         CodeSoFar(data, Len(data), ecc, Power(i))
  PROVE  Syndrome(data \o ecc, i) = 0
<1>1. PICK x \in Field : x = Power(i)
  BY PowerType
<1>2. PICK m \in Nat, n \in Nat : m = Len(data) /\ n = Len(ecc)
  OBVIOUS
<1>3. PICK h, a : Evaluates(h, 0, data, x, m) /\ Evaluates(a, h[m], ecc, x, n) /\ a[n] = 0
  BY <1>1, <1>2 DEF CodeSoFar
<1> DEFINE v == [k \in 0..m + n |-> IF k <= m THEN h[k] ELSE a[k - m]]
<1>4. \A k \in 0..m + n : v[k] \in Field
  <2> TAKE k \in 0..m + n
  <2>1. CASE k <= m
    BY <1>3, <2>1 DEF Evaluates
  <2>2. CASE ~(k <= m)
    <3>1. k - m \in 0..n
      BY <2>2
    <3>2. a[k - m] \in Field
      BY <1>3, <3>1 DEF Evaluates
    <3> QED BY <2>2, <3>2
  <2> QED BY <2>1, <2>2
<1>5. /\ v \in [0..m + n -> Field]
      /\ \A k \in 0..m : v[k] = h[k]
      /\ \A k \in 0..n : v[m + k] = a[k]
  <2>1. v \in [0..m + n -> Field] /\ \A k \in 0..m : v[k] = h[k]
    BY <1>4
  <2>2. a[0] = h[m]
    BY <1>3 DEF Evaluates
  <2>3. \A k \in 0..n : v[m + k] = a[k]
    <3> TAKE k \in 0..n
    <3>1. CASE k = 0
      BY <2>2, <3>1
    <3>2. CASE k # 0
      <4>1. m + k \in 0..m + n /\ ~(m + k <= m) /\ (m + k) - m = k
        BY <3>2
      <4> QED BY <4>1
    <3> QED BY <3>1, <3>2
  <2> QED BY <2>1, <2>3
<1> HIDE DEF v
<1>6. PICK c \in Seq(Field) : c = data \o ecc /\ Len(c) = m + n /\ (\A k \in 1..m : c[k] = data[k])
                              /\ \A k \in 1..n : c[m + k] = ecc[k]
  <2>1. data \o ecc \in Seq(Field) /\ Len(data \o ecc) = m + n
    BY <1>2
  <2>2. (\A k \in 1..m : (data \o ecc)[k] = data[k]) /\ \A k \in 1..n : (data \o ecc)[m + k] = ecc[k]
    BY <1>2
  <2> QED BY <2>1, <2>2
<1>7. \A k \in 1..m + n : v[k] = Xor(Product(v[k - 1], x), c[k])
  <2> TAKE k \in 1..m + n
  <2>1. CASE k <= m
    <3>1. k \in 1..m /\ k \in 0..m /\ k - 1 \in 0..m
      BY <2>1
    <3>2. h[k] = Xor(Product(h[k - 1], x), data[k])
      BY <1>3, <3>1 DEF Evaluates
    <3> QED BY <1>5, <1>6, <3>1, <3>2
  <2>2. CASE ~(k <= m)
    <3>1. PICK j \in 1..n : k = m + j
      <4>1. k - m \in 1..n /\ k = m + (k - m)
        BY <2>2
      <4> QED BY <4>1
    <3>2. j - 1 \in 0..n /\ j \in 0..n /\ k - 1 = m + (j - 1)
      BY <3>1
    <3>3. a[j] = Xor(Product(a[j - 1], x), ecc[j])
      BY <1>3 DEF Evaluates
    <3>4. v[k] = a[j] /\ v[k - 1] = a[j - 1] /\ c[k] = ecc[j]
      BY <1>5, <1>6, <3>1, <3>2
    <3> QED BY <3>3, <3>4
  <2> QED BY <2>1, <2>2
<1>8. Evaluates(v, 0, c, x, Len(c))
  <2>1. v[0] = 0
    BY <1>3, <1>5 DEF Evaluates
  <2> QED BY <1>5, <1>6, <1>7, <2>1 DEF Evaluates
<1>9. Syndrome(c, i) = v[Len(c)]
  BY <1>1, <1>8, SyndromeIs
<1>10. v[m + n] = 0
  BY <1>3, <1>5
<1> QED BY <1>6, <1>9, <1>10

(* Both ways of counting the characters of a run differ by one bit, whatever the
   version, or 0 for any. *)
LEMMA Heads ==
  ASSUME NEW v \in Nat
  PROVE  NumHead(v) \in {14, 16, 18} /\ NumHead(v) = AnHead(v) + 1
BY DEF NumHead, AnHead, LengthIndicator, SplittableMode

(* A character more costs an alphanumeric segment five bits or six. *)
LEMMA AnGrows ==
  ASSUME NEW k \in Nat
  PROVE  /\ EstimateBitsModeAn(k + 1) \in Int /\ EstimateBitsModeAn(k) \in Int
         /\ EstimateBitsModeAn(k + 1) >= EstimateBitsModeAn(k) + 5
         /\ EstimateBitsModeAn(k + 1) <= EstimateBitsModeAn(k) + 6
BY DEF EstimateBitsModeAn

(* Split_eatNum hands digits over to Split_eatAn when a segment of their own would
   not pay (split.c:108-115); Split_eatAn then keeps them instead of stopping in
   front of them (135-150) with an empty segment, which QRinput_append refuses. *)
THEOREM DigitsHandedOverAreKept ==
  ASSUME NEW k \in Nat \ {0}, NEW v \in Nat, NumBeforeAn(k, v) > 0
  PROVE  LeaveAnForNum(0, k, v) >= 0
<1> DEFINE h == NumHead(v)
<1>0. h \in Int
  BY Heads
<1>1. EstimateBitsModeNum(k) \in Int
  <2>1. k % 3 \in {0, 1, 2}
    OBVIOUS
  <2>2. <<0, 4, 7>>[(k % 3) + 1] \in Int
    BY <2>1
  <2> QED BY <2>2 DEF EstimateBitsModeNum
<1>2. EstimateBitsModeAn(1) = 6 /\ EstimateBitsModeAn(0) = 0
  BY DEF EstimateBitsModeAn
<1>3. EstimateBitsModeNum(k) + h + 6 - EstimateBitsModeAn(k + 1) > 0
  BY <1>2 DEF NumBeforeAn
<1>4. LeaveAnForNum(0, k, v) = EstimateBitsModeNum(k) + h - EstimateBitsModeAn(k)
  BY <1>0, <1>1, <1>2, AnGrows DEF LeaveAnForNum
<1> QED BY <1>0, <1>1, <1>3, <1>4, AnGrows

-----------------------------------------------------------------------------
Sized(s, n) == Len(s) = n /\ \E S : s \in Seq(S)

(* A function on 1..n is a sequence of n elements, whatever these are. *)
LEMMA SizedFunction ==
  ASSUME NEW n \in Nat, NEW S, NEW f \in [1..n -> S]
  PROVE  Sized(f, n)
<1>1. f \in Seq(S) /\ Len(f) = n
  OBVIOUS
<1> QED BY <1>1 DEF Sized

LEMMA SizedFromNum ==
  ASSUME NEW n \in Nat, NEW x
  PROVE  Sized(FromNum(n, x), n)
<1> DEFINE S == {(x \div 2^(n - i)) % 2 : i \in 1..n}
<1>1. FromNum(n, x) \in [1..n -> S]
  BY DEF FromNum
<1> QED BY <1>1, SizedFunction

LEMMA SizedPadBytes ==
  ASSUME NEW n \in Nat
  PROVE  Sized(PadBytes(n), 8 * n)
<1> DEFINE bytes == [i \in 1..n |-> IF i % 2 = 1 THEN 236 ELSE 17]
           bit(i) == (bytes[((i - 1) \div 8) + 1] \div 2^(8 - 1 - ((i - 1) % 8))) % 2
           S == {bit(i) : i \in 1..8 * n}
<1>1. Len(bytes) = n
  OBVIOUS
<1>2. PadBytes(n) = [i \in 1..8 * n |-> bit(i)]
  BY <1>1 DEF PadBytes, FromNums
<1> HIDE DEF bit
<1>3. PadBytes(n) \in [1..8 * n -> S]
  BY <1>2
<1>4. 8 * n \in Nat
  OBVIOUS
<1> HIDE DEF S
<1> QED BY <1>3, <1>4, SizedFunction

LEMMA SizedConcat ==
  ASSUME NEW a, NEW b, NEW m \in Nat, NEW n \in Nat, Sized(a, m), Sized(b, n)
  PROVE  Sized(a \o b, m + n)
<1>1. PICK S : a \in Seq(S)
  BY DEF Sized
<1>2. PICK T : b \in Seq(T)
  BY DEF Sized
<1>3. a \in Seq(S \cup T) /\ b \in Seq(S \cup T)
  BY <1>1, <1>2
<1> QED BY <1>3 DEF Sized

(* QRinput_appendPaddingBit (qrinput.c:1192-1250) brings every stream that fits to
   just the length the symbol's data has, at each end of its cases: when no
   terminator fits, or part of one, or one and no pad byte. *)
THEOREM PaddedFillsSymbol ==
  ASSUME NEW stream, NEW n \in Nat, Sized(stream, n),
         NEW version, NEW level, DataLength(version, level) \in Nat,
         n <= 8 * DataLength(version, level)
  PROVE  Sized(AppendPaddingBit(stream, version, level), 8 * DataLength(version, level))
<1> DEFINE most == DataLength(version, level)
           free == 8 * most - n
           words == (n + 4 + 7) \div 8
<1>0. Len(stream) = n
  BY DEF Sized
<1>1. CASE free <= 4
  <2>1. AppendPaddingBit(stream, version, level) = stream \o FromNum(free, 0)
    BY <1>0, <1>1 DEF AppendPaddingBit
  <2>2. Sized(FromNum(free, 0), free)
    BY SizedFromNum
  <2>3. Sized(stream \o FromNum(free, 0), n + free)
    BY <2>2, SizedConcat
  <2> QED BY <2>1, <2>3
<1>2. CASE free > 4
  <2>1. words \in Nat /\ 8 * words >= n + 4 /\ words <= most
    BY <1>2
  <2>2. AppendPaddingBit(stream, version, level)
          = (stream \o FromNum(8 * words - n, 0)) \o PadBytes(most - words)
    BY <1>0, <1>2 DEF AppendPaddingBit
  <2>3. Sized(stream \o FromNum(8 * words - n, 0), 8 * words)
    BY <2>1, SizedFromNum, SizedConcat
  <2>4. Sized(PadBytes(most - words), 8 * (most - words))
    BY <2>1, SizedPadBytes
  <2> QED BY <2>1, <2>2, <2>3, <2>4, SizedConcat
<1> QED BY <1>1, <1>2

(* QRinput_appendPaddingBitMQR (qrinput.c:1258-1335) does the same but for one case:
   a terminator that ends within the half byte of versions 1 and 3 is brought up to
   a whole byte, which is more than the symbol's data has.  The bytes are as many
   as they should be all the same. *)
THEOREM PaddedFillsMicroSymbol ==
  ASSUME NEW stream, NEW n \in Nat, Sized(stream, n),
         NEW version \in 1..MicroVersionMax, NEW level,
         NEW maxbits \in Nat, maxbits = MicroDataLengthBit(version, level), n <= maxbits
  PROVE  \E m \in Nat : /\ Sized(AppendPaddingBitMQR(stream, version, level), m)
                        /\ m >= maxbits /\ (m + 7) \div 8 = (maxbits + 7) \div 8
<1> DEFINE padded == AppendPaddingBitMQR(stream, version, level)
           maxwords == maxbits \div 8
           t == 2 * version + 1
           free == maxbits - n
           words == (n + t + 7) \div 8
           half == IF maxbits > 8 * words /\ words = maxwords THEN maxbits - 8 * words ELSE 0
<1>0. Len(stream) = n /\ t \in Nat /\ t >= 3 /\ maxwords \in Nat
  BY DEF Sized, MicroVersionMax
<1>1. CASE free <= t
  <2>1. padded = stream \o FromNum(free, 0)
    BY <1>0, <1>1 DEF AppendPaddingBitMQR
  <2>2. Sized(FromNum(free, 0), free)
    BY SizedFromNum
  <2>3. Sized(stream \o FromNum(free, 0), n + free)
    BY <2>2, SizedConcat
  <2> QED BY <2>1, <2>3
<1>2. CASE free > t
  <2>1. words \in Nat /\ 8 * words >= n + t /\ 8 * words <= n + t + 7
    BY <1>0
  <2>2. half \in Nat /\ 8 * words - n + half \in Nat
    BY <1>0, <2>1
  <2>3. Sized(stream \o FromNum(8 * words - n + half, 0), 8 * words + half)
    <3>1. Sized(FromNum(8 * words - n + half, 0), 8 * words - n + half)
      BY <2>2, SizedFromNum
    <3>2. n + (8 * words - n + half) = 8 * words + half
      BY <2>1, <2>2
    <3> HIDE DEF half, words
    <3> QED BY <2>2, <3>1, <3>2, SizedConcat
  <2>4. CASE words >= maxwords
    <3>1. padded = (stream \o FromNum(8 * words - n + half, 0)) \o <<>>
      BY <1>0, <1>2, <2>4, SMTT(40) DEF AppendPaddingBitMQR
    <3>2. Sized(<<>>, 0)
      BY DEF Sized
    <3>3. 8 * words + half \in Nat
      BY <2>1, <2>2
    <3>4. Sized(padded, 8 * words + half)
      <4>1. Sized((stream \o FromNum(8 * words - n + half, 0)) \o <<>>, (8 * words + half) + 0)
        BY <2>3, <3>2, <3>3, SizedConcat
      <4> QED BY <4>1, <3>1, <3>3
    <3>5. 8 * words + half >= maxbits /\ (8 * words + half + 7) \div 8 = (maxbits + 7) \div 8
      <4>1. CASE words = maxwords
        <5>1. 8 * words + half = maxbits
          BY <4>1
        <5> QED BY <5>1
      <4>2. CASE words > maxwords
        <5>1. half = 0
          BY <4>2
        <5>2. 8 * words + half >= maxbits /\ 8 * words < maxbits + 8
          BY <1>2, <2>1, <4>2, <5>1
        <5> QED BY <2>1, <5>1, <5>2
      <4> QED BY <1>0, <2>1, <2>4, <4>1, <4>2
    <3> QED BY <3>3, <3>4, <3>5
  <2>5. CASE words < maxwords
    <3>1. padded = (stream \o FromNum(8 * words - n + half, 0))
                     \o (PadBytes(maxwords - words) \o FromNum(maxbits - 8 * maxwords, 0))
      <4>1. ~(words >= maxwords)
        BY <1>0, <2>1, <2>5
      <4>2. ~(free <= t)
        BY <1>0, <1>2
      <4> QED BY <1>0, <4>1, <4>2, Zenon DEF AppendPaddingBitMQR
    <3>2. Sized(PadBytes(maxwords - words), 8 * (maxwords - words))
      BY <1>0, <2>1, <2>5, SizedPadBytes
    <3>3. Sized(FromNum(maxbits - 8 * maxwords, 0), maxbits - 8 * maxwords)
      BY <1>0, SizedFromNum
    <3>4. Sized(PadBytes(maxwords - words) \o FromNum(maxbits - 8 * maxwords, 0), maxbits - 8 * words)
      <4>1. 8 * (maxwords - words) + (maxbits - 8 * maxwords) = maxbits - 8 * words
        BY <1>0, <2>1
      <4>2. 8 * (maxwords - words) \in Nat /\ maxbits - 8 * maxwords \in Nat
        BY <1>0, <2>1, <2>5
      <4> HIDE DEF words, maxwords
      <4> QED BY <3>2, <3>3, <4>1, <4>2, SizedConcat
    <3>5. half = 0
      BY <2>5
    <3>6. Sized(padded, maxbits)
      <4>1. 8 * words \in Nat /\ maxbits - 8 * words \in Nat
        BY <1>0, <2>1, <2>5
      <4>2. 8 * words + (maxbits - 8 * words) = maxbits
        BY <2>1
      <4>3. Sized(stream \o FromNum(8 * words - n + half, 0), 8 * words)
        <5>1. 8 * words + half = 8 * words
          BY <2>1, <3>5
        <5> QED BY <2>3, <5>1
      <4> HIDE DEF words, maxwords, padded, half
      <4> QED BY <3>1, <3>4, <4>1, <4>2, <4>3, SizedConcat
    <3> QED BY <3>6
  <2> QED BY <1>0, <2>1, <2>4, <2>5
<1> QED BY <1>0, <1>1, <1>2
-----------------------------------------------------------------------------

(* What ipconfig prints for a byte of an address, and for the four: getIP takes it
   as it stands (BarcodeCreator.cpp:3-19). *)
Decimal(n) ==
  IF n < 10 THEN <<Zero + n>>
  ELSE IF n < 100 THEN <<Zero + (n \div 10), Zero + (n % 10)>>
  ELSE <<Zero + (n \div 100), Zero + ((n \div 10) % 10), Zero + (n % 10)>>
Dotted(a, b, c, d) ==
  Decimal(a) \o <<Dot>> \o Decimal(b) \o <<Dot>> \o Decimal(c) \o <<Dot>> \o Decimal(d)

(* The first place is the only one that has none before it. *)
LEMMA FirstPlace ==
  ASSUME NEW t, NEW c, NEW n \in Nat \ {0}, n \in DOMAIN t, t[n] = c,
         DOMAIN t \subseteq Nat, \A i \in DOMAIN t : i < n => t[i] # c
  PROVE  IndexOf(t, c) = n
<1> DEFINE places == {i \in DOMAIN t : t[i] = c}
<1>1. n \in places /\ \A j \in places : n <= j
  OBVIOUS
<1>2. \A m \in places : (\A j \in places : m <= j) => m = n
  BY <1>1
<1>3. IndexOf(t, c) = CHOOSE i \in places : \A j \in places : i <= j
  BY <1>1 DEF IndexOf
<1> HIDE DEF places
<1> QED BY <1>1, <1>2, <1>3

Figure == 0..9
OfOne(n, x) == n = x /\ Decimal(n) = <<Zero + x>>
OfTwo(n, x, y) == n = 10 * x + y /\ Decimal(n) = <<Zero + x, Zero + y>>
OfThree(n, x, y, z) == n = 100 * x + 10 * y + z /\ Decimal(n) = <<Zero + x, Zero + y, Zero + z>>

(* A byte is written with one, two or three figures, the leading one not left out. *)
LEMMA DecimalShape ==
  ASSUME NEW n \in Byte
  PROVE  \E x, y, z \in Figure : OfOne(n, x) \/ OfTwo(n, x, y) \/ OfThree(n, x, y, z)
<1> DEFINE h == n \div 100
           t == n \div 10
           u == n % 10
<1>1. CASE n < 10
  <2>1. n \in Figure /\ Decimal(n) = <<Zero + n>>
    BY <1>1 DEF Decimal, Byte, Figure
  <2> QED BY <2>1 DEF OfOne
<1>2. CASE ~(n < 10) /\ n < 100
  <2>1. t \in Figure /\ u \in Figure /\ n = 10 * t + u
    BY <1>2 DEF Byte, Figure
  <2>2. Decimal(n) = <<Zero + t, Zero + u>>
    BY <1>2 DEF Decimal
  <2> HIDE DEF t, u
  <2> QED BY <2>1, <2>2 DEF OfTwo
<1>3. CASE ~(n < 10) /\ ~(n < 100)
  <2>1. h \in Figure /\ t % 10 \in Figure /\ u \in Figure /\ n = 100 * h + 10 * (t % 10) + u
    BY <1>3 DEF Byte, Figure
  <2>2. Decimal(n) = <<Zero + h, Zero + (t % 10), Zero + u>>
    BY <1>3 DEF Decimal
  <2> HIDE DEF h, t, u
  <2> QED BY <2>1, <2>2 DEF OfThree
<1> QED BY <1>1, <1>2, <1>3

Digits(s, k) ==
  s \in Seq(Int) /\ Len(s) = k /\ \A i \in 1..k : s[i] \in Int /\ s[i] >= Zero /\ s[i] <= Zero + 9

(* One, two or three figures, written down, are that many digits. *)
LEMMA Figures ==
  ASSUME NEW x \in Figure, NEW y \in Figure, NEW z \in Figure
  PROVE  Digits(<<Zero + x>>, 1) /\ Digits(<<Zero + x, Zero + y>>, 2) /\ Digits(<<Zero + x, Zero + y, Zero + z>>, 3)
<1> DEFINE OK(d) == d \in Int /\ d >= Zero /\ d <= Zero + 9
<1>1. OK(Zero + x) /\ OK(Zero + y) /\ OK(Zero + z)
  BY DEF Zero, Figure
<1>2. ASSUME NEW a, NEW b, NEW c, OK(a), OK(b), OK(c)
      PROVE  Digits(<<a>>, 1) /\ Digits(<<a, b>>, 2) /\ Digits(<<a, b, c>>, 3)
  BY <1>2 DEF Digits
<1> HIDE DEF OK
<1> QED BY <1>1, <1>2

(* A byte is printed with one to three digits. *)
LEMMA DecimalDigits ==
  ASSUME NEW n \in Byte
  PROVE  \E k \in 1..3 : Digits(Decimal(n), k)
<1>1. PICK x, y, z \in Figure : OfOne(n, x) \/ OfTwo(n, x, y) \/ OfThree(n, x, y, z)
  BY DecimalShape
<1>2. Digits(<<Zero + x>>, 1) /\ Digits(<<Zero + x, Zero + y>>, 2) /\ Digits(<<Zero + x, Zero + y, Zero + z>>, 3)
  BY <1>1, Figures
<1>3. CASE OfOne(n, x)
  BY <1>2, <1>3 DEF OfOne
<1>4. CASE OfTwo(n, x, y)
  BY <1>2, <1>4 DEF OfTwo
<1>5. CASE OfThree(n, x, y, z)
  BY <1>2, <1>5 DEF OfThree
<1> QED BY <1>1, <1>3, <1>4, <1>5

(* What parseInt makes of the digits of a byte is that byte. *)
LEMMA DecimalIsParsed ==
  ASSUME NEW n \in Byte
  PROVE  ParseInt(Decimal(n)) = {n}
<1> DEFINE s == Decimal(n)
           step(g, i) == IF i = 0 THEN 0 ELSE 10 * g[i - 1] + s[i] - Zero
           value == CHOOSE g : g = [i \in 0..Len(s) |-> step(g, i)]
<1>1. ParseInt(s) = {value[Len(s)]}
  <2>1. PICK k \in 1..3 : Digits(s, k)
    BY DecimalDigits
  <2> HIDE DEF s
  <2>2. Head(s) = s[1] /\ s # <<>> /\ s[1] \in Int /\ s[1] >= Zero
    BY <2>1 DEF Digits
  <2>3. ~(Head(s) \in {43, 45}) /\ s[1] # 45
    BY <2>2 DEF Zero
  <2>4. ~(\E i \in DOMAIN s : s[i] \notin Zero..Zero + 9)
    <3>1. DOMAIN s = 1..k
      BY <2>1 DEF Digits
    <3> QED BY <2>1, <3>1 DEF Digits, Zero
  <2> USE DEF s
  <2> QED BY <2>2, <2>3, <2>4, Zenon DEF ParseInt
<1>2. ASSUME NEW g0, g0 = [i \in 0..Len(s) |-> step(g0, i)]
      PROVE  value = [i \in 0..Len(s) |-> step(value, i)]
  BY <1>2, Zenon
<1>3. ASSUME NEW x \in Figure, OfOne(n, x)
      PROVE  value[Len(s)] = n
  <2> DEFINE g0 == [i \in 0..1 |-> IF i = 0 THEN 0 ELSE x]
  <2>1. Len(s) = 1 /\ s[1] = Zero + x
    BY <1>3 DEF OfOne
  <2>2. g0 = [i \in 0..Len(s) |-> step(g0, i)]
    <3> HIDE DEF s
    <3> QED BY <1>3, <2>1 DEF Zero, Figure, OfOne
  <2>3. value = [i \in 0..1 |-> step(value, i)]
    BY <1>2, <2>1, <2>2
  <2> HIDE DEF value, s
  <2>4. value[0] = 0 /\ value[1] = 10 * value[0] + s[1] - Zero
    BY <2>3
  <2> QED BY <1>3, <2>1, <2>4 DEF Zero, Figure, OfOne
<1>4. ASSUME NEW x \in Figure, NEW y \in Figure, OfTwo(n, x, y)
      PROVE  value[Len(s)] = n
  <2> DEFINE g0 == [i \in 0..2 |-> IF i = 0 THEN 0 ELSE IF i = 1 THEN x ELSE n]
  <2>1. Len(s) = 2 /\ s[1] = Zero + x /\ s[2] = Zero + y
    BY <1>4 DEF OfTwo
  <2>2. g0 = [i \in 0..Len(s) |-> step(g0, i)]
    <3> HIDE DEF s
    <3> QED BY <1>4, <2>1 DEF Zero, Figure, OfTwo
  <2>3. value = [i \in 0..2 |-> step(value, i)]
    BY <1>2, <2>1, <2>2
  <2> HIDE DEF value, s
  <2>4. value[0] = 0 /\ value[1] = 10 * value[0] + s[1] - Zero /\ value[2] = 10 * value[1] + s[2] - Zero
    BY <2>3
  <2> QED BY <1>4, <2>1, <2>4 DEF Zero, Figure, OfTwo
<1>5. ASSUME NEW x \in Figure, NEW y \in Figure, NEW z \in Figure, OfThree(n, x, y, z)
      PROVE  value[Len(s)] = n
  <2> DEFINE g0 == [i \in 0..3 |-> IF i = 0 THEN 0 ELSE IF i = 1 THEN x ELSE IF i = 2 THEN 10 * x + y ELSE n]
  <2>1. Len(s) = 3 /\ s[1] = Zero + x /\ s[2] = Zero + y /\ s[3] = Zero + z
    BY <1>5 DEF OfThree
  <2>2. g0 = [i \in 0..Len(s) |-> step(g0, i)]
    <3> HIDE DEF s
    <3> QED BY <1>5, <2>1 DEF Zero, Figure, OfThree
  <2>3. value = [i \in 0..3 |-> step(value, i)]
    BY <1>2, <2>1, <2>2
  <2> HIDE DEF value, s
  <2>4. /\ value[0] = 0 /\ value[1] = 10 * value[0] + s[1] - Zero
        /\ value[2] = 10 * value[1] + s[2] - Zero /\ value[3] = 10 * value[2] + s[3] - Zero
    BY <2>3
  <2> QED BY <1>5, <2>1, <2>4 DEF Zero, Figure, OfThree
<1> QED BY <1>1, <1>3, <1>4, <1>5, DecimalShape

(* Two texts, one behind the other: their lengths, and what is taken out again. *)
LEMMA Joined ==
  ASSUME NEW v \in Seq(Int), NEW s \in Seq(Int)
  PROVE  /\ v \o s \in Seq(Int) /\ Len(v \o s) = Len(v) + Len(s) /\ Len(v) \in Nat /\ Len(s) \in Nat
         /\ \A i \in 1..Len(v) : (v \o s)[i] = v[i]
OBVIOUS

LEMMA Associative ==
  ASSUME NEW s \in Seq(Int), NEW t \in Seq(Int), NEW u \in Seq(Int)
  PROVE  (s \o t) \o u = s \o (t \o u)
BY ConcatAssociative

LEMMA Behind ==
  ASSUME NEW v \in Seq(Int), NEW s \in Seq(Int)
  PROVE  SubSeq(v \o s, Len(v) + 1, Len(v) + Len(s)) = s
<1> DEFINE u == v \o s
           w == SubSeq(u, Len(v) + 1, Len(v) + Len(s))
<1>1. Len(v) \in Nat /\ Len(s) \in Nat /\ u \in Seq(Int) /\ Len(u) = Len(v) + Len(s)
  OBVIOUS
<1>2. \A i \in 1..Len(s) : u[Len(v) + i] = s[i]
  BY <1>1
<1>3. w \in Seq(Int) /\ Len(w) = Len(s)
  BY <1>1
<1>4. ASSUME NEW i \in 1..Len(s) PROVE w[i] = s[i]
  <2>1. w[i] = u[Len(v) + 1 + i - 1]
    BY <1>1
  <2>2. Len(v) + 1 + i - 1 = Len(v) + i
    BY <1>1
  <2> QED BY <1>2, <2>1, <2>2
<1> QED BY <1>3, <1>4, SeqEqual

LEMMA InFront ==
  ASSUME NEW v \in Seq(Int), NEW s \in Seq(Int), v # <<>>
  PROVE  SubSeq(v \o s, 1, Len(v)) = v
<1>1. 1 \in 1..Len(v) /\ Len(v) \in 1..Len(v)
  OBVIOUS
<1>2. SubSeq(v \o s, 1, Len(v)) = SubSeq(v, 1, Len(v))
  BY <1>1, SubSeqOfConcat1
<1> QED BY <1>2, SubSeqFull

(* One field more: what it adds to the dots, and to the parts between them. *)
Added(t, s, k, u) ==
  /\ u \in Seq(Int) /\ Len(u) = Len(t) + 1 + k
  /\ Dots(u) = Dots(t) \cup {Len(t) + 1}
  /\ SubSeq(u, Len(t) + 2, Len(t) + 1 + k) = s
  /\ \A i, j \in 1..Len(t) : SubSeq(u, i, j) = SubSeq(t, i, j)
  /\ (\A i \in 1..Len(t) : t[i] # Bar) => \A i \in 1..Len(u) : u[i] # Bar

LEMMA AddPart ==
  ASSUME NEW t \in Seq(Int), NEW s, NEW k \in 1..3, Digits(s, k)
  PROVE  Added(t, s, k, t \o <<Dot>> \o s)
<1> DEFINE v == t \o <<Dot>>
           u == v \o s
           n == Len(t)
<1>0. n \in Nat /\ k \in Nat
  OBVIOUS
<1>1. s \in Seq(Int) /\ Len(s) = k /\ \A i \in 1..k : s[i] # Dot /\ s[i] # Bar
  BY DEF Digits, Zero, Dot, Bar
<1>2. <<Dot>> \in Seq(Int) /\ Len(<<Dot>>) = 1 /\ <<Dot>>[1] = Dot
  BY DEF Dot
<1>3. v \in Seq(Int) /\ Len(v) = n + 1 /\ v[n + 1] = Dot /\ \A i \in 1..n : v[i] = t[i]
  BY <1>2
<1> HIDE DEF v
<1>4. u \in Seq(Int) /\ Len(u) = n + 1 + k
  BY <1>1, <1>3
<1>5. \A i \in 1..n + 1 : u[i] = v[i]
  BY <1>1, <1>3
<1>6. \A i \in n + 2..n + 1 + k : u[i] = s[i - (n + 1)]
  BY <1>1, <1>3
<1>7. Dots(u) = Dots(t) \cup {n + 1}
  <2>1. DOMAIN u = 1..n + 1 + k /\ DOMAIN t = 1..n
    BY <1>4
  <2>2. \A i \in 1..n + 1 + k : u[i] = Dot <=> i = n + 1 \/ (i \in 1..n /\ t[i] = Dot)
    <3> TAKE i \in 1..n + 1 + k
    <3>1. CASE i \in 1..n
      BY <1>3, <1>5, <3>1
    <3>2. CASE i = n + 1
      BY <1>3, <1>5, <3>2
    <3>3. CASE i \in n + 2..n + 1 + k
      <4>1. i - (n + 1) \in 1..k /\ i \notin 1..n /\ i # n + 1
        BY <1>0, <3>3
      <4> QED BY <1>1, <1>6, <3>3, <4>1
    <3>4. i \in 1..n \/ i = n + 1 \/ i \in n + 2..n + 1 + k
      BY <1>0
    <3> QED BY <3>1, <3>2, <3>3, <3>4, Zenon
  <2> QED BY <2>1, <2>2 DEF Dots
<1>8. SubSeq(u, n + 2, n + 1 + k) = s
  <2>1. SubSeq(u, Len(v) + 1, Len(v) + Len(s)) = s
    BY <1>1, <1>3, Behind
  <2>2. Len(v) + 1 = n + 2 /\ Len(v) + Len(s) = n + 1 + k
    BY <1>0, <1>1, <1>3
  <2> QED BY <2>1, <2>2
<1>9. ASSUME NEW i \in 1..n, NEW j \in 1..n
      PROVE  SubSeq(u, i, j) = SubSeq(t, i, j)
  <2>1. SubSeq(u, i, j) = SubSeq(v, i, j)
    <3>1. i \in 1..Len(v) + 1 /\ j \in 0..Len(v) /\ i \in 1..Len(v) /\ j \in 1..Len(v)
      BY <1>0, <1>3
    <3> HIDE DEF u, n
    <3>2. SubSeq(v \o s, i, j) = SubSeq(v, i, j)
      BY <1>1, <1>3, <3>1, SubSeqOfConcat1
    <3> QED BY <3>2 DEF u
  <2>2. SubSeq(v, i, j) = SubSeq(t, i, j)
    BY <1>2, SubSeqOfConcat1 DEF v
  <2> QED BY <2>1, <2>2
<1>10. ASSUME \A i \in 1..n : t[i] # Bar, NEW i \in 1..n + 1 + k
       PROVE  u[i] # Bar
  <2>1. CASE i \in 1..n
    <3>1. u[i] = v[i] /\ v[i] = t[i]
      BY <1>3, <1>5, <2>1
    <3> QED BY <1>10, <2>1, <3>1, Zenon
  <2>2. CASE i = n + 1
    BY <1>3, <1>5, <2>2 DEF Dot, Bar
  <2>3. CASE i \in n + 2..n + 1 + k
    <3>1. i - (n + 1) \in 1..k
      BY <1>0, <2>3
    <3> QED BY <1>1, <1>6, <2>3, <3>1
  <2>4. i \in 1..n \/ i = n + 1 \/ i \in n + 2..n + 1 + k
    BY <1>0
  <2> QED BY <2>1, <2>2, <2>3, <2>4, Zenon
<1> QED BY <1>4, <1>7, <1>8, <1>9, <1>10 DEF Added, v

(* Such a text is an address for validIP, is no longer than the phone allows, and
   has no bar. *)
LEMMA DottedIsValid ==
  ASSUME NEW a \in Byte, NEW b \in Byte, NEW c \in Byte, NEW d \in Byte
  PROVE  LET t == Dotted(a, b, c, d)
         IN  /\ t \in Seq(Int) /\ Len(t) \in 7..15
             /\ validIP(t)
             /\ \A i \in 1..Len(t) : t[i] # Bar
<1>1. PICK ka \in 1..3, kb \in 1..3, kc \in 1..3, kd \in 1..3 :
        /\ Digits(Decimal(a), ka) /\ Digits(Decimal(b), kb)
        /\ Digits(Decimal(c), kc) /\ Digits(Decimal(d), kd)
  BY DecimalDigits
<1> DEFINE t1 == Decimal(a)
           t2 == t1 \o <<Dot>> \o Decimal(b)
           t3 == t2 \o <<Dot>> \o Decimal(c)
           t4 == t3 \o <<Dot>> \o Decimal(d)
<1>2. t4 = Dotted(a, b, c, d)
  BY DEF Dotted
<1>3. /\ t1 \in Seq(Int) /\ Len(t1) = ka /\ Dots(t1) = {} /\ \A i \in 1..ka : t1[i] # Bar
      /\ SubSeq(t1, 1, ka) = Decimal(a)
  <2>1. t1 \in Seq(Int) /\ Len(t1) = ka /\ \A i \in 1..ka : t1[i] # Bar /\ t1[i] # Dot
    BY <1>1 DEF Digits, Zero, Bar, Dot
  <2>2. DOMAIN t1 = 1..ka
    BY <2>1
  <2>3. SubSeq(t1, 1, ka) = t1
    BY <2>1, SubSeqFull
  <2> QED BY <2>1, <2>2, <2>3 DEF Dots
<1> HIDE DEF t1
<1>4. Added(t1, Decimal(b), kb, t2)
  BY <1>1, <1>3, AddPart, Zenon
<1> HIDE DEF t2
<1>5. Added(t2, Decimal(c), kc, t3)
  <2>1. t2 \in Seq(Int)
    BY <1>4 DEF Added
  <2> QED BY <1>1, <2>1, AddPart, Zenon
<1> HIDE DEF t3
<1>6. Added(t3, Decimal(d), kd, t4)
  <2>1. t3 \in Seq(Int)
    BY <1>5 DEF Added
  <2> QED BY <1>1, <2>1, AddPart, Zenon
<1> HIDE DEF t4
<1>7. PICK n1 \in Nat, n2 \in Nat, n3 \in Nat, n4 \in Nat :
        n1 = ka /\ n2 = n1 + 1 + kb /\ n3 = n2 + 1 + kc /\ n4 = n3 + 1 + kd
  OBVIOUS
<1>8. Len(t1) = n1 /\ Len(t2) = n2 /\ Len(t3) = n3 /\ Len(t4) = n4
  BY <1>3, <1>4, <1>5, <1>6, <1>7 DEF Added
<1>9. /\ 1 <= n1 /\ n1 + 2 <= n2 /\ n2 + 2 <= n3 /\ n3 + 2 <= n4 /\ n4 \in 7..15
  BY <1>7
<1>10. Dots(t4) = {n1 + 1, n2 + 1, n3 + 1}
  <2>1. Dots(t2) = {n1 + 1}
    BY <1>3, <1>4, <1>7 DEF Added
  <2>2. Dots(t3) = {n1 + 1, n2 + 1}
    BY <1>5, <1>8, <2>1 DEF Added
  <2> QED BY <1>6, <1>8, <2>2 DEF Added
<1>11. \A i \in 1..n4 : t4[i] # Bar
  <2>1. \A i \in 1..Len(t2) : t2[i] # Bar
    BY <1>3, <1>4 DEF Added
  <2>2. \A i \in 1..Len(t3) : t3[i] # Bar
    BY <1>5, <2>1 DEF Added
  <2> QED BY <1>6, <1>8, <2>2 DEF Added
<1>12. /\ \A i, j \in 1..n1 : SubSeq(t2, i, j) = SubSeq(t1, i, j)
       /\ \A i, j \in 1..n2 : SubSeq(t3, i, j) = SubSeq(t2, i, j)
       /\ \A i, j \in 1..n3 : SubSeq(t4, i, j) = SubSeq(t3, i, j)
  BY <1>4, <1>5, <1>6, <1>8 DEF Added
<1>13. SubSeq(t4, 1, n1) = Decimal(a)
  <2>1. /\ 1 \in 1..n1 /\ n1 \in 1..n1 /\ 1 \in 1..n2 /\ n1 \in 1..n2 /\ 1 \in 1..n3 /\ n1 \in 1..n3
    BY <1>9
  <2>2. SubSeq(t1, 1, n1) = Decimal(a)
    BY <1>3, <1>7
  <2> QED BY <1>12, <2>1, <2>2, Zenon
<1>14. SubSeq(t4, n1 + 2, n2) = Decimal(b)
  <2>1. /\ n1 + 2 \in 1..n2 /\ n2 \in 1..n2 /\ n1 + 2 \in 1..n3 /\ n2 \in 1..n3
    BY <1>9
  <2>2. SubSeq(t2, n1 + 2, n2) = Decimal(b)
    BY <1>4, <1>7, <1>8 DEF Added
  <2> QED BY <1>12, <2>1, <2>2, Zenon
<1>15. SubSeq(t4, n2 + 2, n3) = Decimal(c)
  <2>1. n2 + 2 \in 1..n3 /\ n3 \in 1..n3
    BY <1>9
  <2>2. SubSeq(t3, n2 + 2, n3) = Decimal(c)
    BY <1>5, <1>7, <1>8 DEF Added
  <2> QED BY <1>12, <2>1, <2>2, Zenon
<1>16. SubSeq(t4, n3 + 2, n4) = Decimal(d)
  BY <1>6, <1>7, <1>8 DEF Added
<1>17. t4 \in Seq(Int)
  BY <1>6 DEF Added
<1>18. Cardinality(Dots(t4)) = 3
  <2>1. Cardinality({n1 + 1}) = 1 /\ IsFiniteSet({n1 + 1})
    BY FS_Singleton
  <2>2. n2 + 1 \notin {n1 + 1} /\ n3 + 1 \notin {n1 + 1} \cup {n2 + 1}
    BY <1>9
  <2>3. Cardinality({n1 + 1} \cup {n2 + 1}) = 2 /\ IsFiniteSet({n1 + 1} \cup {n2 + 1})
    BY <2>1, <2>2, FS_AddElement
  <2>4. Cardinality(({n1 + 1} \cup {n2 + 1}) \cup {n3 + 1}) = 3
    BY <2>2, <2>3, FS_AddElement
  <2>5. Dots(t4) = ({n1 + 1} \cup {n2 + 1}) \cup {n3 + 1}
    BY <1>10
  <2> QED BY <2>4, <2>5
<1>19. ASSUME NEW s \in Parts(t4)
       PROVE  s \in {Decimal(a), Decimal(b), Decimal(c), Decimal(d)}
  <2> DEFINE borders == {0, Len(t4) + 1} \cup {i \in DOMAIN t4 : t4[i] = Dot}
  <2>1. borders = {0, n1 + 1, n2 + 1, n3 + 1, n4 + 1}
    BY <1>8, <1>10 DEF Dots
  <2>2. PICK p \in borders \X borders :
          /\ p[1] < p[2] /\ \A x \in borders : ~(p[1] < x /\ x < p[2])
          /\ s = SubSeq(t4, p[1] + 1, p[2] - 1)
    BY DEF Parts
  <2> HIDE DEF borders
  <2>3. PICK x \in borders, y \in borders :
          /\ x < y /\ \A z \in borders : ~(x < z /\ z < y)
          /\ s = SubSeq(t4, x + 1, y - 1)
    BY <2>2
  <2>4. \/ x = 0 /\ y = n1 + 1
        \/ x = n1 + 1 /\ y = n2 + 1
        \/ x = n2 + 1 /\ y = n3 + 1
        \/ x = n3 + 1 /\ y = n4 + 1
    BY <1>9, <2>1, <2>3
  <2>5. CASE x = 0 /\ y = n1 + 1
    BY <1>13, <2>3, <2>5
  <2>6. CASE x = n1 + 1 /\ y = n2 + 1
    BY <1>14, <2>3, <2>6
  <2>7. CASE x = n2 + 1 /\ y = n3 + 1
    BY <1>15, <2>3, <2>7
  <2>8. CASE x = n3 + 1 /\ y = n4 + 1
    BY <1>16, <2>3, <2>8
  <2> QED BY <2>4, <2>5, <2>6, <2>7, <2>8
<1>20. validIP(t4)
  <2>1. \A n \in Byte : \E i \in ParseInt(Decimal(n)) : i \in 0..255
    <3> TAKE n \in Byte
    <3>1. n \in ParseInt(Decimal(n))
      BY DecimalIsParsed
    <3> QED BY <3>1 DEF Byte
  <2> QED BY <1>18, <1>19, <2>1, ZenonT(60) DEF validIP
<1> QED BY <1>2, <1>8, <1>9, <1>11, <1>17, <1>20

(* The phone takes every bar code of the server: whatever the four bytes of the
   address and the eight characters of the password are, onActivityResult finds
   the bar behind the address, the length between its two limits, and an address
   that split and parseInt accept, and connects with just that address and that
   password (StartActivity.java:61-90, ClientLogic.java:197-223,
   BarcodeCreator.cpp:21-27). *)
THEOREM AddressIsTaken ==
  ASSUME NEW a \in Byte, NEW b \in Byte, NEW c \in Byte, NEW d \in Byte,
         NEW pass \in Seq(Int), Len(pass) = PASS_LENGTH
  PROVE  Scanned(BarcodeText(Dotted(a, b, c, d), pass)) = {[ip |-> Dotted(a, b, c, d), pass |-> pass]}
<1> DEFINE ip == Dotted(a, b, c, d)
           front == ip \o <<Bar>>
           t == BarcodeText(ip, pass)
<1>1. ip \in Seq(Int) /\ Len(ip) \in 7..15 /\ validIP(ip) /\ \A i \in 1..Len(ip) : ip[i] # Bar
  BY DottedIsValid
<1> HIDE DEF ip
<1>2. PICK n \in 7..15 : Len(ip) = n
  BY <1>1
<1>3. Len(pass) = 8 /\ <<Bar>> \in Seq(Int) /\ Len(<<Bar>>) = 1 /\ <<Bar>>[1] = Bar
  BY DEF Bar, PASS_LENGTH
<1>4. /\ front \in Seq(Int) /\ Len(front) = n + 1 /\ front[n + 1] = Bar
      /\ \A i \in 1..n : front[i] = ip[i]
  BY <1>1, <1>2, <1>3
<1>5. t = front \o pass
  BY DEF BarcodeText
<1> HIDE DEF front, t
<1>6. t \in Seq(Int) /\ Len(t) = n + 9 /\ \A i \in 1..n + 1 : t[i] = front[i]
  <2>1. t \in Seq(Int) /\ Len(t) = Len(front) + Len(pass) /\ \A i \in 1..Len(front) : t[i] = front[i]
    BY <1>4, <1>5, Joined
  <2> QED BY <1>3, <1>4, <2>1
<1>7. IndexOf(t, Bar) = n + 1
  <2>0. DOMAIN t = 1..n + 9 /\ n \in Nat
    BY <1>6
  <2>1. n + 1 \in Nat \ {0} /\ n + 1 \in DOMAIN t /\ DOMAIN t \subseteq Nat
    BY <2>0
  <2>2. t[n + 1] = Bar
    BY <1>4, <1>6
  <2>3. \A i \in DOMAIN t : i < n + 1 => t[i] # Bar
    BY <1>1, <1>2, <1>4, <1>6
  <2> QED BY <2>1, <2>2, <2>3, FirstPlace
<1>8. SubSeq(t, 1, n) = ip
  <2>1. /\ 1 \in 1..n /\ n \in 1..n /\ 1 \in 1..Len(front) /\ n \in 1..Len(front)
    BY <1>4
  <2>2. SubSeq(t, 1, n) = SubSeq(front, 1, n)
    BY <1>3, <1>4, <1>5, <2>1, SubSeqOfConcat1
  <2>3. SubSeq(front, 1, n) = SubSeq(ip, 1, n)
    BY <1>1, <1>2, <1>3, <2>1, SubSeqOfConcat1 DEF front
  <2>4. SubSeq(ip, 1, n) = ip
    BY <1>1, <1>2, SubSeqFull
  <2> QED BY <2>2, <2>3, <2>4
<1>9. SubSeq(t, n + 2, n + 9) = pass
  <2>1. SubSeq(t, Len(front) + 1, Len(front) + Len(pass)) = pass
    BY <1>4, <1>5, Behind
  <2>2. Len(front) + 1 = n + 2 /\ Len(front) + Len(pass) = n + 9
    BY <1>3, <1>4
  <2> QED BY <2>1, <2>2
<1>10. (n + 1) - 1 = n /\ (n + 1) + 1 = n + 2 /\ n + 1 # 0 /\ n + 9 \in MIN_SCAN_DATA_LEN..MAX_SCAN_DATA_LEN
  BY DEF MIN_SCAN_DATA_LEN, MAX_SCAN_DATA_LEN
<1>11. Scanned(t) = {[ip |-> ip, pass |-> pass]}
  BY <1>1, <1>6, <1>7, <1>8, <1>9, <1>10, Zenon DEF Scanned
<1> QED BY <1>11 DEF ip, t

(* The server lets in whoever sends the password it drew: getClients cuts the
   eight characters behind the bar out of what it received, and finds the password
   there whatever the buffer still holds behind it (ClientLogic.java:169,
   main.cpp:133-139). *)
THEOREM LoginIsRight ==
  ASSUME NEW pass \in Seq(Int), Len(pass) = PASS_LENGTH, NEW left \in Seq(Int)
  PROVE  RightPassword(LoginMessage(pass) \o left, pass)
<1> DEFINE front == <<49, Bar>>
           tail == pass \o left
           t == LoginMessage(pass) \o left
<1>1. Len(pass) = 8
  BY DEF PASS_LENGTH
<1>2. front \in Seq(Int) /\ Len(front) = 2 /\ front[1] # Bar /\ front[2] = Bar
  BY DEF Bar
<1>3. tail \in Seq(Int) /\ Len(tail) = 8 + Len(left) /\ Len(left) \in Nat
  <2>1. tail \in Seq(Int) /\ Len(tail) = Len(pass) + Len(left) /\ Len(left) \in Nat
    BY Joined, Zenon
  <2> QED BY <1>1, <2>1, Zenon
<1> HIDE DEF front
<1>4. t = front \o tail
  <2>1. LoginMessage(pass) = front \o pass
    BY DEF LoginMessage, front
  <2>2. (front \o pass) \o left = front \o (pass \o left)
    BY <1>2, Associative
  <2> QED BY <2>1, <2>2
<1> HIDE DEF tail, t
<1>5. t \in Seq(Int) /\ Len(t) = 2 + Len(tail) /\ t[1] # Bar /\ t[2] = Bar
  <2>1. t \in Seq(Int) /\ Len(t) = Len(front) + Len(tail) /\ \A i \in 1..Len(front) : t[i] = front[i]
    BY <1>2, <1>3, <1>4, Joined
  <2> QED BY <1>2, <2>1
<1>6. IndexOf(t, Bar) = 2
  <2>1. PICK n \in Nat \ {0} : n = 2
    OBVIOUS
  <2>2. DOMAIN t = 1..Len(t) /\ n \in DOMAIN t /\ DOMAIN t \subseteq Nat /\ t[n] = Bar
    BY <1>3, <1>5, <2>1
  <2>3. \A i \in DOMAIN t : i < n => t[i] # Bar
    BY <1>3, <1>5, <2>1, <2>2
  <2>4. IndexOf(t, Bar) = n
    BY <2>2, <2>3, FirstPlace
  <2> QED BY <2>1, <2>4
<1>7. SubSeq(t, 3, Len(t)) = tail
  <2>1. SubSeq(t, Len(front) + 1, Len(front) + Len(tail)) = tail
    BY <1>2, <1>3, <1>4, Behind
  <2> QED BY <1>2, <1>5, <2>1
<1>8. SubSeq(tail, 1, 8) = pass
  <2>1. pass # <<>>
    <3>1. Len(<<>>) = 0 /\ 8 # 0
      OBVIOUS
    <3> QED BY <1>1, <3>1, Zenon
  <2> QED BY <1>1, <2>1, InFront DEF tail
<1>9. ~(Len(tail) < 8) /\ 2 + 1 = 3
  BY <1>3
<1>10. RightPassword(t, pass)
  BY <1>6, <1>7, <1>8, <1>9, Zenon DEF RightPassword
<1> QED BY <1>10 DEF t

-----------------------------------------------------------------------------
Square(s, w) == DOMAIN s = Places(w)

LEMMA SquareSide ==
  ASSUME NEW w \in Nat, NEW s, Square(s, w)
  PROVE  Cardinality(DOMAIN s) = w
<1>1. 0 \in Int /\ w - 1 \in Int /\ (IF 0 > w - 1 THEN 0 ELSE w - 1 - 0 + 1) = w
  OBVIOUS
<1>2. Cardinality(0..w - 1) = IF 0 > w - 1 THEN 0 ELSE w - 1 - 0 + 1
  BY <1>1, FS_Interval
<1> QED BY <1>1, <1>2 DEF Square, Places

LEMMA DarkPlaces ==
  ASSUME NEW w \in Nat, NEW s, Square(s, w), NEW m \in DarkModules(s)
  PROVE  m[1] \in 0..w - 1 /\ m[2] \in 0..w - 1 /\ m[1] \in Nat /\ m[2] \in Nat
BY DEF DarkModules, Square, Places

LEMMA Distribute ==
  ASSUME NEW a \in Int, NEW k \in Int
  PROVE  (a + 1) * k = a * k + k
OBVIOUS

LEMMA ShownBySVG ==
  ASSUME NEW w \in Nat \ {0}, NEW s, Square(s, w), NEW margin \in Nat, NEW size \in Nat \ {0}
  PROVE  Seen(WriteSVG(s, margin, size)) = Magnified(s, margin, size, size)
<1> DEFINE p == WriteSVG(s, margin, size)
           r(m) == [x |-> (m[1] + margin) * size, y |-> (m[2] + margin) * size, side |-> size]
           field(q) == (q.x..q.x + q.side - 1) \X (q.y..q.y + q.side - 1)
           module(m) == ((margin + m[1]) * size..(margin + m[1] + 1) * size - 1)
                        \X ((margin + m[2]) * size..(margin + m[2] + 1) * size - 1)
<1>1. Cardinality(DOMAIN s) = w
  BY SquareSide
<1>2. /\ p.type = "SVG" /\ p.realwidth = (w + margin * 2) * size
      /\ p.rects = {r(m) : m \in DarkModules(s)}
  BY <1>1 DEF WriteSVG
<1>3. Seen(p) = [width |-> p.realwidth, height |-> p.realwidth, dark |-> UNION {field(q) : q \in p.rects}]
  <2> HIDE DEF p
  <2> QED BY <1>2 DEF Seen
<1>4. \A m \in DarkModules(s) : field(r(m)) = module(m)
  <2> TAKE m \in DarkModules(s)
  <2>1. m[1] \in Nat /\ m[2] \in Nat
    BY DarkPlaces
  <2>2. ASSUME NEW i \in Nat
        PROVE  (i + margin) * size + size - 1 = (margin + i + 1) * size - 1 /\ (i + margin) * size = (margin + i) * size
    <3>1. i + margin \in Int /\ margin + i = i + margin /\ size \in Int
      OBVIOUS
    <3>2. (i + margin + 1) * size = (i + margin) * size + size
      BY <3>1, Distribute
    <3> QED BY <3>1, <3>2
  <2> QED BY <2>1, <2>2
<1> HIDE DEF p, r, field, module
<1>5. {field(q) : q \in p.rects} = {module(m) : m \in DarkModules(s)}
  BY <1>2, <1>4
<1>6. (w + margin * 2) * size = (w + 2 * margin) * size
  <2>1. margin * 2 = 2 * margin
    OBVIOUS
  <2> QED BY <2>1, Zenon
<1> QED BY <1>1, <1>2, <1>3, <1>5, <1>6 DEF Magnified, p, module

LEMMA ShownByEPS ==
  ASSUME NEW w \in Nat \ {0}, NEW s, Square(s, w), NEW margin \in Nat, NEW size \in Nat \ {0}
  PROVE  Seen(WriteEPS(s, margin, size)) = Magnified(s, margin, size, size)
<1> DEFINE p == WriteEPS(s, margin, size)
           side == (w + margin * 2) * size
           point(m) == <<margin + m[1], margin + w - m[2] - 1>>
           field(q) == {<<size * q[1] + i, side - 1 - (size * q[2] + j)>> : i \in 0..size - 1, j \in 0..size - 1}
           module(m) == ((margin + m[1]) * size..(margin + m[1] + 1) * size - 1)
                        \X ((margin + m[2]) * size..(margin + m[2] + 1) * size - 1)
<1>1. Cardinality(DOMAIN s) = w
  BY SquareSide
<1>2. /\ p.type = "EPS" /\ p.realwidth = side /\ p.scale = size
      /\ p.points = {point(m) : m \in DarkModules(s)}
  BY <1>1 DEF WriteEPS
<1>3. Seen(p) = [width |-> p.realwidth, height |-> p.realwidth, dark |-> UNION {field(q) : q \in p.points}]
  <2> HIDE DEF p, side
  <2> QED BY <1>2 DEF Seen
<1>4. \A m \in DarkModules(s) : field(point(m)) = module(m)
  <2> TAKE m \in DarkModules(s)
  <2>1. PICK x \in Nat, y \in Nat : x = m[1] /\ y = m[2]
    BY DarkPlaces
  <2>2. PICK a \in Int : a = size * (margin + x)
    OBVIOUS
  <2>3. PICK b \in Int : b = (margin + y) * size
    OBVIOUS
  <2>4. (margin + x) * size = a /\ (margin + x + 1) * size - 1 = a + size - 1
    <3>1. margin + x \in Int /\ size \in Int
      OBVIOUS
    <3> QED BY <2>2, <3>1, Distribute
  <2>5. (margin + y) * size = b /\ (margin + y + 1) * size - 1 = b + size - 1
    <3>1. margin + y \in Int /\ size \in Int
      OBVIOUS
    <3> QED BY <2>3, <3>1, Distribute
  <2>6. side - 1 - size * (margin + w - y - 1) = b + size - 1
    <3>1. (w + margin * 2) * size = size * (margin + w - y - 1) + (margin + y + 1) * size
      <4>1. PICK u \in Int, v \in Int : u = margin + w - y - 1 /\ v = margin + y + 1
        OBVIOUS
      <4>2. w + margin * 2 = u + v
        BY <4>1
      <4>3. (u + v) * size = size * u + v * size
        OBVIOUS
      <4> QED BY <4>1, <4>2, <4>3
    <3>2. size * (margin + w - y - 1) \in Int /\ side \in Int
      OBVIOUS
    <3> QED BY <2>5, <3>1, <3>2
  <2>7. point(m) = <<margin + x, margin + w - y - 1>>
    BY <2>1
  <2>8. \A j \in Int : side - 1 - (size * (margin + w - y - 1) + j) = b + size - 1 - j
    <3>1. PICK c \in Int : c = size * (margin + w - y - 1)
      OBVIOUS
    <3>2. side \in Int
      OBVIOUS
    <3> HIDE DEF side
    <3> QED BY <2>6, <3>1, <3>2
  <2>9. field(point(m)) = {<<a + i, b + size - 1 - j>> : i \in 0..size - 1, j \in 0..size - 1}
    <3> DEFINE h(i, j) == <<size * point(m)[1] + i, side - 1 - (size * point(m)[2] + j)>>
               g(i, j) == <<a + i, b + size - 1 - j>>
    <3>1. point(m)[1] = margin + x /\ point(m)[2] = margin + w - y - 1
      BY <2>7
    <3>2. field(point(m)) = {h(i, j) : i \in 0..size - 1, j \in 0..size - 1}
      OBVIOUS
    <3>3. \A i \in 0..size - 1, j \in 0..size - 1 : h(i, j) = g(i, j)
      <4> HIDE DEF side, point
      <4>1. \A j \in 0..size - 1 : j \in Int
        OBVIOUS
      <4>2. \A j \in Int : side - 1 - (size * point(m)[2] + j) = b + size - 1 - j
        BY <2>8, <3>1
      <4> QED BY <2>2, <3>1, <4>1, <4>2
    <3> HIDE DEF h, g, point, field
    <3>4. {h(i, j) : i \in 0..size - 1, j \in 0..size - 1} = {g(i, j) : i \in 0..size - 1, j \in 0..size - 1}
      BY <3>3
    <3> QED BY <3>2, <3>4 DEF g
  <2>10. module(m) = (a..a + size - 1) \X (b..b + size - 1)
    BY <2>1, <2>4, <2>5
  <2>11. {<<a + i, b + size - 1 - j>> : i \in 0..size - 1, j \in 0..size - 1} = (a..a + size - 1) \X (b..b + size - 1)
    <3>1. ASSUME NEW i \in 0..size - 1, NEW j \in 0..size - 1
          PROVE  a + i \in a..a + size - 1 /\ b + size - 1 - j \in b..b + size - 1
      OBVIOUS
    <3>2. ASSUME NEW X \in a..a + size - 1, NEW Y \in b..b + size - 1
          PROVE  \E i \in 0..size - 1, j \in 0..size - 1 : <<X, Y>> = <<a + i, b + size - 1 - j>>
      <4>1. X - a \in 0..size - 1 /\ b + size - 1 - Y \in 0..size - 1
        OBVIOUS
      <4>2. X = a + (X - a) /\ Y = b + size - 1 - (b + size - 1 - Y)
        OBVIOUS
      <4> QED BY <4>1, <4>2
    <3> QED BY <3>1, <3>2
  <2> HIDE DEF point, field, module
  <2> QED BY <2>9, <2>10, <2>11
<1> HIDE DEF p, point, field, module, side
<1>5. {field(q) : q \in p.points} = {module(m) : m \in DarkModules(s)}
  BY <1>2, <1>4
<1>6. side = (w + 2 * margin) * size
  <2>1. margin * 2 = 2 * margin
    OBVIOUS
  <2> QED BY <2>1, Zenon DEF side
<1> QED BY <1>1, <1>2, <1>3, <1>5, <1>6 DEF Magnified, p, module

LEMMA DivMod ==
  ASSUME NEW q \in Int, NEW d \in Nat \ {0}, NEW r \in 0..d - 1
  PROVE  (d * q + r) \div d = q /\ (d * q + r) % d = r
<1>1. PICK p \in Int : p = d * q
  OBVIOUS
<1>2. PICK k \in Int, e \in 0..d - 1 : k = (p + r) \div d /\ e = (p + r) % d /\ p + r = d * k + e
  OBVIOUS
<1>3. d * (q - k) = e - r
  <2>1. d * (q - k) = d * q - d * k
    OBVIOUS
  <2>2. PICK c \in Int : c = d * k
    OBVIOUS
  <2> QED BY <1>1, <1>2, <2>1, <2>2
<1>4. ASSUME q - k >= 1 PROVE FALSE
  <2>1. d * (q - k) >= d
    BY <1>4
  <2> QED BY <1>3, <2>1
<1>5. ASSUME q - k <= -1 PROVE FALSE
  <2>1. d * (q - k) <= -d
    BY <1>5
  <2> QED BY <1>3, <2>1
<1>6. q = k
  BY <1>4, <1>5
<1>7. e = r
  BY <1>3, <1>6
<1> QED BY <1>1, <1>2, <1>6, <1>7

LEMMA ShownByBitmap ==
  ASSUME NEW w \in Nat \ {0}, NEW s, Square(s, w)
  PROVE  Seen(Bitmap(s)) = Magnified(s, 0, 8, 8)
<1> DEFINE p == Bitmap(s)
           start(m) == 24 * w * m[2] * 8 + 3 * 8 * m[1]
           field(m) == {start(m) + n * 3 + 24 * w * l : n \in 0..7, l \in 0..7}
           place(o) == <<(o % (24 * w)) \div 3, o \div (24 * w)>>
           module(m) == ((0 + m[1]) * 8..(0 + m[1] + 1) * 8 - 1)
                        \X ((0 + m[2]) * 8..(0 + m[2] + 1) * 8 - 1)
<1>1. Cardinality(DOMAIN s) = w
  BY SquareSide
<1>2. /\ p.type = "BMP" /\ p.biWidth = 8 * w /\ p.biHeight = -(8 * w)
      /\ p.offsets = UNION {field(m) : m \in DarkModules(s)}
  <2>1. w * 8 = 8 * w /\ w * 8 * 3 = 24 * w /\ (24 * w) % 4 = 0
    OBVIOUS
  <2> QED BY <1>1, <2>1 DEF Bitmap, OUT_FILE_PIXEL_PRESCALER
<1>3. Seen(p) = [width |-> 8 * w, height |-> 8 * w, dark |-> {place(o) : o \in p.offsets}]
  <2>1. ((3 * (8 * w) + 3) \div 4) * 4 = 24 * w /\ -(8 * w) < 0 /\ Abs(-(8 * w)) = 8 * w
    BY DEF Abs
  <2> DEFINE stride == ((3 * p.biWidth + 3) \div 4) * 4
             row(o) == IF p.biHeight < 0 THEN o \div stride ELSE p.biHeight - 1 - (o \div stride)
  <2>2. Seen(p) = [width |-> p.biWidth, height |-> Abs(p.biHeight),
                   dark |-> {<<(o % stride) \div 3, row(o)>> : o \in p.offsets}]
    <3>1. p.type = "BMP"
      BY <1>2
    <3> HIDE DEF p
    <3> QED BY <3>1 DEF Seen
  <2>3. stride = 24 * w /\ p.biHeight < 0
    <3> HIDE DEF p
    <3> QED BY <1>2, <2>1
  <2>4. \A o : <<(o % stride) \div 3, row(o)>> = place(o)
    BY <2>3, Zenon
  <2>5. {<<(o % stride) \div 3, row(o)>> : o \in p.offsets} = {place(o) : o \in p.offsets}
    <3> HIDE DEF row, stride, place, p
    <3> QED BY <2>4
  <2> HIDE DEF p, row, stride, place
  <2> QED BY <1>2, <2>1, <2>2, <2>5
<1>4. \A m \in DarkModules(s) : {place(o) : o \in field(m)} = module(m)
  <2> TAKE m \in DarkModules(s)
  <2>1. PICK x \in 0..w - 1, y \in 0..w - 1 : x = m[1] /\ y = m[2]
    BY DarkPlaces
  <2>2. \A n \in 0..7, l \in 0..7 : place(start(m) + n * 3 + 24 * w * l) = <<8 * x + n, 8 * y + l>>
    <3> TAKE n \in 0..7, l \in 0..7
    <3>1. PICK d \in Nat \ {0} : d = 24 * w
      OBVIOUS
    <3>2. 24 * x + 3 * n \in 0..d - 1
      BY <3>1
    <3>3. start(m) + n * 3 + 24 * w * l = d * (8 * y + l) + (24 * x + 3 * n)
      <4>1. start(m) = d * y * 8 + 24 * x
        BY <2>1, <3>1
      <4>2. d * y * 8 + d * l = d * (8 * y + l)
        OBVIOUS
      <4>3. 24 * w * l = d * l
        BY <3>1
      <4> HIDE DEF start
      <4> QED BY <4>1, <4>2, <4>3
    <3>4. PICK q \in Int, r \in 0..d - 1 : q = 8 * y + l /\ r = 24 * x + 3 * n
      BY <3>2
    <3>5. (d * q + r) \div d = q /\ (d * q + r) % d = r
      BY DivMod
    <3>6. (24 * x + 3 * n) \div 3 = 8 * x + n
      OBVIOUS
    <3> HIDE DEF start
    <3> QED BY <3>1, <3>3, <3>4, <3>5, <3>6, Zenon
  <2>3. {place(o) : o \in field(m)} = {<<8 * x + n, 8 * y + l>> : n \in 0..7, l \in 0..7}
    <3> DEFINE g(n, l) == start(m) + n * 3 + 24 * w * l
               h(n, l) == place(g(n, l))
               f(n, l) == <<8 * x + n, 8 * y + l>>
    <3>1. field(m) = {g(n, l) : n \in 0..7, l \in 0..7}
      OBVIOUS
    <3>2. \A n \in 0..7, l \in 0..7 : h(n, l) = f(n, l)
      BY <2>2
    <3> HIDE DEF g, place, field
    <3>3. {place(o) : o \in field(m)} = {h(n, l) : n \in 0..7, l \in 0..7}
      BY <3>1
    <3> HIDE DEF h, f
    <3>4. {h(n, l) : n \in 0..7, l \in 0..7} = {f(n, l) : n \in 0..7, l \in 0..7}
      BY <3>2
    <3> QED BY <3>3, <3>4 DEF f
  <2>4. module(m) = (8 * x..8 * x + 7) \X (8 * y..8 * y + 7)
    BY <2>1
  <2>5. {<<8 * x + n, 8 * y + l>> : n \in 0..7, l \in 0..7} = (8 * x..8 * x + 7) \X (8 * y..8 * y + 7)
    <3>1. ASSUME NEW X \in 8 * x..8 * x + 7, NEW Y \in 8 * y..8 * y + 7
          PROVE  \E n \in 0..7, l \in 0..7 : <<X, Y>> = <<8 * x + n, 8 * y + l>>
      <4>1. X - 8 * x \in 0..7 /\ Y - 8 * y \in 0..7 /\ X = 8 * x + (X - 8 * x) /\ Y = 8 * y + (Y - 8 * y)
        OBVIOUS
      <4> QED BY <4>1
    <3> QED BY <3>1
  <2> HIDE DEF place, field, module
  <2> QED BY <2>3, <2>4, <2>5
<1> HIDE DEF p, field, place, module
<1>5. {place(o) : o \in p.offsets} = UNION {module(m) : m \in DarkModules(s)}
  BY <1>2, <1>4
<1>6. (w + 2 * 0) * 8 = 8 * w
  OBVIOUS
<1> QED BY <1>1, <1>3, <1>5, <1>6 DEF Magnified, p, module

\* The module in column i of row j is dark.
Lit(s, w, i, j) == i \in 0..w - 1 /\ j \in 0..w - 1 /\ s[j][i] = 1

\* The places of the dark modules, each sx wide and sy high, in a margin.
LitPlaces(s, w, margin, sx, sy) ==
  {q \in Int \X Int : Lit(s, w, (q[1] \div sx) - margin, (q[2] \div sy) - margin)}

LEMMA Within ==
  ASSUME NEW x \in Int, NEW q \in Int, NEW d \in Nat \ {0}
  PROVE  x \in q * d..(q + 1) * d - 1 <=> x \div d = q
<1>1. (q + 1) * d = q * d + d /\ d * q = q * d
  BY Distribute
<1>2. ASSUME x \in q * d..(q + 1) * d - 1 PROVE x \div d = q
  <2>1. PICK p \in Int : p = d * q
    OBVIOUS
  <2>2. PICK r \in 0..d - 1 : x = p + r
    <3>1. x - p \in 0..d - 1 /\ x = p + (x - p)
      BY <1>1, <1>2, <2>1
    <3> QED BY <3>1
  <2> QED BY <2>1, <2>2, DivMod
<1>3. ASSUME x \div d = q PROVE x \in q * d..(q + 1) * d - 1
  <2>1. x = d * (x \div d) + (x % d) /\ x % d \in 0..d - 1
    OBVIOUS
  <2>2. PICK p \in Int, r \in 0..d - 1 : p = q * d /\ x = p + r
    BY <1>1, <1>3, <2>1
  <2> QED BY <1>1, <2>2
<1> QED BY <1>2, <1>3

LEMMA MagnifiedPlaces ==
  ASSUME NEW w \in Nat \ {0}, NEW s, Square(s, w), NEW margin \in Nat,
         NEW sx \in Nat \ {0}, NEW sy \in Nat \ {0}
  PROVE  Magnified(s, margin, sx, sy) =
           [width |-> (w + 2 * margin) * sx, height |-> (w + 2 * margin) * sy,
            dark |-> LitPlaces(s, w, margin, sx, sy)]
<1> DEFINE module(m) == ((margin + m[1]) * sx..(margin + m[1] + 1) * sx - 1)
                        \X ((margin + m[2]) * sy..(margin + m[2] + 1) * sy - 1)
           dark == UNION {module(m) : m \in DarkModules(s)}
           lit(q) == Lit(s, w, (q[1] \div sx) - margin, (q[2] \div sy) - margin)
<1>1. Cardinality(DOMAIN s) = w
  BY SquareSide
<1>2. \A m \in DarkModules(s) : m[1] \in 0..w - 1 /\ m[2] \in 0..w - 1 /\ s[m[2]][m[1]] = 1
  BY DarkPlaces DEF DarkModules
<1>3. \A i \in 0..w - 1, j \in 0..w - 1 : s[j][i] = 1 => <<i, j>> \in DarkModules(s)
  BY DEF DarkModules, Square, Places
<1>4. ASSUME NEW x \in Int, NEW i \in Int, NEW d \in Nat \ {0}
      PROVE  x \in (margin + i) * d..(margin + i + 1) * d - 1 <=> (x \div d) - margin = i
  <2>1. PICK q \in Int : q = margin + i
    OBVIOUS
  <2>2. x \in q * d..(q + 1) * d - 1 <=> x \div d = q
    BY Within
  <2>3. x \div d \in Int
    OBVIOUS
  <2>4. x \div d = q <=> (x \div d) - margin = i
    BY <2>1, <2>3
  <2> QED BY <2>1, <2>2, <2>4
<1>5. ASSUME NEW x \in Int, NEW y \in Int, NEW m \in DarkModules(s)
      PROVE  <<x, y>> \in module(m) <=> (x \div sx) - margin = m[1] /\ (y \div sy) - margin = m[2]
  <2>1. m[1] \in Int /\ m[2] \in Int
    BY <1>2
  <2>2. x \in (margin + m[1]) * sx..(margin + m[1] + 1) * sx - 1 <=> (x \div sx) - margin = m[1]
    BY <1>4, <2>1
  <2>3. y \in (margin + m[2]) * sy..(margin + m[2] + 1) * sy - 1 <=> (y \div sy) - margin = m[2]
    BY <1>4, <2>1
  <2> QED BY <2>2, <2>3
<1>6. \A m \in DarkModules(s) : module(m) \subseteq Int \X Int
  <2> TAKE m \in DarkModules(s)
  <2>1. PICK a \in Int, b \in Int, c \in Int, d \in Int :
          a = (margin + m[1]) * sx /\ b = (margin + m[1] + 1) * sx - 1
          /\ c = (margin + m[2]) * sy /\ d = (margin + m[2] + 1) * sy - 1
    BY <1>2
  <2>2. module(m) = (a..b) \X (c..d)
    BY <2>1
  <2> QED BY <2>2
<1> HIDE DEF module
<1>7. ASSUME NEW x \in Int, NEW y \in Int
      PROVE  <<x, y>> \in dark <=> lit(<<x, y>>)
  <2>1. PICK i \in Int, j \in Int : i = (x \div sx) - margin /\ j = (y \div sy) - margin
    <3>1. (x \div sx) - margin \in Int /\ (y \div sy) - margin \in Int
      OBVIOUS
    <3> QED BY <3>1
  <2>2. lit(<<x, y>>) <=> Lit(s, w, i, j)
    BY <2>1
  <2>3. ASSUME NEW m \in DarkModules(s), <<x, y>> \in module(m) PROVE Lit(s, w, i, j)
    BY <1>2, <1>5, <2>1, <2>3 DEF Lit
  <2>4. ASSUME Lit(s, w, i, j) PROVE <<x, y>> \in dark
    <3>1. <<i, j>> \in DarkModules(s)
      BY <1>3, <2>4 DEF Lit
    <3>2. <<x, y>> \in module(<<i, j>>)
      BY <1>5, <2>1, <3>1
    <3> QED BY <3>1, <3>2
  <2> HIDE DEF lit
  <2> QED BY <2>2, <2>3, <2>4
<1>8. dark = {q \in Int \X Int : lit(q)}
  <2>1. dark \subseteq Int \X Int
    BY <1>6
  <2>2. \A q \in Int \X Int : q \in dark <=> lit(q)
    <3> TAKE q \in Int \X Int
    <3>1. PICK x \in Int, y \in Int : q = <<x, y>>
      OBVIOUS
    <3> HIDE DEF dark, lit
    <3> QED BY <1>7, <3>1
  <2> HIDE DEF dark, lit
  <2> QED BY <2>1, <2>2
<1>9. Magnified(s, margin, sx, sy) = [width |-> (w + 2 * margin) * sx, height |-> (w + 2 * margin) * sy, dark |-> dark]
  BY <1>1 DEF Magnified, module
<1> HIDE DEF dark
<1> QED BY <1>8, <1>9 DEF LitPlaces

Joins(t, a, b, S) ==
  /\ t \in Seq(S) /\ Len(t) = Len(a) + Len(b)
  /\ \A i \in 1..Len(a) : t[i] = a[i]
  /\ \A i \in 1..Len(b) : t[Len(a) + i] = b[i]

LEMMA Two ==
  ASSUME NEW S, NEW a \in Seq(S), NEW b \in Seq(S)
  PROVE  Joins(a \o b, a, b, S)
BY DEF Joins

JoinsThree(t, a, b, c, S) ==
  /\ t \in Seq(S) /\ Len(t) = Len(a) + Len(b) + Len(c)
  /\ \A i \in 1..Len(a) : t[i] = a[i]
  /\ \A i \in 1..Len(b) : t[Len(a) + i] = b[i]
  /\ \A i \in 1..Len(c) : t[Len(a) + Len(b) + i] = c[i]

LEMMA Three ==
  ASSUME NEW S, NEW a \in Seq(S), NEW b \in Seq(S), NEW c \in Seq(S)
  PROVE  JoinsThree(a \o b \o c, a, b, c, S)
<1> DEFINE u == a \o b
           t == u \o c
<1>1. Len(a) \in Nat /\ Len(b) \in Nat /\ Len(c) \in Nat
  OBVIOUS
<1>2. /\ u \in Seq(S) /\ Len(u) = Len(a) + Len(b)
      /\ \A i \in 1..Len(a) : u[i] = a[i]
      /\ \A i \in 1..Len(b) : u[Len(a) + i] = b[i]
  <2>1. Joins(u, a, b, S)
    BY Two, Zenon
  <2> QED BY <2>1 DEF Joins
<1> HIDE DEF u
<1>3. /\ t \in Seq(S) /\ Len(t) = Len(u) + Len(c)
      /\ \A i \in 1..Len(u) : t[i] = u[i]
      /\ \A i \in 1..Len(c) : t[Len(u) + i] = c[i]
  <2>1. Joins(t, u, c, S)
    BY <1>2, Two, Zenon
  <2> HIDE DEF t
  <2> QED BY <2>1 DEF Joins
<1> HIDE DEF t
<1>4. \A i \in 1..Len(a) : t[i] = a[i]
  BY <1>1, <1>2, <1>3
<1>5. \A i \in 1..Len(b) : t[Len(a) + i] = b[i]
  <2> TAKE i \in 1..Len(b)
  <2>1. Len(a) + i \in 1..Len(u)
    BY <1>1, <1>2
  <2> QED BY <1>2, <1>3, <2>1
<1>6. JoinsThree(t, a, b, c, S)
  BY <1>1, <1>2, <1>3, <1>4, <1>5 DEF JoinsThree
<1> QED BY <1>6 DEF t, u

\* The places of a character in a picture made of lines of characters.
Inked(lines, ink) ==
  UNION {{<<c - 1, l - 1>> : c \in {d \in DOMAIN lines[l] : lines[l][d] = ink}} : l \in DOMAIN lines}

\* The character stands in both columns of a dark module, and nowhere else.
InksModules(lines, ink, s, w, margin) ==
  /\ DOMAIN lines = 1..w + 2 * margin
  /\ \A l \in 1..w + 2 * margin : DOMAIN lines[l] = 1..2 * (w + 2 * margin)
  /\ \A x \in 1..2 * (w + 2 * margin), l \in 1..w + 2 * margin :
       lines[l][x] = ink <=> Lit(s, w, ((x - 1) \div 2) - margin, l - 1 - margin)

LEMMA ShownByLines ==
  ASSUME NEW w \in Nat \ {0}, NEW s, Square(s, w), NEW margin \in Nat, NEW lines, NEW ink,
         InksModules(lines, ink, s, w, margin)
  PROVE  Inked(lines, ink)
           = LitPlaces(s, w, margin, 2, 1)
<1> DEFINE n == w + 2 * margin
           inked(l) == {d \in DOMAIN lines[l] : lines[l][d] = ink}
           places(l) == {<<c - 1, l - 1>> : c \in inked(l)}
           lit(q) == Lit(s, w, (q[1] \div 2) - margin, (q[2] \div 1) - margin)
<1>a. /\ DOMAIN lines = 1..n /\ \A l \in 1..n : DOMAIN lines[l] = 1..2 * n
      /\ \A x \in 1..2 * n, l \in 1..n :
            lines[l][x] = ink <=> Lit(s, w, ((x - 1) \div 2) - margin, l - 1 - margin)
  BY Zenon DEF InksModules
<1>0. n \in Nat \ {0}
  OBVIOUS
<1>1. \A x \in 1..2 * n, l \in 1..n : x \in inked(l) <=> lit(<<x - 1, l - 1>>)
  <2> TAKE x \in 1..2 * n, l \in 1..n
  <2>1. (l - 1) \div 1 = l - 1
    OBVIOUS
  <2> QED BY <1>a, <2>1
<1>2. \A x \in Int, y \in Int : lit(<<x, y>>) => x + 1 \in 1..2 * n /\ y + 1 \in 1..n
  <2> TAKE x \in Int, y \in Int
  <2>1. PICK i \in Int, j \in Int : i = x \div 2 /\ j = y \div 1
    <3>1. x \div 2 \in Int /\ y \div 1 \in Int
      OBVIOUS
    <3> QED BY <3>1
  <2>2. 2 * i <= x /\ x <= 2 * i + 1 /\ j = y
    BY <2>1
  <2>3. lit(<<x, y>>) => i - margin \in 0..w - 1 /\ j - margin \in 0..w - 1
    BY <2>1 DEF Lit
  <2>4. ASSUME i - margin \in 0..w - 1, j - margin \in 0..w - 1
        PROVE  x + 1 \in 1..2 * (w + 2 * margin) /\ y + 1 \in 1..w + 2 * margin
    BY <2>2, <2>4
  <2> HIDE DEF lit
  <2> QED BY <2>3, <2>4
<1>3. ASSUME NEW l \in DOMAIN lines, NEW q \in places(l)
      PROVE  q \in Int \X Int /\ lit(q)
  <2>1. PICK c \in inked(l) : q = <<c - 1, l - 1>>
    OBVIOUS
  <2>2. l \in 1..n /\ c \in 1..2 * n
    BY <1>a
  <2>3. l - 1 \in Int /\ c - 1 \in Int
    <3> HIDE DEF n
    <3> QED BY <2>2, <1>0
  <2> HIDE DEF lit, inked, n
  <2>4. lit(<<c - 1, l - 1>>)
    BY <1>1, <2>2
  <2> QED BY <2>1, <2>3, <2>4
<1>4. ASSUME NEW x \in Int, NEW y \in Int, lit(<<x, y>>)
      PROVE  \E l \in DOMAIN lines : <<x, y>> \in places(l)
  <2>1. PICK c \in 1..2 * n, l \in 1..n : c = x + 1 /\ l = y + 1
    <3> HIDE DEF lit, n
    <3> QED BY <1>2, <1>4
  <2>2. c - 1 = x /\ l - 1 = y
    BY <2>1
  <2>3. c \in inked(l)
    <3> HIDE DEF lit, inked, n
    <3> QED BY <1>1, <1>4, <2>2
  <2>4. l \in DOMAIN lines
    BY <1>a
  <2> HIDE DEF inked, lit, n
  <2> QED BY <2>2, <2>3, <2>4
<1> HIDE DEF places, lit, inked
<1>5. UNION {places(l) : l \in DOMAIN lines} = {q \in Int \X Int : lit(q)}
  <2>1. \A q \in Int \X Int : lit(q) => \E l \in DOMAIN lines : q \in places(l)
    <3> TAKE q \in Int \X Int
    <3>1. PICK x \in Int, y \in Int : q = <<x, y>>
      OBVIOUS
    <3> QED BY <1>4, <3>1
  <2> QED BY <1>3, <2>1
<1> QED BY <1>5 DEF places, lit, inked, Inked, LitPlaces

\* n times the character c.
Copies(c, n) == [i \in 1..n |-> c]

LEMMA CopiesType ==
  ASSUME NEW C, NEW c \in C, NEW n \in Nat
  PROVE  Copies(c, n) \in Seq(C) /\ Len(Copies(c, n)) = n /\ \A i \in 1..n : Copies(c, n)[i] = c
BY DEF Copies

\* The line of a row: two characters for each module, within the margin.
LineOf(row, black, white, w, margin) ==
  Copies(white, 2 * margin)
    \o [i \in 1..2 * w |-> IF row[(i - 1) \div 2] = 1 THEN black ELSE white]
    \o Copies(white, 2 * margin)

DarkIn(row, w, i) == i \in 0..w - 1 /\ row[i] = 1

InksRow(line, black, white, row, w, margin) ==
  /\ line \in Seq({black, white}) /\ Len(line) = 2 * (w + 2 * margin)
  /\ \A x \in 1..2 * (w + 2 * margin) : line[x] = black <=> DarkIn(row, w, ((x - 1) \div 2) - margin)

LEMMA LineOfRow ==
  ASSUME NEW w \in Nat, NEW margin \in Nat, NEW row, NEW black, NEW white, black # white
  PROVE  InksRow(LineOf(row, black, white, w, margin), black, white, row, w, margin)
<1> DEFINE C == {black, white}
           a == Copies(white, 2 * margin)
           b == [i \in 1..2 * w |-> IF row[(i - 1) \div 2] = 1 THEN black ELSE white]
           line == a \o b \o a
           dark(x) == DarkIn(row, w, ((x - 1) \div 2) - margin)
<1>0. 2 * margin \in Nat /\ 2 * w \in Nat /\ white \in C /\ black \in C
  OBVIOUS
<1>1. a \in Seq(C) /\ Len(a) = 2 * margin /\ \A i \in 1..2 * margin : a[i] = white
  <2> HIDE DEF C
  <2> QED BY <1>0, CopiesType
<1>2. b \in Seq(C) /\ Len(b) = 2 * w
  OBVIOUS
<1>3. \A i \in 1..2 * w : b[i] = IF row[(i - 1) \div 2] = 1 THEN black ELSE white
  OBVIOUS
<1> HIDE DEF a, b, C
<1>4. /\ line \in Seq(C) /\ Len(line) = Len(a) + Len(b) + Len(a)
      /\ \A i \in 1..Len(a) : line[i] = a[i]
      /\ \A i \in 1..Len(b) : line[Len(a) + i] = b[i]
      /\ \A i \in 1..Len(a) : line[Len(a) + Len(b) + i] = a[i]
  <2>1. JoinsThree(line, a, b, a, C)
    BY <1>1, <1>2, Three, Zenon
  <2> HIDE DEF line
  <2> QED BY <2>1 DEF JoinsThree
<1> HIDE DEF line
<1>5. Len(line) = 2 * (w + 2 * margin)
  BY <1>1, <1>2, <1>4
<1>6. ASSUME NEW x \in 1..2 * (w + 2 * margin)
      PROVE  line[x] = black <=> dark(x)
  <2>1. PICK c \in Int : c = ((x - 1) \div 2) - margin
    <3>1. (x - 1) \div 2 \in Int
      OBVIOUS
    <3> QED BY <3>1
  <2>2. 2 * (c + margin) <= x - 1 /\ x - 1 <= 2 * (c + margin) + 1
    BY <2>1
  <2>3. dark(x) <=> c \in 0..w - 1 /\ row[c] = 1
    BY <2>1 DEF DarkIn
  <2> HIDE DEF dark
  <2>4. CASE x <= 2 * margin
    <3>1. x \in 1..Len(a) /\ x \in 1..2 * margin
      BY <1>1, <2>4
    <3>2. line[x] = white
      BY <1>1, <1>4, <3>1
    <3>3. c \notin 0..w - 1
      BY <2>2, <2>4
    <3> QED BY <2>3, <3>2, <3>3
  <2>5. CASE 2 * margin < x /\ x <= 2 * margin + 2 * w
    <3>1. PICK i \in 1..2 * w : i = x - 2 * margin
      BY <2>5
    <3>2. (i - 1) \div 2 = c /\ c \in 0..w - 1
      <4>1. x - 1 = 2 * margin + (i - 1)
        BY <3>1
      <4> QED BY <2>2, <4>1
    <3>3. line[x] = b[i]
      <4>1. i \in 1..Len(b) /\ x = Len(a) + i
        BY <1>1, <1>2, <3>1
      <4> QED BY <1>4, <4>1
    <3>4. line[x] = IF row[c] = 1 THEN black ELSE white
      BY <1>3, <3>2, <3>3
    <3> QED BY <2>3, <3>2, <3>4
  <2>6. CASE 2 * margin + 2 * w < x
    <3>1. PICK i \in 1..2 * margin : x = 2 * margin + 2 * w + i
      <4>1. x - (2 * margin + 2 * w) \in 1..2 * margin
        BY <2>6
      <4>2. x = 2 * margin + 2 * w + (x - (2 * margin + 2 * w))
        OBVIOUS
      <4> QED BY <4>1, <4>2
    <3>2. i \in 1..Len(a) /\ x = Len(a) + Len(b) + i
      BY <1>1, <1>2, <3>1
    <3>3. line[x] = white
      BY <1>1, <1>4, <3>1, <3>2
    <3>4. c \notin 0..w - 1
      BY <2>2, <2>6
    <3> QED BY <2>3, <3>3, <3>4
  <2>7. x <= 2 * margin \/ (2 * margin < x /\ x <= 2 * margin + 2 * w) \/ 2 * margin + 2 * w < x
    OBVIOUS
  <2> QED BY <2>4, <2>5, <2>6, <2>7
<1>7. InksRow(line, black, white, row, w, margin)
  BY <1>4, <1>5, <1>6 DEF InksRow, C
<1> QED BY <1>7, Zenon DEF line, a, b, LineOf

LinesSeen(lines, ink) ==
  [width |-> Len(lines[1]), height |-> Len(lines), dark |-> Inked(lines, ink)]

LEMMA SeenPlain ==
  ASSUME NEW p, p.type = "ASCII"
  PROVE  Seen(p) = LinesSeen(p.lines, "#")
<1> DEFINE ink == IF p.type = "ASCII" THEN "#" ELSE " "
           dark == UNION {{<<c - 1, l - 1>> : c \in {d \in DOMAIN p.lines[l] : p.lines[l][d] = ink}} : l \in DOMAIN p.lines}
<1>1. Seen(p) = [width |-> Len(p.lines[1]), height |-> Len(p.lines), dark |-> dark]
  BY DEF Seen
<1>2. dark = Inked(p.lines, ink)
  BY DEF Inked
<1>3. ink = "#"
  OBVIOUS
<1> QED BY <1>1, <1>2, <1>3 DEF LinesSeen

LEMMA SeenInverted ==
  ASSUME NEW p, p.type = "ASCIIi"
  PROVE  Seen(p) = LinesSeen(p.lines, " ")
<1> DEFINE ink == IF p.type = "ASCII" THEN "#" ELSE " "
           dark == UNION {{<<c - 1, l - 1>> : c \in {d \in DOMAIN p.lines[l] : p.lines[l][d] = ink}} : l \in DOMAIN p.lines}
<1>1. Seen(p) = [width |-> Len(p.lines[1]), height |-> Len(p.lines), dark |-> dark]
  BY DEF Seen
<1>2. dark = Inked(p.lines, ink)
  BY DEF Inked
<1>3. ink = " "
  OBVIOUS
<1> QED BY <1>1, <1>2, <1>3 DEF LinesSeen

LEMMA ShownByASCII ==
  ASSUME NEW w \in Nat \ {0}, NEW s, Square(s, w), NEW margin \in Nat, NEW invert \in BOOLEAN
  PROVE  Seen(WriteASCII(s, margin, invert)) = Magnified(s, margin, 2, 1)
<1> DEFINE p == WriteASCII(s, margin, invert)
           black == IF invert THEN " " ELSE "#"
           white == IF invert THEN "#" ELSE " "
           n == 2 * (w + 2 * margin)
           C == {black, white}
           Line(row) == LineOf(row, black, white, w, margin)
           blank == Copies(Copies(white, n), margin)
           body == [i \in 1..w |-> Line(s[i - 1])]
           lines == blank \o body \o blank
<1>1. Cardinality(DOMAIN s) = w
  BY SquareSide
<1>2. p = [type |-> IF invert THEN "ASCIIi" ELSE "ASCII", lines |-> lines]
  BY <1>1 DEF WriteASCII, Copies, LineOf
<1>3. black # white /\ white \in C /\ n \in Nat
  <2>1. n \in Nat
    OBVIOUS
  <2>2. " " # "#"
    OBVIOUS
  <2> HIDE DEF n
  <2> QED BY <2>1, <2>2
<1> HIDE DEF black, white
<1>4. Copies(white, n) \in Seq(C) /\ Len(Copies(white, n)) = n /\ \A x \in 1..n : Copies(white, n)[x] = white
  <2> HIDE DEF C, n
  <2> QED BY <1>3, CopiesType
<1>5. ASSUME NEW row
      PROVE  /\ Line(row) \in Seq(C) /\ Len(Line(row)) = n
             /\ \A x \in 1..n : Line(row)[x] = black <=> DarkIn(row, w, ((x - 1) \div 2) - margin)
  <2>1. InksRow(Line(row), black, white, row, w, margin)
    BY <1>3, LineOfRow, Zenon
  <2> HIDE DEF Line
  <2> QED BY <2>1, Zenon DEF InksRow
<1>6. /\ blank \in Seq(Seq(C)) /\ Len(blank) = margin
      /\ \A l \in 1..margin : blank[l] = Copies(white, n)
  <2> HIDE DEF C, n
  <2> QED BY <1>4, CopiesType
<1>7. body \in Seq(Seq(C)) /\ Len(body) = w /\ \A l \in 1..w : body[l] = Line(s[l - 1])
  <2> HIDE DEF C, n, Line
  <2> QED BY <1>5
<1>8. JoinsThree(lines, blank, body, blank, Seq(C))
  <2> HIDE DEF blank, body
  <2> QED BY <1>6, <1>7, Three, Zenon
<1> HIDE DEF C, Line, blank, body, lines, n, p
<1>9. /\ lines \in Seq(Seq(C)) /\ Len(lines) = w + 2 * margin
      /\ \A l \in 1..margin : lines[l] = Copies(white, n)
      /\ \A l \in 1..w : lines[margin + l] = Line(s[l - 1])
      /\ \A l \in 1..margin : lines[margin + w + l] = Copies(white, n)
  <2>1. /\ lines \in Seq(Seq(C)) /\ Len(lines) = Len(blank) + Len(body) + Len(blank)
        /\ \A i \in 1..Len(blank) : lines[i] = blank[i]
        /\ \A i \in 1..Len(body) : lines[Len(blank) + i] = body[i]
        /\ \A i \in 1..Len(blank) : lines[Len(blank) + Len(body) + i] = blank[i]
    BY <1>8 DEF JoinsThree
  <2>2. Len(lines) = w + 2 * margin
    BY <1>6, <1>7, <2>1
  <2>3. /\ \A i \in 1..margin : lines[i] = blank[i]
        /\ \A i \in 1..w : lines[margin + i] = body[i]
        /\ \A i \in 1..margin : lines[margin + w + i] = blank[i]
    BY <1>6, <1>7, <2>1, Zenon
  <2>4. \A l \in 1..margin : lines[l] = Copies(white, n)
    BY <1>6, <2>3
  <2>5. \A l \in 1..w : lines[margin + l] = Line(s[l - 1])
    BY <1>7, <2>3
  <2>6. \A l \in 1..margin : lines[margin + w + l] = Copies(white, n)
    BY <1>6, <2>3
  <2> QED BY <2>1, <2>2, <2>4, <2>5, <2>6
<1>10. ASSUME NEW l \in 1..w + 2 * margin
       PROVE  /\ Len(lines[l]) = n /\ DOMAIN lines[l] = 1..n
              /\ \A x \in 1..n : lines[l][x] = black <=> Lit(s, w, ((x - 1) \div 2) - margin, l - 1 - margin)
  <2>1. CASE lines[l] = Copies(white, n) /\ l - 1 - margin \notin 0..w - 1
    <3>1. \A i : ~Lit(s, w, i, l - 1 - margin)
      BY <2>1, Zenon DEF Lit
    <3>2. Copies(white, n) \in Seq(C) /\ DOMAIN Copies(white, n) = 1..n
      BY <1>4
    <3> QED BY <1>3, <1>4, <2>1, <3>1, <3>2, Zenon
  <2>2. CASE l - 1 - margin \in 0..w - 1 /\ lines[l] = Line(s[l - 1 - margin])
    <3>1. \A i : Lit(s, w, i, l - 1 - margin) <=> DarkIn(s[l - 1 - margin], w, i)
      BY <2>2, Zenon DEF Lit, DarkIn
    <3>2. DOMAIN Line(s[l - 1 - margin]) = 1..n
      BY <1>5
    <3>3. /\ Len(Line(s[l - 1 - margin])) = n
          /\ \A x \in 1..n : Line(s[l - 1 - margin])[x] = black
                              <=> DarkIn(s[l - 1 - margin], w, ((x - 1) \div 2) - margin)
      BY <1>5, Zenon
    <3> QED BY <2>2, <3>1, <3>2, <3>3, Zenon
  <2>3. CASE l <= margin
    BY <1>9, <2>1, <2>3
  <2>4. CASE margin < l /\ l <= margin + w
    <3>1. PICK i \in 1..w : i = l - margin
      BY <2>4
    <3>2. l = margin + i /\ i - 1 = l - 1 - margin
      BY <3>1
    <3> QED BY <1>9, <2>2, <3>2
  <2>5. CASE margin + w < l
    <3>1. PICK i \in 1..margin : i = l - (margin + w)
      BY <2>5
    <3>2. l = margin + w + i /\ l - 1 - margin \notin 0..w - 1
      BY <3>1
    <3> QED BY <1>9, <2>1, <3>2
  <2> QED BY <2>3, <2>4, <2>5
<1>11. DOMAIN lines = 1..w + 2 * margin /\ 1 \in 1..w + 2 * margin
  BY <1>9
<1>12. InksModules(lines, black, s, w, margin)
  BY <1>10, <1>11, Zenon DEF InksModules, n
<1>13. Seen(p) = [width |-> n, height |-> w + 2 * margin, dark |-> Inked(lines, black)]
  <2>1. Seen(p) = LinesSeen(lines, black)
    <3>1. CASE invert
      <4>1. p.type = "ASCIIi" /\ p.lines = lines /\ black = " "
        BY <1>2, <3>1 DEF black
      <4> QED BY <4>1, SeenInverted
    <3>2. CASE ~invert
      <4>1. p.type = "ASCII" /\ p.lines = lines /\ black = "#"
        BY <1>2, <3>2 DEF black
      <4> QED BY <4>1, SeenPlain
    <3> QED BY <3>1, <3>2
  <2>2. Len(lines[1]) = n /\ Len(lines) = w + 2 * margin
    BY <1>9, <1>10, <1>11
  <2> QED BY <2>1, <2>2, Zenon DEF LinesSeen
<1>14. n = (w + 2 * margin) * 2 /\ w + 2 * margin = (w + 2 * margin) * 1
  BY DEF n
<1>15. Inked(lines, black) = LitPlaces(s, w, margin, 2, 1)
  BY <1>12, ShownByLines, Zenon
<1>16. Magnified(s, margin, 2, 1)
         = [width |-> (w + 2 * margin) * 2, height |-> (w + 2 * margin) * 1,
            dark |-> LitPlaces(s, w, margin, 2, 1)]
  BY MagnifiedPlaces
<1> QED BY <1>13, <1>14, <1>15, <1>16, Zenon DEF p

-----------------------------------------------------------------------------
Weight(k) == 2^(7 - (k % 8))
Sums(f, K) == f = [s \in SUBSET K |-> IF s = {} THEN 0 ELSE Weight(CHOOSE x \in s : TRUE) + f[s \ {CHOOSE x \in s : TRUE}]]

LEMMA SumIs ==
  ASSUME NEW K, NEW g, Sums(g, K)
  PROVE  \E f : Sums(f, K) /\ MapThenSumSet(LAMBDA k : 2^(7 - (k % 8)), K) = f[K]
<1> DEFINE f == CHOOSE f : Sums(f, K)
<1>1. Sums(f, K)
  BY Zenon
<1>2. MapThenSumSet(LAMBDA k : 2^(7 - (k % 8)), K) = f[K]
  BY Zenon DEF MapThenSumSet, MapThenFoldSet, Sums, Weight
<1> QED BY <1>1, <1>2, Zenon

Has(K, k) == IF k \in K THEN 1 ELSE 0
Total(K, q) ==
  128 * Has(K, 8 * q) + 64 * Has(K, 8 * q + 1) + 32 * Has(K, 8 * q + 2) + 16 * Has(K, 8 * q + 3)
  + 8 * Has(K, 8 * q + 4) + 4 * Has(K, 8 * q + 5) + 2 * Has(K, 8 * q + 6) + Has(K, 8 * q + 7)
Bits(q) == 8 * q..8 * q + 7

LEMMA WeightOf ==
  ASSUME NEW q \in Nat
  PROVE  /\ Weight(8 * q) = 128 /\ Weight(8 * q + 1) = 64 /\ Weight(8 * q + 2) = 32 /\ Weight(8 * q + 3) = 16
         /\ Weight(8 * q + 4) = 8 /\ Weight(8 * q + 5) = 4 /\ Weight(8 * q + 6) = 2 /\ Weight(8 * q + 7) = 1
<1>1. \A j \in 0..7 : (8 * q + j) % 8 = j
  OBVIOUS
<1>2. 2^7 = 128 /\ 2^6 = 64 /\ 2^5 = 32 /\ 2^4 = 16 /\ 2^3 = 8 /\ 2^2 = 4 /\ 2^1 = 2 /\ 2^0 = 1
  OBVIOUS
<1>3. Weight(8 * q) = 2^7
  <2>1. (8 * q) % 8 = 0 /\ 7 - 0 = 7
    OBVIOUS
  <2> QED BY <2>1, Zenon DEF Weight
<1>4. \A j \in 0..7 : Weight(8 * q + j) = 2^(7 - j)
  BY <1>1, Zenon DEF Weight
<1>5. /\ Weight(8 * q + 1) = 2^6 /\ Weight(8 * q + 2) = 2^5 /\ Weight(8 * q + 3) = 2^4
      /\ Weight(8 * q + 4) = 2^3 /\ Weight(8 * q + 5) = 2^2 /\ Weight(8 * q + 6) = 2^1 /\ Weight(8 * q + 7) = 2^0
  <2>1. /\ Weight(8 * q + 1) = 2^(7 - 1) /\ Weight(8 * q + 2) = 2^(7 - 2) /\ Weight(8 * q + 3) = 2^(7 - 3)
        /\ Weight(8 * q + 4) = 2^(7 - 4) /\ Weight(8 * q + 5) = 2^(7 - 5) /\ Weight(8 * q + 6) = 2^(7 - 6)
        /\ Weight(8 * q + 7) = 2^(7 - 7)
    BY <1>4
  <2>2. 7 - 1 = 6 /\ 7 - 2 = 5 /\ 7 - 3 = 4 /\ 7 - 4 = 3 /\ 7 - 5 = 2 /\ 7 - 6 = 1 /\ 7 - 7 = 0
    OBVIOUS
  <2> QED BY <2>1, <2>2, Zenon
<1> QED BY <1>2, <1>3, <1>5

LEMMA TotalType ==
  ASSUME NEW K, NEW q \in Nat
  PROVE  Total(K, q) \in Nat
BY DEF Total, Has

LEMMA TotalTaken ==
  ASSUME NEW q \in Nat, NEW K \in SUBSET Bits(q), NEW x \in K
  PROVE  Total(K, q) = Weight(x) + Total(K \ {x}, q) /\ Weight(x) \in Nat \ {0}
<1>1. x \in {8 * q, 8 * q + 1, 8 * q + 2, 8 * q + 3, 8 * q + 4, 8 * q + 5, 8 * q + 6, 8 * q + 7}
  BY DEF Bits
<1>2. \A k : k # x => Has(K \ {x}, k) = Has(K, k)
  BY DEF Has
<1>3. Has(K, x) = 1 /\ Has(K \ {x}, x) = 0
  BY DEF Has
<1>4. \A k : Has(K, k) \in {0, 1} /\ Has(K \ {x}, k) \in {0, 1}
  BY DEF Has
<1> QED BY <1>1, <1>2, <1>3, <1>4, WeightOf DEF Total

LEMMA TotalOfNone ==
  ASSUME NEW q \in Nat
  PROVE  Total({}, q) = 0
BY DEF Total, Has

LEMMA TotalSums ==
  ASSUME NEW q \in Nat, NEW K \in SUBSET Bits(q)
  PROVE  Sums([T \in SUBSET K |-> Total(T, q)], K)
<1> DEFINE g == [T \in SUBSET K |-> Total(T, q)]
           h == [s \in SUBSET K |-> IF s = {} THEN 0 ELSE Weight(CHOOSE x \in s : TRUE) + g[s \ {CHOOSE x \in s : TRUE}]]
<1>1. ASSUME NEW s \in SUBSET K PROVE g[s] = h[s]
  <2>1. CASE s = {}
    BY <2>1, TotalOfNone
  <2>2. CASE s # {}
    <3>1. PICK x \in s : x = CHOOSE y \in s : TRUE
      BY <2>2
    <3>2. s \ {x} \in SUBSET K /\ s \in SUBSET Bits(q)
      OBVIOUS
    <3>3. Total(s, q) = Weight(x) + Total(s \ {x}, q)
      BY <3>2, TotalTaken
    <3> QED BY <2>2, <3>1, <3>2, <3>3
  <2> QED BY <2>1, <2>2
<1>2. g = h
  BY <1>1
<1> QED BY <1>2, Zenon DEF Sums

LEMMA TotalOnly ==
  ASSUME NEW q \in Nat, NEW K \in SUBSET Bits(q), NEW f, Sums(f, K)
  PROVE  f[K] = Total(K, q)
<1> DEFINE P == {n \in Nat : \A T \in SUBSET K : Total(T, q) < n => f[T] = Total(T, q)}
<1>1. 0 \in P
  BY TotalType
<1>2. ASSUME NEW n \in Nat, n \in P PROVE n + 1 \in P
  <2> SUFFICES ASSUME NEW T \in SUBSET K, Total(T, q) < n + 1
               PROVE  f[T] = Total(T, q)
    OBVIOUS
  <2>1. f[T] = IF T = {} THEN 0 ELSE Weight(CHOOSE x \in T : TRUE) + f[T \ {CHOOSE x \in T : TRUE}]
    BY Zenon DEF Sums
  <2>2. CASE T = {}
    BY <2>1, <2>2, TotalOfNone
  <2>3. CASE T # {}
    <3>1. PICK x \in T : x = CHOOSE y \in T : TRUE
      BY <2>3
    <3>2. T \ {x} \in SUBSET K /\ T \in SUBSET Bits(q)
      OBVIOUS
    <3>3. Total(T, q) = Weight(x) + Total(T \ {x}, q) /\ Weight(x) \in Nat \ {0}
      BY <3>2, TotalTaken
    <3>4. Total(T \ {x}, q) < n
      BY <3>3, TotalType
    <3>5. f[T \ {x}] = Total(T \ {x}, q)
      BY <1>2, <3>2, <3>4
    <3>6. f[T] = Weight(x) + f[T \ {x}]
      BY <2>1, <2>3, <3>1
    <3> QED BY <3>3, <3>5, <3>6
  <2> QED BY <2>2, <2>3
<1> HIDE DEF P
<1>3. Nat \subseteq P
  BY <1>1, <1>2, Induction
<1>4. Total(K, q) + 1 \in P
  BY <1>3, TotalType
<1> QED BY <1>4, TotalType DEF P

LEMMA SumOfBits ==
  ASSUME NEW q \in Nat, NEW K \in SUBSET Bits(q)
  PROVE  MapThenSumSet(LAMBDA k : 2^(7 - (k % 8)), K) = Total(K, q)
<1>1. PICK f : Sums(f, K) /\ MapThenSumSet(LAMBDA k : 2^(7 - (k % 8)), K) = f[K]
  BY TotalSums, SumIs
<1> QED BY <1>1, TotalOnly

LEMMA BitAbove ==
  ASSUME NEW d \in Nat \ {0}, NEW u \in Int, NEW v \in 0..1, NEW r \in 0..d - 1
  PROVE  ((d * (2 * u + v) + r) \div d) % 2 = v
<1>1. 2 * u + v \in Int /\ (2 * u + v) % 2 = v
  OBVIOUS
<1> QED BY <1>1, DivMod

LEMMA BitOfByte ==
  ASSUME NEW q \in Nat, NEW K, NEW j \in 0..7
  PROVE  ((255 - Total(K, q)) \div 2^(7 - j)) % 2 = 0 <=> 8 * q + j \in K
<1>1. PICK a \in 0..1, b \in 0..1, c \in 0..1, d \in 0..1, e \in 0..1, f \in 0..1, g \in 0..1, h \in 0..1 :
        /\ a = 1 - Has(K, 8 * q)
        /\ b = 1 - Has(K, 8 * q + 1)
        /\ c = 1 - Has(K, 8 * q + 2)
        /\ d = 1 - Has(K, 8 * q + 3)
        /\ e = 1 - Has(K, 8 * q + 4)
        /\ f = 1 - Has(K, 8 * q + 5)
        /\ g = 1 - Has(K, 8 * q + 6)
        /\ h = 1 - Has(K, 8 * q + 7)
  <2>1. \A k : 1 - Has(K, k) \in 0..1
    BY DEF Has
  <2> QED BY <2>1
<1>2. 255 - Total(K, q) = 128 * a + 64 * b + 32 * c + 16 * d + 8 * e + 4 * f + 2 * g + 1 * h
  <2>1. \A k : Has(K, k) \in 0..1
    BY DEF Has
  <2>2. Has(K, 8 * q) = 1 - a /\ Has(K, 8 * q + 1) = 1 - b /\ Has(K, 8 * q + 2) = 1 - c /\ Has(K, 8 * q + 3) = 1 - d /\ Has(K, 8 * q + 4) = 1 - e /\ Has(K, 8 * q + 5) = 1 - f /\ Has(K, 8 * q + 6) = 1 - g /\ Has(K, 8 * q + 7) = 1 - h
    BY <1>1, <2>1
  <2>3. Total(K, q) = 128 * (1 - a) + 64 * (1 - b) + 32 * (1 - c) + 16 * (1 - d) + 8 * (1 - e) + 4 * (1 - f) + 2 * (1 - g) + (1 - h)
    BY <2>2, Zenon DEF Total
  <2> QED BY <2>3
<1>3. 2^7 = 128 /\ 2^6 = 64 /\ 2^5 = 32 /\ 2^4 = 16 /\ 2^3 = 8 /\ 2^2 = 4 /\ 2^1 = 2 /\ 2^0 = 1
  OBVIOUS
<1>4. \A k : k \in K <=> 1 - Has(K, k) = 0
  BY DEF Has
<1>10. CASE j = 0
  <2> DEFINE u == 0
             r == 64 * b + 32 * c + 16 * d + 8 * e + 4 * f + 2 * g + 1 * h
  <2>1. u \in Int /\ r \in 0..128 - 1 /\ 255 - Total(K, q) = 128 * (2 * u + a) + r
    BY <1>2
  <2> HIDE DEF u, r
  <2>2. ((128 * (2 * u + a) + r) \div 128) % 2 = a
    BY <2>1, BitAbove
  <2>3. 7 - j = 7 /\ 8 * q + j = 8 * q
    BY <1>10
  <2>4. ((255 - Total(K, q)) \div 2^(7 - j)) % 2 = a
    BY <1>3, <2>1, <2>2, <2>3, Zenon
  <2>5. 8 * q + j \in K <=> a = 0
    BY <1>1, <1>4, <2>3, Zenon
  <2> QED BY <2>4, <2>5, Zenon
<1>11. CASE j = 1
  <2> DEFINE u == 1 * a
             r == 32 * c + 16 * d + 8 * e + 4 * f + 2 * g + 1 * h
  <2>1. u \in Int /\ r \in 0..64 - 1 /\ 255 - Total(K, q) = 64 * (2 * u + b) + r
    BY <1>2
  <2> HIDE DEF u, r
  <2>2. ((64 * (2 * u + b) + r) \div 64) % 2 = b
    BY <2>1, BitAbove
  <2>3. 7 - j = 6 /\ 8 * q + j = 8 * q + 1
    BY <1>11
  <2>4. ((255 - Total(K, q)) \div 2^(7 - j)) % 2 = b
    BY <1>3, <2>1, <2>2, <2>3, Zenon
  <2>5. 8 * q + j \in K <=> b = 0
    BY <1>1, <1>4, <2>3, Zenon
  <2> QED BY <2>4, <2>5, Zenon
<1>12. CASE j = 2
  <2> DEFINE u == 2 * a + 1 * b
             r == 16 * d + 8 * e + 4 * f + 2 * g + 1 * h
  <2>1. u \in Int /\ r \in 0..32 - 1 /\ 255 - Total(K, q) = 32 * (2 * u + c) + r
    BY <1>2
  <2> HIDE DEF u, r
  <2>2. ((32 * (2 * u + c) + r) \div 32) % 2 = c
    BY <2>1, BitAbove
  <2>3. 7 - j = 5 /\ 8 * q + j = 8 * q + 2
    BY <1>12
  <2>4. ((255 - Total(K, q)) \div 2^(7 - j)) % 2 = c
    BY <1>3, <2>1, <2>2, <2>3, Zenon
  <2>5. 8 * q + j \in K <=> c = 0
    BY <1>1, <1>4, <2>3, Zenon
  <2> QED BY <2>4, <2>5, Zenon
<1>13. CASE j = 3
  <2> DEFINE u == 4 * a + 2 * b + 1 * c
             r == 8 * e + 4 * f + 2 * g + 1 * h
  <2>1. u \in Int /\ r \in 0..16 - 1 /\ 255 - Total(K, q) = 16 * (2 * u + d) + r
    BY <1>2
  <2> HIDE DEF u, r
  <2>2. ((16 * (2 * u + d) + r) \div 16) % 2 = d
    BY <2>1, BitAbove
  <2>3. 7 - j = 4 /\ 8 * q + j = 8 * q + 3
    BY <1>13
  <2>4. ((255 - Total(K, q)) \div 2^(7 - j)) % 2 = d
    BY <1>3, <2>1, <2>2, <2>3, Zenon
  <2>5. 8 * q + j \in K <=> d = 0
    BY <1>1, <1>4, <2>3, Zenon
  <2> QED BY <2>4, <2>5, Zenon
<1>14. CASE j = 4
  <2> DEFINE u == 8 * a + 4 * b + 2 * c + 1 * d
             r == 4 * f + 2 * g + 1 * h
  <2>1. u \in Int /\ r \in 0..8 - 1 /\ 255 - Total(K, q) = 8 * (2 * u + e) + r
    BY <1>2
  <2> HIDE DEF u, r
  <2>2. ((8 * (2 * u + e) + r) \div 8) % 2 = e
    BY <2>1, BitAbove
  <2>3. 7 - j = 3 /\ 8 * q + j = 8 * q + 4
    BY <1>14
  <2>4. ((255 - Total(K, q)) \div 2^(7 - j)) % 2 = e
    BY <1>3, <2>1, <2>2, <2>3, Zenon
  <2>5. 8 * q + j \in K <=> e = 0
    BY <1>1, <1>4, <2>3, Zenon
  <2> QED BY <2>4, <2>5, Zenon
<1>15. CASE j = 5
  <2> DEFINE u == 16 * a + 8 * b + 4 * c + 2 * d + 1 * e
             r == 2 * g + 1 * h
  <2>1. u \in Int /\ r \in 0..4 - 1 /\ 255 - Total(K, q) = 4 * (2 * u + f) + r
    BY <1>2
  <2> HIDE DEF u, r
  <2>2. ((4 * (2 * u + f) + r) \div 4) % 2 = f
    BY <2>1, BitAbove
  <2>3. 7 - j = 2 /\ 8 * q + j = 8 * q + 5
    BY <1>15
  <2>4. ((255 - Total(K, q)) \div 2^(7 - j)) % 2 = f
    BY <1>3, <2>1, <2>2, <2>3, Zenon
  <2>5. 8 * q + j \in K <=> f = 0
    BY <1>1, <1>4, <2>3, Zenon
  <2> QED BY <2>4, <2>5, Zenon
<1>16. CASE j = 6
  <2> DEFINE u == 32 * a + 16 * b + 8 * c + 4 * d + 2 * e + 1 * f
             r == 1 * h
  <2>1. u \in Int /\ r \in 0..2 - 1 /\ 255 - Total(K, q) = 2 * (2 * u + g) + r
    BY <1>2
  <2> HIDE DEF u, r
  <2>2. ((2 * (2 * u + g) + r) \div 2) % 2 = g
    BY <2>1, BitAbove
  <2>3. 7 - j = 1 /\ 8 * q + j = 8 * q + 6
    BY <1>16
  <2>4. ((255 - Total(K, q)) \div 2^(7 - j)) % 2 = g
    BY <1>3, <2>1, <2>2, <2>3, Zenon
  <2>5. 8 * q + j \in K <=> g = 0
    BY <1>1, <1>4, <2>3, Zenon
  <2> QED BY <2>4, <2>5, Zenon
<1>17. CASE j = 7
  <2> DEFINE u == 64 * a + 32 * b + 16 * c + 8 * d + 4 * e + 2 * f + 1 * g
             r == 0
  <2>1. u \in Int /\ r \in 0..1 - 1 /\ 255 - Total(K, q) = 1 * (2 * u + h) + r
    BY <1>2
  <2> HIDE DEF u, r
  <2>2. ((1 * (2 * u + h) + r) \div 1) % 2 = h
    BY <2>1, BitAbove
  <2>3. 7 - j = 0 /\ 8 * q + j = 8 * q + 7
    BY <1>17
  <2>4. ((255 - Total(K, q)) \div 2^(7 - j)) % 2 = h
    BY <1>3, <2>1, <2>2, <2>3, Zenon
  <2>5. 8 * q + j \in K <=> h = 0
    BY <1>1, <1>4, <2>3, Zenon
  <2> QED BY <2>4, <2>5, Zenon
<1>18. j \in {0, 1, 2, 3, 4, 5, 6, 7}
  OBVIOUS
<1> QED BY <1>10, <1>11, <1>12, <1>13, <1>14, <1>15, <1>16, <1>17, <1>18

\* The quotient is at least a just when the number is at least a times d.
LEMMA AtLeast ==
  ASSUME NEW X \in Int, NEW d \in Nat \ {0}, NEW a \in Int
  PROVE  X \div d >= a <=> X >= a * d
<1>1. PICK n \in Int, r \in 0..d - 1 : n = X \div d /\ X = d * n + r
  OBVIOUS
<1>2. PICK e \in Int : e = n - a
  OBVIOUS
<1>3. PICK f \in Int : f = d * e /\ X = a * d + f + r
  <2>1. d * n = a * d + d * e
    BY <1>2
  <2>2. PICK f \in Int, g \in Int, h \in Int : f = d * e /\ g = d * n /\ h = a * d
    OBVIOUS
  <2> QED BY <1>1, <2>1, <2>2
<1>4. ASSUME e >= 0 PROVE f >= 0
  BY <1>3, <1>4
<1>5. ASSUME e < 0 PROVE f <= -d
  <2>1. d * e <= d * (-1)
    BY <1>5
  <2> QED BY <1>3, <2>1
<1>6. PICK h \in Int : h = a * d
  OBVIOUS
<1> QED BY <1>1, <1>2, <1>3, <1>4, <1>5, <1>6

LEMMA Across ==
  ASSUME NEW X \in Int, NEW d \in Nat \ {0}, NEW t \in Nat
  PROVE  X \in 0..t * d - 1 <=> X \div d \in 0..t - 1
<1>1. X \div d >= 0 <=> X >= 0
  <2>1. 0 * d = 0
    OBVIOUS
  <2> QED BY <2>1, AtLeast
<1>2. X \div d >= t <=> X >= t * d
  BY AtLeast
<1>3. PICK n \in Int, h \in Int : n = X \div d /\ h = t * d
  OBVIOUS
<1> QED BY <1>1, <1>2, <1>3

\* A multiple of the divisor may be taken off before the division.
LEMMA Shifted ==
  ASSUME NEW X \in Int, NEW d \in Nat \ {0}, NEW a \in Int
  PROVE  (X - a * d) \div d = (X \div d) - a
<1>1. PICK n \in Int, r \in 0..d - 1 : n = X \div d /\ X = d * n + r
  OBVIOUS
<1>2. X - a * d = d * (n - a) + r
  <2>1. d * (n - a) = d * n - a * d
    OBVIOUS
  <2>2. PICK f \in Int, g \in Int : f = d * n /\ g = a * d
    OBVIOUS
  <2> QED BY <1>1, <2>1, <2>2
<1>3. (d * (n - a) + r) \div d = n - a
  <2>1. n - a \in Int
    OBVIOUS
  <2> QED BY <2>1, DivMod
<1> QED BY <1>1, <1>2, <1>3

-----------------------------------------------------------------------------
DarkBits(s, y, margin, size) ==
  UNION {margin * size + x * size..margin * size + x * size + size - 1 : x \in {i \in DOMAIN s : s[y][i] = 1}}
BytesOf(dark, n) ==
  [q \in 0..n |-> 255 - MapThenSumSet(LAMBDA k : 2^(7 - (k % 8)), {k \in dark : k \div 8 = q})]
BlankBytes(n) == [q \in 0..n |-> 255]
RowsOf(s, w, margin, size, rw) ==
  [Y \in 0..rw - 1 |->
     IF Y - margin * size < 0 \/ Y - margin * size >= w * size THEN BlankBytes((rw + 7) \div 8 - 1)
     ELSE [y \in DOMAIN s |-> BytesOf(DarkBits(s, y, margin, size), (rw + 7) \div 8 - 1)][(Y - margin * size) \div size]]

LEMMA WrittenPNG ==
  ASSUME NEW s, NEW margin, NEW size
  PROVE  WritePNG(s, margin, size) =
           [type |-> "PNG", realwidth |-> (Cardinality(DOMAIN s) + margin * 2) * size,
            rows |-> RowsOf(s, Cardinality(DOMAIN s), margin, size, (Cardinality(DOMAIN s) + margin * 2) * size)]
BY Zenon DEF WritePNG, RowsOf, BytesOf, BlankBytes, DarkBits

LEMMA DarkBitsAre ==
  ASSUME NEW w \in Nat \ {0}, NEW s, Square(s, w), NEW margin \in Nat, NEW size \in Nat \ {0}, NEW y,
         NEW X \in Int
  PROVE  /\ X \in DarkBits(s, y, margin, size)
              <=> (X \div size) - margin \in 0..w - 1 /\ s[y][(X \div size) - margin] = 1
         /\ DarkBits(s, y, margin, size) \subseteq Nat
<1> DEFINE on == {i \in DOMAIN s : s[y][i] = 1}
<1>1. on \subseteq 0..w - 1 /\ \A i \in 0..w - 1 : i \in on <=> s[y][i] = 1
  BY DEF Square, Places
<1> HIDE DEF on
<1>2. \A Z : Z \in DarkBits(s, y, margin, size) <=> \E x \in on, xx \in 0..size - 1 : Z = margin * size + x * size + xx
  <2>1. \A Z : Z \in DarkBits(s, y, margin, size) <=> \E x \in on : Z \in margin * size + x * size..margin * size + x * size + size - 1
    BY DEF DarkBits, on
  <2>2. ASSUME NEW x \in on, NEW Z
        PROVE  Z \in margin * size + x * size..margin * size + x * size + size - 1
                 <=> \E xx \in 0..size - 1 : Z = margin * size + x * size + xx
    <3>1. PICK c \in Int : c = margin * size + x * size
      BY <1>1
    <3>2. Z \in c..c + size - 1 <=> \E xx \in 0..size - 1 : Z = c + xx
      <4>1. ASSUME Z \in c..c + size - 1 PROVE \E xx \in 0..size - 1 : Z = c + xx
        <5>1. Z - c \in 0..size - 1 /\ Z = c + (Z - c)
          BY <4>1
        <5> QED BY <5>1
      <4> QED BY <4>1
    <3> QED BY <3>1, <3>2, Zenon
  <2> QED BY <2>1, <2>2
<1>3. ASSUME NEW x \in 0..w - 1, NEW xx \in 0..size - 1
      PROVE  /\ margin * size + x * size + xx = size * (margin + x) + xx
             /\ margin * size + x * size + xx \in Nat
  <2>1. PICK a \in Nat, b \in Nat : a = margin * size /\ b = x * size
    OBVIOUS
  <2>2. size * (margin + x) = a + b
    BY <2>1
  <2> QED BY <2>1, <2>2
<1>4. DarkBits(s, y, margin, size) \subseteq Nat
  BY <1>1, <1>2, <1>3
<1>5. ASSUME X \in DarkBits(s, y, margin, size)
      PROVE  (X \div size) - margin \in 0..w - 1 /\ s[y][(X \div size) - margin] = 1
  <2>1. PICK x \in on, xx \in 0..size - 1 : X = margin * size + x * size + xx
    BY <1>2, <1>5
  <2>2. x \in 0..w - 1 /\ s[y][x] = 1
    BY <1>1
  <2>3. X = size * (margin + x) + xx
    BY <1>3, <2>1, <2>2
  <2>4. X \div size = margin + x
    <3>1. margin + x \in Int
      BY <2>2
    <3> QED BY <2>3, <3>1, DivMod
  <2>5. (X \div size) - margin = x
    BY <2>2, <2>4
  <2> QED BY <2>2, <2>5
<1>6. ASSUME (X \div size) - margin \in 0..w - 1, s[y][(X \div size) - margin] = 1
      PROVE  X \in DarkBits(s, y, margin, size)
  <2>1. PICK x \in 0..w - 1 : x = (X \div size) - margin
    BY <1>6
  <2>2. x \in on
    BY <1>1, <1>6, <2>1
  <2>3. PICK n \in Int, r \in 0..size - 1 : n = X \div size /\ X = size * n + r
    OBVIOUS
  <2>4. n = margin + x
    BY <2>1, <2>3
  <2>5. X = margin * size + x * size + r
    BY <1>3, <2>3, <2>4
  <2> QED BY <1>2, <2>2, <2>5
<1> QED BY <1>4, <1>5, <1>6

LEMMA BitOfBytes ==
  ASSUME NEW dark \in SUBSET Nat, NEW n \in Nat, NEW X \in 0..8 * n + 7
  PROVE  (BytesOf(dark, n)[X \div 8] \div 2^(7 - (X % 8))) % 2 = 0 <=> X \in dark
<1>1. PICK q \in 0..n, j \in 0..7 : q = X \div 8 /\ j = X % 8 /\ X = 8 * q + j
  <2>1. X \div 8 \in 0..n /\ X % 8 \in 0..7 /\ X = 8 * (X \div 8) + (X % 8)
    OBVIOUS
  <2> QED BY <2>1
<1> DEFINE K == {k \in dark : k \div 8 = q}
<1>0. q \in Nat
  OBVIOUS
<1>2. K \in SUBSET Bits(q)
  <2>1. \A k \in Nat : k \div 8 = q => k \in 8 * q..8 * q + 7
    OBVIOUS
  <2> QED BY <2>1 DEF Bits
<1>3. X \in K <=> X \in dark
  BY <1>1
<1>4. BytesOf(dark, n)[q] = 255 - MapThenSumSet(LAMBDA k : 2^(7 - (k % 8)), K)
  BY Zenon DEF BytesOf
<1> HIDE DEF K
<1>5. MapThenSumSet(LAMBDA k : 2^(7 - (k % 8)), K) = Total(K, q)
  BY <1>0, <1>2, SumOfBits, Zenon
<1>6. BytesOf(dark, n)[X \div 8] = 255 - Total(K, q)
  BY <1>1, <1>4, <1>5, Zenon
<1>7. ((255 - Total(K, q)) \div 2^(7 - j)) % 2 = 0 <=> 8 * q + j \in K
  BY <1>0, BitOfByte, Zenon
<1> QED BY <1>1, <1>3, <1>6, <1>7, Zenon

LEMMA BitOfBlank ==
  ASSUME NEW n \in Nat, NEW X \in 0..8 * n + 7
  PROVE  (BlankBytes(n)[X \div 8] \div 2^(7 - (X % 8))) % 2 # 0
<1>1. PICK q \in 0..n, j \in 0..7 : q = X \div 8 /\ j = X % 8
  <2>1. X \div 8 \in 0..n /\ X % 8 \in 0..7
    OBVIOUS
  <2> QED BY <2>1
<1>2. 255 - Total({}, q) = 255
  BY TotalOfNone
<1>3. BlankBytes(n)[X \div 8] = 255 - Total({}, q)
  BY <1>1, <1>2 DEF BlankBytes
<1>4. ((255 - Total({}, q)) \div 2^(7 - j)) % 2 = 0 <=> 8 * q + j \in {}
  <2>1. q \in Nat
    OBVIOUS
  <2>2. PICK K : K = {}
    OBVIOUS
  <2>3. ((255 - Total(K, q)) \div 2^(7 - j)) % 2 = 0 <=> 8 * q + j \in K
    BY <2>1, BitOfByte, Zenon
  <2> QED BY <2>2, <2>3, Zenon
<1>5. 8 * q + j \notin {}
  OBVIOUS
<1> QED BY <1>1, <1>3, <1>4, <1>5, Zenon

LEMMA RowOf ==
  ASSUME NEW s, NEW w, NEW margin, NEW size, NEW rw, NEW Y \in 0..rw - 1,
         NEW n, n = (rw + 7) \div 8 - 1, NEW y, y = Y - margin * size, NEW b, b = w * size, NEW c, c = y \div size
  PROVE  /\ y < 0 \/ y >= b => RowsOf(s, w, margin, size, rw)[Y] = BlankBytes(n)
         /\ c \in DOMAIN s /\ ~(y < 0 \/ y >= b)
              => RowsOf(s, w, margin, size, rw)[Y] = BytesOf(DarkBits(s, c, margin, size), n)
<1>1. RowsOf(s, w, margin, size, rw)[Y] =
        IF Y - margin * size < 0 \/ Y - margin * size >= w * size THEN BlankBytes((rw + 7) \div 8 - 1)
        ELSE [z \in DOMAIN s |-> BytesOf(DarkBits(s, z, margin, size), (rw + 7) \div 8 - 1)][(Y - margin * size) \div size]
  BY Zenon DEF RowsOf
<1> QED BY <1>1

White(rows, X, Y) == (rows[Y][X \div 8] \div 2^(7 - (X % 8))) % 2

LEMMA RowsShow ==
  ASSUME NEW w \in Nat \ {0}, NEW s, Square(s, w), NEW margin \in Nat, NEW size \in Nat \ {0},
         NEW rw \in Nat \ {0}, rw = (w + margin * 2) * size,
         NEW rows, rows = RowsOf(s, w, margin, size, rw),
         NEW X \in 0..rw - 1, NEW Y \in 0..rw - 1
  PROVE  White(rows, X, Y) = 0 <=> Lit(s, w, (X \div size) - margin, (Y \div size) - margin)
<1>1. PICK n \in Nat : n = (rw + 7) \div 8 - 1 /\ rw <= 8 * n + 8
  OBVIOUS
<1>0. PICK a \in Int, b \in Int : a = margin * size /\ b = w * size
  OBVIOUS
<1>2. PICK y \in Int, c \in Int : y = Y - margin * size /\ c = (Y \div size) - margin
  <2>1. Y - a \in Int /\ (Y \div size) - margin \in Int
    OBVIOUS
  <2> QED BY <1>0, <2>1, Zenon
<1>3. y \div size = c
  <2>1. Y \in Int /\ margin \in Int
    OBVIOUS
  <2>2. (Y - margin * size) \div size = (Y \div size) - margin
    BY <2>1, Shifted, Zenon
  <2> QED BY <1>2, <2>2, Zenon
<1>4. y < 0 \/ y >= b <=> c \notin 0..w - 1
  <2>1. y \in 0..w * size - 1 <=> y \div size \in 0..w - 1
    BY Across
  <2>2. y \in 0..b - 1 <=> c \in 0..w - 1
    BY <1>0, <1>3, <2>1, Zenon
  <2> QED BY <2>2
<1>5. /\ y < 0 \/ y >= b => rows[Y] = BlankBytes(n)
      /\ c \in DOMAIN s /\ ~(y < 0 \/ y >= b) => rows[Y] = BytesOf(DarkBits(s, c, margin, size), n)
  BY <1>0, <1>1, <1>2, <1>3, RowOf
<1>6. X \in Int /\ X \in 0..8 * n + 7
  BY <1>1
<1>7. CASE c \notin 0..w - 1
  <2>1. rows[Y] = BlankBytes(n)
    BY <1>4, <1>5, <1>7
  <2>2. White(rows, X, Y) # 0
    BY <1>1, <1>6, <2>1, BitOfBlank, Zenon DEF White
  <2>3. ~Lit(s, w, (X \div size) - margin, (Y \div size) - margin)
    BY <1>2, <1>7, Zenon DEF Lit
  <2> QED BY <2>2, <2>3
<1>8. CASE c \in 0..w - 1
  <2>0. c \in DOMAIN s
    BY <1>8 DEF Square, Places
  <2>1. rows[Y] = BytesOf(DarkBits(s, c, margin, size), n)
    BY <1>4, <1>5, <1>8, <2>0, Zenon
  <2>2. DarkBits(s, c, margin, size) \in SUBSET Nat
    BY <1>6, DarkBitsAre
  <2>3. White(rows, X, Y) = 0 <=> X \in DarkBits(s, c, margin, size)
    <3>1. White(rows, X, Y) = (BytesOf(DarkBits(s, c, margin, size), n)[X \div 8] \div 2^(7 - (X % 8))) % 2
      BY <2>1, Zenon DEF White
    <3>2. (BytesOf(DarkBits(s, c, margin, size), n)[X \div 8] \div 2^(7 - (X % 8))) % 2 = 0
            <=> X \in DarkBits(s, c, margin, size)
      <4>1. PICK D \in SUBSET Nat : D = DarkBits(s, c, margin, size)
        BY <2>2
      <4>2. (BytesOf(D, n)[X \div 8] \div 2^(7 - (X % 8))) % 2 = 0 <=> X \in D
        BY <1>6, BitOfBytes, Zenon
      <4> QED BY <4>1, <4>2, Zenon
    <3> QED BY <3>1, <3>2, Zenon
  <2>4. X \in DarkBits(s, c, margin, size)
          <=> (X \div size) - margin \in 0..w - 1 /\ s[c][(X \div size) - margin] = 1
    BY <1>6, DarkBitsAre
  <2> QED BY <1>2, <1>8, <2>3, <2>4, Zenon DEF Lit
<1> QED BY <1>7, <1>8

\* A dark place is inside the picture.
LEMMA LitInside ==
  ASSUME NEW w \in Nat \ {0}, NEW s, NEW margin \in Nat, NEW size \in Nat \ {0}, NEW X \in Int, NEW Y \in Int,
         Lit(s, w, (X \div size) - margin, (Y \div size) - margin)
  PROVE  X \in 0..(w + margin * 2) * size - 1 /\ Y \in 0..(w + margin * 2) * size - 1
<1>1. PICK a \in Int, b \in Int : a = X \div size /\ b = Y \div size
  OBVIOUS
<1>2. Lit(s, w, a - margin, b - margin)
  BY <1>1, Zenon
<1>3. a \in 0..(w + margin * 2) - 1 /\ b \in 0..(w + margin * 2) - 1
  BY <1>2 DEF Lit
<1>4. w + margin * 2 \in Nat
  OBVIOUS
<1>5. X \in 0..(w + margin * 2) * size - 1 <=> X \div size \in 0..(w + margin * 2) - 1
  BY <1>4, Across
<1>6. Y \in 0..(w + margin * 2) * size - 1 <=> Y \div size \in 0..(w + margin * 2) - 1
  BY <1>4, Across
<1> QED BY <1>1, <1>3, <1>5, <1>6, Zenon

LEMMA ShownByPNG ==
  ASSUME NEW w \in Nat \ {0}, NEW s, Square(s, w), NEW margin \in Nat, NEW size \in Nat \ {0}
  PROVE  Seen(WritePNG(s, margin, size)) = Magnified(s, margin, size, size)
<1>1. Cardinality(DOMAIN s) = w
  BY SquareSide
<1>2. PICK rw \in Nat \ {0} : rw = (w + margin * 2) * size
  OBVIOUS
<1>3. PICK rows : rows = RowsOf(s, w, margin, size, rw)
  OBVIOUS
<1>4. PICK p : p = [type |-> "PNG", realwidth |-> rw, rows |-> rows]
  OBVIOUS
<1>5. WritePNG(s, margin, size) = p
  BY <1>1, <1>2, <1>3, <1>4, WrittenPNG, Zenon
<1>6. p.type = "PNG" /\ p.realwidth = rw /\ p.rows = rows
  BY <1>4
<1>7. DOMAIN rows = 0..rw - 1
  BY <1>3, Zenon DEF RowsOf
<1>8. Cardinality(DOMAIN rows) = rw
  BY <1>7, SquareSide DEF Square, Places
<1> DEFINE dark == {m \in (0..rw - 1) \X (0..rw - 1) : White(rows, m[1], m[2]) = 0}
<1>9. Seen(p) = [width |-> rw, height |-> rw, dark |-> dark]
  <2> DEFINE seen == {m \in (0..p.realwidth - 1) \X (DOMAIN p.rows) :
                        (p.rows[m[2]][m[1] \div 8] \div 2^(7 - (m[1] % 8))) % 2 = 0}
  <2>1. Seen(p) = [width |-> p.realwidth, height |-> Cardinality(DOMAIN p.rows), dark |-> seen]
    BY <1>6 DEF Seen
  <2>2. seen = dark
    BY <1>6, <1>7, Zenon DEF White
  <2> HIDE DEF seen, dark
  <2> QED BY <1>6, <1>8, <2>1, <2>2
<1>10. dark = LitPlaces(s, w, margin, size, size)
  <2>1. ASSUME NEW X \in Int, NEW Y \in Int
        PROVE  <<X, Y>> \in dark <=> <<X, Y>> \in LitPlaces(s, w, margin, size, size)
    <3>1. <<X, Y>> \in dark <=> X \in 0..rw - 1 /\ Y \in 0..rw - 1 /\ White(rows, X, Y) = 0
      OBVIOUS
    <3>2. <<X, Y>> \in LitPlaces(s, w, margin, size, size)
            <=> Lit(s, w, (X \div size) - margin, (Y \div size) - margin)
      BY DEF LitPlaces
    <3>3. Lit(s, w, (X \div size) - margin, (Y \div size) - margin) => X \in 0..rw - 1 /\ Y \in 0..rw - 1
      BY <1>2, LitInside, Zenon
    <3>4. ASSUME X \in 0..rw - 1, Y \in 0..rw - 1
          PROVE  White(rows, X, Y) = 0 <=> Lit(s, w, (X \div size) - margin, (Y \div size) - margin)
      BY <1>2, <1>3, <3>4, RowsShow
    <3> HIDE DEF dark
    <3> QED BY <3>1, <3>2, <3>3, <3>4, Zenon
  <2>2. dark \subseteq Int \X Int /\ LitPlaces(s, w, margin, size, size) \subseteq Int \X Int
    BY DEF LitPlaces
  <2> HIDE DEF dark
  <2> QED BY <2>1, <2>2
<1> HIDE DEF dark
<1>11. rw = (w + 2 * margin) * size
  <2>1. margin * 2 = 2 * margin
    OBVIOUS
  <2> QED BY <1>2, <2>1, Zenon
<1> QED BY <1>5, <1>9, <1>10, <1>11, MagnifiedPlaces

-----------------------------------------------------------------------------
Adds(g, seqs, i) == g[i] = IF i = 1 THEN seqs[i] ELSE g[i - 1] \o seqs[i]
Accumulates(g, seqs, n) ==
  g = [i \in 1..n |-> IF i = 1 THEN seqs[i] ELSE g[i - 1] \o seqs[i]]

LEMMA AccumulatesAt ==
  ASSUME NEW s, NEW n, NEW g, Accumulates(g, s, n), NEW i \in 1..n
  PROVE  Adds(g, s, i)
BY Zenon DEF Accumulates, Adds

LEMMA Accumulated ==
  ASSUME NEW S, NEW seqs \in Seq(Seq(S)), NEW n \in Nat, n <= Len(seqs)
  PROVE  \E g \in [1..n -> Seq(S)] : Accumulates(g, seqs, n)
<1> DEFINE T == {k \in Nat : k <= Len(seqs) => \E g \in [1..k -> Seq(S)] : Accumulates(g, seqs, k)}
<1>1. 0 \in T
  <2>1. [i \in 1..0 |-> <<>>] \in [1..0 -> Seq(S)]
    OBVIOUS
  <2>2. Accumulates([i \in 1..0 |-> <<>>], seqs, 0)
    BY DEF Accumulates
  <2> QED BY <2>1, <2>2
<1>2. ASSUME NEW k \in Nat, k \in T PROVE k + 1 \in T
  <2>1. SUFFICES ASSUME k + 1 <= Len(seqs)
                 PROVE  \E g \in [1..k + 1 -> Seq(S)] : Accumulates(g, seqs, k + 1)
    OBVIOUS
  <2>2. PICK f \in [1..k -> Seq(S)] : Accumulates(f, seqs, k)
    BY <1>2, <2>1
  <2> DEFINE x == IF k + 1 = 1 THEN seqs[k + 1] ELSE f[k] \o seqs[k + 1]
             g == [i \in 1..k + 1 |-> IF i = k + 1 THEN x ELSE f[i]]
  <2>3. x \in Seq(S)
    BY <2>1, <2>2
  <2>4. g \in [1..k + 1 -> Seq(S)]
    BY <2>2, <2>3
  <2>5. \A i \in 1..k + 1 : g[i] = IF i = 1 THEN seqs[i] ELSE g[i - 1] \o seqs[i]
    <3>1. TAKE i \in 1..k + 1
    <3>2. CASE i = k + 1
      BY <3>2
    <3>3. CASE i # k + 1
      <4>1. i \in 1..k /\ g[i] = f[i] /\ (i # 1 => g[i - 1] = f[i - 1])
        BY <3>3
      <4>2. Adds(f, seqs, i)
        BY <2>2, <4>1, AccumulatesAt, Zenon
      <4> QED BY <4>1, <4>2 DEF Adds
    <3> QED BY <3>2, <3>3
  <2>6. Accumulates(g, seqs, k + 1)
    BY <2>4, <2>5 DEF Accumulates
  <2> QED BY <2>4, <2>6
<1> HIDE DEF T
<1>3. Nat \subseteq T
  BY <1>1, <1>2, Induction
<1> QED BY <1>3 DEF T

LEMMA Flattened ==
  ASSUME NEW S, NEW seqs \in Seq(Seq(S)), seqs # <<>>
  PROVE  \E g : Accumulates(g, seqs, Len(seqs)) /\ FlattenSeq(seqs) = g[Len(seqs)]
<1> DEFINE flat == CHOOSE g : g = [i \in 1..Len(seqs) |->
                      IF i = 1 THEN seqs[i] ELSE g[i - 1] \o seqs[i]]
<1>1. FlattenSeq(seqs) = flat[Len(seqs)]
  <2>1. Len(seqs) # 0
    OBVIOUS
  <2> QED BY <2>1, Zenon DEF FlattenSeq
<1>2. PICK g \in [1..Len(seqs) -> Seq(S)] : Accumulates(g, seqs, Len(seqs))
  BY Accumulated
<1>3. Accumulates(flat, seqs, Len(seqs))
  BY <1>2, Zenon DEF Accumulates
<1> HIDE DEF flat
<1> QED BY <1>1, <1>3, Zenon

-----------------------------------------------------------------------------
Tokens == {"white", "black", "reset", TwoSpaces}

LEMMA Differ == TwoSpaces # "white" /\ TwoSpaces # "black" /\ TwoSpaces # "reset"
BY Zenon DEF TwoSpaces

\* The colour of place k of a line is told at c.
ToldAt(t, k, c) == c \in 1..k /\ t[c] # TwoSpaces /\ \A d \in c + 1..k : t[d] = TwoSpaces

\* Where the pairs of spaces are, from the left.
PairsAt(t, n, pos) ==
  /\ pos \in [0..n - 1 -> 1..Len(t)]
  /\ \A i, j \in 0..n - 1 : i < j => pos[i] < pos[j]
  /\ \A k \in 1..Len(t) : t[k] = TwoSpaces <=> \E i \in 0..n - 1 : pos[i] = k

\* A line with n pairs, of which those of D are black; the next would have the colour now.
Shades(t, n, pos, D) == \A i \in 0..n - 1 : \E c : ToldAt(t, pos[i], c) /\ (t[c] = "black" <=> i \in D)
Drawn(t, n, D, now) ==
  /\ t \in Seq(Tokens)
  /\ \E pos : PairsAt(t, n, pos) /\ Shades(t, n, pos, D)
  /\ \E c : ToldAt(t, Len(t), c) /\ t[c] = now

LEMMA Extended ==
  ASSUME NEW t \in Seq(Tokens), NEW x \in Tokens
  PROVE  /\ t \o <<x>> \in Seq(Tokens) /\ Len(t \o <<x>>) = Len(t) + 1 /\ (t \o <<x>>)[Len(t) + 1] = x
         /\ \A i \in 1..Len(t) : (t \o <<x>>)[i] = t[i]
<1> HIDE DEF Tokens
<1> QED OBVIOUS

LEMMA TokensAssociative ==
  ASSUME NEW t \in Seq(Tokens), NEW u \in Seq(Tokens), NEW v \in Seq(Tokens)
  PROVE  (t \o u) \o v = t \o (u \o v)
BY ConcatAssociative

LEMMA TwoTokens ==
  ASSUME NEW S, NEW a \in S, NEW b \in S
  PROVE  /\ <<a>> \in Seq(S) /\ <<b>> \in Seq(S)
         /\ <<a>> \o <<b>> = <<a, b>>
<1>1. <<a>> \in Seq(S) /\ <<b>> \in Seq(S) /\ <<a, b>> \in Seq(S)
  OBVIOUS
<1>2. Len(<<a>>) = 1 /\ Len(<<b>>) = 1 /\ Len(<<a, b>>) = 2
  OBVIOUS
<1>3. <<a>> \o <<b>> \in Seq(S) /\ Len(<<a>> \o <<b>>) = 2
  BY <1>1, <1>2
<1>4. \A i \in 1..2 : (<<a>> \o <<b>>)[i] = <<a, b>>[i]
  BY <1>1, <1>2
<1> QED BY <1>1, <1>2, <1>3, <1>4, SeqEqual

LEMMA ToldBefore ==
  ASSUME NEW t \in Seq(Tokens), NEW u \in Seq(Tokens), Len(t) <= Len(u), \A i \in 1..Len(t) : u[i] = t[i],
         NEW k \in 1..Len(t), NEW c
  PROVE  ToldAt(t, k, c) <=> ToldAt(u, k, c)
<1> HIDE DEF Tokens
<1>1. \A d \in 1..k : u[d] = t[d]
  OBVIOUS
<1> QED BY <1>1 DEF ToldAt

LEMMA DrawnStart ==
  ASSUME NEW D
  PROVE  Drawn(<<"white">>, 0, D, "white")
<1> DEFINE t == <<"white">>
           pos == [i \in 0..0 - 1 |-> 1]
<1>1. t \in Seq(Tokens) /\ Len(t) = 1 /\ t[1] = "white"
  BY DEF Tokens
<1> HIDE DEF t
<1>2. PairsAt(t, 0, pos)
  BY <1>1, Differ DEF PairsAt
<1>3. Shades(t, 0, pos, D)
  BY DEF Shades
<1>4. ToldAt(t, Len(t), 1)
  BY <1>1, Differ DEF ToldAt
<1> HIDE DEF pos
<1> QED BY <1>1, <1>2, <1>3, <1>4, Zenon DEF Drawn, t

LEMMA DrawnColour ==
  ASSUME NEW t, NEW n \in Nat, NEW D, NEW now, Drawn(t, n, D, now), NEW x \in Tokens \ {TwoSpaces}
  PROVE  Drawn(t \o <<x>>, n, D, x)
<1> DEFINE u == t \o <<x>>
<1>1. t \in Seq(Tokens) /\ Len(t) \in Nat
  BY DEF Drawn
<1>2. /\ u \in Seq(Tokens) /\ Len(u) = Len(t) + 1 /\ u[Len(t) + 1] = x
      /\ \A i \in 1..Len(t) : u[i] = t[i]
  BY <1>1, Extended
<1> HIDE DEF u
<1>3. PICK pos : PairsAt(t, n, pos) /\ Shades(t, n, pos, D)
  BY Zenon DEF Drawn
<1>4. PairsAt(u, n, pos)
  <2>1. pos \in [0..n - 1 -> 1..Len(u)]
    BY <1>1, <1>2, <1>3 DEF PairsAt
  <2>2. \A k \in 1..Len(u) : u[k] = TwoSpaces <=> \E i \in 0..n - 1 : pos[i] = k
    <3> TAKE k \in 1..Len(u)
    <3>1. CASE k \in 1..Len(t)
      BY <1>2, <1>3, <3>1 DEF PairsAt
    <3>2. CASE k = Len(t) + 1
      <4>1. u[k] # TwoSpaces
        BY <1>2, <3>2
      <4>2. \A i \in 0..n - 1 : pos[i] # k
        BY <1>1, <1>3, <3>2 DEF PairsAt
      <4> QED BY <4>1, <4>2
    <3> QED BY <1>1, <1>2, <3>1, <3>2
  <2> QED BY <1>3, <2>1, <2>2 DEF PairsAt
<1>5. Shades(u, n, pos, D)
  <2> SUFFICES ASSUME NEW i \in 0..n - 1
               PROVE  \E c : ToldAt(u, pos[i], c) /\ (u[c] = "black" <=> i \in D)
    BY DEF Shades
  <2>1. PICK c : ToldAt(t, pos[i], c) /\ (t[c] = "black" <=> i \in D)
    BY <1>3, Zenon DEF Shades
  <2>2. pos[i] \in 1..Len(t)
    BY <1>3 DEF PairsAt
  <2>3. Len(t) <= Len(u)
    BY <1>1, <1>2
  <2>4. ToldAt(u, pos[i], c)
    BY <1>1, <1>2, <2>1, <2>2, <2>3, ToldBefore, Zenon
  <2>5. u[c] = t[c]
    BY <1>1, <1>2, <2>1, <2>2 DEF ToldAt
  <2> QED BY <2>1, <2>4, <2>5, Zenon
<1>6. ToldAt(u, Len(u), Len(t) + 1)
  BY <1>1, <1>2 DEF ToldAt
<1> QED BY <1>2, <1>4, <1>5, <1>6, Zenon DEF Drawn, u

LEMMA DrawnPair ==
  ASSUME NEW t, NEW n \in Nat, NEW D, NEW now, Drawn(t, n, D, now), n \in D <=> now = "black"
  PROVE  Drawn(t \o <<TwoSpaces>>, n + 1, D, now)
<1> DEFINE u == t \o <<TwoSpaces>>
<1>1. t \in Seq(Tokens) /\ Len(t) \in Nat
  BY DEF Drawn
<1>2. /\ u \in Seq(Tokens) /\ Len(u) = Len(t) + 1 /\ u[Len(t) + 1] = TwoSpaces
      /\ \A i \in 1..Len(t) : u[i] = t[i]
  <2>1. TwoSpaces \in Tokens
    BY DEF Tokens
  <2> QED BY <1>1, <2>1, Extended
<1> HIDE DEF u
<1>3. PICK old : PairsAt(t, n, old) /\ Shades(t, n, old, D)
  BY Zenon DEF Drawn
<1>4. PICK e : ToldAt(t, Len(t), e) /\ t[e] = now
  BY Zenon DEF Drawn
<1>5. /\ old \in [0..n - 1 -> 1..Len(t)]
      /\ \A i, j \in 0..n - 1 : i < j => old[i] < old[j]
      /\ \A k \in 1..Len(t) : t[k] = TwoSpaces <=> \E i \in 0..n - 1 : old[i] = k
  BY <1>3 DEF PairsAt
<1>6. PICK pos : pos = [i \in 0..n |-> IF i = n THEN Len(t) + 1 ELSE old[i]]
  OBVIOUS
<1>7. /\ pos[n] = Len(t) + 1 /\ \A i \in 0..n - 1 : pos[i] = old[i]
      /\ pos \in [0..n -> 1..Len(u)]
  BY <1>1, <1>2, <1>5, <1>6
<1>8. PairsAt(u, n + 1, pos)
  <2>1. \A i, j \in 0..n : i < j => pos[i] < pos[j]
    <3> TAKE i, j \in 0..n
    <3>1. CASE j = n
      BY <1>1, <1>5, <1>7, <3>1
    <3>2. CASE j # n
      <4>1. j \in 0..n - 1 /\ (i < j => i \in 0..n - 1)
        BY <3>2
      <4> QED BY <1>5, <1>7, <4>1
    <3> QED BY <3>1, <3>2
  <2>2. \A k \in 1..Len(u) : u[k] = TwoSpaces <=> \E i \in 0..n : pos[i] = k
    <3> TAKE k \in 1..Len(u)
    <3>1. CASE k \in 1..Len(t)
      <4>1. u[k] = TwoSpaces <=> \E i \in 0..n - 1 : old[i] = k
        BY <1>2, <1>5, <3>1
      <4>2. (\E i \in 0..n - 1 : old[i] = k) <=> (\E i \in 0..n : pos[i] = k)
        BY <1>1, <1>7, <3>1
      <4> QED BY <4>1, <4>2
    <3>2. CASE k = Len(t) + 1
      BY <1>2, <1>7, <3>2
    <3> QED BY <1>1, <1>2, <3>1, <3>2
  <2>3. (n + 1) - 1 = n
    OBVIOUS
  <2> QED BY <1>7, <2>1, <2>2, <2>3 DEF PairsAt
<1>9. ToldAt(u, Len(u), e) /\ u[e] = t[e]
  BY <1>1, <1>2, <1>4 DEF ToldAt
<1>10. Shades(u, n + 1, pos, D)
  <2> SUFFICES ASSUME NEW i \in 0..n
               PROVE  \E c : ToldAt(u, pos[i], c) /\ (u[c] = "black" <=> i \in D)
    <3>1. (n + 1) - 1 = n
      OBVIOUS
    <3> QED BY <3>1 DEF Shades
  <2>0. CASE i = n
    BY <1>2, <1>4, <1>7, <1>9, <2>0
  <2>1. CASE i \in 0..n - 1
    <3>1. PICK c : ToldAt(t, old[i], c) /\ (t[c] = "black" <=> i \in D)
      BY <1>3, <2>1, Zenon DEF Shades
    <3>2. old[i] \in 1..Len(t) /\ pos[i] = old[i]
      BY <1>5, <1>7, <2>1
    <3>3. Len(t) <= Len(u)
      BY <1>1, <1>2
    <3>4. ToldAt(u, old[i], c)
      BY <1>1, <1>2, <3>1, <3>2, <3>3, ToldBefore, Zenon
    <3>5. u[c] = t[c]
      BY <1>1, <1>2, <3>1, <3>2 DEF ToldAt
    <3> QED BY <3>1, <3>2, <3>4, <3>5, Zenon
  <2> QED BY <2>0, <2>1
<1>11. \E c : ToldAt(u, Len(u), c) /\ u[c] = now
  BY <1>4, <1>9, Zenon
<1> QED BY <1>2, <1>8, <1>10, <1>11, Zenon DEF Drawn, u

Pairs(n) == [i \in 1..n |-> TwoSpaces]

LEMMA PairsType ==
  ASSUME NEW n \in Nat
  PROVE  /\ Pairs(n) \in Seq(Tokens) /\ Len(Pairs(n)) = n
         /\ Pairs(0) = <<>> /\ Pairs(n + 1) = Pairs(n) \o <<TwoSpaces>>
<1>1. TwoSpaces \in Tokens
  BY DEF Tokens
<1> HIDE DEF Tokens
<1>2. \A m \in Nat : Pairs(m) \in Seq(Tokens) /\ Len(Pairs(m)) = m /\ \A i \in 1..m : Pairs(m)[i] = TwoSpaces
  BY <1>1 DEF Pairs
<1>3. Pairs(0) = <<>>
  BY <1>2
<1>4. /\ Pairs(n) \o <<TwoSpaces>> \in Seq(Tokens) /\ Len(Pairs(n) \o <<TwoSpaces>>) = n + 1
      /\ \A i \in 1..n + 1 : (Pairs(n) \o <<TwoSpaces>>)[i] = TwoSpaces
  <2>1. Pairs(n) \in Seq(Tokens)
    BY <1>2
  <2> QED BY <1>1, <1>2, <2>1, Extended
<1>5. n + 1 \in Nat
  OBVIOUS
<1>6. Pairs(n + 1) = Pairs(n) \o <<TwoSpaces>>
  BY <1>2, <1>4, <1>5, SeqEqual
<1> QED BY <1>2, <1>3, <1>6

LEMMA DrawnPairs ==
  ASSUME NEW t, NEW n \in Nat, NEW D, NEW now, Drawn(t, n, D, now),
         NEW m \in Nat, \A i \in n..n + m - 1 : i \in D <=> now = "black"
  PROVE  Drawn(t \o Pairs(m), n + m, D, now)
<1> DEFINE T == {k \in Nat : k <= m => Drawn(t \o Pairs(k), n + k, D, now)}
<1>0. t \in Seq(Tokens)
  BY DEF Drawn
<1>1. 0 \in T
  <2>1. t \o Pairs(0) = t
    <3>1. Pairs(0) = <<>>
      BY PairsType
    <3> HIDE DEF Tokens
    <3>2. t \o <<>> = t
      BY <1>0
    <3> QED BY <3>1, <3>2, Zenon
  <2>2. n + 0 = n
    OBVIOUS
  <2> QED BY <2>1, <2>2
<1>2. ASSUME NEW k \in Nat, k \in T PROVE k + 1 \in T
  <2> SUFFICES ASSUME k + 1 <= m PROVE Drawn(t \o Pairs(k + 1), n + (k + 1), D, now)
    OBVIOUS
  <2>1. Drawn(t \o Pairs(k), n + k, D, now) /\ n + k \in Nat /\ n + k \in n..n + m - 1
    BY <1>2
  <2>2. n + k \in D <=> now = "black"
    BY <2>1
  <2>3. Drawn((t \o Pairs(k)) \o <<TwoSpaces>>, (n + k) + 1, D, now)
    BY <2>1, <2>2, DrawnPair, Zenon
  <2>4. (t \o Pairs(k)) \o <<TwoSpaces>> = t \o Pairs(k + 1)
    <3>1. <<TwoSpaces>> \in Seq(Tokens)
      BY DEF Tokens
    <3> HIDE DEF Tokens
    <3>2. Pairs(k) \in Seq(Tokens) /\ Pairs(k + 1) = Pairs(k) \o <<TwoSpaces>>
      BY PairsType
    <3>3. (t \o Pairs(k)) \o <<TwoSpaces>> = t \o (Pairs(k) \o <<TwoSpaces>>)
      BY <1>0, <3>1, <3>2, TokensAssociative, Zenon
    <3> QED BY <3>2, <3>3
  <2>5. (n + k) + 1 = n + (k + 1)
    OBVIOUS
  <2> QED BY <2>3, <2>4, <2>5, Zenon
<1> HIDE DEF T
<1>3. Nat \subseteq T
  BY <1>1, <1>2, Induction
<1> QED BY <1>3 DEF T

LastOf(row, x) == IF x = 0 THEN 0 ELSE row[x - 1]
Colour(bit) == IF bit = 1 THEN "black" ELSE "white"
Piece(row, x) == IF row[x] # LastOf(row, x) THEN <<Colour(row[x]), TwoSpaces>> ELSE <<TwoSpaces>>

LEMMA ColourType ==
  ASSUME NEW bit
  PROVE  Colour(bit) \in Tokens \ {TwoSpaces} /\ (Colour(bit) = "black" <=> bit = 1)
BY Differ DEF Colour, Tokens

LEMMA PieceType ==
  ASSUME NEW row, NEW x
  PROVE  Piece(row, x) \in Seq(Tokens)
<1>1. Colour(row[x]) \in Tokens /\ TwoSpaces \in Tokens
  BY ColourType DEF Tokens
<1> HIDE DEF Tokens
<1> QED BY <1>1 DEF Piece

LEMMA DrawnPiece ==
  ASSUME NEW row, NEW x, NEW t, NEW n \in Nat, NEW D, Drawn(t, n, D, Colour(LastOf(row, x))),
         n \in D <=> row[x] = 1
  PROVE  Drawn(t \o Piece(row, x), n + 1, D, Colour(row[x]))
<1>1. CASE row[x] = LastOf(row, x)
  <2>1. Piece(row, x) = <<TwoSpaces>>
    BY <1>1, Zenon DEF Piece
  <2>2. Drawn(t, n, D, Colour(row[x]))
    BY <1>1
  <2>3. n \in D <=> Colour(row[x]) = "black"
    BY ColourType
  <2> QED BY <2>1, <2>2, <2>3, DrawnPair
<1>2. CASE row[x] # LastOf(row, x)
  <2>1. Piece(row, x) = <<Colour(row[x]), TwoSpaces>>
    BY <1>2, Zenon DEF Piece
  <2>2. Drawn(t \o <<Colour(row[x])>>, n, D, Colour(row[x]))
    BY ColourType, DrawnColour
  <2>3. n \in D <=> Colour(row[x]) = "black"
    BY ColourType
  <2>4. Drawn((t \o <<Colour(row[x])>>) \o <<TwoSpaces>>, n + 1, D, Colour(row[x]))
    BY <2>2, <2>3, DrawnPair
  <2>5. (t \o <<Colour(row[x])>>) \o <<TwoSpaces>> = t \o <<Colour(row[x]), TwoSpaces>>
    <3>1. t \in Seq(Tokens) /\ Colour(row[x]) \in Tokens /\ TwoSpaces \in Tokens
      BY ColourType DEF Drawn, Tokens
    <3> HIDE DEF Tokens
    <3>2. <<Colour(row[x])>> \in Seq(Tokens) /\ <<TwoSpaces>> \in Seq(Tokens)
          /\ <<Colour(row[x])>> \o <<TwoSpaces>> = <<Colour(row[x]), TwoSpaces>>
      BY <3>1, TwoTokens
    <3>3. (t \o <<Colour(row[x])>>) \o <<TwoSpaces>> = t \o (<<Colour(row[x])>> \o <<TwoSpaces>>)
      BY <3>1, <3>2, TokensAssociative, Zenon
    <3> QED BY <3>2, <3>3
  <2> QED BY <2>1, <2>4, <2>5
<1> QED BY <1>1, <1>2

Pieces(row, w) == [i \in 1..w |-> Piece(row, i - 1)]

\* The modules of a row come after the margin.
Coloured(row, w, margin) == {i \in Nat : DarkIn(row, w, i - margin)}

LEMMA DrawnPieces ==
  ASSUME NEW row, NEW w \in Nat \ {0}, NEW margin \in Nat, NEW t,
         Drawn(t, margin, Coloured(row, w, margin), "white")
  PROVE  Drawn(t \o FlattenSeq(Pieces(row, w)), margin + w, Coloured(row, w, margin), Colour(LastOf(row, w)))
<1> DEFINE s == Pieces(row, w)
           D == Coloured(row, w, margin)
<1>0. t \in Seq(Tokens)
  BY DEF Drawn
<1>1. s \in Seq(Seq(Tokens)) /\ Len(s) = w /\ \A i \in 1..w : s[i] = Piece(row, i - 1) /\ s[i] \in Seq(Tokens)
  <2> DEFINE S == Seq(Tokens)
  <2>1. \A i \in 1..w : Piece(row, i - 1) \in S
    BY PieceType
  <2> HIDE DEF S
  <2>2. s \in Seq(S) /\ Len(s) = w /\ \A i \in 1..w : s[i] = Piece(row, i - 1)
    BY <2>1 DEF Pieces
  <2> QED BY <2>1, <2>2 DEF S
<1> HIDE DEF s
<1>2. PICK g : Accumulates(g, s, w) /\ FlattenSeq(s) = g[w]
  <2>1. s # <<>>
    BY <1>1
  <2> QED BY <1>1, <2>1, Flattened, Zenon
<1>3. \A i \in 1..w : g[i] = IF i = 1 THEN s[i] ELSE g[i - 1] \o s[i]
  BY <1>2, AccumulatesAt DEF Adds
<1> DEFINE T == {k \in Nat : k \in 1..w => g[k] \in Seq(Tokens) /\ Drawn(t \o g[k], margin + k, D, Colour(LastOf(row, k)))}
<1>4. ASSUME NEW k \in Nat, k + 1 \in 1..w
      PROVE  /\ margin + k \in D <=> row[k] = 1
             /\ s[k + 1] = Piece(row, k) /\ LastOf(row, k + 1) = row[k]
             /\ margin + k \in Nat /\ (margin + k) + 1 = margin + (k + 1)
  <2>1. (margin + k) - margin = k /\ margin + k \in Nat /\ k \in 0..w - 1 /\ (k + 1) - 1 = k /\ k + 1 # 0
    BY <1>4
  <2>2. margin + k \in D <=> DarkIn(row, w, k)
    BY <2>1 DEF Coloured
  <2>3. DarkIn(row, w, k) <=> row[k] = 1
    BY <2>1 DEF DarkIn
  <2>4. s[k + 1] = Piece(row, k)
    BY <1>1, <1>4, <2>1
  <2>5. LastOf(row, k + 1) = row[k]
    BY <2>1 DEF LastOf
  <2>6. (margin + k) + 1 = margin + (k + 1)
    OBVIOUS
  <2> QED BY <2>1, <2>2, <2>3, <2>4, <2>5, <2>6
<1> HIDE DEF D
<1>5. 0 \in T
  OBVIOUS
<1>6. ASSUME NEW k \in Nat, k \in T PROVE k + 1 \in T
  <2> SUFFICES ASSUME k + 1 \in 1..w
               PROVE  /\ g[k + 1] \in Seq(Tokens)
                      /\ Drawn(t \o g[k + 1], margin + (k + 1), D, Colour(LastOf(row, k + 1)))
    OBVIOUS
  <2>1. CASE k = 0
    <3>1. g[k + 1] = Piece(row, k)
      BY <1>3, <1>4, <2>1
    <3>2. Drawn(t, margin + k, D, Colour(LastOf(row, k)))
      <4>1. Colour(LastOf(row, k)) = "white" /\ margin + k = margin
        BY <2>1 DEF Colour, LastOf
      <4> QED BY <4>1 DEF D
    <3>3. Drawn(t \o Piece(row, k), (margin + k) + 1, D, Colour(row[k]))
      BY <1>4, <3>2, DrawnPiece
    <3> QED BY <1>4, <3>1, <3>3, PieceType
  <2>2. CASE k # 0
    <3>1. g[k + 1] = g[k] \o Piece(row, k) /\ k \in 1..w
      <4>1. (k + 1) - 1 = k /\ k + 1 # 1
        BY <2>2
      <4>2. k \in 1..w
        BY <2>2
      <4>3. g[k + 1] = g[k] \o s[k + 1]
        BY <1>3, <4>1
      <4> QED BY <1>4, <4>2, <4>3
    <3>2. g[k] \in Seq(Tokens) /\ Drawn(t \o g[k], margin + k, D, Colour(LastOf(row, k)))
      BY <1>6, <3>1
    <3>3. Drawn((t \o g[k]) \o Piece(row, k), (margin + k) + 1, D, Colour(row[k]))
      BY <1>4, <3>2, DrawnPiece
    <3>4. (t \o g[k]) \o Piece(row, k) = t \o g[k + 1] /\ g[k + 1] \in Seq(Tokens)
      <4> HIDE DEF Tokens
      <4>1. Piece(row, k) \in Seq(Tokens)
        BY PieceType
      <4>2. g[k] \o Piece(row, k) \in Seq(Tokens)
        BY <3>2, <4>1
      <4>3. (t \o g[k]) \o Piece(row, k) = t \o (g[k] \o Piece(row, k))
        BY <1>0, <3>2, <4>1, TokensAssociative, Zenon
      <4> QED BY <3>1, <4>2, <4>3, Zenon
    <3> QED BY <1>4, <3>3, <3>4
  <2> QED BY <2>1, <2>2
<1> HIDE DEF T
<1>7. Nat \subseteq T
  BY <1>5, <1>6, Induction
<1>8. w \in T /\ w \in 1..w
  BY <1>7
<1>9. Drawn(t \o g[w], margin + w, D, Colour(LastOf(row, w)))
  BY <1>8 DEF T
<1> QED BY <1>2, <1>9 DEF s, D

-----------------------------------------------------------------------------
SpacesOf(line) == {k \in DOMAIN line : line[k] = TwoSpaces}
ToldOf(line, k) == CHOOSE c \in 1..k : /\ line[c] # TwoSpaces /\ \A d \in c + 1..k : line[d] = TwoSpaces
ColumnOf(line, k) == 2 * Cardinality({c \in SpacesOf(line) : c < k})
DarkOf(line, y) ==
  UNION {{<<ColumnOf(line, k), y>>, <<ColumnOf(line, k) + 1, y>>} :
           k \in {c \in SpacesOf(line) : line[ToldOf(line, c)] = "black"}}

LEMMA SeenColoured ==
  ASSUME NEW p, p.type = "ANSI"
  PROVE  Seen(p) = [width |-> 2 * Cardinality(SpacesOf(p.lines[1])), height |-> Len(p.lines),
                    dark |-> UNION {DarkOf(p.lines[l], l - 1) : l \in DOMAIN p.lines}]
BY DEF Seen, SpacesOf, ToldOf, ColumnOf, DarkOf

LEMMA ToldOnce ==
  ASSUME NEW t, NEW k \in Nat, NEW c, ToldAt(t, k, c)
  PROVE  ToldOf(t, k) = c
<1>1. c \in 1..k /\ t[c] # TwoSpaces /\ \A d \in c + 1..k : t[d] = TwoSpaces
  BY DEF ToldAt
<1>2. \A e \in 1..k : t[e] # TwoSpaces /\ (\A d \in e + 1..k : t[d] = TwoSpaces) => e = c
  <2> TAKE e \in 1..k
  <2>1. e < c \/ e = c \/ c < e
    BY <1>1
  <2>2. e < c => c \in e + 1..k
    BY <1>1
  <2>3. c < e => e \in c + 1..k
    BY <1>1
  <2> QED BY <1>1, <2>1, <2>2, <2>3
<1> DEFINE P(e) == /\ t[e] # TwoSpaces /\ \A d \in e + 1..k : t[d] = TwoSpaces
<1>3. c \in 1..k /\ P(c) /\ \A e \in 1..k : P(e) => e = c
  BY <1>1, <1>2
<1> HIDE DEF P
<1>4. (CHOOSE e \in 1..k : P(e)) = c
  BY <1>3
<1> QED BY <1>4, Zenon DEF ToldOf, P

\* The tokens of the first m pairs.
FirstPairs(t, pos, m) == {c \in SpacesOf(t) : \E j \in 0..m - 1 : pos[j] = c}

LEMMA Counted ==
  ASSUME NEW t, NEW n \in Nat, NEW pos, Len(t) \in Nat, DOMAIN t = 1..Len(t), PairsAt(t, n, pos),
         NEW m \in 0..n
  PROVE  Cardinality(FirstPairs(t, pos, m)) = m
<1> DEFINE S == 0..m - 1
           T == {c \in SpacesOf(t) : \E j \in S : pos[j] = c}
           F == [j \in S |-> pos[j]]
<1>1. /\ pos \in [0..n - 1 -> 1..Len(t)]
      /\ \A i, j \in 0..n - 1 : i < j => pos[i] < pos[j]
      /\ \A k \in 1..Len(t) : t[k] = TwoSpaces <=> \E i \in 0..n - 1 : pos[i] = k
  BY DEF PairsAt
<1>2. S \subseteq 0..n - 1
  OBVIOUS
<1>3. F \in [S -> T]
  <2> SUFFICES ASSUME NEW j \in S PROVE pos[j] \in T
    OBVIOUS
  <2>1. pos[j] \in 1..Len(t) /\ t[pos[j]] = TwoSpaces
    BY <1>1, <1>2
  <2> QED BY <2>1 DEF SpacesOf
<1>4. \A a, b \in S : F[a] = F[b] => a = b
  <2> TAKE a, b \in S
  <2>1. F[a] = pos[a] /\ F[b] = pos[b] /\ a \in 0..n - 1 /\ b \in 0..n - 1
    BY <1>2
  <2>2. pos[a] \in 1..Len(t) /\ pos[b] \in 1..Len(t)
    BY <1>1, <2>1
  <2>3. (a < b => pos[a] < pos[b]) /\ (b < a => pos[b] < pos[a])
    BY <1>1, <2>1
  <2> QED BY <2>1, <2>2, <2>3
<1>5. \A c \in T : \E j \in S : F[j] = c
  OBVIOUS
<1>6. ExistsBijection(S, T)
  <2> HIDE DEF S, T, F
  <2>1. F \in Bijection(S, T)
    BY <1>3, <1>4, <1>5, Fun_IsBij, Zenon
  <2> QED BY <2>1 DEF ExistsBijection
<1>7. IsFiniteSet(S) /\ Cardinality(S) = m
  <2>1. m - 1 \in Int /\ 0 \in Int /\ (IF 0 > m - 1 THEN 0 ELSE (m - 1) - 0 + 1) = m
    OBVIOUS
  <2> QED BY <2>1, FS_Interval
<1> HIDE DEF T, S
<1>8. Cardinality(T) = m
  BY <1>6, <1>7, FS_Bijection
<1> QED BY <1>8 DEF T, S, FirstPairs

\* What a viewer sees of a line with n pairs, those of D black.
LineShown(t, n, D, y) ==
  /\ Cardinality(SpacesOf(t)) = n
  /\ \A q : q \in DarkOf(t, y) <=> \E x \in 0..2 * n - 1 : x \div 2 \in D /\ q = <<x, y>>

LEMMA DrawnShown ==
  ASSUME NEW t, NEW n \in Nat, NEW D, NEW now, Drawn(t, n, D, now), NEW y \in Int
  PROVE  LineShown(t, n, D, y)
<1>0. t \in Seq(Tokens)
  BY DEF Drawn
<1>1. Len(t) \in Nat /\ DOMAIN t = 1..Len(t)
  <2> HIDE DEF Tokens
  <2> QED BY <1>0
<1>2. PICK pos : PairsAt(t, n, pos) /\ Shades(t, n, pos, D)
  BY Zenon DEF Drawn
<1>3. /\ pos \in [0..n - 1 -> 1..Len(t)]
      /\ \A i, j \in 0..n - 1 : i < j => pos[i] < pos[j]
      /\ \A k \in 1..Len(t) : t[k] = TwoSpaces <=> \E i \in 0..n - 1 : pos[i] = k
  BY <1>2 DEF PairsAt
<1>4. \A k : k \in SpacesOf(t) <=> \E i \in 0..n - 1 : pos[i] = k
  BY <1>1, <1>3 DEF SpacesOf
<1>5. Cardinality(SpacesOf(t)) = n
  <2>1. SpacesOf(t) = FirstPairs(t, pos, n)
    BY <1>4 DEF FirstPairs
  <2>2. n \in 0..n
    OBVIOUS
  <2>3. Cardinality(FirstPairs(t, pos, n)) = n
    BY <1>1, <1>2, <2>2, Counted, Zenon
  <2> QED BY <2>1, <2>3
<1>6. \A i \in 0..n - 1 : ColumnOf(t, pos[i]) = 2 * i
  <2> TAKE i \in 0..n - 1
  <2> DEFINE B == {c \in SpacesOf(t) : c < pos[i]}
             C == FirstPairs(t, pos, i)
  <2>1. ASSUME NEW c \in SpacesOf(t)
        PROVE  c < pos[i] <=> \E j \in 0..i - 1 : pos[j] = c
    <3>1. PICK h \in 0..n - 1 : pos[h] = c
      BY <1>4
    <3>2. pos[h] < pos[i] <=> h < i
      <4>1. pos[h] \in 1..Len(t) /\ pos[i] \in 1..Len(t)
        BY <1>3
      <4>2. (h < i => pos[h] < pos[i]) /\ (i < h => pos[i] < pos[h])
        BY <1>3
      <4> QED BY <4>1, <4>2
    <3>3. ASSUME NEW j \in 0..i - 1, pos[j] = c PROVE c < pos[i]
      BY <1>3, <3>3
    <3> QED BY <3>1, <3>2, <3>3
  <2>2. B = C
    BY <2>1 DEF FirstPairs
  <2>3. i \in 0..n
    OBVIOUS
  <2>4. Cardinality(C) = i
    BY <1>1, <1>2, <2>3, Counted, Zenon
  <2> QED BY <2>2, <2>4 DEF ColumnOf
<1>7. \A i \in 0..n - 1 : t[ToldOf(t, pos[i])] = "black" <=> i \in D
  <2> TAKE i \in 0..n - 1
  <2>1. PICK c : ToldAt(t, pos[i], c) /\ (t[c] = "black" <=> i \in D)
    BY <1>2, Zenon DEF Shades
  <2>2. pos[i] \in Nat
    BY <1>1, <1>3
  <2>3. ToldOf(t, pos[i]) = c
    BY <2>1, <2>2, ToldOnce, Zenon
  <2> QED BY <2>1, <2>3, Zenon
<1>8. ASSUME NEW q
      PROVE  q \in DarkOf(t, y) <=> \E i \in 0..n - 1 : i \in D /\ (q = <<2 * i, y>> \/ q = <<2 * i + 1, y>>)
  <2>1. q \in DarkOf(t, y) <=> \E k \in SpacesOf(t) : t[ToldOf(t, k)] = "black" /\ (q = <<ColumnOf(t, k), y>> \/ q = <<ColumnOf(t, k) + 1, y>>)
    <3> DEFINE K == {c \in SpacesOf(t) : t[ToldOf(t, c)] = "black"}
    <3>1. \A k : k \in K <=> k \in SpacesOf(t) /\ t[ToldOf(t, k)] = "black"
      OBVIOUS
    <3>2. DarkOf(t, y) = UNION {{<<ColumnOf(t, k), y>>, <<ColumnOf(t, k) + 1, y>>} : k \in K}
      BY Zenon DEF DarkOf
    <3> HIDE DEF K
    <3>3. q \in DarkOf(t, y) <=> \E k \in K : q = <<ColumnOf(t, k), y>> \/ q = <<ColumnOf(t, k) + 1, y>>
      BY <3>2
    <3> QED BY <3>1, <3>3, Zenon
  <2>2. ASSUME NEW i \in 0..n - 1
        PROVE  /\ pos[i] \in SpacesOf(t) /\ t[ToldOf(t, pos[i])] = "black" <=> i \in D
               /\ ColumnOf(t, pos[i]) = 2 * i
    BY <1>4, <1>6, <1>7, Zenon
  <2>3. ASSUME NEW k \in SpacesOf(t)
        PROVE  \E i \in 0..n - 1 : k = pos[i]
    BY <1>4, Zenon
  <2>4. ASSUME NEW i \in 0..n - 1, i \in D, q = <<2 * i, y>> \/ q = <<2 * i + 1, y>>
        PROVE  q \in DarkOf(t, y)
    BY <2>1, <2>2, <2>4, Zenon
  <2>5. ASSUME q \in DarkOf(t, y)
        PROVE  \E i \in 0..n - 1 : i \in D /\ (q = <<2 * i, y>> \/ q = <<2 * i + 1, y>>)
    <3>1. PICK k \in SpacesOf(t) : t[ToldOf(t, k)] = "black" /\ (q = <<ColumnOf(t, k), y>> \/ q = <<ColumnOf(t, k) + 1, y>>)
      BY <2>1, <2>5, Zenon
    <3>2. PICK i \in 0..n - 1 : k = pos[i]
      BY <2>3, Zenon
    <3> QED BY <2>2, <3>1, <3>2, Zenon
  <2> QED BY <2>4, <2>5
<1>9. ASSUME NEW q
      PROVE  q \in DarkOf(t, y) <=> \E x \in 0..2 * n - 1 : x \div 2 \in D /\ q = <<x, y>>
  <2>1. ASSUME NEW i \in 0..n - 1
        PROVE  /\ 2 * i \in 0..2 * n - 1 /\ (2 * i) \div 2 = i
               /\ 2 * i + 1 \in 0..2 * n - 1 /\ (2 * i + 1) \div 2 = i
    OBVIOUS
  <2>2. ASSUME NEW x \in 0..2 * n - 1
        PROVE  x \div 2 \in 0..n - 1 /\ (x = 2 * (x \div 2) \/ x = 2 * (x \div 2) + 1)
    OBVIOUS
  <2> QED BY <1>8, <2>1, <2>2
<1> QED BY <1>5, <1>9 DEF LineShown

ColouredLine(row, w, margin) ==
  <<"white">> \o Pairs(margin) \o FlattenSeq(Pieces(row, w))
    \o (IF LastOf(row, w) # 0 THEN <<"white">> ELSE <<>>) \o Pairs(margin) \o <<"reset">>
BlankLine(w, margin) == <<"white">> \o Pairs(w + 2 * margin) \o <<"reset">>

LEMMA ColouredLineDrawn ==
  ASSUME NEW row, NEW w \in Nat \ {0}, NEW margin \in Nat
  PROVE  Drawn(ColouredLine(row, w, margin), w + 2 * margin, Coloured(row, w, margin), "reset")
<1> DEFINE D == Coloured(row, w, margin)
           t1 == <<"white">> \o Pairs(margin)
           t2 == t1 \o FlattenSeq(Pieces(row, w))
           t3 == t2 \o (IF LastOf(row, w) # 0 THEN <<"white">> ELSE <<>>)
           t4 == t3 \o Pairs(margin)
           t5 == t4 \o <<"reset">>
<1>1. /\ "white" \in Tokens \ {TwoSpaces} /\ "reset" \in Tokens \ {TwoSpaces}
  BY Differ DEF Tokens
<1>2. \A i \in 0..0 + margin - 1 : i \in D <=> "white" = "black"
  BY DEF Coloured, DarkIn
<1>3. \A i \in margin + w..(margin + w) + margin - 1 : i \in D <=> "white" = "black"
  BY DEF Coloured, DarkIn
<1>4. margin + w \in Nat /\ (margin + w) + margin = w + 2 * margin /\ 0 + margin = margin /\ 0 \in Nat
  OBVIOUS
<1> HIDE DEF D
<1>5. Drawn(t1, margin, D, "white")
  <2>1. Drawn(<<"white">>, 0, D, "white")
    BY DrawnStart
  <2>2. Drawn(t1, 0 + margin, D, "white")
    BY <1>2, <1>4, <2>1, DrawnPairs, Zenon
  <2> QED BY <1>4, <2>2
<1> HIDE DEF t1
<1>6. Drawn(t2, margin + w, D, Colour(LastOf(row, w)))
  BY <1>5, DrawnPieces DEF D
<1> HIDE DEF t2
<1>7. Drawn(t3, margin + w, D, "white")
  <2>1. CASE LastOf(row, w) # 0
    <3>1. t3 = t2 \o <<"white">>
      BY <2>1
    <3> QED BY <1>1, <1>4, <1>6, <3>1, DrawnColour
  <2>2. CASE LastOf(row, w) = 0
    <3>1. t3 = t2 \o <<>>
      BY <2>2
    <3>2. t2 \in Seq(Tokens)
      BY <1>6, Zenon DEF Drawn
    <3> HIDE DEF t3, Tokens
    <3>3. t3 = t2
      BY <3>1, <3>2
    <3>4. Colour(LastOf(row, w)) = "white"
      BY <2>2 DEF Colour
    <3> QED BY <1>6, <3>3, <3>4
  <2> QED BY <2>1, <2>2
<1> HIDE DEF t3
<1>8. Drawn(t4, w + 2 * margin, D, "white")
  <2>1. Drawn(t4, (margin + w) + margin, D, "white")
    BY <1>3, <1>4, <1>7, DrawnPairs, Zenon
  <2> QED BY <1>4, <2>1
<1> HIDE DEF t4
<1>9. Drawn(t5, w + 2 * margin, D, "reset")
  <2>1. w + 2 * margin \in Nat
    OBVIOUS
  <2> QED BY <1>1, <1>8, <2>1, DrawnColour
<1> QED BY <1>9, Zenon DEF t1, t2, t3, t4, t5, D, ColouredLine

LEMMA BlankLineDrawn ==
  ASSUME NEW w \in Nat \ {0}, NEW margin \in Nat
  PROVE  Drawn(BlankLine(w, margin), w + 2 * margin, {}, "reset")
<1> DEFINE n == w + 2 * margin
           t == <<"white">> \o Pairs(n)
<1>1. "reset" \in Tokens \ {TwoSpaces}
  BY Differ DEF Tokens
<1>2. n \in Nat /\ 0 + n = n /\ 0 \in Nat
  OBVIOUS
<1>3. \A i \in 0..0 + n - 1 : i \in {} <=> "white" = "black"
  OBVIOUS
<1>4. Drawn(<<"white">>, 0, {}, "white")
  BY DrawnStart
<1> HIDE DEF n
<1>5. Drawn(t, 0 + n, {}, "white")
  BY <1>2, <1>3, <1>4, DrawnPairs, Zenon
<1> HIDE DEF t
<1>6. Drawn(t \o <<"reset">>, n, {}, "reset")
  BY <1>1, <1>2, <1>5, DrawnColour
<1> QED BY <1>6, Zenon DEF t, n, BlankLine

LEMMA ShownByANSI ==
  ASSUME NEW w \in Nat \ {0}, NEW s, Square(s, w), NEW margin \in Nat
  PROVE  Seen(WriteANSI(s, margin)) = Magnified(s, margin, 2, 1)
<1> DEFINE p == WriteANSI(s, margin)
           n == w + 2 * margin
           C == Seq(Tokens)
           blank == [i \in 1..margin |-> BlankLine(w, margin)]
           body == [i \in 1..w |-> ColouredLine(s[i - 1], w, margin)]
           lines == blank \o body \o blank
<1>0. n \in Nat \ {0}
  OBVIOUS
<1>1. Cardinality(DOMAIN s) = w
  BY SquareSide
<1>2. p.type = "ANSI" /\ p.lines = lines
  <2>1. p = [type |-> "ANSI", lines |-> lines]
    BY <1>1, Zenon DEF WriteANSI, Pairs, Pieces, Piece, Colour, LastOf, ColouredLine, BlankLine
  <2> HIDE DEF p, lines
  <2> QED BY <2>1
<1>3. \A row : ColouredLine(row, w, margin) \in C
  BY ColouredLineDrawn, Zenon DEF Drawn
<1>4. BlankLine(w, margin) \in C
  BY BlankLineDrawn, Zenon DEF Drawn
<1> HIDE DEF C
<1>5. /\ blank \in Seq(C) /\ Len(blank) = margin
      /\ \A l \in 1..margin : blank[l] = BlankLine(w, margin)
  BY <1>4
<1>6. body \in Seq(C) /\ Len(body) = w /\ \A l \in 1..w : body[l] = ColouredLine(s[l - 1], w, margin)
  BY <1>3
<1> HIDE DEF blank, body
<1>7. JoinsThree(lines, blank, body, blank, C)
  BY <1>5, <1>6, Three, Zenon
<1> HIDE DEF lines, p
<1>8. /\ lines \in Seq(C) /\ Len(lines) = n
      /\ \A l \in 1..margin : lines[l] = BlankLine(w, margin)
      /\ \A l \in 1..w : lines[margin + l] = ColouredLine(s[l - 1], w, margin)
      /\ \A l \in 1..margin : lines[margin + w + l] = BlankLine(w, margin)
  <2>1. /\ lines \in Seq(C) /\ Len(lines) = Len(blank) + Len(body) + Len(blank)
        /\ \A i \in 1..Len(blank) : lines[i] = blank[i]
        /\ \A i \in 1..Len(body) : lines[Len(blank) + i] = body[i]
        /\ \A i \in 1..Len(blank) : lines[Len(blank) + Len(body) + i] = blank[i]
    BY <1>7 DEF JoinsThree
  <2>2. Len(lines) = n
    BY <1>5, <1>6, <2>1
  <2>3. /\ \A i \in 1..margin : lines[i] = blank[i]
        /\ \A i \in 1..w : lines[margin + i] = body[i]
        /\ \A i \in 1..margin : lines[margin + w + i] = blank[i]
    BY <1>5, <1>6, <2>1, Zenon
  <2>4. \A l \in 1..margin : lines[l] = BlankLine(w, margin)
    BY <1>5, <2>3
  <2>5. \A l \in 1..w : lines[margin + l] = ColouredLine(s[l - 1], w, margin)
    BY <1>6, <2>3
  <2>6. \A l \in 1..margin : lines[margin + w + l] = BlankLine(w, margin)
    BY <1>5, <2>3
  <2> QED BY <2>1, <2>2, <2>4, <2>5, <2>6
<1>9. DOMAIN lines = 1..n /\ 1 \in 1..n
  BY <1>0, <1>8
<1>10. ASSUME NEW l \in 1..n
       PROVE  \E D : /\ LineShown(lines[l], n, D, l - 1)
                     /\ \A i \in Nat : i \in D <=> Lit(s, w, i - margin, l - 1 - margin)
  <2>0. l - 1 \in Int /\ n \in Nat
    BY <1>0
  <2>1. CASE lines[l] = BlankLine(w, margin) /\ l - 1 - margin \notin 0..w - 1
    <3>1. \A i : ~Lit(s, w, i, l - 1 - margin)
      BY <2>1, Zenon DEF Lit
    <3>2. LineShown(BlankLine(w, margin), n, {}, l - 1)
      BY <2>0, BlankLineDrawn, DrawnShown DEF n
    <3> QED BY <2>1, <3>1, <3>2
  <2>2. CASE l - 1 - margin \in 0..w - 1 /\ lines[l] = ColouredLine(s[l - 1 - margin], w, margin)
    <3> DEFINE row == s[l - 1 - margin]
    <3>1. \A i : Lit(s, w, i, l - 1 - margin) <=> DarkIn(row, w, i)
      BY <2>2, Zenon DEF Lit, DarkIn
    <3>2. LineShown(ColouredLine(row, w, margin), n, Coloured(row, w, margin), l - 1)
      BY <2>0, ColouredLineDrawn, DrawnShown DEF n
    <3>3. \A i \in Nat : i \in Coloured(row, w, margin) <=> DarkIn(row, w, i - margin)
      BY DEF Coloured
    <3> QED BY <2>2, <3>1, <3>2, <3>3
  <2>3. CASE l <= margin
    BY <1>8, <2>1, <2>3
  <2>4. CASE margin < l /\ l <= margin + w
    <3>1. PICK i \in 1..w : i = l - margin
      BY <2>4
    <3>2. l = margin + i /\ i - 1 = l - 1 - margin
      BY <3>1
    <3> QED BY <1>8, <2>2, <3>2
  <2>5. CASE margin + w < l
    <3>1. PICK i \in 1..margin : i = l - (margin + w)
      BY <2>5
    <3>2. l = margin + w + i /\ l - 1 - margin \notin 0..w - 1
      BY <3>1
    <3> QED BY <1>8, <2>1, <3>2
  <2> QED BY <2>3, <2>4, <2>5
<1>11. Cardinality(SpacesOf(lines[1])) = n
  BY <1>9, <1>10, Zenon DEF LineShown
<1>12. ASSUME NEW l \in 1..n, NEW q
       PROVE  q \in DarkOf(lines[l], l - 1)
                <=> \E x \in 0..2 * n - 1 : q = <<x, l - 1>> /\ Lit(s, w, (x \div 2) - margin, l - 1 - margin)
  <2>1. PICK D : /\ LineShown(lines[l], n, D, l - 1)
                 /\ \A i \in Nat : i \in D <=> Lit(s, w, i - margin, l - 1 - margin)
    BY <1>10
  <2>2. q \in DarkOf(lines[l], l - 1) <=> \E x \in 0..2 * n - 1 : x \div 2 \in D /\ q = <<x, l - 1>>
    BY <2>1, Zenon DEF LineShown
  <2>3. \A x \in 0..2 * n - 1 : x \div 2 \in Nat
    OBVIOUS
  <2>4. \A x \in 0..2 * n - 1 : x \div 2 \in D <=> Lit(s, w, (x \div 2) - margin, l - 1 - margin)
    BY <2>1, <2>3, Zenon
  <2> QED BY <2>2, <2>4, Zenon
<1>13. \A i \in Int, j \in Int : Lit(s, w, i - margin, j - margin) => i \in 0..n - 1 /\ j \in 0..n - 1
  BY DEF Lit
<1>14. UNION {DarkOf(lines[l], l - 1) : l \in DOMAIN lines} = LitPlaces(s, w, margin, 2, 1)
  <2>1. ASSUME NEW q, NEW l \in 1..n, q \in DarkOf(lines[l], l - 1)
        PROVE  q \in LitPlaces(s, w, margin, 2, 1)
    <3>1. PICK x \in 0..2 * n - 1 : q = <<x, l - 1>> /\ Lit(s, w, (x \div 2) - margin, l - 1 - margin)
      BY <1>12, <2>1
    <3>2. l - 1 \in Int /\ x \in Int /\ (l - 1) \div 1 = l - 1
      BY <1>0
    <3> QED BY <3>1, <3>2 DEF LitPlaces
  <2>2. ASSUME NEW q, q \in LitPlaces(s, w, margin, 2, 1)
        PROVE  \E l \in 1..n : q \in DarkOf(lines[l], l - 1)
    <3>1. PICK x \in Int, y \in Int : q = <<x, y>> /\ Lit(s, w, (x \div 2) - margin, (y \div 1) - margin)
      BY <2>2 DEF LitPlaces
    <3>2. PICK i \in Int : i = x \div 2
      OBVIOUS
    <3>3. y \div 1 = y /\ 2 * i <= x /\ x <= 2 * i + 1
      BY <3>2
    <3>4. Lit(s, w, i - margin, y - margin)
      BY <3>1, <3>2, <3>3
    <3>5. i \in 0..n - 1 /\ y \in 0..n - 1
      BY <1>13, <3>4
    <3>6. x \in 0..2 * n - 1
      BY <1>0, <3>3, <3>5
    <3>7. PICK l \in 1..n : y = l - 1
      <4>1. y + 1 \in 1..n /\ y = (y + 1) - 1
        BY <1>0, <3>5
      <4> QED BY <4>1
    <3> QED BY <1>12, <3>1, <3>2, <3>4, <3>6, <3>7
  <2> QED BY <1>9, <2>1, <2>2
<1>15. Seen(p) = [width |-> 2 * n, height |-> n, dark |-> LitPlaces(s, w, margin, 2, 1)]
  <2>1. Seen(p) = [width |-> 2 * Cardinality(SpacesOf(lines[1])), height |-> Len(lines),
                   dark |-> UNION {DarkOf(lines[l], l - 1) : l \in DOMAIN lines}]
    BY <1>2, SeenColoured
  <2> QED BY <1>8, <1>11, <1>14, <2>1, Zenon
<1>16. 2 * n = (w + 2 * margin) * 2 /\ n = (w + 2 * margin) * 1
  OBVIOUS
<1>17. Magnified(s, margin, 2, 1)
         = [width |-> (w + 2 * margin) * 2, height |-> (w + 2 * margin) * 1,
            dark |-> LitPlaces(s, w, margin, 2, 1)]
  BY MagnifiedPlaces
<1> HIDE DEF n
<1> QED BY <1>15, <1>16, <1>17, Zenon DEF p

-----------------------------------------------------------------------------
(***************************************************************************)
(* What the files show.  Each writer of the tool and of the server, for    *)
(* every symbol, margin and size.                                          *)
(***************************************************************************)
Types == {"PNG", "EPS", "SVG", "ANSI", "ANSI256", "ASCII", "ASCIIi"}
Squared(s) == \E w \in Nat \ {0} : Square(s, w)

(* The file p is the symbol s: each module in size by size pixels, or in two
   characters of one line, and a light margin of so many modules around them. *)
Shown(p, s, type, margin, size) ==
  Seen(p) = IF type \in {"PNG", "EPS", "SVG"} THEN Magnified(s, margin, size, size) ELSE Magnified(s, margin, 2, 1)

(* qrencode's writers (qrenc.c:199-556): whatever the type, the margin and the
   size asked for, the file shows every module of the symbol, at its place and in
   its colour, and nothing else that is dark. *)
THEOREM EveryTypeShowsTheSymbol ==
  ASSUME NEW s, Squared(s), NEW type \in Types, NEW margin \in Nat, NEW size \in Nat \ {0}
  PROVE  Shown(Write(type, s, margin, size), s, type, margin, size)
<1>1. PICK w \in Nat \ {0} : Square(s, w)
  BY DEF Squared
<1>2. CASE type = "PNG"
  <2>1. Write(type, s, margin, size) = WritePNG(s, margin, size)
    BY <1>2 DEF Write
  <2>2. Seen(WritePNG(s, margin, size)) = Magnified(s, margin, size, size)
    BY <1>1, ShownByPNG, Zenon
  <2> QED BY <1>2, <2>1, <2>2 DEF Shown
<1>3. CASE type = "EPS"
  <2>1. Write(type, s, margin, size) = WriteEPS(s, margin, size)
    BY <1>3 DEF Write
  <2>2. Seen(WriteEPS(s, margin, size)) = Magnified(s, margin, size, size)
    BY <1>1, ShownByEPS, Zenon
  <2> QED BY <1>3, <2>1, <2>2 DEF Shown
<1>4. CASE type = "SVG"
  <2>1. Write(type, s, margin, size) = WriteSVG(s, margin, size)
    BY <1>4 DEF Write
  <2>2. Seen(WriteSVG(s, margin, size)) = Magnified(s, margin, size, size)
    BY <1>1, ShownBySVG, Zenon
  <2> QED BY <1>4, <2>1, <2>2 DEF Shown
<1>5. CASE type = "ANSI" \/ type = "ANSI256"
  <2>1. Write(type, s, margin, size) = WriteANSI(s, margin) /\ type \notin {"PNG", "EPS", "SVG"}
    BY <1>5 DEF Write
  <2>2. Seen(WriteANSI(s, margin)) = Magnified(s, margin, 2, 1)
    BY <1>1, ShownByANSI, Zenon
  <2> QED BY <2>1, <2>2 DEF Shown
<1>6. CASE type = "ASCII" \/ type = "ASCIIi"
  <2>1. PICK invert \in BOOLEAN : Write(type, s, margin, size) = WriteASCII(s, margin, invert)
    BY <1>6 DEF Write
  <2>2. Seen(WriteASCII(s, margin, invert)) = Magnified(s, margin, 2, 1)
    BY <1>1, ShownByASCII, Zenon
  <2>3. type \notin {"PNG", "EPS", "SVG"}
    BY <1>6
  <2> QED BY <2>1, <2>2, <2>3 DEF Shown
<1> QED BY <1>2, <1>3, <1>4, <1>5, <1>6 DEF Types

(* createBarcode's picture (QRGenerator.cpp:122-190): eight by eight pixels for
   each module of the symbol, no margin, and rows that need no padding. *)
THEOREM BitmapShowsTheSymbol ==
  ASSUME NEW s, Squared(s)
  PROVE  Seen(Bitmap(s)) = Magnified(s, 0, OUT_FILE_PIXEL_PRESCALER, OUT_FILE_PIXEL_PRESCALER)
<1>1. PICK w \in Nat \ {0} : Square(s, w)
  BY DEF Squared
<1>2. OUT_FILE_PIXEL_PRESCALER = 8
  BY DEF OUT_FILE_PIXEL_PRESCALER
<1> QED BY <1>1, <1>2, ShownByBitmap

-----------------------------------------------------------------------------
(***************************************************************************)
(* Rounds of estimating.  QRinput_estimateVersion starts over with the     *)
(* version it found for as long as that grows (qrinput.c:979-995); that it *)
(* comes to an end with a version or -1 is an induction on how far the     *)
(* version is from the largest one.                                        *)
(***************************************************************************)
(* A set of natural numbers has a least one. *)
LEMMA LeastIn ==
  ASSUME NEW S \in SUBSET Nat, S # {}
  PROVE  \E v \in S : \A u \in S : v <= u
<1> SUFFICES ASSUME \A v \in S : ~\A u \in S : v <= u PROVE FALSE
  OBVIOUS
<1> DEFINE T == {k \in Nat : \A u \in S : u >= k}
<1>1. 0 \in T
  OBVIOUS
<1>2. ASSUME NEW k \in Nat, k \in T PROVE k + 1 \in T
  <2> SUFFICES ASSUME NEW u \in S PROVE u >= k + 1
    OBVIOUS
  <2>1. u >= k /\ u \in Nat
    BY <1>2
  <2>2. ASSUME u = k PROVE FALSE
    <3>1. \A w \in S : w >= u /\ w \in Nat
      BY <1>2, <2>2
    <3>2. \A w \in S : u <= w
      BY <2>1, <3>1
    <3> QED BY <3>2
  <2> QED BY <2>1, <2>2
<1> HIDE DEF T
<1>3. Nat \subseteq T
  BY <1>1, <1>2, Induction
<1>4. PICK u \in S : TRUE
  OBVIOUS
<1>5. u + 1 \in Nat
  OBVIOUS
<1>6. u + 1 \in T
  BY <1>3, <1>5
<1>7. u >= u + 1
  BY <1>6 DEF T
<1> QED BY <1>7

Versions == 1..VersionMax

(* QRspec_getMinimumVersion gives a version or -1. *)
LEMMA MinimumVersionType ==
  ASSUME NEW size, NEW level
  PROVE  MinimumVersion(size, level) \in Versions \cup {-1}
<1> DEFINE enough == {v \in 1..VersionMax : DataLength(v, level) >= size}
<1>1. enough \subseteq Versions /\ enough \in SUBSET Nat
  BY DEF Versions, VersionMax
<1>2. CASE enough = {}
  BY <1>2 DEF MinimumVersion
<1>3. CASE enough # {}
  <2> DEFINE P(v) == \A u \in enough : v <= u
  <2>1. \E v \in enough : P(v)
    BY <1>1, <1>3, LeastIn
  <2>2. MinimumVersion(size, level) = CHOOSE v \in enough : P(v)
    BY <1>3 DEF MinimumVersion
  <2> HIDE DEF P, enough
  <2>3. (CHOOSE v \in enough : P(v)) \in enough
    BY <2>1
  <2> QED BY <1>1, <2>2, <2>3
<1> QED BY <1>2, <1>3

(* A round of QRinput_estimateVersion from the version prev. *)
NextVersion(entries, level, prev) ==
  MinimumVersion((EstimateBitStreamSize(entries, prev) + 7) \div 8, level)

(* What f gives for each version to start from, k or more. *)
Rounds(f, entries, level, k) ==
  f = [prev \in k..VersionMax |->
         LET v == NextVersion(entries, level, prev) IN IF v > prev THEN f[v] ELSE v]

(* There is such a function: the larger versions first. *)
LEMMA RoundsExist ==
  ASSUME NEW entries, NEW level
  PROVE  \E f \in [0..VersionMax -> Versions \cup {-1}] : Rounds(f, entries, level, 0)
<1> DEFINE R == Versions \cup {-1}
           next(p) == NextVersion(entries, level, p)
           T == {n \in Nat : n <= 40 => \E f \in [40 - n..40 -> R] :
                               \A p \in 40 - n..40 : f[p] = IF next(p) > p THEN f[next(p)] ELSE next(p)}
<1>1. \A p : next(p) \in R
  BY MinimumVersionType DEF NextVersion
<1>2. \A p : next(p) \in Int /\ next(p) <= 40 /\ (next(p) >= 1 \/ next(p) = -1)
  <2> TAKE p
  <2>1. next(p) \in R
    BY <1>1
  <2> HIDE DEF next
  <2>2. R = 1..40 \cup {-1}
    BY DEF Versions, VersionMax
  <2> QED BY <2>1, <2>2
<1> HIDE DEF next, R
<1>3. 0 \in T
  <2> DEFINE f == [p \in 40..40 |-> next(p)]
  <2>1. f \in [40..40 -> R]
    BY <1>1
  <2>2. \A p \in 40..40 : f[p] = next(p) /\ ~(next(p) > p)
    BY <1>1, <1>2
  <2> HIDE DEF f
  <2> QED BY <2>1, <2>2
<1>4. ASSUME NEW n \in Nat, n \in T PROVE n + 1 \in T
  <2> SUFFICES ASSUME n + 1 <= 40
               PROVE  \E f \in [40 - (n + 1)..40 -> R] :
                        \A p \in 40 - (n + 1)..40 : f[p] = IF next(p) > p THEN f[next(p)] ELSE next(p)
    OBVIOUS
  <2>1. PICK g \in [40 - n..40 -> R] : \A p \in 40 - n..40 : g[p] = IF next(p) > p THEN g[next(p)] ELSE next(p)
    BY <1>4
  <2>2. PICK q \in 0..39 : q = 40 - (n + 1) /\ q + 1 = 40 - n
    OBVIOUS
  <2> DEFINE x == IF next(q) > q THEN g[next(q)] ELSE next(q)
             f == [p \in q..40 |-> IF p = q THEN x ELSE g[p]]
  <2>3. next(q) > q => next(q) \in q + 1..40
    BY <1>1, <1>2
  <2>4. x \in R
    BY <1>1, <2>1, <2>2, <2>3
  <2>5. f \in [q..40 -> R]
    BY <2>1, <2>2, <2>4
  <2>6. \A p \in q + 1..40 : f[p] = g[p] /\ (next(p) > p => next(p) \in q + 1..40)
    BY <1>1, <1>2
  <2>7. f[q] = x /\ (next(q) > q => f[next(q)] = g[next(q)])
    BY <2>3
  <2> HIDE DEF f
  <2>8. \A p \in q..40 : f[p] = IF next(p) > p THEN f[next(p)] ELSE next(p)
    <3> TAKE p \in q..40
    <3>1. CASE p = q
      BY <2>7, <3>1
    <3>2. CASE p \in q + 1..40
      BY <2>1, <2>2, <2>6, <3>2
    <3> QED BY <3>1, <3>2
  <2> QED BY <2>2, <2>5, <2>8
<1> HIDE DEF T
<1>5. Nat \subseteq T
  BY <1>3, <1>4, Induction
<1>6. \E f \in [0..40 -> R] : \A p \in 0..40 : f[p] = IF next(p) > p THEN f[next(p)] ELSE next(p)
  <2>1. 40 \in T
    BY <1>5
  <2>2. 40 - 40 = 0
    OBVIOUS
  <2> QED BY <2>1, <2>2 DEF T
<1>7. PICK f \in [0..40 -> R] : \A p \in 0..40 : f[p] = IF next(p) > p THEN f[next(p)] ELSE next(p)
  BY <1>6
<1>9. VersionMax = 40
  BY DEF VersionMax
<1>8. f = [p \in 0..VersionMax |-> IF next(p) > p THEN f[next(p)] ELSE next(p)]
  BY <1>7, <1>9
<1>10. Rounds(f, entries, level, 0)
  BY <1>8, <1>9, Zenon DEF Rounds, next
<1> QED BY <1>7, <1>9, <1>10 DEF R

(* The loop of QRinput_estimateVersion (qrinput.c:979-995) ends with a version
   or -1, for every list of entries and level. *)
THEOREM EstimatingEnds ==
  ASSUME NEW entries, NEW level
  PROVE  EstimateVersion(entries, level) \in Versions \cup {-1}
<1> DEFINE R == Versions \cup {-1}
           next(p) == NextVersion(entries, level, p)
           from == CHOOSE f : Rounds(f, entries, level, 0)
<1>1. EstimateVersion(entries, level) = from[0]
  BY Zenon DEF EstimateVersion, Rounds, NextVersion
<1>2. Rounds(from, entries, level, 0)
  BY RoundsExist, Zenon
<1> HIDE DEF from
<1>3. \A p \in 0..40 : from[p] = IF next(p) > p THEN from[next(p)] ELSE next(p)
  BY <1>2 DEF Rounds, VersionMax
<1>4. \A p : next(p) \in R
  BY MinimumVersionType DEF NextVersion
<1>5. \A p : next(p) \in Int /\ next(p) <= 40 /\ (next(p) >= 1 \/ next(p) = -1)
  <2> TAKE p
  <2>1. next(p) \in R
    BY <1>4
  <2> HIDE DEF next
  <2>2. R = 1..40 \cup {-1}
    BY DEF Versions, VersionMax
  <2> QED BY <2>1, <2>2
<1> HIDE DEF next, R
<1> DEFINE T == {n \in Nat : n <= 40 => \A p \in 40 - n..40 : from[p] \in R}
<1>6. 0 \in T
  <2>1. \A p \in 40 - 0..40 : from[p] = next(p)
    BY <1>3, <1>4, <1>5
  <2> QED BY <1>4, <2>1
<1>7. ASSUME NEW n \in Nat, n \in T PROVE n + 1 \in T
  <2> SUFFICES ASSUME n + 1 <= 40, NEW p \in 40 - (n + 1)..40 PROVE from[p] \in R
    OBVIOUS
  <2>1. CASE next(p) > p
    <3>1. next(p) \in 40 - n..40
      BY <1>4, <1>5, <2>1
    <3>2. from[p] = from[next(p)]
      BY <1>3, <2>1
    <3>3. from[next(p)] \in R
      BY <1>7, <3>1
    <3> QED BY <3>2, <3>3
  <2>2. CASE ~(next(p) > p)
    BY <1>3, <1>4, <2>2
  <2> QED BY <2>1, <2>2
<1> HIDE DEF T
<1>8. Nat \subseteq T
  BY <1>6, <1>7, Induction
<1>9. 40 \in T
  BY <1>8
<1>10. from[0] \in R
  BY <1>9 DEF T
<1> QED BY <1>1, <1>10 DEF R

-----------------------------------------------------------------------------
(***************************************************************************)
(* A run of a program that writes pictures.  That every picture shows the  *)
(* symbol it was made from takes that the symbol is a square of at least   *)
(* one module, which its version decides: and so that the versions an      *)
(* input goes through are versions.  And it takes that createBarcode, which*)
(* writes one picture, has been given one symbol.                          *)
(***************************************************************************)
(* A call of a program that writes pictures; createBarcode asks for one symbol. *)
PlainCall(c, name) ==
  /\ c.op \in {"string", "data"} /\ c.version \in Nat
  /\ name = "createBarcode" => c.structured = FALSE

(* The library has been asked for nothing else than that. *)
CallPart ==
  /\ script = <<>> \/ \E c : script = <<c>> /\ PlainCall(c, program.name)
  /\ script # <<>> => stage = "idle"
  /\ stage # "idle" => PlainCall(call, program.name)
  /\ stage \notin {"parts", "inputs"}

(* An input, and every input of a set, has a version. *)
InputOK(i) == DOMAIN i = {"version", "level", "mqr", "fnc1", "appid", "entries"} /\ i.version \in Nat
InputPart ==
  /\ InputOK(input)
  /\ \E S : struct \in Seq(S) /\ \A i \in S : InputOK(i)

(* What is masked, and every symbol made, is a square. *)
SymbolPart ==
  /\ stage = "weigh" => Squared(masked)
  /\ symbol = NoFrame \/ Squared(symbol)
  /\ \E S : codes \in Seq(S) /\ \A s \in S : Squared(s)

(* createBarcode never gets a set of symbols. *)
OnePart ==
  program.name = "createBarcode" =>
    /\ stage # "cut" /\ struct = <<>>
    /\ stage = "done" => Len(codes) = 1
    /\ stage # "done" => codes = <<>>

WorkInv == CallPart /\ InputPart /\ SymbolPart /\ OnePart

(* QRinput_new2 makes one, and appending an entry or setting the version keeps it
   one (qrinput.c:116-140, 1155-1180). *)
LEMMA NewInputOK ==
  ASSUME NEW version \in Nat, NEW level, NEW mqr, NEW x
  PROVE  InputOK(NewInput(version, level, mqr)) /\ InputOK([NewInput(version, level, mqr) EXCEPT !.entries = x])
BY DEF InputOK, NewInput

LEMMA ChangedInputOK ==
  ASSUME NEW i, InputOK(i), NEW x, NEW v \in Nat
  PROVE  /\ InputOK([i EXCEPT !.entries = x])
         /\ InputOK([i EXCEPT !.entries = x, !.version = v])
         /\ InputOK([i EXCEPT !.version = v])
BY DEF InputOK

(* Mask_makeMask and MMask_makeMask fill a square (mask.c:165-181, mmask.c:109-127). *)
LEMMA MaskedSquared ==
  ASSUME NEW f, NEW w \in Nat \ {0}, NEW m, NEW level
  PROVE  Squared(MakeMask(f, w, m, level))
<1>1. DOMAIN MakeMask(f, w, m, level) = Places(w)
  BY DEF MakeMask
<1> QED BY <1>1 DEF Squared, Square

LEMMA MicroMaskedSquared ==
  ASSUME NEW f, NEW version \in Nat, NEW m, NEW level
  PROVE  Squared(MicroMakeMask(f, version, m, level))
<1>1. DOMAIN MicroMakeMask(f, version, m, level) = Places(MicroWidth(version))
  BY DEF MicroMakeMask
<1>2. MicroWidth(version) \in Nat \ {0}
  BY DEF MicroWidth
<1> QED BY <1>1, <1>2 DEF Squared, Square

(* The inputs of a set keep their versions when they get their headers
   (qrinput.c:1674-1698). *)
LEMMA HeadersOK ==
  ASSUME NEW S, NEW inputs \in Seq(S), inputs # <<>>, \A i \in S : InputOK(i), NEW parity
  PROVE  LET all == WithHeaders(inputs, parity)
         IN  /\ InputOK(Head(all))
             /\ \E T : Tail(all) \in Seq(T) /\ \A i \in T : InputOK(i)
<1> DEFINE all == WithHeaders(inputs, parity)
           new(i) == [inputs[i] EXCEPT !.entries = <<Entry("STRUCTURE", <<Len(inputs), i, parity>>)>> \o @]
           T == {new(i) : i \in DOMAIN inputs}
<1>1. \A i \in DOMAIN inputs : InputOK(new(i))
  <2> TAKE i \in DOMAIN inputs
  <2>1. InputOK(inputs[i])
    OBVIOUS
  <2> QED BY <2>1 DEF InputOK
<1>2. all = [i \in DOMAIN inputs |-> new(i)]
  BY DEF WithHeaders
<1> HIDE DEF all, new
<1>3. all \in Seq(T) /\ all # <<>>
  <2>1. DOMAIN inputs = 1..Len(inputs) /\ Len(inputs) \in Nat /\ Len(inputs) # 0
    OBVIOUS
  <2> HIDE DEF T
  <2>2. \A i \in 1..Len(inputs) : new(i) \in T
    BY <2>1 DEF T
  <2> QED BY <1>2, <2>1, <2>2
<1>4. \A i \in T : InputOK(i)
  BY <1>1
<1> HIDE DEF T
<1>5. Head(all) \in T /\ Tail(all) \in Seq(T)
  BY <1>3
<1> QED BY <1>4, <1>5 DEF all

LEMMA Appended ==
  ASSUME NEW S, NEW s \in Seq(S), NEW x
  PROVE  Append(s, x) \in Seq(S \cup {x}) /\ Append(s, x) # <<>> /\ Len(Append(s, x)) = Len(s) + 1
<1> DEFINE T == S \cup {x}
<1>1. s \in Seq(T) /\ x \in T
  OBVIOUS
<1> HIDE DEF T
<1> QED BY <1>1 DEF T

(* A call that begins: what it leaves of the script, and where it goes on. *)
LEMMA Beginning ==
  ASSUME WorkInv, NEW op, NEW valid \in BOOLEAN, NEW next, NEW left, NEW new,
         Begin(op, valid, next, left, new), InputOK(new),
         next \in {"split", "merge", "cut"}, next = "cut" => Head(script).structured # FALSE,
         program' = program
  PROVE  WorkInv'
<1>1. PICK c : script = <<c>> /\ PlainCall(c, program.name)
  BY DEF WorkInv, CallPart, Begin
<1>2. Head(script) = c /\ Tail(script) = <<>>
  BY <1>1
<1>3. /\ script' = <<>> /\ call' = c /\ codes' = <<>> /\ struct' = <<>> /\ input' = new
      /\ stage' \in {next, "failed"} /\ symbol' = NoFrame
  BY <1>2 DEF Begin, Fresh
<1>4. CallPart'
  BY <1>1, <1>3 DEF CallPart
<1>5. InputPart'
  <2>1. InputOK(input') /\ struct' \in Seq({})
    BY <1>3
  <2>2. \E S : struct' \in Seq(S) /\ \A i \in S : InputOK(i)
    <3> WITNESS {}
    <3> QED BY <2>1
  <2> QED BY <2>1, <2>2 DEF InputPart
<1>6. SymbolPart'
  BY <1>3 DEF SymbolPart
<1>7. OnePart'
  BY <1>1, <1>2, <1>3 DEF OnePart, PlainCall
<1> QED BY <1>4, <1>5, <1>6, <1>7 DEF WorkInv

(* What a call asks for: its op is one of the two that a program asks for. *)
LEMMA PlainAsked ==
  ASSUME WorkInv, script # <<>>
  PROVE  PlainCall(Head(script), program.name)
<1>1. PICK c : script = <<c>> /\ PlainCall(c, program.name)
  BY DEF WorkInv, CallPart
<1> QED BY <1>1

(* A step of the library. *)
LEMMA LibraryStep ==
  ASSUME WorkInv, Next, program' = program
  PROVE  WorkInv'
<1> USE DEF callVars, inputVars, codeVars, fillVars, maskVars, cacheVars
<1>0. CallPart /\ InputPart /\ SymbolPart /\ OnePart
  BY DEF WorkInv
<1>1. CASE QRcode_encodeString
  <2> DEFINE c == Head(script)
             valid == /\ c.text # <<>> /\ ValidInput(c.version, c.level, c.mqr)
                      /\ c.structured => c.version > 0
             left == IF c.casesensitive THEN c.text ELSE DupAndToUpper(c.text, c.kanji)
             new == NewInput(c.version, c.level, c.mqr)
  <2>1. Begin("string", valid, "split", left, new)
    BY <1>1, Zenon DEF QRcode_encodeString
  <2>2. script # <<>>
    BY <2>1 DEF Begin
  <2>3. InputOK(new)
    BY <2>2, PlainAsked, NewInputOK DEF PlainCall
  <2> HIDE DEF left, new
  <2> QED BY <2>1, <2>3, Beginning
<1>2. CASE QRcode_encodeData
  <2> DEFINE c == Head(script)
             valid == /\ c.text # <<>> /\ ValidInput(c.version, c.level, c.mqr)
                      /\ c.structured => c.version > 0
             next == IF c.structured THEN "cut" ELSE "merge"
             new == [NewInput(c.version, c.level, c.mqr) EXCEPT !.entries = <<Entry("8", c.text)>>]
  <2>1. Begin("data", valid, next, <<>>, new)
    BY <1>2, Zenon DEF QRcode_encodeData
  <2>2. script # <<>>
    BY <2>1 DEF Begin
  <2>3. InputOK(new)
    BY <2>2, PlainAsked, NewInputOK DEF PlainCall
  <2>4. next \in {"split", "merge", "cut"} /\ (next = "cut" => Head(script).structured # FALSE)
    OBVIOUS
  <2> HIDE DEF next, new
  <2> QED BY <2>1, <2>3, <2>4, Beginning
<1>3. CASE MakeInput \/ MakeStruct \/ ClearCache \/ AskFrame
  <2>1. script # <<>> /\ Head(script).op \notin {"string", "data"}
    BY <1>3 DEF MakeInput, MakeStruct, ClearCache, AskFrame, Begin
  <2> QED BY <2>1, PlainAsked DEF PlainCall
<1>4. CASE SplitString
  <2>1. /\ stage = "split" /\ UNCHANGED <<script, call, codes, struct, masked, symbol>>
        /\ stage' \in {"split", "merge", "failed"} \/ (stage' = "cut" /\ call.structured # FALSE)
    BY <1>4 DEF SplitString, Fail
  <2>2. InputOK(input')
    <3>1. input' = input \/ \E x : input' = [input EXCEPT !.entries = x]
      BY <1>4 DEF SplitString
    <3> QED BY <1>0, <3>1, ChangedInputOK DEF InputPart
  <2> QED BY <1>0, <2>1, <2>2 DEF WorkInv, CallPart, InputPart, SymbolPart, OnePart, PlainCall
<1>5. CASE AppendPart \/ AppendInput
  BY <1>0, <1>5 DEF AppendPart, AppendInput, CallPart
<1>6. CASE CutEntry
  <2>1. stage = "cut" /\ UNCHANGED <<script, call, codes, masked, symbol>>
    BY <1>6 DEF CutEntry
  <2>2. CASE stage' = "failed" /\ UNCHANGED <<struct, input>>
    BY <1>0, <2>1, <2>2 DEF WorkInv, CallPart, InputPart, SymbolPart, OnePart
  <2>3. CASE /\ stage' = stage
             /\ \E x : struct' = Append(struct, [input EXCEPT !.entries = x])
             /\ \E x : input' = [NewInput(input.version, input.level, FALSE) EXCEPT !.entries = x]
    <3>1. InputOK(input')
      BY <1>0, <2>3, NewInputOK DEF InputPart, InputOK
    <3>2. \E S : struct' \in Seq(S) /\ \A i \in S : InputOK(i)
      <4>1. PICK x : struct' = Append(struct, [input EXCEPT !.entries = x])
        BY <2>3
      <4>2. PICK S : struct \in Seq(S) /\ \A i \in S : InputOK(i)
        BY <1>0 DEF InputPart
      <4> DEFINE y == [input EXCEPT !.entries = x]
      <4>3. InputOK(y)
        BY <1>0, ChangedInputOK DEF InputPart
      <4> HIDE DEF y
      <4>4. struct' \in Seq(S \cup {y})
        BY <4>1, <4>2, Appended DEF y
      <4> QED BY <4>2, <4>3, <4>4
    <3> QED BY <1>0, <2>1, <2>3, <3>1, <3>2 DEF WorkInv, CallPart, InputPart, SymbolPart, OnePart
  <2> QED BY <1>6, <2>2, <2>3 DEF CutEntry, Fail
<1>7. CASE KeepEntry
  <2>1. UNCHANGED <<stage, script, call, codes, input, struct, masked, symbol>>
    BY <1>7 DEF KeepEntry
  <2> QED BY <1>0, <2>1 DEF WorkInv, CallPart, InputPart, SymbolPart, OnePart
<1>8. CASE EndCut
  <2> DEFINE inputs == Append(struct, input)
             all == WithHeaders(inputs, Parity(inputs))
  <2>1. /\ stage = "cut" /\ UNCHANGED <<script, call, codes, masked, symbol>>
        /\ \/ stage' = "failed" /\ UNCHANGED <<input, struct>>
           \/ stage' = "merge" /\ input' = Head(all) /\ struct' = Tail(all)
    BY <1>8 DEF EndCut, BeginSet, Fail
  <2>2. InputPart'
    <3>1. PICK S : struct \in Seq(S) /\ \A i \in S : InputOK(i)
      BY <1>0 DEF InputPart
    <3>2. inputs \in Seq(S \cup {input}) /\ inputs # <<>> /\ \A i \in S \cup {input} : InputOK(i)
      BY <1>0, <3>1, Appended DEF InputPart
    <3> HIDE DEF inputs
    <3>3. InputOK(Head(all)) /\ \E T : Tail(all) \in Seq(T) /\ \A i \in T : InputOK(i)
      BY <3>2, HeadersOK
    <3> HIDE DEF all
    <3> QED BY <1>0, <2>1, <3>3 DEF InputPart
  <2> HIDE DEF inputs, all
  <2> QED BY <1>0, <2>1, <2>2 DEF WorkInv, CallPart, SymbolPart, OnePart
<1>9. CASE MergeBitStream
  <2>1. /\ stage = "merge" /\ UNCHANGED <<script, call, codes, struct, masked, symbol>>
        /\ stage' \in {"pad", "write", "failed"}
    BY <1>9 DEF MergeBitStream, Fail
  <2>2. InputOK(input')
    <3>1. \/ input' = input
          \/ \E x, entries : LET v == EstimateVersion(entries, input.level)
                             IN  input' = [input EXCEPT !.entries = x, !.version = IF v > @ THEN v ELSE @]
      BY <1>9 DEF MergeBitStream
    <3>2. ASSUME NEW entries
          PROVE  LET v == EstimateVersion(entries, input.level) IN (IF v > input.version THEN v ELSE input.version) \in Nat
      <4>1. EstimateVersion(entries, input.level) \in Versions \cup {-1}
        BY EstimatingEnds
      <4>2. input.version \in Nat
        BY <1>0 DEF InputPart, InputOK
      <4>3. EstimateVersion(entries, input.level) > input.version => EstimateVersion(entries, input.level) \in Nat
        BY <4>1, <4>2 DEF Versions, VersionMax
      <4> QED BY <4>2, <4>3
    <3> QED BY <1>0, <3>1, <3>2, ChangedInputOK DEF InputPart
  <2> QED BY <1>0, <2>1, <2>2 DEF WorkInv, CallPart, InputPart, SymbolPart, OnePart
<1>10. CASE ConvertData
  <2>1. /\ stage = "write" /\ UNCHANGED <<script, call, codes, struct, masked, symbol>>
        /\ stage' \in {"pad", "write", "failed"}
    BY <1>10 DEF ConvertData, Fail
  <2>2. InputOK(input')
    <3> DEFINE v == MinimumVersion((Len(CreateBitStream(input)) + 7) \div 8, input.level)
    <3>1. input' = input \/ input' = [input EXCEPT !.version = IF v > @ THEN v ELSE @]
      BY <1>10 DEF ConvertData
    <3>2. v \in Versions \cup {-1}
      BY MinimumVersionType
    <3>3. input.version \in Nat
      BY <1>0 DEF InputPart, InputOK
    <3> HIDE DEF v
    <3>4. v > input.version => v \in Nat
      BY <3>2, <3>3 DEF Versions, VersionMax
    <3> QED BY <1>0, <3>1, <3>3, <3>4, ChangedInputOK DEF InputPart
  <2> QED BY <1>0, <2>1, <2>2 DEF WorkInv, CallPart, InputPart, SymbolPart, OnePart
<1>11. CASE InitBlocks \/ InitRS \/ EncodeRS
  <2>1. /\ stage \in {"pad", "check"} /\ UNCHANGED <<script, call, codes, input, struct, masked, symbol>>
        /\ stage' \in {"check", "frame", "failed"}
    BY <1>11 DEF InitBlocks, InitRS, EncodeRS, Fail
  <2> QED BY <1>0, <2>1 DEF WorkInv, CallPart, InputPart, SymbolPart, OnePart
<1>12. CASE StartFilling
  <2>1. stage = "frame" /\ UNCHANGED <<script, call, codes, input, struct, masked, symbol>> /\ stage' = "fill"
    BY <1>12 DEF StartFilling
  <2> QED BY <1>0, <2>1 DEF WorkInv, CallPart, InputPart, SymbolPart, OnePart
<1>13. CASE PlaceCode
  <2>1. /\ stage = "fill" /\ UNCHANGED <<script, call, codes, input, struct, masked, symbol>>
        /\ stage' \in {"fill", "mask", "failed"}
    BY <1>13 DEF PlaceCode, Fail
  <2> QED BY <1>0, <2>1 DEF WorkInv, CallPart, InputPart, SymbolPart, OnePart
<1>14. CASE ApplyMask
  <2>1. /\ stage = "mask" /\ UNCHANGED <<script, call, codes, input, struct, symbol>> /\ stage' = "weigh"
        /\ masked' = IF input.mqr THEN MicroMakeMask(frame, input.version, mask, input.level)
                     ELSE MakeMask(frame, Width(input.version), mask, input.level)
    BY <1>14 DEF ApplyMask
  <2>2. input.version \in Nat /\ Width(input.version) \in Nat \ {0}
    BY <1>0 DEF InputPart, InputOK, Width
  <2>3. Squared(masked')
    BY <2>1, <2>2, MaskedSquared, MicroMaskedSquared
  <2> QED BY <1>0, <2>1, <2>3 DEF WorkInv, CallPart, InputPart, SymbolPart, OnePart
<1>15. CASE KeepBest
  <2>1. /\ stage = "weigh" /\ UNCHANGED <<script, call, codes, input, struct, masked>>
        /\ stage' \in {"made", "mask"} /\ symbol' \in {symbol, masked}
    BY <1>15 DEF KeepBest
  <2> QED BY <1>0, <2>1 DEF WorkInv, CallPart, InputPart, SymbolPart, OnePart
<1>16. CASE Deliver
  <2>1. stage = "made" /\ UNCHANGED <<script, call>> /\ symbol' = NoFrame
    BY <1>16 DEF Deliver, Fresh
  <2>2. CASE symbol = NoFrame
    <3>1. stage' = "failed" /\ codes' = <<>> /\ UNCHANGED <<input, struct>>
      BY <1>16, <2>2 DEF Deliver, Fail
    <3> QED BY <1>0, <2>1, <3>1 DEF WorkInv, CallPart, InputPart, SymbolPart, OnePart
  <2>3. CASE symbol # NoFrame
    <3>1. /\ codes' = Append(codes, symbol)
          /\ \/ struct = <<>> /\ stage' = "done" /\ UNCHANGED <<input, struct>>
             \/ struct # <<>> /\ stage' = "merge" /\ input' = Head(struct) /\ struct' = Tail(struct)
      BY <1>16, <2>3 DEF Deliver
    <3>2. InputPart'
      <4>1. PICK S : struct \in Seq(S) /\ \A i \in S : InputOK(i)
        BY <1>0 DEF InputPart
      <4>2. struct # <<>> => Head(struct) \in S /\ Tail(struct) \in Seq(S)
        BY <4>1
      <4> QED BY <1>0, <3>1, <4>1, <4>2 DEF InputPart
    <3>3. SymbolPart'
      <4>1. PICK S : codes \in Seq(S) /\ \A s \in S : Squared(s)
        BY <1>0 DEF SymbolPart
      <4>2. codes' \in Seq(S \cup {symbol}) /\ \A s \in S \cup {symbol} : Squared(s)
        BY <1>0, <2>3, <3>1, <4>1, Appended DEF SymbolPart
      <4>3. stage' # "weigh"
        BY <3>1
      <4> QED BY <2>1, <4>2, <4>3 DEF SymbolPart
    <3>4. CallPart'
      BY <1>0, <2>1, <3>1 DEF CallPart
    <3>5. OnePart'
      <4> SUFFICES ASSUME program.name = "createBarcode" PROVE stage' = "done" /\ struct' = <<>> /\ Len(codes') = 1
        BY DEF OnePart
      <4>1. struct = <<>> /\ codes = <<>>
        BY <1>0, <2>1 DEF OnePart
      <4>2. Len(Append(codes, symbol)) = 1
        BY <4>1
      <4> QED BY <3>1, <4>1, <4>2
    <3> QED BY <3>2, <3>3, <3>4, <3>5 DEF WorkInv
  <2> QED BY <2>2, <2>3
<1> QED BY <1>1, <1>2, <1>3, <1>4, <1>5, <1>6, <1>7, <1>8, <1>9, <1>10, <1>11, <1>12, <1>13, <1>14, <1>15, <1>16 DEF Next

-----------------------------------------------------------------------------
(* The options of qrencode: -s, -v, -m and -d refuse what is below their least
   value, the others what they do not know (qrenc.c:733-843). *)
OptionsType ==
  [casesensitive : BOOLEAN, eightbit : BOOLEAN, version : Nat, size : Nat \ {0}, margin : Int, dpi : Int,
   structured : BOOLEAN, micro : BOOLEAN, level : Level, kanji : BOOLEAN, type : Types, outfile : BOOLEAN]

Arguments(p) == {p.argv[i] : i \in DOMAIN p.argv}

(* Every picture shows the symbol of its number. *)
ShownPart ==
  \A i \in DOMAIN pictures :
    IF program.name = "createBarcode"
    THEN Seen(pictures[i]) = Magnified(codes[i], 0, OUT_FILE_PIXEL_PRESCALER, OUT_FILE_PIXEL_PRESCALER)
    ELSE Shown(pictures[i], codes[i], options.type, options.margin, options.size)

(* Pictures are only written once the library is done, one for each symbol. *)
PhasePart ==
  /\ phase \in {"options", "encode", "write", "exit"}
  /\ phase = "options" => script = <<>> /\ stage = "idle" /\ codes = <<>>
  /\ phase \in {"options", "encode"} => pictures = <<>>
  /\ phase = "write" => stage = "done"
  /\ phase = "exit" /\ stage = "done" => Len(pictures) = Len(codes)
  /\ \E T : pictures \in Seq(T)
  /\ Len(pictures) <= Len(codes)

(* When a picture is written the margin is not negative: Encode has replaced -1. *)
ProgramPart ==
  /\ program.name = "createBarcode" => argv = <<>> /\ (phase = "write" => pictures = <<>>)
  /\ program.name = "qrencode" =>
       /\ options \in OptionsType
       /\ argv \in Seq(Arguments(program))
       /\ phase \in {"encode", "write"} => options.margin \in Nat

ToolInv ==
  /\ program \in Programs
  /\ program.name = "library" => phase = "encode" /\ pictures = <<>>
  /\ program.name # "library" => WorkInv /\ PhasePart /\ ProgramPart /\ ShownPart

LEMMA WorkStays ==
  ASSUME WorkInv, UNCHANGED vars, program' = program
  PROVE  WorkInv'
BY DEF WorkInv, CallPart, InputPart, SymbolPart, OnePart, vars, callVars, inputVars, codeVars, fillVars, maskVars, cacheVars

(* What ProgramsAssumption says of the arguments of -s, -v, -m and -d. *)
LEMMA ArgumentsOf ==
  ASSUME NEW p \in Programs, p.name = "qrencode"
  PROVE  /\ p.argv \in Seq(Arguments(p))
         /\ \A a \in Arguments(p) : a.opt \in {"s", "v", "m", "d"} => a.arg \in Int
BY ProgramsAssumption DEF Arguments

(* An option leaves the options what they are. *)
LEMMA OptionSetType ==
  ASSUME options \in OptionsType, NEW o, o.opt \in {"s", "v", "m", "d"} => o.arg \in Int
  PROVE  OptionSet(o) \subseteq OptionsType
<1>1. CASE o.opt = "o"
  BY <1>1, ZenonT(60) DEF OptionSet, OptionsType
<1>2. CASE o.opt = "s"
  BY <1>2 DEF OptionSet, OptionsType
<1>3. CASE o.opt = "v"
  BY <1>3 DEF OptionSet, OptionsType
<1>4. CASE o.opt = "l"
  BY <1>4 DEF OptionSet, OptionsType
<1>5. CASE o.opt = "m"
  BY <1>5 DEF OptionSet, OptionsType
<1>6. CASE o.opt = "d"
  BY <1>6 DEF OptionSet, OptionsType
<1>7. CASE o.opt = "t"
  BY <1>7 DEF OptionSet, OptionsType, Types
<1>8. CASE o.opt \in {"S", "k", "c", "i", "8", "M"}
  <2>1. CASE o.opt = "S"
    BY <2>1, ZenonT(60) DEF OptionSet, OptionsType
  <2>2. CASE o.opt = "k"
    BY <2>2, ZenonT(60) DEF OptionSet, OptionsType
  <2>3. CASE o.opt = "c"
    BY <2>3 DEF OptionSet, OptionsType
  <2>4. CASE o.opt = "i"
    BY <2>4, ZenonT(60) DEF OptionSet, OptionsType
  <2>5. CASE o.opt = "M"
    BY <2>5, ZenonT(60) DEF OptionSet, OptionsType
  <2>6. CASE o.opt = "8"
    BY <2>6 DEF OptionSet, OptionsType
  <2> QED BY <1>8, <2>1, <2>2, <2>3, <2>4, <2>5, <2>6
<1>9. CASE o.opt \notin {"o", "s", "v", "l", "m", "d", "t", "S", "k", "c", "i", "8", "M"}
  <2>1. /\ o.opt # "o" /\ o.opt # "s" /\ o.opt # "v" /\ o.opt # "l" /\ o.opt # "m" /\ o.opt # "d" /\ o.opt # "t"
        /\ o.opt # "S" /\ o.opt # "k" /\ o.opt # "c" /\ o.opt # "i" /\ o.opt # "8" /\ o.opt # "M"
    BY <1>9
  <2>2. OptionSet(o) = {}
    BY <2>1, Zenon DEF OptionSet
  <2> QED BY <2>2
<1> QED BY <1>1, <1>2, <1>3, <1>4, <1>5, <1>6, <1>7, <1>8, <1>9

LEMMA ToolBegins == ToolInit => ToolInv
<1> SUFFICES ASSUME ToolInit PROVE ToolInv
  OBVIOUS
<1>1. /\ Init /\ program \in Programs /\ options = Defaults
      /\ argv = IF program.name = "qrencode" THEN program.argv ELSE <<>>
      /\ script # <<>> <=> program.name = "library"
      /\ phase = (IF program.name = "library" THEN "encode" ELSE "options")
      /\ pictures = <<>>
  BY DEF ToolInit
<1>2. SUFFICES ASSUME program.name # "library" PROVE WorkInv /\ PhasePart /\ ProgramPart /\ ShownPart
  BY <1>1 DEF ToolInv
<1>3. /\ script = <<>> /\ stage = "idle" /\ codes = <<>> /\ input = NewInput(0, 0, FALSE) /\ struct = <<>>
      /\ symbol = NoFrame
  BY <1>1, <1>2 DEF Init
<1>4. WorkInv
  <2>1. InputOK(input)
    BY <1>3, NewInputOK
  <2>2. \E S : <<>> \in Seq(S) /\ \A i \in S : InputOK(i)
    <3>1. PICK S : S = {}
      OBVIOUS
    <3>2. <<>> \in Seq(S) /\ \A i \in S : InputOK(i)
      BY <3>1
    <3> QED BY <3>2, Zenon
  <2>3. InputPart
    BY <1>3, <2>1, <2>2 DEF InputPart
  <2>4. SymbolPart
    BY <1>3, <2>2 DEF SymbolPart
  <2> QED BY <1>3, <2>3, <2>4 DEF WorkInv, CallPart, OnePart
<1>5. PhasePart
  BY <1>1, <1>2, <1>3 DEF PhasePart
<1>6. ProgramPart
  <2>1. Defaults \in OptionsType
    BY DEF Defaults, OptionsType, Types, Level
  <2> QED BY <1>1, <1>2, <2>1, ArgumentsOf DEF ProgramPart
<1>7. ShownPart
  BY <1>1 DEF ShownPart
<1> QED BY <1>4, <1>5, <1>6, <1>7

LEMMA ToolStep == ToolInv /\ [ToolNext]_<<toolVars, vars>> => ToolInv'
<1> SUFFICES ASSUME ToolInv, [ToolNext]_<<toolVars, vars>> PROVE ToolInv'
  OBVIOUS
<1>0. program' = program
  BY DEF ToolNext, toolVars, ParseOption, Encode, createBarcode, Library, Return, WriteBitmap, WriteImage, EndOfMain
<1>1. CASE program.name = "library"
  <2>1. phase = "encode" /\ pictures = <<>>
    BY <1>1 DEF ToolInv
  <2>2. phase' = phase /\ pictures' = pictures
    BY <1>1, <2>1 DEF ToolNext, toolVars, ParseOption, Encode, createBarcode, Library, Return, WriteBitmap, WriteImage, EndOfMain
  <2> QED BY <1>0, <1>1, <2>1, <2>2 DEF ToolInv
<1>2. SUFFICES ASSUME program.name # "library"
               PROVE  WorkInv' /\ PhasePart' /\ ProgramPart' /\ ShownPart'
  BY <1>0, <1>1 DEF ToolInv
<1>3. WorkInv /\ PhasePart /\ ProgramPart /\ ShownPart /\ program \in Programs
  BY <1>2 DEF ToolInv
<1> USE DEF vars, callVars, inputVars, codeVars, fillVars, maskVars, cacheVars
<1>4. CASE UNCHANGED <<toolVars, vars>>
  <2>1. UNCHANGED <<argv, options, phase, pictures, script, stage, codes, vars>>
    BY <1>4 DEF toolVars
  <2> QED BY <1>0, <1>3, <2>1, WorkStays DEF PhasePart, ProgramPart, ShownPart
<1>5. CASE ParseOption
  <2>1. /\ UNCHANGED <<pictures, script, stage, codes, vars>> /\ phase = "options" /\ argv # <<>> /\ argv' = Tail(argv)
        /\ phase' \in {"options", "exit"}
        /\ options' = options \/ options' \in OptionSet(Head(argv))
    BY <1>5 DEF ParseOption, Exit
  <2>2. WorkInv'
    BY <1>0, <1>3, <2>1, WorkStays
  <2>3. PhasePart'
    BY <1>3, <2>1 DEF PhasePart
  <2>4. pictures' = <<>>
    BY <1>3, <2>1 DEF PhasePart
  <2>5. ProgramPart'
    <3>1. program.name # "createBarcode"
      BY <1>3, <2>1 DEF ProgramPart
    <3>2. program.name = "qrencode"
      BY <1>2, <1>3, <3>1, ProgramsAssumption
    <3>3. Tail(argv) \in Seq(Arguments(program)) /\ Head(argv) \in Arguments(program)
      <4>1. argv \in Seq(Arguments(program))
        BY <1>3, <3>2 DEF ProgramPart
      <4> QED BY <2>1, <4>1
    <3>4. options' \in OptionsType
      <4>1. OptionSet(Head(argv)) \subseteq OptionsType
        BY <1>3, <3>2, <3>3, ArgumentsOf, OptionSetType DEF ProgramPart
      <4> QED BY <1>3, <2>1, <3>2, <4>1 DEF ProgramPart
    <3> QED BY <1>0, <2>1, <3>1, <3>3, <3>4 DEF ProgramPart
  <2>6. ShownPart'
    BY <2>4 DEF ShownPart
  <2> QED BY <2>2, <2>3, <2>5, <2>6
<1>6. CASE Encode
  <2>1. /\ UNCHANGED <<argv, pictures, stage, codes, call, input, struct, masked, symbol>> /\ phase = "options"
        /\ program.name = "qrencode"
    BY <1>6 DEF Encode
  <2>2. pictures' = <<>> /\ pictures = <<>> /\ script = <<>> /\ stage = "idle" /\ codes = <<>>
        /\ options \in OptionsType
    BY <1>3, <2>1 DEF PhasePart, ProgramPart
  <2>3. ShownPart'
    BY <2>2 DEF ShownPart
  <2>4. CASE phase' = "exit" /\ UNCHANGED <<options, script>>
    <3>1. WorkInv'
      BY <1>0, <1>3, <2>1, <2>4 DEF WorkInv, CallPart, InputPart, SymbolPart, OnePart
    <3>2. PhasePart' /\ ProgramPart'
      BY <1>0, <1>3, <2>1, <2>2, <2>4 DEF PhasePart, ProgramPart
    <3> QED BY <2>3, <3>1, <3>2
  <2>5. CASE phase' # "exit"
    <3>1. /\ options' = [options EXCEPT !.margin = IF @ >= 0 THEN @ ELSE IF options.micro THEN 2 ELSE 4]
          /\ script' = <<[op |-> IF options.eightbit THEN "data" ELSE "string",
                          text |-> program.text, kanji |-> options.kanji, casesensitive |-> options.casesensitive,
                          version |-> options.version, level |-> options.level,
                          mqr |-> options.micro, structured |-> options.structured]>>
          /\ phase' = "encode"
      BY <1>6, <2>5 DEF Encode, Exit
    <3>2. options' \in OptionsType /\ options'.margin \in Nat
      BY <2>2, <3>1 DEF OptionsType
    <3>3. CallPart'
      <4> DEFINE c == [op |-> IF options.eightbit THEN "data" ELSE "string",
                       text |-> program.text, kanji |-> options.kanji, casesensitive |-> options.casesensitive,
                       version |-> options.version, level |-> options.level,
                       mqr |-> options.micro, structured |-> options.structured]
      <4>1. PlainCall(c, program.name)
        <5>1. options.version \in Nat
          BY <2>2 DEF OptionsType
        <5> QED BY <2>1, <5>1 DEF PlainCall
      <4>2. script' = <<c>>
        BY <3>1
      <4> HIDE DEF c
      <4> QED BY <1>0, <2>1, <2>2, <4>1, <4>2 DEF CallPart
    <3>4. WorkInv'
      BY <1>0, <1>3, <2>1, <3>3 DEF WorkInv, InputPart, SymbolPart, OnePart
    <3>5. PhasePart' /\ ProgramPart'
      BY <1>0, <1>3, <2>1, <2>2, <3>1, <3>2 DEF PhasePart, ProgramPart
    <3> QED BY <2>3, <3>4, <3>5
  <2> QED BY <1>6, <2>4, <2>5 DEF Encode, Exit
<1>7. CASE createBarcode
  <2>1. /\ UNCHANGED <<argv, options, pictures, stage, codes, call, input, struct, masked, symbol>> /\ phase = "options"
        /\ program.name = "createBarcode" /\ phase' = "encode"
    BY <1>7 DEF createBarcode
  <2>2. pictures' = <<>> /\ pictures = <<>> /\ script = <<>> /\ stage = "idle" /\ codes = <<>>
    BY <1>3, <2>1 DEF PhasePart
  <2>3. \E c : script' = <<c>> /\ PlainCall(c, program.name)
    <3> DEFINE c == [op |-> "string", text |-> BarcodeText(program.ip, program.pass), kanji |-> FALSE,
                     casesensitive |-> TRUE, version |-> 0, level |-> LevelH, mqr |-> FALSE, structured |-> FALSE]
    <3>1. script' = <<c>>
      BY <1>7 DEF createBarcode
    <3>2. PlainCall(c, program.name)
      BY DEF PlainCall
    <3> HIDE DEF c
    <3> QED BY <3>1, <3>2
  <2>4. WorkInv'
    BY <1>0, <1>3, <2>1, <2>2, <2>3 DEF WorkInv, CallPart, InputPart, SymbolPart, OnePart
  <2>5. PhasePart' /\ ProgramPart' /\ ShownPart'
    BY <1>0, <1>3, <2>1, <2>2 DEF PhasePart, ProgramPart, ShownPart
  <2> QED BY <2>4, <2>5
<1>8. CASE Library
  <2>1. Next /\ phase = "encode" /\ UNCHANGED <<argv, options, phase, pictures>>
    BY <1>8 DEF Library, toolVars
  <2>2. WorkInv'
    BY <1>0, <1>3, <2>1, LibraryStep
  <2>3. pictures = <<>>
    BY <1>3, <2>1 DEF PhasePart
  <2>4. Len(codes') \in Nat
    <3>1. PICK S : codes' \in Seq(S)
      BY <2>2 DEF WorkInv, SymbolPart
    <3> QED BY <3>1
  <2>5. PhasePart'
    BY <1>3, <2>1, <2>3, <2>4 DEF PhasePart
  <2> QED BY <1>0, <1>3, <2>1, <2>2, <2>3, <2>5 DEF ProgramPart, ShownPart
<1>9. CASE Return
  <2>1. /\ UNCHANGED <<argv, options, pictures, script, stage, codes, vars>> /\ phase = "encode"
        /\ \/ stage = "failed" /\ phase' = "exit"
           \/ stage = "done" /\ phase' = "write"
    BY <1>9 DEF Return, Exit
  <2> QED BY <1>0, <1>3, <2>1, WorkStays DEF PhasePart, ProgramPart, ShownPart
<1>10. CASE WriteBitmap
  <2>1. /\ UNCHANGED <<argv, options, script, stage, codes, vars>> /\ phase = "write" /\ program.name = "createBarcode"
        /\ pictures' = <<Bitmap(codes[1])>> /\ phase' = "exit"
    BY <1>10 DEF WriteBitmap, Exit
  <2>2. WorkInv'
    BY <1>0, <1>3, <2>1, WorkStays
  <2>3. stage = "done" /\ Len(codes) = 1
    BY <1>3, <2>1 DEF PhasePart, WorkInv, OnePart
  <2>4. Squared(codes[1])
    <3>1. PICK S : codes \in Seq(S) /\ \A s \in S : Squared(s)
      BY <1>3 DEF WorkInv, SymbolPart
    <3> QED BY <2>3, <3>1
  <2>5. Seen(Bitmap(codes[1])) = Magnified(codes[1], 0, OUT_FILE_PIXEL_PRESCALER, OUT_FILE_PIXEL_PRESCALER)
    BY <2>4, BitmapShowsTheSymbol
  <2>6. \E T : pictures' \in Seq(T)
    <3> DEFINE p == Bitmap(codes[1])
    <3> HIDE DEF p
    <3>1. pictures' = <<p>>
      BY <2>1 DEF p
    <3> WITNESS {p}
    <3> QED BY <3>1
  <2>7. PhasePart'
    BY <1>3, <2>1, <2>3, <2>6 DEF PhasePart
  <2>8. ShownPart'
    BY <1>0, <2>1, <2>5 DEF ShownPart
  <2> QED BY <1>0, <1>3, <2>1, <2>2, <2>7, <2>8 DEF ProgramPart
<1>11. CASE WriteImage
  <2> DEFINE n == Len(pictures)
             p == Write(options.type, codes[n + 1], options.margin, options.size)
  <2>1. /\ UNCHANGED <<argv, options, phase, script, stage, codes, vars>> /\ phase = "write" /\ program.name = "qrencode"
        /\ n < Len(codes) /\ pictures' = Append(pictures, p)
    BY <1>11 DEF WriteImage
  <2>2. WorkInv'
    BY <1>0, <1>3, <2>1, WorkStays
  <2>3. PICK T : pictures \in Seq(T)
    BY <1>3 DEF PhasePart
  <2>4. PICK S : codes \in Seq(S) /\ \A s \in S : Squared(s)
    BY <1>3 DEF WorkInv, SymbolPart
  <2>5. Squared(codes[n + 1])
    BY <2>1, <2>3, <2>4
  <2>6. options.type \in Types /\ options.margin \in Nat /\ options.size \in Nat \ {0}
    BY <1>3, <2>1 DEF ProgramPart, OptionsType
  <2>7. Shown(p, codes[n + 1], options.type, options.margin, options.size)
    BY <2>5, <2>6, EveryTypeShowsTheSymbol
  <2> HIDE DEF p
  <2>8. /\ pictures' \in Seq(T \cup {p}) /\ Len(pictures') = n + 1
        /\ pictures'[n + 1] = p /\ \A i \in 1..n : pictures'[i] = pictures[i]
    <3>1. pictures \in Seq(T \cup {p}) /\ p \in T \cup {p}
      BY <2>3
    <3> QED BY <2>1, <3>1
  <2>9. Len(codes) \in Nat /\ n \in Nat
    BY <2>3, <2>4
  <2>10. PhasePart'
    BY <1>3, <2>1, <2>8, <2>9 DEF PhasePart
  <2>11. ShownPart'
    <3>1. \A i \in 1..n : Shown(pictures[i], codes[i], options.type, options.margin, options.size)
      BY <1>3, <2>1, <2>3 DEF ShownPart
    <3>2. DOMAIN pictures' = 1..n + 1
      BY <2>8
    <3>3. \A i \in 1..n + 1 : Shown(pictures'[i], codes[i], options.type, options.margin, options.size)
      BY <2>7, <2>8, <2>9, <3>1
    <3> QED BY <1>0, <2>1, <3>2, <3>3 DEF ShownPart
  <2> QED BY <1>0, <1>3, <2>1, <2>2, <2>10, <2>11 DEF ProgramPart
<1>12. CASE EndOfMain
  <2>1. /\ UNCHANGED <<argv, options, pictures, script, stage, codes, vars>> /\ phase = "write"
        /\ program.name = "qrencode" /\ phase' = "exit" /\ Len(pictures) = Len(codes)
    BY <1>12 DEF EndOfMain, Exit
  <2> QED BY <1>0, <1>3, <2>1, WorkStays DEF PhasePart, ProgramPart, ShownPart
<1> QED BY <1>4, <1>5, <1>6, <1>7, <1>8, <1>9, <1>10, <1>11, <1>12 DEF ToolNext

(* The pictures show the symbols: at any time of a run of createBarcode or of
   qrencode, for every text, every script of options and every version, each
   picture is the symbol of its number, magnified and with the margin asked for,
   and there is one for each symbol when main returns
   (QRGenerator.cpp:120-218, qrenc.c:558-724). *)
THEOREM PicturesShowSymbols == ToolSpec => []PictureShowsSymbol
<1>1. ToolInv => PictureShowsSymbol
  <2> SUFFICES ASSUME ToolInv PROVE PictureShowsSymbol
    OBVIOUS
  <2>1. CASE program.name = "library"
    BY <2>1 DEF ToolInv, PictureShowsSymbol
  <2>2. CASE program.name # "library"
    <3>1. PhasePart /\ ShownPart
      BY <2>2 DEF ToolInv
    <3>2. \A i \in DOMAIN pictures :
            Seen(pictures[i]) =
              IF program.name = "createBarcode"
              THEN Magnified(codes[i], 0, OUT_FILE_PIXEL_PRESCALER, OUT_FILE_PIXEL_PRESCALER)
              ELSE IF options.type \in {"PNG", "EPS", "SVG"}
              THEN Magnified(codes[i], options.margin, options.size, options.size)
              ELSE Magnified(codes[i], options.margin, 2, 1)
      BY <3>1 DEF ShownPart, Shown
    <3>3. phase = "exit" /\ stage = "done" => Len(pictures) = Len(codes)
      BY <3>1 DEF PhasePart
    <3> QED BY <3>2, <3>3, Zenon DEF PictureShowsSymbol
  <2> QED BY <2>1, <2>2
<1> QED BY ToolBegins, ToolStep, <1>1, PTL DEF ToolSpec
=============================================================================
