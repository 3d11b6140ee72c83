-------------------------------- MODULE RSCode --------------------------------
(***************************************************************************)
(* The Reed-Solomon code of the symbols (rscode.c): bytes are elements of  *)
(* the field of 256 elements in which 2 is a root of the polynomial 0x11d, *)
(* and addition is the exclusive or.  The code multiplies with tables of   *)
(* logarithms, which init_rs_char fills by doubling; here a product is     *)
(* doublings and additions.  Zero has no logarithm, as in the code.        *)
(***************************************************************************)
EXTENDS Integers, Sequences

(* The code's ^ on numbers of up to 20 bits, four bits at a time. *)
XorOfFour ==
  LET of[p \in (0..15) \X (0..15)] ==
        IF p = <<0, 0>> THEN 0 ELSE 2 * of[<<p[1] \div 2, p[2] \div 2>>] + ((p[1] + p[2]) % 2)
  IN  of
Xor(a, b) ==
  LET from[k \in 0..5] ==
        IF 16^k > a /\ 16^k > b THEN 0
        ELSE 16^k * XorOfFour[<<(a \div 16^k) % 16, (b \div 16^k) % 16>>] + from[k + 1]
  IN  from[0]

Double(x) == IF x < 128 THEN 2 * x ELSE Xor(2 * x, 285)

Product(a, b) ==
  LET sum[k \in 0..8] ==      \* of the k highest bits of b
        IF k = 0 THEN 0
        ELSE Xor(Double(sum[k - 1]), a * ((b \div 2^(8 - k)) % 2))
  IN  IF a = 0 \/ b = 0 THEN 0 ELSE sum[8]

Power(i) == LET p[n \in 0..i] == IF n = 0 THEN 1 ELSE Double(p[n - 1]) IN p[i]

(* Mutant of TimesRoot: the roots begin with 2 instead of 1. *)
TimesRootFromTwo(g) ==
  Append([j \in 1..Len(g) |-> Xor(IF j = 1 THEN 0 ELSE g[j - 1], Product(g[j], Power(Len(g))))], 1)

(* init_rs_char's loop: g, the product of x + 2^i for i < Len(g) - 1, times the
   next such factor.  Coefficients from the constant one to the leading 1. *)
TimesRoot(g) ==
  Append([j \in 1..Len(g) |-> Xor(IF j = 1 THEN 0 ELSE g[j - 1], Product(g[j], Power(Len(g) - 1)))], 1)

\* The polynomial init_rs_char makes.
Genpoly(nroots) ==
  LET g[i \in 0..nroots] == IF i = 0 THEN <<1>> ELSE TimesRoot(g[i - 1])
  IN  g[nroots]

(* encode_rs_char's loop: the remainder by g after one more byte of the data. *)
Feed(parity, g, d) ==
  LET nroots == Len(parity)
      feedback == Xor(d, parity[1])
  IN  Tail([j \in 1..nroots + 1 |-> Xor(Append(parity, 0)[j], Product(g[nroots + 2 - j], feedback))])
=============================================================================
