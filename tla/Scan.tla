--------------------------------- MODULE Scan ---------------------------------
(***************************************************************************)
(* What is in a bar code, and who looks at it: the text BarcodeCreator     *)
(* makes, what the phone's StartActivity takes out of the text it scanned, *)
(* what it then sends, and what getClients compares.  Texts are sequences  *)
(* of character codes.                                                     *)
(***************************************************************************)
EXTENDS Integers, Sequences, FiniteSets

Bar == 124
Dot == 46
Zero == 48

\* Mutant of MAX_SCAN_DATA_LEN: the bar is not counted.
MAX_SCAN_DATA_LEN_WithoutBar == 23
MAX_SCAN_DATA_LEN == 24
MIN_SCAN_DATA_LEN == 16
PASS_LENGTH == 8

\* The first place of c in t, or 0 (std::string::find_first_of, String.indexOf).
IndexOf(t, c) ==
  LET places == {i \in DOMAIN t : t[i] = c}
  IN  IF places = {} THEN 0 ELSE CHOOSE i \in places : \A j \in places : i <= j

BarcodeText(ip, pass) == ip \o <<Bar>> \o pass

\* String.split at the dots: what lies between two of them, or an end.
Parts(t) ==
  LET borders == {0, Len(t) + 1} \cup {i \in DOMAIN t : t[i] = Dot}
      next == {p \in borders \X borders : p[1] < p[2] /\ \A c \in borders : ~(p[1] < c /\ c < p[2])}
  IN  {SubSeq(t, p[1] + 1, p[2] - 1) : p \in next}
Dots(t) == {i \in DOMAIN t : t[i] = Dot}

(* Integer.parseInt of a part, in a set; none if it is no number.  A sign may
   stand before the digits. *)
ParseInt(s) ==
  LET signed == s # <<>> /\ Head(s) \in {43, 45}
      digits == IF signed THEN Tail(s) ELSE s
      value[i \in 0..Len(digits)] == IF i = 0 THEN 0 ELSE 10 * value[i - 1] + digits[i] - Zero
  IN  IF digits = <<>> \/ \E i \in DOMAIN digits : digits[i] \notin Zero..Zero + 9 THEN {}
      ELSE {IF s[1] = 45 THEN -value[Len(digits)] ELSE value[Len(digits)]}

(* split leaves out empty parts at the end, which the test of the last character
   catches: an address has three dots, and a number around each. *)
validIP(ip) ==
  /\ Cardinality(Dots(ip)) = 3
  /\ \A s \in Parts(ip) : \E i \in ParseInt(s) : i \in 0..255

(* onActivityResult of a scan that succeeded: the address and the password it
   connects with, in a set; none if it refuses the text. *)
Scanned(contents) ==
  LET bar == IndexOf(contents, Bar)
      ip == SubSeq(contents, 1, bar - 1)
      pass == SubSeq(contents, bar + 1, Len(contents))
  IN  IF /\ bar # 0
         /\ Len(contents) \in MIN_SCAN_DATA_LEN..MAX_SCAN_DATA_LEN
         /\ validIP(ip)
         /\ Len(pass) = PASS_LENGTH
      THEN {[ip |-> ip, pass |-> pass]} ELSE {}

\* What the phone sends when it logs in, and whether the server takes it.
LoginMessage(pass) == <<49, Bar>> \o pass
RightPassword(received, pass) ==
  LET rest == SubSeq(received, IndexOf(received, Bar) + 1, Len(received))
  IN  SubSeq(rest, 1, IF Len(rest) < 8 THEN Len(rest) ELSE 8) = pass
=============================================================================
