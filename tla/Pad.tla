--------------------------------- MODULE Pad ---------------------------------
(***************************************************************************)
(* The round pad of action type 3 (Templates.java:252-394 and check,       *)
(* 446-456): the place of the finger, relative to the centre, is turned    *)
(* into an "hour", the hour into one or two of the keys W, A, S, D, and    *)
(* these are pressed and the others released.                              *)
(*                                                                         *)
(* x grows to the right, y downwards.  The source divides y by x as        *)
(* integers before it takes the arc tangent.                               *)
(***************************************************************************)
EXTENDS Integers

CONSTANT Radius     \* bound: the finger is within this of the centre, in each direction

ASSUME RadiusAssumption == Radius \in Nat \ {0}

VARIABLES
  place,    \* where the last ACTION_MOVE was, <<>> when the finger is off the pad
  flags,    \* the listener's WPressed, APressed, SPressed, DPressed that are set
  walking   \* the keys down at the server's end

padVars == <<place, flags, walking>>

Key == {"W", "A", "S", "D"}
Offset == -Radius..Radius

-----------------------------------------------------------------------------
(* Java's y / x: the quotient without its sign, and check's quadrants. *)
Magnitude(a) == IF a < 0 THEN -a ELSE a
Quotient(x, y) == Magnitude(y) \div Magnitude(x)

check(x, y) ==
  CASE x > 0 /\ y > 0 -> 1
    [] x > 0 /\ y < 0 -> 2
    [] x < 0 /\ y < 0 -> 3
    [] x < 0 /\ y > 0 -> 4

(* toDegrees(atan(q)) / 30 in thousandths: of the quotients 0..7, and from 8 on by
   the first term of its series, which is right to a thousandth there. *)
Atan(q) ==
  IF q < 8 THEN <<0, 1500, 2114, 2386, 2532, 2623, 2685, 2729>>[q + 1] ELSE 3000 - 1910 \div q

(* The hour, 0 at the right and clockwise from there, in thousandths: the sign
   of the quotient is that of x times y, as atan is odd. *)
Angle(x, y) ==
  LET a == Atan(Quotient(x, y))
  IN  CASE check(x, y) = 1 -> a
        [] check(x, y) = 2 -> 12000 - a
        [] check(x, y) = 3 -> 6000 + a
        [] check(x, y) = 4 -> 6000 - a

(* Mutant of KeysOfHour: one gap between two sectors is a whole hour wide. *)
KeysOfHourGap(hour) ==
  UNION {IF hour \in 8110..9890 THEN {"W"} ELSE {},
         IF hour \in 9900..10800 THEN {"W", "D"} ELSE {},
         IF hour >= 10810 \/ hour \in 0..1190 THEN {"D"} ELSE {},
         IF hour \in 1200..2100 THEN {"D", "S"} ELSE {},
         IF hour \in 2110..3900 THEN {"S"} ELSE {},
         IF hour \in 4910..5100 THEN {"S", "A"} ELSE {},
         IF hour \in 5110..6900 THEN {"A"} ELSE {},
         IF hour \in 6910..8100 THEN {"A", "W"} ELSE {}}

(* The sectors of the clock; nothing in the gaps between them. *)
KeysOfHour(hour) ==
  UNION {IF hour \in 8110..9890 THEN {"W"} ELSE {},
         IF hour \in 9900..10800 THEN {"W", "D"} ELSE {},
         IF hour >= 10810 \/ hour \in 0..1190 THEN {"D"} ELSE {},
         IF hour \in 1200..2100 THEN {"D", "S"} ELSE {},
         IF hour \in 2110..3900 THEN {"S"} ELSE {},
         IF hour \in 3910..5100 THEN {"S", "A"} ELSE {},
         IF hour \in 5110..6900 THEN {"A"} ELSE {},
         IF hour \in 6910..8100 THEN {"A", "W"} ELSE {}}

(* send1 and send2. *)
KeysAt(x, y) ==
  CASE x = 0 /\ y = 0 -> {}
    [] x = 0 /\ y # 0 -> IF y > 0 THEN {"S"} ELSE {"W"}
    [] x # 0 /\ y = 0 -> IF x > 0 THEN {"D"} ELSE {"A"}
    [] x # 0 /\ y # 0 -> KeysOfHour(Angle(x, y))

-----------------------------------------------------------------------------
PadInit == place = <<>> /\ flags = {} /\ walking = {}

(* Mutant of PadMove: what was pressed before is not released. *)
PadMoveWithoutRelease(x, y) ==
  /\ place' = <<x, y>>
  /\ flags' = flags \cup KeysAt(x, y)
  /\ walking' = walking \cup KeysAt(x, y)

(* ACTION_MOVE: release the flagged keys that are not wanted any more, press
   all that are wanted (again, if they were). *)
PadMove(x, y) ==
  LET wanted == KeysAt(x, y)
  IN  /\ place' = <<x, y>>
      /\ walking' = (walking \ (flags \ wanted)) \cup wanted
      /\ flags' = wanted

(* ACTION_UP: release what is flagged. *)
PadUp ==
  /\ place' = <<>>
  /\ walking' = walking \ flags
  /\ flags' = {}

PadNext == PadUp \/ \E x, y \in Offset : PadMove(x, y)
PadSpec == PadInit /\ [][PadNext]_padVars

-----------------------------------------------------------------------------
PadTypeOK ==
  /\ place \in {<<>>} \cup (Offset \X Offset)
  /\ flags \subseteq Key
  /\ walking \subseteq Key

(* The keys that are down are those for the place of the finger, and none when
   it is off the pad, whatever way it came (Templates.java:357-389). *)
PressedFollowFinger ==
  walking = IF place = <<>> THEN {} ELSE KeysAt(place[1], place[2])

(* The pad is symmetric: the place opposite the finger has the opposite keys; and
   off the centre it always walks somewhere, never both ways at once: the
   sectors overlap nowhere and their gaps are never hit (Templates.java:305-356). *)
Opposite(k) == CASE k = "W" -> "S" [] k = "S" -> "W" [] k = "A" -> "D" [] k = "D" -> "A"
PadIsSymmetric ==
  /\ place # <<>> => KeysAt(-place[1], -place[2]) = {Opposite(k) : k \in walking}
  /\ place \notin {<<>>, <<0, 0>>} => walking # {}
  /\ \A k \in walking : Opposite(k) \notin walking
=============================================================================
