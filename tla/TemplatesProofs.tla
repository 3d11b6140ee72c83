---------------------------- MODULE TemplatesProofs ----------------------------
(***************************************************************************)
(* Proofs about the listeners of a template: Templates, for any buttons,   *)
(* fingers and positions, then Pad, then MyButton for any number of        *)
(* touches.  The invariants of Templates hold together: that no button     *)
(* stays down without a finger rests on running being what was last sent,  *)
(* which the listeners look at before they send.                           *)
(***************************************************************************)
EXTENDS Templates, Pad, MyButton, TLAPS

IInv ==
  /\ TypeOK
  /\ RunningIsPressed
  /\ MouseBelongsToHeld
  /\ UntouchedIsReleased
  /\ NoJump

LEMMA InitIInv == Init => IInv
BY DEF Init, IInv, TypeOK, RunningIsPressed, MouseBelongsToHeld, UntouchedIsReleased, NoJump, Button, Unset

LEMMA PlacesAreInt ==
  ASSUME IInv, NEW b \in Button
  PROVE  XMotion[b] \in Int /\ YMotion[b] \in Int
<1>1. XMotion[b] \in Xs \cup {Unset} /\ YMotion[b] \in Ys \cup {Unset}
  BY DEF IInv, TypeOK
<1>2. Unset \in Int
  BY DEF Unset
<1> QED BY <1>1, <1>2, PositionAssumption

(* Two ways to keep NoJump: to forget the motion, or to note where it went. *)
LEMMA LetGoKeeps ==
  ASSUME IInv, NEW b \in Button, LetGo(b)
  PROVE  /\ running' \in [Button -> BOOLEAN] /\ pressed' \subseteq MouseButtons \cup KeyButtons
         /\ XMotion' \in [Button -> Xs \cup {Unset}] /\ YMotion' \in [Button -> Ys \cup {Unset}]
         /\ moved' = <<>> /\ cancelled' = cancelled \ {b}
         /\ RunningIsPressed'
         /\ pressed' = pressed \ {b} /\ ~running'[b]
         /\ \A c \in Button \ {b} : /\ running'[c] = running[c]
                                    /\ XMotion'[c] = XMotion[c] /\ YMotion'[c] = YMotion[c]
         /\ XMotion'[b] = Unset
BY DEF IInv, TypeOK, LetGo, SendRelease, ForgetMotion, RunningIsPressed

LEMMA DisplaceKeeps ==
  ASSUME IInv, NEW b \in Button, NEW x \in Xs, NEW y \in Ys, Displace(b, x, y)
  PROVE  /\ XMotion' \in [Button -> Xs \cup {Unset}] /\ YMotion' \in [Button -> Ys \cup {Unset}]
         /\ lastMove' \in [Button -> {<<>>} \cup (Xs \X Ys)]
         /\ moved' \in {<<>>} \cup (Int \X Int)
         /\ cancelled' = cancelled \ {b}
         /\ NoJump'
<1> USE DEF IInv, TypeOK, Displace
<1>1. /\ XMotion' \in [Button -> Xs \cup {Unset}] /\ YMotion' \in [Button -> Ys \cup {Unset}]
      /\ lastMove' \in [Button -> {<<>>} \cup (Xs \X Ys)]
  OBVIOUS
<1>2. moved' \in {<<>>} \cup (Int \X Int)
  <2>1. x \in Int /\ y \in Int /\ XMotion[b] \in Int /\ YMotion[b] \in Int
    BY PositionAssumption, PlacesAreInt
  <2>2. x - XMotion[b] \in Int /\ y - YMotion[b] \in Int
    BY <2>1
  <2>3. moved' \in {<<>>, <<x - XMotion[b], y - YMotion[b]>>}
    OBVIOUS
  <2> QED BY <2>2, <2>3
<1>3. NoJump'
  <2> SUFFICES ASSUME NEW c \in (MouseButtons \cup KeyButtons) \ cancelled', XMotion'[c] # Unset
               PROVE  lastMove'[c] = <<XMotion'[c], YMotion'[c]>>
    BY DEF NoJump
  <2> c \in Button
    BY DEF Button
  <2>1. CASE c = b
    BY <2>1
  <2>2. CASE c # b
    BY <2>2 DEF NoJump
  <2> QED BY <2>1, <2>2
<1> QED BY <1>1, <1>2, <1>3

\* Touching a button of either kind.
LEMMA PressKeeps ==
  ASSUME IInv, NEW b \in MouseButtons \cup KeyButtons, MouseDown(b) \/ KeyDown(b)
  PROVE  IInv'
<1> b \in Button
  BY DEF Button
<1> USE DEF IInv, TypeOK, SendPress
<1>1. TypeOK'
  BY DEF MouseDown, KeyDown
<1>2. RunningIsPressed' /\ UntouchedIsReleased'
  BY DEF MouseDown, KeyDown, RunningIsPressed, UntouchedIsReleased
<1>3. MouseBelongsToHeld'
  BY DEF MouseDown, KeyDown, MouseBelongsToHeld, Button
<1>4. NoJump'
  BY DEF MouseDown, KeyDown, NoJump
<1> QED BY <1>1, <1>2, <1>3, <1>4

\* Letting it go, by lifting the finger or by leaving it.
LEMMA ReleaseKeeps ==
  ASSUME IInv, NEW b \in MouseButtons \cup KeyButtons, LetGo(b),
         touched' \in {touched, touched \ {b}},
         lastMove' = [lastMove EXCEPT ![b] = <<>>],
         GiveUpMouse(b) \/ (b \in KeyButtons /\ UNCHANGED isUsingMouse)
  PROVE  IInv'
<1> b \in Button
  BY DEF Button
<1>1. TypeOK'
  BY LetGoKeeps DEF IInv, TypeOK, GiveUpMouse
<1>2. RunningIsPressed'
  BY LetGoKeeps
<1>3. MouseBelongsToHeld'
  <2>1. isUsingMouse' # b
    BY ButtonAssumption DEF IInv, TypeOK, GiveUpMouse, Button
  <2>2. isUsingMouse' # Nobody => isUsingMouse' = isUsingMouse /\ isUsingMouse \in Button
    BY DEF IInv, TypeOK, GiveUpMouse, Button
  <2> QED BY <2>1, <2>2, LetGoKeeps DEF IInv, MouseBelongsToHeld
<1>4. UntouchedIsReleased'
  BY LetGoKeeps DEF IInv, UntouchedIsReleased
<1>5. NoJump'
  <2> SUFFICES ASSUME NEW c \in (MouseButtons \cup KeyButtons) \ cancelled', XMotion'[c] # Unset
               PROVE  lastMove'[c] = <<XMotion'[c], YMotion'[c]>>
    BY DEF NoJump
  <2>1. c \in Button \ {b} /\ c \notin cancelled
    BY LetGoKeeps DEF Button
  <2>2. XMotion'[c] = XMotion[c] /\ YMotion'[c] = YMotion[c] /\ lastMove'[c] = lastMove[c]
    BY <2>1, LetGoKeeps DEF IInv, TypeOK
  <2> QED BY <2>1, <2>2 DEF IInv, NoJump
<1> QED BY <1>1, <1>2, <1>3, <1>4, <1>5 DEF IInv

LEMMA NextIInv == IInv /\ [Next]_vars => IInv'
<1> SUFFICES ASSUME IInv, [Next]_vars
             PROVE  IInv'
  OBVIOUS
<1>1. ASSUME NEW b \in Button, MouseDown(b) \/ KeyDown(b)
      PROVE  IInv'
  BY <1>1, PressKeeps DEF MouseDown, KeyDown
<1>2. ASSUME NEW b \in Button, MouseUp(b) \/ KeyUp(b)
      PROVE  IInv'
  BY <1>2, ReleaseKeeps DEF MouseUp, KeyUp
<1>3. ASSUME NEW b \in Button, NEW x \in Xs, NEW y \in Ys, MouseMove(b, x, y) \/ KeyMove(b, x, y)
      PROVE  IInv'
  <2>1. CASE x >= 0
    <3>1. Displace(b, x, y) /\ UNCHANGED <<running, pressed, isUsingMouse, touched>> /\ b \in touched
      BY <1>3, <2>1 DEF MouseMove, KeyMove
    <3>2. TypeOK' /\ NoJump'
      BY <3>1, DisplaceKeeps DEF IInv, TypeOK
    <3>3. RunningIsPressed' /\ MouseBelongsToHeld'
      BY <3>1 DEF IInv, RunningIsPressed, MouseBelongsToHeld
    <3>4. UntouchedIsReleased'
      BY <3>1, DisplaceKeeps DEF IInv, UntouchedIsReleased
    <3> QED BY <3>2, <3>3, <3>4 DEF IInv
  <2>2. CASE ~(x >= 0)
    <3>1. LetGo(b) /\ touched' = touched /\ lastMove' = [lastMove EXCEPT ![b] = <<>>]
          /\ b \in MouseButtons \cup KeyButtons
          /\ (GiveUpMouse(b) \/ (b \in KeyButtons /\ UNCHANGED isUsingMouse))
      BY <1>3, <2>2 DEF MouseMove, KeyMove
    <3> QED BY <3>1, ReleaseKeeps
  <2> QED BY <2>1, <2>2
<1>4. ASSUME NEW b \in Button,
             SightDown(b) \/ \E x \in Xs, y \in Ys : SightMove(b, x, y) \/ SightUp(b, x, y)
      PROVE  IInv'
  <2>0. b \in SightPads /\ b \notin MouseButtons \cup KeyButtons
    BY <1>4, ButtonAssumption DEF SightDown, SightMove, SightUp
  <2>1. UNCHANGED <<isUsingMouse, running, pressed, lastMove, cancelled>>
        /\ touched' \in {touched, touched \cup {b}, touched \ {b}}
    BY <1>4 DEF SightDown, SightMove, SightUp
  <2>2. /\ XMotion' \in [Button -> Xs \cup {Unset}] /\ YMotion' \in [Button -> Ys \cup {Unset}]
        /\ moved' \in {<<>>} \cup (Int \X Int)
        /\ \A c \in Button \ {b} : XMotion'[c] = XMotion[c] /\ YMotion'[c] = YMotion[c]
    <3>1. CASE SightDown(b)
      BY <3>1 DEF IInv, TypeOK, SightDown
    <3>2. ASSUME NEW x \in Xs, NEW y \in Ys, SightMove(b, x, y)
          PROVE  <2>2!1 /\ <2>2!2 /\ <2>2!3
      <4>1. x + XMotion[b] \in Int /\ y + YMotion[b] \in Int
        <5>1. x \in Int /\ y \in Int /\ XMotion[b] \in Int /\ YMotion[b] \in Int
          BY PositionAssumption, PlacesAreInt
        <5> QED BY <5>1
      <4>2. moved' \in {<<>>, <<x + XMotion[b], y + YMotion[b]>>}
        BY <3>2 DEF SightMove
      <4>3. <2>2!1 /\ <2>2!3
        BY <3>2 DEF IInv, TypeOK, SightMove, ForgetMotion
      <4> QED BY <4>1, <4>2, <4>3
    <3>3. ASSUME NEW x \in Xs, NEW y \in Ys, SightUp(b, x, y)
          PROVE  <2>2!1 /\ <2>2!2 /\ <2>2!3
      BY <3>3 DEF IInv, TypeOK, SightUp
    <3> QED BY <1>4, <3>1, <3>2, <3>3
  <2>3. TypeOK'
    BY <2>1, <2>2 DEF IInv, TypeOK
  <2>4. RunningIsPressed' /\ MouseBelongsToHeld'
    BY <2>1 DEF IInv, RunningIsPressed, MouseBelongsToHeld
  <2>5. UntouchedIsReleased'
    BY <2>0, <2>1 DEF IInv, TypeOK, UntouchedIsReleased
  <2>6. NoJump'
    BY <2>0, <2>1, <2>2 DEF IInv, NoJump, Button
  <2> QED BY <2>3, <2>4, <2>5, <2>6 DEF IInv
<1>5. ASSUME NEW b \in Button, Cancel(b)
      PROVE  IInv'
  <2> USE <1>5 DEF IInv, TypeOK, Cancel
  <2>1. TypeOK'
    BY DEF Button
  <2>2. RunningIsPressed' /\ MouseBelongsToHeld'
    BY DEF RunningIsPressed, MouseBelongsToHeld
  <2>3. UntouchedIsReleased'
    BY ButtonAssumption DEF UntouchedIsReleased
  <2>4. NoJump'
    <3>1. ASSUME NEW c \in (MouseButtons \cup KeyButtons) \ cancelled'
          PROVE  c # b /\ c \notin cancelled
      BY <3>1, ButtonAssumption
    <3> QED BY <3>1 DEF NoJump, Button
  <2> QED BY <2>1, <2>2, <2>3, <2>4
<1>6. CASE UNCHANGED vars
  BY <1>6 DEF vars, IInv, TypeOK, RunningIsPressed, MouseBelongsToHeld, UntouchedIsReleased, NoJump
<1>7. QED
  BY <1>1, <1>2, <1>3, <1>4, <1>5, <1>6 DEF Next, Move

LEMMA InvariantHolds == Spec => []IInv
BY InitIInv, NextIInv, PTL DEF Spec

(* The flag of a button is set as long as it is down at the server
   (Templates.java:201-251, 396-438). *)
THEOREM FlagsFollowServer == Spec => []RunningIsPressed
<1>1. IInv => RunningIsPressed
  BY DEF IInv
<1> QED BY <1>1, InvariantHolds, PTL

(* A button that was let go never keeps the mouse (210-238). *)
THEOREM MouseIsGivenUp == Spec => []MouseBelongsToHeld
<1>1. IInv => MouseBelongsToHeld
  BY DEF IInv
<1> QED BY <1>1, InvariantHolds, PTL

(* No button stays down that no finger is on, but for cancelled touches. *)
THEOREM NoneStaysDown == Spec => []UntouchedIsReleased
<1>1. IInv => UntouchedIsReleased
  BY DEF IInv
<1> QED BY <1>1, InvariantHolds, PTL

(* A displacement is measured from a position of the same touch (219-232, 404-418). *)
THEOREM MouseNeverJumps == Spec => []NoJump
<1>1. IInv => NoJump
  BY DEF IInv
<1> QED BY <1>1, InvariantHolds, PTL

-----------------------------------------------------------------------------
(* The pad: the flags are just the keys that are down, so that what a move releases
   and presses leaves those of the new place (Templates.java:357-394); and the place
   is within the pad. *)
PadInv ==
  /\ walking = flags
  /\ PressedFollowFinger
  /\ place \in {<<>>} \cup (Offset \X Offset)

LEMMA PadNextKeeps == PadInv /\ [PadNext]_padVars => PadInv'
<1> SUFFICES ASSUME PadInv, [PadNext]_padVars PROVE PadInv'
  OBVIOUS
<1>1. CASE PadUp
  BY <1>1 DEF PadUp, PadInv, PressedFollowFinger
<1>2. ASSUME NEW x \in Offset, NEW y \in Offset, PadMove(x, y) PROVE PadInv'
  <2>1. place' = <<x, y>> /\ place' # <<>> /\ place'[1] = x /\ place'[2] = y
    BY <1>2 DEF PadMove
  <2>2. flags' = KeysAt(x, y) /\ walking' = KeysAt(x, y)
    BY <1>2 DEF PadMove, PadInv
  <2> QED BY <2>1, <2>2 DEF PadInv, PressedFollowFinger
<1>3. CASE UNCHANGED padVars
  BY <1>3 DEF padVars, PadInv, PressedFollowFinger
<1> QED BY <1>1, <1>2, <1>3 DEF PadNext

LEMMA PadInvHolds == PadSpec => []PadInv
<1>1. PadInit => PadInv
  BY DEF PadInit, PadInv, PressedFollowFinger
<1> QED BY <1>1, PadNextKeeps, PTL DEF PadSpec

(* The keys that are down are those for the place of the finger (357-394). *)
THEOREM KeysFollowFinger == PadSpec => []PressedFollowFinger
<1>1. PadInv => PressedFollowFinger
  BY DEF PadInv
<1> QED BY <1>1, PadInvHolds, PTL

(* The sectors of the clock.  A quotient of two offsets is a whole number, so the
   angle within a quadrant is 0, 1500 or within 2114 and 3000 thousandths of an
   hour, and these three kinds fall into the right sectors of each quadrant. *)
Within == {0, 1500} \cup (2114..3000)

\* A set of keys that is no contradiction, with the set of the opposite ones.
Facing(keys, others) ==
  /\ others = {Opposite(k) : k \in keys} /\ keys = {Opposite(k) : k \in others}
  /\ keys # {} /\ \A k \in keys : Opposite(k) \notin keys
  /\ others # {} /\ \A k \in others : Opposite(k) \notin others

LEMMA FacingSets ==
  /\ Facing({"D"}, {"A"}) /\ Facing({"S"}, {"W"}) /\ Facing({"W"}, {"S"})
  /\ Facing({"D", "S"}, {"A", "W"}) /\ Facing({"W", "D"}, {"S", "A"})
BY DEF Facing, Opposite

LEMMA KeysOfSector ==
  /\ \A h \in {0, 12000} : KeysOfHour(h) = {"D"}
  /\ KeysOfHour(6000) = {"A"}
  /\ \A h \in 2114..3886 : KeysOfHour(h) = {"S"}
  /\ \A h \in 8114..9886 : KeysOfHour(h) = {"W"}
  /\ KeysOfHour(1500) = {"D", "S"} /\ KeysOfHour(4500) = {"S", "A"}
  /\ KeysOfHour(7500) = {"A", "W"} /\ KeysOfHour(10500) = {"W", "D"}
<1>1. ASSUME NEW h \in Int
      PROVE  \A k : k \in KeysOfHour(h) <=>
               \/ k = "W" /\ ((8110 <= h /\ h <= 9890) \/ (9900 <= h /\ h <= 10800) \/ (6910 <= h /\ h <= 8100))
               \/ k = "D" /\ (10810 <= h \/ (0 <= h /\ h <= 1190) \/ (9900 <= h /\ h <= 10800)
                             \/ (1200 <= h /\ h <= 2100))
               \/ k = "S" /\ ((2110 <= h /\ h <= 3900) \/ (1200 <= h /\ h <= 2100) \/ (3910 <= h /\ h <= 5100))
               \/ k = "A" /\ ((5110 <= h /\ h <= 6900) \/ (3910 <= h /\ h <= 5100) \/ (6910 <= h /\ h <= 8100))
  <2>1. "W" \in KeysOfHour(h) <=>
          ((8110 <= h /\ h <= 9890) \/ (9900 <= h /\ h <= 10800) \/ (6910 <= h /\ h <= 8100))
    <3>1. "W" \in KeysOfHour(h) <=>
            (h \in 8110..9890 \/ h \in 9900..10800 \/ h \in 6910..8100)
      BY DEF KeysOfHour
    <3> QED BY <3>1
  <2>2. "D" \in KeysOfHour(h) <=>
          (10810 <= h \/ (0 <= h /\ h <= 1190) \/ (9900 <= h /\ h <= 10800) \/ (1200 <= h /\ h <= 2100))
    <3>1. "D" \in KeysOfHour(h) <=>
            (h >= 10810 \/ h \in 0..1190 \/ h \in 9900..10800 \/ h \in 1200..2100)
      BY DEF KeysOfHour
    <3> QED BY <3>1
  <2>3. "S" \in KeysOfHour(h) <=>
          ((2110 <= h /\ h <= 3900) \/ (1200 <= h /\ h <= 2100) \/ (3910 <= h /\ h <= 5100))
    <3>1. "S" \in KeysOfHour(h) <=>
            (h \in 2110..3900 \/ h \in 1200..2100 \/ h \in 3910..5100)
      BY DEF KeysOfHour
    <3> QED BY <3>1
  <2>4. "A" \in KeysOfHour(h) <=>
          ((5110 <= h /\ h <= 6900) \/ (3910 <= h /\ h <= 5100) \/ (6910 <= h /\ h <= 8100))
    <3>1. "A" \in KeysOfHour(h) <=>
            (h \in 5110..6900 \/ h \in 3910..5100 \/ h \in 6910..8100)
      BY DEF KeysOfHour
    <3> QED BY <3>1
  <2>5. \A k : k \in KeysOfHour(h) => k \in {"W", "A", "S", "D"}
    BY DEF KeysOfHour
  <2> QED BY <2>1, <2>2, <2>3, <2>4, <2>5
<1>2. \A h \in {0, 12000} : KeysOfHour(h) = {"D"}
  <2>1. KeysOfHour(0) = {"D"}
    BY <1>1
  <2>2. KeysOfHour(12000) = {"D"}
    BY <1>1
  <2> QED BY <2>1, <2>2
<1>3. KeysOfHour(6000) = {"A"}
  BY <1>1
<1>4. \A h \in 2114..3886 : KeysOfHour(h) = {"S"}
  <2> SUFFICES ASSUME NEW h \in 2114..3886
               PROVE  KeysOfHour(h) = {"S"}
    BY SMTT(40)
  <2>1. h \in Int /\ 2114 <= h /\ h <= 3886
    OBVIOUS
  <2>2. \A k : k \in KeysOfHour(h) <=> k = "S"
    BY <1>1, <2>1
  <2> QED BY <2>2
<1>5. \A h \in 8114..9886 : KeysOfHour(h) = {"W"}
  <2> SUFFICES ASSUME NEW h \in 8114..9886
               PROVE  KeysOfHour(h) = {"W"}
    BY SMTT(40)
  <2>1. h \in Int /\ 8114 <= h /\ h <= 9886
    OBVIOUS
  <2>2. \A k : k \in KeysOfHour(h) <=> k = "W"
    BY <1>1, <2>1
  <2> QED BY <2>2
<1>6. KeysOfHour(1500) = {"D", "S"} /\ KeysOfHour(4500) = {"S", "A"}
  BY <1>1
<1>7. KeysOfHour(7500) = {"A", "W"} /\ KeysOfHour(10500) = {"W", "D"}
  BY <1>1
<1> QED BY <1>2, <1>3, <1>4, <1>5, <1>6, <1>7

LEMMA QuadrantsFace ==
  ASSUME NEW a \in Within
  PROVE  /\ Facing(KeysOfHour(a), KeysOfHour(6000 + a))
         /\ Facing(KeysOfHour(12000 - a), KeysOfHour(6000 - a))
<1>1. CASE a = 0
  <2>1. 6000 + a = 6000 /\ 12000 - a = 12000 /\ 6000 - a = 6000
    BY <1>1
  <2>2. KeysOfHour(a) = {"D"} /\ KeysOfHour(6000 + a) = {"A"}
    BY <1>1, <2>1, KeysOfSector
  <2>3. KeysOfHour(12000 - a) = {"D"} /\ KeysOfHour(6000 - a) = {"A"}
    BY <1>1, <2>1, KeysOfSector
  <2> QED BY <2>2, <2>3, FacingSets
<1>2. CASE a = 1500
  <2>1. 6000 + a = 7500 /\ 12000 - a = 10500 /\ 6000 - a = 4500
    BY <1>2
  <2>2. KeysOfHour(a) = {"D", "S"} /\ KeysOfHour(6000 + a) = {"A", "W"}
    BY <1>2, <2>1, KeysOfSector
  <2>3. KeysOfHour(12000 - a) = {"W", "D"} /\ KeysOfHour(6000 - a) = {"S", "A"}
    BY <1>2, <2>1, KeysOfSector
  <2> QED BY <2>2, <2>3, FacingSets
<1>3. CASE a \in 2114..3000
  <2>1. /\ 6000 + a \in 8114..9886 /\ 12000 - a \in 8114..9886
        /\ a \in 2114..3886 /\ 6000 - a \in 2114..3886
    BY <1>3
  <2>2. KeysOfHour(a) = {"S"} /\ KeysOfHour(6000 - a) = {"S"}
    <3>1. KeysOfHour(a) = {"S"}
      <4>1. PICK h \in 2114..3886 : h = a
        BY <2>1
      <4>2. KeysOfHour(h) = {"S"}
        BY KeysOfSector
      <4> QED BY <4>1, <4>2
    <3>2. KeysOfHour(6000 - a) = {"S"}
      <4>1. PICK h \in 2114..3886 : h = 6000 - a
        BY <2>1
      <4>2. KeysOfHour(h) = {"S"}
        BY KeysOfSector
      <4> QED BY <4>1, <4>2
    <3> QED BY <3>1, <3>2
  <2>3. KeysOfHour(6000 + a) = {"W"} /\ KeysOfHour(12000 - a) = {"W"}
    <3>1. KeysOfHour(6000 + a) = {"W"}
      <4>1. PICK h \in 8114..9886 : h = 6000 + a
        BY <2>1
      <4>2. KeysOfHour(h) = {"W"}
        BY KeysOfSector
      <4> QED BY <4>1, <4>2
    <3>2. KeysOfHour(12000 - a) = {"W"}
      <4>1. PICK h \in 8114..9886 : h = 12000 - a
        BY <2>1
      <4>2. KeysOfHour(h) = {"W"}
        BY KeysOfSector, SMTT(40)
      <4> QED BY <4>1, <4>2
    <3> QED BY <3>1, <3>2
  <2> QED BY <2>2, <2>3, FacingSets
<1> QED BY <1>1, <1>2, <1>3 DEF Within

LEMMA AngleWithin ==
  ASSUME NEW x \in Offset \ {0}, NEW y \in Offset \ {0}
  PROVE  Atan(Quotient(x, y)) \in Within /\ Quotient(-x, -y) = Quotient(x, y)
<1>1. x \in Int /\ y \in Int /\ Magnitude(x) \in Nat \ {0} /\ Magnitude(y) \in Nat
  BY RadiusAssumption DEF Offset, Magnitude
<1>2. Magnitude(-x) = Magnitude(x) /\ Magnitude(-y) = Magnitude(y)
  BY <1>1 DEF Magnitude
<1>3. Quotient(x, y) \in Nat
  <2> SUFFICES ASSUME NEW m \in Nat \ {0}, NEW n \in Nat
               PROVE  n \div m \in Nat
    BY <1>1 DEF Quotient
  <2> QED OBVIOUS
<1>4. \A q \in Nat : Atan(q) \in Within
  <2> SUFFICES ASSUME NEW q \in Nat
               PROVE  Atan(q) \in Within
    OBVIOUS
  <2>1. CASE q < 8
    <3>1. q = 0 \/ q = 1 \/ q = 2 \/ q = 3 \/ q = 4 \/ q = 5 \/ q = 6 \/ q = 7
      BY <2>1
    <3> QED BY <3>1 DEF Atan, Within
  <2>2. CASE ~(q < 8)
    <3>1. 1910 \div q \in 0..238
      BY <2>2
    <3> QED BY <2>2, <3>1 DEF Atan, Within
  <2> QED BY <2>1, <2>2
<1> QED BY <1>2, <1>3, <1>4 DEF Quotient

\* Off the centre the keys of a place face those of the opposite one.
LEMMA PlacesFace ==
  ASSUME NEW x \in Offset, NEW y \in Offset, x # 0 \/ y # 0
  PROVE  Facing(KeysAt(x, y), KeysAt(-x, -y))
<1>0. x \in Int /\ y \in Int
  BY RadiusAssumption DEF Offset
<1>1. CASE x = 0
  <2>0. -x = 0 /\ -y # 0 /\ y # 0 /\ (y > 0 => ~(-y > 0)) /\ (~(y > 0) => -y > 0)
    <3>1. x = 0 /\ y # 0
      BY <1>1
    <3>2. -x = 0
      <4>1. \A n \in Int : -n = 0 - n
        OBVIOUS
      <4>2. x = 0 /\ x \in Int
        BY <1>0, <3>1
      <4>3. -x = 0 - x
        BY <4>1, <4>2, Zenon
      <4> QED BY <4>2, <4>3
    <3>3. -y # 0 /\ (y > 0 => ~(-y > 0)) /\ (~(y > 0) => -y > 0)
      BY <1>0, <3>1
    <3> QED BY <3>1, <3>2, <3>3
  <2>1. KeysAt(x, y) = (IF y > 0 THEN {"S"} ELSE {"W"})
    BY <1>1, <2>0 DEF KeysAt
  <2>2. KeysAt(-x, -y) = (IF -y > 0 THEN {"S"} ELSE {"W"})
    BY <2>0 DEF KeysAt
  <2> QED BY <2>0, <2>1, <2>2, FacingSets
<1>2. CASE x # 0 /\ y = 0
  <2>0. -x # 0 /\ -y = 0 /\ (x > 0 => ~(-x > 0)) /\ (~(x > 0) => -x > 0)
    <3>1. -y = 0
      <4>1. \A n \in Int : -n = 0 - n
        OBVIOUS
      <4>2. -y = 0 - y
        BY <1>0, <4>1, Zenon
      <4> QED BY <1>2, <4>2
    <3>2. -x # 0 /\ (x > 0 => ~(-x > 0)) /\ (~(x > 0) => -x > 0)
      BY <1>0, <1>2
    <3> QED BY <3>1, <3>2
  <2>1. KeysAt(x, y) = (IF x > 0 THEN {"D"} ELSE {"A"})
    BY <1>2 DEF KeysAt
  <2>2. KeysAt(-x, -y) = (IF -x > 0 THEN {"D"} ELSE {"A"})
    BY <2>0 DEF KeysAt
  <2>3. Facing({"A"}, {"D"})
    BY FacingSets DEF Facing
  <2> QED BY <2>0, <2>1, <2>2, <2>3, FacingSets
<1>3. CASE x # 0 /\ y # 0
  <2> DEFINE a == Atan(Quotient(x, y))
  <2>1. a \in Within /\ Atan(Quotient(-x, -y)) = a
    BY <1>3, AngleWithin
  <2>2. KeysAt(x, y) = KeysOfHour(Angle(x, y)) /\ KeysAt(-x, -y) = KeysOfHour(Angle(-x, -y))
    BY <1>0, <1>3 DEF KeysAt
  <2>3. \/ Angle(x, y) = a /\ Angle(-x, -y) = 6000 + a
        \/ Angle(x, y) = 12000 - a /\ Angle(-x, -y) = 6000 - a
        \/ Angle(x, y) = 6000 + a /\ Angle(-x, -y) = a
        \/ Angle(x, y) = 6000 - a /\ Angle(-x, -y) = 12000 - a
    <3> HIDE DEF a
    <3>1. CASE x > 0 /\ y > 0
      <4>1. check(x, y) = 1 /\ check(-x, -y) = 3
        BY <1>0, <3>1 DEF check
      <4> QED BY <2>1, <4>1 DEF Angle, a
    <3>2. CASE x > 0 /\ y < 0
      <4>1. check(x, y) = 2 /\ check(-x, -y) = 4
        BY <1>0, <3>2 DEF check
      <4> QED BY <2>1, <4>1 DEF Angle, a
    <3>3. CASE x < 0 /\ y < 0
      <4>1. check(x, y) = 3 /\ check(-x, -y) = 1
        BY <1>0, <3>3 DEF check
      <4> QED BY <2>1, <4>1 DEF Angle, a
    <3>4. CASE x < 0 /\ y > 0
      <4>1. check(x, y) = 4 /\ check(-x, -y) = 2
        BY <1>0, <3>4 DEF check
      <4> QED BY <2>1, <4>1 DEF Angle, a
    <3> QED BY <1>0, <1>3, <3>1, <3>2, <3>3, <3>4
  <2>4. /\ Facing(KeysOfHour(a), KeysOfHour(6000 + a))
        /\ Facing(KeysOfHour(12000 - a), KeysOfHour(6000 - a))
    BY <2>1, QuadrantsFace
  <2>5. /\ Facing(KeysOfHour(6000 + a), KeysOfHour(a))
        /\ Facing(KeysOfHour(6000 - a), KeysOfHour(12000 - a))
    BY <2>4 DEF Facing
  <2> HIDE DEF a
  <2> QED BY <2>2, <2>3, <2>4, <2>5
<1> QED BY <1>1, <1>2, <1>3

(* Wherever the finger is on the pad, the opposite place has the opposite keys; off
   the centre some key is down, never two opposite ones (Templates.java:305-356). *)
THEOREM PadWalksStraight == PadSpec => []PadIsSymmetric
<1>1. PadInv => PadIsSymmetric
  <2> SUFFICES ASSUME PadInv PROVE PadIsSymmetric
    OBVIOUS
  <2>1. CASE place = <<>>
    <3>1. walking = {}
      BY <2>1 DEF PadInv, PressedFollowFinger
    <3> QED BY <2>1, <3>1 DEF PadIsSymmetric
  <2>2. ASSUME NEW x \in Offset, NEW y \in Offset, place = <<x, y>>
        PROVE  PadIsSymmetric
    <3>1. place # <<>> /\ place[1] = x /\ place[2] = y
      BY <2>2
    <3>2. walking = KeysAt(x, y)
      BY <3>1 DEF PadInv, PressedFollowFinger
    <3>3. CASE x = 0 /\ y = 0
      <4>1. KeysAt(0, 0) = {}
        BY DEF KeysAt
      <4>2. \A n \in Int : -n = 0 - n
        OBVIOUS
      <4>3. -x = 0 /\ -y = 0
        <5>1. -x = 0 - x /\ -y = 0 - y
          <6>1. x \in Int /\ y \in Int
            BY <3>3
          <6> QED BY <4>2, <6>1, Zenon
        <5> QED BY <3>3, <5>1
      <4> QED BY <2>2, <3>1, <3>2, <3>3, <4>1, <4>3 DEF PadIsSymmetric
    <3>4. CASE x # 0 \/ y # 0
      <4>1. Facing(KeysAt(x, y), KeysAt(-x, -y))
        BY <3>4, PlacesFace
      <4> QED BY <3>1, <3>2, <4>1 DEF Facing, PadIsSymmetric
    <3> QED BY <3>3, <3>4
  <2> QED BY <2>1, <2>2 DEF PadInv
<1> QED BY <1>1, PadInvHolds, PTL

-----------------------------------------------------------------------------
(* The repeating button.  QuietMeansReleased is about the time when no thread is
   left; what makes it true is that whoever says "press" stays alive until it has
   said "release", so that it is inductive with the types alone. *)
ButtonInv == ButtonTypeOK /\ StartsFreshThread /\ QuietMeansReleased

(* The invariant holds before the first touch. *)
LEMMA ButtonInitHolds == ButtonInit => ButtonInv
<1> SUFFICES ASSUME ButtonInit
             PROVE  ButtonInv
  OBVIOUS
<1>1. ButtonTypeOK
  <2>1. t \in Thread
    BY BoundAssumption DEF ButtonInit, Thread
  <2>2. thread \in [Thread -> {"new", "test", "press", "sleep", "release", "done"}]
    BY DEF ButtonInit
  <2>3. \A i \in Thread : i > t => thread[i] = "new"
    BY DEF ButtonInit
  <2>4. QED
    BY <2>1, <2>2, <2>3 DEF ButtonInit, ButtonTypeOK
<1>2. StartsFreshThread
  BY BoundAssumption DEF ButtonInit, StartsFreshThread, Thread
<1>3. QuietMeansReleased
  BY DEF ButtonInit, QuietMeansReleased
<1>4. QED
  BY <1>1, <1>2, <1>3 DEF ButtonInv

(* Every step of the listener and of the threads keeps the invariant. *)
LEMMA ButtonNextKeeps == ButtonInv /\ [ButtonNext]_buttonVars => ButtonInv'
<1> SUFFICES ASSUME ButtonInv, [ButtonNext]_buttonVars
             PROVE  ButtonInv'
  OBVIOUS
<1> USE BoundAssumption DEF ButtonInv, ButtonTypeOK, StartsFreshThread, QuietMeansReleased, Thread, Live
<1>1. CASE ActionDown
  BY <1>1 DEF ActionDown
<1>2. CASE SetRunning
  BY <1>2 DEF SetRunning
<1>3. CASE ActionUp
  <2>1. t' \in Thread /\ thread' = thread /\ lastSent' = lastSent
    BY <1>3 DEF ActionUp
  <2>2. ButtonTypeOK'
    <3>1. \A i \in Thread : i > t' => i > t
      BY <1>3 DEF ActionUp
    <3>2. \A i \in Thread : i > t' => thread'[i] = "new"
      BY <2>1, <3>1
    <3>3. QED
      BY <1>3, <2>1, <3>2 DEF ActionUp
  <2>3. StartsFreshThread'
    BY <1>3, <2>1 DEF ActionUp
  <2>4. QuietMeansReleased'
    BY <2>1
  <2>5. QED
    BY <2>2, <2>3, <2>4
<1>4. CASE ActionCancel
  BY <1>4 DEF ActionCancel
<1>5. ASSUME NEW i \in Thread, Test(i)
      PROVE  ButtonInv'
  BY <1>5 DEF Test
<1>6. ASSUME NEW i \in Thread, Press(i)
      PROVE  ButtonInv'
  BY <1>6 DEF Press
<1>7. ASSUME NEW i \in Thread, Wake(i)
      PROVE  ButtonInv'
  BY <1>7 DEF Wake
<1>8. ASSUME NEW i \in Thread, Release(i)
      PROVE  ButtonInv'
  BY <1>8 DEF Release
<1>9. CASE UNCHANGED buttonVars
  BY <1>9 DEF buttonVars
<1>10. QED
  BY <1>1, <1>2, <1>3, <1>4, <1>5, <1>6, <1>7, <1>8, <1>9 DEF ButtonNext, Listener, run

LEMMA ButtonInvHolds == ButtonSpec => []ButtonInv
  BY ButtonInitHolds, ButtonNextKeeps, PTL DEF ButtonSpec

(* The variables keep their types, and threads not yet made do not run. *)
THEOREM ButtonTypeCorrect == ButtonSpec => []ButtonTypeOK
<1>1. ButtonInv => ButtonTypeOK
  BY DEF ButtonInv
<1>2. QED
  BY <1>1, ButtonInvHolds, PTL

(* Thread.start() is called at most once on each Thread (Templates.java:155),
   however fast the player is. *)
THEOREM NeverStartedTwice == ButtonSpec => []StartsFreshThread
<1>1. ButtonInv => StartsFreshThread
  BY DEF ButtonInv
<1>2. QED
  BY <1>1, ButtonInvHolds, PTL

(* When no thread of the button is left, the last command was no press
   (MyButton.java:203-215). *)
THEOREM LastWordIsRelease == ButtonSpec => []QuietMeansReleased
<1>1. ButtonInv => QuietMeansReleased
  BY DEF ButtonInv
<1>2. QED
  BY <1>1, ButtonInvHolds, PTL
=============================================================================
