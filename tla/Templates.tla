------------------------------ MODULE Templates ------------------------------
(***************************************************************************)
(* The touch listeners of a template for its mouse buttons (action type 2, *)
(* Templates.java:201-251), its keys that also move the mouse (type 4,     *)
(* 396-438) and its sight pads (type 1, 168-200).  Android calls them on   *)
(* the UI thread, one event at a time, but the fingers on different        *)
(* buttons take turns as they like.                                        *)
(*                                                                         *)
(* A position is the pair of coordinates within the button; a negative one *)
(* is beyond its left or upper edge.  The listeners compare X only, twice. *)
(***************************************************************************)
EXTENDS Integers

CONSTANTS MouseButtons, KeyButtons, SightPads,  \* the template's buttons
          Xs, Ys                                \* coordinates of a touch

Button == MouseButtons \cup KeyButtons \cup SightPads
Nobody == "nobody"
Unset == -1

ASSUME ButtonAssumption ==
  /\ MouseButtons \cap (KeyButtons \cup SightPads) = {}
  /\ KeyButtons \cap SightPads = {}
  /\ Nobody \notin Button
ASSUME PositionAssumption == Xs \subseteq Int /\ Ys \subseteq Int

VARIABLES
  isUsingMouse,       \* the mouse button whose finger moves the mouse, or Nobody
  running,            \* MyButton.running, per button
  XMotion, YMotion,   \* where the finger was at the last ACTION_MOVE, or Unset
  touched,            \* the buttons a finger is on
  pressed,            \* the keys and mouse buttons down at the server's end
  lastMove,           \* per button, the position of this touch's last move, if any
  moved,              \* the displacement the last event sent, <<>> if none
  cancelled           \* buttons nobody has moved on or let go since an ACTION_CANCEL

vars == <<isUsingMouse, running, XMotion, YMotion, touched, pressed, lastMove, moved,
          cancelled>>

Init ==
  /\ isUsingMouse = Nobody
  /\ running = [b \in Button |-> FALSE]
  /\ XMotion = [b \in Button |-> Unset] /\ YMotion = [b \in Button |-> Unset]
  /\ touched = {} /\ pressed = {}
  /\ lastMove = [b \in Button |-> <<>>]
  /\ moved = <<>> /\ cancelled = {}

-----------------------------------------------------------------------------
(* What the branches share. *)

SendPress(b) == pressed' = pressed \cup {b}
SendRelease(b) == pressed' = pressed \ {b}

ForgetMotion(b) ==
  /\ XMotion' = [XMotion EXCEPT ![b] = Unset]
  /\ YMotion' = [YMotion EXCEPT ![b] = Unset]

Far(d) == d > 2 \/ d < -2

(* ACTION_MOVE within the button: the displacement since the last one is sent
   when there was one and it is large enough, and the position is kept. *)
Displace(b, x, y) ==
  /\ moved' = IF XMotion[b] # Unset /\ (Far(x - XMotion[b]) \/ Far(y - YMotion[b]))
                THEN <<x - XMotion[b], y - YMotion[b]>> ELSE <<>>
  /\ XMotion' = [XMotion EXCEPT ![b] = x]
  /\ YMotion' = [YMotion EXCEPT ![b] = y]
  /\ lastMove' = [lastMove EXCEPT ![b] = <<x, y>>]
  /\ cancelled' = cancelled \ {b}

-----------------------------------------------------------------------------
(* Type 2. *)

MouseDown(b) ==
  /\ b \in MouseButtons \ touched
  /\ touched' = touched \cup {b}
  /\ IF running[b]
       THEN UNCHANGED <<pressed, running, isUsingMouse>>
       ELSE /\ SendPress(b)
            /\ running' = [running EXCEPT ![b] = TRUE]
            /\ isUsingMouse' = IF isUsingMouse = Nobody THEN b ELSE isUsingMouse
  /\ moved' = <<>>
  /\ UNCHANGED <<XMotion, YMotion, lastMove, cancelled>>

(* Mutant of LetGo: the last position is kept for the next touch. *)
LetGoKeepsMotion(b) ==
  /\ running' = [running EXCEPT ![b] = FALSE]
  /\ SendRelease(b)
  /\ moved' = <<>>
  /\ cancelled' = cancelled \ {b}
  /\ UNCHANGED <<XMotion, YMotion>>

(* ACTION_UP and an ACTION_MOVE that leaves the button have this in common. *)
LetGo(b) ==
  /\ running' = [running EXCEPT ![b] = FALSE]
  /\ SendRelease(b)
  /\ ForgetMotion(b)
  /\ moved' = <<>>
  /\ cancelled' = cancelled \ {b}

(* Mutant of GiveUpMouse: only the other buttons' mouse is given up. *)
GiveUpMouseOfOthers(b) == isUsingMouse' = IF isUsingMouse # b THEN Nobody ELSE isUsingMouse

GiveUpMouse(b) == isUsingMouse' = IF isUsingMouse = b THEN Nobody ELSE isUsingMouse

MouseUp(b) ==
  /\ b \in MouseButtons \cap touched
  /\ touched' = touched \ {b}
  /\ lastMove' = [lastMove EXCEPT ![b] = <<>>]
  /\ LetGo(b)
  /\ GiveUpMouse(b)

MouseMove(b, x, y) ==
  /\ b \in MouseButtons \cap touched
  /\ isUsingMouse = b
  /\ IF x >= 0
       THEN Displace(b, x, y) /\ UNCHANGED <<running, pressed, isUsingMouse>>
       ELSE LetGo(b) /\ GiveUpMouse(b) /\ lastMove' = [lastMove EXCEPT ![b] = <<>>]
  /\ UNCHANGED touched

-----------------------------------------------------------------------------
(* Type 4: every key moves the mouse, whoever is using it. *)

KeyDown(b) ==
  /\ b \in KeyButtons \ touched
  /\ touched' = touched \cup {b}
  /\ IF running[b]
       THEN UNCHANGED <<pressed, running>>
       ELSE SendPress(b) /\ running' = [running EXCEPT ![b] = TRUE]
  /\ moved' = <<>>
  /\ UNCHANGED <<isUsingMouse, XMotion, YMotion, lastMove, cancelled>>

(* Mutant of KeyUp: the key is let go only by sliding off it. *)
KeyUpHolds(b) ==
  /\ b \in KeyButtons \cap touched
  /\ touched' = touched \ {b}
  /\ lastMove' = [lastMove EXCEPT ![b] = <<>>]
  /\ ForgetMotion(b) /\ moved' = <<>>
  /\ cancelled' = cancelled \ {b}
  /\ UNCHANGED <<running, pressed, isUsingMouse>>

KeyUp(b) ==
  /\ b \in KeyButtons \cap touched
  /\ touched' = touched \ {b}
  /\ lastMove' = [lastMove EXCEPT ![b] = <<>>]
  /\ LetGo(b)
  /\ UNCHANGED isUsingMouse

KeyMove(b, x, y) ==
  /\ b \in KeyButtons \cap touched
  /\ IF x >= 0
       THEN Displace(b, x, y) /\ UNCHANGED <<running, pressed>>
       ELSE LetGo(b) /\ lastMove' = [lastMove EXCEPT ![b] = <<>>]
  /\ UNCHANGED <<touched, isUsingMouse>>

-----------------------------------------------------------------------------
(* Type 1: the position of the last lift is added to that of the finger. *)

SightDown(b) ==
  /\ b \in SightPads \ touched
  /\ touched' = touched \cup {b}
  /\ moved' = <<>>
  /\ UNCHANGED <<isUsingMouse, running, XMotion, YMotion, pressed, lastMove, cancelled>>

SightMove(b, x, y) ==
  /\ b \in SightPads \cap touched
  /\ IF x >= 0
       THEN /\ moved' = IF XMotion[b] # Unset /\ YMotion[b] # Unset
                          THEN <<x + XMotion[b], y + YMotion[b]>> ELSE <<>>
            /\ UNCHANGED <<XMotion, YMotion>>
       ELSE ForgetMotion(b) /\ moved' = <<>>
  /\ UNCHANGED <<isUsingMouse, running, touched, pressed, lastMove, cancelled>>

SightUp(b, x, y) ==
  /\ b \in SightPads \cap touched
  /\ touched' = touched \ {b}
  /\ XMotion' = [XMotion EXCEPT ![b] = x]
  /\ YMotion' = [YMotion EXCEPT ![b] = y]
  /\ moved' = <<>>
  /\ UNCHANGED <<isUsingMouse, running, pressed, lastMove, cancelled>>

-----------------------------------------------------------------------------
(* No listener looks at ACTION_CANCEL. *)
Cancel(b) ==
  /\ b \in touched
  /\ cancelled' = IF b \in SightPads THEN cancelled ELSE cancelled \cup {b}
  /\ touched' = touched \ {b}
  /\ moved' = <<>>
  /\ lastMove' = [lastMove EXCEPT ![b] = <<>>]
  /\ UNCHANGED <<isUsingMouse, running, XMotion, YMotion, pressed>>

Move(b) ==
  \E x \in Xs, y \in Ys :
    MouseMove(b, x, y) \/ KeyMove(b, x, y) \/ SightMove(b, x, y) \/ SightUp(b, x, y)

Next ==
  \E b \in Button :
    \/ MouseDown(b) \/ MouseUp(b) \/ KeyDown(b) \/ KeyUp(b) \/ SightDown(b)
    \/ Move(b) \/ Cancel(b)

Spec == Init /\ [][Next]_vars

-----------------------------------------------------------------------------
TypeOK ==
  /\ isUsingMouse \in MouseButtons \cup {Nobody}
  /\ running \in [Button -> BOOLEAN]
  /\ XMotion \in [Button -> Xs \cup {Unset}] /\ YMotion \in [Button -> Ys \cup {Unset}]
  /\ touched \subseteq Button
  /\ pressed \subseteq MouseButtons \cup KeyButtons
  /\ lastMove \in [Button -> {<<>>} \cup (Xs \X Ys)]
  /\ moved \in {<<>>} \cup (Int \X Int)
  /\ cancelled \subseteq MouseButtons \cup KeyButtons

(* running is what was last sent: a button is down at the server exactly as
   long as its flag is set, through slides off the button and cancelled touches. *)
RunningIsPressed == pressed = {b \in Button : running[b]}

(* The mouse belongs to nobody or to a button that is held down, so one that
   was let go never keeps the others from moving it. *)
MouseBelongsToHeld == isUsingMouse # Nobody => running[isUsingMouse]

(* No button stays down when no finger is on it, but for those whose last touch
   Android cancelled; the next lift of a finger releases these as well. *)
UntouchedIsReleased == pressed \ cancelled \subseteq touched

(* The position a displacement is measured from was reached in this very touch:
   the mouse does not jump when the finger comes back somewhere else (except once
   after an ACTION_CANCEL). *)
NoJump ==
  \A b \in (MouseButtons \cup KeyButtons) \ cancelled :
    XMotion[b] # Unset => lastMove[b] = <<XMotion[b], YMotion[b]>>
=============================================================================
