----------------------------- MODULE TemplatesMC -----------------------------
(* A template with every kind of button.  The listeners of the pad and of a key
   that repeats share no variable with the others, so that their steps need not
   be interleaved: the bounds are that the pad is used while every other button
   is at rest, and that a player uses either the key that repeats or the rest.

   Beyond the left edge, at it, near it, and far enough to be sent; the same
   above the upper edge, which no listener tests. *)
EXTENDS Templates, Pad, MyButton

SomeXs == {-3, 0, 4}
SomeYs == {-4, 1}

VARIABLE repeats        \* the player uses the key that repeats

OthersAtRest ==
  /\ touched = {} /\ pressed = {} /\ cancelled = {}
  /\ XMotion = [b \in Button |-> Unset] /\ moved = <<>>

TemplateInit == Init /\ PadInit /\ ButtonInit /\ repeats \in BOOLEAN
TemplateNext ==
  /\ \/ ~repeats /\ place = <<>> /\ Next /\ UNCHANGED <<padVars, buttonVars>>
     \/ ~repeats /\ OthersAtRest /\ PadNext /\ UNCHANGED <<vars, buttonVars>>
     \/ repeats /\ ButtonNext /\ UNCHANGED <<vars, padVars>>
  /\ UNCHANGED repeats
TemplateSpec == TemplateInit /\ [][TemplateNext]_<<vars, padVars, buttonVars, repeats>> /\ ButtonFairness
=============================================================================
