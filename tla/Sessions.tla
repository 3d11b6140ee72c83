------------------------------ MODULE Sessions ------------------------------
(***************************************************************************)
(* What the server's main loop relies on (main.cpp:64-76): clients are     *)
(* served one at a time, by two workers each of which leaves once; the     *)
(* session ends after both have left.  "free" tells main that it may wait  *)
(* for the next client: it is set with the last leave or, when that one's  *)
(* increment is lost, never.                                               *)
(***************************************************************************)
EXTENDS Naturals

VARIABLES
  phase,      \* "waiting", "serving" or, after a fetch from the empty queue, "crashed"
  workers,    \* threads that serve the client
  free        \* does main believe that it may take a client?

vars == <<phase, workers, free>>

Init == phase = "waiting" /\ workers = 0 /\ free = TRUE

Begin ==
  /\ phase = "waiting" /\ free
  /\ phase' = "serving" /\ workers' = 2 /\ free' = FALSE

Leave ==
  /\ phase = "serving" /\ workers > 0
  /\ workers' = workers - 1
  /\ free' \in BOOLEAN /\ (free' => workers' = 0)
  /\ UNCHANGED phase

End ==
  /\ phase = "serving" /\ workers = 0
  /\ phase' = "waiting"
  /\ UNCHANGED <<workers, free>>

Crash ==
  /\ phase = "serving" /\ workers > 0
  /\ phase' = "crashed"
  /\ UNCHANGED <<workers, free>>

Next == Begin \/ Leave \/ End \/ Crash
Spec == Init /\ [][Next]_vars
=============================================================================
