------------------------------ MODULE MyButton ------------------------------
(***************************************************************************)
(* One template button of action type 0 (Templates.java:148-167): touching *)
(* it starts a thread that sends "press the key" again and again while     *)
(* isRunning holds, and "release" when it finds it cleared (MyButton.run). *)
(* The listener clears it and makes the next thread at once, without       *)
(* waiting for the old one, which may sleep for sleepTime.                 *)
(***************************************************************************)
EXTENDS Naturals, FiniteSets

CONSTANT MaxTouches     \* bound: times the finger is lifted

ASSUME BoundAssumption == MaxTouches \in Nat

Thread == 0..MaxTouches

VARIABLES
  finger,     \* "up" or "down"
  ui,         \* the listener: "idle", or "started" between start() and setRunning(true)
  isRunning,
  t,          \* the thread of getT()
  thread,     \* what each thread does
  lastSent    \* the last command about this key: "none", "press" or "release"

buttonVars == <<finger, ui, isRunning, t, thread, lastSent>>

ButtonInit ==
  /\ finger = "up" /\ ui = "idle" /\ isRunning = FALSE
  /\ t = 0
  /\ thread = [i \in Thread |-> "new"]
  /\ lastSent = "none"

-----------------------------------------------------------------------------
(* The touch listener, on the UI thread. *)

(* ACTION_DOWN: start() and only then setRunning(true). *)
ActionDown ==
  /\ finger = "up" /\ ui = "idle"
  /\ finger' = "down"
  /\ IF isRunning
       THEN UNCHANGED <<ui, thread>>
       ELSE /\ ui' = "started"
            /\ thread' = [thread EXCEPT ![t] = "test"]
  /\ UNCHANGED <<isRunning, t, lastSent>>

SetRunning ==
  /\ ui = "started"
  /\ isRunning' = TRUE
  /\ ui' = "idle"
  /\ UNCHANGED <<finger, t, thread, lastSent>>

(* Mutant of ActionUp: the old thread object is kept. *)
ActionUpKeepsThread ==
  /\ finger = "down" /\ ui = "idle"
  /\ finger' = "up"
  /\ isRunning' = FALSE
  /\ UNCHANGED <<ui, t, thread, lastSent>>

(* ACTION_UP: setRunning(false) and a new thread for the next touch. *)
ActionUp ==
  /\ finger = "down" /\ ui = "idle"
  /\ t < MaxTouches
  /\ finger' = "up"
  /\ isRunning' = FALSE
  /\ t' = t + 1
  /\ UNCHANGED <<ui, thread, lastSent>>

(* ACTION_CANCEL, which the listener does not look at. *)
ActionCancel ==
  /\ finger = "down" /\ ui = "idle"
  /\ finger' = "up"
  /\ UNCHANGED <<ui, isRunning, t, thread, lastSent>>

-----------------------------------------------------------------------------
(* MyButton.run *)

(* Mutant of Test: the thread that finds it cleared just ends. *)
TestJustEnds(i) ==
  /\ thread[i] = "test"
  /\ thread' = [thread EXCEPT ![i] = IF isRunning THEN "press" ELSE "done"]
  /\ UNCHANGED <<finger, ui, isRunning, t, lastSent>>

Test(i) ==
  /\ thread[i] = "test"
  /\ thread' = [thread EXCEPT ![i] = IF isRunning THEN "press" ELSE "release"]
  /\ UNCHANGED <<finger, ui, isRunning, t, lastSent>>

Press(i) ==
  /\ thread[i] = "press"
  /\ lastSent' = "press"
  /\ thread' = [thread EXCEPT ![i] = "sleep"]
  /\ UNCHANGED <<finger, ui, isRunning, t>>

(* Mutant of Wake: a thread that wakes up after it was cleared returns. *)
WakeReturns(i) ==
  /\ thread[i] = "sleep"
  /\ thread' = [thread EXCEPT ![i] = IF isRunning THEN "test" ELSE "done"]
  /\ UNCHANGED <<finger, ui, isRunning, t, lastSent>>

Wake(i) ==
  /\ thread[i] = "sleep"
  /\ thread' = [thread EXCEPT ![i] = "test"]
  /\ UNCHANGED <<finger, ui, isRunning, t, lastSent>>

Release(i) ==
  /\ thread[i] = "release"
  /\ lastSent' = "release"
  /\ thread' = [thread EXCEPT ![i] = "done"]
  /\ UNCHANGED <<finger, ui, isRunning, t>>

-----------------------------------------------------------------------------
run(i) == Test(i) \/ Press(i) \/ Wake(i) \/ Release(i)
Listener == ActionDown \/ ActionUp \/ ActionCancel

ButtonNext == Listener \/ SetRunning \/ \E i \in Thread : run(i)

ButtonSpec == ButtonInit /\ [][ButtonNext]_buttonVars

(* Threads are scheduled and the listener finishes; the finger does as it likes. *)
ButtonFairness == WF_buttonVars(SetRunning) /\ \A i \in Thread : WF_buttonVars(run(i))
FairButtonSpec == ButtonSpec /\ ButtonFairness

-----------------------------------------------------------------------------
ButtonTypeOK ==
  /\ finger \in {"up", "down"}
  /\ ui \in {"idle", "started"}
  /\ isRunning \in BOOLEAN
  /\ t \in Thread
  /\ thread \in [Thread -> {"new", "test", "press", "sleep", "release", "done"}]
  /\ \A i \in Thread : i > t => thread[i] = "new"
  /\ lastSent \in {"none", "press", "release"}

Live == {i \in Thread : thread[i] \notin {"new", "done"}}

(* start() is called once per Thread object (it throws the second time): a
   listener that finds it cleared holds a thread that never ran. *)
StartsFreshThread == ui = "idle" /\ ~isRunning => thread[t] = "new"

(* However many threads a quick player has left behind, the last word of them
   all is a release: the key is not left pressed. *)
QuietMeansReleased == Live = {} => lastSent # "press"

(* A key whose running flag stays cleared is released for good, whichever of
   the threads were asleep when it was cleared. *)
ClearedKeyIsReleased == <>[](~isRunning /\ ui = "idle") => <>[](Live = {} /\ lastSent # "press")
=============================================================================
