----------------------------- MODULE Activities -----------------------------
(***************************************************************************)
(* How the template activities learn that the connection is over.          *)
(*                                                                         *)
(* Above StartActivity lie TemplateChooseOptions, ChooseTemplate and       *)
(* Templates, in this order.  Whenever one of them comes to the front, its *)
(* onResume asks isErrStatus (and finishes), and then adds itself to the   *)
(* listeners of ClientLogic.  The threads DispatchMessage and SendMessage, *)
(* when they meet an error, call onError, which iterates over the          *)
(* listeners unless hadError is set, and then set errStatus.  The list is  *)
(* a plain ArrayList: its iterator throws when the list has grown.         *)
(***************************************************************************)
EXTENDS Naturals, SequencesExt

CONSTANT MaxOpens   \* bound: times an activity is opened over another

ASSUME BoundAssumption == MaxOpens \in Nat

Activity == 1..MaxOpens + 1   \* every activity ever opened, in order
Reporter == {"DM", "SM"}

VARIABLES
  stack,      \* the open activities, the one in front last
  ui,         \* the UI thread: "idle", or within onResume "check", "add"
  finishing,  \* the activities on which finish() was called
  listeners,  \* ClientLogic.listeners
  hadError, errStatus,
  reporter,   \* where each reporting thread is
  next,       \* its iterator's next index
  expected,   \* the length its iterator was made for
  inTry,      \* is it inside its try block?
  crashed,    \* has an exception left a thread?
  missed,     \* an onResume asked before errStatus was set and added too late
  opens

screensVars == <<stack, ui, finishing, listeners, hadError, errStatus, reporter, next,
                expected, inTry, crashed, missed, opens>>

(* The first activity was opened by the login and is resuming. *)
ScreensInit ==
  /\ stack = <<1>> /\ ui = "check" /\ finishing = {}
  /\ listeners = <<>> /\ hadError = FALSE /\ errStatus = FALSE
  /\ reporter = [r \in Reporter |-> "run"]
  /\ next = [r \in Reporter |-> 0] /\ expected = [r \in Reporter |-> 0]
  /\ inTry = [r \in Reporter |-> FALSE]
  /\ crashed = FALSE /\ missed = FALSE /\ opens = 0

reporters == <<hadError, errStatus, reporter, next, expected, inTry, crashed>>

-----------------------------------------------------------------------------
(* The UI thread *)

(* onResume: if(CL.isErrStatus()) finish(); *)
ResumeCheck ==
  /\ ~crashed
  /\ ui = "check"
  /\ finishing' = IF errStatus THEN finishing \cup {Last(stack)} ELSE finishing
  /\ ui' = "add"
  /\ UNCHANGED <<stack, listeners, reporters, missed, opens>>

(* Mutant of ResumeAdd: only the first activity adds itself. *)
ResumeAddFirst ==
  /\ ~crashed /\ ui = "add"
  /\ listeners' = IF listeners = <<>> THEN <<Last(stack)>> ELSE listeners
  /\ ui' = "idle"
  /\ UNCHANGED <<stack, finishing, reporters, missed, opens>>

(* onResume: CL.addErrorListener(this); *)
ResumeAdd ==
  /\ ~crashed
  /\ ui = "add"
  /\ listeners' = Append(listeners, Last(stack))
  /\ ui' = "idle"
  /\ missed' = (missed \/ (Last(stack) \notin finishing
                             /\ \E r \in Reporter : reporter[r] \notin {"run", "onError"}))
  /\ UNCHANGED <<stack, finishing, reporters, opens>>

(* The player opens the next activity. *)
Open ==
  /\ ~crashed
  /\ ui = "idle"
  /\ Len(stack) \in 1..2 /\ Last(stack) \notin finishing
  /\ opens < MaxOpens
  /\ stack' = Append(stack, opens + 2)
  /\ opens' = opens + 1
  /\ ui' = "check"
  /\ UNCHANGED <<finishing, listeners, reporters, missed>>

(* The activity in front goes; the one below it, unless that is StartActivity,
   resumes. *)
Close ==
  /\ ~crashed
  /\ ui = "idle"
  /\ stack # <<>>
  /\ stack' = Front(stack)
  /\ ui' = IF Len(stack) > 1 THEN "check" ELSE "idle"
  /\ UNCHANGED <<finishing, listeners, reporters, missed, opens>>

(* It was finished, or the player leaves it.  (Leaving the last one is the
   logout, module ClientLogic.) *)
Finished == stack # <<>> /\ Last(stack) \in finishing /\ Close
Back == Len(stack) > 1 /\ Last(stack) \notin finishing /\ Close

-----------------------------------------------------------------------------
(* The two reporting threads *)

screen == <<stack, ui, listeners, missed, opens>>

(* An error: inside the try block (processMassage, a null message), or in the
   catch block or branch that follows an exception. *)
Fail(r) ==
  /\ ~crashed
  /\ reporter[r] = "run"
  /\ reporter' = [reporter EXCEPT ![r] = "onError"]
  /\ \E b \in BOOLEAN : inTry' = [inTry EXCEPT ![r] = b]
  /\ UNCHANGED <<screen, finishing, hadError, errStatus, next, expected, crashed>>

OnErrorTest(r) ==
  /\ ~crashed
  /\ reporter[r] = "onError"
  /\ reporter' = [reporter EXCEPT ![r] = IF hadError THEN "had" ELSE "iterate"]
  /\ next' = [next EXCEPT ![r] = 1]
  /\ expected' = [expected EXCEPT ![r] = Len(listeners)]
  /\ UNCHANGED <<screen, finishing, hadError, errStatus, inTry, crashed>>

(* Mutant of Notify: only the first listener is told. *)
NotifyFirst(r) ==
  /\ ~crashed /\ reporter[r] = "iterate"
  /\ Len(listeners) = expected[r] /\ next[r] <= expected[r]
  /\ finishing' = finishing \cup {listeners[1]}
  /\ next' = [next EXCEPT ![r] = Len(listeners) + 1]
  /\ UNCHANGED <<screen, hadError, errStatus, reporter, expected, inTry, crashed>>

(* it.next().onErrStatusChange(); of an activity that is gone it does nothing. *)
Notify(r) ==
  /\ ~crashed
  /\ reporter[r] = "iterate"
  /\ Len(listeners) = expected[r] /\ next[r] <= expected[r]
  /\ finishing' = finishing \cup {listeners[next[r]]}
  /\ next' = [next EXCEPT ![r] = @ + 1]
  /\ UNCHANGED <<screen, hadError, errStatus, reporter, expected, inTry, crashed>>

(* it.next() throws: a try block catches it and calls onError again, elsewhere
   the exception ends the application. *)
NotifyThrows(r) ==
  /\ ~crashed
  /\ reporter[r] = "iterate"
  /\ Len(listeners) # expected[r] /\ next[r] <= expected[r]
  /\ IF inTry[r]
       THEN /\ reporter' = [reporter EXCEPT ![r] = "onError"]
            /\ inTry' = [inTry EXCEPT ![r] = FALSE]
            /\ UNCHANGED crashed
       ELSE crashed' = TRUE /\ UNCHANGED <<reporter, inTry>>
  /\ UNCHANGED <<screen, finishing, hadError, errStatus, next, expected>>

(* hasNext is false, or there was nothing to do: hadError = true. *)
OnErrorEnd(r) ==
  /\ ~crashed
  /\ \/ reporter[r] = "iterate" /\ next[r] > expected[r]
     \/ reporter[r] = "had"
  /\ hadError' = TRUE
  /\ reporter' = [reporter EXCEPT ![r] = "setErr"]
  /\ UNCHANGED <<screen, finishing, errStatus, next, expected, inTry, crashed>>

SetErr(r) ==
  /\ ~crashed
  /\ reporter[r] = "setErr"
  /\ errStatus' = TRUE
  /\ reporter' = [reporter EXCEPT ![r] = "done"]
  /\ UNCHANGED <<screen, finishing, hadError, next, expected, inTry, crashed>>

-----------------------------------------------------------------------------
Resume == ResumeCheck \/ ResumeAdd
onError(r) == OnErrorTest(r) \/ Notify(r) \/ NotifyThrows(r) \/ OnErrorEnd(r) \/ SetErr(r)

ScreensNext == Resume \/ Open \/ Finished \/ Back \/ \E r \in Reporter : Fail(r) \/ onError(r)

ScreensSpec == ScreensInit /\ [][ScreensNext]_screensVars

(* The UI thread and the reporting threads run; the player and the errors come
   when they like. *)
FairScreensSpec ==
  /\ ScreensSpec
  /\ WF_screensVars(Resume) /\ WF_screensVars(Finished)
  /\ \A r \in Reporter : WF_screensVars(onError(r))

-----------------------------------------------------------------------------
ScreensTypeOK ==
  /\ stack \in Seq(Activity) /\ Len(stack) <= 3
  /\ ui \in {"idle", "check", "add"}
  /\ ui # "idle" => stack # <<>>
  /\ finishing \subseteq Activity
  /\ listeners \in Seq(Activity)
  /\ hadError \in BOOLEAN /\ errStatus \in BOOLEAN
  /\ reporter \in [Reporter -> {"run", "onError", "iterate", "had", "setErr", "done"}]
  /\ next \in [Reporter -> Nat] /\ expected \in [Reporter -> Nat]
  /\ inTry \in [Reporter -> BOOLEAN]
  /\ crashed \in BOOLEAN /\ missed \in BOOLEAN
  /\ opens \in 0..MaxOpens

(* Every open activity can be told of an error, also one that lies beneath
   others: it is among the listeners, or its onResume is on its way. *)
OpenListens ==
  \A i \in DOMAIN stack :
    (i < Len(stack) \/ ui = "idle") => Contains(listeners, stack[i])

(* Once an error is reported every activity closes, those that lie beneath
   others too, unless an onResume asked too early and added itself too late. *)
ErrorClosesAll == errStatus ~> (stack = <<>> \/ missed \/ crashed)
=============================================================================
