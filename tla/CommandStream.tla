---------------------------- MODULE CommandStream ----------------------------
(***************************************************************************)
(* From the commands the phone writes to the keyboard and mouse events the *)
(* server injects: TCP carries a stream of characters, dispatchMessage     *)
(* hands over whatever one recv returned, and the do-while of              *)
(* ProcessingMessages takes commands off that text.                        *)
(*                                                                         *)
(* A text is a sequence of tokens: Bar, Space, or a number (any other      *)
(* integer).  The queue between the two server threads keeps order (module *)
(* ServerLogic), so a recv and the fetch of what it returned are one step. *)
(***************************************************************************)
EXTENDS Integers, SequencesExt

CONSTANTS Keys,         \* scan codes the templates use
          Buttons,      \* mouse buttons, some of 0..2
          Moves,        \* pairs <<dx, dy>>
          MaxCommands,  \* bound: commands one phone writes
          Fragments     \* may one recv end in the middle of a command?

Bar == -1001
Space == -1002

Numbers == Int \ {Bar, Space}

(* What is written as a number is not a bar or a space; a mouse has three buttons. *)
ASSUME TokensAssumption ==
  /\ Keys \subseteq Numbers
  /\ Buttons \subseteq 0..2
  /\ Moves \subseteq Numbers \X Numbers

VARIABLES commands,   \* what the phone has written, command by command
          phone,      \* "plays", "loggedOut" (wrote 2), "gone" (closed its socket)
          wire,       \* written and not yet received
          msg,        \* ProcessingMessages' text
          thread,     \* "fetch", "parse", "left", or "refused" (left with code 201)
          events,     \* what SendInput was called with
          whole       \* has every recv so far ended between two commands?

vars == <<commands, phone, wire, msg, thread, events, whole>>

-----------------------------------------------------------------------------
(* What the phone writes: Templates.java and MyButton.java. *)

Command ==
  [device : {"key"}, code : Keys, up : BOOLEAN]
    \cup [device : {"button"}, code : Buttons, up : BOOLEAN]
    \cup {[device |-> "mouse", dx |-> d[1], dy |-> d[2]] : d \in Moves}

Text(c) ==
  CASE c.device = "key" -> <<10, Bar, IF c.up THEN 1 ELSE 0, Space, c.code, Bar>>
    [] c.device = "button" -> <<11, Bar, IF c.up THEN c.code + 3 ELSE c.code, Bar>>
    [] c.device = "mouse" -> <<12, Bar, c.dx, Space, c.dy, Bar>>

-----------------------------------------------------------------------------
(* What the server injects: KeyboardAction.cpp and MouseAction.cpp. *)

pressKey(key) == <<"key", key, "down">>
releaseKey(key) == <<"key", key, "up">>

MouseEvent(code) ==
  CASE code = 0 -> <<"left", "down">>   [] code = 3 -> <<"left", "up">>
    [] code = 1 -> <<"right", "down">>  [] code = 4 -> <<"right", "up">>
    [] code = 2 -> <<"middle", "down">> [] code = 5 -> <<"middle", "up">>

(* Caps Lock, Num Lock, Pause and Scroll Lock are pressed again before they
   are released. *)
ToggleKeys == {58, 69, 197, 70}

KeyEvents(action, key) ==
  IF action # 0
    THEN (IF key \in ToggleKeys THEN <<pressKey(key)>> ELSE <<>>) \o <<releaseKey(key)>>
    ELSE <<pressKey(key)>>

-----------------------------------------------------------------------------
(* std::string and std::stoi over msg; a position stands for the text that
   is left when everything before it has been erased. *)

First(i, Test(_)) == SelectInSubSeq(msg, i, Len(msg), Test)

(* erase(0, find_first_of(c) + 1); nothing is erased when c does not occur. *)
Past(i, c) ==
  LET at == First(i, LAMBDA token : token = c)
  IN  IF at = 0 THEN i ELSE at + 1

(* stoi skips spaces; the set is empty when it throws. *)
Number(i) ==
  LET at == First(i, LAMBDA token : token # Space)
  IN  IF at = 0 \/ msg[at] = Bar THEN {} ELSE {msg[at]}

(* The test at the top of the do-while: one leading bar is dropped. *)
Start == IF msg # <<>> /\ Head(msg) = Bar THEN 2 ELSE 1

-----------------------------------------------------------------------------
Init ==
  /\ commands = <<>> /\ phone = "plays" /\ wire = <<>>
  /\ msg = <<>> /\ thread = "fetch" /\ events = <<>>
  /\ whole = TRUE

Write(c) ==
  /\ phone = "plays"
  /\ Len(commands) < MaxCommands
  /\ commands' = Append(commands, c)
  /\ wire' = wire \o Text(c)
  /\ UNCHANGED <<phone, msg, thread, events, whole>>

(* TemplateChooseOptions writes 2 without a bar and closes; any other end of
   the activity or the process just closes. *)
Logout ==
  /\ phone = "plays"
  /\ phone' = "loggedOut"
  /\ wire' = Append(wire, 2)
  /\ UNCHANGED <<commands, msg, thread, events, whole>>

(* What was written and not yet received may be lost with the connection. *)
HangUp ==
  /\ phone # "gone"
  /\ phone' = "gone"
  /\ wire' \in {wire, <<>>}
  /\ UNCHANGED <<commands, msg, thread, events, whole>>

-----------------------------------------------------------------------------
(* s is the text of the last few commands, and of 2 if that was written. *)
BeginsWithCommand(s) ==
  LET logout == IF s # <<>> /\ Last(s) = 2 THEN <<2>> ELSE <<>>
      Texts(k) == FlattenSeq([i \in 1..k |-> Text(commands[Len(commands) - k + i])])
  IN  \E k \in 0..Len(commands) : s = Texts(k) \o logout

(* One recv and the fetch of what it returned: the text so far, or with
   Fragments any beginning of it. *)
Receive(n) ==
  /\ thread = "fetch"
  /\ n \in 1..Len(wire)
  /\ Fragments \/ n = Len(wire)
  /\ msg' = SubSeq(wire, 1, n)
  /\ wire' = SubSeq(wire, n + 1, Len(wire))
  /\ thread' = "parse"
  /\ whole' = (whole /\ BeginsWithCommand(wire'))
  /\ UNCHANGED <<commands, phone, events>>

(* Mutant of ReceiveNothing: dispatchMessage leaves without push("2"). *)
ReceiveNothingSilent ==
  /\ thread = "fetch" /\ wire = <<>> /\ phone = "gone"
  /\ msg' = <<2>>
  /\ UNCHANGED <<commands, phone, wire, thread, events, whole>>

(* A recv that ends within a number: its last digit is the next recv's first.
   (Numbers have at most two digits here; a cut after a minus sign, which makes
   stoi throw as a cut before the number does, is left out.) *)
ReceiveInside(n) ==
  /\ Fragments
  /\ thread = "fetch"
  /\ n \in 1..Len(wire)
  /\ wire[n] \in 10..99
  /\ msg' = Append(SubSeq(wire, 1, n - 1), wire[n] \div 10)
  /\ wire' = <<wire[n] % 10>> \o SubSeq(wire, n + 1, Len(wire))
  /\ thread' = "parse"
  /\ whole' = FALSE
  /\ UNCHANGED <<commands, phone, events>>

(* recv finds the connection closed: dispatchMessage pushes 2 itself. *)
ReceiveNothing ==
  /\ thread = "fetch"
  /\ wire = <<>>
  /\ phone = "gone"
  /\ msg' = <<2>>
  /\ thread' = "parse"
  /\ UNCHANGED <<commands, phone, wire, events, whole>>

(* The while of the do-while: another round if a bar is left. *)
Continue(i) ==
  /\ msg' = SubSeq(msg, i, Len(msg))
  /\ thread' = IF First(i, LAMBDA token : token = Bar) # 0 THEN "parse" ELSE "fetch"

Code(code) == thread = "parse" /\ code \in Number(Start)

(* Where the arguments of the command in front begin and where it ends, for a
   command with one argument and for one with two. *)
Argument == Past(Start, Bar)
Argument2 == Past(Argument, Space)

(* The arguments, none if a stoi throws. *)
Arguments == Number(Argument) \X Number(Argument2)
ButtonCode == Number(Argument) \cap 0..5

(* Mutant of KeyCommand: the action is not erased before the key is read. *)
KeyCommandKeepsAction ==
  /\ Code(10)
  /\ \E a \in Number(Argument), k \in Number(Argument) : events' = events \o KeyEvents(a, k)
  /\ Continue(Past(Argument2, Bar))
  /\ UNCHANGED <<commands, phone, wire, whole>>

(* case 10 *)
KeyCommand ==
  /\ Code(10)
  /\ \E a \in Number(Argument), k \in Number(Argument2) :
       events' = events \o KeyEvents(a, k)
  /\ Continue(Past(Argument2, Bar))
  /\ UNCHANGED <<commands, phone, wire, whole>>

(* Mutant of ClickCommand: msg is emptied, whatever else came with it. *)
ClickCommandClears ==
  /\ Code(11)
  /\ \E code \in ButtonCode : events' = Append(events, MouseEvent(code))
  /\ Continue(Len(msg) + 1)
  /\ UNCHANGED <<commands, phone, wire, whole>>

(* case 11 *)
ClickCommand ==
  /\ Code(11)
  /\ \E code \in ButtonCode : events' = Append(events, MouseEvent(code))
  /\ Continue(Past(Argument, Bar))
  /\ UNCHANGED <<commands, phone, wire, whole>>

(* case 12 *)
MoveCommand ==
  /\ Code(12)
  /\ \E d \in Arguments : events' = Append(events, <<"move", d[1], d[2]>>)
  /\ Continue(Past(Argument2, Bar))
  /\ UNCHANGED <<commands, phone, wire, whole>>

(* case 2 *)
Goodbye ==
  /\ Code(2)
  /\ thread' = "left"
  /\ msg' = SubSeq(msg, Start, Len(msg))
  /\ UNCHANGED <<commands, phone, wire, events, whole>>

(* case 3 erases nothing: with a bar in the text the loop never ends. *)
StillAlive ==
  /\ Code(3)
  /\ Continue(Start)
  /\ UNCHANGED <<commands, phone, wire, events, whole>>

(* No number, an unknown code, or an argument that is not one: 201. *)
Refuse ==
  /\ thread = "parse"
  /\ \/ Number(Start) \cap {2, 3, 10, 11, 12} = {}
     \/ (Code(10) \/ Code(12)) /\ Arguments = {}
     \/ Code(11) /\ ButtonCode = {}
  /\ thread' = "refused"
  /\ UNCHANGED <<commands, phone, wire, msg, events, whole>>

-----------------------------------------------------------------------------
Phone == (\E c \in Command : Write(c)) \/ Logout \/ HangUp
Server ==
  \/ \E n \in 1..Len(wire) : Receive(n) \/ ReceiveInside(n)
  \/ ReceiveNothing
  \/ KeyCommand \/ ClickCommand \/ MoveCommand \/ Goodbye \/ StillAlive \/ Refuse

Next == Phone \/ Server
Spec == Init /\ [][Next]_vars

(* The server threads are scheduled; nothing is assumed of the phone. *)
FairSpec == Spec /\ WF_vars(Server)

-----------------------------------------------------------------------------
(* What a command is for, said without its text: the XML templates name
   action 0 "Shot", 1 "Sight" and 2 "Grenade", the mouse's three buttons. *)
Meant(c) ==
  CASE c.device = "key" /\ ~c.up -> << <<"key", c.code, "down">> >>
    [] c.device = "key" /\ c.up ->
         (IF c.code \in ToggleKeys THEN << <<"key", c.code, "down">> >> ELSE <<>>)
            \o << <<"key", c.code, "up">> >>
    [] c.device = "button" ->
         << <<(<<"left", "right", "middle">>)[c.code + 1], IF c.up THEN "up" ELSE "down">> >>
    [] c.device = "mouse" -> << <<"move", c.dx, c.dy>> >>

Meaning == FlattenSeq([i \in DOMAIN commands |-> Meant(commands[i])])

TypeOK ==
  /\ commands \in Seq(Command)
  /\ phone \in {"plays", "loggedOut", "gone"}
  /\ wire \in Seq(Int) /\ msg \in Seq(Int)
  /\ thread \in {"fetch", "parse", "left", "refused"}
  /\ \A i \in DOMAIN events : events[i][1] \in {"key", "left", "right", "middle", "move"}
  /\ whole \in BOOLEAN

(* As long as recv cuts the stream between commands, however many it hands over
   at once, the events injected are those of the commands written so far, in
   their order, none twice (ServerLogic.cpp:101-267). *)
EventsFollowCommands == whole => IsPrefix(events, Meaning)

(* A command is never left behind in a text that several commands share, and a
   player whose commands arrive whole is never answered with 201 (ServerLogic.cpp:
   101-118, 132-188, 261-267). *)
NothingLeftBehind ==
  whole => /\ thread # "refused"
           /\ thread = "fetch" /\ wire = <<>> /\ phone # "gone" => events = Meaning

(* When the phone is gone ProcessingMessages leaves, whatever it had to parse,
   as long as its texts were whole. *)
HangUpEndsParsing == phone = "gone" ~> thread \in {"left", "refused"} \/ ~whole

(* "will process the messages coming from the client" (ServerLogic.h:26): the
   thread comes to fetch the next message, unless it has left. *)
MessagesAreProcessed == thread = "parse" ~> thread # "parse"
=============================================================================
