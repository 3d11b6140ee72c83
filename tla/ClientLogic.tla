----------------------------- MODULE ClientLogic -----------------------------
(***************************************************************************)
(* The phone's side of one connection: the thread of ClientLogic.run that  *)
(* connects and waits for the password to be judged, the threads of        *)
(* DispatchMessage and SendMessage it starts, and the activities that      *)
(* start it, play and log out.  They share four plain booleans and the     *)
(* list messagesToSend (its add and remove are atomic here; module         *)
(* SendQueue takes them apart).                                            *)
(*                                                                         *)
(* The server is kept by what it does to the connection: it judges the     *)
(* password, may answer 201 to a message it refuses, and may close at any  *)
(* time.                                                                   *)
(***************************************************************************)
EXTENDS Naturals, Sequences

CONSTANT MaxCommands    \* bound: commands the player gives

ASSUME BoundAssumption == MaxCommands \in Nat

VARIABLES
  run,                \* where ClientLogic.run is
  dm, reply,          \* where DispatchMessage.run is, and the code it has read
  sm, held,           \* where SendMessage.run is, and the message it has removed
  task,               \* the AsyncTask ConnectToServer: what it does and then shows
  sock,               \* the phone's socket
  connctionStatus, passStatus, errStatus, hadError,
  messagesToSend,
  added,              \* every message ever added, in order
  written,            \* every message ever written to the socket, in order
  server,             \* "none", "judging", "serving", "refused" (sent 201), "closed"
  verdict,            \* on the password: 100, 200, or 0 while there is none
  replies             \* codes sent by the server and not yet read

threads == <<run, dm, reply, sm, held>>
flags == <<connctionStatus, passStatus, errStatus, hadError>>
messages == <<messagesToSend, added, written>>
net == <<server, verdict, replies>>
vars == <<threads, task, sock, flags, messages, net>>

Password == "1"
Command == "10"
Bye == "2"
Message == {Password, Command, Bye}

Init ==
  /\ run = "connect" /\ dm = "new" /\ reply = 0 /\ sm = "new" /\ held = Password
  /\ task = "join"
  /\ sock = "new"
  /\ connctionStatus = FALSE /\ passStatus = FALSE
  /\ errStatus = FALSE /\ hadError = FALSE
  /\ messagesToSend = <<>> /\ added = <<>> /\ written = <<>>
  /\ server = "none" /\ verdict = 0 /\ replies = <<>>

addToSend(msg) ==
  /\ messagesToSend' = Append(messagesToSend, msg)
  /\ added' = Append(added, msg)
  /\ UNCHANGED written

-----------------------------------------------------------------------------
(* ClientLogic.run *)

(* The socket connects within 10 s or throws. *)
RunConnect ==
  /\ run = "connect"
  /\ \/ sock' = "open" /\ server' = "judging" /\ run' = "startDM"
        /\ UNCHANGED connctionStatus
     \/ connctionStatus' = FALSE /\ run' = "done" /\ UNCHANGED <<sock, server>>
  /\ UNCHANGED <<dm, reply, sm, held, task, passStatus, errStatus, hadError,
                 messages, verdict, replies>>

RunStartDM ==
  /\ run = "startDM"
  /\ dm' = "check"
  /\ run' = "startSM"
  /\ UNCHANGED <<reply, sm, held, task, sock, flags, messages, net>>

RunStartSM ==
  /\ run = "startSM"
  /\ sm' = "check"
  /\ run' = "addPassword"
  /\ UNCHANGED <<dm, reply, held, task, sock, flags, messages, net>>

RunAddPassword ==
  /\ run = "addPassword"
  /\ addToSend(Password)
  /\ run' = "spin"
  /\ UNCHANGED <<dm, reply, sm, held, task, sock, flags, net>>

(* Mutant of RunSpin: the loop does not wait for the verdict. *)
RunSpinFallsThrough ==
  /\ run = "spin"
  /\ run' = "done"
  /\ connctionStatus' = TRUE
  /\ UNCHANGED <<dm, reply, sm, held, task, sock, passStatus, errStatus, hadError,
                 messages, net>>

(* while(!passStatus); *)
RunSpin ==
  /\ run = "spin"
  /\ passStatus
  /\ run' = "done"
  /\ UNCHANGED <<dm, reply, sm, held, task, sock, flags, messages, net>>

-----------------------------------------------------------------------------
(* DispatchMessage.run *)

DmCheck ==
  /\ dm = "check"
  /\ dm' = IF errStatus THEN "done" ELSE "read"
  /\ UNCHANGED <<run, reply, sm, held, task, sock, flags, messages, net>>

(* One read takes what has arrived, at most four codes in its 16 bytes; only
   the text before the first NUL, one code, is looked at. *)
DmRead ==
  /\ dm = "read"
  /\ sock = "open"
  /\ replies # <<>>
  /\ reply' = Head(replies)
  /\ \E n \in 1..Len(replies) :
       n <= 4 /\ replies' = SubSeq(replies, n + 1, Len(replies))
  /\ dm' = "process"
  /\ UNCHANGED <<run, sm, held, task, sock, flags, messages, server, verdict>>

(* The end of the stream, or an IOException: after our own close, too. *)
DmReadFails ==
  /\ dm = "read"
  /\ sock = "closed" \/ (server = "closed" /\ replies = <<>>)
  /\ dm' = "error"
  /\ UNCHANGED <<run, reply, sm, held, task, sock, flags, messages, net>>

(* Mutant of processMassage: 200 is taken for 100. *)
processMassageAdmitsAll ==
  /\ dm = "process"
  /\ connctionStatus' = (connctionStatus \/ reply \in {100, 200})
  /\ passStatus' = (passStatus \/ reply \in {100, 103, 200})
  /\ errStatus' = errStatus
  /\ UNCHANGED <<hadError, messages>>
  /\ dm' = IF reply = 201 THEN "error" ELSE "check"
  /\ UNCHANGED <<run, reply, sm, held, task, sock, net>>

(* Mutant of processMassage: a wrong password does not end the wait. *)
processMassageForgetsPass ==
  /\ dm = "process"
  /\ connctionStatus' = ((connctionStatus \/ reply = 100) /\ reply \notin {103, 200})
  /\ passStatus' = (passStatus \/ reply = 100)
  /\ UNCHANGED <<errStatus, hadError, messages>>
  /\ dm' = IF reply \in {103, 200, 201} THEN "error" ELSE "check"
  /\ UNCHANGED <<run, reply, sm, held, task, sock, net>>

(* The switch: 103 falls through into 200, and 200 into 201. *)
processMassage ==
  /\ dm = "process"
  /\ connctionStatus' = ((connctionStatus \/ reply = 100) /\ reply \notin {103, 200})
  /\ passStatus' = (passStatus \/ reply \in {100, 103, 200})
  /\ errStatus' = (errStatus \/ reply = 102)
  /\ UNCHANGED hadError
  /\ IF reply = 103 THEN addToSend("3") ELSE UNCHANGED messages
  /\ dm' = IF reply \in {103, 200, 201} THEN "error" ELSE "check"
  /\ UNCHANGED <<run, reply, sm, held, task, sock, net>>

(* onError, which finishes the activities the first time (module Activities),
   and then setErrStatus(true). *)
DmOnError ==
  /\ dm = "error"
  /\ hadError' = TRUE
  /\ dm' = "setErr"
  /\ UNCHANGED <<run, reply, sm, held, task, sock, connctionStatus, passStatus,
                 errStatus, messages, net>>

DmSetErr ==
  /\ dm = "setErr"
  /\ errStatus' = TRUE
  /\ dm' = "done"
  /\ UNCHANGED <<run, reply, sm, held, task, sock, connctionStatus, passStatus,
                 hadError, messages, net>>

-----------------------------------------------------------------------------
(* SendMessage.run *)

SmCheck ==
  /\ sm = "check"
  /\ sm' = IF errStatus THEN "done" ELSE "poll"
  /\ UNCHANGED <<run, dm, reply, held, task, sock, flags, messages, net>>

(* Mutant of SmPoll: the loop sleeps until there is a message. *)
SmPollForMessage ==
  /\ sm = "poll"
  /\ messagesToSend # <<>>
  /\ sm' = "take"
  /\ UNCHANGED <<run, dm, reply, held, task, sock, flags, messages, net>>

(* Mutant of SmPoll: one sleep instead of the loop. *)
SmPollOnce ==
  /\ sm = "poll"
  /\ sm' = "take"
  /\ UNCHANGED <<run, dm, reply, held, task, sock, flags, messages, net>>

(* getFirstSend: while(isEmpty && !errStatus) sleep. *)
SmPoll ==
  /\ sm = "poll"
  /\ messagesToSend # <<>> \/ errStatus
  /\ sm' = "take"
  /\ UNCHANGED <<run, dm, reply, held, task, sock, flags, messages, net>>

(* Mutant of SmTake: the newest message is taken. *)
SmTakeLast ==
  /\ sm = "take"
  /\ IF errStatus
       THEN sm' = "onError" /\ UNCHANGED <<held, messagesToSend>>
       ELSE /\ messagesToSend # <<>>
            /\ held' = messagesToSend[Len(messagesToSend)]
            /\ messagesToSend' = SubSeq(messagesToSend, 1, Len(messagesToSend) - 1)
            /\ sm' = "write"
  /\ UNCHANGED <<run, dm, reply, task, sock, flags, added, written, net>>

(* Its second half: null for an errStatus set meanwhile, else remove(0). *)
SmTake ==
  /\ sm = "take"
  /\ IF errStatus
       THEN sm' = "onError" /\ UNCHANGED <<held, messagesToSend>>
       ELSE /\ messagesToSend # <<>>
            /\ held' = Head(messagesToSend)
            /\ messagesToSend' = Tail(messagesToSend)
            /\ sm' = "write"
  /\ UNCHANGED <<run, dm, reply, task, sock, flags, added, written, net>>

(* writeBytes.  A connection the server closed may still take a message. *)
SmWrite ==
  /\ sm = "write"
  /\ sock = "open"
  /\ written' = Append(written, held)
  /\ sm' = "check"
  /\ UNCHANGED <<run, dm, reply, held, task, sock, flags, messagesToSend, added, net>>

SmWriteFails ==
  /\ sm = "write"
  /\ sock = "closed" \/ server = "closed"
  /\ sm' = "error"
  /\ UNCHANGED <<run, dm, reply, held, task, sock, flags, messages, net>>

(* onError without setErrStatus (a null message) or with it (an exception). *)
SmOnError ==
  /\ sm \in {"onError", "error"}
  /\ hadError' = TRUE
  /\ sm' = IF sm = "error" THEN "setErr" ELSE "done"
  /\ UNCHANGED <<run, dm, reply, held, task, sock, connctionStatus, passStatus,
                 errStatus, messages, net>>

SmSetErr ==
  /\ sm = "setErr"
  /\ errStatus' = TRUE
  /\ sm' = "done"
  /\ UNCHANGED <<run, dm, reply, held, task, sock, connctionStatus, passStatus,
                 hadError, messages, net>>

-----------------------------------------------------------------------------
(* ConnectToServer (LoginActivity and StartActivity), and the player. *)

(* join returns; onPostExecute opens the template activity or says why not. *)
TaskEnds ==
  /\ task = "join"
  /\ run = "done"
  /\ task' = IF connctionStatus THEN "play" ELSE "failed"
  /\ UNCHANGED <<threads, sock, flags, messages, net>>

(* A touch, as long as an activity is open. *)
Touch ==
  /\ task = "play"
  /\ Len(added) <= MaxCommands
  /\ addToSend(Command)
  /\ UNCHANGED <<threads, task, sock, flags, net>>

(* onErrStatusChange has finished the activities. *)
ActivitiesEnd ==
  /\ task = "play"
  /\ hadError
  /\ task' = "over"
  /\ UNCHANGED <<threads, sock, flags, messages, net>>

(* TemplateChooseOptions.onBackPressed: addToSend("2"), setErrStatus(true) and
   close(), while the other threads run. *)
BackPressed ==
  /\ task = "play"
  /\ addToSend(Bye)
  /\ task' = "bye"
  /\ UNCHANGED <<threads, sock, flags, net>>

BackSetErr ==
  /\ task = "bye"
  /\ errStatus' = TRUE
  /\ task' = "close"
  /\ UNCHANGED <<threads, sock, connctionStatus, passStatus, hadError, messages, net>>

BackClose ==
  /\ task = "close"
  /\ sock' = "closed"
  /\ task' = "over"
  /\ UNCHANGED <<threads, flags, messages, net>>

-----------------------------------------------------------------------------
(* The server: getClients judges, ProcessingMessages may refuse, and the
   connection is closed after that, or at any time when the server ends. *)

Judge ==
  /\ server = "judging"
  /\ written # <<>>
  /\ \/ server' = "serving" /\ verdict' = 100
     \/ server' = "closed" /\ verdict' = 200
  /\ replies' = Append(replies, verdict')
  /\ UNCHANGED <<threads, task, sock, flags, messages>>

ServerRefuses ==
  /\ server = "serving"
  /\ Len(written) > 1
  /\ server' = "refused"
  /\ replies' = Append(replies, 201)
  /\ UNCHANGED <<threads, task, sock, flags, messages, verdict>>

ServerCloses ==
  /\ server \in {"judging", "serving", "refused"}
  /\ server' = "closed"
  /\ UNCHANGED <<threads, task, sock, flags, messages, verdict, replies>>

-----------------------------------------------------------------------------
Run == RunConnect \/ RunStartDM \/ RunStartSM \/ RunAddPassword \/ RunSpin
DispatchMessage == DmCheck \/ DmRead \/ DmReadFails \/ processMassage \/ DmOnError \/ DmSetErr
SendMessage == SmCheck \/ SmPoll \/ SmTake \/ SmWrite \/ SmWriteFails \/ SmOnError \/ SmSetErr
Back == BackSetErr \/ BackClose
Server == Judge \/ ServerRefuses \/ ServerCloses

Next ==
  \/ Run \/ DispatchMessage \/ SendMessage
  \/ TaskEnds \/ Touch \/ ActivitiesEnd \/ BackPressed \/ Back
  \/ Server

Spec == Init /\ [][Next]_vars

(* The phone's threads are scheduled; the server and the player need not act. *)
Fairness ==
  /\ WF_vars(Run) /\ WF_vars(DispatchMessage) /\ WF_vars(SendMessage)
  /\ WF_vars(TaskEnds) /\ WF_vars(ActivitiesEnd) /\ WF_vars(Back)

FairSpec == Spec /\ Fairness

-----------------------------------------------------------------------------
TypeOK ==
  /\ run \in {"connect", "startDM", "startSM", "addPassword", "spin", "done"}
  /\ dm \in {"new", "check", "read", "process", "error", "setErr", "done"}
  /\ reply \in {0, 100, 200, 201}
  /\ sm \in {"new", "check", "poll", "take", "write", "onError", "error", "setErr", "done"}
  /\ held \in Message
  /\ task \in {"join", "play", "failed", "bye", "close", "over"}
  /\ sock \in {"new", "open", "closed"}
  /\ connctionStatus \in BOOLEAN /\ passStatus \in BOOLEAN
  /\ errStatus \in BOOLEAN /\ hadError \in BOOLEAN
  /\ messagesToSend \in Seq(Message) /\ added \in Seq(Message) /\ written \in Seq(Message)
  /\ server \in {"none", "judging", "serving", "refused", "closed"}
  /\ verdict \in {0, 100, 200}
  /\ replies \in Seq({100, 200, 201})

(* Until it fails, SendMessage writes the messages in the order in which they
   were added, each of them once (ClientLogic.java:59-69, SendMessage.java:23-47). *)
MessagesInOrder ==
  sm \in {"new", "check", "poll", "take", "write"} =>
    written \o (IF sm = "write" THEN <<held>> ELSE <<>>) \o messagesToSend = added

(* remove(0) never meets an empty list, although errStatus and isEmpty are read
   before it and anybody may change them (ClientLogic.java:60-68). *)
RemoveFindsMessage == sm = "take" /\ ~errStatus => messagesToSend # <<>>

(* The login tells the truth: the template activity opens exactly for those the
   server admitted, whatever came over the connection since. *)
LoginTellsTruth ==
  /\ task \in {"play", "bye", "close", "over"} => verdict = 100
  /\ task = "failed" => verdict # 100

(* getClients takes one recv for the password: while it judges, nothing else
   may follow the password on the connection. *)
PasswordAlone == server = "judging" => added \in {<<>>, <<Password>>}

(* An error stops both threads of the connection, whichever thread met it. *)
ErrorStopsThreads == (hadError \/ errStatus) ~> dm = "done" /\ sm = "done"

(* A login the server has answered comes back to the screen. *)
AnsweredLoginReturns == verdict # 0 /\ dm = "process" ~> task # "join"

(* "connection failed, return the view to how it was" (StartActivity.java:140):
   the login comes back, with or without an answer of the server. *)
LoginReturns == task = "join" ~> task # "join"

(* "kill connection" (SendMessage.java:37; DispatchMessage.java:51 says "kill CL"),
   of a handler that calls onError and setErrStatus, as the case of code 201 does:
   after an error the connection ends, so that the server, whose dispatchMessage
   waits in recv, can take another client. *)
ErrorKillsConnection == hadError ~> sock = "closed" \/ server = "closed"
=============================================================================
