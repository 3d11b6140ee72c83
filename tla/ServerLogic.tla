----------------------------- MODULE ServerLogic -----------------------------
(***************************************************************************)
(* The server process: the loop of main.cpp that takes one client at a     *)
(* time, and the two threads ServerLogic.cpp starts for that client.       *)
(*                                                                         *)
(* dispatchMessage locks messagesToDiagnose_mutex, receives WHILE HOLDING  *)
(* IT, pushes what it received and unlocks; ProcessingMessages locks,      *)
(* takes the front of the queue without asking whether there is one,       *)
(* unlocks and obeys.  Each thread adds one to the plain int "status" when *)
(* it leaves; main accepts the next client when status is 2.               *)
(*                                                                         *)
(* What recv returns is kept by its effect only (module CommandStream has  *)
(* the parser): "cmd" is obeyed, "bye" is the message 2, "bad" is made of  *)
(* legal characters and refused by ProcessingMessages with code 201,       *)
(* "illegal" has a character dispatchMessage refuses.                      *)
(***************************************************************************)
EXTENDS Naturals, Sequences

CONSTANTS MaxSend,      \* bound: chunks one client puts on its connection
          MaxSessions   \* bound: clients admitted in one behaviour

ASSUME BoundsAssumption == MaxSend \in Nat /\ MaxSessions \in Nat

VARIABLES
  status,               \* main.cpp: 2 free, 0 serving, 1 one thread has left
  mutex,                \* messagesToDiagnose_mutex: "free" or the thread it belongs to
  messagesToDiagnose,   \* the queue between the two threads
  mainPc,               \* where main() is
  dispatchPc, dispatchTmp,   \* dispatchMessage and the register of its status++
  processPc, processTmp,     \* ProcessingMessages and the register of its status++
  msg,                  \* ProcessingMessages' local msg
  sock,                 \* the server's end of the client's connection
  wsa,                  \* WSAStartup calls not yet undone by WSACleanup
  peer, wire,           \* the client's end, and what it sent and nobody received
  sent, sessions        \* counters for the bounds

vars == <<status, mutex, messagesToDiagnose, mainPc, dispatchPc, dispatchTmp,
          processPc, processTmp, msg, sock, wsa, peer, wire, sent, sessions>>

Chunk == {"cmd", "bad", "bye", "illegal"}
Queued == {"cmd", "bad", "bye"}

(* The program has just started: no client, threads not started. *)
Init ==
  /\ status = 2
  /\ mutex = "free"
  /\ messagesToDiagnose = <<>>
  /\ mainPc = "poll"
  /\ dispatchPc = "done" /\ dispatchTmp = 0
  /\ processPc = "done" /\ processTmp = 0
  /\ msg = "cmd"
  /\ sock = "closed"
  /\ wsa = 1
  /\ peer = "gone" /\ wire = <<>>
  /\ sent = 0 /\ sessions = 0

-----------------------------------------------------------------------------
(* main() *)

(* One turn of the while(true) that finds status = 2 and enters getClients.
   Any other value of status leaves main spinning, a stuttering step. *)
EnterGetClients ==
  /\ mainPc = "poll"
  /\ status = 2
  /\ mainPc' = "accept"
  /\ wsa' = wsa + 1
  /\ UNCHANGED <<status, mutex, messagesToDiagnose, dispatchPc, dispatchTmp,
                 processPc, processTmp, msg, sock, peer, wire, sent, sessions>>

(* Mutant of NewServerLogic: status is not reset. *)
NewServerLogicNoReset ==
  /\ mainPc = "accept"
  /\ sessions < MaxSessions
  /\ mainPc' = "join"
  /\ messagesToDiagnose' = <<>>
  /\ dispatchPc' = "loop" /\ processPc' = "lock"
  /\ sock' = "open" /\ peer' = "here" /\ wire' = <<>> /\ sent' = 0
  /\ sessions' = sessions + 1
  /\ mutex' = "free"
  /\ UNCHANGED <<status, dispatchTmp, processTmp, msg, wsa>>

(* getClients returns an admitted client; the constructor of a new ServerLogic
   resets status and starts both threads. *)
NewServerLogic ==
  /\ mainPc = "accept"
  /\ sessions < MaxSessions
  /\ mainPc' = "join"
  /\ status' = 0
  /\ messagesToDiagnose' = <<>>
  /\ dispatchPc' = "loop"
  /\ processPc' = "lock"
  /\ sock' = "open"
  /\ peer' = "here" /\ wire' = <<>> /\ sent' = 0
  /\ sessions' = sessions + 1
  /\ mutex' = "free"
  /\ UNCHANGED <<dispatchTmp, processTmp, msg, wsa>>

(* Mutant of DestroyServerLogic: processingThread is not joined. *)
DestroyServerLogicJoinsOne ==
  /\ mainPc = "join" /\ dispatchPc = "done"
  /\ mainPc' = "poll"
  /\ sock' = "closed" /\ peer' = "gone" /\ wire' = <<>>
  /\ wsa' = wsa - 1
  /\ UNCHANGED <<status, mutex, messagesToDiagnose, dispatchPc, dispatchTmp,
                 processPc, processTmp, msg, sent, sessions>>

(* Both joins return, the constructor ends and main runs the destructor. *)
DestroyServerLogic ==
  /\ mainPc = "join"
  /\ dispatchPc = "done"
  /\ processPc = "done"
  /\ mainPc' = "poll"
  /\ sock' = "closed"
  /\ peer' = "gone" /\ wire' = <<>>
  /\ wsa' = wsa - 1
  /\ UNCHANGED <<status, mutex, messagesToDiagnose, dispatchPc, dispatchTmp,
                 processPc, processTmp, msg, sent, sessions>>

-----------------------------------------------------------------------------
(* dispatchMessage() *)

(* Whose the mutex may be after messagesToDiagnose_mutex.unlock().  The standard
   promises nothing: it is free for whoever comes first, or handed to the thread
   that waits, as the runtime of toolset v120 does. *)
Unlocked == {"free"} \cup IF processPc = "wait" THEN {"process"} ELSE {}

(* while (status == 0), an unsynchronised read. *)
DispatchCheck ==
  /\ mainPc = "join"
  /\ dispatchPc = "loop"
  /\ dispatchPc' = IF status = 0 THEN "lock" ELSE "endLoad"
  /\ UNCHANGED <<status, mutex, messagesToDiagnose, mainPc, dispatchTmp, processPc,
                 processTmp, msg, sock, wsa, peer, wire, sent, sessions>>

DispatchLock ==
  /\ mainPc = "join"
  /\ dispatchPc = "lock"
  /\ mutex = "free"
  /\ mutex' = "dispatch"
  /\ dispatchPc' = "recv"
  /\ UNCHANGED <<status, messagesToDiagnose, mainPc, dispatchTmp, processPc,
                 processTmp, msg, sock, wsa, peer, wire, sent, sessions>>

(* recv returns data that passes the character test: push, unlock, loop. *)
DispatchPush ==
  /\ mainPc = "join"
  /\ dispatchPc = "recv"
  /\ wire # <<>>
  /\ Head(wire) \in Queued
  /\ messagesToDiagnose' = Append(messagesToDiagnose, Head(wire))
  /\ wire' = Tail(wire)
  /\ mutex' \in Unlocked
  /\ dispatchPc' = "loop"
  /\ UNCHANGED <<status, mainPc, dispatchTmp, processPc, processTmp, msg, sock,
                 wsa, peer, sent, sessions>>

(* recv returns data with an illegal character, or nothing because the client
   is gone: the thread leaves through status++, with the mutex still held. *)
DispatchRefuse ==
  /\ mainPc = "join"
  /\ dispatchPc = "recv"
  /\ \/ /\ wire # <<>>
        /\ Head(wire) = "illegal"
        /\ wire' = Tail(wire)
     \/ /\ wire = <<>>
        /\ peer = "gone"
        /\ wire' = wire
  /\ dispatchPc' = "heldLoad"
  /\ UNCHANGED <<status, mutex, messagesToDiagnose, mainPc, dispatchTmp, processPc,
                 processTmp, msg, sock, wsa, peer, sent, sessions>>

(* status++ is a load and a store; no lock orders it with the other thread's. *)
DispatchLoad ==
  /\ mainPc = "join"
  /\ dispatchPc \in {"heldLoad", "endLoad"}
  /\ dispatchTmp' = status
  /\ dispatchPc' = IF dispatchPc = "heldLoad" THEN "heldStore" ELSE "endStore"
  /\ UNCHANGED <<status, mutex, messagesToDiagnose, mainPc, processPc, processTmp,
                 msg, sock, wsa, peer, wire, sent, sessions>>

(* Mutant of DispatchStoreHeld: returns without unlocking. *)
DispatchStoreHeldKeepsLock ==
  /\ mainPc = "join" /\ dispatchPc = "heldStore"
  /\ status' = dispatchTmp + 1
  /\ dispatchTmp' = 0
  /\ messagesToDiagnose' = Append(messagesToDiagnose, "bye")
  /\ dispatchPc' = "done"
  /\ UNCHANGED <<mutex, mainPc, processPc, processTmp, msg, sock, wsa, peer, wire,
                 sent, sessions>>

(* The store on the way out of recv, then push("2"), unlock, return. *)
DispatchStoreHeld ==
  /\ mainPc = "join"
  /\ dispatchPc = "heldStore"
  /\ status' = dispatchTmp + 1
  /\ dispatchTmp' = 0
  /\ messagesToDiagnose' = Append(messagesToDiagnose, "bye")
  /\ mutex' \in Unlocked
  /\ dispatchPc' = "done"
  /\ UNCHANGED <<mainPc, processPc, processTmp, msg, sock, wsa, peer, wire, sent,
                 sessions>>

(* The store after the while loop. *)
DispatchStoreEnd ==
  /\ mainPc = "join"
  /\ dispatchPc = "endStore"
  /\ status' = dispatchTmp + 1
  /\ dispatchTmp' = 0
  /\ dispatchPc' = "done"
  /\ UNCHANGED <<mutex, messagesToDiagnose, mainPc, processPc, processTmp, msg,
                 sock, wsa, peer, wire, sent, sessions>>

-----------------------------------------------------------------------------
(* ProcessingMessages() *)

(* lock() finds the mutex taken and queues up for it. *)
ProcessWait ==
  /\ mainPc = "join"
  /\ processPc = "lock"
  /\ mutex # "free"
  /\ processPc' = "wait"
  /\ UNCHANGED <<status, mutex, messagesToDiagnose, mainPc, dispatchPc, dispatchTmp,
                 processTmp, msg, sock, wsa, peer, wire, sent, sessions>>

MutexIsMine ==
  \/ processPc \in {"lock", "wait"} /\ mutex = "free"
  \/ processPc = "wait" /\ mutex = "process"

(* lock, front, pop, unlock. *)
ProcessFetch ==
  /\ mainPc = "join"
  /\ MutexIsMine
  /\ messagesToDiagnose # <<>>
  /\ mutex' = "free"
  /\ msg' = Head(messagesToDiagnose)
  /\ messagesToDiagnose' = Tail(messagesToDiagnose)
  /\ processPc' = "exec"
  /\ UNCHANGED <<status, mainPc, dispatchPc, dispatchTmp, processTmp, sock,
                 wsa, peer, wire, sent, sessions>>

(* front() and pop() of an empty queue are undefined.  A deque that never held
   an element has no block to read (the process dies); one that did yields the
   destroyed string of the last slot, which is empty and which stoi rejects. *)
ProcessFetchEmpty ==
  /\ mainPc = "join"
  /\ MutexIsMine
  /\ messagesToDiagnose = <<>>
  /\ mutex' = "free"
  /\ \/ mainPc' = "crashed" /\ UNCHANGED <<msg, processPc>>
     \/ msg' = "bad" /\ processPc' = "exec" /\ UNCHANGED mainPc
  /\ UNCHANGED <<status, messagesToDiagnose, dispatchPc, dispatchTmp, processTmp,
                 sock, wsa, peer, wire, sent, sessions>>

(* Mutant of ProcessExec: the refusal with 201 returns without its status++. *)
ProcessExecForgetsStatus ==
  /\ mainPc = "join" /\ processPc = "exec"
  /\ processPc' = CASE msg = "cmd" -> "lock" [] msg = "bye" -> "load" [] OTHER -> "done"
  /\ UNCHANGED <<status, mutex, messagesToDiagnose, mainPc, dispatchPc, dispatchTmp,
                 processTmp, msg, sock, wsa, peer, wire, sent, sessions>>

(* The do-while over the commands of msg.  Code 2 leaves; a message that cannot
   be parsed or has an unknown code is answered with 201 and leaves too. *)
ProcessExec ==
  /\ mainPc = "join"
  /\ processPc = "exec"
  /\ processPc' = IF msg = "cmd" THEN "lock" ELSE "load"
  /\ UNCHANGED <<status, mutex, messagesToDiagnose, mainPc, dispatchPc, dispatchTmp,
                 processTmp, msg, sock, wsa, peer, wire, sent, sessions>>

(* Mutant of ProcessLoad: status is written before the thread is finished. *)
ProcessLoadWrites ==
  /\ mainPc = "join" /\ processPc = "load"
  /\ processTmp' = status /\ status' = status + 1
  /\ processPc' = "store"
  /\ UNCHANGED <<mutex, messagesToDiagnose, mainPc, dispatchPc, dispatchTmp, msg,
                 sock, wsa, peer, wire, sent, sessions>>

ProcessLoad ==
  /\ mainPc = "join"
  /\ processPc = "load"
  /\ processTmp' = status
  /\ processPc' = "store"
  /\ UNCHANGED <<status, mutex, messagesToDiagnose, mainPc, dispatchPc, dispatchTmp,
                 msg, sock, wsa, peer, wire, sent, sessions>>

ProcessStore ==
  /\ mainPc = "join"
  /\ processPc = "store"
  /\ status' = processTmp + 1
  /\ processTmp' = 0
  /\ processPc' = "done"
  /\ UNCHANGED <<mutex, messagesToDiagnose, mainPc, dispatchPc, dispatchTmp, msg,
                 sock, wsa, peer, wire, sent, sessions>>

-----------------------------------------------------------------------------
(* The client, as far as the server sees it. *)

PeerSend(c) ==
  /\ mainPc = "join"
  /\ peer = "here"
  /\ sent < MaxSend
  /\ wire' = Append(wire, c)
  /\ sent' = sent + 1
  /\ UNCHANGED <<status, mutex, messagesToDiagnose, mainPc, dispatchPc, dispatchTmp,
                 processPc, processTmp, msg, sock, wsa, peer, sessions>>

(* An orderly close leaves what was sent to be received; a reset discards it. *)
PeerLeaves ==
  /\ mainPc = "join"
  /\ peer = "here"
  /\ peer' = "gone"
  /\ wire' \in {wire, <<>>}
  /\ UNCHANGED <<status, mutex, messagesToDiagnose, mainPc, dispatchPc, dispatchTmp,
                 processPc, processTmp, msg, sock, wsa, sent, sessions>>

-----------------------------------------------------------------------------
DispatchLeave == DispatchLoad \/ DispatchStoreHeld \/ DispatchStoreEnd
Dispatch == DispatchCheck \/ DispatchPush \/ DispatchRefuse \/ DispatchLeave
Process == ProcessWait \/ ProcessExec \/ ProcessLoad \/ ProcessStore
Fetch == ProcessFetch \/ ProcessFetchEmpty
Peer == PeerLeaves \/ \E c \in Chunk : PeerSend(c)

Next ==
  \/ EnterGetClients \/ NewServerLogic \/ DestroyServerLogic
  \/ Dispatch \/ DispatchLock
  \/ Process \/ Fetch
  \/ Peer

Spec == Init /\ [][Next]_vars

(* Threads are scheduled; recv returns when there is something to return.  A
   thread that finds the mutex free again and again gets it (no starvation).
   Nothing is assumed of the client: it may fall silent for good. *)
Fairness ==
  /\ WF_vars(EnterGetClients) /\ WF_vars(DestroyServerLogic)
  /\ WF_vars(Dispatch) /\ SF_vars(DispatchLock)
  /\ WF_vars(Process) /\ SF_vars(Fetch)

FairSpec == Spec /\ Fairness

-----------------------------------------------------------------------------
TypeOK ==
  /\ status \in 0..2
  /\ mutex \in {"free", "dispatch", "process"}
  /\ messagesToDiagnose \in Seq(Queued)
  /\ mainPc \in {"poll", "accept", "join", "crashed"}
  /\ dispatchPc \in {"loop", "lock", "recv", "heldLoad", "heldStore", "endLoad",
                     "endStore", "done"}
  /\ dispatchTmp \in 0..1
  /\ processPc \in {"lock", "wait", "exec", "load", "store", "done"}
  /\ processTmp \in 0..1
  /\ msg \in Queued
  /\ sock \in {"open", "closed"}
  /\ wsa \in 1..2
  /\ peer \in {"here", "gone"}
  /\ wire \in Seq(Chunk)
  /\ sent \in 0..MaxSend
  /\ sessions \in 0..MaxSessions

(* The server takes its sessions for finished (status = 2, main.cpp:65) only
   when both threads have left, whatever order their unprotected status++ took. *)
FreeMeansBothLeft == status = 2 => dispatchPc = "done" /\ processPc = "done"

(* The loop test status == 0 of dispatchMessage is exact: status is 0 just as
   long as no thread has left, so a lost update never revives the session. *)
ZeroMeansBothServe ==
  mainPc = "join" => (status = 0 <=> dispatchPc # "done" /\ processPc # "done")

(* A dispatchMessage that leaves by its loop test comes after the other
   thread's status++, so that way out never loses an update. *)
LoopExitIsLast ==
  dispatchPc \in {"endLoad", "endStore"} => processPc = "done" /\ status = 1

(* No thread uses the socket after the destructor closed it, and Winsock is
   up for main's listening socket and, while a client is served, for that one:
   the WSAStartup of getClients is undone exactly once per client. *)
SocketsUsable ==
  /\ (dispatchPc # "done" \/ processPc # "done") => sock = "open"
  /\ wsa = IF mainPc = "poll" THEN 1 ELSE 2

(* What main is promised of a session (module Sessions): its two threads leave
   once each and before it ends, the socket is theirs until then, and status
   says "free" only after the second one. *)
Live(pc) == IF pc = "done" THEN 0 ELSE 1
Phase == IF mainPc \in {"poll", "accept"} THEN "waiting"
         ELSE IF mainPc = "join" THEN "serving" ELSE "crashed"
Abstract == INSTANCE Sessions WITH
  phase <- Phase,
  workers <- Live(dispatchPc) + Live(processPc),
  free <- (status = 2)
ImplementsSessions == Abstract!Spec

(* Whatever the client had sent, once it has hung up both threads leave and
   main is back in its loop (unless the process died on the empty queue). *)
HangUpEndsSession == peer = "gone" ~> mainPc \in {"poll", "accept", "crashed"}

(* "disconnect but wait for another connection" (ServerLogic.cpp:120): a client
   says 2 and hangs up; the server waits in getClients again. *)
WaitsForAnother ==
  (processPc = "exec" /\ msg = "bye" /\ peer = "gone") ~> mainPc = "accept"
=============================================================================
