----------------------------- MODULE ServerProofs -----------------------------
(***************************************************************************)
(* Proofs about the server's main and its sessions (ServerLogic), and      *)
(* about the login that comes before each of them (GetClients), for every  *)
(* value of their constants.                                               *)
(*                                                                         *)
(* None of the safety properties is inductive.  Those of the session rest  *)
(* on what each thread's register can hold while its status++ is half      *)
(* done: at most the number of threads that have left before (StatusBound).*)
(***************************************************************************)
EXTENDS ServerLogic, GetClients, TLAPS

(* 1 for a thread that has left, 0 for one that still serves. *)
Left(pc) == 1 - Live(pc)

(* status, and what a half-done status++ is about to store, never count a
   thread that has not left (main.cpp:65 reads status on that promise). *)
StatusBound ==
  /\ status <= Left(dispatchPc) + Left(processPc)
  /\ dispatchPc \in {"heldStore", "endStore"} => dispatchTmp <= Left(processPc)
  /\ processPc = "store" => processTmp <= Left(dispatchPc)

(* Outside the constructor (main.cpp:70) no thread of a session runs. *)
NoStrayThread ==
  mainPc \in {"poll", "accept"} => dispatchPc = "done" /\ processPc = "done"

(* In getClients status is still the 2 that main entered it with. *)
AcceptsWhenFree == mainPc = "accept" => status = 2

IInv ==
  /\ TypeOK
  /\ AcceptsWhenFree
  /\ StatusBound
  /\ NoStrayThread
  /\ ZeroMeansBothServe
  /\ LoopExitIsLast
  /\ SocketsUsable

(* The invariant holds of the program that has just started. *)
LEMMA InitIInv == Init => IInv
  BY BoundsAssumption DEF Init, IInv, TypeOK, StatusBound, NoStrayThread,
     AcceptsWhenFree, ZeroMeansBothServe, LoopExitIsLast, SocketsUsable, Left, Live, Queued, Chunk

(* The strengthened invariant is kept by every step of main, of the two
   threads and of the client. *)
LEMMA NextIInv == IInv /\ [Next]_vars => IInv'
<1> SUFFICES ASSUME IInv, [Next]_vars
             PROVE  IInv'
  OBVIOUS
<1> USE BoundsAssumption DEF IInv, TypeOK, StatusBound, NoStrayThread,
        AcceptsWhenFree, ZeroMeansBothServe, LoopExitIsLast, SocketsUsable, Left, Live
<1>1. CASE EnterGetClients
  BY <1>1 DEF EnterGetClients
<1>2. CASE NewServerLogic
  BY <1>2 DEF NewServerLogic
<1>3. CASE DestroyServerLogic
  BY <1>3 DEF DestroyServerLogic
<1>4. CASE DispatchCheck
  BY <1>4 DEF DispatchCheck
<1>5. CASE DispatchLock
  BY <1>5 DEF DispatchLock
<1>6. CASE DispatchPush
  BY <1>6 DEF DispatchPush, Unlocked
<1>7. CASE DispatchRefuse
  <2>1. wire' \in Seq(Chunk)
    <3>1. CASE wire' = wire
      BY <3>1
    <3>2. CASE wire # <<>> /\ wire' = Tail(wire)
      BY <3>2
    <3>3. QED
      BY <1>7, <3>1, <3>2 DEF DispatchRefuse
  <2>2. QED
    BY <1>7, <2>1 DEF DispatchRefuse
<1>8. CASE DispatchLoad
  BY <1>8 DEF DispatchLoad
<1>9. CASE DispatchStoreHeld
  BY <1>9 DEF DispatchStoreHeld, Unlocked, Queued
<1>10. CASE DispatchStoreEnd
  BY <1>10 DEF DispatchStoreEnd
<1>11. CASE ProcessWait
  BY <1>11 DEF ProcessWait
<1>12. CASE ProcessFetch
  BY <1>12 DEF ProcessFetch, MutexIsMine
<1>13. CASE ProcessFetchEmpty
  BY <1>13 DEF ProcessFetchEmpty, MutexIsMine, Queued
<1>14. CASE ProcessExec
  BY <1>14 DEF ProcessExec
<1>15. CASE ProcessLoad
  BY <1>15 DEF ProcessLoad
<1>16. CASE ProcessStore
  BY <1>16 DEF ProcessStore
<1>17. ASSUME NEW c \in Chunk, PeerSend(c)
       PROVE  IInv'
  BY <1>17 DEF PeerSend
<1>18. CASE PeerLeaves
  <2>1. wire' \in Seq(Chunk)
    <3>1. <<>> \in Seq(Chunk)
      OBVIOUS
    <3>2. QED
      BY <1>18, <3>1 DEF PeerLeaves
  <2>2. QED
    BY <1>18, <2>1 DEF PeerLeaves
<1>19. CASE UNCHANGED vars
  BY <1>19 DEF vars
<1>20. QED
  BY <1>1, <1>2, <1>3, <1>4, <1>5, <1>6, <1>7, <1>8, <1>9, <1>10, <1>11, <1>12,
     <1>13, <1>14, <1>15, <1>16, <1>17, <1>18, <1>19
     DEF Next, Dispatch, DispatchLeave, Process, Fetch, Peer

LEMMA InvariantHolds == Spec => []IInv
  BY InitIInv, NextIInv, PTL DEF Spec

-----------------------------------------------------------------------------
(* The variables keep their types; in particular status stays within 0..2 and
   Winsock's count within 1..2, however the threads interleave. *)
THEOREM TypeCorrect == Spec => []TypeOK
<1>1. IInv => TypeOK
  BY DEF IInv
<1>2. QED
  BY <1>1, InvariantHolds, PTL

(* status = 2 (main.cpp:65) is only ever reached with both threads gone. *)
THEOREM FreeOnlyWhenBothLeft == Spec => []FreeMeansBothLeft
<1>1. IInv => FreeMeansBothLeft
  BY DEF IInv, TypeOK, StatusBound, Left, Live, FreeMeansBothLeft
<1>2. QED
  BY <1>1, InvariantHolds, PTL

(* The loop test of dispatchMessage (ServerLogic.cpp:33) is exact. *)
THEOREM ZeroWhileBothServe == Spec => []ZeroMeansBothServe
<1>1. IInv => ZeroMeansBothServe
  BY DEF IInv
<1>2. QED
  BY <1>1, InvariantHolds, PTL

(* The status++ after the loop (ServerLogic.cpp:80) never races. *)
THEOREM LoopExitNeverRaces == Spec => []LoopExitIsLast
<1>1. IInv => LoopExitIsLast
  BY DEF IInv
<1>2. QED
  BY <1>1, InvariantHolds, PTL

(* Sockets outlive the threads that use them (main.cpp:70-72). *)
THEOREM SocketsStayUsable == Spec => []SocketsUsable
<1>1. IInv => SocketsUsable
  BY DEF IInv
<1>2. QED
  BY <1>1, InvariantHolds, PTL

-----------------------------------------------------------------------------
(* Every step of the server is a step of Sessions or leaves its variables as
   they are: the two threads' steps that end in "done" are its Leave. *)
LEMMA StepSimulation == IInv /\ [Next]_vars => [Abstract!Next]_(Abstract!vars)
<1> SUFFICES ASSUME IInv, [Next]_vars
             PROVE  [Abstract!Next]_(Abstract!vars)
  OBVIOUS
<1> USE DEF IInv, TypeOK, StatusBound, NoStrayThread, AcceptsWhenFree, Left, Live, Phase,
        Abstract!vars
<1>1. CASE EnterGetClients
  BY <1>1 DEF EnterGetClients
<1>2. CASE NewServerLogic
  BY <1>2 DEF NewServerLogic, Abstract!Next, Abstract!Begin
<1>3. CASE DestroyServerLogic
  BY <1>3 DEF DestroyServerLogic, Abstract!Next, Abstract!End
<1>4. CASE DispatchCheck
  BY <1>4 DEF DispatchCheck
<1>5. CASE DispatchLock
  BY <1>5 DEF DispatchLock
<1>6. CASE DispatchPush
  BY <1>6 DEF DispatchPush
<1>7. CASE DispatchRefuse
  BY <1>7 DEF DispatchRefuse
<1>8. CASE DispatchLoad
  BY <1>8 DEF DispatchLoad
<1>9. CASE DispatchStoreHeld
  <2>1. Phase = "serving" /\ Phase' = "serving"
    BY <1>9 DEF DispatchStoreHeld
  <2>2. /\ Live(dispatchPc) + Live(processPc) > 0
        /\ (Live(dispatchPc) + Live(processPc))' = (Live(dispatchPc) + Live(processPc)) - 1
    BY <1>9 DEF DispatchStoreHeld
  <2>3. (status = 2)' => (Live(dispatchPc) + Live(processPc))' = 0
    BY <1>9 DEF DispatchStoreHeld
  <2>4. Abstract!Leave
    BY <2>1, <2>2, <2>3, Zenon DEF Abstract!Leave
  <2>5. QED
    BY <2>4 DEF Abstract!Next
<1>10. CASE DispatchStoreEnd
  <2>1. Phase = "serving" /\ Phase' = "serving"
    BY <1>10 DEF DispatchStoreEnd
  <2>2. /\ Live(dispatchPc) + Live(processPc) > 0
        /\ (Live(dispatchPc) + Live(processPc))' = (Live(dispatchPc) + Live(processPc)) - 1
    BY <1>10 DEF DispatchStoreEnd
  <2>3. (status = 2)' => (Live(dispatchPc) + Live(processPc))' = 0
    BY <1>10 DEF DispatchStoreEnd
  <2>4. Abstract!Leave
    BY <2>1, <2>2, <2>3, Zenon DEF Abstract!Leave
  <2>5. QED
    BY <2>4 DEF Abstract!Next
<1>11. CASE ProcessWait
  BY <1>11 DEF ProcessWait
<1>12. CASE ProcessFetch
  BY <1>12 DEF ProcessFetch, MutexIsMine
<1>13. CASE ProcessFetchEmpty
  BY <1>13 DEF ProcessFetchEmpty, MutexIsMine, Abstract!Next, Abstract!Crash
<1>14. CASE ProcessExec
  BY <1>14 DEF ProcessExec
<1>15. CASE ProcessLoad
  BY <1>15 DEF ProcessLoad
<1>16. CASE ProcessStore
  <2>1. Phase = "serving" /\ Phase' = "serving"
    BY <1>16 DEF ProcessStore
  <2>2. /\ Live(dispatchPc) + Live(processPc) > 0
        /\ (Live(dispatchPc) + Live(processPc))' = (Live(dispatchPc) + Live(processPc)) - 1
    BY <1>16 DEF ProcessStore
  <2>3. (status = 2)' => (Live(dispatchPc) + Live(processPc))' = 0
    BY <1>16 DEF ProcessStore
  <2>4. Abstract!Leave
    BY <2>1, <2>2, <2>3, Zenon DEF Abstract!Leave
  <2>5. QED
    BY <2>4 DEF Abstract!Next
<1>17. ASSUME NEW c \in Chunk, PeerSend(c)
       PROVE  [Abstract!Next]_(Abstract!vars)
  BY <1>17 DEF PeerSend
<1>18. CASE PeerLeaves
  BY <1>18 DEF PeerLeaves
<1>19. CASE UNCHANGED vars
  BY <1>19 DEF vars
<1>20. QED
  BY <1>1, <1>2, <1>3, <1>4, <1>5, <1>6, <1>7, <1>8, <1>9, <1>10, <1>11, <1>12,
     <1>13, <1>14, <1>15, <1>16, <1>17, <1>18, <1>19
     DEF Next, Dispatch, DispatchLeave, Process, Fetch, Peer

(* The server keeps what main relies on (main.cpp:64-76), for any number of
   clients and messages. *)
THEOREM SessionsImplemented == Spec => ImplementsSessions
<1>1. Init => Abstract!Init
  BY DEF Init, Abstract!Init, Live, Phase
<1>2. QED
  BY <1>1, InvariantHolds, StepSimulation, PTL
     DEF Spec, ImplementsSessions, Abstract!Spec

-----------------------------------------------------------------------------
(* The login.  ServedSentPassword is about the end of an attempt; it rests on
   what the buffer is known to hold when it is judged (Heard), and on a peer
   that has sent its text or has left being unable to send another. *)

(* There is a client in hand from accept to the end of the attempt, and it is
   admitted when its session begins. *)
ClientInHand ==
  /\ client = NoPeer <=> loop \in {"create", "assign", "accept"}
  /\ loop = "served" => conn[client] = "admitted"

(* What is judged came from the client, or nothing will. *)
Heard ==
  loop = "judge" =>
    recievedMsg = sentText[client] \/ (sentText[client] = Nothing /\ left[client])

(* The image is made before the pointer moves to its password. *)
ImageFirst == loop = "assign" => file = made

LoginInv ==
  /\ LoginTypeOK
  /\ ClientInHand
  /\ OnlyClientIsOpen
  /\ Heard
  /\ ServedSentPassword
  /\ ImageFirst
  /\ AcceptsWhatIsShown

(* The invariant holds when the button is pressed. *)
LEMMA InitLoginInv == LoginInit => LoginInv
<1> SUFFICES ASSUME LoginInit
             PROVE  LoginInv
  OBVIOUS
<1>1. LoginTypeOK
  BY BoundAssumption DEF LoginInit, LoginTypeOK, Password, Text, Wrong, Nothing, NoPeer
<1>2. OnlyClientIsOpen
  BY DEF LoginInit, OnlyClientIsOpen
<1>3. ClientInHand /\ Heard /\ ServedSentPassword /\ ImageFirst /\ AcceptsWhatIsShown
  BY DEF LoginInit, ClientInHand, Heard, ServedSentPassword, ImageFirst, AcceptsWhatIsShown
<1>4. QED
  BY <1>1, <1>2, <1>3 DEF LoginInv

(* Every step of the login, of the screen and of the peers keeps it. *)
LEMMA NextLoginInv == LoginInv /\ [LoginNext]_loginVars => LoginInv'
<1> SUFFICES ASSUME LoginInv, [LoginNext]_loginVars
             PROVE  LoginInv'
  OBVIOUS
<1> USE PeersAssumption, BoundAssumption
    DEF LoginInv, LoginTypeOK, ClientInHand, OnlyClientIsOpen, Heard, ServedSentPassword,
        ImageFirst, AcceptsWhatIsShown, Text, Wrong, login, screen, peers
<1>1. CASE Create
  BY <1>1 DEF Create
<1>2. CASE Assign
  BY <1>2 DEF Assign
<1>3. ASSUME NEW p \in Peers, Accept(p)
      PROVE  LoginInv'
  BY <1>3 DEF Accept
<1>4. CASE Recv
  BY <1>4 DEF Recv
<1>5. CASE RecvFails
  BY <1>5 DEF RecvFails
<1>6. CASE Judge
  BY <1>6 DEF Judge
<1>7. CASE SessionEnds
  BY <1>7 DEF SessionEnds
<1>8. CASE GuiStart
  BY <1>8 DEF GuiStart
<1>9. CASE GuiLoadImage
  BY <1>9 DEF GuiLoadImage
<1>10. CASE GuiPoll
  BY <1>10 DEF GuiPoll
<1>11. ASSUME NEW p \in Peers, Connect(p)
       PROVE  LoginInv'
  BY <1>11 DEF Connect
<1>12. ASSUME NEW p \in Peers, SendText(p)
       PROVE  LoginInv'
  <2>1. recievedMsg # Nothing
    BY DEF Nothing, Password
  <2>2. PICK text \in Text : sentText' = [sentText EXCEPT ![p] = text]
    BY <1>12 DEF SendText
  <2>3. ~(loop \in {"judge", "served"} /\ client = p)
    BY <1>12, <2>1 DEF SendText
  <2>4. QED
    BY <1>12, <2>2, <2>3 DEF SendText
<1>13. ASSUME NEW p \in Peers, Leave(p)
       PROVE  LoginInv'
  BY <1>13 DEF Leave
<1>14. CASE UNCHANGED loginVars
  BY <1>14 DEF loginVars
<1>15. QED
  BY <1>1, <1>2, <1>3, <1>4, <1>5, <1>6, <1>7, <1>8, <1>9, <1>10, <1>11, <1>12,
     <1>13, <1>14 DEF LoginNext, Login, barcodeCheck

LEMMA LoginInvHolds == LoginSpec => []LoginInv
  BY InitLoginInv, NextLoginInv, PTL DEF LoginSpec

-----------------------------------------------------------------------------
(* The variables keep their types. *)
THEOREM LoginTypeCorrect == LoginSpec => []LoginTypeOK
<1>1. LoginInv => LoginTypeOK
  BY DEF LoginInv
<1>2. QED
  BY <1>1, LoginInvHolds, PTL

(* No way out of an attempt leaves a socket open (main.cpp:127-160). *)
THEOREM SocketsAreClosed == LoginSpec => []OnlyClientIsOpen
<1>1. LoginInv => OnlyClientIsOpen
  BY DEF LoginInv
<1>2. QED
  BY <1>1, LoginInvHolds, PTL

(* Who is served has sent the password in force, or hung up (main.cpp:133-143). *)
THEOREM ServedHasSentPassword == LoginSpec => []ServedSentPassword
<1>1. LoginInv => ServedSentPassword
  BY DEF LoginInv
<1>2. QED
  BY <1>1, LoginInvHolds, PTL

(* Password and image agree before a phone is accepted (BarcodeCreator.cpp:3-59). *)
THEOREM ImageFitsPassword == LoginSpec => []AcceptsWhatIsShown
<1>1. LoginInv => AcceptsWhatIsShown
  BY DEF LoginInv
<1>2. QED
  BY <1>1, LoginInvHolds, PTL
=============================================================================
