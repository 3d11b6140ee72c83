-------------------------- MODULE ClientLogicProofs --------------------------
(***************************************************************************)
(* Proofs about ClientLogic, for any number of commands.                   *)
(*                                                                         *)
(* LoginTellsTruth needs two chains of facts: what the server has judged   *)
(* bounds the codes on their way, these bound the two flags (Verdicts),    *)
(* and the login thread goes no further than its flags let it (Progress).  *)
(***************************************************************************)
EXTENDS ClientLogic, SequenceTheorems, TLAPS

(* The codes that may follow a verdict: only an admitted phone hears a 201. *)
CodesOf(v) == IF v = 100 THEN {100, 201} ELSE {v}

(* The server, the codes on their way and the flags agree with the verdict. *)
Verdicts ==
  /\ server \in {"none", "judging"} => verdict = 0
  /\ server \in {"serving", "refused"} => verdict = 100
  /\ verdict = 0 => replies = <<>> /\ ~passStatus /\ dm # "process"
  /\ verdict # 0 => replies \in Seq(CodesOf(verdict))
  /\ dm = "process" => reply \in CodesOf(verdict)
  /\ connctionStatus => verdict = 100
  /\ passStatus /\ verdict = 100 => connctionStatus

(* The login thread ends with a verdict or without a connection, and until it
   adds the password nothing has been added. *)
Progress ==
  /\ run \in {"connect", "startDM", "startSM", "addPassword"} => added = <<>>
  /\ server = "none" => run \in {"connect", "done"}
  /\ run = "connect" => server = "none"
  /\ run \in {"connect", "startDM", "startSM"} => sm = "new"
  /\ run = "done" => passStatus \/ server = "none"
  /\ task # "join" => run = "done"

IInv ==
  /\ TypeOK
  /\ Verdicts
  /\ Progress
  /\ LoginTellsTruth
  /\ PasswordAlone
  /\ RemoveFindsMessage

(* What DmRead leaves of the codes it finds is a sequence of the same codes. *)
LEMMA RestIsSequence ==
  ASSUME NEW S, NEW s \in Seq(S), NEW n \in 1..Len(s)
  PROVE  SubSeq(s, n + 1, Len(s)) \in Seq(S)
<1>1. Len(s) \in Nat /\ \A i \in n + 1..Len(s) : s[i] \in S
  BY ElementOfSeq
<1>2. QED
  BY <1>1, SubSeqProperties

(* The invariant holds when the login begins. *)
LEMMA InitIInv == Init => IInv
<1> SUFFICES ASSUME Init
             PROVE  IInv
  OBVIOUS
<1>1. TypeOK
  <2>1. <<>> \in Seq(Message) /\ <<>> \in Seq({100, 200, 201})
    BY EmptySeq
  <2>2. held \in Message
    BY DEF Init, Message
  <2>3. QED
    BY <2>1, <2>2 DEF Init, TypeOK
<1>2. Verdicts /\ Progress
  BY DEF Init, Verdicts, Progress
<1>3. LoginTellsTruth /\ PasswordAlone /\ RemoveFindsMessage
  BY DEF Init, LoginTellsTruth, PasswordAlone, RemoveFindsMessage
<1>4. QED
  BY <1>1, <1>2, <1>3 DEF IInv

(* Every step of the phone's threads, of the player and of the server keeps it. *)
LEMMA NextIInv == IInv /\ [Next]_vars => IInv'
<1> SUFFICES ASSUME IInv, [Next]_vars
             PROVE  IInv'
  OBVIOUS
<1> USE DEF IInv, TypeOK, Verdicts, Progress, LoginTellsTruth, PasswordAlone,
        RemoveFindsMessage, CodesOf, threads, flags, messages, net, Message,
        Password, Command, Bye
<1>1. CASE RunConnect
  <2>1. verdict = 0 /\ replies = <<>> /\ ~passStatus /\ dm # "process" /\ added = <<>>
    BY <1>1 DEF RunConnect
  <2>2. CASE run' = "startDM" /\ server' = "judging"
    BY <1>1, <2>1, <2>2 DEF RunConnect
  <2>3. CASE run' = "done" /\ server' = "none"
    <3>1. sock' = sock /\ server' = server /\ connctionStatus' = FALSE
      BY <1>1, <2>3 DEF RunConnect
    <3>2. /\ UNCHANGED <<dm, reply, sm, held, task, passStatus, errStatus, hadError>>
          /\ UNCHANGED <<messages, verdict, replies>>
      BY <1>1 DEF RunConnect
    <3>3. TypeOK'
      <4>1. connctionStatus' \in BOOLEAN
        BY <3>1, Zenon
      <4>2. server' \in {"none", "judging", "serving", "refused", "closed"}
        BY <2>3
      <4>3. QED
        BY <2>3, <3>1, <3>2, <4>1, <4>2
    <3>4. Verdicts' /\ Progress'
      BY <1>1, <2>1, <2>3, <3>1, <3>2
    <3>5. LoginTellsTruth' /\ PasswordAlone' /\ RemoveFindsMessage'
      BY <1>1, <2>1, <2>3, <3>1, <3>2
    <3>6. QED
      BY <3>3, <3>4, <3>5
  <2>4. QED
    BY <1>1, <2>2, <2>3 DEF RunConnect
<1>2. CASE RunStartDM
  BY <1>2 DEF RunStartDM
<1>3. CASE RunStartSM
  BY <1>3 DEF RunStartSM
<1>4. CASE RunAddPassword
  BY <1>4 DEF RunAddPassword, addToSend
<1>5. CASE RunSpin
  BY <1>5 DEF RunSpin
<1>6. CASE DmCheck
  BY <1>6 DEF DmCheck
<1>7. CASE DmRead
  <2>1. reply' = Head(replies) /\ replies # <<>> /\ verdict' = verdict
    BY <1>7 DEF DmRead
  <2>2. verdict # 0
    BY <2>1
  <2>3. reply' \in CodesOf(verdict) /\ reply' \in {100, 200, 201}
    BY <2>1, <2>2
  <2>4. PICK n \in 1..Len(replies) : replies' = SubSeq(replies, n + 1, Len(replies))
    BY <1>7 DEF DmRead
  <2>5. replies' \in Seq({100, 200, 201})
    <3>1. replies \in Seq({100, 200, 201})
      OBVIOUS
    <3>2. QED
      BY <3>1, <2>4, RestIsSequence
  <2>6. replies' \in Seq(CodesOf(verdict))
    <3> HIDE DEF CodesOf
    <3>1. replies \in Seq(CodesOf(verdict))
      BY <2>2
    <3>2. QED
      BY <3>1, <2>4, RestIsSequence
  <2>7. QED
    BY <1>7, <2>2, <2>3, <2>5, <2>6 DEF DmRead
<1>8. CASE DmReadFails
  BY <1>8 DEF DmReadFails
<1>9. CASE processMassage
  BY <1>9 DEF processMassage, addToSend
<1>10. CASE DmOnError
  BY <1>10 DEF DmOnError
<1>11. CASE DmSetErr
  BY <1>11 DEF DmSetErr
<1>12. CASE SmCheck
  BY <1>12 DEF SmCheck
<1>13. CASE SmPoll
  BY <1>13 DEF SmPoll
<1>14. CASE SmTake
  <2>1. messagesToSend' \in Seq(Message) /\ held' \in Message
    <3> HIDE DEF Message
    <3>1. CASE errStatus
      BY <1>14, <3>1 DEF SmTake
    <3>2. CASE ~errStatus
      <4>1. messagesToSend \in Seq(Message) /\ messagesToSend # <<>>
        BY <1>14, <3>2 DEF SmTake
      <4>2. Head(messagesToSend) \in Message /\ Tail(messagesToSend) \in Seq(Message)
        BY <4>1, HeadTailProperties
      <4>3. QED
        BY <1>14, <3>2, <4>2 DEF SmTake
    <3>3. QED
      BY <3>1, <3>2
  <2>2. QED
    BY <1>14, <2>1 DEF SmTake
<1>15. CASE SmWrite
  BY <1>15 DEF SmWrite
<1>16. CASE SmWriteFails
  BY <1>16 DEF SmWriteFails
<1>17. CASE SmOnError
  BY <1>17 DEF SmOnError
<1>18. CASE SmSetErr
  BY <1>18 DEF SmSetErr
<1>19. CASE TaskEnds
  BY <1>19 DEF TaskEnds
<1>20. CASE Touch
  BY <1>20 DEF Touch, addToSend
<1>21. CASE ActivitiesEnd
  BY <1>21 DEF ActivitiesEnd
<1>22. CASE BackPressed
  BY <1>22 DEF BackPressed, addToSend
<1>23. CASE BackSetErr
  BY <1>23 DEF BackSetErr
<1>24. CASE BackClose
  BY <1>24 DEF BackClose
<1>25. CASE Judge
  BY <1>25 DEF Judge
<1>26. CASE ServerRefuses
  BY <1>26 DEF ServerRefuses
<1>27. CASE ServerCloses
  BY <1>27 DEF ServerCloses
<1>28. CASE UNCHANGED vars
  BY <1>28 DEF vars, threads, flags, messages, net
<1>29. QED
  BY <1>1, <1>2, <1>3, <1>4, <1>5, <1>6, <1>7, <1>8, <1>9, <1>10, <1>11, <1>12, <1>13, <1>14, <1>15, <1>16, <1>17, <1>18, <1>19, <1>20, <1>21, <1>22, <1>23, <1>24, <1>25, <1>26, <1>27, <1>28
     DEF Next, Run, DispatchMessage, SendMessage, Back, Server

LEMMA InvariantHolds == Spec => []IInv
  BY InitIInv, NextIInv, PTL DEF Spec

-----------------------------------------------------------------------------
(* The variables keep their types; in particular no other code is ever read. *)
THEOREM TypeCorrect == Spec => []TypeOK
<1>1. IInv => TypeOK
  BY DEF IInv
<1>2. QED
  BY <1>1, InvariantHolds, PTL

(* The template activity opens just for those the server admitted
   (StartActivity.java:128, LoginActivity.java:97). *)
THEOREM LoginIsTruthful == Spec => []LoginTellsTruth
<1>1. IInv => LoginTellsTruth
  BY DEF IInv
<1>2. QED
  BY <1>1, InvariantHolds, PTL

(* While the server judges nothing follows the password (main.cpp:133). *)
THEOREM PasswordGoesAlone == Spec => []PasswordAlone
<1>1. IInv => PasswordAlone
  BY DEF IInv
<1>2. QED
  BY <1>1, InvariantHolds, PTL

(* getFirstSend removes only what is there (ClientLogic.java:59-69). *)
THEOREM RemoveAlwaysFinds == Spec => []RemoveFindsMessage
<1>1. IInv => RemoveFindsMessage
  BY DEF IInv
<1>2. QED
  BY <1>1, InvariantHolds, PTL

-----------------------------------------------------------------------------
(* What SendMessage holds between removing a message and having written it. *)
InHand == IF sm = "write" THEN <<held>> ELSE <<>>

(* Moving the head of a queue to the end of what precedes it changes nothing. *)
LEMMA MoveHead ==
  ASSUME NEW S, NEW w \in Seq(S), NEW q \in Seq(S), q # <<>>
  PROVE  (w \o <<Head(q)>>) \o Tail(q) = w \o q
<1>1. Head(q) \in S /\ Tail(q) \in Seq(S) /\ <<Head(q)>> \in Seq(S)
  BY HeadTailProperties
<1>2. <<Head(q)>> \o Tail(q) = q
  BY <1>1, SMTT(30)
<1>3. QED
  BY <1>1, <1>2, ConcatAssociative

(* What is appended to the queue is appended to the whole. *)
LEMMA AppendToRight ==
  ASSUME NEW S, NEW w \in Seq(S), NEW q \in Seq(S), NEW e \in S
  PROVE  w \o Append(q, e) = Append(w \o q, e)
<1>1. Append(q, e) = q \o <<e>> /\ Append(w \o q, e) = (w \o q) \o <<e>>
  BY AppendIsConcat, ConcatProperties
<1>2. QED
  BY <1>1, ConcatAssociative

(* Once in order, the messages stay in order. *)
LEMMA NextOrder == IInv /\ MessagesInOrder /\ [Next]_vars => MessagesInOrder'
<1> SUFFICES ASSUME IInv, MessagesInOrder, [Next]_vars
             PROVE  MessagesInOrder'
  OBVIOUS
<1> DEFINE whole == (written \o InHand) \o messagesToSend
<1>t. /\ written \in Seq(Message) /\ messagesToSend \in Seq(Message) /\ held \in Message
      /\ InHand \in Seq(Message)
      /\ written \o InHand \in Seq(Message)
  <2>1. written \in Seq(Message) /\ messagesToSend \in Seq(Message) /\ held \in Message
    BY DEF IInv, TypeOK
  <2>2. InHand \in Seq(Message)
    BY <2>1 DEF InHand
  <2>3. QED
    BY <2>1, <2>2, ConcatProperties
<1>o. sm \in {"new", "check", "poll", "take", "write"} => whole = added
  BY DEF MessagesInOrder, InHand
<1>1. CASE UNCHANGED <<sm, held, messages>>
  BY <1>1, <1>o DEF MessagesInOrder, InHand, messages
<1>2. CASE sm' # "write" /\ sm # "write" /\ UNCHANGED messages
           /\ (sm' \in {"new", "check", "poll", "take"} => sm \in {"new", "check", "poll", "take"})
  BY <1>2, <1>o DEF MessagesInOrder, InHand, messages
<1>3. CASE sm' \notin {"new", "check", "poll", "take", "write"}
  BY <1>3 DEF MessagesInOrder
<1>4. ASSUME NEW e \in Message, addToSend(e), UNCHANGED <<sm, held>>
      PROVE  MessagesInOrder'
  <2>1. InHand' = InHand /\ written' = written
    BY <1>4 DEF InHand, addToSend
  <2>2. (written \o InHand) \o Append(messagesToSend, e) = Append(whole, e)
    BY <1>t, AppendToRight
  <2>3. sm' \in {"new", "check", "poll", "take", "write"} => whole' = added'
    BY <1>4, <1>o, <2>1, <2>2 DEF addToSend
  <2>4. QED
    BY <2>3 DEF MessagesInOrder, InHand
<1>5. CASE SmTake /\ ~errStatus
  <2>1. /\ sm = "take" /\ sm' = "write" /\ messagesToSend # <<>>
        /\ held' = Head(messagesToSend) /\ messagesToSend' = Tail(messagesToSend)
        /\ added' = added /\ written' = written
    BY <1>5 DEF SmTake
  <2>2. whole = written \o messagesToSend
    BY <1>t, <2>1, ConcatEmptySeq DEF InHand
  <2>3. whole' = whole
    BY <1>t, <2>1, <2>2, MoveHead DEF InHand
  <2>4. QED
    BY <1>o, <2>1, <2>3 DEF MessagesInOrder, InHand
<1>6. CASE SmWrite
  <2>1. /\ sm = "write" /\ sm' = "check" /\ written' = Append(written, held)
        /\ added' = added /\ messagesToSend' = messagesToSend
    BY <1>6 DEF SmWrite
  <2>2. written' = written \o <<held>> /\ written' \in Seq(Message)
    BY <1>t, <2>1, AppendIsConcat, AppendProperties
  <2>3. InHand = <<held>> /\ InHand' = <<>>
    BY <2>1 DEF InHand
  <2>4. written' \o <<>> = written'
    BY <2>2, ConcatEmptySeq
  <2>5. whole' = whole
    BY <2>1, <2>2, <2>3, <2>4
  <2>6. QED
    BY <1>o, <2>1, <2>5 DEF MessagesInOrder, InHand
<1>7. CASE SendMessage
  <2>1. CASE SmTake /\ errStatus
    BY <2>1, <1>3 DEF SmTake
  <2>2. CASE SmCheck \/ SmPoll
    BY <2>2, <1>2 DEF SmCheck, SmPoll
  <2>3. CASE SmWriteFails \/ SmOnError \/ SmSetErr
    BY <2>3, <1>3 DEF SmWriteFails, SmOnError, SmSetErr
  <2>4. QED
    BY <1>5, <1>6, <1>7, <2>1, <2>2, <2>3 DEF SendMessage
<1>8. CASE Run
  <2>1. CASE RunStartSM
    <3>1. sm = "new" /\ sm' = "check"
      BY <2>1 DEF RunStartSM, IInv, Progress
    <3>2. QED
      BY <2>1, <3>1, <1>2 DEF RunStartSM
  <2>2. CASE RunAddPassword
    BY <2>2, <1>4 DEF RunAddPassword, Message
  <2>3. CASE RunConnect \/ RunStartDM \/ RunSpin
    BY <2>3, <1>1 DEF RunConnect, RunStartDM, RunSpin
  <2>4. QED
    BY <1>8, <2>1, <2>2, <2>3 DEF Run
<1>9. CASE DispatchMessage
  <2>1. CASE processMassage
    <3>1. reply # 103
      BY DEF IInv, TypeOK
    <3>2. QED
      BY <2>1, <3>1, <1>1 DEF processMassage
  <2>2. CASE DmCheck \/ DmRead \/ DmReadFails \/ DmOnError \/ DmSetErr
    BY <2>2, <1>1 DEF DmCheck, DmRead, DmReadFails, DmOnError, DmSetErr
  <2>3. QED
    BY <1>9, <2>1, <2>2 DEF DispatchMessage
<1>10. CASE Touch \/ BackPressed
  BY <1>10, <1>4 DEF Touch, BackPressed, Message, threads
<1>11. CASE TaskEnds \/ ActivitiesEnd \/ Back \/ Server \/ UNCHANGED vars
  BY <1>11, <1>1 DEF TaskEnds, ActivitiesEnd, Back, BackSetErr, BackClose, Server, Judge,
     ServerRefuses, ServerCloses, threads, vars
<1>12. QED
  BY <1>7, <1>8, <1>9, <1>10, <1>11 DEF Next

(* SendMessage writes each message once and in the order of the addToSend calls
   (ClientLogic.java:55-69, SendMessage.java:23-47), for any number of them. *)
THEOREM MessagesGoOutInOrder == Spec => []MessagesInOrder
<1>1. Init => MessagesInOrder
  <2>1. <<>> \o <<>> = <<>>
    BY ConcatEmptySeq, EmptySeq
  <2>2. QED
    BY <2>1 DEF Init, MessagesInOrder
<1>2. QED
  BY <1>1, InvariantHolds, NextOrder, PTL DEF Spec
=============================================================================
