----------------------------- MODULE GetClients -----------------------------
(***************************************************************************)
(* The login: getClients of main.cpp makes a password and its bar code,    *)
(* accepts one connection, receives a password on it and judges it, until  *)
(* one is right; barcodeCheck of iStickDlg.cpp shows password and bar code *)
(* and looks once a second whether they have changed.  The two threads     *)
(* share the pointer BC and the image file, without a lock.                *)
(*                                                                         *)
(* A password is the number of the BarcodeCreator that made it; 0 stands   *)
(* for any wrong text.  The machine's address stays the same.              *)
(***************************************************************************)
EXTENDS Naturals

CONSTANTS Peers,         \* those who connect
          MaxBarcodes    \* bound: BarcodeCreators made

Wrong == 0
Nothing == MaxBarcodes + 1
Password == 1..MaxBarcodes
Text == Password \cup {Wrong}
NoPeer == "nobody"

ASSUME PeersAssumption == NoPeer \notin Peers
ASSUME BoundAssumption == MaxBarcodes \in Nat \ {0}

VARIABLES
  loop,         \* getClients: "create", "assign", "accept", "recv", "judge", "served"
  made, BC,     \* the newest password, and that of the object BC points to
  file,         \* the password in QRCode.jpg
  recievedMsg,  \* the buffer of recv, which outlives the iterations
  client,       \* who is being judged or served
  gui,          \* barcodeCheck: "start", "startImage", "poll", "image"
  currPass, shownText, shownImage,
  conn,         \* per peer: "away", "queued", "accepted", "rejected", "dropped", "admitted"
  sentText,     \* what it has sent
  left          \* has it closed its end?

login == <<loop, made, BC, file, recievedMsg, client>>
screen == <<gui, currPass, shownText, shownImage>>
loginVars == <<login, screen, conn, sentText, left>>

(* The button was pressed: main and barcodeCheck start, BC was made before. *)
LoginInit ==
  /\ loop = "create" /\ made = 1 /\ BC = 1 /\ file = 1
  /\ recievedMsg = Wrong /\ client = NoPeer
  /\ gui = "start" /\ currPass = Wrong /\ shownText = Wrong /\ shownImage = Wrong
  /\ conn = [p \in Peers |-> "away"]
  /\ sentText = [p \in Peers |-> Nothing]
  /\ left = [p \in Peers |-> FALSE]

peers == <<conn, sentText, left>>

-----------------------------------------------------------------------------
(* getClients *)

(* Mutant of Create: the bar code keeps the password it had. *)
CreateKeepsImage ==
  /\ loop = "create"
  /\ \E n \in {made, made + 1} \cap Password : made' = n
  /\ loop' = "assign"
  /\ UNCHANGED <<file, BC, recievedMsg, client, screen, peers>>

(* new BarcodeCreator(): a password and the image file.  The seed is the time
   in seconds: two objects made in the same second have the same password. *)
Create ==
  /\ loop = "create"
  /\ \E n \in {made, made + 1} \cap Password : made' = n
  /\ file' = made'
  /\ loop' = "assign"
  /\ UNCHANGED <<BC, recievedMsg, client, screen, peers>>

Assign ==
  /\ loop = "assign"
  /\ BC' = made
  /\ loop' = "accept"
  /\ UNCHANGED <<made, file, recievedMsg, client, screen, peers>>

Accept(p) ==
  /\ loop = "accept"
  /\ conn[p] = "queued"
  /\ conn' = [conn EXCEPT ![p] = "accepted"]
  /\ client' = p
  /\ loop' = "recv"
  /\ UNCHANGED <<made, BC, file, recievedMsg, screen, sentText, left>>

(* recv has no time limit.  A peer that left without a word makes it return 0,
   which is not an error: the buffer keeps what it held. *)
Recv ==
  /\ loop = "recv"
  /\ \/ sentText[client] # Nothing /\ recievedMsg' = sentText[client]
     \/ sentText[client] = Nothing /\ left[client] /\ recievedMsg' = recievedMsg
  /\ loop' = "judge"
  /\ UNCHANGED <<made, BC, file, client, screen, peers>>

(* Mutant of RecvFails: continue without closesocket. *)
RecvFailsLeaks ==
  /\ loop = "recv" /\ left[client]
  /\ client' = NoPeer
  /\ loop' = "create"
  /\ UNCHANGED <<made, BC, file, recievedMsg, screen, peers>>

(* The connection was reset. *)
RecvFails ==
  /\ loop = "recv"
  /\ left[client]
  /\ conn' = [conn EXCEPT ![client] = "dropped"]
  /\ client' = NoPeer
  /\ loop' = "create"
  /\ UNCHANGED <<made, BC, file, recievedMsg, screen, sentText, left>>

(* Mutant of Judge: compare is taken for a test of equality. *)
JudgeInverted ==
  /\ loop = "judge"
  /\ IF recievedMsg # BC
       THEN /\ conn' = [conn EXCEPT ![client] = "admitted"]
            /\ loop' = "served" /\ UNCHANGED client
       ELSE /\ conn' = [conn EXCEPT ![client] = "rejected"]
            /\ client' = NoPeer /\ loop' = "create"
  /\ UNCHANGED <<made, BC, file, recievedMsg, screen, sentText, left>>

(* The comparison and the answer: 100 and the socket is returned, unless the
   peer is gone and send fails; or 200 and the socket is closed. *)
Judge ==
  /\ loop = "judge"
  /\ \/ /\ recievedMsg = BC
        /\ conn' = [conn EXCEPT ![client] = "admitted"]
        /\ loop' = "served" /\ UNCHANGED client
     \/ /\ recievedMsg = BC /\ left[client]
        /\ conn' = [conn EXCEPT ![client] = "dropped"]
        /\ client' = NoPeer /\ loop' = "create"
     \/ /\ recievedMsg # BC
        /\ conn' = [conn EXCEPT ![client] = "rejected"]
        /\ client' = NoPeer /\ loop' = "create"
  /\ UNCHANGED <<made, BC, file, recievedMsg, screen, sentText, left>>

(* The session (module ServerLogic) is over and main calls getClients again,
   with an uninitialised buffer that may hold what it held before. *)
SessionEnds ==
  /\ loop = "served"
  /\ conn' = [conn EXCEPT ![client] = "dropped"]
  /\ client' = NoPeer
  /\ recievedMsg' \in {recievedMsg, Wrong}
  /\ loop' = "create"
  /\ UNCHANGED <<made, BC, file, screen, sentText, left>>

-----------------------------------------------------------------------------
(* barcodeCheck *)

GuiStart ==
  /\ gui = "start"
  /\ currPass' = BC /\ shownText' = BC
  /\ gui' = "startImage"
  /\ UNCHANGED <<login, shownImage, peers>>

GuiLoadImage ==
  /\ gui \in {"startImage", "image"}
  /\ shownImage' = file
  /\ gui' = "poll"
  /\ UNCHANGED <<login, currPass, shownText, peers>>

(* Mutant of GuiPoll: both address and password must have changed. *)
GuiPollBoth ==
  /\ gui = "poll"
  /\ BC # currPass
  /\ gui' = "poll"
  /\ UNCHANGED <<login, currPass, shownText, shownImage, peers>>

(* currPass is never brought up to date, so that after the first change the
   screen is drawn anew at every turn. *)
GuiPoll ==
  /\ gui = "poll"
  /\ BC # currPass
  /\ shownText' = BC
  /\ gui' = "image"
  /\ UNCHANGED <<login, currPass, shownImage, peers>>

-----------------------------------------------------------------------------
(* The peers: a phone that has read the screen, or anybody else. *)

Connect(p) ==
  /\ conn[p] = "away"
  /\ conn' = [conn EXCEPT ![p] = "queued"]
  /\ UNCHANGED <<login, screen, sentText, left>>

SendText(p) ==
  /\ conn[p] \in {"queued", "accepted"}
  /\ sentText[p] = Nothing /\ ~left[p]
  /\ \E text \in {shownText, shownImage, Wrong} : sentText' = [sentText EXCEPT ![p] = text]
  /\ UNCHANGED <<login, screen, conn, left>>

Leave(p) ==
  /\ conn[p] \in {"queued", "accepted"}
  /\ ~left[p]
  /\ left' = [left EXCEPT ![p] = TRUE]
  /\ UNCHANGED <<login, screen, conn, sentText>>

-----------------------------------------------------------------------------
Login == Create \/ Assign \/ Recv \/ RecvFails \/ Judge \/ \E p \in Peers : Accept(p)
barcodeCheck == GuiStart \/ GuiLoadImage \/ GuiPoll

LoginNext ==
  \/ Login \/ SessionEnds \/ barcodeCheck
  \/ \E p \in Peers : Connect(p) \/ SendText(p) \/ Leave(p)

LoginSpec == LoginInit /\ [][LoginNext]_loginVars

(* Both threads run; peers may fall silent. *)
FairLoginSpec == LoginSpec /\ WF_loginVars(Login) /\ WF_loginVars(barcodeCheck)

-----------------------------------------------------------------------------
LoginTypeOK ==
  /\ loop \in {"create", "assign", "accept", "recv", "judge", "served"}
  /\ made \in Password /\ BC \in Password /\ file \in Password
  /\ recievedMsg \in Text
  /\ client \in Peers \cup {NoPeer}
  /\ gui \in {"start", "startImage", "poll", "image"}
  /\ currPass \in Text /\ shownText \in Text /\ shownImage \in Text
  /\ conn \in [Peers -> {"away", "queued", "accepted", "rejected", "dropped", "admitted"}]
  /\ sentText \in [Peers -> Text \cup {Nothing}]
  /\ left \in [Peers -> BOOLEAN]

(* Every accepted socket is returned or closed: the only one that is open is
   that of the client in hand, whichever way the attempt before it failed. *)
OnlyClientIsOpen ==
  {p \in Peers : conn[p] \in {"accepted", "admitted"}} =
    IF client = NoPeer THEN {} ELSE {client}

(* Who is served has sent the password in force, although the buffer outlives
   the attempts and two attempts may share a password: only a peer that hung up
   without a word can pass on what the buffer held, and its session is over. *)
ServedSentPassword ==
  loop = "served" => sentText[client] = BC \/ (sentText[client] = Nothing /\ left[client])

(* The password of an attempt is in the file before phones are accepted. *)
AcceptsWhatIsShown == loop \in {"accept", "recv", "judge", "served"} => file = BC

(* When the password stays, text and bar code on the screen come to show it. *)
ScreenFollows ==
  \A n \in Password : <>[](BC = n) => <>[](shownText = n /\ shownImage = n)
=============================================================================
