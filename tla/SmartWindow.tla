------------------------------- MODULE SmartWindow -------------------------------
(***************************************************************************)
(* The closed loop: the three threads of the window controller             *)
(* (main_controller.cpp), the Win_Open table, the node inside the window   *)
(* and the datagrams between them.                                         *)
(*                                                                         *)
(* The decision loop reads Win_Open some time before it decides, and sends *)
(* some time after; the receive loop turns the acknowledgements of the     *)
(* node into rows of Win_Open.  The controller and the node share a link:  *)
(* a datagram is lost or comes to the receiver's socket in the order of    *)
(* sending.  A multicast also comes back to the sender, and the command    *)
(* PUT_Win/Open has the text of its acknowledgement.                       *)
(*                                                                         *)
(* What the sensors, the limits and the buttons tell the decision loop is  *)
(* any element of Readings in every pass.                                  *)
(***************************************************************************)
EXTENDS Integers, Sequences, SequencesExt

CONSTANTS
    Readings,           \* what the queries of one pass can return
    LOWER, UPPER, STEP, \* the servo's bounds and step
    Shaft,              \* where the servo may stand at the start
    InboxSize,          \* bound on the datagrams that wait at the node
    SocketSize,         \* bound on the datagrams that wait at the controller
    Polling,            \* does the main thread ask for measurements?
    ReadsFail,          \* can a query for Win_Open fail?
    Crashing,           \* what can fail: "controller", "node", "recvfrom"
    MaxCrashes          \* bound on the number of failures

VARIABLES
    \* the decision loop, as in DecisionLoop
    active, alarm, reading, sent, shown,
    step,       \* what it is about to do: "read", "decide" or "send"
    seen,       \* win_open_bo, what it has read of Win_Open
    \* the node, as in SensorNode
    inbox, commPc, request, command, mailbox, answer,
    mainPc, order, driving, canOpen, pos, servo, data,
    \* the receive loop and the table it writes
    socket,     \* datagrams at the controller's socket
    receiving,  \* has the receive loop not ended?
    winOpen,    \* the newest row of Win_Open
    stamped,    \* does Win_Open have a row of the current second?
    crashes     \* the number of failures so far

Controller == INSTANCE DecisionLoop WITH FailingWrites <- {}

Node == INSTANCE SensorNode WITH
    IsIn <- TRUE, Received <- {"GET_All", "PUT_Win/Open", "PUT_Win/Close"},
    MayFail <- FALSE, MayReboot <- TRUE

ASSUME PartsAssumption ==
    /\ Readings \subseteq Controller!ReadingType /\ Readings # {}
    /\ LOWER \in Nat /\ UPPER \in Nat /\ LOWER + 1 < UPPER
    /\ STEP \in 1..LOWER /\ Shaft \subseteq LOWER..UPPER /\ Shaft # {}

ASSUME BoundsAssumption ==
    InboxSize \in Nat /\ SocketSize \in Nat /\ MaxCrashes \in Nat

chartVars == <<active, alarm, reading, sent, shown>>
loopVars == <<chartVars, step, seen>>
nodeVars == <<inbox, commPc, request, command, mailbox, answer,
              mainPc, order, driving, canOpen, pos, servo, data>>
receiveVars == <<receiving, winOpen, stamped>>
vars == <<loopVars, nodeVars, socket, receiveVars, crashes>>

GetAll == Node!GetAll
Open == Node!Open
Close == Node!Close
MeasuredValue == "PUT_<sensor>_IN/<value>"

-----------------------------------------------------------------------------
(* Whatever the last run of the controller has left in Win_Open.           *)
Init ==
    /\ Controller!Init /\ step = "read" /\ seen = FALSE
    /\ Node!Init
    /\ socket = <<>> /\ receiving = TRUE
    /\ winOpen \in BOOLEAN /\ stamped = FALSE
    /\ crashes = 0

-----------------------------------------------------------------------------
\* The link

(* A datagram at the controller's socket, or dropped there. *)
Queued(own, text) ==
    IF Len(socket) < SocketSize
    THEN Append(socket, [own |-> own, text |-> text])
    ELSE socket

(* sw_send to all nodes: the node hears it or does not, the sender does. *)
Multicast(text) ==
    /\ Node!Arrive(text) \/ UNCHANGED nodeVars
    /\ socket' = Queued(TRUE, text)

-----------------------------------------------------------------------------
\* The decision loop

(* The query for Win_Open, one of the first of a pass; 0 if it fails. *)
Read ==
    /\ step = "read" /\ step' = "decide"
    /\ \/ seen' = winOpen
       \/ ReadsFail /\ seen' = FALSE
    /\ UNCHANGED <<chartVars, nodeVars, socket, receiveVars, crashes>>

Decide(r) ==
    /\ step = "decide" /\ r.winOpen = seen
    /\ Controller!Pass(r)
    /\ step' = IF sent' = {} THEN "read" ELSE "send"
    /\ UNCHANGED <<seen, nodeVars, socket, receiveVars, crashes>>

(* A pass sends one command at most.                                       *)
Send ==
    /\ step = "send" /\ step' = "read"
    /\ \E c \in sent : Multicast(c)
    /\ UNCHANGED <<chartVars, seen, receiveVars, crashes>>

-----------------------------------------------------------------------------
\* The main thread and the receive loop

Poll ==
    /\ Polling
    /\ Multicast(GetAll)
    /\ UNCHANGED <<loopVars, receiveVars, crashes>>

\* Fault for MovesOnDemand: own commands are taken for acknowledgements.
HandleOwn ==
    /\ receiving /\ socket # <<>>
    /\ socket' = Tail(socket)
    /\ IF Head(socket).text \in {Open, Close} /\ ~stamped
       THEN winOpen' = (Head(socket).text = Open) /\ stamped' = TRUE
       ELSE UNCHANGED <<winOpen, stamped>>
    /\ UNCHANGED <<loopVars, nodeVars, receiving, crashes>>

(* Own messages are ignored.  An acknowledgement becomes a row of Win_Open *)
(* unless the table has one of this second; a measured value goes to a     *)
(* table that is part of Readings here.                                    *)
Handle ==
    /\ receiving /\ socket # <<>>
    /\ socket' = Tail(socket)
    /\ LET d == Head(socket)
       IN  IF ~d.own /\ d.text \in {Open, Close} /\ ~stamped
           THEN winOpen' = (d.text = Open) /\ stamped' = TRUE
           ELSE UNCHANGED <<winOpen, stamped>>
    /\ UNCHANGED <<loopVars, nodeVars, receiving, crashes>>

(* The clock reaches the next second. *)
Tick ==
    /\ stamped /\ stamped' = FALSE
    /\ UNCHANGED <<loopVars, nodeVars, socket, receiving, winOpen, crashes>>

-----------------------------------------------------------------------------
\* The node

(* pp_send to the controller: the answer is heard, dropped or lost. *)
Answering(text) ==
    /\ \/ socket' = Queued(FALSE, text)
       \/ UNCHANGED socket
    /\ UNCHANGED <<loopVars, receiveVars, crashes>>

Acknowledge == Node!Acknowledge /\ Answering(answer'[1][1])
Report == Node!Report /\ Answering(MeasuredValue)

NodeComm ==
    \/ Acknowledge \/ Report
    \/ /\ Node!Receive \/ Node!HandOver \/ Node!TakeReply
       /\ UNCHANGED <<loopVars, socket, receiveVars, crashes>>

NodeMain ==
    /\ Node!MainStep
    /\ UNCHANGED <<loopVars, socket, receiveVars, crashes>>

-----------------------------------------------------------------------------
\* Failures

Crash(part) == part \in Crashing /\ crashes < MaxCrashes /\ crashes' = crashes + 1

(* An error of recvfrom ends the receive loop; the other threads go on. *)
ReceiveError ==
    /\ Crash("recvfrom")
    /\ receiving /\ receiving' = FALSE
    /\ UNCHANGED <<loopVars, nodeVars, socket, winOpen, stamped>>

(* The program starts again on the tables as they are. *)
Restart ==
    /\ Crash("controller")
    /\ active' = {Controller!InitFlag}
    /\ alarm' = [airQ |-> FALSE, temp |-> FALSE, humid |-> FALSE, vol |-> FALSE]
    /\ sent' = {} /\ step' = "read" /\ seen' = FALSE
    /\ socket' = <<>> /\ receiving' = TRUE
    /\ UNCHANGED <<reading, shown, nodeVars, winOpen, stamped>>

Reset ==
    /\ Crash("node")
    /\ Node!Reboot
    /\ UNCHANGED <<loopVars, socket, receiveVars>>

-----------------------------------------------------------------------------
PassStep == Read \/ (\E r \in Readings : Decide(r)) \/ Send
PassAdvances == step' \in {"read", "decide", "send"} \ {step}

Next ==
    \/ PassStep \/ Poll \/ Handle \/ ReceiveError \/ Tick
    \/ NodeComm \/ NodeMain \/ Restart \/ Reset

(* The threads and the node run and the clock advances.  Of infinitely     *)
(* many commands some come through to a node that has room again and       *)
(* again, and so do some of infinitely many acknowledgements to a receive  *)
(* loop that empties its socket again and again.                           *)
Fairness ==
    /\ WF_step(PassAdvances) /\ WF_socket(Handle) /\ WF_stamped(Tick)
    /\ Node!Fairness
    /\ []<><<Send>>_step /\ []<>(Len(inbox) < InboxSize) => []<><<Send>>_inbox
    /\ []<><<Acknowledge>>_commPc /\ []<>(Len(socket) < SocketSize)
          => []<><<Acknowledge>>_socket

Spec == Init /\ [][Next]_vars /\ Fairness

-----------------------------------------------------------------------------
\* Properties

Opening == active \cap ({1, 2, 3, 4} \X {2}) # {}
Closing == active \cap ({<<0, 0>>} \cup ({1, 2, 3, 4} \X {4})) # {}
Resting == active \cap ({<<0, 1>>} \cup ({1, 2, 3, 4} \X {1})) # {}
Holding == active \cap ({1, 2, 3, 4} \X {3}) # {}

WindowOpen == servo <= LOWER + STEP
WindowClosed == canOpen /\ servo >= UPPER - 2 * STEP

(* Every variable keeps its type.                                          *)
TypeOK ==
    /\ Controller!TypeOK /\ step \in {"read", "decide", "send"} /\ seen \in BOOLEAN
    /\ Node!TypeOK
    /\ socket \in Seq([own: BOOLEAN, text: {GetAll, Open, Close, MeasuredValue}])
    /\ Len(socket) <= SocketSize
    /\ receiving \in BOOLEAN /\ winOpen \in BOOLEAN /\ stamped \in BOOLEAN
    /\ crashes \in 0..MaxCrashes

(* When the state chart rests in a closed step, the window is closed,      *)
(* Win_Open says so, and no Open is left anywhere that could open it: not  *)
(* in the node's socket, not in its threads - however many copies have     *)
(* been sent, and whatever has been lost, refused by the table or read     *)
(* before it changed.                                                      *)
ClosedAtRest ==
    Resting =>
        /\ WindowClosed /\ ~winOpen
        /\ Open \notin Range(inbox)
        /\ ~(commPc # "recvfrom" /\ request = Open)

(* When it rests in an open step, the window is open, Win_Open says so,    *)
(* and no Close is left that could close it.                               *)
OpenAtRest ==
    Holding =>
        /\ WindowOpen /\ ~canOpen /\ winOpen
        /\ Close \notin Range(inbox)
        /\ ~(commPc # "recvfrom" /\ request = Close)

(* The node drives towards open only while the state chart is in an        *)
(* opening step, and towards closed only while it is in a closing one: no  *)
(* command works after its time.                                           *)
MovesOnDemand ==
    [][/\ pos' < pos => Opening
       /\ pos' > pos => Closing]_vars

(* Description.html: noise outside forces closing in automatic mode - when *)
(* it lasts, the window gets closed and stays closed.                      *)
NoiseCloses == <>[](reading.auto /\ alarm.vol) => <>[]WindowClosed

(* An alarm that lasts, of the kind the priority names and on a quiet day, *)
(* opens the window again and again, through all restarts, lost datagrams  *)
(* and failed queries, as long as the receive loop lives.                  *)
AlarmOpens ==
    <>[](/\ receiving
         /\ reading.auto /\ reading.priority = 1 /\ alarm.temp /\ ~alarm.vol)
      => []<>WindowOpen
==================================================================================
