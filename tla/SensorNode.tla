------------------------------- MODULE SensorNode -------------------------------
(***************************************************************************)
(* The RIOT program of a sensor node (microController/phytec/main.c): the  *)
(* communication thread takes a datagram, hands the command to the main    *)
(* thread, waits for its message and answers the sender; the main thread   *)
(* measures, and on the node inside the window drives the servo.  The      *)
(* program is built twice, with IN defined and without.                    *)
(*                                                                         *)
(* The main thread has no message queue, so msg_send to it waits until it  *)
(* is in msg_receive; the communication thread has one.  A measurement is  *)
(* a bit that changes with every getMeasuredData.                          *)
(***************************************************************************)
EXTENDS Integers, Sequences, SequencesExt

CONSTANTS
    IsIn,                   \* is IN defined?
    Received,               \* the texts of the datagrams that come in
    LOWER, UPPER, STEP,     \* STEP_LOWER_BOUND, STEP_UPPER_BOUND, STEP
    Shaft,                  \* where the servo may stand when the board starts
    InboxSize,              \* bound on the datagrams waiting
    MayFail,                \* can initAll fail?
    MayReboot               \* can the board be reset?

ASSUME ServoAssumption ==
    /\ LOWER \in Nat /\ UPPER \in Nat /\ LOWER + 1 < UPPER
    /\ STEP \in 1..LOWER /\ Shaft \subseteq LOWER..UPPER /\ Shaft # {}

ASSUME NodeAssumption ==
    /\ IsIn \in BOOLEAN /\ MayFail \in BOOLEAN /\ MayReboot \in BOOLEAN
    /\ InboxSize \in Nat

VARIABLES
    inbox,      \* datagrams at the socket
    commPc,     \* what the communication thread is about to do
    request,    \* the datagram it serves
    command,    \* its communicationCommand
    mailbox,    \* its message queue
    answer,     \* what it has sent in answer to the request
    mainPc,     \* what the main thread is about to do
    order,      \* its communicationCommand
    driving,    \* b_windowIsDriving
    canOpen,    \* b_openWindow
    pos,        \* pos
    servo,      \* the position last set: where the window really is
    data        \* the latest measurement

commVars == <<commPc, request, command, answer>>
mainVars == <<mainPc, order, driving, canOpen, pos, servo, data>>
vars == <<inbox, commVars, mailbox, mainVars>>

GetAll == "GET_All"
Open == "PUT_Win/Open"
Close == "PUT_Win/Close"

START == (LOWER + UPPER) \div 2

Sensors == <<"Temp", "AirPressure", "Volume", "Humidity", "AirQuality">>

(* The commands the build understands, and what they start. *)
StartOf ==
    IF IsIn
    THEN [c \in {GetAll, Open, Close} |->
            CASE c = GetAll -> "START_MEASUREMENT"
              [] c = Open -> "START_OPEN_WINDOW"
              [] c = Close -> "START_CLOSE_WINDOW"]
    ELSE [c \in {GetAll} |-> "START_MEASUREMENT"]

-----------------------------------------------------------------------------
\* Start of the board

Init ==
    /\ inbox = <<>> /\ mailbox = <<>>
    /\ commPc = "recvfrom" /\ request = "" /\ command = "START_MEASUREMENT"
    /\ answer = <<>>
    /\ mainPc = "initAll" /\ order = ""
    /\ driving = FALSE /\ canOpen = TRUE /\ pos = START
    /\ data = 0
    /\ servo \in Shaft

(* A reset: the program starts again, the window stays where it is. *)
Reboot ==
    /\ MayReboot
    /\ inbox' = <<>> /\ mailbox' = <<>>
    /\ commPc' = "recvfrom" /\ request' = "" /\ command' = "START_MEASUREMENT"
    /\ answer' = <<>>
    /\ mainPc' = "initAll" /\ order' = ""
    /\ driving' = FALSE /\ canOpen' = TRUE /\ pos' = START
    /\ data' = 0
    /\ UNCHANGED servo

(* initAll, which leaves main when a device does not answer. *)
InitAll ==
    /\ mainPc = "initAll"
    /\ \/ mainPc' = "msg_receive"
       \/ MayFail /\ mainPc' = "returned"
    /\ UNCHANGED <<inbox, commVars, mailbox, order, driving, canOpen, pos, servo, data>>

-----------------------------------------------------------------------------
\* The communication thread

Arrive(c) ==
    /\ Len(inbox) < InboxSize
    /\ inbox' = Append(inbox, c)
    /\ UNCHANGED <<commVars, mailbox, mainVars>>

(* A datagram that is no command leaves the command as it was. *)
Receive ==
    /\ commPc = "recvfrom" /\ inbox # <<>>
    /\ request' = Head(inbox) /\ inbox' = Tail(inbox)
    /\ command' = IF request' \in DOMAIN StartOf THEN StartOf[request'] ELSE command
    /\ answer' = <<>>
    /\ commPc' = "msg_send"
    /\ UNCHANGED <<mailbox, mainVars>>

(* msg_send, once the main thread is in msg_receive. *)
HandOver ==
    /\ commPc = "msg_send" /\ mainPc = "msg_receive"
    /\ commPc' = "msg_receive"
    /\ mainPc' = "switch" /\ order' = command
    /\ UNCHANGED <<inbox, request, command, answer, mailbox,
                   driving, canOpen, pos, servo, data>>

(* msg_send to a thread that has ended fails, and nobody looks. *)
HandOverToNobody ==
    /\ commPc = "msg_send" /\ mainPc = "returned"
    /\ commPc' = "msg_receive"
    /\ UNCHANGED <<inbox, request, command, answer, mailbox, mainVars>>

\* Fault for OneMeasurement: the thread does not wait for the reply.
TakeReplyAtOnce ==
    /\ commPc = "msg_receive"
    /\ command' = "FINISH_MEASUREMENT" /\ mailbox' = <<>>
    /\ commPc' = "answer"
    /\ UNCHANGED <<inbox, request, answer, mainVars>>

TakeReply ==
    /\ commPc = "msg_receive" /\ mailbox # <<>>
    /\ command' = Head(mailbox) /\ mailbox' = Tail(mailbox)
    /\ commPc' = "answer"
    /\ UNCHANGED <<inbox, request, answer, mainVars>>

(* One of the five pp_send of a measurement. *)
Report ==
    /\ commPc = "answer" /\ command = "FINISH_MEASUREMENT"
    /\ answer' = Append(answer, <<Sensors[Len(answer) + 1], data>>)
    /\ commPc' = IF Len(answer') = Len(Sensors) THEN "recvfrom" ELSE "answer"
    /\ UNCHANGED <<inbox, request, command, mailbox, mainVars>>

\* Fault for KeepsPromise: the texts of the acknowledgements are swapped.
AcknowledgeSwapped ==
    /\ commPc = "answer"
    /\ \/ command = "FINISH_OPEN_WINDOW" /\ answer' = <<<<Close>>>>
       \/ command = "FINISH_CLOSE_WINDOW" /\ answer' = <<<<Open>>>>
    /\ commPc' = "recvfrom"
    /\ UNCHANGED <<inbox, request, command, mailbox, mainVars>>

Acknowledge ==
    /\ commPc = "answer"
    /\ \/ command = "FINISH_OPEN_WINDOW" /\ answer' = <<<<Open>>>>
       \/ command = "FINISH_CLOSE_WINDOW" /\ answer' = <<<<Close>>>>
    /\ commPc' = "recvfrom"
    /\ UNCHANGED <<inbox, request, command, mailbox, mainVars>>

-----------------------------------------------------------------------------
\* The main thread

(* servo_set keeps the position between the bounds of servo_init. *)
Clamped(p) == IF p < LOWER THEN LOWER ELSE IF p > UPPER THEN UPPER ELSE p

Measure ==
    /\ mainPc = "switch" /\ order = "START_MEASUREMENT"
    /\ data' = 1 - data
    /\ order' = "FINISH_MEASUREMENT" /\ mainPc' = "msg_send"
    /\ UNCHANGED <<inbox, commVars, mailbox, driving, canOpen, pos, servo>>

\* Fault for TypeOK: the bound is tested before the step.
DriveOpenBeyond ==
    /\ mainPc = "switch" /\ order = "START_OPEN_WINDOW" /\ canOpen
    /\ driving' = TRUE
    /\ servo' = Clamped(pos)
    /\ pos' = pos - STEP
    /\ IF pos <= LOWER
       THEN canOpen' = FALSE /\ order' = "FINISH_OPEN_WINDOW" /\ mainPc' = "msg_send"
       ELSE UNCHANGED <<canOpen, order, mainPc>>
    /\ UNCHANGED <<inbox, commVars, mailbox, data>>

\* Fault for OpenAckTrue: one turn of the loop is taken for the whole way.
DriveOpenOnce ==
    /\ mainPc = "switch" /\ order = "START_OPEN_WINDOW" /\ canOpen
    /\ servo' = Clamped(pos)
    /\ pos' = pos - STEP
    /\ canOpen' = FALSE /\ order' = "FINISH_OPEN_WINDOW" /\ mainPc' = "msg_send"
    /\ UNCHANGED <<inbox, commVars, mailbox, driving, data>>

(* One turn of the loop with openWindow: the servo first, then the step. *)
DriveOpen ==
    /\ mainPc = "switch" /\ order = "START_OPEN_WINDOW" /\ canOpen
    /\ driving' = TRUE
    /\ servo' = Clamped(pos)
    /\ pos' = pos - STEP
    /\ IF pos' <= LOWER
       THEN canOpen' = FALSE /\ order' = "FINISH_OPEN_WINDOW" /\ mainPc' = "msg_send"
       ELSE UNCHANGED <<canOpen, order, mainPc>>
    /\ UNCHANGED <<inbox, commVars, mailbox, data>>

(* The same with closeWindow, at twice the speed. *)
DriveClose ==
    /\ mainPc = "switch" /\ order = "START_CLOSE_WINDOW" /\ ~canOpen
    /\ servo' = Clamped(pos)
    /\ pos' = pos + 2 * STEP
    /\ IF pos' >= UPPER
       THEN /\ canOpen' = TRUE /\ driving' = FALSE
            /\ order' = "FINISH_CLOSE_WINDOW" /\ mainPc' = "msg_send"
       ELSE driving' = TRUE /\ UNCHANGED <<canOpen, order, mainPc>>
    /\ UNCHANGED <<inbox, commVars, mailbox, data>>

\* Fault for NoMutualWait: no message when there is nothing to do.
NoNeedToSay ==
    /\ mainPc = "switch"
    /\ \/ order = "START_OPEN_WINDOW" /\ ~canOpen
       \/ order = "START_CLOSE_WINDOW" /\ canOpen
    /\ mainPc' = "msg_receive"
    /\ UNCHANGED <<inbox, commVars, mailbox, order, driving, canOpen, pos, servo, data>>

(* The window is where the command wants it, as far as the program knows. *)
NoNeedToDrive ==
    /\ mainPc = "switch"
    /\ \/ order = "START_OPEN_WINDOW" /\ ~canOpen /\ order' = "FINISH_OPEN_WINDOW"
       \/ order = "START_CLOSE_WINDOW" /\ canOpen /\ order' = "FINISH_CLOSE_WINDOW"
    /\ mainPc' = "msg_send"
    /\ UNCHANGED <<inbox, commVars, mailbox, driving, canOpen, pos, servo, data>>

(* A command without a case: the loop goes on without a message. *)
NoCase ==
    /\ mainPc = "switch"
    /\ order \notin {"START_MEASUREMENT", "START_OPEN_WINDOW", "START_CLOSE_WINDOW"}
    /\ mainPc' = "msg_receive"
    /\ UNCHANGED <<inbox, commVars, mailbox, order, driving, canOpen, pos, servo, data>>

(* msg_send to the communication thread. *)
Reply ==
    /\ mainPc = "msg_send"
    /\ mailbox' = Append(mailbox, order)
    /\ driving' = FALSE
    /\ mainPc' = "msg_receive"
    /\ UNCHANGED <<inbox, commVars, order, canOpen, pos, servo, data>>

-----------------------------------------------------------------------------
CommStep == Receive \/ HandOver \/ HandOverToNobody \/ TakeReply \/ Report \/ Acknowledge
MainStep ==
    \/ InitAll \/ Measure \/ DriveOpen \/ DriveClose
    \/ NoNeedToDrive \/ NoCase \/ Reply

Next == (\E c \in Received : Arrive(c)) \/ CommStep \/ MainStep \/ Reboot

(* The two threads have one priority, and each sleeps or waits in every    *)
(* turn of its loop, so neither keeps the other from running.              *)
Fairness == WF_vars(CommStep) /\ WF_vars(MainStep)

Spec == Init /\ [][Next]_vars /\ Fairness

-----------------------------------------------------------------------------
\* Properties

Started == {"START_MEASUREMENT", "START_OPEN_WINDOW", "START_CLOSE_WINDOW"}
Finished == {"FINISH_MEASUREMENT", "FINISH_OPEN_WINDOW", "FINISH_CLOSE_WINDOW"}

(* Every variable keeps its type; the position overshoots a bound by less  *)
(* than a step, and the servo never leaves the bounds.                     *)
TypeOK ==
    /\ inbox \in Seq(Received) /\ Len(inbox) <= InboxSize
    /\ commPc \in {"recvfrom", "msg_send", "msg_receive", "answer"}
    /\ request \in Received \cup {""}
    /\ command \in Started \cup Finished
    /\ mailbox \in Seq(Finished) /\ Len(mailbox) <= 1
    /\ Len(answer) <= Len(Sensors)
    /\ mainPc \in {"initAll", "msg_receive", "switch", "msg_send", "returned"}
    /\ order \in Started \cup Finished \cup {""}
    /\ driving \in BOOLEAN /\ canOpen \in BOOLEAN
    /\ pos \in Int /\ LOWER - STEP < pos /\ pos < UPPER + 2 * STEP
    /\ servo \in LOWER..UPPER
    /\ data \in {0, 1}

(* The threads never wait for each other: when the communication thread    *)
(* waits for a message, the main thread is on its way to send it (main.c:  *)
(* it has to "manage the execution of the commands from the communication  *)
(* thread").  The node outside does not keep to this.                      *)
NoMutualWait ==
    commPc = "msg_receive" /\ mailbox = <<>> => mainPc \in {"switch", "msg_send"}

(* The five values of a report come from one measurement, although the     *)
(* threads share the variable they are in and nothing locks it.            *)
OneMeasurement ==
    Len(answer) = Len(Sensors) => \A i \in 1..5 : answer[i][2] = answer[1][2]

Acknowledged(c) == Len(answer) = 1 /\ answer[1] = <<c>>

(* An acknowledged Open has brought the window to within a step of the     *)
(* open position, and it stays there until the next request - also when    *)
(* the node has been reset with the window anywhere.                       *)
OpenAckTrue == Acknowledged(Open) => servo <= LOWER + STEP

AnswerOf(c) ==
    CASE c = GetAll -> Sensors
      [] c = Open -> <<Open>>
      [] c = Close -> <<Close>>

(* The node inside the window serves every request, in order, with the     *)
(* whole answer it calls for; every request is answered in the end.        *)
Promise == INSTANCE NodePromise WITH
    Requests <- Received,
    AnswerTo <- AnswerOf,
    Nobody <- "",
    serving <- IF commPc = "recvfrom" THEN "" ELSE request,
    answer <- [i \in DOMAIN answer |-> answer[i][1]]
KeepsPromise == Promise!Spec

-----------------------------------------------------------------------------
\* What the node says and the code does not do

(* main.c prints "Fenster geschlossen!" and acknowledges Close - so the    *)
(* servo is no further than a turn of the loop from the upper bound.       *)
CloseAckTrue == Acknowledged(Close) => servo >= UPPER - 2 * STEP
=============================================================================
