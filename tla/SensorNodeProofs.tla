---------------------------- MODULE SensorNodeProofs ----------------------------
(***************************************************************************)
(* Proofs about SensorNode, for every servo, every set of texts received   *)
(* and both builds of the program.                                         *)
(***************************************************************************)
EXTENDS SensorNode, TLAPS

-----------------------------------------------------------------------------
\* The inductive invariant

(* Whose turn it is.  The communication thread waits for as long as the    *)
(* main thread serves a command, and the mailbox is filled only between    *)
(* the reply and its taking; what the main thread reports is a result.     *)
Turns ==
    /\ mainPc \in {"switch", "msg_send"} => commPc = "msg_receive" /\ mailbox = <<>>
    /\ mailbox # <<>> => commPc = "msg_receive" /\ mainPc = "msg_receive"
    /\ mainPc = "msg_send" => order \in Finished
    /\ commPc = "answer" => command \in Finished

Acks == {<<Open>>, <<Close>>}
Measured(i) == <<Sensors[i], data>>
Messages == Acks \cup (Range(Sensors) \X {0, 1})

(* What has been sent so far: an acknowledgement, or so many values of the *)
(* measurement the main thread took last.                                  *)
Answers ==
    /\ answer \in Seq(Messages)
    /\ \/ commPc = "recvfrom" /\ Len(answer) = 1 /\ answer[1] \in Acks
       \/ \A i \in 1..Len(answer) : answer[i] = Measured(i)
    /\ commPc \in {"msg_send", "msg_receive"} => answer = <<>>
    /\ commPc = "answer" =>
          /\ Len(answer) < Len(Sensors)
          /\ command # "FINISH_MEASUREMENT" => answer = <<>>

(* Between two drives pos says which way the next one goes, and a window   *)
(* that the program takes for open is within a step of the lower bound     *)
(* unless it is being closed.                                              *)
Servo ==
    /\ canOpen => pos > LOWER
    /\ ~canOpen => pos < UPPER
    /\ ~canOpen /\ ~(mainPc = "switch" /\ order = "START_CLOSE_WINDOW")
          => servo <= LOWER + STEP

(* The news that the window is open, from the main thread to the client:   *)
(* wherever it is, the program takes the window for open.                  *)
OpenNews ==
    \/ mainPc = "msg_send" /\ order = "FINISH_OPEN_WINDOW"
    \/ mailbox # <<>> /\ mailbox[1] = "FINISH_OPEN_WINDOW"
    \/ commPc = "answer" /\ command = "FINISH_OPEN_WINDOW"
    \/ commPc = "recvfrom" /\ Len(answer) = 1 /\ answer[1] = <<Open>>

IInv ==
    /\ TypeOK
    /\ Turns
    /\ Answers
    /\ Servo
    /\ OpenNews => ~canOpen

-----------------------------------------------------------------------------
\* Facts about the operators of the model

LEMMA EmptySequence == Len(<<>>) = 0 /\ \A S : <<>> \in Seq(S)
  OBVIOUS

LEMMA SensorCount == Len(Sensors) = 5
  BY DEF Sensors

(* Every command the build knows starts something.                         *)
LEMMA StartOfType ==
    /\ DOMAIN StartOf = IF IsIn THEN {GetAll, Open, Close} ELSE {GetAll}
    /\ StartOf[GetAll] = "START_MEASUREMENT"
    /\ IsIn => /\ StartOf[Open] = "START_OPEN_WINDOW"
               /\ StartOf[Close] = "START_CLOSE_WINDOW"
    /\ \A c \in DOMAIN StartOf : StartOf[c] \in Started
<1>1. GetAll # Open /\ GetAll # Close /\ Open # Close
  BY DEF GetAll, Open, Close
<1>2. CASE IsIn
  <2>1. StartOf = [c \in {GetAll, Open, Close} |->
            CASE c = GetAll -> "START_MEASUREMENT"
              [] c = Open -> "START_OPEN_WINDOW"
              [] c = Close -> "START_CLOSE_WINDOW"]
    BY <1>2, Zenon DEF StartOf
  <2>2. /\ DOMAIN StartOf = {GetAll, Open, Close}
        /\ StartOf[GetAll] = "START_MEASUREMENT"
        /\ StartOf[Open] = "START_OPEN_WINDOW"
        /\ StartOf[Close] = "START_CLOSE_WINDOW"
    BY <1>1, <2>1, Zenon
  <2> QED
    BY <1>2, <2>2 DEF Started
<1>3. CASE ~IsIn
  BY <1>3 DEF StartOf, Started
<1> QED
  BY <1>2, <1>3

LEMMA ServoNumbers ==
    /\ LOWER \in Int /\ UPPER \in Int /\ STEP \in Int /\ START \in Int
    /\ STEP > 0 /\ LOWER < UPPER
    /\ LOWER < START /\ START < UPPER
    /\ LOWER - STEP < START /\ START < UPPER + 2 * STEP
<1>1. LOWER \in Int /\ UPPER \in Int /\ STEP \in Int /\ STEP > 0 /\ LOWER < UPPER
  BY ServoAssumption
<1>2. START \in Int /\ LOWER < START /\ START < UPPER
  BY ServoAssumption DEF START
<1> QED
  BY <1>1, <1>2

(* The servo never leaves its bounds, and comes no further than asked.     *)
LEMMA ClampedBounds ==
    ASSUME NEW p \in Int
    PROVE  /\ Clamped(p) \in LOWER..UPPER
           /\ p <= LOWER + STEP => Clamped(p) <= LOWER + STEP
  BY ServoAssumption DEF Clamped

LEMMA MeasuredMessage ==
    ASSUME data \in {0, 1}, NEW i \in 1..5
    PROVE  Measured(i) \in Messages /\ Measured(i) \notin Acks
<1>1. Sensors[i] \in Range(Sensors)
  BY DEF Range, Sensors
<1>2. \A x, y, z : <<x, y>> # <<z>>
  OBVIOUS
<1> QED
  BY <1>1, <1>2 DEF Measured, Messages, Acks

-----------------------------------------------------------------------------
\* The initial states and the steps

LEMMA InitIInv == Init => IInv
<1> SUFFICES ASSUME Init PROVE IInv
  OBVIOUS
<1>1. /\ inbox = <<>> /\ mailbox = <<>> /\ answer = <<>>
      /\ commPc = "recvfrom" /\ mainPc = "initAll"
  BY DEF Init
<1>2. TypeOK
  <2>1. /\ inbox \in Seq(Received) /\ Len(inbox) <= InboxSize
        /\ mailbox \in Seq(Finished) /\ Len(mailbox) <= 1
    BY <1>1, EmptySequence, NodeAssumption
  <2>2. Len(answer) <= Len(Sensors)
    BY <1>1, EmptySequence, SensorCount
  <2>3. pos \in Int /\ LOWER - STEP < pos /\ pos < UPPER + 2 * STEP
    BY ServoNumbers DEF Init
  <2>4. servo \in LOWER..UPPER
    BY ServoAssumption DEF Init
  <2> QED
    BY <2>1, <2>2, <2>3, <2>4 DEF Init, TypeOK, Started
<1>3. Turns
  BY <1>1 DEF Turns
<1>4. Answers
  BY <1>1, EmptySequence DEF Answers
<1>5. Servo
  BY ServoNumbers DEF Init, Servo
<1>6. ~OpenNews
  <2>1. Len(answer) # 1
    BY <1>1, EmptySequence
  <2> QED
    BY <1>1, <2>1 DEF OpenNews
<1> QED
  BY <1>2, <1>3, <1>4, <1>5, <1>6 DEF IInv

LEMMA ArriveIInv == ASSUME IInv, NEW c \in Received, Arrive(c) PROVE IInv'
<1>1. inbox' \in Seq(Received) /\ Len(inbox') <= InboxSize
  <2>1. inbox \in Seq(Received) /\ Len(inbox) < InboxSize /\ inbox' = Append(inbox, c)
    BY DEF IInv, TypeOK, Arrive
  <2> QED
    BY <2>1, NodeAssumption
<1>2. TypeOK'
  BY <1>1 DEF IInv, TypeOK, Arrive, commVars, mainVars
<1> QED
  BY <1>2 DEF IInv, Arrive, commVars, mainVars, Turns, Answers, Measured, Servo, OpenNews

LEMMA ReceiveIInv == ASSUME IInv, Receive PROVE IInv'
<1>1. TypeOK'
  <2>1. /\ inbox' \in Seq(Received) /\ Len(inbox') <= InboxSize
        /\ request' \in Received
    <3>1. /\ inbox \in Seq(Received) /\ Len(inbox) <= InboxSize /\ inbox # <<>>
          /\ inbox' = Tail(inbox) /\ request' = Head(inbox)
      BY DEF IInv, TypeOK, Receive
    <3> QED
      BY <3>1, NodeAssumption
  <2>2. command' \in Started \cup Finished
    BY StartOfType DEF IInv, TypeOK, Receive
  <2>3. Len(answer') <= Len(Sensors)
    BY EmptySequence, SensorCount DEF Receive
  <2> QED
    BY <2>1, <2>2, <2>3 DEF IInv, TypeOK, Receive, mainVars
<1>2. Turns'
  BY DEF IInv, TypeOK, Turns, Receive, mainVars
<1>3. Answers'
  BY DEF IInv, Answers, Receive, mainVars
<1>4. Servo' /\ (OpenNews => ~canOpen)'
  BY DEF IInv, Servo, OpenNews, Turns, Receive, mainVars
<1> QED
  BY <1>1, <1>2, <1>3, <1>4 DEF IInv

LEMMA HandOverIInv == ASSUME IInv, HandOver PROVE IInv'
<1>1. TypeOK'
  BY DEF IInv, TypeOK, HandOver
<1>2. Turns'
  BY DEF IInv, Turns, HandOver
<1>3. Answers'
  BY DEF IInv, Answers, Measured, HandOver
<1>4. Servo' /\ (OpenNews => ~canOpen)'
  BY DEF IInv, Servo, OpenNews, Turns, HandOver
<1> QED
  BY <1>1, <1>2, <1>3, <1>4 DEF IInv

LEMMA HandOverToNobodyIInv == ASSUME IInv, HandOverToNobody PROVE IInv'
<1>1. TypeOK' /\ Turns' /\ Servo' /\ (OpenNews => ~canOpen)'
  BY DEF IInv, TypeOK, Turns, Servo, OpenNews, HandOverToNobody, mainVars
<1>2. Answers'
  BY DEF IInv, Answers, Measured, HandOverToNobody, mainVars
<1> QED
  BY <1>1, <1>2 DEF IInv

LEMMA TakeReplyIInv == ASSUME IInv, TakeReply PROVE IInv'
<1>1. Head(mailbox) = mailbox[1] /\ mailbox[1] \in Finished /\ Tail(mailbox) = <<>>
  <2>1. mailbox \in Seq(Finished) /\ Len(mailbox) <= 1 /\ mailbox # <<>>
    BY DEF IInv, TypeOK, TakeReply
  <2> QED
    BY <2>1
<1>2. TypeOK'
  <2>1. mailbox' \in Seq(Finished) /\ Len(mailbox') <= 1
    <3>1. mailbox' = <<>>
      BY <1>1 DEF TakeReply
    <3> QED
      BY <3>1, EmptySequence
  <2> QED
    BY <1>1, <2>1 DEF IInv, TypeOK, TakeReply, mainVars
<1>3. Turns'
  BY <1>1 DEF IInv, Turns, TakeReply, mainVars
<1>4. Answers'
  <2>1. answer' = <<>> /\ commPc' = "answer"
    BY DEF IInv, Answers, TakeReply
  <2> QED
    BY <2>1, EmptySequence, SensorCount DEF Answers
<1>5. Servo' /\ (OpenNews => ~canOpen)'
  BY <1>1 DEF IInv, Servo, OpenNews, Turns, TakeReply, mainVars
<1> QED
  BY <1>2, <1>3, <1>4, <1>5 DEF IInv

(* A report goes on with the next value of the same measurement.           *)
LEMMA ReportSends ==
    ASSUME IInv, Report
    PROVE  /\ answer \in Seq(Messages) /\ Len(answer) \in 0..4
           /\ \A i \in 1..Len(answer) : answer[i] = Measured(i)
           /\ answer' \in Seq(Messages) /\ Len(answer') = Len(answer) + 1
           /\ \A i \in 1..Len(answer') : answer'[i] = Measured(i)
<1> DEFINE n == Len(answer) + 1
<1>1. /\ answer \in Seq(Messages) /\ n \in 1..5 /\ answer' = Append(answer, Measured(n))
      /\ \A i \in 1..Len(answer) : answer[i] = Measured(i)
      /\ data \in {0, 1}
  <2>1. /\ answer \in Seq(Messages) /\ Len(answer) < 5
        /\ \A i \in 1..Len(answer) : answer[i] = Measured(i)
    BY SensorCount DEF IInv, Answers, Report
  <2>2. /\ answer' = Append(answer, Measured(n))
        /\ data \in {0, 1}
    BY DEF IInv, TypeOK, Report, Measured
  <2> QED
    BY <2>1, <2>2
<1>2. Measured(n) \in Messages
  BY <1>1, MeasuredMessage
<1>3. /\ answer' \in Seq(Messages) /\ Len(answer') = n
      /\ \A i \in 1..n : answer'[i] = Measured(i)
  BY <1>1, <1>2
<1>4. Len(answer) \in 0..4
  <2>1. Len(answer) \in Int
    BY <1>1
  <2>2. \A k \in Int : k + 1 \in 1..5 => k \in 0..4
    OBVIOUS
  <2> QED
    BY <1>1, <2>1, <2>2
<1> QED
  BY <1>1, <1>3, <1>4

LEMMA ReportIInv == ASSUME IInv, Report PROVE IInv'
<1>1. /\ answer' \in Seq(Messages) /\ Len(answer') \in 1..5
      /\ \A i \in 1..Len(answer') : answer'[i] = Measured(i)
      /\ data' = data /\ data \in {0, 1}
  <2>1. data' = data /\ data \in {0, 1}
    BY DEF IInv, TypeOK, Report, mainVars
  <2>2. Len(answer') \in 1..5
    <3>1. \A k \in 0..4 : k + 1 \in 1..5
      OBVIOUS
    <3> QED
      BY <3>1, ReportSends
  <2> QED
    BY <2>1, <2>2, ReportSends
<1>2. TypeOK'
  <2>1. Len(answer') <= Len(Sensors)
    BY <1>1, SensorCount
  <2> QED
    BY <2>1 DEF IInv, TypeOK, Report, mainVars
<1>3. Answers'
  BY <1>1, SensorCount DEF Answers, Report, mainVars, Measured
<1>4. Turns' /\ Servo'
  BY DEF IInv, Turns, Servo, Report, mainVars
<1>5. ~OpenNews'
  <2>1. answer'[1] \notin Acks
    BY <1>1, MeasuredMessage
  <2> QED
    BY <2>1 DEF IInv, OpenNews, Turns, Report, mainVars, Acks
<1> QED
  BY <1>2, <1>3, <1>4, <1>5 DEF IInv

LEMMA AcknowledgeIInv == ASSUME IInv, Acknowledge PROVE IInv'
<1>1. answer' \in {<<<<Open>>>>, <<<<Close>>>>}
  BY DEF Acknowledge
<1>2. answer' \in Seq(Messages) /\ Len(answer') = 1 /\ answer'[1] \in Acks
  <2>1. \A m \in Messages : <<m>> \in Seq(Messages) /\ Len(<<m>>) = 1 /\ <<m>>[1] = m
    OBVIOUS
  <2>2. Acks \subseteq Messages /\ <<Open>> \in Acks /\ <<Close>> \in Acks
    BY DEF Messages, Acks
  <2> QED
    BY <1>1, <2>1, <2>2
<1>3. TypeOK'
  <2>1. Len(answer') <= Len(Sensors)
    BY <1>2, SensorCount
  <2> QED
    BY <2>1 DEF IInv, TypeOK, Acknowledge, mainVars
<1>4. Answers'
  BY <1>2 DEF Answers, Acknowledge
<1>5. Turns' /\ Servo'
  BY DEF IInv, Turns, Servo, Acknowledge, mainVars
<1>6. (OpenNews => ~canOpen)'
  BY <1>1 DEF IInv, OpenNews, Turns, Acknowledge, mainVars, Open, Close
<1> QED
  BY <1>3, <1>4, <1>5, <1>6 DEF IInv

LEMMA CommStepIInv == ASSUME IInv, CommStep PROVE IInv'
  BY ReceiveIInv, HandOverIInv, HandOverToNobodyIInv, TakeReplyIInv, ReportIInv,
     AcknowledgeIInv DEF CommStep

LEMMA InitAllIInv == ASSUME IInv, InitAll PROVE IInv'
<1>1. TypeOK' /\ Servo'
  BY DEF IInv, TypeOK, Servo, InitAll, commVars
<1>2. Turns' /\ (OpenNews => ~canOpen)'
  BY DEF IInv, Turns, OpenNews, InitAll, commVars
<1>3. Answers'
  BY DEF IInv, Answers, Measured, InitAll, commVars
<1> QED
  BY <1>1, <1>2, <1>3 DEF IInv

(* Nothing has been sent yet when the main thread serves a command.        *)
LEMMA ServingSilently ==
    ASSUME IInv, mainPc \in {"switch", "msg_send"}
    PROVE  answer = <<>> /\ mailbox = <<>> /\ commPc = "msg_receive"
  BY DEF IInv, Turns, Answers

LEMMA AnswersSilent ==
    ASSUME IInv, mainPc \in {"switch", "msg_send"}, UNCHANGED commVars
    PROVE  Answers'
<1>1. answer' = <<>> /\ commPc' = "msg_receive"
  BY ServingSilently DEF commVars
<1> QED
  BY <1>1 DEF Answers

LEMMA MeasureIInv == ASSUME IInv, Measure PROVE IInv'
<1>1. TypeOK'
  <2>1. data' \in {0, 1}
    <3>1. data \in {0, 1} /\ data' = 1 - data
      BY DEF IInv, TypeOK, Measure
    <3> QED
      BY <3>1
  <2> QED
    BY <2>1 DEF IInv, TypeOK, Measure, commVars, Finished
<1>2. Turns' /\ Servo'
  BY DEF IInv, Turns, Servo, Measure, commVars, Finished
<1>3. Answers'
  BY AnswersSilent DEF Measure
<1>4. ~OpenNews'
  BY ServingSilently DEF OpenNews, Measure, commVars
<1> QED
  BY <1>1, <1>2, <1>3, <1>4 DEF IInv

LEMMA DriveOpenIInv == ASSUME IInv, DriveOpen PROVE IInv'
<1>1. /\ pos \in Int /\ LOWER < pos /\ pos < UPPER + 2 * STEP
      /\ pos' = pos - STEP /\ servo' = Clamped(pos)
  BY DEF IInv, TypeOK, Servo, DriveOpen
<1>2. /\ pos' \in Int /\ LOWER - STEP < pos' /\ pos' < UPPER + 2 * STEP
      /\ servo' \in LOWER..UPPER
      /\ pos' <= LOWER => servo' <= LOWER + STEP /\ pos' < UPPER
  BY <1>1, ClampedBounds, ServoNumbers
<1>3. TypeOK'
  BY <1>2 DEF IInv, TypeOK, DriveOpen, commVars, Finished
<1>4. Turns'
  BY DEF IInv, Turns, DriveOpen, commVars, Finished
<1>5. Answers'
  BY AnswersSilent DEF DriveOpen
<1>6. Servo'
  <2>1. CASE pos' <= LOWER
    BY <1>2, <2>1 DEF Servo, DriveOpen
  <2>2. CASE ~(pos' <= LOWER)
    <3>1. pos' > LOWER
      BY <1>2, <2>2, ServoNumbers
    <3> QED
      BY <2>2, <3>1 DEF Servo, DriveOpen
  <2> QED
    BY <2>1, <2>2
<1>7. (OpenNews => ~canOpen)'
  BY ServingSilently DEF OpenNews, DriveOpen, commVars
<1> QED
  BY <1>3, <1>4, <1>5, <1>6, <1>7 DEF IInv

LEMMA DriveCloseIInv == ASSUME IInv, DriveClose PROVE IInv'
<1>1. /\ pos \in Int /\ LOWER - STEP < pos /\ pos < UPPER
      /\ pos' = pos + 2 * STEP /\ servo' = Clamped(pos)
  BY DEF IInv, TypeOK, Servo, DriveClose
<1>2. /\ pos' \in Int /\ LOWER - STEP < pos' /\ pos' < UPPER + 2 * STEP
      /\ servo' \in LOWER..UPPER
      /\ pos' >= UPPER => pos' > LOWER
  BY <1>1, ClampedBounds, ServoNumbers
<1>3. TypeOK'
  BY <1>2 DEF IInv, TypeOK, DriveClose, commVars, Finished
<1>4. Turns'
  BY DEF IInv, Turns, DriveClose, commVars, Finished
<1>5. Answers'
  BY AnswersSilent DEF DriveClose
<1>6. Servo'
  <2>1. CASE pos' >= UPPER
    BY <1>2, <2>1 DEF Servo, DriveClose
  <2>2. CASE ~(pos' >= UPPER)
    <3>1. pos' < UPPER
      BY <1>2, <2>2, ServoNumbers
    <3> QED
      BY <2>2, <3>1 DEF Servo, DriveClose
  <2> QED
    BY <2>1, <2>2
<1>7. (OpenNews => ~canOpen)'
  BY ServingSilently DEF OpenNews, DriveClose, commVars
<1> QED
  BY <1>3, <1>4, <1>5, <1>6, <1>7 DEF IInv

LEMMA NoNeedToDriveIInv == ASSUME IInv, NoNeedToDrive PROVE IInv'
<1>1. TypeOK' /\ Turns'
  BY DEF IInv, TypeOK, Turns, NoNeedToDrive, commVars, Finished
<1>2. Answers'
  BY AnswersSilent DEF NoNeedToDrive
<1>3. Servo'
  BY DEF IInv, Servo, NoNeedToDrive
<1>4. (OpenNews => ~canOpen)'
  BY ServingSilently DEF OpenNews, NoNeedToDrive, commVars
<1> QED
  BY <1>1, <1>2, <1>3, <1>4 DEF IInv

LEMMA NoCaseIInv == ASSUME IInv, NoCase PROVE IInv'
<1>1. TypeOK' /\ Turns'
  BY DEF IInv, TypeOK, Turns, NoCase, commVars
<1>2. Answers'
  BY AnswersSilent DEF NoCase
<1>3. Servo'
  BY DEF IInv, Servo, NoCase
<1>4. (OpenNews => ~canOpen)'
  BY ServingSilently DEF OpenNews, NoCase, commVars
<1> QED
  BY <1>1, <1>2, <1>3, <1>4 DEF IInv

LEMMA ReplyIInv == ASSUME IInv, Reply PROVE IInv'
<1>1. mailbox' = <<order>> /\ order \in Finished /\ commPc' = "msg_receive"
  BY ServingSilently DEF IInv, Turns, Reply, commVars
<1>2. TypeOK'
  <2>1. mailbox' \in Seq(Finished) /\ Len(mailbox') <= 1
    BY <1>1
  <2> QED
    BY <2>1 DEF IInv, TypeOK, Reply, commVars
<1>3. Turns'
  BY <1>1 DEF Turns, Reply
<1>4. Answers'
  BY AnswersSilent DEF Reply
<1>5. Servo'
  BY DEF IInv, Servo, Reply
<1>6. (OpenNews => ~canOpen)'
  BY <1>1 DEF IInv, OpenNews, Reply, commVars
<1> QED
  BY <1>2, <1>3, <1>4, <1>5, <1>6 DEF IInv

LEMMA MainStepIInv == ASSUME IInv, MainStep PROVE IInv'
  BY InitAllIInv, MeasureIInv, DriveOpenIInv, DriveCloseIInv, NoNeedToDriveIInv,
     NoCaseIInv, ReplyIInv DEF MainStep

(* A reset leaves nothing to report, whatever position it finds.           *)
LEMMA RebootIInv == ASSUME IInv, Reboot PROVE IInv'
<1>1. /\ inbox' = <<>> /\ mailbox' = <<>> /\ answer' = <<>>
      /\ commPc' = "recvfrom" /\ mainPc' = "initAll"
  BY DEF Reboot
<1>2. TypeOK'
  <2>1. /\ inbox' \in Seq(Received) /\ Len(inbox') <= InboxSize
        /\ mailbox' \in Seq(Finished) /\ Len(mailbox') <= 1
    BY <1>1, EmptySequence, NodeAssumption
  <2>2. Len(answer') <= Len(Sensors)
    BY <1>1, EmptySequence, SensorCount
  <2>3. pos' \in Int /\ LOWER - STEP < pos' /\ pos' < UPPER + 2 * STEP
    BY ServoNumbers DEF Reboot
  <2>4. servo' \in LOWER..UPPER
    BY DEF IInv, TypeOK, Reboot
  <2> QED
    BY <2>1, <2>2, <2>3, <2>4 DEF Reboot, TypeOK, Started
<1>3. Turns'
  BY <1>1 DEF Turns
<1>4. Answers'
  BY <1>1, EmptySequence DEF Answers
<1>5. Servo'
  BY ServoNumbers DEF Reboot, Servo
<1>6. ~OpenNews'
  <2>1. Len(answer') # 1
    BY <1>1, EmptySequence
  <2> QED
    BY <1>1, <2>1 DEF OpenNews
<1> QED
  BY <1>2, <1>3, <1>4, <1>5, <1>6 DEF IInv

LEMMA NextIInv == IInv /\ [Next]_vars => IInv'
<1> SUFFICES ASSUME IInv, [Next]_vars PROVE IInv'
  OBVIOUS
<1>1. CASE UNCHANGED vars
  <2>1. TypeOK'
    BY ZenonT(30), <1>1 DEF vars, commVars, mainVars, IInv, TypeOK
  <2>2. Turns' /\ Servo' /\ (OpenNews => ~canOpen)'
    BY <1>1 DEF vars, commVars, mainVars, IInv, Turns, Servo, OpenNews
  <2>3. Answers'
    BY <1>1 DEF vars, commVars, mainVars, IInv, Answers, Measured
  <2> QED
    BY <2>1, <2>2, <2>3 DEF IInv
<1> QED
  BY <1>1, ArriveIInv, CommStepIInv, MainStepIInv, RebootIInv DEF Next

(* The inductive invariant holds in every reachable state.                 *)
THEOREM Inductive == Spec => []IInv
  BY InitIInv, NextIInv, PTL DEF Spec

-----------------------------------------------------------------------------
\* Safety

(* Every variable of the node keeps its type, the position overshoots its  *)
(* bounds by less than a step, and the servo keeps between them.           *)
THEOREM TypeCorrect == Spec => []TypeOK
  BY Inductive, PTL DEF IInv

(* The five values of a report come from one measurement.                  *)
THEOREM OneMeasurementAlways == Spec => []OneMeasurement
<1>1. ASSUME IInv, Len(answer) = Len(Sensors)
      PROVE  \A i \in 1..5 : answer[i][2] = answer[1][2]
  <2>1. \A i \in 1..5 : answer[i] = Measured(i)
    BY <1>1, SensorCount DEF IInv, Answers
  <2>2. \A i \in 1..5 : Measured(i)[2] = data
    BY DEF Measured
  <2> QED
    BY <2>1, <2>2
<1>2. IInv => OneMeasurement
  BY <1>1 DEF OneMeasurement
<1> QED
  BY <1>2, Inductive, PTL

(* A client that is told that the window is open finds it within a step of *)
(* the lower bound until its next request, whatever resets, failed devices *)
(* and unknown texts the node has been through.                            *)
THEOREM OpenAckAlwaysTrue == Spec => []OpenAckTrue
<1>1. ASSUME IInv, Acknowledged(Open)
      PROVE  servo <= LOWER + STEP
  <2>1. Len(answer) = 1 /\ answer[1] = <<Open>>
    BY <1>1 DEF Acknowledged
  <2>2. commPc = "recvfrom"
    <3>1. Measured(1) \notin Acks /\ <<Open>> \in Acks
      <4>1. data \in {0, 1}
        BY <1>1 DEF IInv, TypeOK
      <4> QED
        BY <4>1, MeasuredMessage DEF Acks
    <3> QED
      BY <1>1, <2>1, <3>1 DEF IInv, Answers
  <2> QED
    BY <1>1, <2>1, <2>2 DEF IInv, OpenNews, Servo, Turns
<1>2. IInv => OpenAckTrue
  BY <1>1 DEF OpenAckTrue
<1> QED
  BY <1>2, Inductive, PTL

-----------------------------------------------------------------------------
\* A node that starts with its window closed and is not reset

Steps == (\E c \in Received : Arrive(c)) \/ CommStep \/ MainStep

(* The window is closed whenever the program takes it for closed, unless   *)
(* it is being opened.                                                     *)
Shut ==
    canOpen /\ ~(mainPc = "switch" /\ order = "START_OPEN_WINDOW")
        => servo >= UPPER - 2 * STEP

(* The news that the window is closed, as OpenNews.                        *)
CloseNews ==
    \/ mainPc = "msg_send" /\ order = "FINISH_CLOSE_WINDOW"
    \/ mailbox # <<>> /\ mailbox[1] = "FINISH_CLOSE_WINDOW"
    \/ commPc = "answer" /\ command = "FINISH_CLOSE_WINDOW"
    \/ commPc = "recvfrom" /\ Len(answer) = 1 /\ answer[1] = <<Close>>

LEMMA NextShut ==
    ASSUME IInv, Shut, [Steps]_vars
    PROVE  Shut'
<1>1. CASE \E c \in Received : Arrive(c)
  BY <1>1 DEF Arrive, mainVars, Shut
<1>2. CASE CommStep
  BY <1>2 DEF CommStep, Receive, HandOver, HandOverToNobody, TakeReply, Report,
              Acknowledge, mainVars, Shut
<1>3. CASE DriveClose
  <2>1. /\ pos \in Int /\ pos' = pos + 2 * STEP /\ servo' = Clamped(pos)
        /\ canOpen' => pos' >= UPPER
    BY <1>3 DEF IInv, TypeOK, DriveClose
  <2>2. pos' >= UPPER => servo' >= UPPER - 2 * STEP
    BY <2>1, ServoNumbers DEF Clamped
  <2> QED
    BY <2>1, <2>2 DEF Shut
<1>4. CASE MainStep /\ ~DriveClose
  BY <1>4 DEF MainStep, InitAll, Measure, DriveOpen, NoNeedToDrive, NoCase, Reply, Shut,
              IInv, Turns, Finished
<1>5. CASE UNCHANGED vars
  BY <1>5 DEF vars, mainVars, Shut
<1> QED
  BY <1>1, <1>2, <1>3, <1>4, <1>5 DEF Steps

LEMMA NextCloseNews ==
    ASSUME IInv, CloseNews => canOpen, [Next]_vars
    PROVE  (CloseNews => canOpen)'
<1>1. CASE \E c \in Received : Arrive(c)
  BY <1>1 DEF Arrive, commVars, mainVars, CloseNews
<1>2. CASE Receive \/ HandOver \/ HandOverToNobody
  BY <1>2 DEF Receive, HandOver, HandOverToNobody, mainVars, CloseNews, IInv, Turns
<1>3. CASE TakeReply
  <2>1. Head(mailbox) = mailbox[1] /\ Tail(mailbox) = <<>>
    <3>1. mailbox \in Seq(Finished) /\ Len(mailbox) <= 1 /\ mailbox # <<>>
      BY <1>3 DEF IInv, TypeOK, TakeReply
    <3> QED
      BY <3>1
  <2> QED
    BY <1>3, <2>1 DEF TakeReply, mainVars, CloseNews, IInv, Turns
<1>4. CASE Report
  <2>1. answer'[1] \notin Acks
    <3>1. Len(answer') \in 1..5 /\ answer'[1] = Measured(1) /\ data \in {0, 1}
      <4>1. \A k \in 0..4 : k + 1 \in 1..5
        OBVIOUS
      <4>2. Len(answer') \in 1..5
        BY <1>4, <4>1, ReportSends
      <4>3. 1 \in 1..Len(answer')
        BY <4>2
      <4>4. answer'[1] = Measured(1)
        BY <1>4, <4>3, ReportSends
      <4> QED
        BY <1>4, <4>2, <4>4 DEF IInv, TypeOK
    <3> QED
      BY <3>1, MeasuredMessage
  <2> QED
    BY <1>4, <2>1 DEF IInv, CloseNews, Turns, Report, mainVars, Acks
<1>5. CASE Acknowledge
  <2>1. answer' \in {<<<<Open>>>>, <<<<Close>>>>}
    BY <1>5 DEF Acknowledge
  <2> QED
    BY <1>5, <2>1 DEF IInv, CloseNews, Turns, Acknowledge, mainVars, Open, Close
<1>6. CASE InitAll
  BY <1>6 DEF InitAll, commVars, CloseNews
<1>7. CASE Measure \/ DriveOpen \/ DriveClose \/ NoNeedToDrive \/ NoCase
  BY <1>7, ServingSilently
     DEF Measure, DriveOpen, DriveClose, NoNeedToDrive, NoCase, commVars, CloseNews
<1>8. CASE Reply
  <2>1. mailbox' = <<order>> /\ commPc' = "msg_receive" /\ mainPc' = "msg_receive"
    BY <1>8, ServingSilently DEF Reply, commVars
  <2> QED
    BY <1>8, <2>1 DEF CloseNews, Reply
<1>9. CASE Reboot
  <2>1. Len(answer') # 1
    <3>1. answer' = <<>>
      BY <1>9 DEF Reboot
    <3> QED
      BY <3>1, EmptySequence
  <2> QED
    BY <1>9, <2>1 DEF Reboot, CloseNews
<1>10. CASE UNCHANGED vars
  BY <1>10 DEF vars, commVars, mainVars, CloseNews
<1> QED
  BY <1>1, <1>2, <1>3, <1>4, <1>5, <1>6, <1>7, <1>8, <1>9, <1>10
     DEF Next, CommStep, MainStep

(* An acknowledged Close is true as well, for a node that is never reset   *)
(* and starts with its window closed; a run shows a node started with its  *)
(* window open that acknowledges Close without a movement.                 *)
THEOREM CloseAckTrueFromClosed ==
    ASSUME ~MayReboot, \A s \in Shaft : s >= UPPER - 2 * STEP
    PROVE  Spec => []CloseAckTrue
<1>1. Init => Shut /\ (CloseNews => canOpen)
  <2>1. ASSUME Init PROVE Len(answer) # 1
    <3>1. answer = <<>>
      BY <2>1 DEF Init
    <3> QED
      BY <3>1, EmptySequence
  <2> QED
    BY <2>1 DEF Init, Shut, CloseNews
<1>2. IInv /\ Shut /\ [Next]_vars => Shut'
  <2>1. Reboot => FALSE
    BY DEF Reboot
  <2> QED
    BY <2>1, NextShut DEF Next, Steps
<1>3. IInv /\ (CloseNews => canOpen) /\ [Next]_vars => (CloseNews => canOpen)'
  BY NextCloseNews
<1>4. ASSUME IInv, Shut, CloseNews => canOpen, Acknowledged(Close)
      PROVE  servo >= UPPER - 2 * STEP
  <2>1. Len(answer) = 1 /\ answer[1] = <<Close>>
    BY <1>4 DEF Acknowledged
  <2>2. commPc = "recvfrom"
    <3>1. Measured(1) \notin Acks /\ <<Close>> \in Acks
      <4>1. data \in {0, 1}
        BY <1>4 DEF IInv, TypeOK
      <4> QED
        BY <4>1, MeasuredMessage DEF Acks
    <3> QED
      BY <1>4, <2>1, <3>1 DEF IInv, Answers
  <2> QED
    BY <1>4, <2>1, <2>2 DEF IInv, CloseNews, Shut, Turns
<1>5. IInv /\ Shut /\ (CloseNews => canOpen) => CloseAckTrue
  BY <1>4 DEF CloseAckTrue
<1> QED
  BY <1>1, <1>2, <1>3, <1>5, Inductive, PTL DEF Spec

-----------------------------------------------------------------------------
\* A node that hears no other text than its commands

FinishOf(c) ==
    IF c = GetAll THEN "FINISH_MEASUREMENT"
    ELSE IF c = Open THEN "FINISH_OPEN_WINDOW" ELSE "FINISH_CLOSE_WINDOW"

(* Wherever the request is, what is done is what it asks for; and somebody *)
(* is doing it.                                                            *)
Serves ==
    /\ mainPc # "returned"
    /\ commPc # "recvfrom" => request \in Received
    /\ commPc = "msg_send" => command = StartOf[request]
    /\ mainPc = "switch" => order = StartOf[request]
    /\ mainPc = "msg_send" => order = FinishOf(request)
    /\ mailbox # <<>> => mailbox[1] = FinishOf(request)
    /\ commPc = "answer" => command = FinishOf(request)
    /\ NoMutualWait

(* What a command starts is what the main thread has a case for, and the   *)
(* case ends with the result that belongs to the command.                  *)
LEMMA Commands ==
    ASSUME NEW c \in DOMAIN StartOf
    PROVE  /\ c \in {GetAll, Open, Close}
           /\ StartOf[c] = "START_MEASUREMENT" <=> c = GetAll
           /\ StartOf[c] = "START_OPEN_WINDOW" <=> c = Open
           /\ StartOf[c] = "START_CLOSE_WINDOW" <=> c = Close
           /\ FinishOf(c) = "FINISH_MEASUREMENT" <=> c = GetAll
           /\ FinishOf(c) = "FINISH_OPEN_WINDOW" <=> c = Open
           /\ FinishOf(c) = "FINISH_CLOSE_WINDOW" <=> c = Close
<1>1. GetAll # Open /\ GetAll # Close /\ Open # Close
  BY DEF GetAll, Open, Close
<1> QED
  BY <1>1, StartOfType DEF FinishOf

LEMMA InitServes == Init => Serves
  BY DEF Init, Serves, NoMutualWait

LEMMA NextServes ==
    ASSUME Received \subseteq DOMAIN StartOf, ~MayFail,
           IInv, Serves, [Next]_vars
    PROVE  Serves'
<1>1. ASSUME NEW c \in Received, Arrive(c) PROVE Serves'
  BY <1>1 DEF Arrive, commVars, mainVars, Serves, NoMutualWait
<1>2. CASE Receive
  <2>1. request' \in Received
    <3>1. inbox \in Seq(Received) /\ inbox # <<>> /\ request' = Head(inbox)
      BY <1>2 DEF IInv, TypeOK, Receive
    <3> QED
      BY <3>1
  <2>2. command' = StartOf[request']
    BY <1>2, <2>1 DEF Receive
  <2> QED
    BY <1>2, <2>1, <2>2 DEF IInv, Turns, Receive, mainVars, Serves, NoMutualWait
<1>3. CASE HandOver
  BY <1>3 DEF IInv, Turns, HandOver, Serves, NoMutualWait
<1>4. CASE HandOverToNobody
  BY <1>4 DEF HandOverToNobody, Serves
<1>5. CASE TakeReply
  <2>1. Head(mailbox) = mailbox[1] /\ Tail(mailbox) = <<>>
    <3>1. mailbox \in Seq(Finished) /\ Len(mailbox) <= 1 /\ mailbox # <<>>
      BY <1>5 DEF IInv, TypeOK, TakeReply
    <3> QED
      BY <3>1
  <2> QED
    BY <1>5, <2>1 DEF IInv, Turns, TakeReply, mainVars, Serves, NoMutualWait
<1>6. CASE Report
  BY <1>6 DEF IInv, Turns, Report, mainVars, Serves, NoMutualWait
<1>7. CASE Acknowledge
  BY <1>7 DEF IInv, Turns, Acknowledge, mainVars, Serves, NoMutualWait
<1>8. CASE InitAll
  BY <1>8 DEF IInv, Turns, InitAll, commVars, Serves, NoMutualWait
<1>9. ASSUME mainPc = "switch"
      PROVE  /\ request \in DOMAIN StartOf /\ order = StartOf[request]
             /\ commPc = "msg_receive" /\ mailbox = <<>>
  BY <1>9 DEF IInv, Turns, Serves
<1>10. CASE Measure
  BY <1>9, <1>10, Commands DEF Measure, commVars, Serves, NoMutualWait
<1>11. CASE DriveOpen
  BY <1>9, <1>11, Commands DEF DriveOpen, commVars, Serves, NoMutualWait
<1>12. CASE DriveClose
  BY <1>9, <1>12, Commands DEF DriveClose, commVars, Serves, NoMutualWait
<1>13. CASE NoNeedToDrive
  BY <1>9, <1>13, Commands DEF NoNeedToDrive, commVars, Serves, NoMutualWait
<1>14. CASE NoCase
  <2>1. order \in Started
    BY <1>9, <1>14, StartOfType DEF NoCase
  <2> QED
    BY <1>14, <2>1 DEF NoCase, Started
<1>15. CASE Reply
  <2>1. /\ mailbox' = <<order>> /\ mailbox' # <<>> /\ mailbox'[1] = order
        /\ commPc = "msg_receive"
    BY <1>15, ServingSilently DEF Reply
  <2> QED
    BY <1>15, <2>1 DEF Reply, commVars, Serves, NoMutualWait
<1>16. CASE Reboot
  BY <1>16 DEF Reboot, Serves, NoMutualWait
<1>17. CASE UNCHANGED vars
  BY <1>17 DEF vars, commVars, mainVars, Serves, NoMutualWait
<1> QED
  BY <1>1, <1>2, <1>3, <1>4, <1>5, <1>6, <1>7, <1>8, <1>10, <1>11, <1>12, <1>13,
     <1>14, <1>15, <1>16, <1>17 DEF Next, CommStep, MainStep

(* The threads never wait for each other, through all resets, as long as   *)
(* the devices answer at the start and no text comes in that the build     *)
(* does not know - which is what the node outside cannot rely on.          *)
THEOREM NeverMutualWait ==
    ASSUME Received \subseteq DOMAIN StartOf, ~MayFail
    PROVE  Spec => []NoMutualWait
<1>1. IInv /\ Serves /\ [Next]_vars => Serves'
  BY NextServes
<1>2. Serves => NoMutualWait
  BY DEF Serves
<1> QED
  BY InitServes, <1>1, <1>2, Inductive, PTL DEF Spec

-----------------------------------------------------------------------------
\* What the steps do to the commands under way

Served(x) == commPc # "recvfrom" /\ request = x

(* The command x has been carried out and is not acknowledged yet.         *)
Done(x) == Served(x) /\ (mainPc = "msg_send" \/ mailbox # <<>> \/ commPc = "answer")

(* The program takes the window to be where x wants it.                    *)
At(x) == canOpen <=> x = Close

LEMMA ReceiveMoves ==
    ASSUME IInv, Receive, NEW x
    PROVE  /\ inbox # <<>> /\ inbox' = Tail(inbox) /\ canOpen' = canOpen
           /\ ~Served(x) /\ (Served(x)' <=> x = Head(inbox)) /\ ~Done(x)'
<1>1. mailbox' = <<>> /\ mainPc' \notin {"switch", "msg_send"} /\ commPc' = "msg_send"
  BY DEF IInv, Turns, Receive, mainVars
<1> QED
  BY <1>1 DEF Receive, mainVars, Served, Done

(* A change of what the program thinks of the window is the end of a drive *)
(* for the command that is served.                                         *)
LEMMA InnerMoves ==
    ASSUME Received \subseteq DOMAIN StartOf, IInv, Serves,
           HandOver \/ HandOverToNobody \/ TakeReply \/ MainStep,
           NEW x \in {Open, Close}
    PROVE  /\ inbox' = inbox
           /\ Served(x)' <=> Served(x)
           /\ canOpen' # canOpen => \E y \in {Open, Close} : Served(y) /\ At(y)'
           /\ Done(x)' => At(x)' \/ (Done(x) /\ canOpen' = canOpen)
<1>1. Open # Close /\ Open # GetAll /\ Close # GetAll
  BY DEF Open, Close, GetAll
<1>2. ASSUME mainPc = "switch"
      PROVE  /\ commPc = "msg_receive" /\ mailbox = <<>>
             /\ order = "START_OPEN_WINDOW" <=> request = Open
             /\ order = "START_CLOSE_WINDOW" <=> request = Close
             /\ order = "START_MEASUREMENT" <=> request = GetAll
  <2>1. commPc = "msg_receive" /\ mailbox = <<>>
    BY <1>2 DEF IInv, Turns
  <2>2. request \in DOMAIN StartOf /\ order = StartOf[request]
    BY <1>2, <2>1 DEF Serves
  <2> QED
    BY <2>1, <2>2, Commands
<1>3. CASE HandOver
  BY <1>3 DEF HandOver, Served, Done, At, IInv, Turns
<1>4. CASE HandOverToNobody \/ InitAll
  BY <1>4 DEF HandOverToNobody, InitAll, commVars, mainVars, Served, Done, At, Serves,
              IInv, Turns
<1>5. CASE TakeReply
  BY <1>5 DEF TakeReply, mainVars, Served, Done, At
<1>6. CASE Measure
  BY <1>1, <1>2, <1>6 DEF Measure, commVars, Served, Done, At
<1>7. CASE DriveOpen
  BY <1>1, <1>2, <1>7 DEF DriveOpen, commVars, Served, Done, At
<1>8. CASE DriveClose
  BY <1>1, <1>2, <1>8 DEF DriveClose, commVars, Served, Done, At
<1>9. CASE NoNeedToDrive
  BY <1>1, <1>2, <1>9 DEF NoNeedToDrive, commVars, Served, Done, At
<1>10. CASE NoCase
  BY <1>2, <1>10 DEF NoCase, commVars, Served, Done, At
<1>11. CASE Reply
  BY <1>11 DEF Reply, commVars, Served, Done, At
<1> QED
  BY <1>3, <1>4, <1>5, <1>6, <1>7, <1>8, <1>9, <1>10, <1>11 DEF MainStep

LEMMA ReportMoves ==
    ASSUME Received \subseteq DOMAIN StartOf, IInv, Serves, Report,
           NEW x \in {Open, Close}
    PROVE  /\ inbox' = inbox /\ canOpen' = canOpen
           /\ ~Served(x) /\ ~Served(x)'
<1>1. request \in DOMAIN StartOf /\ FinishOf(request) = "FINISH_MEASUREMENT"
  BY DEF Serves, Report
<1>2. request = GetAll
  BY <1>1, Commands
<1> QED
  BY <1>2 DEF Report, mainVars, Served, Open, Close, GetAll

LEMMA AcknowledgeMoves ==
    ASSUME Received \subseteq DOMAIN StartOf, IInv, Serves, Acknowledge
    PROVE  /\ inbox' = inbox /\ canOpen' = canOpen
           /\ request \in {Open, Close} /\ answer'[1][1] = request
           /\ Done(request) /\ \A x : ~Served(x)'
<1>1. /\ request \in DOMAIN StartOf
      /\ \/ FinishOf(request) = "FINISH_OPEN_WINDOW" /\ answer' = <<<<Open>>>>
         \/ FinishOf(request) = "FINISH_CLOSE_WINDOW" /\ answer' = <<<<Close>>>>
  BY DEF Serves, Acknowledge
<1>2. request \in {Open, Close} /\ answer' = <<<<request>>>>
  BY <1>1, Commands DEF Open, Close
<1>3. answer'[1][1] = request
  BY <1>2
<1> QED
  BY <1>2, <1>3 DEF Acknowledge, mainVars, Served, Done

(* The servo's position moves only for the command that is served, and     *)
(* only if the window is not where it wants it.                            *)
LEMMA DriveMoves ==
    ASSUME Received \subseteq DOMAIN StartOf, IInv, Serves, [Steps]_vars
    PROVE  /\ pos' < pos => Served(Open) /\ ~At(Open)
           /\ pos' > pos => Served(Close) /\ ~At(Close)
<1>1. pos \in Int /\ STEP \in Int /\ STEP > 0
  BY ServoNumbers DEF IInv, TypeOK
<1>2. Open # Close
  BY DEF Open, Close
<1>3. ASSUME mainPc = "switch"
      PROVE  /\ commPc = "msg_receive"
             /\ order = "START_OPEN_WINDOW" <=> request = Open
             /\ order = "START_CLOSE_WINDOW" <=> request = Close
  <2>1. commPc = "msg_receive"
    BY <1>3 DEF IInv, Turns
  <2>2. request \in DOMAIN StartOf /\ order = StartOf[request]
    BY <1>3, <2>1 DEF Serves
  <2> QED
    BY <2>1, <2>2, Commands
<1>4. CASE DriveOpen
  <2>1. pos' < pos
    BY <1>1, <1>4 DEF DriveOpen
  <2> QED
    BY <1>1, <1>2, <1>3, <1>4, <2>1 DEF DriveOpen, Served, At
<1>5. CASE DriveClose
  <2>1. pos' > pos
    BY <1>1, <1>5 DEF DriveClose
  <2> QED
    BY <1>1, <1>2, <1>3, <1>5, <2>1 DEF DriveClose, Served, At
<1>6. CASE pos' = pos
  BY <1>1, <1>6
<1>7. pos' = pos \/ DriveOpen \/ DriveClose
  BY DEF Steps, Arrive, CommStep, Receive, HandOver, HandOverToNobody, TakeReply, Report,
         Acknowledge, MainStep, InitAll, Measure, NoNeedToDrive, NoCase, Reply,
         mainVars, vars
<1> QED
  BY <1>4, <1>5, <1>6, <1>7

-----------------------------------------------------------------------------
\* The node keeps its promise

(* What a client has heard after n values of a measurement.                *)
Heard(n) == [i \in 1..n |-> Sensors[i]]

LEMMA HeardFacts ==
    ASSUME NEW n \in 0..5
    PROVE  /\ Len(Heard(n)) = n
           /\ n < 5 => Heard(n + 1) = Append(Heard(n), Sensors[n + 1])
           /\ Heard(n) = Sensors <=> n = 5
           /\ IsPrefix(Heard(n), Sensors)
<1>1. Heard(n) \in Seq(Range(Sensors)) /\ Len(Heard(n)) = n
  BY DEF Heard, Range, Sensors
<1>2. ASSUME n < 5 PROVE Heard(n + 1) = Append(Heard(n), Sensors[n + 1])
  BY <1>1, <1>2 DEF Heard
<1>3. Heard(n) = Sensors <=> n = 5
  BY <1>1 DEF Heard, Sensors
<1>4. IsPrefix(Heard(n), Sensors)
  <2>1. SubSeq(Heard(n), 1, n) = SubSeq(Sensors, 1, n)
    BY <1>1 DEF Heard, Sensors
  <2> QED
    BY <1>1, <2>1, SensorCount DEF IsPrefix
<1> QED
  BY <1>1, <1>2, <1>3, <1>4

LEMMA SaidHeard ==
    ASSUME NEW a \in Seq(Messages), Len(a) <= 5,
           \A i \in 1..Len(a) : a[i] = Measured(i)
    PROVE  [i \in DOMAIN a |-> a[i][1]] = Heard(Len(a))
<1>1. \A i \in 1..Len(a) : Measured(i)[1] = Sensors[i]
  BY DEF Measured
<1>2. \A i \in 1..Len(a) : a[i][1] = Sensors[i]
  BY <1>1
<1> QED
  BY <1>2 DEF Heard

LEMMA SaidNothing ==
    [i \in DOMAIN <<>> |-> <<>>[i][1]] = <<>> /\ Heard(0) = <<>>
  BY DEF Heard

LEMMA SaidAck == \A x : [i \in DOMAIN <<<<x>>>> |-> <<<<x>>>>[i][1]] = <<x>>
  OBVIOUS

LEMMA AnswerOfCommands ==
    AnswerOf(GetAll) = Sensors /\ AnswerOf(Open) = <<Open>> /\ AnswerOf(Close) = <<Close>>
<1>1. GetAll # Open /\ GetAll # Close /\ Open # Close
  BY DEF GetAll, Open, Close
<1> QED
  BY <1>1, Zenon DEF AnswerOf

Serving == IF commPc = "recvfrom" THEN "" ELSE request
Said == [i \in DOMAIN answer |-> answer[i][1]]

LEMMA SayIs ==
    ASSUME Serving # "", inbox' = inbox,
           NEW m \in Range(AnswerOf(Serving)), Said' = Append(Said, m),
           IsPrefix(Said', AnswerOf(Serving)),
           Serving' = IF Said' = AnswerOf(Serving) THEN "" ELSE Serving
    PROVE  Promise!Say
  BY Zenon DEF Promise!Say, Promise!Range, Promise!IsPrefix, Range, IsPrefix,
               Serving, Said

(* One message of a report is one message of the answer that is promised.  *)
LEMMA ReportSays ==
    ASSUME Received \subseteq DOMAIN StartOf, IInv, Serves, Report
    PROVE  Promise!Say
<1> DEFINE n == Len(answer)
<1>1. request \in DOMAIN StartOf /\ FinishOf(request) = "FINISH_MEASUREMENT"
  BY DEF Serves, Report
<1>2. request = GetAll /\ request # ""
  BY <1>1, Commands DEF GetAll
<1>3. Said = Heard(n) /\ Said' = Heard(n + 1) /\ n \in 0..4
  <2>1. Said = Heard(n)
    <3>1. /\ answer \in Seq(Messages) /\ Len(answer) <= 5
          /\ \A i \in 1..Len(answer) : answer[i] = Measured(i)
      BY ReportSends
    <3> QED
      BY <3>1, SaidHeard DEF Said
  <2>2. Said' = Heard(Len(answer'))
    <3>1. /\ answer' \in Seq(Messages) /\ Len(answer') <= 5
          /\ \A i \in 1..Len(answer') : answer'[i] = Measured(i)
      BY ReportSends
    <3> QED
      BY <3>1, SaidHeard DEF Said
  <2> QED
    BY <2>1, <2>2, ReportSends
<1>4. /\ Said' = Append(Said, Sensors[n + 1])
      /\ Said' = Sensors <=> n + 1 = 5
      /\ IsPrefix(Said', Sensors)
      /\ Sensors[n + 1] \in Range(Sensors)
  <2> HIDE DEF n
  <2>1. n \in 0..5 /\ n + 1 \in 0..5 /\ n < 5
    BY <1>3
  <2>2. Sensors[n + 1] \in Range(Sensors)
    BY <1>3 DEF Range, Sensors
  <2> QED
    BY <1>3, <2>1, <2>2, HeardFacts
<1>5. /\ Serving = request /\ inbox' = inbox
      /\ Serving' = IF n + 1 = 5 THEN "" ELSE request
  BY ReportSends, SensorCount DEF Serving, Report
<1>6. AnswerOf(Serving) = Sensors
  BY <1>2, <1>5, AnswerOfCommands
<1> QED
  BY <1>2, <1>4, <1>5, <1>6, SayIs

LEMMA AcknowledgeSays ==
    ASSUME Received \subseteq DOMAIN StartOf, IInv, Serves, Acknowledge
    PROVE  Promise!Say
<1>1. /\ request \in DOMAIN StartOf
      /\ \/ FinishOf(request) = "FINISH_OPEN_WINDOW" /\ answer' = <<<<Open>>>>
         \/ FinishOf(request) = "FINISH_CLOSE_WINDOW" /\ answer' = <<<<Close>>>>
  BY DEF Serves, Acknowledge
<1>2. /\ request \in {Open, Close} /\ request # "" /\ answer' = <<<<request>>>>
  BY <1>1, Commands DEF Open, Close
<1>3. answer = <<>>
  BY DEF IInv, Answers, Acknowledge
<1>4. Said = <<>> /\ Said' = <<request>>
  BY <1>2, <1>3, SaidNothing, SaidAck DEF Said
<1>5. /\ AnswerOf(request) = <<request>>
      /\ request \in Range(<<request>>)
      /\ <<request>> = Append(<<>>, request)
      /\ IsPrefix(<<request>>, <<request>>)
  <2>1. AnswerOf(request) = <<request>>
    BY <1>2, AnswerOfCommands
  <2>2. \A x : x \in Range(<<x>>) /\ <<x>> = Append(<<>>, x) /\ IsPrefix(<<x>>, <<x>>)
    BY DEF Range, IsPrefix
  <2> QED
    BY <2>1, <2>2
<1>6. Serving = request /\ Serving' = "" /\ inbox' = inbox
  BY DEF Serving, Acknowledge
<1> QED
  BY <1>2, <1>4, <1>5, <1>6, SayIs

LEMMA ReceiveAccepts ==
    ASSUME Received \subseteq DOMAIN StartOf, IInv, Receive
    PROVE  Promise!Accept
<1>1. Serving = "" /\ Serving' = Head(inbox) /\ inbox # <<>> /\ inbox' = Tail(inbox)
  BY DEF Serving, Receive
<1>2. Said' = <<>>
  <2>1. answer' = <<>>
    BY DEF Receive
  <2> QED
    BY <2>1, SaidNothing DEF Said
<1> QED
  BY <1>1, <1>2 DEF Promise!Accept, Serving, Said

(* The node implements NodePromise, step by step, as long as nothing resets *)
(* it: it takes the requests one by one in the order they come in and gives *)
(* each the messages its command calls for, in their order, all of them     *)
(* before it looks at the next.                                             *)
THEOREM PromisedSteps ==
    ASSUME Received \subseteq DOMAIN StartOf, ~MayFail, ~MayReboot
    PROVE  Spec => Promise!Init /\ [][Promise!Next]_(Promise!vars)
<1>1. ASSUME Init PROVE Promise!Init
  <2>1. Serving = "" /\ inbox = <<>> /\ answer = <<>>
    BY <1>1 DEF Init, Serving
  <2>2. Said = <<>>
    BY <2>1, SaidNothing DEF Said
  <2> QED
    BY <2>1, <2>2 DEF Promise!Init, Serving, Said
<1>2. ASSUME IInv, Serves, [Next]_vars
      PROVE  [Promise!Next]_(Promise!vars)
  <2>1. ASSUME NEW c \in Received, Arrive(c) PROVE Promise!Arrive(c)
    BY <2>1 DEF Arrive, commVars, Promise!Arrive
  <2>2. CASE Receive
    BY <1>2, <2>2, ReceiveAccepts DEF Promise!Next
  <2>3. CASE Report
    BY <1>2, <2>3, ReportSays DEF Promise!Next
  <2>4. CASE Acknowledge
    BY <1>2, <2>4, AcknowledgeSays DEF Promise!Next
  <2>5. CASE HandOver \/ HandOverToNobody \/ TakeReply
    BY <2>5 DEF HandOver, HandOverToNobody, TakeReply, Promise!vars
  <2>6. CASE MainStep
    BY <2>6 DEF MainStep, InitAll, Measure, DriveOpen, DriveClose, NoNeedToDrive,
                NoCase, Reply, commVars, Promise!vars
  <2>7. CASE Reboot
    BY <2>7 DEF Reboot
  <2>8. CASE UNCHANGED vars
    BY <2>8 DEF vars, commVars, Promise!vars
  <2> QED
    BY <1>2, <2>1, <2>2, <2>3, <2>4, <2>5, <2>6, <2>7, <2>8
       DEF Next, CommStep, Promise!Next
<1>3. IInv /\ Serves /\ [Next]_vars => Serves'
  BY NextServes
<1> QED
  BY <1>1, <1>2, <1>3, InitServes, Inductive, PTL DEF Spec
=================================================================================
