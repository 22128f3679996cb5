---------------------------- MODULE SmartWindowProofs ----------------------------
(***************************************************************************)
(* Proofs about SmartWindow, for every set of readings, every servo, every *)
(* socket and any failures.  What is known of the decision loop and of the *)
(* node on their own is taken from the proofs about them.                  *)
(***************************************************************************)
EXTENDS SmartWindow, TLAPS

CP == INSTANCE DecisionLoopProofs WITH FailingWrites <- {}

NP == INSTANCE SensorNodeProofs WITH
    IsIn <- TRUE, Received <- {"GET_All", "PUT_Win/Open", "PUT_Win/Close"},
    MayFail <- FALSE, MayReboot <- TRUE

-----------------------------------------------------------------------------
\* The parts

(* The instances of the proof modules meet the assumptions there.          *)
LEMMA ChartAssumptions == CP!ReadingsAssumption /\ CP!WritesAssumption
<1>1. CP!ReadingType = Controller!ReadingType
  BY DEF CP!ReadingType, Controller!ReadingType
<1> QED
  BY <1>1, PartsAssumption DEF CP!ReadingsAssumption, CP!WritesAssumption

LEMMA NodeAssumptions == NP!ServoAssumption /\ NP!NodeAssumption
  BY PartsAssumption, BoundsAssumption DEF NP!ServoAssumption, NP!NodeAssumption

Messages == [own: BOOLEAN, text: {GetAll, Open, Close, MeasuredValue}]

(* The variables of SmartWindow that belong to neither part.               *)
LoopTypeOK ==
    /\ step \in {"read", "decide", "send"} /\ seen \in BOOLEAN
    /\ socket \in Seq(Messages) /\ Len(socket) <= SocketSize
    /\ receiving \in BOOLEAN /\ winOpen \in BOOLEAN /\ stamped \in BOOLEAN
    /\ crashes \in 0..MaxCrashes

(* Both parts keep to what they keep to on their own.                      *)
PartsInv == CP!IInv /\ NP!IInv /\ LoopTypeOK

LEMMA PartsType == ASSUME PartsInv PROVE TypeOK
<1>1. Controller!TypeOK
  BY DEF PartsInv, CP!IInv, CP!TypeOK, CP!Flags, CP!InitFlag, CP!State0, CP!Rows,
         CP!AlarmType, CP!ShownType, CP!Open, CP!Close, CP!OK, CP!Warning, CP!Alarmed,
         Controller!TypeOK, Controller!Flags, Controller!InitFlag, Controller!State0,
         Controller!Rows, Controller!AlarmType, Controller!ShownType, Controller!Open,
         Controller!Close, Controller!OK, Controller!Warning, Controller!Alarmed
<1>2. Node!TypeOK
  BY DEF PartsInv, NP!IInv, NP!TypeOK, NP!Started, NP!Finished, NP!Sensors,
         Node!TypeOK, Node!Started, Node!Finished, Node!Sensors
<1> QED
  BY <1>1, <1>2 DEF PartsInv, LoopTypeOK, Messages, TypeOK

(* A step of the node here is a step of the node there.                    *)
LEMMA NodeSteps ==
    /\ Node!Init => NP!Init
    /\ \A c : Node!Arrive(c) => NP!Arrive(c)
    /\ Node!Receive => NP!Receive
    /\ Node!HandOver => NP!HandOver
    /\ Node!TakeReply => NP!TakeReply
    /\ Node!Report => NP!Report
    /\ Node!Acknowledge => NP!Acknowledge
    /\ Node!MainStep => NP!MainStep
    /\ Node!Reboot => NP!Reboot
    /\ UNCHANGED nodeVars => UNCHANGED NP!vars
<1> USE DEF NP!commVars, NP!mainVars, Node!commVars, Node!mainVars,
            NP!GetAll, NP!Open, NP!Close, Node!GetAll, Node!Open, Node!Close,
            NP!START, Node!START
<1>1. Node!Init => NP!Init
  BY DEF Node!Init, NP!Init
<1>2. \A c : Node!Arrive(c) => NP!Arrive(c)
  BY DEF Node!Arrive, NP!Arrive
<1>3. Node!Receive => NP!Receive
  <2>1. Node!StartOf = NP!StartOf
    BY Zenon DEF Node!StartOf, NP!StartOf
  <2> QED
    BY <2>1 DEF Node!Receive, NP!Receive
<1>4. Node!HandOver => NP!HandOver
  BY DEF Node!HandOver, NP!HandOver
<1>5. Node!TakeReply => NP!TakeReply
  BY DEF Node!TakeReply, NP!TakeReply
<1>6. Node!Report => NP!Report
  BY DEF Node!Report, NP!Report, Node!Sensors, NP!Sensors
<1>7. Node!Acknowledge => NP!Acknowledge
  BY DEF Node!Acknowledge, NP!Acknowledge
<1>8. Node!MainStep => NP!MainStep
  <2>1. Node!InitAll => NP!InitAll
    BY DEF Node!InitAll, NP!InitAll
  <2>2. Node!Measure => NP!Measure
    BY DEF Node!Measure, NP!Measure
  <2>3. Node!DriveOpen => NP!DriveOpen
    BY DEF Node!DriveOpen, NP!DriveOpen, Node!Clamped, NP!Clamped
  <2>4. Node!DriveClose => NP!DriveClose
    BY DEF Node!DriveClose, NP!DriveClose, Node!Clamped, NP!Clamped
  <2>5. Node!NoNeedToDrive => NP!NoNeedToDrive
    BY DEF Node!NoNeedToDrive, NP!NoNeedToDrive
  <2>6. Node!NoCase => NP!NoCase
    BY DEF Node!NoCase, NP!NoCase
  <2>7. Node!Reply => NP!Reply
    BY DEF Node!Reply, NP!Reply
  <2> QED
    BY <2>1, <2>2, <2>3, <2>4, <2>5, <2>6, <2>7 DEF Node!MainStep, NP!MainStep
<1>9. Node!Reboot => NP!Reboot
  BY DEF Node!Reboot, NP!Reboot
<1>10. UNCHANGED nodeVars => UNCHANGED NP!vars
  BY DEF nodeVars, NP!vars
<1> QED
  BY <1>1, <1>2, <1>3, <1>4, <1>5, <1>6, <1>7, <1>8, <1>9, <1>10

(* A pass here is a pass there.                                            *)
LEMMA ChartSteps ==
    /\ Controller!Init => CP!Init
    /\ \A r : Controller!Pass(r) => CP!Pass(r)
    /\ UNCHANGED chartVars => UNCHANGED CP!vars
<1>1. Controller!Init => CP!Init
  BY DEF Controller!Init, CP!Init, Controller!InitFlag, CP!InitFlag, Controller!OK, CP!OK
<1>2. \A S, from, guard, to :
        Controller!Fire(S, from, guard, to) = CP!Fire(S, from, guard, to)
  BY DEF Controller!Fire, CP!Fire
<1>3. \A p, a : Controller!RowAlarms(p, a) = CP!RowAlarms(p, a)
  BY Zenon DEF Controller!RowAlarms, CP!RowAlarms
<1>4. \A p, a, r : /\ Controller!OpenGuard(p, a, r) = CP!OpenGuard(p, a, r)
                   /\ Controller!CloseGuard(p, a, r) = CP!CloseGuard(p, a, r)
  BY <1>3, ZenonT(60) DEF Controller!OpenGuard, CP!OpenGuard, Controller!CloseGuard,
                     CP!CloseGuard, Controller!WindAlarm, CP!WindAlarm
<1>5. \A S, p, a, r : Controller!RowPass(S, p, a, r) = CP!RowPass(S, p, a, r)
  BY <1>2, <1>4 DEF Controller!RowPass, CP!RowPass, Controller!State0, CP!State0,
                     Controller!InitFlag, CP!InitFlag
<1>6. \A S, a, r : Controller!ChartPass(S, a, r) = CP!ChartPass(S, a, r)
  BY <1>2, <1>5, Zenon DEF Controller!ChartPass, CP!ChartPass, Controller!State0,
                     CP!State0, Controller!InitFlag, CP!InitFlag
<1>7. \A a, r : Controller!NextAlarm(a, r) = CP!NextAlarm(a, r)
  <2>1. \A x, in, max : Controller!AirQAlarm(x, in, max) = CP!AirQAlarm(x, in, max)
    BY Zenon DEF Controller!AirQAlarm, CP!AirQAlarm, Controller!Half, CP!Half
  <2>2. \A x, in, out, min, max :
          Controller!ClimateAlarm(x, in, out, min, max) = CP!ClimateAlarm(x, in, out, min, max)
    <3>1. \A in, out, min, max :
            Controller!ClimateSet(in, out, min, max) = CP!ClimateSet(in, out, min, max)
      BY Zenon DEF Controller!ClimateSet, CP!ClimateSet
    <3>2. \A in, out, min, max :
            Controller!ClimateReset(in, out, min, max) = CP!ClimateReset(in, out, min, max)
      BY ZenonT(60) DEF Controller!ClimateReset, CP!ClimateReset, Controller!Comfort, CP!Comfort,
                   Controller!Average, CP!Average, Controller!Half, CP!Half
    <3> QED
      BY <3>1, <3>2, Zenon DEF Controller!ClimateAlarm, CP!ClimateAlarm
  <2>3. \A x, out, max : Controller!VolAlarm(x, out, max) = CP!VolAlarm(x, out, max)
    BY Zenon DEF Controller!VolAlarm, CP!VolAlarm
  <2> QED
    BY <2>1, <2>2, <2>3, Zenon DEF Controller!NextAlarm, CP!NextAlarm
<1>8. \A s, a, r : Controller!ShownAfter(s, a, r) = CP!ShownAfter(s, a, r)
  BY Zenon DEF Controller!ShownAfter, CP!ShownAfter, Controller!Written, CP!Written,
               Controller!HumidityShown, CP!HumidityShown, Controller!ComfortState,
               CP!ComfortState, Controller!ClimateState, CP!ClimateState,
               Controller!VolState, CP!VolState, Controller!Comfort, CP!Comfort,
               Controller!OK, CP!OK, Controller!Warning, CP!Warning,
               Controller!Alarmed, CP!Alarmed
<1>9. \A S : Controller!Commands(S) = CP!Commands(S)
  BY Zenon DEF Controller!Commands, CP!Commands, Controller!Rows, CP!Rows,
               Controller!InitFlag, CP!InitFlag, Controller!Open, CP!Open,
               Controller!Close, CP!Close
<1>10. \A r : Controller!Pass(r) => CP!Pass(r)
  BY <1>6, <1>7, <1>8, <1>9, Zenon DEF Controller!Pass, CP!Pass
<1>11. UNCHANGED chartVars => UNCHANGED CP!vars
  BY DEF chartVars, CP!vars
<1> QED
  BY <1>1, <1>10, <1>11

-----------------------------------------------------------------------------
\* The parts in the loop

LEMMA EmptySequence == Len(<<>>) = 0 /\ \A S : <<>> \in Seq(S)
  OBVIOUS

LEMMA QueuedType ==
    ASSUME LoopTypeOK, NEW own \in BOOLEAN,
           NEW text \in {GetAll, Open, Close, MeasuredValue}
    PROVE  Queued(own, text) \in Seq(Messages) /\ Len(Queued(own, text)) <= SocketSize
<1> DEFINE m == [own |-> own, text |-> text]
<1>1. m \in Messages
  BY DEF Messages
<1> HIDE DEF m
<1>2. socket \in Seq(Messages) /\ Len(socket) <= SocketSize /\ SocketSize \in Nat
  BY BoundsAssumption DEF LoopTypeOK
<1>3. Append(socket, m) \in Seq(Messages) /\ Len(Append(socket, m)) = Len(socket) + 1
      /\ Len(socket) \in Nat
  BY <1>1, <1>2
<1> QED
  BY <1>2, <1>3 DEF Queued, m

(* What the node acknowledges is a command. *)
LEMMA AcknowledgedText ==
    ASSUME Node!Acknowledge
    PROVE  \/ command = "FINISH_OPEN_WINDOW" /\ answer'[1][1] = Open
           \/ command = "FINISH_CLOSE_WINDOW" /\ answer'[1][1] = Close
<1>1. \A x : <<<<x>>>>[1][1] = x
  OBVIOUS
<1> QED
  BY <1>1 DEF Node!Acknowledge, Open, Close

(* A multicast is heard by the node or not, and comes back to its sender   *)
(* or not; the same for an answer of the node, with the roles changed.     *)
LEMMA MulticastMoves ==
    ASSUME LoopTypeOK, NEW text \in {GetAll, Open, Close}, Multicast(text)
    PROVE  /\ [NP!Steps]_(NP!vars)
           /\ socket' \in Seq(Messages) /\ Len(socket') <= SocketSize
<1>1. Node!Arrive(text) => NP!Steps
  BY NodeSteps DEF NP!Steps, GetAll, Open, Close, Node!GetAll, Node!Open, Node!Close
<1> QED
  BY <1>1, NodeSteps, QueuedType DEF Multicast

LEMMA AnsweringMoves ==
    ASSUME LoopTypeOK, NEW text \in {Open, Close, MeasuredValue}, Answering(text)
    PROVE  LoopTypeOK' /\ UNCHANGED CP!vars
  BY QueuedType, ChartSteps DEF Answering, LoopTypeOK, loopVars, receiveVars

(* Every step is a step of the node's or leaves the node alone, and a pass *)
(* or no concern of the chart's, but for the two programs' starts.         *)
LEMMA StepKinds ==
    ASSUME PartsInv, [Next]_vars
    PROVE  /\ [NP!Steps]_(NP!vars) \/ (Reset /\ NP!Reboot)
           /\ [CP!Next]_(CP!vars) \/ Restart
           /\ LoopTypeOK'
<1> USE DEF loopVars, receiveVars
<1>1. CASE Read
  BY <1>1, NodeSteps, ChartSteps DEF Read, PartsInv, LoopTypeOK
<1>2. ASSUME NEW r \in Readings, Decide(r)
      PROVE  [NP!Steps]_(NP!vars) /\ CP!Next /\ LoopTypeOK'
  BY <1>2, NodeSteps, ChartSteps DEF Decide, PartsInv, LoopTypeOK, CP!Next
<1>3. CASE Send
  <2>1. PICK c \in sent : Multicast(c)
    BY <1>3 DEF Send
  <2>2. c \in {GetAll, Open, Close}
    BY <2>1 DEF PartsInv, CP!IInv, CP!TypeOK, CP!Open, CP!Close, Open, Close,
                Node!Open, Node!Close
  <2>3. /\ [NP!Steps]_(NP!vars)
        /\ socket' \in Seq(Messages) /\ Len(socket') <= SocketSize
    BY <2>1, <2>2, MulticastMoves DEF PartsInv
  <2> QED
    BY <1>3, <2>3, ChartSteps DEF Send, PartsInv, LoopTypeOK
<1>4. CASE Poll
  <2>1. /\ [NP!Steps]_(NP!vars)
        /\ socket' \in Seq(Messages) /\ Len(socket') <= SocketSize
    BY <1>4, MulticastMoves DEF Poll, PartsInv
  <2> QED
    BY <1>4, <2>1, ChartSteps DEF Poll, PartsInv, LoopTypeOK
<1>5. CASE Handle
  <2>1. socket' \in Seq(Messages) /\ Len(socket') <= SocketSize
    <3>1. /\ socket \in Seq(Messages) /\ Len(socket) <= SocketSize
          /\ socket # <<>> /\ socket' = Tail(socket)
      BY <1>5 DEF Handle, PartsInv, LoopTypeOK
    <3>2. Len(socket') = Len(socket) - 1 /\ socket' \in Seq(Messages)
          /\ Len(socket) \in Nat
      BY <3>1
    <3> QED
      BY <3>1, <3>2, BoundsAssumption
  <2> QED
    BY <1>5, <2>1, NodeSteps, ChartSteps DEF Handle, PartsInv, LoopTypeOK
<1>6. CASE ReceiveError
  <2>1. crashes' \in 0..MaxCrashes
    BY <1>6, BoundsAssumption DEF ReceiveError, Crash, PartsInv, LoopTypeOK
  <2> QED
    BY <1>6, <2>1, NodeSteps, ChartSteps DEF ReceiveError, PartsInv, LoopTypeOK
<1>7. CASE Tick
  BY <1>7, NodeSteps, ChartSteps DEF Tick, PartsInv, LoopTypeOK
<1>8. CASE NodeComm
  <2>1. CASE Acknowledge
    <3>1. answer'[1][1] \in {Open, Close}
      BY <2>1, AcknowledgedText DEF Acknowledge
    <3> QED
      BY <2>1, <3>1, AnsweringMoves, NodeSteps
         DEF Acknowledge, PartsInv, NP!Steps, NP!CommStep
  <2>2. CASE Report
    BY <2>2, AnsweringMoves, NodeSteps DEF Report, PartsInv, NP!Steps, NP!CommStep
  <2>3. CASE ~Acknowledge /\ ~Report
    BY <1>8, <2>3, NodeSteps, ChartSteps
       DEF NodeComm, PartsInv, LoopTypeOK, NP!Steps, NP!CommStep
  <2> QED
    BY <2>1, <2>2, <2>3
<1>9. CASE NodeMain
  BY <1>9, NodeSteps, ChartSteps DEF NodeMain, PartsInv, LoopTypeOK, NP!Steps
<1>10. CASE Restart
  <2>1. crashes' \in 0..MaxCrashes
    BY <1>10, BoundsAssumption DEF Restart, Crash, PartsInv, LoopTypeOK
  <2>2. socket' \in Seq(Messages) /\ Len(socket') <= SocketSize
    BY <1>10, EmptySequence, BoundsAssumption DEF Restart
  <2> QED
    BY <1>10, <2>1, <2>2, NodeSteps DEF Restart, PartsInv, LoopTypeOK
<1>11. CASE Reset
  <2>1. crashes' \in 0..MaxCrashes
    BY <1>11, BoundsAssumption DEF Reset, Crash, PartsInv, LoopTypeOK
  <2> QED
    BY <1>11, <2>1, NodeSteps, ChartSteps DEF Reset, PartsInv, LoopTypeOK, NP!Steps
<1>12. CASE UNCHANGED vars
  BY <1>12, NodeSteps, ChartSteps DEF vars, PartsInv, LoopTypeOK
<1> QED
  BY <1>1, <1>2, <1>3, <1>4, <1>5, <1>6, <1>7, <1>8, <1>9, <1>10, <1>11, <1>12
     DEF Next, PassStep

(* The chart of a controller that starts again is the chart at the start.  *)
LEMMA RestartChart == ASSUME CP!IInv, Restart PROVE CP!IInv'
<1>1. /\ active' = {CP!InitFlag} /\ sent' = {}
      /\ alarm' = [airQ |-> FALSE, temp |-> FALSE, humid |-> FALSE, vol |-> FALSE]
      /\ reading' = reading /\ shown' = shown
  BY DEF Restart, Controller!InitFlag, CP!InitFlag
<1>2. CP!InitFlag \in CP!Flags /\ \A p \in CP!Rows : <<p, 3>> # CP!InitFlag
  BY DEF CP!Flags, CP!InitFlag, CP!Rows
<1>3. alarm' \in CP!AlarmType /\ alarm'.airQ = FALSE
  BY <1>1 DEF CP!AlarmType
<1> QED
  BY <1>1, <1>2, <1>3 DEF CP!IInv, CP!TypeOK, CP!OneState, CP!RestingOpen

LEMMA InitParts == ASSUME Init PROVE PartsInv
<1>1. CP!IInv
  BY ChartSteps, CP!InitIInv, ChartAssumptions DEF Init
<1>2. NP!IInv
  BY NodeSteps, NP!InitIInv, NodeAssumptions DEF Init
<1>3. LoopTypeOK
  <2>1. socket \in Seq(Messages) /\ Len(socket) <= SocketSize
    BY EmptySequence, BoundsAssumption DEF Init
  <2>2. crashes \in 0..MaxCrashes
    BY BoundsAssumption DEF Init
  <2> QED
    BY <2>1, <2>2 DEF Init, LoopTypeOK
<1> QED
  BY <1>1, <1>2, <1>3 DEF PartsInv

LEMMA NextParts == ASSUME PartsInv, [Next]_vars PROVE PartsInv'
<1>1. NP!IInv'
  <2>1. [NP!Next]_(NP!vars)
    BY StepKinds DEF NP!Next, NP!Steps
  <2> QED
    BY <2>1, NP!NextIInv, NodeAssumptions DEF PartsInv
<1>2. CP!IInv'
  BY StepKinds, RestartChart, CP!NextIInv, ChartAssumptions DEF PartsInv
<1> QED
  BY <1>1, <1>2, StepKinds DEF PartsInv

(* What holds of the decision loop and of the node on their own holds of   *)
(* them in the loop, through failures of any kind.                         *)
THEOREM PartsKept == Spec => []PartsInv
<1>1. Init => PartsInv
  BY InitParts
<1>2. PartsInv /\ [Next]_vars => PartsInv'
  BY NextParts
<1> QED
  BY <1>1, <1>2, PTL DEF Spec

(* Every variable of the closed loop keeps its type.                       *)
THEOREM TypeCorrect == Spec => []TypeOK
<1>1. PartsInv => TypeOK
  BY PartsType
<1> QED
  BY <1>1, PartsKept, PTL

-----------------------------------------------------------------------------
\* Queues

Within(q, x) == \E i \in 1..Len(q) : q[i] = x

(* Nothing that equals d has joined the queue after something equal to c.  *)
NotBehind(q, c, d) == \A i, j \in 1..Len(q) : i < j /\ q[i] = c => q[j] # d

LEMMA Joined ==
    ASSUME NEW S, NEW q \in Seq(S), NEW m \in S
    PROVE  /\ \A x : Within(Append(q, m), x) <=> Within(q, x) \/ m = x
           /\ \A c, d : NotBehind(q, c, d) /\ (Within(q, c) => m # d)
                        => NotBehind(Append(q, m), c, d)
<1> DEFINE a == Append(q, m)
           n == Len(q)
<1>1. /\ n \in Nat /\ Len(a) = n + 1 /\ a[n + 1] = m
      /\ \A i \in 1..n : a[i] = q[i]
  OBVIOUS
<1> HIDE DEF a, n
<1>2. \A i \in 1..Len(a) : i \in 1..n \/ i = n + 1
  BY <1>1
<1>3. \A i \in 1..n : i \in 1..Len(a)
  BY <1>1
<1>4. n + 1 \in 1..Len(a) /\ \A i \in 1..Len(a) : ~(n + 1 < i)
  BY <1>1
<1>5. \A x : Within(a, x) <=> \E i \in 1..Len(a) : a[i] = x
  BY DEF Within
<1>6. \A x : Within(q, x) <=> \E i \in 1..n : q[i] = x
  BY DEF Within, n
<1>7. \A x : Within(a, x) <=> Within(q, x) \/ m = x
  BY <1>1, <1>2, <1>3, <1>4, <1>5, <1>6
<1>8. ASSUME NEW c, NEW d, NotBehind(q, c, d), Within(q, c) => m # d,
             NEW i \in 1..Len(a), NEW j \in 1..Len(a), i < j, a[i] = c
      PROVE  a[j] # d
  <2>1. i \in 1..n /\ q[i] = c
    BY <1>1, <1>2, <1>4, <1>8
  <2>2. CASE j \in 1..n
    BY <1>1, <1>8, <2>1, <2>2 DEF NotBehind, n
  <2>3. CASE j = n + 1
    BY <1>1, <1>6, <1>8, <2>1, <2>3
  <2> QED
    BY <1>2, <2>2, <2>3
<1>9. \A c, d : NotBehind(q, c, d) /\ (Within(q, c) => m # d) => NotBehind(a, c, d)
  BY <1>8 DEF NotBehind
<1> QED
  BY <1>7, <1>9 DEF a

LEMMA Departed ==
    ASSUME NEW S, NEW q \in Seq(S), q # <<>>
    PROVE  /\ \A x : Within(q, x) <=> Head(q) = x \/ Within(Tail(q), x)
           /\ \A c, d : NotBehind(q, c, d) =>
                 /\ NotBehind(Tail(q), c, d)
                 /\ Head(q) = c => ~Within(Tail(q), d)
<1> DEFINE t == Tail(q)
           n == Len(q)
<1>1. /\ n \in Nat /\ n # 0 /\ Len(t) = n - 1 /\ Head(q) = q[1]
      /\ \A i \in 1..(n - 1) : t[i] = q[i + 1]
  OBVIOUS
<1> HIDE DEF t, n
<1>2. 1 \in 1..n /\ \A i \in 1..Len(t) : i + 1 \in 1..n /\ 1 < i + 1 /\ t[i] = q[i + 1]
  BY <1>1
<1>3. \A i \in 1..n : i = 1 \/ \E k \in 1..Len(t) : i = k + 1
  <2>1. \A i \in 1..n : i = 1 \/ (i - 1 \in 1..Len(t) /\ i = (i - 1) + 1)
    BY <1>1
  <2> QED
    BY <2>1
<1>4. \A i, j \in 1..Len(t) : i < j => i + 1 < j + 1
  BY <1>1
<1>5. \A x : Within(t, x) <=> \E i \in 1..Len(t) : t[i] = x
  BY DEF Within
<1>6. \A x : Within(q, x) <=> \E i \in 1..n : q[i] = x
  BY DEF Within, n
<1>7. ASSUME NEW x
      PROVE  Within(q, x) <=> q[1] = x \/ Within(t, x)
  <2>1. ASSUME Within(q, x) PROVE q[1] = x \/ Within(t, x)
    <3>1. PICK i \in 1..n : q[i] = x
      BY <1>6, <2>1
    <3>2. CASE i = 1
      BY <3>1, <3>2
    <3>3. ASSUME NEW k \in 1..Len(t), i = k + 1 PROVE Within(t, x)
      <4>1. t[k] = x
        BY <1>2, <3>1, <3>3
      <4> QED
        BY <1>5, <4>1
    <3> QED
      BY <1>3, <3>2, <3>3
  <2>2. q[1] = x => Within(q, x)
    BY <1>2, <1>6
  <2>3. ASSUME Within(t, x) PROVE Within(q, x)
    <3>1. PICK k \in 1..Len(t) : t[k] = x
      BY <1>5, <2>3
    <3>2. k + 1 \in 1..n /\ q[k + 1] = x
      BY <1>2, <3>1
    <3> QED
      BY <1>6, <3>2
  <2> QED
    BY <2>1, <2>2, <2>3
<1>8. ASSUME NEW c, NEW d, NotBehind(q, c, d)
      PROVE  NotBehind(t, c, d) /\ (q[1] = c => ~Within(t, d))
  <2>1. \A i, j \in 1..n : i < j /\ q[i] = c => q[j] # d
    BY <1>8 DEF NotBehind, n
  <2>2. NotBehind(t, c, d)
    BY <1>2, <1>4, <2>1 DEF NotBehind
  <2>3. q[1] = c => ~Within(t, d)
    BY <1>2, <1>5, <2>1
  <2> QED
    BY <2>2, <2>3
<1> QED
  BY <1>1, <1>7, <1>8 DEF t

-----------------------------------------------------------------------------
\* Where the copies of a command and its acknowledgements can be

(* A command waits at the node, is served there, and comes back as an      *)
(* acknowledgement that Win_Open takes over.                               *)
Ack(x) == [own |-> FALSE, text |-> x]
Waiting(x) == Within(inbox, x)
Acked(x) == Within(socket, Ack(x))
Confirmed(x) == winOpen <=> x = Open

(* c is what the chart wants and d the other command.  Along this way no d *)
(* follows a c; a d that is left finds the window where it wants it; and   *)
(* from the end of its service on a c has brought the window where it      *)
(* belongs.                                                                *)
InTurn(c, d) ==
    /\ NotBehind(inbox, c, d)
    /\ NP!Served(c) => ~Waiting(d)
    /\ NotBehind(socket, Ack(c), Ack(d))
    /\ Acked(c) => ~Waiting(d) /\ ~NP!Served(d)
    /\ Confirmed(c) => ~Waiting(d) /\ ~NP!Served(d) /\ ~Acked(d)

InPlace(c, d) ==
    /\ Waiting(d) \/ NP!Served(d) => NP!At(d)
    /\ NP!Done(c) \/ Acked(c) \/ Confirmed(c) => NP!At(c)

Link(c, d) == InTurn(c, d) /\ InPlace(c, d)

NodeInv == PartsInv /\ NP!Serves

(* The node knows every text that comes to it here. *)
LEMMA TextsKnown == {"GET_All", "PUT_Win/Open", "PUT_Win/Close"} \subseteq DOMAIN NP!StartOf
  BY NP!StartOfType, NodeAssumptions DEF NP!GetAll, NP!Open, NP!Close

(* A step that leaves what Link is about alone. *)
LEMMA LinkSame ==
    ASSUME NEW c, NEW d, Link(c, d),
           inbox' = inbox, socket' = socket, winOpen' = winOpen, canOpen' = canOpen,
           UNCHANGED <<commPc, request, mainPc, mailbox>>
    PROVE  Link(c, d)'
  BY DEF Link, InTurn, InPlace, Waiting, Acked, Confirmed, NP!Served, NP!Done, NP!At

(* The node takes the next datagram. *)
LEMMA LinkReceive ==
    ASSUME NodeInv, NEW c \in {Open, Close}, NEW d \in {Open, Close}, Link(c, d),
           NP!Receive, socket' = socket, winOpen' = winOpen
    PROVE  Link(c, d)'
<1>1. /\ inbox # <<>> /\ inbox' = Tail(inbox) /\ canOpen' = canOpen
      /\ ~NP!Served(c) /\ (NP!Served(c)' <=> c = Head(inbox)) /\ ~NP!Done(c)'
      /\ ~NP!Served(d) /\ (NP!Served(d)' <=> d = Head(inbox))
  BY NP!ReceiveMoves, NodeAssumptions DEF NodeInv, PartsInv
<1>2. inbox \in Seq({"GET_All", "PUT_Win/Open", "PUT_Win/Close"})
  BY DEF NodeInv, PartsInv, NP!IInv, NP!TypeOK
<1>3. /\ \A x : Waiting(x) <=> Head(inbox) = x \/ Waiting(x)'
      /\ NotBehind(inbox, c, d)' /\ (Head(inbox) = c => ~Waiting(d)')
  BY <1>1, <1>2, Departed DEF Waiting, Link, InTurn
<1>4. Acked(c)' = Acked(c) /\ Acked(d)' = Acked(d) /\ Confirmed(c)' = Confirmed(c)
      /\ NotBehind(socket, Ack(c), Ack(d))' = NotBehind(socket, Ack(c), Ack(d))
  BY DEF Acked, Confirmed
<1>5. NP!At(c)' = NP!At(c) /\ NP!At(d)' = NP!At(d)
  BY <1>1 DEF NP!At
<1> QED
  BY <1>1, <1>3, <1>4, <1>5 DEF Link, InTurn, InPlace

(* A step within the node: only the end of a drive changes what the program *)
(* thinks of the window, and then for the command that is served.          *)
LEMMA LinkInner ==
    ASSUME NodeInv, NEW c \in {Open, Close}, NEW d \in {Open, Close}, c # d, Link(c, d),
           NP!HandOver \/ NP!TakeReply \/ NP!MainStep,
           socket' = socket, winOpen' = winOpen
    PROVE  Link(c, d)'
<1>1. /\ inbox' = inbox
      /\ NP!Served(c)' <=> NP!Served(c)
      /\ NP!Served(d)' <=> NP!Served(d)
      /\ canOpen' # canOpen => \E y \in {Open, Close} : NP!Served(y) /\ NP!At(y)'
      /\ NP!Done(c)' => NP!At(c)' \/ (NP!Done(c) /\ canOpen' = canOpen)
  <2>1. {"GET_All", "PUT_Win/Open", "PUT_Win/Close"} \subseteq DOMAIN NP!StartOf
    BY TextsKnown
  <2>2. \A x \in {NP!Open, NP!Close} :
          /\ inbox' = inbox
          /\ NP!Served(x)' <=> NP!Served(x)
          /\ canOpen' # canOpen => \E y \in {NP!Open, NP!Close} : NP!Served(y) /\ NP!At(y)'
          /\ NP!Done(x)' => NP!At(x)' \/ (NP!Done(x) /\ canOpen' = canOpen)
    BY <2>1, NP!InnerMoves, NodeAssumptions DEF NodeInv, PartsInv
  <2>3. NP!Open = Open /\ NP!Close = Close
    BY DEF NP!Open, NP!Close, Open, Close, Node!Open, Node!Close
  <2> QED
    BY <2>2, <2>3
<1>2. Waiting(d)' = Waiting(d) /\ Acked(c)' = Acked(c) /\ Acked(d)' = Acked(d)
      /\ Confirmed(c)' = Confirmed(c)
      /\ NotBehind(inbox, c, d)' = NotBehind(inbox, c, d)
      /\ NotBehind(socket, Ack(c), Ack(d))' = NotBehind(socket, Ack(c), Ack(d))
  BY <1>1 DEF Waiting, Acked, Confirmed
<1>3. InTurn(c, d)'
  BY <1>1, <1>2 DEF Link, InTurn
<1>4. CASE canOpen' = canOpen
  <2>1. NP!At(c)' = NP!At(c) /\ NP!At(d)' = NP!At(d)
    BY <1>4 DEF NP!At
  <2> QED
    BY <1>1, <1>2, <1>3, <2>1 DEF Link, InPlace
<1>5. CASE canOpen' # canOpen
  <2>1. PICK y \in {Open, Close} : NP!Served(y) /\ NP!At(y)'
    BY <1>1, <1>5
  <2>2. CASE y = c
    <3>1. ~Waiting(d) /\ ~NP!Served(d)
      BY <2>1, <2>2 DEF Link, InTurn, NP!Served
    <3> QED
      BY <1>1, <1>2, <1>3, <2>1, <2>2, <3>1 DEF Link, InPlace
  <2>3. CASE y = d
    <3>1. ~NP!Served(c) /\ ~Acked(c) /\ ~Confirmed(c)
      BY <2>1, <2>3 DEF Link, InTurn, NP!Served
    <3>2. ~NP!Done(c)'
      BY <1>1, <3>1 DEF NP!Done
    <3> QED
      BY <1>1, <1>2, <1>3, <2>1, <2>3, <3>1, <3>2 DEF Link, InPlace
  <2> QED
    BY <2>1, <2>2, <2>3
<1> QED
  BY <1>4, <1>5

(* A datagram joins those at the controller's socket, or does not.         *)
LEMMA SocketJoined ==
    ASSUME LoopTypeOK, NEW own \in BOOLEAN,
           NEW text \in {GetAll, Open, Close, MeasuredValue},
           socket' \in {socket, Queued(own, text)},
           NEW m, m = [own |-> own, text |-> text], NEW c, NEW d
    PROVE  /\ \A x : Acked(x)' => Acked(x) \/ m = Ack(x)
           /\ NotBehind(socket, Ack(c), Ack(d)) /\ (Acked(c) => m # Ack(d))
                 => NotBehind(socket, Ack(c), Ack(d))'
<1>1. m \in Messages /\ socket \in Seq(Messages)
  BY DEF Messages, LoopTypeOK
<1>2. socket' = socket \/ socket' = Append(socket, m)
  BY DEF Queued
<1>3. CASE socket' = socket
  BY <1>3 DEF Acked
<1>4. CASE socket' = Append(socket, m)
  <2>1. /\ \A x : Within(Append(socket, m), x) <=> Within(socket, x) \/ m = x
        /\ \A x, y : NotBehind(socket, x, y) /\ (Within(socket, x) => m # y)
                     => NotBehind(Append(socket, m), x, y)
    BY <1>1, Joined
  <2>2. \A x : Acked(x)' => Acked(x) \/ m = Ack(x)
    BY <1>4, <2>1 DEF Acked
  <2>3. NotBehind(socket, Ack(c), Ack(d)) /\ (Acked(c) => m # Ack(d))
            => NotBehind(socket', Ack(c), Ack(d))
    BY <1>4, <2>1 DEF Acked
  <2> QED
    BY <2>2, <2>3
<1> QED
  BY <1>2, <1>3, <1>4

LEMMA AckOf ==
    ASSUME NEW own, NEW text, NEW x
    PROVE  [own |-> own, text |-> text] = Ack(x) <=> own = FALSE /\ text = x
<1> DEFINE m == [own |-> own, text |-> text]
<1>1. m.own = own /\ m.text = text /\ Ack(x).own = FALSE /\ Ack(x).text = x
  BY DEF Ack
<1> QED
  BY <1>1 DEF Ack

(* The node acknowledges what it has served. *)
LEMMA LinkAcknowledge ==
    ASSUME NodeInv, NEW c \in {Open, Close}, NEW d \in {Open, Close}, c # d, Link(c, d),
           Acknowledge
    PROVE  Link(c, d)'
<1>1. /\ inbox' = inbox /\ canOpen' = canOpen /\ winOpen' = winOpen
      /\ request \in {Open, Close} /\ answer'[1][1] = request
      /\ NP!Done(request) /\ \A x : ~NP!Served(x)'
  <2>1. {"GET_All", "PUT_Win/Open", "PUT_Win/Close"} \subseteq DOMAIN NP!StartOf
    BY TextsKnown
  <2>2. NP!Open = Open /\ NP!Close = Close
    BY DEF NP!Open, NP!Close, Open, Close, Node!Open, Node!Close
  <2>3. NP!Acknowledge /\ winOpen' = winOpen
    BY NodeSteps DEF Acknowledge, Answering, receiveVars
  <2> QED
    BY <2>1, <2>2, <2>3, NP!AcknowledgeMoves, NodeAssumptions DEF NodeInv, PartsInv
<1>2. socket' \in {socket, Queued(FALSE, request)}
  BY <1>1 DEF Acknowledge, Answering
<1>3. request = c \/ request = d
  BY <1>1
<1>4. /\ \A x : Acked(x)' => Acked(x) \/ request = x
      /\ NotBehind(socket, Ack(c), Ack(d)) /\ (Acked(c) => request # d)
             => NotBehind(socket, Ack(c), Ack(d))'
  <2> DEFINE m == [own |-> FALSE, text |-> request]
  <2>1. /\ \A x : Acked(x)' => Acked(x) \/ m = Ack(x)
        /\ NotBehind(socket, Ack(c), Ack(d)) /\ (Acked(c) => m # Ack(d))
               => NotBehind(socket, Ack(c), Ack(d))'
    BY <1>1, <1>2, SocketJoined DEF NodeInv, PartsInv
  <2>2. \A x : m = Ack(x) <=> request = x
    BY AckOf
  <2> HIDE DEF m
  <2> QED
    BY <2>1, <2>2
<1>5. NP!Served(request)
  BY <1>1 DEF NP!Done
<1>6. /\ Waiting(d)' = Waiting(d) /\ Confirmed(c)' = Confirmed(c)
      /\ NotBehind(inbox, c, d)' = NotBehind(inbox, c, d)
      /\ NP!At(c)' = NP!At(c) /\ NP!At(d)' = NP!At(d)
  BY <1>1 DEF Waiting, Confirmed, NP!At
<1>7. ~NP!Served(c)' /\ ~NP!Served(d)' /\ ~NP!Done(c)'
  BY <1>1 DEF NP!Done
<1>8. InTurn(c, d)'
  BY <1>3, <1>4, <1>5, <1>6, <1>7 DEF Link, InTurn
<1>9. Acked(c)' => NP!At(c)
  BY <1>1, <1>4 DEF Link, InPlace
<1> QED
  BY <1>6, <1>7, <1>8, <1>9 DEF Link, InPlace

(* The node sends a measured value. *)
LEMMA LinkReport ==
    ASSUME NodeInv, NEW c \in {Open, Close}, NEW d \in {Open, Close}, c # d, Link(c, d),
           Report
    PROVE  Link(c, d)'
<1>1. /\ inbox' = inbox /\ canOpen' = canOpen /\ winOpen' = winOpen
      /\ ~NP!Served(c)' /\ ~NP!Served(d)'
  <2>1. {"GET_All", "PUT_Win/Open", "PUT_Win/Close"} \subseteq DOMAIN NP!StartOf
    BY TextsKnown
  <2>2. NP!Open = Open /\ NP!Close = Close
    BY DEF NP!Open, NP!Close, Open, Close, Node!Open, Node!Close
  <2>3. NP!Report /\ winOpen' = winOpen
    BY NodeSteps DEF Report, Answering, receiveVars
  <2>4. \A x \in {NP!Open, NP!Close} :
          inbox' = inbox /\ canOpen' = canOpen /\ ~NP!Served(x)'
    BY <2>1, <2>3, NP!ReportMoves, NodeAssumptions DEF NodeInv, PartsInv
  <2> QED
    BY <2>2, <2>3, <2>4
<1>2. \A x \in {Open, Close} : x # MeasuredValue
  BY DEF MeasuredValue, Open, Close, Node!Open, Node!Close
<1>3. Acked(c)' => Acked(c)
  <2> DEFINE m == [own |-> FALSE, text |-> MeasuredValue]
  <2>1. socket' \in {socket, Queued(FALSE, MeasuredValue)}
    BY DEF Report, Answering
  <2>2. Acked(c)' => Acked(c) \/ m = Ack(c)
    BY <2>1, SocketJoined DEF NodeInv, PartsInv
  <2> QED
    BY <1>2, <2>2, AckOf
<1>4. (Acked(d)' => Acked(d)) /\ NotBehind(socket, Ack(c), Ack(d))'
  <2> DEFINE m == [own |-> FALSE, text |-> MeasuredValue]
  <2>1. socket' \in {socket, Queued(FALSE, MeasuredValue)}
    BY DEF Report, Answering
  <2>2. m # Ack(d)
    BY <1>2, AckOf
  <2>3. /\ Acked(d)' => Acked(d) \/ m = Ack(d)
        /\ NotBehind(socket, Ack(c), Ack(d)) /\ (Acked(c) => m # Ack(d))
                 => NotBehind(socket, Ack(c), Ack(d))'
    BY <2>1, SocketJoined DEF NodeInv, PartsInv
  <2> QED
    BY <2>2, <2>3 DEF Link, InTurn
<1>5. /\ Waiting(d)' = Waiting(d) /\ Confirmed(c)' = Confirmed(c)
      /\ NotBehind(inbox, c, d)' = NotBehind(inbox, c, d)
      /\ NP!At(c)' = NP!At(c) /\ NP!At(d)' = NP!At(d)
  BY <1>1 DEF Waiting, Confirmed, NP!At
<1>6. ~NP!Done(c)'
  BY <1>1 DEF NP!Done
<1> QED
  BY <1>1, <1>3, <1>4, <1>5, <1>6 DEF Link, InTurn, InPlace

(* The controller sends anything but d to all, itself included.            *)
LEMMA LinkMulticast ==
    ASSUME NodeInv, NEW c \in {Open, Close}, NEW d \in {Open, Close}, c # d, Link(c, d),
           NEW text \in {GetAll, c}, Multicast(text), winOpen' = winOpen
    PROVE  Link(c, d)'
<1>1. text # d /\ text \in {GetAll, Open, Close}
  BY DEF GetAll, Open, Close, Node!GetAll, Node!Open, Node!Close
<1>2. /\ inbox' = inbox \/ inbox' = Append(inbox, text)
      /\ canOpen' = canOpen /\ UNCHANGED <<commPc, request, mainPc, mailbox>>
  BY DEF Multicast, Node!Arrive, Node!commVars, Node!mainVars, nodeVars
<1>3. (Waiting(d)' => Waiting(d)) /\ NotBehind(inbox, c, d)'
  <2>1. CASE inbox' = inbox
    BY <2>1 DEF Waiting, Link, InTurn
  <2>2. CASE inbox' = Append(inbox, text)
    <3> DEFINE S == {"GET_All", "PUT_Win/Open", "PUT_Win/Close"}
    <3>1. inbox \in Seq(S) /\ text \in S
      BY <1>1 DEF NodeInv, PartsInv, NP!IInv, NP!TypeOK, GetAll, Open, Close,
                  Node!GetAll, Node!Open, Node!Close
    <3> HIDE DEF S
    <3>2. /\ Within(Append(inbox, text), d) <=> Within(inbox, d) \/ text = d
          /\ NotBehind(inbox, c, d) /\ (Within(inbox, c) => text # d)
                => NotBehind(Append(inbox, text), c, d)
      BY <3>1, Joined
    <3> QED
      BY <1>1, <2>2, <3>2 DEF Waiting, Link, InTurn
  <2> QED
    BY <1>2, <2>1, <2>2
<1>4. /\ Acked(c)' => Acked(c)
      /\ Acked(d)' => Acked(d)
      /\ NotBehind(socket, Ack(c), Ack(d))'
  <2> DEFINE m == [own |-> TRUE, text |-> text]
  <2>1. \A x : m # Ack(x)
    BY AckOf
  <2>2. socket' \in {socket, Queued(TRUE, text)}
    BY DEF Multicast
  <2>3. /\ \A x : Acked(x)' => Acked(x) \/ m = Ack(x)
        /\ NotBehind(socket, Ack(c), Ack(d)) /\ (Acked(c) => m # Ack(d))
               => NotBehind(socket, Ack(c), Ack(d))'
    BY <1>1, <2>2, SocketJoined DEF NodeInv, PartsInv
  <2> HIDE DEF m
  <2> QED
    BY <2>1, <2>3 DEF Link, InTurn
<1>5. /\ Confirmed(c)' = Confirmed(c)
      /\ NP!At(c)' = NP!At(c) /\ NP!At(d)' = NP!At(d)
      /\ NP!Served(c)' = NP!Served(c) /\ NP!Served(d)' = NP!Served(d)
      /\ NP!Done(c)' = NP!Done(c)
  BY <1>2 DEF Confirmed, NP!At, NP!Served, NP!Done
<1> QED
  BY <1>3, <1>4, <1>5 DEF Link, InTurn, InPlace

(* The receive loop takes a datagram.  What Win_Open has confirmed it does *)
(* not take back.                                                          *)
LEMMA LinkHandle ==
    ASSUME NodeInv, NEW c \in {Open, Close}, NEW d \in {Open, Close}, c # d, Link(c, d),
           Handle
    PROVE  Link(c, d)' /\ (Confirmed(c) => Confirmed(c)')
<1>1. /\ socket \in Seq(Messages) /\ socket # <<>> /\ socket' = Tail(socket)
      /\ Head(socket) \in Messages
  <2>1. socket \in Seq(Messages) /\ socket # <<>> /\ socket' = Tail(socket)
    BY DEF Handle, NodeInv, PartsInv, LoopTypeOK
  <2> QED
    BY <2>1
<1>2. /\ \A x : Acked(x) <=> Head(socket) = Ack(x) \/ Acked(x)'
      /\ NotBehind(socket, Ack(c), Ack(d))'
      /\ Head(socket) = Ack(c) => ~Acked(d)'
  BY <1>1, Departed DEF Acked, Link, InTurn
<1>3. /\ inbox' = inbox /\ canOpen' = canOpen
      /\ UNCHANGED <<commPc, request, mainPc, mailbox>>
  BY DEF Handle, nodeVars
<1>4. /\ Waiting(d)' = Waiting(d) /\ NotBehind(inbox, c, d)' = NotBehind(inbox, c, d)
      /\ NP!At(c)' = NP!At(c) /\ NP!At(d)' = NP!At(d)
      /\ NP!Served(c)' = NP!Served(c) /\ NP!Served(d)' = NP!Served(d)
      /\ NP!Done(c)' = NP!Done(c)
  BY <1>3 DEF Waiting, NP!At, NP!Served, NP!Done
<1>5. \/ winOpen' = winOpen
      \/ Head(socket) = Ack(c) /\ Confirmed(c)'
      \/ Head(socket) = Ack(d) /\ ~Confirmed(c)'
  <2>1. CASE /\ ~Head(socket).own /\ Head(socket).text \in {Open, Close}
             /\ winOpen' = (Head(socket).text = Open)
    <3>1. Head(socket) = Ack(Head(socket).text)
      BY <1>1, <2>1 DEF Messages, Ack
    <3>2. Open # Close
      BY DEF Open, Close, Node!Open, Node!Close
    <3> QED
      BY <2>1, <3>1, <3>2 DEF Confirmed
  <2> QED
    BY <2>1 DEF Handle
<1>6. Confirmed(c) => Confirmed(c)'
  BY <1>2, <1>5 DEF Link, InTurn, Confirmed
<1>7. Confirmed(c)' => Confirmed(c) \/ Head(socket) = Ack(c)
  BY <1>5 DEF Confirmed
<1>8. InTurn(c, d)'
  BY <1>2, <1>4, <1>7 DEF Link, InTurn
<1>9. InPlace(c, d)'
  BY <1>2, <1>4, <1>7 DEF Link, InPlace
<1> QED
  BY <1>6, <1>8, <1>9 DEF Link

-----------------------------------------------------------------------------
\* What the chart wants

(* In an opening or open step it wants the window open, else closed; it is *)
(* still in a closed or an open step, where it sends nothing.              *)
WantedBy(S) == IF S \cap ({1, 2, 3, 4} \X {2, 3}) # {} THEN Open ELSE Close
StillBy(S) == S \cap ({<<0, 1>>} \cup ({1, 2, 3, 4} \X {1, 3})) # {}

LEMMA FlagKinds ==
    ASSUME NEW f \in CP!Flags
    PROVE  /\ WantedBy({f}) \in {Open, Close}
           /\ WantedBy({f}) = Open <=> \E p \in 1..4 : f = <<p, 2>> \/ f = <<p, 3>>
           /\ StillBy({f}) <=> f = <<0, 1>> \/ \E p \in 1..4 : f = <<p, 1>> \/ f = <<p, 3>>
           /\ \/ f = <<0, 0>> \/ f = <<0, 1>>
              \/ \E p \in 1..4 : f \in {<<p, 1>>, <<p, 2>>, <<p, 3>>, <<p, 4>>}
<1>1. Open # Close
  BY DEF Open, Close, Node!Open, Node!Close
<1>2. {f} \cap ({1, 2, 3, 4} \X {2, 3}) # {}
        <=> \E p \in 1..4 : f = <<p, 2>> \/ f = <<p, 3>>
  BY DEF CP!Flags, CP!Rows, CP!InitFlag, CP!State0
<1>3. {f} \cap ({<<0, 1>>} \cup ({1, 2, 3, 4} \X {1, 3})) # {}
        <=> f = <<0, 1>> \/ \E p \in 1..4 : f = <<p, 1>> \/ f = <<p, 3>>
  BY DEF CP!Flags, CP!Rows, CP!InitFlag, CP!State0
<1>4. \/ f = <<0, 0>> \/ f = <<0, 1>>
      \/ \E p \in 1..4 : f \in {<<p, 1>>, <<p, 2>>, <<p, 3>>, <<p, 4>>}
  BY DEF CP!Flags, CP!Rows, CP!InitFlag, CP!State0
<1> QED
  BY <1>1, <1>2, <1>3, <1>4 DEF WantedBy, StillBy

(* A pass that reads the window where the chart wants it not leaves the    *)
(* chart alone; one that leads to rest has read the window where the chart *)
(* then wants it; and it sends only what it wants.                         *)
LEMMA ChartMoves ==
    ASSUME NEW f \in CP!Flags, NEW g \in CP!Flags, NEW a, NEW r \in CP!ReadingType,
           CP!PassFacts(f, g, a, r),
           StillBy({f}) => (r.winOpen <=> WantedBy({f}) = Open)
    PROVE  /\ (r.winOpen <=> WantedBy({f}) = Open) \/ g = f
           /\ StillBy({g}) => (r.winOpen <=> WantedBy({g}) = Open)
           /\ CP!Commands({g}) \subseteq {WantedBy({g})}
<1> USE DEF CP!Rows, CP!InitFlag, CP!State0, CP!RowFlags
<1>1. (r.winOpen <=> WantedBy({f}) = Open) \/ g = f
  BY FlagKinds DEF CP!PassFacts
<1>2. StillBy({g}) => (r.winOpen <=> WantedBy({g}) = Open)
  <2>1. CASE ~(r.winOpen <=> WantedBy({f}) = Open)
    BY <1>1, <2>1
  <2>2. CASE r.winOpen /\ WantedBy({f}) = Open
    <3>1. PICK p \in 1..4 : f = <<p, 2>> \/ f = <<p, 3>>
      BY <2>2, FlagKinds
    <3>2. g # <<p, 1>> /\ g \in CP!RowFlags(p) \cup {CP!InitFlag}
      BY <2>2, <3>1 DEF CP!PassFacts
    <3>3. g \in {<<p, 2>>, <<p, 3>>, <<p, 4>>, <<0, 0>>}
      BY <3>2
    <3>4. g = <<p, 3>> => WantedBy({g}) = Open
      BY FlagKinds
    <3>5. StillBy({g}) => g = <<p, 3>>
      BY <3>3, FlagKinds
    <3> QED
      BY <2>2, <3>4, <3>5
  <2>3. CASE ~r.winOpen /\ WantedBy({f}) # Open
    <3>1. \A p \in 1..4 : f # <<p, 3>>
      BY <2>3, FlagKinds
    <3>2. \A p \in 1..4 : g # <<p, 3>>
      BY <2>3, <3>1 DEF CP!PassFacts
    <3>3. StillBy({g}) => g = <<0, 1>> \/ \E p \in 1..4 : g = <<p, 1>>
      BY <3>2, FlagKinds
    <3>4. StillBy({g}) => WantedBy({g}) # Open
      BY <3>3, FlagKinds
    <3> QED
      BY <2>3, <3>4
  <2> QED
    BY <2>1, <2>2, <2>3
<1>3. CP!Commands({g}) \subseteq {WantedBy({g})}
  <2>1. CP!Open = Open /\ CP!Close = Close /\ Open # Close
    BY DEF CP!Open, CP!Close, Open, Close, Node!Open, Node!Close
  <2>2. /\ CP!Commands({g}) \in {{}, {CP!Open}, {CP!Close}}
        /\ CP!Commands({g}) = {CP!Open} => \E p \in 1..4 : g = <<p, 2>>
        /\ CP!Commands({g}) = {CP!Close} => g = <<0, 0>> \/ \E p \in 1..4 : g = <<p, 4>>
    BY CP!CommandsOf, ChartAssumptions
  <2> QED
    BY <2>1, <2>2, FlagKinds
<1> QED
  BY <1>1, <1>2, <1>3

-----------------------------------------------------------------------------
\* The inductive invariant

(* Nothing but the receive loop fails.  A query for Win_Open that fails,   *)
(* or either program starting again, can leave the chart with another      *)
(* command than the one it has confirmed.                                  *)
Undisturbed == ~ReadsFail /\ Crashing \subseteq {"recvfrom"}

(* How the decision loop and Win_Open agree on c, which the chart wants:   *)
(* when it has read that the window is there, or is still, the table says  *)
(* so; and it sends nothing else.                                          *)
Agrees(c) ==
    /\ step = "decide" /\ (seen <=> c = Open) => Confirmed(c)
    /\ StillBy(active) => Confirmed(c) /\ (step = "decide" => (seen <=> c = Open))
    /\ step = "send" => sent \subseteq {c}

LoopInv ==
    /\ NodeInv
    /\ \A c, d \in {Open, Close} :
          WantedBy(active) = c /\ d # c => Link(c, d) /\ Agrees(c)

LEMMA InitNodeInv == ASSUME Init PROVE NodeInv
  BY InitParts, NodeSteps, NP!InitServes, NodeAssumptions DEF Init, NodeInv

LEMMA NodeUndisturbed ==
    ASSUME Undisturbed, PartsInv, [Next]_vars
    PROVE  [NP!Steps]_(NP!vars) /\ ~Restart /\ ~Reset
  BY StepKinds DEF Undisturbed, Restart, Reset, Crash

LEMMA NextNodeInv ==
    ASSUME NodeInv, [Next]_vars
    PROVE  NodeInv'
<1>1. PartsInv'
  BY NextParts DEF NodeInv
<1>2. [NP!Next]_(NP!vars)
  BY StepKinds DEF NodeInv, NP!Next, NP!Steps
<1>3. NP!Serves'
  BY <1>2, TextsKnown, NP!NextServes, NodeAssumptions DEF NodeInv, PartsInv
<1> QED
  BY <1>1, <1>3 DEF NodeInv

LEMMA InitLoopInv == ASSUME Init PROVE LoopInv
<1>1. /\ active = {<<0, 0>>} /\ step = "read" /\ inbox = <<>> /\ socket = <<>>
      /\ canOpen = TRUE /\ commPc = "recvfrom"
  BY DEF Init, Controller!Init, Controller!InitFlag, Node!Init
<1>2. WantedBy(active) = Close /\ ~StillBy(active)
  <2>1. {<<0, 0>>} \cap ({1, 2, 3, 4} \X {2, 3}) = {}
    OBVIOUS
  <2>2. {<<0, 0>>} \cap ({<<0, 1>>} \cup ({1, 2, 3, 4} \X {1, 3})) = {}
    OBVIOUS
  <2> QED
    BY <1>1, <2>1, <2>2 DEF WantedBy, StillBy
<1>3. ASSUME NEW x, NEW y
      PROVE  ~Within(<<>>, x) /\ NotBehind(<<>>, x, y)
  BY EmptySequence DEF Within, NotBehind
<1>4. ASSUME NEW d \in {Open, Close}, d # Close
      PROVE  Link(Close, d)
  <2>1. \A x : ~NP!Served(x) /\ ~NP!Done(x) /\ ~Waiting(x) /\ ~Acked(x)
    BY <1>1, <1>3 DEF NP!Served, NP!Done, Waiting, Acked
  <2>2. NP!At(Close)
    BY <1>1 DEF NP!At, NP!Close, Close, Node!Close
  <2>3. NotBehind(inbox, Close, d) /\ NotBehind(socket, Ack(Close), Ack(d))
    BY <1>1, <1>3
  <2> QED
    BY <2>1, <2>2, <2>3 DEF Link, InTurn, InPlace
<1>5. Agrees(Close)
  BY <1>1, <1>2 DEF Agrees
<1> QED
  BY <1>2, <1>4, <1>5, InitNodeInv DEF LoopInv

(* Once what the chart wanted is confirmed, it may want the other.         *)
LEMMA LinkTurned ==
    ASSUME NEW c \in {Open, Close}, NEW d \in {Open, Close}, c # d,
           Link(c, d), Confirmed(c)
    PROVE  Link(d, c)
<1>1. ~Waiting(d) /\ ~NP!Served(d) /\ ~NP!Done(d) /\ ~Acked(d) /\ NP!At(c)
  BY DEF Link, InTurn, InPlace, NP!Done
<1>2. ~Confirmed(d)
  BY DEF Confirmed
<1>3. NotBehind(inbox, d, c) /\ NotBehind(socket, Ack(d), Ack(c))
  BY <1>1 DEF NotBehind, Waiting, Acked, Within
<1> QED
  BY <1>1, <1>2, <1>3 DEF Link, InTurn, InPlace

(* A pass turns the chart round only when Win_Open has confirmed what it   *)
(* wanted before.                                                          *)
LEMMA DecideKeeps ==
    ASSUME LoopInv, NEW r \in Readings, Decide(r),
           NEW c \in {Open, Close}, NEW d \in {Open, Close}, c # d,
           WantedBy(active') = c
    PROVE  Link(c, d)' /\ Agrees(c)'
<1>1. PICK f \in CP!Flags, g \in CP!Flags :
          /\ active = {f} /\ active' = {g}
          /\ CP!PassFacts(f, g, alarm', r)
          /\ r \in CP!ReadingType
  BY CP!PassMoves, ChartAssumptions, ChartSteps DEF Decide, LoopInv, NodeInv, PartsInv
<1>2. /\ step = "decide" /\ r.winOpen = seen /\ seen' = seen
      /\ step' = IF sent' = {} THEN "read" ELSE "send"
      /\ sent' = CP!Commands({g})
  BY <1>1, ChartSteps DEF Decide, CP!Pass
<1>3. \A x, y : Link(x, y) => Link(x, y)'
  BY LinkSame DEF Decide, nodeVars, receiveVars
<1>4. WantedBy({f}) \in {Open, Close}
  BY FlagKinds
<1>5. ASSUME NEW e \in {Open, Close}, e # WantedBy({f})
      PROVE  Link(WantedBy({f}), e) /\ Agrees(WantedBy({f}))
  BY <1>1, <1>4, <1>5 DEF LoopInv
<1>6. Agrees(WantedBy({f}))
  <2>1. \E e \in {Open, Close} : e # WantedBy({f})
    OBVIOUS
  <2> QED
    BY <1>5, <2>1
<1>7. StillBy({f}) => (r.winOpen <=> WantedBy({f}) = Open)
  BY <1>1, <1>2, <1>6 DEF Agrees
<1>8. /\ (r.winOpen <=> WantedBy({f}) = Open) \/ g = f
      /\ StillBy({g}) => (r.winOpen <=> WantedBy({g}) = Open)
      /\ CP!Commands({g}) \subseteq {WantedBy({g})}
  BY <1>1, <1>7, ChartMoves
<1>9. WantedBy({g}) = c
  BY <1>1
<1>10. sent' \subseteq {c} /\ step' # "decide"
  BY <1>2, <1>8, <1>9
<1>11. Confirmed(c)' <=> Confirmed(c)
  BY DEF Confirmed, Decide, receiveVars
<1>12. CASE WantedBy({f}) = c
  <2>1. StillBy({g}) => Confirmed(c)
    BY <1>2, <1>6, <1>8, <1>9, <1>12 DEF Agrees
  <2>2. Link(c, d)'
    BY <1>3, <1>5, <1>12
  <2> QED
    BY <1>1, <1>10, <1>11, <2>1, <2>2 DEF Agrees
<1>13. CASE WantedBy({f}) = d
  <2>1. r.winOpen <=> d = Open
    BY <1>8, <1>9, <1>13
  <2>2. Confirmed(d)
    BY <1>2, <1>6, <1>13, <2>1 DEF Agrees
  <2>3. Link(c, d)'
    BY <1>3, <1>5, <1>13, <2>2, LinkTurned
  <2>4. ~StillBy({g})
    BY <1>8, <1>9, <2>1
  <2> QED
    BY <1>1, <1>10, <2>3, <2>4 DEF Agrees
<1> QED
  BY <1>4, <1>12, <1>13

LEMMA AgreesSame ==
    ASSUME NEW c, Agrees(c), UNCHANGED <<active, sent, step, seen>>,
           Confirmed(c) => Confirmed(c)'
    PROVE  Agrees(c)'
  BY DEF Agrees

(* Whatever else happens, the chart goes on wanting c.                     *)
LEMMA OtherKeeps ==
    ASSUME Undisturbed, LoopInv, [Next]_vars, ~\E r \in Readings : Decide(r),
           NEW c \in {Open, Close}, NEW d \in {Open, Close}, c # d,
           WantedBy(active) = c
    PROVE  active' = active /\ Link(c, d)' /\ Agrees(c)'
<1> USE DEF loopVars, chartVars, receiveVars
<1>1. NodeInv /\ Link(c, d) /\ Agrees(c) /\ Open # Close
  BY DEF LoopInv, Open, Close, Node!Open, Node!Close
<1>2. CASE Read
  <2>1. Link(c, d)'
    BY <1>1, <1>2, LinkSame DEF Read, nodeVars
  <2>2. seen' = winOpen /\ winOpen' = winOpen /\ active' = active /\ step' = "decide"
    BY <1>2 DEF Read, Undisturbed
  <2> QED
    BY <1>1, <2>1, <2>2 DEF Agrees, Confirmed
<1>3. CASE Send
  <2>1. PICK text \in sent : Multicast(text)
    BY <1>3 DEF Send
  <2>2. text = c
    BY <1>1, <1>3, <2>1 DEF Agrees, Send
  <2>3. winOpen' = winOpen /\ active' = active /\ step' = "read"
    BY <1>3 DEF Send
  <2>4. Link(c, d)'
    BY <1>1, <2>1, <2>2, <2>3, LinkMulticast
  <2> QED
    BY <1>1, <2>3, <2>4 DEF Agrees, Confirmed
<1>4. CASE Poll
  <2>1. Multicast(GetAll) /\ winOpen' = winOpen /\ UNCHANGED <<active, sent, step, seen>>
    BY <1>4 DEF Poll
  <2>2. Link(c, d)'
    BY <1>1, <2>1, LinkMulticast
  <2>3. Agrees(c)'
    BY <1>1, <2>1, AgreesSame DEF Confirmed
  <2> QED
    BY <2>1, <2>2, <2>3
<1>5. CASE Handle
  <2>1. UNCHANGED <<active, sent, step, seen>>
    BY <1>5 DEF Handle
  <2>2. Link(c, d)' /\ (Confirmed(c) => Confirmed(c)')
    BY <1>1, <1>5, LinkHandle
  <2> QED
    BY <1>1, <2>1, <2>2, AgreesSame
<1>6. CASE ReceiveError \/ Tick \/ UNCHANGED vars
  <2>1. /\ UNCHANGED <<active, sent, step, seen>>
        /\ inbox' = inbox /\ socket' = socket /\ winOpen' = winOpen
        /\ canOpen' = canOpen /\ UNCHANGED <<commPc, request, mainPc, mailbox>>
    BY <1>6 DEF ReceiveError, Tick, vars, nodeVars
  <2>2. Link(c, d)'
    BY <1>1, <2>1, LinkSame
  <2>3. Agrees(c)'
    BY <1>1, <2>1, AgreesSame DEF Confirmed
  <2> QED
    BY <2>1, <2>2, <2>3
<1>7. CASE NodeComm \/ NodeMain
  <2>1. UNCHANGED <<active, sent, step, seen>> /\ winOpen' = winOpen
    BY <1>7 DEF NodeComm, NodeMain, Acknowledge, Report, Answering
  <2>2. CASE Acknowledge
    BY <1>1, <2>1, <2>2, LinkAcknowledge, AgreesSame DEF Confirmed
  <2>3. CASE Report
    BY <1>1, <2>1, <2>3, LinkReport, AgreesSame DEF Confirmed
  <2>4. CASE NP!Receive /\ socket' = socket
    BY <1>1, <2>1, <2>4, LinkReceive, AgreesSame DEF Confirmed
  <2>5. CASE (NP!HandOver \/ NP!TakeReply \/ NP!MainStep) /\ socket' = socket
    BY <1>1, <2>1, <2>5, LinkInner, AgreesSame DEF Confirmed
  <2> QED
    BY <1>7, <2>2, <2>3, <2>4, <2>5, NodeSteps DEF NodeComm, NodeMain
<1>8. ~Restart /\ ~Reset
  BY <1>1, NodeUndisturbed DEF NodeInv
<1> QED
  BY <1>2, <1>3, <1>4, <1>5, <1>6, <1>7, <1>8 DEF Next, PassStep

LEMMA NextLoopInv ==
    ASSUME Undisturbed, LoopInv, [Next]_vars
    PROVE  LoopInv'
<1>1. NodeInv'
  BY NextNodeInv DEF LoopInv
<1>2. ASSUME NEW c \in {Open, Close}, NEW d \in {Open, Close}, d # c,
             WantedBy(active') = c
      PROVE  Link(c, d)' /\ Agrees(c)'
  <2>1. CASE \E r \in Readings : Decide(r)
    BY <1>2, <2>1, DecideKeeps
  <2>2. CASE ~\E r \in Readings : Decide(r)
    <3>1. WantedBy(active) \in {Open, Close}
      BY DEF WantedBy
    <3>2. \E e \in {Open, Close} : e # WantedBy(active)
      BY <1>2
    <3>3. active' = active
      BY <2>2, <3>1, <3>2, OtherKeeps
    <3> QED
      BY <1>2, <2>2, <3>3, OtherKeeps
  <2> QED
    BY <2>1, <2>2
<1> QED
  BY <1>1, <1>2 DEF LoopInv, WantedBy

-----------------------------------------------------------------------------
\* What follows for the window

(* The servo moves only for what the chart wants and Win_Open has not      *)
(* confirmed.                                                              *)
LEMMA DriveOnDemand ==
    ASSUME Undisturbed, LoopInv, [Next]_vars
    PROVE  /\ pos' < pos => Opening
           /\ pos' > pos => Closing
<1>1. /\ pos' < pos => NP!Served(Open) /\ ~NP!At(Open)
      /\ pos' > pos => NP!Served(Close) /\ ~NP!At(Close)
  <2>1. NP!Open = Open /\ NP!Close = Close
    BY DEF NP!Open, NP!Close, Open, Close, Node!Open, Node!Close
  <2>2. [NP!Steps]_(NP!vars)
    BY NodeUndisturbed DEF LoopInv, NodeInv
  <2> QED
    BY <2>1, <2>2, TextsKnown, NP!DriveMoves, NodeAssumptions DEF LoopInv, NodeInv, PartsInv
<1>2. PICK f \in CP!Flags : active = {f}
  BY DEF LoopInv, NodeInv, PartsInv, CP!IInv, CP!OneState
<1>3. Open # Close
  BY DEF Open, Close, Node!Open, Node!Close
<1>4. ASSUME NEW x \in {Open, Close}, NP!Served(x), ~NP!At(x)
      PROVE  WantedBy({f}) = x /\ ~StillBy({f})
  <2>1. PICK c \in {Open, Close} : WantedBy({f}) = c
    BY FlagKinds
  <2>2. PICK d \in {Open, Close} : d # c
    BY <1>3
  <2>3. Link(c, d) /\ Agrees(c)
    BY <1>2, <2>1, <2>2 DEF LoopInv
  <2>4. x = c
    BY <1>4, <2>2, <2>3 DEF Link, InPlace
  <2>5. ~Confirmed(c)
    BY <1>4, <2>3, <2>4 DEF Link, InPlace
  <2> QED
    BY <1>2, <2>1, <2>3, <2>4, <2>5 DEF Agrees
<1>5. WantedBy({f}) = Open /\ ~StillBy({f}) => Opening
  <2>1. ASSUME NEW p \in 1..4, f = <<p, 2>> PROVE Opening
    BY <1>2, <2>1 DEF Opening
  <2> QED
    BY <2>1, FlagKinds
<1>6. WantedBy({f}) = Close /\ ~StillBy({f}) => Closing
  <2>1. ASSUME f = <<0, 0>> \/ \E p \in 1..4 : f = <<p, 4>> PROVE Closing
    BY <1>2, <2>1 DEF Closing
  <2> QED
    BY <1>3, <2>1, FlagKinds
<1> QED
  BY <1>1, <1>3, <1>4, <1>5, <1>6

(* The node drives towards open only while the chart is in an opening      *)
(* step and towards closed only while it is in a closing one, whatever the *)
(* link loses or repeats, however many datagrams wait anywhere and         *)
(* wherever the window is at the start.                                    *)
THEOREM MovesOnDemandAlways ==
    ASSUME Undisturbed
    PROVE  Spec => MovesOnDemand
<1>1. Init => LoopInv
  BY InitLoopInv
<1>2. LoopInv /\ [Next]_vars => LoopInv'
  BY NextLoopInv
<1>3. LoopInv /\ [Next]_vars => [ /\ pos' < pos => Opening
                                  /\ pos' > pos => Closing ]_vars
  BY DriveOnDemand
<1> QED
  BY <1>1, <1>2, <1>3, PTL DEF Spec, MovesOnDemand

LEMMA WaitingInbox ==
    ASSUME PartsInv, NEW x
    PROVE  Waiting(x) <=> x \in Range(inbox)
<1>1. inbox \in Seq({"GET_All", "PUT_Win/Open", "PUT_Win/Close"})
  BY DEF PartsInv, NP!IInv, NP!TypeOK
<1>2. DOMAIN inbox = 1..Len(inbox)
  BY <1>1
<1> QED
  BY <1>2 DEF Waiting, Within, Range

(* What the main thread has been told to do is the request that is served. *)
LEMMA OrderServed ==
    ASSUME LoopInv, mainPc = "switch"
    PROVE  /\ order = "START_OPEN_WINDOW" => NP!Served(Open)
           /\ order = "START_CLOSE_WINDOW" => NP!Served(Close)
<1>1. commPc = "msg_receive"
  BY DEF LoopInv, NodeInv, PartsInv, NP!IInv, NP!Turns
<1>2. request \in DOMAIN NP!StartOf /\ order = NP!StartOf[request]
  BY <1>1, TextsKnown DEF LoopInv, NodeInv, NP!Serves
<1>3. /\ order = "START_OPEN_WINDOW" => request = NP!Open
      /\ order = "START_CLOSE_WINDOW" => request = NP!Close
  BY <1>2, NP!Commands, NodeAssumptions
<1> QED
  BY <1>1, <1>3 DEF NP!Served, NP!Open, NP!Close, Open, Close, Node!Open, Node!Close

(* In a closed step the chart rests with the window closed.                *)
LEMMA RestIsClosed ==
    ASSUME LoopInv, NP!Shut, Resting
    PROVE  /\ WindowClosed /\ ~winOpen
           /\ Open \notin Range(inbox)
           /\ ~(commPc # "recvfrom" /\ request = Open)
<1>1. Open # Close
  BY DEF Open, Close, Node!Open, Node!Close
<1>2. PICK f \in CP!Flags : active = {f}
  BY DEF LoopInv, NodeInv, PartsInv, CP!IInv, CP!OneState
<1>3. f = <<0, 1>> \/ \E p \in 1..4 : f = <<p, 1>>
  BY <1>2 DEF Resting
<1>4. StillBy({f}) /\ WantedBy({f}) = Close
  <2>1. StillBy({f})
    BY <1>3, FlagKinds
  <2>2. ~\E p \in 1..4 : f = <<p, 2>> \/ f = <<p, 3>>
    BY <1>3
  <2> QED
    BY <2>1, <2>2, FlagKinds
<1>5. Link(Close, Open) /\ Agrees(Close)
  BY <1>1, <1>2, <1>4 DEF LoopInv
<1>6. Confirmed(Close)
  BY <1>2, <1>4, <1>5 DEF Agrees
<1>7. ~Waiting(Open) /\ ~NP!Served(Open) /\ NP!At(Close)
  BY <1>5, <1>6 DEF Link, InTurn, InPlace
<1>8. winOpen = FALSE
  BY <1>1, <1>6 DEF Confirmed, LoopInv, NodeInv, PartsInv, LoopTypeOK
<1>9. Open \notin Range(inbox)
  BY <1>7, WaitingInbox DEF LoopInv, NodeInv
<1>10. WindowClosed
  <2>1. canOpen
    BY <1>7 DEF NP!At, NP!Close, Close, Node!Close
  <2>2. ~(mainPc = "switch" /\ order = "START_OPEN_WINDOW")
    BY <1>7, OrderServed DEF NP!Served
  <2> QED
    BY <2>1, <2>2 DEF NP!Shut, WindowClosed
<1> QED
  BY <1>7, <1>8, <1>9, <1>10 DEF NP!Served

(* When the chart rests in a closed step, the window is closed, Win_Open   *)
(* says so and no Open is left that could open it - for a window that was  *)
(* closed when the node started.                                           *)
THEOREM ClosedAtRestAlways ==
    ASSUME Undisturbed, \A s \in Shaft : s >= UPPER - 2 * STEP
    PROVE  Spec => []ClosedAtRest
<1>1. Init => LoopInv /\ NP!Shut
  <2>1. ASSUME Init PROVE NP!Shut
    BY <2>1 DEF Init, Node!Init, NP!Shut
  <2> QED
    BY <2>1, InitLoopInv
<1>2. LoopInv /\ [Next]_vars => LoopInv'
  BY NextLoopInv
<1>3. LoopInv /\ NP!Shut /\ [Next]_vars => NP!Shut'
  BY NodeUndisturbed, NP!NextShut, NodeAssumptions DEF LoopInv, NodeInv, PartsInv
<1>4. LoopInv /\ NP!Shut => ClosedAtRest
  BY RestIsClosed DEF ClosedAtRest
<1> QED
  BY <1>1, <1>2, <1>3, <1>4, PTL DEF Spec

(* In an open step it rests with the window open.                          *)
LEMMA RestIsOpen ==
    ASSUME LoopInv, Holding
    PROVE  /\ WindowOpen /\ ~canOpen /\ winOpen
           /\ Close \notin Range(inbox)
           /\ ~(commPc # "recvfrom" /\ request = Close)
<1>1. Open # Close
  BY DEF Open, Close, Node!Open, Node!Close
<1>2. PICK f \in CP!Flags : active = {f}
  BY DEF LoopInv, NodeInv, PartsInv, CP!IInv, CP!OneState
<1>3. \E p \in 1..4 : f = <<p, 3>>
  BY <1>2 DEF Holding
<1>4. StillBy({f}) /\ WantedBy({f}) = Open
  BY <1>3, FlagKinds
<1>5. Link(Open, Close) /\ Agrees(Open)
  BY <1>1, <1>2, <1>4 DEF LoopInv
<1>6. Confirmed(Open)
  BY <1>2, <1>4, <1>5 DEF Agrees
<1>7. ~Waiting(Close) /\ ~NP!Served(Close) /\ NP!At(Open)
  BY <1>5, <1>6 DEF Link, InTurn, InPlace
<1>8. winOpen = TRUE
  BY <1>6 DEF Confirmed, LoopInv, NodeInv, PartsInv, LoopTypeOK
<1>9. Close \notin Range(inbox)
  BY <1>7, WaitingInbox DEF LoopInv, NodeInv
<1>10. ~canOpen
  BY <1>1, <1>7 DEF NP!At, NP!Close, Close, Node!Close
<1>11. ~(mainPc = "switch" /\ order = "START_CLOSE_WINDOW")
  BY <1>7, OrderServed DEF NP!Served
<1>12. WindowOpen
  BY <1>10, <1>11 DEF LoopInv, NodeInv, PartsInv, NP!IInv, NP!Servo, WindowOpen
<1> QED
  BY <1>7, <1>8, <1>9, <1>10, <1>12 DEF NP!Served

(* When the chart rests in an open step, the window is open, Win_Open says *)
(* so and no Close is left that could close it - wherever the window was   *)
(* at the start, since the first Open has moved it.                        *)
THEOREM OpenAtRestAlways ==
    ASSUME Undisturbed
    PROVE  Spec => []OpenAtRest
<1>1. Init => LoopInv
  BY InitLoopInv
<1>2. LoopInv /\ [Next]_vars => LoopInv'
  BY NextLoopInv
<1>3. LoopInv => OpenAtRest
  BY RestIsOpen DEF OpenAtRest
<1> QED
  BY <1>1, <1>2, <1>3, PTL DEF Spec

=============================================================================
