------------------------------- MODULE DecisionLoop -------------------------------
(***************************************************************************)
(* decisionLoop of main_controller.cpp: the thread of the window           *)
(* controller that reads the database every few seconds, evaluates the     *)
(* alarms, writes them back, moves its state chart and multicasts a        *)
(* command to the window.                                                  *)
(*                                                                         *)
(* The state chart is eighteen C booleans, one of them meant to be true;   *)
(* here `active' is the set of the true ones.  A pass of the loop is one   *)
(* action: the only thing it shares with other threads and programs is the *)
(* database, and what it can find there - rows of different ages, since    *)
(* every table is read by a query of its own, and 0 for a query that       *)
(* failed - is any element of Readings.                                    *)
(***************************************************************************)
EXTENDS Alarms

CONSTANTS
    Readings,       \* what the queries of one pass can return
    FailingWrites   \* the alarm-state tables whose INSERT can fail

ReadingType ==
    [auto: BOOLEAN, manOpen: BOOLEAN, manClose: BOOLEAN, winOpen: BOOLEAN,
     airQIn: Int, airQMax: Int,
     humidIn: Int, humidOut: Int, humidMin: Int, humidMax: Int,
     tempIn: Int, tempOut: Int, tempMin: Int, tempMax: Int,
     volOut: Int, volMax: Int, priority: Int]

StateTables == {"Humidity", "Temp", "Volume"}

ASSUME ReadingsAssumption == Readings \subseteq ReadingType /\ Readings # {}
ASSUME WritesAssumption == FailingWrites \subseteq StateTables

VARIABLES
    active,     \* the flags of the state chart that are true
    alarm,      \* the alarm latches, locals that live across the passes
    reading,    \* the other locals: what the last pass read
    sent,       \* the commands the last pass multicast
    shown       \* the newest row of each *_AlarmState table written here

vars == <<active, alarm, reading, sent, shown>>

Open == "PUT_Win/Open"
Close == "PUT_Win/Close"

(***************************************************************************)
(* The flags: init, state0, and state<p><k> for the rows p of the chart    *)
(* (1 humidity, 2 temperature, 3 air quality, 4 all three; the row of a    *)
(* priority is the priority + 1) and the steps k of a row (1 closed,       *)
(* 2 opening, 3 open, 4 closing).                                          *)
(***************************************************************************)
Rows == 1..4
InitFlag == <<0, 0>>
State0 == <<0, 1>>
Flags == {InitFlag, State0} \cup (Rows \X (1..4))

-----------------------------------------------------------------------------
\* The alarms

NextAlarm(a, r) ==
    [airQ  |-> AirQAlarm(a.airQ, r.airQIn, r.airQMax),
     temp  |-> ClimateAlarm(a.temp, r.tempIn, r.tempOut, r.tempMin, r.tempMax),
     humid |-> ClimateAlarm(a.humid, r.humidIn, r.humidOut,
                            r.humidMin, r.humidMax),
     vol   |-> VolAlarm(a.vol, r.volOut, r.volMax)]

(* "actually not implemented" *)
WindAlarm == FALSE

(* A table that takes rows of value v, newest row old: the newest row after *)
(* one INSERT.                                                              *)
Written(table, old, v) == {v} \cup (IF table \in FailingWrites THEN {old} ELSE {})

(* Humidity is written in alarm only, and then twice: the second INSERT     *)
(* fails when the clock still shows the second of the first, because the    *)
(* time stamp of a row is unique.                                           *)
HumidityShown(old, a, r) ==
    IF a.humid
    THEN Written("Humidity", old, Alarmed)
            \cup {ComfortState(r.humidIn, r.humidMin, r.humidMax)}
    ELSE {old}

(* The air-quality state goes to a table that the schema does not have.     *)
ShownAfter(s, a, r) ==
    [temp: Written("Temp", s.temp,
                   ClimateState(a.temp, r.tempIn, r.tempMin, r.tempMax)),
     humid: HumidityShown(s.humid, a, r),
     vol: Written("Volume", s.vol, VolState(a.vol))]

-----------------------------------------------------------------------------
\* The state chart

\* Fault for OneState: the flag left is not cleared.
FireKeeping(S, from, guard, to) ==
    IF from \in S /\ guard /\ to \notin S THEN S \cup {to} ELSE S

(* One `if' of the chart: leave from, enter to. *)
Fire(S, from, guard, to) ==
    IF from \in S /\ guard /\ to \notin S THEN (S \ {from}) \cup {to} ELSE S

(* The alarms that open the window in row p. *)
RowAlarms(p, a) ==
    CASE p = 1 -> {a.humid}
      [] p = 2 -> {a.temp}
      [] p = 3 -> {a.airQ}
      [] OTHER -> {a.airQ, a.temp, a.humid}

\* Fault for NoiseCloses of SmartWindow: the noise is forgotten.
OpenGuardDeaf(p, a, r) ==
    ~WindAlarm /\ (IF r.auto THEN TRUE \in RowAlarms(p, a) ELSE r.manOpen)

(* Transitions p.2 *)
OpenGuard(p, a, r) ==
    /\ ~WindAlarm
    /\ \/ ~r.auto /\ r.manOpen
       \/ r.auto /\ TRUE \in RowAlarms(p, a) /\ ~a.vol

\* Fault for RestingOpen: row 4's rule, and for every row.
CloseGuardAlike(p, a, r) ==
    (~r.auto /\ r.manClose) \/ (r.auto /\ FALSE \in RowAlarms(p, a))

(* Transitions p.4: in rows 1 to 3 calm is one of the reasons to close; row *)
(* 4 leaves the noise out.                                                  *)
CloseGuard(p, a, r) ==
    IF p = 4
    THEN /\ ~WindAlarm
         /\ \/ ~r.auto /\ r.manClose
            \/ r.auto /\ FALSE \in RowAlarms(p, a)
    ELSE \/ ~WindAlarm
         \/ ~r.auto /\ r.manClose
         \/ r.auto /\ (a.vol \/ FALSE \in RowAlarms(p, a))

\* Fault for PriorityHonoured: a closed row is never left.
RowPassSticky(S, p, a, r) ==
    LET chosen == r.priority = p - 1
        s1 == Fire(S,  State0,  chosen,              <<p, 1>>)
        s2 == Fire(s1, <<p, 1>>, OpenGuard(p, a, r),  <<p, 2>>)
        s3 == Fire(s2, <<p, 2>>, r.winOpen,           <<p, 3>>)
        s4 == Fire(s3, <<p, 3>>, CloseGuard(p, a, r), <<p, 4>>)
        s5 == Fire(s4, <<p, 4>>, ~r.winOpen,          <<p, 1>>)
    IN  Fire(s5, <<p, 3>>, ~chosen, InitFlag)

(* Transitions p.1 to p.7, in the order of the code: each sees what the     *)
(* ones before it have done.                                                *)
RowPass(S, p, a, r) ==
    LET chosen == r.priority = p - 1
        s1 == Fire(S,  State0,  chosen,              <<p, 1>>)
        s2 == Fire(s1, <<p, 1>>, OpenGuard(p, a, r),  <<p, 2>>)
        s3 == Fire(s2, <<p, 2>>, r.winOpen,           <<p, 3>>)
        s4 == Fire(s3, <<p, 3>>, CloseGuard(p, a, r), <<p, 4>>)
        s5 == Fire(s4, <<p, 4>>, ~r.winOpen,          <<p, 1>>)
        s6 == Fire(s5, <<p, 3>>, ~chosen,             InitFlag)
    IN  Fire(s6, <<p, 1>>, ~chosen, InitFlag)

\* Fault for TypeOK: rows numbered like the priorities.
ChartPassShifted(S, a, r) ==
    RowPass(RowPass(Fire(S, InitFlag, ~r.winOpen, State0), 0, a, r), 1, a, r)

\* Fault for RowLeftThroughInit: transition 0 comes last.
ChartPassLate(S, a, r) ==
    Fire(RowPass(RowPass(RowPass(RowPass(S, 1, a, r), 2, a, r), 3, a, r), 4, a, r),
         InitFlag, ~r.winOpen, State0)

\* Fault for KeepsPromise: init does not wait for the window to close.
ChartPassHasty(S, a, r) ==
    RowPass(RowPass(RowPass(RowPass(
        Fire(S, InitFlag, TRUE, State0), 1, a, r), 2, a, r), 3, a, r), 4, a, r)

(* Transition 0, then the rows. *)
ChartPass(S, a, r) ==
    LET t0 == Fire(S, InitFlag, ~r.winOpen, State0)
        t1 == RowPass(t0, 1, a, r)
        t2 == RowPass(t1, 2, a, r)
        t3 == RowPass(t2, 3, a, r)
    IN  RowPass(t3, 4, a, r)

(* The assignments under the chart. *)
Commands(S) ==
    (IF S \cap (Rows \X {2}) # {} THEN {Open} ELSE {})
        \cup (IF S \cap ({InitFlag} \cup (Rows \X {4})) # {} THEN {Close} ELSE {})

-----------------------------------------------------------------------------
(* Before the first pass the other locals are uninitialised.  The alarm    *)
(* states shown are the rows database_tables.sql inserts.                  *)
Init ==
    /\ active = {InitFlag}
    /\ alarm = [airQ |-> FALSE, temp |-> FALSE, humid |-> FALSE, vol |-> FALSE]
    /\ reading \in Readings
    /\ sent = {}
    /\ shown = [temp |-> OK, humid |-> OK, vol |-> OK]

(* One pass of the while(1) that finds r in the database. *)
Pass(r) ==
    /\ reading' = r
    /\ alarm' = NextAlarm(alarm, r)
    /\ shown' \in ShownAfter(shown, alarm', r)
    /\ active' = ChartPass(active, alarm', r)
    /\ sent' = Commands(active')

Next == \E r \in Readings : Pass(r)

Spec == Init /\ [][Next]_vars

-----------------------------------------------------------------------------
\* Properties

AlarmType == [airQ: BOOLEAN, temp: BOOLEAN, humid: BOOLEAN, vol: BOOLEAN]
ShownType == [temp: OK..Alarmed, humid: OK..Alarmed, vol: OK..Alarmed]

(* Every variable keeps its type. *)
TypeOK ==
    /\ active \subseteq Flags
    /\ alarm \in AlarmType
    /\ reading \in Readings
    /\ sent \subseteq {Open, Close}
    /\ shown \in ShownType

(* The eighteen booleans always spell one state: no sequence of the        *)
(* thirty-odd `if's, which see each other's effects within a pass, loses   *)
(* the state or leaves two of them on.                                     *)
OneState == \E f \in Flags : active = {f}

(* The state chart keeps the promise to the window: commands never         *)
(* contradict each other, are repeated until confirmed, and Open is only   *)
(* sent in a pass that read the window closed.                             *)
Command == INSTANCE WindowCommand WITH commands <- sent, seen <- reading.winOpen
KeepsPromise == Command!Spec

RowFlags(p) == {p} \X (1..4)

(* A row is left only by way of init, where the window is closed first:    *)
(* however often the priority changes, a pass never ends in another row    *)
(* than it began, nor in state0.                                           *)
RowLeftThroughInit ==
    [][\A p \in Rows : active \cap RowFlags(p) # {} =>
            active' \subseteq RowFlags(p) \cup {InitFlag}]_vars

(* The only state in which an open window is left alone is the one of row  *)
(* 4 in manual mode: there the window stays open until the Close button,   *)
(* the automatic mode or another priority.  Nowhere else does a pass end   *)
(* in an open step: an opening is undone by the pass that learns of it.    *)
RestingOpen ==
    \A p \in Rows : <<p, 3>> \in active =>
        p = 4 /\ ~reading.auto /\ ~reading.manClose /\ reading.priority = 3

(* A Warning for the temperature means that the limits are broken but that *)
(* outside air would not help; an Alarm is shown exactly while the latch   *)
(* is set.  For tables whose writes do not fail.                           *)
TemperatureShown ==
    /\ shown.temp = Alarmed <=> alarm.temp
    /\ shown.temp = Warning =>
          /\ ~Comfort(reading.tempIn, reading.tempMin, reading.tempMax)
          /\ ~ClimateSet(reading.tempIn, reading.tempOut,
                         reading.tempMin, reading.tempMax)

(* A priority that stays is obeyed in the end, whatever state its row      *)
(* found the chart in, provided the window keeps answering: it is read     *)
(* open again and again, and closed again and again.                       *)
PriorityHonoured ==
    \A p \in Rows :
        /\ []<>reading.winOpen
        /\ []<>~reading.winOpen
        /\ <>[](reading.priority = p - 1)
        => <>[](active \subseteq RowFlags(p))

(* Nothing in the house or outside asks for fresh air: both climates where *)
(* their latches are reset, and the air two below its limit.               *)
Settled(r) ==
    /\ ClimateReset(r.tempIn, r.tempOut, r.tempMin, r.tempMax)
    /\ ClimateReset(r.humidIn, r.humidOut, r.humidMin, r.humidMax)
    /\ r.airQIn <= r.airQMax - 2

(* Alarms end.  In automatic mode an alarm opens the window, the pass that *)
(* reads it open closes it, and as long as the latch is set it is opened   *)
(* again.  When the room settles for good this comes to an end, whatever   *)
(* latches were set before and whatever the priority does, as long as a    *)
(* window that is told to open is read open in the end.                    *)
ComfortEndsOpening ==
    /\ <>[](reading.auto /\ Settled(reading))
    /\ Open \in sent ~> reading.winOpen
    => <>[](Open \notin sent)

-----------------------------------------------------------------------------
\* What the documents say and the code does not do

(* Description.html: in manual mode the buttons open the window as long as *)
(* the wind is calm, and in automatic mode closing is forced by the noise  *)
(* alone - so a window that opens is not told to close while the priority  *)
(* is kept and what has opened it lasts: Open as the last button, or an    *)
(* alarm of the row on a quiet day.                                        *)
OpenHolds ==
    [][\A p \in Rows :
          /\ <<p, 2>> \in active /\ reading'.priority = p - 1
          /\ IF reading'.auto
             THEN TRUE \in RowAlarms(p, alarm') /\ ~alarm'.vol
             ELSE reading'.manOpen /\ ~reading'.manClose
          => Close \notin sent']_vars
==================================================================================
