---------------------------- MODULE DecisionLoopProofs ----------------------------
(***************************************************************************)
(* Proofs about DecisionLoop, for every set of readings.                   *)
(***************************************************************************)
EXTENDS DecisionLoop, TLAPS

-----------------------------------------------------------------------------
\* The state chart on a single flag

(* What one `if' of the chart does to the only flag that is on. *)
FireFlag(f, from, guard, to) == IF f = from /\ guard THEN to ELSE f

(* What the ifs of row p do to it. *)
RowStep(f, p, a, r) ==
    LET chosen == r.priority = p - 1
        s1 == FireFlag(f,  State0,  chosen,              <<p, 1>>)
        s2 == FireFlag(s1, <<p, 1>>, OpenGuard(p, a, r),  <<p, 2>>)
        s3 == FireFlag(s2, <<p, 2>>, r.winOpen,           <<p, 3>>)
        s4 == FireFlag(s3, <<p, 3>>, CloseGuard(p, a, r), <<p, 4>>)
        s5 == FireFlag(s4, <<p, 4>>, ~r.winOpen,          <<p, 1>>)
        s6 == FireFlag(s5, <<p, 3>>, ~chosen,             InitFlag)
    IN  FireFlag(s6, <<p, 1>>, ~chosen, InitFlag)

(* One flag on stays one flag on. *)
LEMMA RowSingle ==
    ASSUME NEW f \in Flags, NEW p \in Rows, NEW a \in AlarmType,
           NEW r \in ReadingType
    PROVE  RowPass({f}, p, a, r) = {RowStep(f, p, a, r)}
<1>1. /\ State0 # <<p, 1>> /\ <<p, 1>> # <<p, 2>> /\ <<p, 2>> # <<p, 3>>
      /\ <<p, 3>> # <<p, 4>> /\ <<p, 4>> # <<p, 1>>
      /\ <<p, 3>> # InitFlag /\ <<p, 1>> # InitFlag
  BY DEF Rows, State0, InitFlag
<1> DEFINE chosen == r.priority = p - 1
           s1 == Fire({f}, State0, chosen, <<p, 1>>)
           s2 == Fire(s1, <<p, 1>>, OpenGuard(p, a, r),  <<p, 2>>)
           s3 == Fire(s2, <<p, 2>>, r.winOpen,           <<p, 3>>)
           s4 == Fire(s3, <<p, 3>>, CloseGuard(p, a, r), <<p, 4>>)
           s5 == Fire(s4, <<p, 4>>, ~r.winOpen,          <<p, 1>>)
           s6 == Fire(s5, <<p, 3>>, ~chosen,             InitFlag)
           s7 == Fire(s6, <<p, 1>>, ~chosen,             InitFlag)
           f1 == FireFlag(f, State0, chosen, <<p, 1>>)
           f2 == FireFlag(f1, <<p, 1>>, OpenGuard(p, a, r),  <<p, 2>>)
           f3 == FireFlag(f2, <<p, 2>>, r.winOpen,           <<p, 3>>)
           f4 == FireFlag(f3, <<p, 3>>, CloseGuard(p, a, r), <<p, 4>>)
           f5 == FireFlag(f4, <<p, 4>>, ~r.winOpen,          <<p, 1>>)
           f6 == FireFlag(f5, <<p, 3>>, ~chosen,             InitFlag)
           f7 == FireFlag(f6, <<p, 1>>, ~chosen,             InitFlag)
<1>2. s1 = {f1}
  <2> HIDE DEF chosen
  <2> QED BY <1>1 DEF Fire, FireFlag, chosen
<1>3. s2 = {f2}
  <2> HIDE DEF s1, f1
  <2> QED BY <1>1, <1>2 DEF Fire, FireFlag
<1>4. s3 = {f3}
  <2> HIDE DEF s2, f2
  <2> QED BY <1>1, <1>3 DEF Fire, FireFlag
<1>5. s4 = {f4}
  <2> HIDE DEF s3, f3
  <2> QED BY <1>1, <1>4 DEF Fire, FireFlag
<1>6. s5 = {f5}
  <2> HIDE DEF s4, f4
  <2> QED BY <1>1, <1>5 DEF Fire, FireFlag
<1>7. s6 = {f6}
  <2> HIDE DEF s5, f5
  <2> QED BY <1>1, <1>6 DEF Fire, FireFlag
<1>8. s7 = {f7}
  <2> HIDE DEF s6, f6
  <2> QED BY <1>1, <1>7 DEF Fire, FireFlag
<1> QED
  BY <1>8 DEF RowPass, RowStep

(* What the ifs of row p can do to the flag, given that the air-quality    *)
(* alarm is off.                                                           *)
RowFacts(f, g, p, a, r) ==
    /\ f \in RowFlags(p) => g \in RowFlags(p) \cup {InitFlag}
    /\ f = State0 => g \in RowFlags(p) \cup {State0}
    /\ f \notin RowFlags(p) \cup {State0} => g = f
    /\ f = <<p, 2>> /\ ~r.winOpen => g = f
    /\ f = <<p, 4>> /\ r.winOpen => g = f
    /\ g = <<p, 2>> => ~r.winOpen /\ (f = g \/ OpenGuard(p, a, r))
    /\ g = <<p, 3>> => p = 4 /\ r.priority = 3 /\ ~r.auto /\ ~r.manClose
    /\ g = <<p, 3>> /\ ~r.winOpen => f = g
    /\ f \in {<<p, 2>>, <<p, 3>>} /\ r.winOpen => g # <<p, 1>>

LEMMA RowStepFacts ==
    ASSUME NEW f \in Flags, NEW p \in Rows, NEW a \in AlarmType, a.airQ = FALSE,
           NEW r \in ReadingType
    PROVE  RowFacts(f, RowStep(f, p, a, r), p, a, r)
<1> DEFINE g == RowStep(f, p, a, r)
<1>1. CloseGuard(p, a, r) \/ (p = 4 /\ ~r.auto /\ ~r.manClose)
  <2>1. CASE p # 4
    BY <2>1 DEF CloseGuard, WindAlarm
  <2>2. CASE p = 4
    <3>1. RowAlarms(p, a) = {a.airQ, a.temp, a.humid}
      BY <2>2 DEF RowAlarms
    <3>2. FALSE \in RowAlarms(p, a)
      BY <3>1, Zenon
    <3> QED
      BY <2>2, <3>2 DEF CloseGuard, WindAlarm, ReadingType
  <2> QED
    BY <2>1, <2>2
<1>2. RowFlags(p) = {<<p, 1>>, <<p, 2>>, <<p, 3>>, <<p, 4>>}
  BY DEF RowFlags
<1>3. /\ <<p, 1>> # <<p, 2>> /\ <<p, 1>> # <<p, 3>> /\ <<p, 1>> # <<p, 4>>
      /\ <<p, 2>> # <<p, 3>> /\ <<p, 2>> # <<p, 4>> /\ <<p, 3>> # <<p, 4>>
  OBVIOUS
<1>4. /\ State0 # <<p, 1>> /\ State0 # <<p, 2>> /\ State0 # <<p, 3>> /\ State0 # <<p, 4>>
      /\ InitFlag # <<p, 1>> /\ InitFlag # <<p, 2>>
      /\ InitFlag # <<p, 3>> /\ InitFlag # <<p, 4>> /\ InitFlag # State0
  BY DEF State0, InitFlag, Rows
<1>5. p = 4 /\ r.priority = p - 1 => r.priority = 3
  BY DEF ReadingType
<1>6. CASE f \notin RowFlags(p) \cup {State0}
  <2>1. g = f
    BY <1>2, <1>6 DEF RowStep, FireFlag
  <2> QED
    BY <1>2, <1>6, <2>1 DEF RowFacts
<1>7. CASE f = State0
  BY <1>1, <1>2, <1>3, <1>4, <1>5, <1>7 DEF RowFacts, RowStep, FireFlag
<1>8. CASE f = <<p, 1>>
  BY <1>1, <1>2, <1>3, <1>4, <1>5, <1>8 DEF RowFacts, RowStep, FireFlag
<1>9. CASE f = <<p, 2>>
  BY <1>1, <1>2, <1>3, <1>4, <1>5, <1>9 DEF RowFacts, RowStep, FireFlag
<1>10. CASE f = <<p, 3>>
  BY <1>1, <1>2, <1>3, <1>4, <1>5, <1>10 DEF RowFacts, RowStep, FireFlag
<1>11. CASE f = <<p, 4>>
  BY <1>1, <1>2, <1>3, <1>4, <1>5, <1>11 DEF RowFacts, RowStep, FireFlag
<1> QED
  BY <1>2, <1>6, <1>7, <1>8, <1>9, <1>10, <1>11

-----------------------------------------------------------------------------
\* A whole pass

(* What a pass can do to the flag. *)
PassFacts(f, g, a, r) ==
    /\ \A p \in Rows :
          /\ f \in RowFlags(p) => g \in RowFlags(p) \cup {InitFlag}
          /\ f = <<p, 2>> /\ ~r.winOpen => g = f
          /\ f = <<p, 4>> /\ r.winOpen => g = f
          /\ g = <<p, 2>> => ~r.winOpen /\ (f = g \/ OpenGuard(p, a, r))
          /\ g = <<p, 3>> => p = 4 /\ r.priority = 3 /\ ~r.auto /\ ~r.manClose
          /\ g = <<p, 3>> /\ ~r.winOpen => f = g
          /\ f \in {<<p, 2>>, <<p, 3>>} /\ r.winOpen => g # <<p, 1>>
    /\ f = InitFlag /\ r.winOpen => g = f

LEMMA RowFactsFlag ==
    ASSUME NEW f \in Flags, NEW g, NEW p \in Rows, NEW a, NEW r, RowFacts(f, g, p, a, r)
    PROVE  g \in Flags
  BY DEF RowFacts, Flags, RowFlags, State0, InitFlag

LEMMA ChartSingle ==
    ASSUME NEW f \in Flags, NEW a \in AlarmType, a.airQ = FALSE,
           NEW r \in ReadingType
    PROVE  \E g \in Flags : ChartPass({f}, a, r) = {g} /\ PassFacts(f, g, a, r)
<1> DEFINE t0 == FireFlag(f, InitFlag, ~r.winOpen, State0)
           t1 == RowStep(t0, 1, a, r)
           t2 == RowStep(t1, 2, a, r)
           t3 == RowStep(t2, 3, a, r)
           t4 == RowStep(t3, 4, a, r)
<1> USE DEF Rows
<1>1. t0 \in Flags
  BY DEF FireFlag, Flags, InitFlag, State0
<1> HIDE DEF t0
<1>2. t1 \in Flags /\ RowFacts(t0, t1, 1, a, r)
  <2>1. RowFacts(t0, t1, 1, a, r)
    BY <1>1, RowStepFacts, 1 \in Rows
  <2> QED
    BY <1>1, <2>1, RowFactsFlag, 1 \in Rows
<1> HIDE DEF t1
<1>3. t2 \in Flags /\ RowFacts(t1, t2, 2, a, r)
  <2>1. RowFacts(t1, t2, 2, a, r)
    BY <1>2, RowStepFacts, 2 \in Rows
  <2> QED
    BY <1>2, <2>1, RowFactsFlag, 2 \in Rows
<1> HIDE DEF t2
<1>4. t3 \in Flags /\ RowFacts(t2, t3, 3, a, r)
  <2>1. RowFacts(t2, t3, 3, a, r)
    BY <1>3, RowStepFacts, 3 \in Rows
  <2> QED
    BY <1>3, <2>1, RowFactsFlag, 3 \in Rows
<1> HIDE DEF t3
<1>5. t4 \in Flags /\ RowFacts(t3, t4, 4, a, r)
  <2>1. RowFacts(t3, t4, 4, a, r)
    BY <1>4, RowStepFacts, 4 \in Rows
  <2> QED
    BY <1>4, <2>1, RowFactsFlag, 4 \in Rows
<1> HIDE DEF t4
<1>6. ChartPass({f}, a, r) = {t4}
  <2>1. Fire({f}, InitFlag, ~r.winOpen, State0) = {t0}
    BY DEF Fire, FireFlag, InitFlag, State0, t0
  <2>2. RowPass({t0}, 1, a, r) = {t1}
    <3>1. t0 \in Flags
      BY <1>1
    <3>2. 1 \in Rows
      OBVIOUS
    <3> QED
      BY <3>1, <3>2, RowSingle, ZenonT(60) DEF t1
  <2>3. RowPass({t1}, 2, a, r) = {t2}
    <3>1. t1 \in Flags
      BY <1>2
    <3>2. 2 \in Rows
      OBVIOUS
    <3> QED
      BY <3>1, <3>2, RowSingle, ZenonT(60) DEF t2
  <2>4. RowPass({t2}, 3, a, r) = {t3}
    <3>1. t2 \in Flags
      BY <1>3
    <3>2. 3 \in Rows
      OBVIOUS
    <3> QED
      BY <3>1, <3>2, RowSingle, ZenonT(60) DEF t3
  <2>5. RowPass({t3}, 4, a, r) = {t4}
    <3>1. t3 \in Flags
      BY <1>4
    <3>2. 4 \in Rows
      OBVIOUS
    <3> QED
      BY <3>1, <3>2, RowSingle, ZenonT(60) DEF t4
  <2> QED
    BY <2>1, <2>2, <2>3, <2>4, <2>5 DEF ChartPass
<1>7. PassFacts(f, t4, a, r)
  <2>1. \/ f = InitFlag /\ ~r.winOpen /\ t0 = State0
        \/ (f # InitFlag \/ r.winOpen) /\ t0 = f
    BY DEF FireFlag, t0
  <2> QED
    BY <1>1, <1>2, <1>3, <1>4, <1>5, <2>1
       DEF PassFacts, RowFacts, Rows, Flags, RowFlags, InitFlag, State0
<1> QED
  BY <1>5, <1>6, <1>7

-----------------------------------------------------------------------------
\* The alarms and the alarm states of a pass

(* The reset condition of the air-quality latch contains the set condition *)
(* and has the last word: the alarm cannot be raised.                      *)
LEMMA AirQualityMute ==
    ASSUME NEW in \in Int, NEW max \in Int
    PROVE  AirQAlarm(FALSE, in, max) = FALSE
<1>1. Half(in + in) \in Int
  BY DEF Half
<1>2. Half(in + in) > max => Half(in + in) >= max - 2
  BY <1>1
<1>3. ~AirQAlarm(FALSE, in, max)
  BY <1>1, <1>2 DEF AirQAlarm
<1>4. AirQAlarm(FALSE, in, max) \in BOOLEAN
  BY Zenon DEF AirQAlarm
<1> QED
  BY <1>3, <1>4

(* A temperature or humidity alarm can be reset if and only if the lower   *)
(* limit is below the upper one: with limits that meet or cross, as the    *)
(* limit form accepts them, an alarm once raised stays for good.           *)
THEOREM AlarmCanEnd ==
    ASSUME NEW min \in Int, NEW max \in Int
    PROVE  (\E in, out \in Int : ClimateReset(in, out, min, max)) <=> min < max
<1>1. ASSUME min < max PROVE ClimateReset(max, max, min, max)
  <2>1. Average(min, max) < max
    BY <1>1 DEF Average, Half
  <2> QED
    BY <1>1, <2>1 DEF ClimateReset, Comfort
<1>2. ASSUME ~(min < max), NEW in \in Int, NEW out \in Int
      PROVE  ~ClimateReset(in, out, min, max)
  <2>1. CASE in = min /\ in = max
    <3>1. Average(min, max) = in
      BY <2>1 DEF Average, Half
    <3> QED
      BY <3>1 DEF ClimateReset
  <2>2. CASE ~(in = min /\ in = max)
    BY <1>2, <2>2 DEF ClimateReset, Comfort
  <2> QED
    BY <2>1, <2>2
<1> QED
  BY <1>1, <1>2

(* The latches have no reading that both sets and resets them, so the      *)
(* order of the two tests does not matter - except for the air quality.    *)
THEOREM LatchesExclusive ==
    ASSUME NEW in \in Int, NEW out \in Int, NEW min \in Int, NEW max \in Int
    PROVE  /\ ~(ClimateSet(in, out, min, max) /\ ClimateReset(in, out, min, max))
           /\ ~(out > max /\ max - 2 >= out)
  BY DEF ClimateSet, ClimateReset, Comfort

LEMMA NextAlarmType ==
    ASSUME NEW a \in AlarmType, a.airQ = FALSE, NEW r \in ReadingType
    PROVE  NextAlarm(a, r) \in AlarmType /\ NextAlarm(a, r).airQ = FALSE
<1>1. AirQAlarm(a.airQ, r.airQIn, r.airQMax) = FALSE
  BY ZenonT(30), AirQualityMute DEF ReadingType
<1>2. /\ ClimateAlarm(a.temp, r.tempIn, r.tempOut, r.tempMin, r.tempMax) \in BOOLEAN
      /\ ClimateAlarm(a.humid, r.humidIn, r.humidOut, r.humidMin, r.humidMax) \in BOOLEAN
      /\ VolAlarm(a.vol, r.volOut, r.volMax) \in BOOLEAN
  BY Zenon DEF ClimateAlarm, VolAlarm
<1> QED
  BY <1>1, <1>2 DEF NextAlarm, AlarmType

LEMMA ShownAfterType ==
    ASSUME NEW s \in ShownType, NEW a \in AlarmType, NEW r \in ReadingType
    PROVE  ShownAfter(s, a, r) \subseteq ShownType
<1>1. \A t : \A v \in OK..Alarmed, old \in OK..Alarmed :
        Written(t, old, v) \subseteq OK..Alarmed
  BY DEF Written
<1>2. \A in, min, max : ComfortState(in, min, max) \in OK..Alarmed
  BY DEF ComfortState, OK, Warning, Alarmed
<1>3. \A b, in, min, max : ClimateState(b, in, min, max) \in OK..Alarmed
  BY <1>2 DEF ClimateState, OK, Warning, Alarmed
<1>4. \A b : VolState(b) \in OK..Alarmed
  BY DEF VolState, OK, Warning, Alarmed
<1>5. Alarmed \in OK..Alarmed
  BY DEF OK, Alarmed
<1>6. HumidityShown(s.humid, a, r) \subseteq OK..Alarmed
  BY <1>1, <1>2, <1>5 DEF HumidityShown, ShownType
<1> QED
  BY <1>1, <1>3, <1>4, <1>6 DEF ShownAfter, ShownType

(* The commands a single flag stands for. *)
LEMMA CommandsOf ==
    ASSUME NEW f \in Flags
    PROVE  /\ Commands({f}) \in {{}, {Open}, {Close}}
           /\ Commands({f}) = {Open} <=> \E p \in Rows : f = <<p, 2>>
           /\ Commands({f}) = {Close} <=>
                 f = InitFlag \/ \E p \in Rows : f = <<p, 4>>
<1>1. {f} \cap (Rows \X {2}) # {} <=> \E p \in Rows : f = <<p, 2>>
  OBVIOUS
<1>2. {f} \cap ({InitFlag} \cup (Rows \X {4})) # {}
        <=> f = InitFlag \/ \E p \in Rows : f = <<p, 4>>
  OBVIOUS
<1>3. ~ /\ \E p \in Rows : f = <<p, 2>>
        /\ f = InitFlag \/ \E p \in Rows : f = <<p, 4>>
  BY DEF InitFlag, Rows
<1>4. Open # Close
  BY DEF Open, Close
<1> QED
  BY <1>1, <1>2, <1>3, <1>4 DEF Commands

-----------------------------------------------------------------------------
\* The inductive invariant

(* The flags spell one state, the air-quality latch is off, the commands   *)
(* sent are those of the state (before the first pass none has been sent), *)
(* and the window rests open in one state only.                            *)
IInv ==
    /\ TypeOK
    /\ OneState
    /\ alarm.airQ = FALSE
    /\ sent \in {{}, Commands(active)}
    /\ RestingOpen

LEMMA InitIInv == Init => IInv
<1> SUFFICES ASSUME Init PROVE IInv
  OBVIOUS
<1>1. InitFlag \in Flags /\ \A p \in Rows : <<p, 3>> # InitFlag
  BY DEF Flags, InitFlag, Rows
<1>2. shown \in ShownType
  BY DEF Init, ShownType, OK, Alarmed
<1>3. alarm \in AlarmType
  BY DEF Init, AlarmType
<1> QED
  BY <1>1, <1>2, <1>3 DEF Init, IInv, TypeOK, OneState, RestingOpen

(* A pass in terms of the flag it starts from and the one it ends in. *)
LEMMA PassMoves ==
    ASSUME IInv, NEW r \in Readings, Pass(r)
    PROVE  \E f, g \in Flags :
              /\ active = {f} /\ active' = {g}
              /\ PassFacts(f, g, alarm', r)
              /\ r \in ReadingType
              /\ alarm' \in AlarmType /\ alarm'.airQ = FALSE
<1>1. PICK f \in Flags : active = {f}
  BY DEF IInv, OneState
<1>2. r \in ReadingType
  BY ReadingsAssumption
<1>3. alarm' \in AlarmType /\ alarm'.airQ = FALSE
  BY <1>2, NextAlarmType DEF IInv, TypeOK, Pass
<1>4. PICK g \in Flags : ChartPass({f}, alarm', r) = {g} /\ PassFacts(f, g, alarm', r)
  BY <1>2, <1>3, ChartSingle
<1> QED
  BY <1>1, <1>2, <1>3, <1>4 DEF Pass

LEMMA NextIInv == IInv /\ [Next]_vars => IInv'
<1> SUFFICES ASSUME IInv, [Next]_vars PROVE IInv'
  OBVIOUS
<1>1. CASE Next
  <2>1. PICK r \in Readings : Pass(r)
    BY <1>1 DEF Next
  <2>2. PICK f \in Flags, g \in Flags :
            /\ active = {f} /\ active' = {g}
            /\ PassFacts(f, g, alarm', r)
            /\ r \in ReadingType
            /\ alarm' \in AlarmType /\ alarm'.airQ = FALSE
    BY <2>1, PassMoves
  <2>3. TypeOK'
    <3>1. shown' \in ShownType
      BY <2>1, <2>2, ShownAfterType DEF Pass, IInv, TypeOK
    <3>2. sent' \subseteq {Open, Close}
      BY <2>1 DEF Pass, Commands
    <3> QED
      BY <2>1, <2>2, <3>1, <3>2 DEF TypeOK, Pass
  <2>4. RestingOpen'
    BY <2>1, <2>2 DEF RestingOpen, PassFacts, Pass
  <2>5. sent' \in {{}, Commands(active)'}
    BY <2>1 DEF Pass, Commands
  <2> QED
    BY <2>2, <2>3, <2>4, <2>5 DEF IInv, OneState
<1>2. CASE UNCHANGED vars
  BY <1>2 DEF vars, IInv, TypeOK, OneState, RestingOpen, Commands
<1> QED
  BY <1>1, <1>2

(* The inductive invariant holds in every reachable state. *)
THEOREM Inductive == Spec => []IInv
  BY InitIInv, NextIInv, PTL DEF Spec

(* Every variable of the decision loop keeps its type. *)
THEOREM TypeCorrect == Spec => []TypeOK
  BY Inductive, PTL DEF IInv

(* The alarm for the air quality is never on after a pass, whatever the    *)
(* air: the thresholds that set and reset it overlap (Doc/AirQuality.png   *)
(* draws a latch that is set above AirQuality_MAX).                        *)
THEOREM AirQualityNeverAlarms == Spec => [](alarm.airQ = FALSE)
  BY Inductive, PTL DEF IInv

(* The eighteen booleans of the state chart always spell one state.        *)
THEOREM OneStateAlways == Spec => []OneState
  BY Inductive, PTL DEF IInv

(* The controller leaves an open window alone in one state only: row 4, in *)
(* manual mode, with the Close button not pressed and priority 3.          *)
THEOREM RestingOpenAlways == Spec => []RestingOpen
  BY Inductive, PTL DEF IInv

-----------------------------------------------------------------------------
\* The display

(* Where the table takes every row, a pass shows the state it has found.   *)
LEMMA TemperatureWritten ==
    ASSUME "Temp" \notin FailingWrites, NEW r \in Readings, Pass(r)
    PROVE  shown'.temp = ClimateState(alarm'.temp, r.tempIn, r.tempMin, r.tempMax)
<1> DEFINE now == ClimateState(alarm'.temp, r.tempIn, r.tempMin, r.tempMax)
<1> HIDE DEF now
<1>1. Written("Temp", shown.temp, now) = {now}
  BY DEF Written
<1>2. shown'.temp \in Written("Temp", shown.temp, now)
  BY DEF Pass, ShownAfter, now
<1> QED
  BY <1>1, <1>2 DEF now

(* The temperature shown agrees with the latch, and a Warning is never     *)
(* shown where the latch should have been set, provided that no write of   *)
(* the temperature state fails.                                            *)
THEOREM TemperatureToldRight ==
    ASSUME "Temp" \notin FailingWrites
    PROVE  Spec => []TemperatureShown
<1>1. Init => TemperatureShown
  BY DEF Init, TemperatureShown, OK, Warning, Alarmed
<1>2. ASSUME TemperatureShown, [Next]_vars
      PROVE  TemperatureShown'
  <2>1. CASE Next
    <3>1. PICK r \in Readings : Pass(r)
      BY <2>1 DEF Next
    <3>2. /\ shown'.temp = ClimateState(alarm'.temp, r.tempIn, r.tempMin, r.tempMax)
          /\ reading' = r
      BY <3>1, TemperatureWritten DEF Pass
    <3>3. alarm'.temp =
             ClimateAlarm(alarm.temp, r.tempIn, r.tempOut, r.tempMin, r.tempMax)
      BY <3>1 DEF Pass, NextAlarm
    <3>4. ~alarm'.temp => ~ClimateSet(r.tempIn, r.tempOut, r.tempMin, r.tempMax)
      BY <3>3, Zenon DEF ClimateAlarm
    <3>5. OK # Warning /\ OK # Alarmed /\ Warning # Alarmed
      BY DEF OK, Warning, Alarmed
    <3> QED
      BY <3>2, <3>4, <3>5, Zenon DEF TemperatureShown, ClimateState, ComfortState
  <2>2. CASE UNCHANGED vars
    BY <1>2, <2>2 DEF vars, TemperatureShown
  <2> QED
    BY <1>2, <2>1, <2>2
<1> QED
  BY <1>1, <1>2, PTL DEF Spec

-----------------------------------------------------------------------------
\* Action properties

(* A pass ends in the row it began in, or in init.                         *)
THEOREM RowsLeftThroughInit == Spec => RowLeftThroughInit
<1>1. ASSUME IInv, [Next]_vars
      PROVE  [\A p \in Rows : active \cap RowFlags(p) # {} =>
                 active' \subseteq RowFlags(p) \cup {InitFlag}]_vars
  <2>1. CASE Next
    <3>1. PICK r \in Readings : Pass(r)
      BY <2>1 DEF Next
    <3>2. PICK f \in Flags, g \in Flags :
              active = {f} /\ active' = {g} /\ PassFacts(f, g, alarm', r)
      BY <1>1, <3>1, PassMoves
    <3> QED
      BY <3>2 DEF PassFacts
  <2>2. CASE UNCHANGED vars
    BY <2>2
  <2> QED
    BY <1>1, <2>1, <2>2
<1> QED
  BY <1>1, Inductive, PTL DEF Spec, RowLeftThroughInit

(* Where the room has settled a pass ends with every latch off that opens  *)
(* the window.                                                             *)
LEMMA SettledResets ==
    ASSUME NEW a \in AlarmType, NEW r \in ReadingType, Settled(r)
    PROVE  ~NextAlarm(a, r).temp /\ ~NextAlarm(a, r).humid
<1>1. /\ r.tempIn \in Int /\ r.tempOut \in Int /\ r.tempMin \in Int /\ r.tempMax \in Int
      /\ r.humidIn \in Int /\ r.humidOut \in Int /\ r.humidMin \in Int /\ r.humidMax \in Int
  BY DEF ReadingType
<1>2. ~ClimateAlarm(a.temp, r.tempIn, r.tempOut, r.tempMin, r.tempMax)
  BY <1>1, LatchesExclusive, ZenonT(30) DEF Settled, ClimateAlarm
<1>3. ~ClimateAlarm(a.humid, r.humidIn, r.humidOut, r.humidMin, r.humidMax)
  BY <1>1, LatchesExclusive, ZenonT(30) DEF Settled, ClimateAlarm
<1> QED
  BY <1>2, <1>3 DEF NextAlarm

(* The steps behind ComfortEndsOpening: while the room is settled no       *)
(* opening begins, in any row, and one that has begun is over in the pass  *)
(* that reads the window open.                                             *)
THEOREM SettledOpensNothing ==
    Spec => [][reading'.auto /\ Settled(reading') =>
                  /\ active' \cap (Rows \X {2}) \subseteq active
                  /\ reading'.winOpen => active' \cap (Rows \X {2}) = {}]_vars
<1>1. ASSUME IInv, [Next]_vars
      PROVE  [reading'.auto /\ Settled(reading') =>
                 /\ active' \cap (Rows \X {2}) \subseteq active
                 /\ reading'.winOpen => active' \cap (Rows \X {2}) = {}]_vars
  <2>1. ASSUME NEW r \in Readings, Pass(r), r.auto, Settled(r)
        PROVE  /\ active' \cap (Rows \X {2}) \subseteq active
               /\ r.winOpen => active' \cap (Rows \X {2}) = {}
    <3>1. PICK f \in Flags, g \in Flags :
              /\ active = {f} /\ active' = {g}
              /\ PassFacts(f, g, alarm', r)
              /\ r \in ReadingType
              /\ alarm' \in AlarmType /\ alarm'.airQ = FALSE
      BY <1>1, <2>1, PassMoves
    <3>2. ~alarm'.temp /\ ~alarm'.humid
      BY <1>1, <2>1, <3>1, SettledResets DEF Pass, IInv, TypeOK
    <3>3. ASSUME NEW p \in Rows PROVE TRUE \notin RowAlarms(p, alarm')
      <4>1. RowAlarms(p, alarm') \subseteq {alarm'.airQ, alarm'.temp, alarm'.humid}
        BY DEF RowAlarms, Rows
      <4> QED
        BY <3>1, <3>2, <4>1
    <3>4. ASSUME NEW p \in Rows PROVE ~OpenGuard(p, alarm', r)
      BY <2>1, <3>3 DEF OpenGuard
    <3>5. ASSUME NEW p \in Rows, g = <<p, 2>> PROVE f = g /\ ~r.winOpen
      BY <3>1, <3>4, <3>5 DEF PassFacts
    <3> QED
      BY <3>1, <3>5
  <2>2. CASE Next
    <3>1. PICK r \in Readings : Pass(r)
      BY <2>2 DEF Next
    <3>2. reading' = r
      BY <3>1 DEF Pass
    <3> QED
      BY <2>1, <3>1, <3>2
  <2>3. CASE UNCHANGED vars
    BY <2>3
  <2> QED
    BY <1>1, <2>2, <2>3
<1> QED
  BY <1>1, Inductive, PTL DEF Spec

(* The loop implements WindowCommand: a command is repeated until the      *)
(* window is read in the position it asks for, the two commands are never  *)
(* sent together, and Open is sent only in a pass that read it closed.     *)
THEOREM PromiseKept == Spec => KeepsPromise
<1>1. Init => Command!Init
  BY ReadingsAssumption DEF Init, Command!Init, ReadingType
<1>2. ASSUME IInv, [Next]_vars
      PROVE  [Command!Next]_(Command!vars)
  <2>1. CASE Next
    <3>1. PICK r \in Readings : Pass(r)
      BY <2>1 DEF Next
    <3>2. PICK f \in Flags, g \in Flags :
              /\ active = {f} /\ active' = {g}
              /\ PassFacts(f, g, alarm', r)
              /\ r \in ReadingType
      BY <1>2, <3>1, PassMoves
    <3>3. sent' = Commands({g}) /\ reading'.winOpen = r.winOpen /\ r.winOpen \in BOOLEAN
      BY <3>1, <3>2 DEF Pass, ReadingType
    <3>4. sent = {} \/ sent = Commands({f})
      BY <1>2, <3>2 DEF IInv
    <3>5. Open # Close
      BY DEF Open, Close
    <3>6. CASE r.winOpen
      <4>1. sent' # {Open}
        BY <3>2, <3>3, <3>6, CommandsOf DEF PassFacts
      <4>2. sent = {Close} => sent' = {Close}
        BY <3>2, <3>3, <3>4, <3>6, CommandsOf DEF PassFacts
      <4> QED
        BY <3>3, <3>6, <4>1, <4>2, CommandsOf
           DEF Command!Next, Command!SeeOpen, Command!Open, Command!Close, Open, Close
    <3>7. CASE ~r.winOpen
      <4>1. sent = {Open} => sent' = {Open}
        BY <3>2, <3>3, <3>4, <3>7, CommandsOf DEF PassFacts
      <4> QED
        BY <3>3, <3>7, <4>1, CommandsOf
           DEF Command!Next, Command!SeeClosed, Command!Open, Command!Close, Open, Close
    <3> QED
      BY <3>6, <3>7
  <2>2. CASE UNCHANGED vars
    BY <2>2 DEF vars, Command!vars
  <2> QED
    BY <1>2, <2>1, <2>2
<1> QED
  BY <1>1, <1>2, Inductive, PTL DEF Spec, KeepsPromise, Command!Spec
=============================================================================
