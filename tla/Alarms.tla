--------------------------------- MODULE Alarms ---------------------------------
(***************************************************************************)
(* The pure part of one pass of decisionLoop (main_controller.cpp): the    *)
(* set/reset latches that turn the values of the sensor and limit tables   *)
(* into alarms, and the numbers written to the *_AlarmState tables; and    *)
(* the values it finds in a new database.                                  *)
(*                                                                         *)
(* Values are the C ints that get_latest_value_int returns.  No operation  *)
(* below leaves the range of an int for the values the sensors and the     *)
(* limit forms produce, so the width is not modelled.                      *)
(***************************************************************************)
EXTENDS Integers

-----------------------------------------------------------------------------
\* Integer arithmetic

(* C's  n / 2  on ints: rounds towards zero, where \div rounds down. *)
Half(n) == IF n >= 0 THEN n \div 2 ELSE -((-n) \div 2)

(* humid_average and temp_average: the middle of the limits. *)
Average(min, max) == Half(max - min) + min

-----------------------------------------------------------------------------
\* Alarm latches: the value of the flag after the pass, given the one before

Comfort(in, min, max) == min <= in /\ in <= max

(* Outside the limits, and the air outside lies on the better side. *)
ClimateSet(in, out, min, max) ==
    \/ in < min /\ in < out
    \/ in > max /\ in > out

(* Comfortable, with both sides of the wall on one side of the average. *)
ClimateReset(in, out, min, max) ==
    /\ \/ out < Average(min, max) /\ in < Average(min, max)
       \/ out > Average(min, max) /\ in > Average(min, max)
    /\ Comfort(in, min, max)

\* Fault for ComfortEndsOpening: nothing resets the latch.
ClimateAlarmForGood(alarm, in, out, min, max) ==
    ClimateSet(in, out, min, max) \/ alarm

(* temp_alarm and humid_alarm: if set ... else if reset. *)
ClimateAlarm(alarm, in, out, min, max) ==
    \/ ClimateSet(in, out, min, max)
    \/ alarm /\ ~ClimateReset(in, out, min, max)

(* airQ_alarm: if set; if reset, so the reset has the last word.  The inner *)
(* sensor is averaged with itself.                                          *)
AirQAlarm(alarm, in, max) ==
    /\ alarm \/ Half(in + in) > max
    /\ ~(Half(in + in) >= max - 2)

(* vol_alarm: set above the limit, reset two below it. *)
VolAlarm(alarm, out, max) ==
    /\ alarm \/ out > max
    /\ ~(max - 2 >= out)

-----------------------------------------------------------------------------
\* What the alarm-state tables show

OK == 0
Warning == 1
Alarmed == 2

(* What is left to say when there is no alarm: are the limits kept? *)
ComfortState(in, min, max) == IF Comfort(in, min, max) THEN OK ELSE Warning

\* Fault for TemperatureShown: the limits are looked at before the alarm.
ClimateStateCalm(alarm, in, min, max) ==
    IF Comfort(in, min, max) THEN OK ELSE IF alarm THEN Alarmed ELSE Warning

ClimateState(alarm, in, min, max) ==
    IF alarm THEN Alarmed ELSE ComfortState(in, min, max)

VolState(alarm) == IF alarm THEN Alarmed ELSE OK

-----------------------------------------------------------------------------
(* The rows that database_tables.sql begins with. *)
Stored ==
    [auto |-> TRUE, manOpen |-> FALSE, manClose |-> FALSE, winOpen |-> FALSE,
     airQIn |-> 0, airQMax |-> 0,
     humidIn |-> 40, humidOut |-> 70, humidMin |-> 30, humidMax |-> 65,
     tempIn |-> 22, tempOut |-> 4, tempMin |-> 20, tempMax |-> 26,
     volOut |-> 20, volMax |-> 60, priority |-> 3]
=============================================================================
