------------------------------ MODULE MCDecisionLoop ------------------------------
(* Readings for the runs of DecisionLoop: the stored rows with some        *)
(* columns varied.                                                         *)
EXTENDS DecisionLoop

(* A warm room; a dry one; either on a loud street; a cold one with colder  *)
(* air outside and bad air inside; one whose temperature limits have        *)
(* crossed; one where all is well.  Between them every climate latch is set *)
(* and reset.                                                               *)
WarmOrDry ==
    {[Stored EXCEPT !.tempIn = 27, !.humidIn = 50],
     [Stored EXCEPT !.tempIn = 24, !.humidIn = 29]}

Rooms ==
    WarmOrDry \cup {[room EXCEPT !.volOut = 61] : room \in WarmOrDry} \cup
    {[Stored EXCEPT !.tempIn = 18, !.humidIn = 50, !.airQIn = 1],
     [Stored EXCEPT !.tempMin = 26, !.tempMax = 20, !.tempOut = 22],
     [Stored EXCEPT !.humidIn = 50, !.airQMax = 3]}

(* Automatic mode, or manual mode with any of the buttons (both of them     *)
(* where a reading mixes old rows with new ones), the window and the        *)
(* priority.  Priority 0 is also what a failed query returns.               *)
ControlReadings ==
    {[room EXCEPT !.auto = "auto" \in m, !.manOpen = "open" \in m,
                  !.manClose = "close" \in m, !.winOpen = w, !.priority = q] :
        m \in {{"auto"}} \cup SUBSET {"open", "close"}, w \in BOOLEAN,
        room \in Rooms, q \in 0..3}
================================================================================
