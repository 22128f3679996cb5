------------------------------ MODULE MCSmartWindow ------------------------------
(* Readings for the runs of SmartWindow, each with either position of the  *)
(* window: a warm room in automatic mode and row 2, with and without noise *)
(* outside; or the one with noise, and Open by hand in row 4, so that both *)
(* modes, the noise and the change of rows meet.                           *)
EXTENDS SmartWindow, Alarms

Warm == [Stored EXCEPT !.tempIn = 27, !.priority = 1]
Noisy == [Warm EXCEPT !.volOut = 61]
ByHand == [Stored EXCEPT !.auto = FALSE, !.manOpen = TRUE]

EitherPosition(S) == {[r EXCEPT !.winOpen = w] : r \in S, w \in BOOLEAN}
ByAlarm == EitherPosition({Warm, Noisy})
ByHandOrNoise == EitherPosition({Noisy, ByHand})
==================================================================================
