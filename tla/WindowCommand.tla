------------------------------ MODULE WindowCommand ------------------------------
(***************************************************************************)
(* What the window controller promises the window, whatever the sensors,   *)
(* the limits, the mode and the priority do: one command at a time; a      *)
(* command, once given, is repeated in every pass until the window is seen *)
(* in the position it asks for; and the window is told to open only in a   *)
(* pass that sees it closed.                                               *)
(***************************************************************************)

VARIABLES
    commands,   \* the commands multicast at the end of the last pass
    seen        \* the window position that pass read: TRUE for open

vars == <<commands, seen>>

Open == "PUT_Win/Open"
Close == "PUT_Win/Close"

Init == commands = {} /\ seen \in BOOLEAN

(* A pass that sees the window closed: Open stays until confirmed, and no  *)
(* other state of affairs forbids either command.                          *)
SeeClosed ==
    /\ ~seen'
    /\ commands' \in {{}, {Open}, {Close}}
    /\ commands = {Open} => commands' = {Open}

(* A pass that sees the window open: Close stays until confirmed, and Open *)
(* is neither begun nor repeated.                                          *)
SeeOpen ==
    /\ seen'
    /\ commands' \in {{}, {Close}}
    /\ commands = {Close} => commands' = {Close}

Next == SeeClosed \/ SeeOpen

Spec == Init /\ [][Next]_vars
=============================================================================
