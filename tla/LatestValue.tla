------------------------------- MODULE LatestValue -------------------------------
(***************************************************************************)
(* What the readers of the database are promised: a call gives the value   *)
(* that was the newest of the table at one moment between the call and its *)
(* return, or nothing; and every call returns.                             *)
(***************************************************************************)
EXTENDS Naturals

CONSTANTS Readers, Values, Nothing

VARIABLES
    latest,     \* the newest value of the table
    call,       \* what the call of each reader has reached
    given       \* what the last call of each reader has returned

vars == <<latest, call, given>>

Init ==
    /\ latest \in Values
    /\ call = [c \in Readers |-> "none"]
    /\ given = [c \in Readers |-> Nothing]

Put(v) == latest' = v /\ UNCHANGED <<call, given>>

Ask(c) ==
    /\ call[c] = "none"
    /\ call' = [call EXCEPT ![c] = "asked"]
    /\ given' = [given EXCEPT ![c] = Nothing]
    /\ UNCHANGED latest

(* The moment at which the value is the newest. *)
See(c) ==
    /\ call[c] = "asked"
    /\ call' = [call EXCEPT ![c] = latest]
    /\ UNCHANGED <<latest, given>>

Return(c) ==
    /\ call[c] \in Values
    /\ given' = [given EXCEPT ![c] = call[c]]
    /\ call' = [call EXCEPT ![c] = "none"]
    /\ UNCHANGED latest

Fail(c) ==
    /\ call[c] # "none"
    /\ call' = [call EXCEPT ![c] = "none"]
    /\ UNCHANGED <<latest, given>>

Serve(c) == See(c) \/ Return(c) \/ Fail(c)

Next == (\E v \in Values : Put(v)) \/ \E c \in Readers : Ask(c) \/ Serve(c)

Spec == Init /\ [][Next]_vars /\ \A c \in Readers : WF_vars(Serve(c))
==================================================================================
