------------------------------- MODULE NodePromise -------------------------------
(***************************************************************************)
(* What the node inside the window promises its clients: it serves one     *)
(* datagram at a time, in the order they come in, and gives each the whole *)
(* answer its command calls for, and nothing else, before the next.        *)
(***************************************************************************)
EXTENDS Sequences, SequencesExt

CONSTANTS
    Requests,       \* the commands of the clients
    AnswerTo(_),    \* the sequence of messages that answers a command
    Nobody          \* no request

VARIABLES
    inbox,      \* datagrams not yet looked at
    serving,    \* the command being served, or Nobody
    answer      \* what has been sent in answer to the latest command

vars == <<inbox, serving, answer>>

Init == inbox = <<>> /\ serving = Nobody /\ answer = <<>>

Arrive(c) == inbox' = Append(inbox, c) /\ UNCHANGED <<serving, answer>>

Accept ==
    /\ serving = Nobody /\ inbox # <<>>
    /\ serving' = Head(inbox)
    /\ inbox' = Tail(inbox)
    /\ answer' = <<>>

(* The next message of the answer; the last one ends the service. *)
Say ==
    /\ serving # Nobody
    /\ \E m \in Range(AnswerTo(serving)) : answer' = Append(answer, m)
    /\ IsPrefix(answer', AnswerTo(serving))
    /\ serving' = IF answer' = AnswerTo(serving) THEN Nobody ELSE serving
    /\ UNCHANGED inbox

Next == (\E c \in Requests : Arrive(c)) \/ Accept \/ Say

Fairness == WF_vars(Accept) /\ WF_vars(Say)

Spec == Init /\ [][Next]_vars /\ Fairness
=============================================================================
