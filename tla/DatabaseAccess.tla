------------------------------ MODULE DatabaseAccess ------------------------------
(***************************************************************************)
(* write_read.cpp: the calls with which the threads of the window          *)
(* controller read the newest value of a table and add a row to it.  Every *)
(* call opens a session of its own with the MySQL server and selects the   *)
(* database; a read is then two queries, with the other callers in         *)
(* between.  A call whose mysql_select_db fails, and a read one of whose   *)
(* queries fails, leaves without closing its session.                      *)
(*                                                                         *)
(* One table is modelled, its rows numbered by id.  The server admits      *)
(* Limit sessions, and closes one that nobody uses after a time.           *)
(***************************************************************************)
EXTENDS Naturals, Sequences, SequencesExt, FiniteSets

CONSTANTS
    Readers, Writers,   \* the threads, by what they call
    Values,             \* what is written
    Nothing,            \* what a failed read returns; its callers take it for 0
    Limit,              \* the sessions the server has for them (max_connections)
    MaxRows,            \* bound on the rows
    MaxFailures         \* bound on the failures

Callers == Readers \cup Writers

ASSUME CallersAssumption == Readers \cap Writers = {} /\ IsFiniteSet(Callers)
ASSUME ValuesAssumption == Values # {} /\ Nothing \notin Values
ASSUME BoundsAssumption ==
    Limit \in Nat \ {0} /\ MaxRows \in Nat \ {0} /\ MaxFailures \in Nat

VARIABLES
    rows,       \* the table
    stamped,    \* does it have a row of the current second?
    sessions,   \* the sessions open at the server
    pc,         \* the statement each caller is about to execute
    maxId,      \* max_id of each reader
    result,     \* what its last call has returned
    failures    \* how often a connect, a mysql_select_db or a query has failed

vars == <<rows, stamped, sessions, pc, maxId, result, failures>>

Init ==
    /\ \E v \in Values : rows = <<v>>
    /\ stamped = FALSE
    /\ sessions = 0
    /\ pc = [c \in Callers |-> "idle"]
    /\ maxId = [c \in Readers |-> 0]
    /\ result = [c \in Readers |-> Nothing]
    /\ failures = 0

Goes(c, to) == pc' = [pc EXCEPT ![c] = to]

Failure == failures < MaxFailures /\ failures' = failures + 1

-----------------------------------------------------------------------------
\* Every call

Call(c) ==
    /\ pc[c] = "idle" /\ Goes(c, "connect")
    /\ result' = IF c \in Readers THEN [result EXCEPT ![c] = Nothing] ELSE result
    /\ UNCHANGED <<rows, stamped, sessions, maxId, failures>>

\* Fault for ReadsRecover: the handle is not initialised again, so that the error
\* of an earlier call is taken for one of this call.
ConnectStained(c) ==
    /\ pc[c] = "connect"
    /\ \/ /\ sessions < Limit /\ failures = 0
          /\ sessions' = sessions + 1 /\ Goes(c, "mysql_select_db")
          /\ UNCHANGED failures
       \/ /\ UNCHANGED sessions /\ Goes(c, "idle")
          /\ Failure \/ ((sessions >= Limit \/ failures > 0) /\ UNCHANGED failures)
    /\ UNCHANGED <<rows, stamped, maxId, result>>

\* Fault for TypeOK: connects without regard to the limit.
ConnectAnyway(c) ==
    /\ pc[c] = "connect"
    /\ sessions' = sessions + 1 /\ Goes(c, "mysql_select_db")
    /\ UNCHANGED <<rows, stamped, maxId, result, failures>>

(* connect.  When the server admits no more sessions, or the connection     *)
(* fails for another reason, the callers go on, but there is no session to  *)
(* leave: mysql_select_db fails too, and the call ends.                     *)
Connect(c) ==
    /\ pc[c] = "connect"
    /\ \/ /\ sessions < Limit
          /\ sessions' = sessions + 1 /\ Goes(c, "mysql_select_db")
          /\ UNCHANGED failures
       \/ /\ UNCHANGED sessions /\ Goes(c, "idle")
          /\ Failure \/ (sessions >= Limit /\ UNCHANGED failures)
    /\ UNCHANGED <<rows, stamped, maxId, result>>

FirstStatement(c) == IF c \in Readers THEN "SELECT MAX(id)" ELSE "INSERT"

(* mysql_select_db with a session.  When it fails the call ends at once, in *)
(* write_in_db as in the reads, and the session is left.                    *)
SelectDb(c) ==
    /\ pc[c] = "mysql_select_db"
    /\ \/ Goes(c, FirstStatement(c)) /\ UNCHANGED failures
       \/ Goes(c, "idle") /\ Failure
    /\ UNCHANGED <<rows, stamped, sessions, maxId, result>>

Close(c) ==
    /\ pc[c] = "mysql_close" /\ Goes(c, "idle")
    /\ sessions' = sessions - 1
    /\ UNCHANGED <<rows, stamped, maxId, result, failures>>

-----------------------------------------------------------------------------
\* get_latest_value_bool and get_latest_value_int

SelectMaxId(c) ==
    /\ pc[c] = "SELECT MAX(id)"
    /\ maxId' = [maxId EXCEPT ![c] = Len(rows)]
    /\ Goes(c, "SELECT Wert")
    /\ UNCHANGED <<rows, stamped, sessions, result, failures>>

\* Fault for KeepsPromise: the value of the row before.
SelectValueBefore(c) ==
    /\ pc[c] = "SELECT Wert"
    /\ result' = [result EXCEPT ![c] = rows[IF maxId[c] > 1 THEN maxId[c] - 1 ELSE 1]]
    /\ Goes(c, "mysql_close")
    /\ UNCHANGED <<rows, stamped, sessions, maxId, failures>>

SelectValue(c) ==
    /\ pc[c] = "SELECT Wert"
    /\ result' = [result EXCEPT ![c] = rows[maxId[c]]]
    /\ Goes(c, "mysql_close")
    /\ UNCHANGED <<rows, stamped, sessions, maxId, failures>>

(* An error of either query ends the call at once; the session is left. *)
SelectFails(c) ==
    /\ pc[c] \in {"SELECT MAX(id)", "SELECT Wert"}
    /\ Failure /\ Goes(c, "idle")
    /\ UNCHANGED <<rows, stamped, sessions, maxId, result>>

Read(c) == SelectMaxId(c) \/ SelectValue(c) \/ SelectFails(c)

-----------------------------------------------------------------------------
\* write_in_db

\* Fault for LeaksExplained: an error ends the call at once here as well.
InsertOrLeave(c) ==
    /\ pc[c] = "INSERT"
    /\ \/ /\ ~stamped /\ Len(rows) < MaxRows /\ Goes(c, "mysql_close")
          /\ \E v \in Values : rows' = Append(rows, v)
          /\ stamped' = TRUE
       \/ UNCHANGED <<rows, stamped>> /\ Goes(c, "idle")
    /\ UNCHANGED <<sessions, maxId, result, failures>>

(* The time stamp is unique: a second row of this second is refused.  That *)
(* or any other error is reported only after the session is closed.        *)
Insert(c) ==
    /\ pc[c] = "INSERT" /\ Goes(c, "mysql_close")
    /\ \/ /\ ~stamped /\ Len(rows) < MaxRows
          /\ \E v \in Values : rows' = Append(rows, v)
          /\ stamped' = TRUE
       \/ UNCHANGED <<rows, stamped>>
    /\ UNCHANGED <<sessions, maxId, result, failures>>

-----------------------------------------------------------------------------
\* The server

(* The clock reaches the next second. *)
Tick ==
    /\ stamped /\ stamped' = FALSE
    /\ UNCHANGED <<rows, sessions, pc, maxId, result, failures>>

Busy == {c \in Callers : pc[c] \notin {"idle", "connect"}}

(* wait_timeout: the server closes a session that no call uses any more. *)
Expire ==
    /\ sessions > Cardinality(Busy)
    /\ sessions' = sessions - 1
    /\ UNCHANGED <<rows, stamped, pc, maxId, result, failures>>

-----------------------------------------------------------------------------
Step(c) == Call(c) \/ Connect(c) \/ SelectDb(c) \/ Read(c) \/ Insert(c) \/ Close(c)

Next == (\E c \in Callers : Step(c)) \/ Tick \/ Expire

(* The threads call again and again; the server gets round to its sessions. *)
Fairness == (\A c \in Callers : WF_vars(Step(c))) /\ WF_vars(Expire)

Spec == Init /\ [][Next]_vars /\ Fairness

-----------------------------------------------------------------------------
\* Properties

Statements == {"idle", "connect", "mysql_select_db", "SELECT MAX(id)", "SELECT Wert",
               "INSERT", "mysql_close"}

(* Every variable keeps its type, and the server its limit. *)
TypeOK ==
    /\ rows \in Seq(Values) /\ Len(rows) \in 1..MaxRows
    /\ stamped \in BOOLEAN
    /\ sessions \in 0..Limit
    /\ pc \in [Callers -> Statements]
    /\ maxId \in [Readers -> 0..MaxRows]
    /\ result \in [Readers -> Values \cup {Nothing}]
    /\ failures \in 0..MaxFailures

(* A session is in use, or it is one that a failed mysql_select_db or a    *)
(* failed query has left behind: each failure leaves one session at most,  *)
(* and refused INSERTs, two callers at once and calls at the limit leave   *)
(* none.  And no call works on a session that the server has closed.       *)
LeaksExplained ==
    Cardinality(Busy) <= sessions /\ sessions <= Cardinality(Busy) + failures

(* A read of two queries among writers is one look at the newest value, or *)
(* nothing, and it returns.                                                *)
Latest == INSTANCE LatestValue WITH
    latest <- Last(rows),
    call <- [c \in Readers |->
                CASE pc[c] = "idle" -> "none"
                  [] pc[c] \in {"connect", "mysql_select_db", "SELECT MAX(id)"} -> "asked"
                  [] pc[c] = "SELECT Wert" -> rows[maxId[c]]
                  [] OTHER -> "none"],
    given <- result
KeepsPromise == Latest!Spec

(* Statements that fail take the server's sessions until every call fails; *)
(* when they stop failing, every reader gets values again.                 *)
ReadsRecover ==
    \A c \in Readers : []<>(pc[c] = "mysql_close" /\ result[c] \in Values)
====================================================================================
