-------------------------------- MODULE Webserver --------------------------------
(***************************************************************************)
(* The writing side of Webserver.py: the buttons of the homepage and the   *)
(* limit form, each a list of INSERTs on the one database connection of    *)
(* the program, closed by a commit.                                        *)
(*                                                                         *)
(* A table keeps all its rows and only the newest counts, so a table is    *)
(* its newest value.  The time stamp of a row has a resolution of one      *)
(* second and is unique (database_tables.sql): a second row in the same    *)
(* second is refused, the exception ends the request, and nothing rolls    *)
(* back what it has inserted so far.  Flask serves one request at a time.  *)
(* The connection is opened once, when the program starts: when the        *)
(* database ends it, requests fail until the program is started again.     *)
(***************************************************************************)
EXTENDS Naturals, Sequences, SequencesExt

CONSTANTS
    Forms,      \* the forms that are submitted, as numbers from 1
    Defaults,   \* the form with the values of reset()
    MayMiss,    \* the fields of a form, by position, that may be left empty
    Spaced      \* do requests start in a second without rows?

ASSUME FormsAssumption == Forms \subseteq Nat \ {0} /\ Defaults \in Forms
ASSUME MayMissAssumption == MayMiss \subseteq 1..8
ASSUME SpacedAssumption == Spaced \in BOOLEAN

VARIABLES
    handler,    \* the function that serves the current or latest request
    program,    \* the statements the current request has still to execute
    view,       \* the tables as the connection sees them
    committed,  \* the tables as everyone else sees them
    stamped,    \* the tables with a row of the current second
    connected   \* is the connection alive?

vars == <<handler, program, view, committed, stamped, connected>>

(* The tables of the form, in the order of submit(). *)
LimitTables ==
    <<"Temp_MIN", "Temp_MAX", "Humidity_MIN", "Humidity_MAX", "AirQuality_MAX",
      "Wind_MAX", "Volume_MAX", "Priority">>

Flags == {"AutoModus", "ManOpen", "ManClose", "LimitChange"}
Tables == Flags \cup Range(LimitTables)

Empty == 0

Insert(table, value) == [table |-> table, value |-> value]
Commit == Insert("", 0)

-----------------------------------------------------------------------------
(* The initial rows of the schema. *)
Init ==
    /\ handler = "Main" /\ program = <<>>
    /\ view = [t \in Tables |->
                  CASE t = "AutoModus" -> 1
                    [] t \in Flags \ {"AutoModus"} -> 0
                    [] OTHER -> Defaults]
    /\ committed = view
    /\ stamped = {} /\ connected = TRUE

(* The clock reaches the next second. *)
Tick ==
    /\ stamped' = {}
    /\ UNCHANGED <<handler, program, view, committed, connected>>

(* A request for the function f begins; p is the list of what it executes.  *)
(* Main(), which ends the requests of the homepage, begins with a commit of *)
(* its own.                                                                 *)
Begin(f, p) ==
    /\ program = <<>>
    /\ Spaced => stamped = {}
    /\ handler' = f
    /\ program' = p
    /\ UNCHANGED <<view, committed, stamped, connected>>

Main == Begin("Main", <<Commit>>)

\* Fault for AutoMeansNoButton: Open is not reset.
AutoForgetful ==
    Begin("auto", <<Insert("AutoModus", 1), Insert("ManClose", 0), Commit, Commit>>)

AutoButton ==
    Begin("auto", <<Insert("AutoModus", 1), Insert("ManOpen", 0),
                    Insert("ManClose", 0), Commit, Commit>>)

ManuButton == Begin("manu", <<Insert("AutoModus", 0), Commit, Commit>>)

\* Fault for ButtonsExclusive: Open does not release Close.
OpenButtonAlone ==
    Begin("open",
          IF view["AutoModus"] = 0
          THEN <<Insert("ManOpen", 1), Commit, Commit>>
          ELSE <<Commit>>)

(* Open and Close look at the mode first. *)
OpenButton ==
    Begin("open",
          IF view["AutoModus"] = 0
          THEN <<Insert("ManOpen", 1), Insert("ManClose", 0), Commit, Commit>>
          ELSE <<Commit>>)

CloseButton ==
    Begin("close",
          IF view["AutoModus"] = 0
          THEN <<Insert("ManOpen", 0), Insert("ManClose", 1), Commit, Commit>>
          ELSE <<Commit>>)

\* Fault for CompleteFormHeals: a commit half way.
SubmitInHalves(f, missing) ==
    Begin("submit",
          [i \in 1..4 |-> Insert(LimitTables[i], f)] \o <<Commit>>
          \o [i \in 1..4 |-> Insert(LimitTables[i + 4], f)] \o <<Commit>>)

(* submit(), with the field missing (0: none) left empty; reset() is the   *)
(* complete form Defaults.                                                 *)
Submit(f, missing) ==
    Begin("submit",
          [i \in 1..Len(LimitTables) |->
              Insert(LimitTables[i], IF i = missing THEN Empty ELSE f)]
          \o <<Insert("LimitChange", 1), Commit>>)

\* Fault for TypeOK: an empty field is stored.
ExecuteInsertBlind ==
    /\ connected /\ program # <<>> /\ Head(program).table # ""
    /\ IF Head(program).table \in stamped
       THEN program' = <<>> /\ UNCHANGED <<view, stamped>>
       ELSE /\ view' = [view EXCEPT ![Head(program).table] = Head(program).value]
            /\ stamped' = stamped \cup {Head(program).table}
            /\ program' = Tail(program)
    /\ UNCHANGED <<handler, committed, connected>>

(* One INSERT.  It fails where the table has a row of this second already, *)
(* and where the form gave no number: then the request ends.               *)
ExecuteInsert ==
    /\ connected /\ program # <<>> /\ Head(program).table # ""
    /\ LET s == Head(program)
           refused == \/ s.table \in stamped
                      \/ s.table \in Range(LimitTables) /\ s.value = Empty
       IN  \/ /\ ~refused
              /\ view' = [view EXCEPT ![s.table] = s.value]
              /\ stamped' = stamped \cup {s.table}
              /\ program' = Tail(program)
           \/ /\ refused
              /\ program' = <<>>
              /\ UNCHANGED <<view, stamped>>
    /\ UNCHANGED <<handler, committed, connected>>

ExecuteCommit ==
    /\ connected /\ program # <<>> /\ Head(program).table = ""
    /\ committed' = view
    /\ program' = Tail(program)
    /\ UNCHANGED <<handler, view, stamped, connected>>

(* Without a connection the first statement of a request ends it. *)
ExecuteNothing ==
    /\ ~connected /\ program # <<>>
    /\ program' = <<>>
    /\ UNCHANGED <<handler, view, committed, stamped, connected>>

(* MySQL ends the connection, idle or not, and undoes what it has not      *)
(* committed.                                                              *)
Disconnect ==
    /\ connected /\ connected' = FALSE
    /\ view' = committed
    /\ UNCHANGED <<handler, program, committed, stamped>>

(* The program ends, also in the middle of a request, and starts again,    *)
(* which takes longer than a second.                                       *)
Restart ==
    /\ connected' = TRUE /\ program' = <<>>
    /\ view' = committed /\ stamped' = {}
    /\ UNCHANGED <<handler, committed>>

Next ==
    \/ Tick \/ Main \/ AutoButton \/ ManuButton \/ OpenButton \/ CloseButton
    \/ \E f \in Forms, missing \in MayMiss \cup {0} : Submit(f, missing)
    \/ ExecuteInsert \/ ExecuteCommit
    \/ ExecuteNothing \/ Disconnect \/ Restart

Spec == Init /\ [][Next]_vars

-----------------------------------------------------------------------------
\* Properties

(* Every variable keeps its type; an empty field never reaches a table.    *)
TypeOK ==
    /\ handler \in {"Main", "auto", "manu", "open", "close", "submit"}
    /\ program \in Seq([table: Tables \cup {""}, value: {0, 1} \cup Forms])
    /\ \A v \in {view, committed} :
          /\ DOMAIN v = Tables
          /\ \A t \in Flags : v[t] \in {0, 1}
          /\ \A t \in Range(LimitTables) : v[t] \in Forms
    /\ stamped \subseteq Tables /\ connected \in BOOLEAN

(* No commit publishes both buttons pressed: Open resets Close and Close   *)
(* resets Open (database_tables.sql).  It holds for requests in different  *)
(* seconds only.  (The controller asks for the two tables one after the    *)
(* other, so a commit in between can still show it both.)                  *)
ButtonsExclusive == ~(committed["ManOpen"] = 1 /\ committed["ManClose"] = 1)

(* No commit publishes a button pressed in automatic mode: choosing it     *)
(* resets both (database_tables.sql).  Again for requests in different     *)
(* seconds only: Automatic within the second of an Open puts the mode in,  *)
(* is refused the reset of the button, and the next request commits that.  *)
AutoMeansNoButton ==
    committed["AutoModus"] = 1 => committed["ManOpen"] = 0 /\ committed["ManClose"] = 0

(* A form that breaks off half way leaves a mixture of two forms in the    *)
(* tables, which a later commit publishes.  But whatever others have left  *)
(* behind, a form that is served to its own commit puts an end to it: the  *)
(* tables then hold the limits of one form.                                *)
CompleteFormHeals ==
    [][handler = "submit" /\ committed' # committed
         => \A t, u \in Range(LimitTables) : committed'[t] = committed'[u]]_vars
================================================================================
