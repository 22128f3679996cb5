-------------------------- MODULE DatabaseAccessProofs --------------------------
(***************************************************************************)
(* Proofs about DatabaseAccess, for any number of readers and writers, and *)
(* for every limit of the server.                                          *)
(***************************************************************************)
EXTENDS DatabaseAccess, FiniteSetTheorems, TLAPS

-----------------------------------------------------------------------------
\* The inductive invariant

(* A reader that has found the newest row reads a row there is, although   *)
(* others have added rows since.                                           *)
RowsFound ==
    \A c \in Readers : pc[c] = "SELECT Wert" => maxId[c] \in 1..Len(rows)

(* Readers execute queries and writers INSERTs. *)
OwnStatements ==
    /\ \A c \in Readers : pc[c] # "INSERT"
    /\ \A c \in Writers : pc[c] \notin {"SELECT MAX(id)", "SELECT Wert"}

IInv == TypeOK /\ RowsFound /\ OwnStatements /\ LeaksExplained

-----------------------------------------------------------------------------
\* Sessions in use

LEMMA BusyFinite == IsFiniteSet(Busy) /\ Cardinality(Busy) \in Nat
<1>1. Busy \in SUBSET Callers
  BY DEF Busy
<1>2. IsFiniteSet(Busy)
  BY <1>1, CallersAssumption, FS_Subset
<1> QED
  BY <1>2, FS_CardinalityType

(* A caller that goes on to another statement with its session, or without *)
(* one, changes nothing; one that connects or leaves changes the number by *)
(* one.                                                                    *)
LEMMA BusyKept ==
    ASSUME TypeOK, NEW c \in Callers, NEW to \in Statements, Goes(c, to),
           c \in Busy <=> to \notin {"idle", "connect"}
    PROVE  Busy' = Busy
<1>1. /\ DOMAIN pc = Callers /\ pc' = [pc EXCEPT ![c] = to]
  BY DEF TypeOK, Goes
<1>2. \A d \in Callers : pc'[d] = IF d = c THEN to ELSE pc[d]
  BY <1>1
<1> QED
  BY <1>2 DEF Busy

LEMMA BusyMore ==
    ASSUME TypeOK, NEW c \in Callers \ Busy, NEW to, Goes(c, to),
           to \notin {"idle", "connect"}
    PROVE  Cardinality(Busy') = Cardinality(Busy) + 1
<1>1. /\ DOMAIN pc = Callers /\ pc' = [pc EXCEPT ![c] = to]
  BY DEF TypeOK, Goes
<1>2. \A d \in Callers : pc'[d] = IF d = c THEN to ELSE pc[d]
  BY <1>1
<1>3. Busy' = Busy \cup {c}
  BY <1>2 DEF Busy
<1> QED
  BY <1>3, BusyFinite, FS_AddElement

LEMMA BusyLess ==
    ASSUME TypeOK, NEW c \in Busy, NEW to \in {"idle", "connect"}, Goes(c, to)
    PROVE  Cardinality(Busy') = Cardinality(Busy) - 1
<1>1. /\ DOMAIN pc = Callers /\ pc' = [pc EXCEPT ![c] = to]
  BY DEF TypeOK, Goes
<1>2. \A d \in Callers : pc'[d] = IF d = c THEN to ELSE pc[d]
  BY <1>1
<1>3. Busy' = Busy \ {c}
  BY <1>2 DEF Busy
<1> QED
  BY <1>3, BusyFinite, FS_RemoveElement

-----------------------------------------------------------------------------
\* The initial state and the steps

LEMMA FirstRow == \A v : <<v>>[1] = v /\ Len(<<v>>) = 1 /\ \A S : v \in S => <<v>> \in Seq(S)
  OBVIOUS

LEMMA InitIInv == ASSUME Init PROVE IInv
<1>1. PICK v \in Values : rows = <<v>>
  BY DEF Init
<1>2. rows \in Seq(Values) /\ Len(rows) = 1
  BY <1>1, FirstRow
<1>3. 1 \in 1..MaxRows /\ 0 \in 0..MaxRows /\ 0 \in 0..Limit /\ 0 \in 0..MaxFailures
  BY BoundsAssumption
<1>4. TypeOK
  BY <1>2, <1>3, Zenon DEF Init, TypeOK, Statements
<1>5. \A c \in Callers : pc[c] = "idle"
  BY DEF Init
<1>6. RowsFound /\ OwnStatements
  BY <1>5 DEF RowsFound, OwnStatements, Callers
<1>7. Busy = {}
  BY <1>5 DEF Busy
<1>8. LeaksExplained
  BY <1>7, FS_EmptySet DEF Init, LeaksExplained
<1> QED
  BY <1>4, <1>6, <1>8 DEF IInv

(* What the steps of one caller have in common: they move it to another of *)
(* its statements.                                                         *)
LEMMA MovesOwn ==
    ASSUME IInv, NEW c \in Callers, NEW to \in Statements, Goes(c, to),
           to = "INSERT" => c \notin Readers,
           to \in {"SELECT MAX(id)", "SELECT Wert"} => c \notin Writers
    PROVE  pc' \in [Callers -> Statements] /\ OwnStatements'
<1>1. pc \in [Callers -> Statements] /\ pc' = [pc EXCEPT ![c] = to] /\ OwnStatements
  BY DEF IInv, TypeOK, Goes
<1>2. pc' \in [Callers -> Statements]
  BY <1>1
<1>3. \A d \in Callers : pc'[d] = IF d = c THEN to ELSE pc[d]
  BY <1>1
<1>4. OwnStatements'
  BY <1>1, <1>3 DEF OwnStatements, Callers
<1> QED
  BY <1>2, <1>4

(* Rows found stay there while the table grows. *)
LEMMA FoundKept ==
    ASSUME IInv, NEW c \in Callers, NEW to, to # "SELECT Wert", Goes(c, to),
           maxId' = maxId, 1..Len(rows) \subseteq 1..Len(rows')
    PROVE  RowsFound'
<1>1. \A d \in Callers : pc'[d] = IF d = c THEN to ELSE pc[d]
  BY DEF IInv, TypeOK, Goes
<1> QED
  BY <1>1 DEF IInv, RowsFound, Callers

LEMMA CallIInv == ASSUME IInv, NEW c \in Callers, Call(c) PROVE IInv'
<1>1. /\ Goes(c, "connect") /\ "connect" \in Statements /\ c \notin Busy
      /\ rows' = rows /\ sessions' = sessions /\ maxId' = maxId /\ failures' = failures
      /\ stamped' = stamped
  BY DEF Call, Statements, Busy
<1>2. pc' \in [Callers -> Statements] /\ OwnStatements' /\ RowsFound'
  BY <1>1, MovesOwn, FoundKept
<1>3. result' \in [Readers -> Values \cup {Nothing}]
  BY DEF IInv, TypeOK, Call
<1>4. TypeOK'
  BY <1>1, <1>2, <1>3 DEF IInv, TypeOK
<1>5. Busy' = Busy
  BY <1>1, BusyKept DEF IInv
<1> QED
  BY <1>1, <1>2, <1>4, <1>5 DEF IInv, LeaksExplained

(* The failures counted stay numbers within their bound. *)
LEMMA FailureCounted ==
    ASSUME TypeOK, Failure
    PROVE  failures' \in 0..MaxFailures /\ failures' = failures + 1
<1>1. failures \in 0..MaxFailures /\ failures < MaxFailures /\ failures' = failures + 1
  BY DEF TypeOK, Failure
<1> QED
  BY <1>1, BoundsAssumption

LEMMA ConnectIInv == ASSUME IInv, NEW c \in Callers, Connect(c) PROVE IInv'
<1>1. /\ rows' = rows /\ maxId' = maxId
      /\ stamped' = stamped /\ result' = result /\ c \notin Busy
  BY DEF Connect, Busy
<1>2. CASE /\ sessions < Limit /\ sessions' = sessions + 1
           /\ Goes(c, "mysql_select_db") /\ failures' = failures
  <2>1. pc' \in [Callers -> Statements] /\ OwnStatements' /\ RowsFound'
    BY <1>1, <1>2, MovesOwn, FoundKept DEF Statements
  <2>2. sessions' \in 0..Limit
    BY <1>2, BoundsAssumption DEF IInv, TypeOK
  <2>3. TypeOK'
    BY <1>1, <1>2, <2>1, <2>2 DEF IInv, TypeOK
  <2>4. Cardinality(Busy') = Cardinality(Busy) + 1
    BY <1>1, <1>2, BusyMore DEF IInv
  <2>5. sessions \in Nat /\ failures \in Nat /\ LeaksExplained
    BY BoundsAssumption DEF IInv, TypeOK
  <2>6. LeaksExplained'
    BY <1>2, <2>4, <2>5, BusyFinite DEF LeaksExplained
  <2> QED
    BY <2>1, <2>3, <2>6 DEF IInv
<1>3. CASE /\ Goes(c, "idle") /\ sessions' = sessions
           /\ Failure \/ failures' = failures
  <2>1. pc' \in [Callers -> Statements] /\ OwnStatements' /\ RowsFound'
    BY <1>1, <1>3, MovesOwn, FoundKept DEF Statements
  <2>2. failures' \in 0..MaxFailures /\ failures' \in {failures, failures + 1}
    BY <1>3, FailureCounted DEF IInv, TypeOK
  <2>3. TypeOK'
    BY <1>1, <1>3, <2>1, <2>2 DEF IInv, TypeOK
  <2>4. Busy' = Busy
    BY <1>1, <1>3, BusyKept DEF IInv, Statements
  <2>5. sessions \in Nat /\ failures \in Nat /\ LeaksExplained
    BY BoundsAssumption DEF IInv, TypeOK
  <2>6. LeaksExplained'
    BY <1>3, <2>2, <2>4, <2>5, BusyFinite DEF LeaksExplained
  <2> QED
    BY <2>1, <2>3, <2>6 DEF IInv
<1> QED
  BY <1>2, <1>3 DEF Connect

(* A failed mysql_select_db leaves a session, and counts as a failure. *)
LEMMA SelectDbIInv == ASSUME IInv, NEW c \in Callers, SelectDb(c) PROVE IInv'
<1>1. /\ rows' = rows /\ sessions' = sessions /\ maxId' = maxId
      /\ stamped' = stamped /\ result' = result /\ c \in Busy
  BY DEF SelectDb, Busy
<1>2. CASE Goes(c, FirstStatement(c)) /\ failures' = failures
  <2> DEFINE first == FirstStatement(c)
  <2>1. /\ first \in Statements /\ first \notin {"idle", "connect", "SELECT Wert"}
        /\ first = "INSERT" => c \notin Readers
        /\ first = "SELECT MAX(id)" => c \notin Writers
    BY CallersAssumption DEF Statements, FirstStatement
  <2>2. Goes(c, first)
    BY <1>2
  <2> HIDE DEF first
  <2>3. pc' \in [Callers -> Statements] /\ OwnStatements'
    BY <2>1, <2>2, MovesOwn
  <2>4. RowsFound'
    BY <1>1, <2>1, <2>2, FoundKept
  <2>5. TypeOK'
    BY <1>1, <1>2, <2>3 DEF IInv, TypeOK
  <2>6. Busy' = Busy
    BY <1>1, <2>1, <2>2, BusyKept DEF IInv
  <2> QED
    BY <1>1, <1>2, <2>3, <2>4, <2>5, <2>6 DEF IInv, LeaksExplained
<1>3. CASE Goes(c, "idle") /\ Failure
  <2>1. pc' \in [Callers -> Statements] /\ OwnStatements' /\ RowsFound'
    BY <1>1, <1>3, MovesOwn, FoundKept DEF Statements
  <2>2. failures' \in 0..MaxFailures /\ failures' = failures + 1
    BY <1>3, FailureCounted DEF IInv
  <2>3. TypeOK'
    BY <1>1, <2>1, <2>2 DEF IInv, TypeOK
  <2>4. Cardinality(Busy') = Cardinality(Busy) - 1
    BY <1>1, <1>3, BusyLess DEF IInv
  <2>5. sessions \in Nat /\ failures \in Nat /\ LeaksExplained
    BY BoundsAssumption DEF IInv, TypeOK
  <2>6. LeaksExplained'
    BY <1>1, <2>2, <2>4, <2>5, BusyFinite DEF LeaksExplained
  <2> QED
    BY <2>1, <2>3, <2>6 DEF IInv
<1> QED
  BY <1>2, <1>3 DEF SelectDb

LEMMA CloseIInv == ASSUME IInv, NEW c \in Callers, Close(c) PROVE IInv'
<1>1. /\ rows' = rows /\ maxId' = maxId /\ failures' = failures
      /\ stamped' = stamped /\ result' = result /\ c \in Busy
      /\ Goes(c, "idle") /\ sessions' = sessions - 1
  BY DEF Close, Busy
<1>2. pc' \in [Callers -> Statements] /\ OwnStatements' /\ RowsFound'
  BY <1>1, MovesOwn, FoundKept DEF Statements
<1>3. Cardinality(Busy') = Cardinality(Busy) - 1
  BY <1>1, BusyLess DEF IInv
<1>4. Cardinality(Busy) # 0
  BY <1>1, BusyFinite, FS_EmptySet
<1>5. sessions \in 0..Limit /\ failures \in Nat /\ LeaksExplained
  BY BoundsAssumption DEF IInv, TypeOK
<1>6. sessions' \in 0..Limit
  BY <1>1, <1>4, <1>5, BusyFinite, BoundsAssumption DEF LeaksExplained
<1>7. TypeOK'
  BY <1>1, <1>2, <1>6 DEF IInv, TypeOK
<1>8. LeaksExplained'
  BY <1>1, <1>3, <1>5, BusyFinite, BoundsAssumption DEF LeaksExplained
<1> QED
  BY <1>2, <1>7, <1>8 DEF IInv

LEMMA SelectMaxIdIInv == ASSUME IInv, NEW c \in Callers, SelectMaxId(c) PROVE IInv'
<1>1. /\ rows' = rows /\ sessions' = sessions /\ failures' = failures
      /\ stamped' = stamped /\ result' = result /\ c \in Busy
      /\ Goes(c, "SELECT Wert") /\ maxId' = [maxId EXCEPT ![c] = Len(rows)]
  BY DEF SelectMaxId, Busy
<1>2. c \in Readers /\ c \notin Writers
  BY CallersAssumption DEF SelectMaxId, IInv, OwnStatements, Callers
<1>3. pc' \in [Callers -> Statements] /\ OwnStatements'
  BY <1>1, <1>2, MovesOwn DEF Statements
<1>4. Len(rows) \in 1..MaxRows /\ maxId \in [Readers -> 0..MaxRows]
  BY DEF IInv, TypeOK
<1>5. Len(rows) \in 0..MaxRows /\ Len(rows) \in 1..Len(rows)
  BY <1>4, BoundsAssumption
<1>6. maxId' \in [Readers -> 0..MaxRows]
  BY <1>1, <1>4, <1>5
<1>7. TypeOK'
  BY <1>1, <1>3, <1>6 DEF IInv, TypeOK
<1>8. RowsFound'
  <2>1. /\ \A d \in Readers : pc'[d] = IF d = c THEN "SELECT Wert" ELSE pc[d]
        /\ \A d \in Readers : maxId'[d] = IF d = c THEN Len(rows) ELSE maxId[d]
    BY <1>1, <1>4 DEF IInv, TypeOK, Goes, Callers
  <2> QED
    BY <1>1, <1>5, <2>1 DEF IInv, RowsFound
<1>9. Busy' = Busy
  BY <1>1, BusyKept DEF IInv, Statements
<1> QED
  BY <1>1, <1>3, <1>7, <1>8, <1>9 DEF IInv, LeaksExplained

LEMMA SelectValueIInv == ASSUME IInv, NEW c \in Callers, SelectValue(c) PROVE IInv'
<1>1. /\ rows' = rows /\ sessions' = sessions /\ failures' = failures
      /\ stamped' = stamped /\ maxId' = maxId /\ c \in Busy
      /\ Goes(c, "mysql_close") /\ result' = [result EXCEPT ![c] = rows[maxId[c]]]
  BY DEF SelectValue, Busy
<1>2. c \in Readers
  BY DEF SelectValue, IInv, OwnStatements, Callers
<1>3. pc' \in [Callers -> Statements] /\ OwnStatements' /\ RowsFound'
  BY <1>1, MovesOwn, FoundKept DEF Statements
<1>4. rows[maxId[c]] \in Values
  <2>1. rows \in Seq(Values) /\ maxId[c] \in 1..Len(rows)
    BY <1>2 DEF SelectValue, IInv, TypeOK, RowsFound
  <2> QED
    BY <2>1
<1>5. TypeOK'
  BY <1>1, <1>3, <1>4 DEF IInv, TypeOK
<1>6. Busy' = Busy
  BY <1>1, BusyKept DEF IInv, Statements
<1> QED
  BY <1>1, <1>3, <1>5, <1>6 DEF IInv, LeaksExplained

LEMMA SelectFailsIInv == ASSUME IInv, NEW c \in Callers, SelectFails(c) PROVE IInv'
<1>1. /\ rows' = rows /\ sessions' = sessions /\ maxId' = maxId
      /\ stamped' = stamped /\ result' = result /\ c \in Busy
      /\ Goes(c, "idle") /\ Failure
  BY DEF SelectFails, Busy
<1>2. pc' \in [Callers -> Statements] /\ OwnStatements' /\ RowsFound'
  BY <1>1, MovesOwn, FoundKept DEF Statements
<1>3. failures' \in 0..MaxFailures /\ failures' = failures + 1
  BY <1>1, FailureCounted DEF IInv
<1>4. TypeOK'
  BY <1>1, <1>2, <1>3 DEF IInv, TypeOK
<1>5. Cardinality(Busy') = Cardinality(Busy) - 1
  BY <1>1, BusyLess DEF IInv
<1>6. sessions \in Nat /\ failures \in Nat /\ LeaksExplained
  BY BoundsAssumption DEF IInv, TypeOK
<1>7. LeaksExplained'
  BY <1>1, <1>3, <1>5, <1>6, BusyFinite DEF LeaksExplained
<1> QED
  BY <1>2, <1>4, <1>7 DEF IInv

(* A table with one more row. *)
LEMMA RowAdded ==
    ASSUME TypeOK, NEW v \in Values, Len(rows) < MaxRows
    PROVE  /\ Append(rows, v) \in Seq(Values)
           /\ Len(Append(rows, v)) \in 1..MaxRows
           /\ 1..Len(rows) \subseteq 1..Len(Append(rows, v))
           /\ \A i \in 1..Len(rows) : Append(rows, v)[i] = rows[i]
           /\ Append(rows, v)[Len(Append(rows, v))] = v
<1>1. rows \in Seq(Values) /\ Len(rows) \in 1..MaxRows
  BY DEF TypeOK
<1>2. /\ Append(rows, v) \in Seq(Values) /\ Len(Append(rows, v)) = Len(rows) + 1
      /\ \A i \in 1..Len(rows) : Append(rows, v)[i] = rows[i]
      /\ Append(rows, v)[Len(rows) + 1] = v
  BY <1>1
<1> QED
  BY <1>1, <1>2, BoundsAssumption

LEMMA InsertIInv == ASSUME IInv, NEW c \in Callers, Insert(c) PROVE IInv'
<1>1. /\ sessions' = sessions /\ maxId' = maxId /\ failures' = failures
      /\ result' = result /\ c \in Busy /\ Goes(c, "mysql_close")
  BY DEF Insert, Busy
<1>2. /\ rows' \in Seq(Values) /\ Len(rows') \in 1..MaxRows /\ stamped' \in BOOLEAN
      /\ 1..Len(rows) \subseteq 1..Len(rows')
  BY RowAdded DEF IInv, TypeOK, Insert
<1>3. pc' \in [Callers -> Statements] /\ OwnStatements' /\ RowsFound'
  BY <1>1, <1>2, MovesOwn, FoundKept DEF Statements
<1>4. TypeOK'
  BY <1>1, <1>2, <1>3 DEF IInv, TypeOK
<1>5. Busy' = Busy
  BY <1>1, BusyKept DEF IInv, Statements
<1> QED
  BY <1>1, <1>3, <1>4, <1>5 DEF IInv, LeaksExplained

LEMMA ExpireIInv == ASSUME IInv, Expire PROVE IInv'
<1>1. /\ rows' = rows /\ maxId' = maxId /\ failures' = failures /\ pc' = pc
      /\ stamped' = stamped /\ result' = result
      /\ sessions > Cardinality(Busy) /\ sessions' = sessions - 1
  BY DEF Expire
<1>2. Busy' = Busy
  BY <1>1 DEF Busy
<1>3. sessions \in 0..Limit /\ failures \in Nat /\ LeaksExplained
  BY BoundsAssumption DEF IInv, TypeOK
<1>4. sessions' \in 0..Limit
  BY <1>1, <1>3, BusyFinite, BoundsAssumption
<1>5. TypeOK'
  BY <1>1, <1>4 DEF IInv, TypeOK
<1>6. LeaksExplained'
  BY <1>1, <1>2, <1>3, BusyFinite DEF LeaksExplained
<1> QED
  BY <1>1, <1>5, <1>6 DEF IInv, RowsFound, OwnStatements

LEMMA NextIInv == ASSUME IInv, [Next]_vars PROVE IInv'
<1>1. ASSUME NEW c \in Callers, Step(c) PROVE IInv'
  BY <1>1, CallIInv, ConnectIInv, SelectDbIInv, CloseIInv, SelectMaxIdIInv, SelectValueIInv,
     SelectFailsIInv, InsertIInv DEF Step, Read
<1>2. CASE Tick
  BY <1>2 DEF Tick, IInv, TypeOK, RowsFound, OwnStatements, LeaksExplained, Busy
<1>3. CASE UNCHANGED vars
  BY <1>3 DEF vars, IInv, TypeOK, RowsFound, OwnStatements, LeaksExplained, Busy
<1> QED
  BY <1>1, <1>2, <1>3, ExpireIInv DEF Next

(* Sessions and rows are what the callers believe, for any number of       *)
(* callers.                                                                *)
THEOREM Inductive == Spec => []IInv
<1>1. Init => IInv
  BY InitIInv
<1>2. IInv /\ [Next]_vars => IInv'
  BY NextIInv
<1> QED
  BY <1>1, <1>2, PTL DEF Spec

(* Every variable keeps its type, and the server its limit.                *)
THEOREM TypeCorrect == Spec => []TypeOK
<1>1. IInv => TypeOK
  BY DEF IInv
<1> QED
  BY <1>1, Inductive, PTL

(* Every session is in use or was left behind by a mysql_select_db or a    *)
(* query that failed, a session for a failure at most, and no call works   *)
(* without one (get_latest_value_bool, get_latest_value_int, write_in_db). *)
THEOREM LeaksAreFailures == Spec => []LeaksExplained
<1>1. IInv => LeaksExplained
  BY DEF IInv
<1> QED
  BY <1>1, Inductive, PTL

-----------------------------------------------------------------------------
\* The calls implement the promise

(* What the promise sees of a call: the mapping of Latest, by name. *)
Seen ==
    [c \in Readers |->
        CASE pc[c] = "idle" -> "none"
          [] pc[c] \in {"connect", "mysql_select_db", "SELECT MAX(id)"} -> "asked"
          [] pc[c] = "SELECT Wert" -> rows[maxId[c]]
          [] OTHER -> "none"]

SeenFits ==
    /\ \A c \in Readers :
          /\ pc[c] \in {"idle", "INSERT", "mysql_close"} => Seen[c] = "none"
          /\ pc[c] \in {"connect", "mysql_select_db", "SELECT MAX(id)"} => Seen[c] = "asked"
          /\ pc[c] = "SELECT Wert" => Seen[c] = rows[maxId[c]]
    /\ Seen = [c \in Readers |-> Seen[c]]

LEMMA SeenAt == SeenFits
<1>1. ASSUME NEW c \in Readers, pc[c] = "idle" PROVE Seen[c] = "none"
  BY <1>1, Zenon DEF Seen
<1>2. ASSUME NEW c \in Readers, pc[c] = "INSERT" \/ pc[c] = "mysql_close"
      PROVE  Seen[c] = "none"
  BY <1>2, Zenon DEF Seen
<1>3. ASSUME NEW c \in Readers,
             pc[c] = "connect" \/ pc[c] = "mysql_select_db" \/ pc[c] = "SELECT MAX(id)"
      PROVE  Seen[c] = "asked"
  BY <1>3, Zenon DEF Seen
<1>4. ASSUME NEW c \in Readers, pc[c] = "SELECT Wert" PROVE Seen[c] = rows[maxId[c]]
  BY <1>4, Zenon DEF Seen
<1>5. Seen = [c \in Readers |-> Seen[c]]
  BY Zenon DEF Seen
<1> QED
  BY <1>1, <1>2, <1>3, <1>4, <1>5 DEF SeenFits

LEMMA SeenAtNext == SeenFits'
  BY SeenAt, PTL

(* A step of one caller is seen at that caller only. *)
LEMMA SeenElsewhere ==
    ASSUME IInv, NEW c \in Callers, NEW to \in Statements, Goes(c, to),
           \A d \in Readers \ {c} :
              pc[d] = "SELECT Wert" => rows'[maxId'[d]] = rows[maxId[d]]
    PROVE  /\ c \in Readers => Seen' = [Seen EXCEPT ![c] = Seen'[c]]
           /\ c \notin Readers => Seen' = Seen
<1>1. /\ \A d \in Callers : pc[d] \in Statements
      /\ \A d \in Callers : pc'[d] = IF d = c THEN to ELSE pc[d]
  BY DEF IInv, TypeOK, Goes
<1>2. ASSUME NEW d \in Readers \ {c} PROVE Seen'[d] = Seen[d]
  <2>1. pc'[d] = pc[d] /\ pc[d] \in Statements
    BY <1>1, <1>2 DEF Callers
  <2> QED
    BY <2>1, SeenAt, SeenAtNext DEF SeenFits, Statements
<1> DEFINE f == Seen
           g == Seen'
<1>3. f = [d \in Readers |-> f[d]] /\ g = [d \in Readers |-> g[d]]
  BY SeenAt, SeenAtNext DEF SeenFits
<1>4. \A d \in Readers \ {c} : g[d] = f[d]
  BY <1>2
<1> HIDE DEF f, g
<1>5. c \in Readers => g = [f EXCEPT ![c] = g[c]]
  BY <1>3, <1>4
<1>6. c \notin Readers => g = f
  BY <1>3, <1>4
<1> QED
  BY <1>5, <1>6 DEF f, g

(* The actions of the promise in terms of this module. *)
LEMMA LatestActions ==
    /\ UNCHANGED Latest!vars <=> UNCHANGED <<Last(rows), Seen, result>>
    /\ \A v : Latest!Put(v) <=> Last(rows)' = v /\ UNCHANGED <<Seen, result>>
    /\ \A c : Latest!Ask(c) <=> /\ Seen[c] = "none"
                                /\ Seen' = [Seen EXCEPT ![c] = "asked"]
                                /\ result' = [result EXCEPT ![c] = Nothing]
                                /\ UNCHANGED Last(rows)
    /\ \A c : Latest!See(c) <=> /\ Seen[c] = "asked"
                                /\ Seen' = [Seen EXCEPT ![c] = Last(rows)]
                                /\ UNCHANGED <<Last(rows), result>>
    /\ \A c : Latest!Return(c) <=> /\ Seen[c] \in Values
                                   /\ result' = [result EXCEPT ![c] = Seen[c]]
                                   /\ Seen' = [Seen EXCEPT ![c] = "none"]
                                   /\ UNCHANGED Last(rows)
    /\ \A c : Latest!Fail(c) <=> /\ Seen[c] # "none"
                                 /\ Seen' = [Seen EXCEPT ![c] = "none"]
                                 /\ UNCHANGED <<Last(rows), result>>
  BY Zenon DEF Latest!vars, Latest!Put, Latest!Ask, Latest!See, Latest!Return, Latest!Fail,
               Seen

LEMMA NewestKept == rows' = rows => Last(rows)' = Last(rows)
  BY DEF Last

LEMMA CallPromise ==
    ASSUME IInv, NEW c \in Callers, Call(c)
    PROVE  (c \in Readers /\ Latest!Ask(c)) \/ UNCHANGED Latest!vars
<1>1. /\ rows' = rows /\ maxId' = maxId /\ Goes(c, "connect") /\ pc[c] = "idle"
      /\ result' = IF c \in Readers THEN [result EXCEPT ![c] = Nothing] ELSE result
      /\ pc'[c] = "connect"
  BY DEF Call, Goes, IInv, TypeOK
<1>2. /\ c \in Readers => Seen' = [Seen EXCEPT ![c] = Seen'[c]]
      /\ c \notin Readers => Seen' = Seen
  BY <1>1, SeenElsewhere DEF Statements
<1>3. c \in Readers => Seen[c] = "none" /\ Seen'[c] = "asked"
  BY <1>1, SeenAt, SeenAtNext DEF SeenFits
<1> QED
  BY <1>1, <1>2, <1>3, NewestKept, LatestActions

(* connect and mysql_select_db: the call goes on, or it fails. *)
LEMMA ConnectPromise ==
    ASSUME IInv, NEW c \in Callers, Connect(c) \/ SelectDb(c)
    PROVE  (c \in Readers /\ Latest!Fail(c)) \/ UNCHANGED Latest!vars
<1>1. /\ rows' = rows /\ maxId' = maxId /\ result' = result
      /\ pc[c] = "connect" \/ pc[c] = "mysql_select_db"
  BY DEF Connect, SelectDb
<1>2. PICK to \in Statements :
        /\ Goes(c, to)
        /\ c \in Readers => to \in {"mysql_select_db", "SELECT MAX(id)", "idle"}
  BY DEF Connect, SelectDb, FirstStatement, Statements
<1>3. pc'[c] = to
  BY <1>2 DEF Goes, IInv, TypeOK
<1>4. /\ c \in Readers => Seen' = [Seen EXCEPT ![c] = Seen'[c]]
      /\ c \notin Readers => Seen' = Seen
  BY <1>1, <1>2, SeenElsewhere
<1>5. c \in Readers => Seen[c] = "asked" /\ (Seen'[c] = "asked" \/ Seen'[c] = "none")
  BY <1>1, <1>2, <1>3, SeenAt, SeenAtNext DEF SeenFits
<1>6. c \in Readers /\ Seen'[c] = "asked" => Seen' = Seen
  BY <1>4, <1>5, SeenAt DEF SeenFits
<1> QED
  BY <1>1, <1>4, <1>5, <1>6, NewestKept, LatestActions

LEMMA ClosePromise ==
    ASSUME IInv, NEW c \in Callers, Close(c)
    PROVE  UNCHANGED Latest!vars
<1>1. /\ rows' = rows /\ maxId' = maxId /\ result' = result
      /\ pc[c] = "mysql_close" /\ Goes(c, "idle") /\ pc'[c] = "idle"
  BY DEF Close, Goes, IInv, TypeOK
<1>2. /\ c \in Readers => Seen' = [Seen EXCEPT ![c] = Seen'[c]]
      /\ c \notin Readers => Seen' = Seen
  BY <1>1, SeenElsewhere DEF Statements
<1>3. c \in Readers => Seen[c] = "none" /\ Seen'[c] = "none"
  BY <1>1, SeenAt, SeenAtNext DEF SeenFits
<1>4. Seen' = Seen
  BY ZenonT(30), <1>2, <1>3, SeenAt DEF SeenFits
<1> QED
  BY <1>1, <1>4, NewestKept, LatestActions

LEMMA SelectMaxIdPromise ==
    ASSUME IInv, NEW c \in Callers, SelectMaxId(c)
    PROVE  c \in Readers /\ Latest!See(c)
<1>1. /\ rows' = rows /\ maxId' = [maxId EXCEPT ![c] = Len(rows)] /\ result' = result
      /\ pc[c] = "SELECT MAX(id)" /\ Goes(c, "SELECT Wert") /\ pc'[c] = "SELECT Wert"
      /\ maxId \in [Readers -> 0..MaxRows]
  BY DEF SelectMaxId, Goes, IInv, TypeOK
<1>2. c \in Readers
  BY <1>1 DEF IInv, OwnStatements, Callers
<1>3. /\ \A d \in Readers \ {c} : maxId'[d] = maxId[d]
      /\ maxId'[c] = Len(rows)
  BY <1>1, <1>2
<1>4. Seen' = [Seen EXCEPT ![c] = Seen'[c]]
  BY <1>1, <1>2, <1>3, SeenElsewhere DEF Statements
<1>5. Seen[c] = "asked" /\ Seen'[c] = Last(rows)
  BY <1>1, <1>2, <1>3, SeenAt, SeenAtNext DEF SeenFits, Last
<1> QED
  BY <1>1, <1>2, <1>4, <1>5, NewestKept, LatestActions

LEMMA SelectValuePromise ==
    ASSUME IInv, NEW c \in Callers, SelectValue(c)
    PROVE  c \in Readers /\ Latest!Return(c)
<1>1. /\ rows' = rows /\ maxId' = maxId /\ result' = [result EXCEPT ![c] = rows[maxId[c]]]
      /\ pc[c] = "SELECT Wert" /\ Goes(c, "mysql_close") /\ pc'[c] = "mysql_close"
  BY DEF SelectValue, Goes, IInv, TypeOK
<1>2. c \in Readers
  BY <1>1 DEF IInv, OwnStatements, Callers
<1>3. rows[maxId[c]] \in Values
  <2>1. rows \in Seq(Values) /\ maxId[c] \in 1..Len(rows)
    BY <1>1, <1>2 DEF IInv, TypeOK, RowsFound
  <2> QED
    BY <2>1
<1>4. Seen' = [Seen EXCEPT ![c] = Seen'[c]]
  BY <1>1, <1>2, SeenElsewhere DEF Statements
<1>5. Seen[c] = rows[maxId[c]] /\ Seen'[c] = "none"
  BY <1>1, <1>2, SeenAt, SeenAtNext DEF SeenFits
<1> QED
  BY <1>1, <1>2, <1>3, <1>4, <1>5, NewestKept, LatestActions

LEMMA SelectFailsPromise ==
    ASSUME IInv, NEW c \in Callers, SelectFails(c)
    PROVE  (c \in Readers /\ Latest!Fail(c)) \/ UNCHANGED Latest!vars
<1>1. /\ rows' = rows /\ maxId' = maxId /\ result' = result
      /\ Goes(c, "idle") /\ pc'[c] = "idle"
      /\ pc[c] \in {"SELECT MAX(id)", "SELECT Wert"}
  BY DEF SelectFails, Goes, IInv, TypeOK
<1>2. c \in Readers
  BY <1>1 DEF IInv, OwnStatements, Callers
<1>3. Seen' = [Seen EXCEPT ![c] = Seen'[c]]
  BY <1>1, <1>2, SeenElsewhere DEF Statements
<1>4. Seen'[c] = "none"
  BY <1>1, <1>2, SeenAtNext DEF SeenFits
<1>5. Seen[c] = "none" => Seen' = Seen
  BY <1>2, <1>3, <1>4, SeenAt DEF SeenFits
<1> QED
  BY <1>1, <1>2, <1>3, <1>4, <1>5, NewestKept, LatestActions

LEMMA InsertPromise ==
    ASSUME IInv, NEW c \in Callers, Insert(c)
    PROVE  (\E v \in Values : Latest!Put(v)) \/ UNCHANGED Latest!vars
<1>1. /\ maxId' = maxId /\ result' = result
      /\ Goes(c, "mysql_close") /\ pc[c] = "INSERT"
  BY DEF Insert
<1>2. c \notin Readers
  BY <1>1 DEF IInv, OwnStatements
<1>3. CASE rows' = rows
  <2>1. Seen' = Seen
    BY <1>1, <1>2, <1>3, SeenElsewhere DEF Statements
  <2> QED
    BY <1>1, <1>3, <2>1, NewestKept, LatestActions
<1>4. ASSUME Len(rows) < MaxRows, NEW v \in Values, rows' = Append(rows, v)
      PROVE  Latest!Put(v)
  <2>1. /\ \A i \in 1..Len(rows) : rows'[i] = rows[i]
        /\ Last(rows)' = v
    BY <1>4, RowAdded DEF IInv, Last
  <2>2. \A d \in Readers \ {c} :
           pc[d] = "SELECT Wert" => rows'[maxId'[d]] = rows[maxId[d]]
    BY <1>1, <2>1 DEF IInv, RowsFound
  <2>3. Seen' = Seen
    BY <1>1, <1>2, <2>2, SeenElsewhere DEF Statements
  <2> QED
    BY <1>1, <2>1, <2>3, NewestKept, LatestActions
<1> QED
  BY <1>3, <1>4 DEF Insert

(* A read of two queries, among any number of other readers and writers,   *)
(* is one look at the newest value of the table, or nothing: every step of *)
(* the calls is a step of LatestValue or is not seen there.                *)
THEOREM ReadsTrue == Spec => Latest!Init /\ [][Latest!Next]_(Latest!vars)
<1>1. ASSUME Init PROVE Latest!Init
  <2>1. PICK v \in Values : rows = <<v>>
    BY <1>1 DEF Init
  <2>2. Last(rows) \in Values
    BY <2>1, FirstRow DEF Last
  <2>3. \A c \in Readers : Seen[c] = "none"
    BY <1>1, SeenAt DEF Init, SeenFits, Callers
  <2>4. Seen = [c \in Readers |-> "none"]
    BY <2>3, SeenAt DEF SeenFits
  <2>5. Latest!Init <=> /\ Last(rows) \in Values
                        /\ Seen = [c \in Readers |-> "none"]
                        /\ result = [c \in Readers |-> Nothing]
    BY Zenon DEF Latest!Init, Seen
  <2> QED
    BY <1>1, <2>2, <2>4, <2>5 DEF Init
<1>2. ASSUME IInv, [Next]_vars PROVE [Latest!Next]_(Latest!vars)
  <2>1. ASSUME NEW c \in Callers, Step(c) PROVE [Latest!Next]_(Latest!vars)
    <3>1. CASE Call(c)
      BY <1>2, <3>1, CallPromise DEF Latest!Next
    <3>2. CASE Connect(c) \/ SelectDb(c)
      BY <1>2, <3>2, ConnectPromise DEF Latest!Next, Latest!Serve
    <3>3. CASE Close(c)
      BY <1>2, <3>3, ClosePromise
    <3>4. CASE SelectMaxId(c)
      BY <1>2, <3>4, SelectMaxIdPromise DEF Latest!Next, Latest!Serve
    <3>5. CASE SelectValue(c)
      BY <1>2, <3>5, SelectValuePromise DEF Latest!Next, Latest!Serve
    <3>6. CASE SelectFails(c)
      BY <1>2, <3>6, SelectFailsPromise DEF Latest!Next, Latest!Serve
    <3>7. CASE Insert(c)
      BY <1>2, <3>7, InsertPromise DEF Latest!Next
    <3> QED
      BY <2>1, <3>1, <3>2, <3>3, <3>4, <3>5, <3>6, <3>7 DEF Step, Read
  <2>2. CASE UNCHANGED <<rows, pc, maxId, result>>
    <3>1. Seen' = Seen
      BY <2>2, Zenon DEF Seen
    <3> QED
      BY <2>2, <3>1, NewestKept, LatestActions
  <2> QED
    BY <1>2, <2>1, <2>2 DEF Next, Tick, Expire, vars
<1>3. Init => Latest!Init
  BY <1>1
<1>4. IInv /\ [Next]_vars => [Latest!Next]_(Latest!vars)
  BY <1>2
<1> QED
  BY <1>3, <1>4, Inductive, PTL DEF Spec

================================================================================
