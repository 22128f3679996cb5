---------------------------- MODULE WebserverProofs ----------------------------
(***************************************************************************)
(* Proofs about Webserver, for every set of forms and of fields that may   *)
(* be missing.                                                             *)
(***************************************************************************)
EXTENDS Webserver, SequenceTheorems, TLAPS

-----------------------------------------------------------------------------
\* The inductive invariant

Limits == Range(LimitTables)
Buttons == {"AutoModus", "ManOpen", "ManClose"}
Statements == [table: Tables \cup {""}, value: {0, 1} \cup Forms]

(* What is left of a request, p, writes each table at most once, and all   *)
(* of them before its first commit.                                        *)
OncePerTable(p) ==
    \A i, j \in 1..Len(p) : p[i].table # "" /\ p[i].table = p[j].table => i = j
CommitsLast(p) ==
    \A i, j \in 1..Len(p) : i < j /\ p[i].table = "" => p[j].table = ""

(* The form writes the limits and no button, the other requests the        *)
(* reverse, and what they write fits the column or is empty.               *)
Kinds(h, p) ==
    \A i \in 1..Len(p) :
        /\ p[i].table \in Buttons => h # "submit"
        /\ p[i].table \in Limits => h = "submit"
        /\ p[i].table \in Flags => p[i].value \in {0, 1}
        /\ p[i].table \in Limits => p[i].value \in Forms \cup {Empty}

Request(h, p) ==
    p \in Seq(Statements) /\ OncePerTable(p) /\ CommitsLast(p) /\ Kinds(h, p)

(* x is the value of table t once p has been served on the tables v.       *)
Becomes(p, v, t, x) ==
    \/ \E i \in 1..Len(p) : p[i].table = t /\ p[i].value = x
    \/ (\A i \in 1..Len(p) : p[i].table # t) /\ v[t] = x

(* The limits are going to be those of one form, but for fields that are   *)
(* missing and will stop the request.                                      *)
OneForm(p, v) ==
    \E f \in Forms : \A t \in Limits : Becomes(p, v, t, f) \/ Becomes(p, v, t, Empty)

IInv ==
    /\ TypeOK
    /\ Request(handler, program)
    /\ ~connected => view = committed
    /\ connected /\ handler = "submit" /\ program # <<>> => OneForm(program, view)

(* What the buttons may say once p has been served.                        *)
Sound(p, v) ==
    /\ ~(Becomes(p, v, "ManOpen", 1) /\ Becomes(p, v, "ManClose", 1))
    /\ Becomes(p, v, "AutoModus", 1) =>
          Becomes(p, v, "ManOpen", 0) /\ Becomes(p, v, "ManClose", 0)

(* With requests that start in a second of their own no button is refused, *)
(* so what a request leaves half done is made sound by what is left of it. *)
SpacedInv ==
    /\ \A i \in 1..Len(program) : program[i].table \notin stamped
    /\ Sound(<<>>, committed)
    /\ connected => Sound(program, view)

-----------------------------------------------------------------------------
\* Lists of statements

LEMMA TableNames ==
    /\ Limits = {"Temp_MIN", "Temp_MAX", "Humidity_MIN", "Humidity_MAX",
                 "AirQuality_MAX", "Wind_MAX", "Volume_MAX", "Priority"}
    /\ Buttons \subseteq Flags /\ Flags \cap Limits = {}
    /\ Tables = Flags \cup Limits /\ "" \notin Tables
<1>1. Limits = {"Temp_MIN", "Temp_MAX", "Humidity_MIN", "Humidity_MAX",
                "AirQuality_MAX", "Wind_MAX", "Volume_MAX", "Priority"}
  <2>1. DOMAIN LimitTables = 1..8
    BY DEF LimitTables
  <2> QED
    BY <2>1 DEF Limits, Range, LimitTables
<1> QED
  BY <1>1 DEF Buttons, Flags, Tables, Limits

(* The places of a list and those of its tail.                             *)
LEMMA Places ==
    ASSUME NEW S, NEW p \in Seq(S), p # <<>>
    PROVE  /\ 1 \in 1..Len(p) /\ Head(p) = p[1] /\ p[1] \in S
           /\ Tail(p) \in Seq(S)
           /\ \A i \in 1..Len(Tail(p)) : i + 1 \in 1..Len(p) /\ i + 1 # 1
           /\ \A i \in 1..Len(Tail(p)) : Tail(p)[i] = p[i + 1]
           /\ \A i, j \in 1..Len(Tail(p)) : (i < j <=> i + 1 < j + 1)
                                          /\ (i + 1 = j + 1 => i = j)
           /\ \A j \in 1..Len(p) : j # 1 =>
                 1 < j /\ \E i \in 1..Len(Tail(p)) : j = i + 1
<1> DEFINE n == Len(p)
<1>1. n \in Nat /\ n # 0 /\ Len(Tail(p)) = n - 1
  OBVIOUS
<1>2. Head(p) = p[1] /\ p[1] \in S /\ Tail(p) \in Seq(S)
  OBVIOUS
<1>3. \A i \in 1..Len(Tail(p)) : Tail(p)[i] = p[i + 1]
  OBVIOUS
<1> HIDE DEF n
<1>4. 1 \in 1..n /\ \A i \in 1..(n - 1) : i + 1 \in 1..n /\ i + 1 # 1
  BY <1>1
<1>5. \A i, j \in 1..(n - 1) : (i < j <=> i + 1 < j + 1) /\ (i + 1 = j + 1 => i = j)
  BY <1>1
<1>6. \A j \in 1..n : j # 1 => 1 < j /\ j - 1 \in 1..(n - 1) /\ j = (j - 1) + 1
  BY <1>1
<1>7. \A j \in 1..n : j # 1 => 1 < j /\ \E i \in 1..(n - 1) : j = i + 1
  BY <1>6
<1> QED
  BY <1>1, <1>2, <1>3, <1>4, <1>5, <1>7 DEF n

LEMMA EmptyList == 1..Len(<<>>) = {} /\ \A S : <<>> \in Seq(S)
<1>1. Len(<<>>) = 0 /\ \A S : <<>> \in Seq(S)
  OBVIOUS
<1>2. 1..0 = {}
  OBVIOUS
<1> QED
  BY <1>1, <1>2

LEMMA TailRequest ==
    ASSUME NEW h, NEW p, Request(h, p), p # <<>>
    PROVE  Request(h, Tail(p))
<1>1. p \in Seq(Statements)
  BY DEF Request
<1>2. OncePerTable(Tail(p))
  <2>1. ASSUME NEW i \in 1..Len(Tail(p)), NEW j \in 1..Len(Tail(p)),
               Tail(p)[i].table # "", Tail(p)[i].table = Tail(p)[j].table
        PROVE  i = j
    <3>1. i + 1 \in 1..Len(p) /\ j + 1 \in 1..Len(p)
          /\ Tail(p)[i] = p[i + 1] /\ Tail(p)[j] = p[j + 1]
      BY <1>1, Places
    <3>2. i + 1 = j + 1
      BY <2>1, <3>1 DEF Request, OncePerTable
    <3> QED
      BY <3>2
  <2> QED
    BY <2>1 DEF OncePerTable
<1>3. CommitsLast(Tail(p))
  <2>1. ASSUME NEW i \in 1..Len(Tail(p)), NEW j \in 1..Len(Tail(p)),
               i < j, Tail(p)[i].table = ""
        PROVE  Tail(p)[j].table = ""
    <3>1. i + 1 \in 1..Len(p) /\ j + 1 \in 1..Len(p) /\ i + 1 < j + 1
          /\ Tail(p)[i] = p[i + 1] /\ Tail(p)[j] = p[j + 1]
      BY <1>1, <2>1, Places
    <3> QED
      BY <2>1, <3>1 DEF Request, CommitsLast
  <2> QED
    BY <2>1 DEF CommitsLast
<1>4. Kinds(h, Tail(p))
  BY <1>1, Places DEF Request, Kinds
<1> QED
  BY <1>1, <1>2, <1>3, <1>4, Places DEF Request

(* Executing an INSERT brings the tables nearer to what they become.       *)
LEMMA InsertMakes ==
    ASSUME NEW h, NEW p, Request(h, p), p # <<>>, Head(p).table # "",
           NEW v, DOMAIN v = Tables,
           NEW t \in Tables, NEW x
    PROVE  Becomes(Tail(p), [v EXCEPT ![Head(p).table] = Head(p).value], t, x)
              <=> Becomes(p, v, t, x)
<1> DEFINE w == [v EXCEPT ![Head(p).table] = Head(p).value]
           q == Tail(p)
<1>1. /\ p \in Seq(Statements) /\ 1 \in 1..Len(p)
      /\ Head(p) = p[1] /\ p[1] \in Statements
  BY Places DEF Request
<1>2. \A i \in 1..Len(p) : p[i].table = p[1].table => i = 1
  BY <1>1 DEF Request, OncePerTable
<1>3. \A i \in 1..Len(q) : \E j \in 1..Len(p) : j # 1 /\ q[i] = p[j]
  BY <1>1, Places
<1>4. ASSUME NEW j \in 1..Len(p), j # 1 PROVE \E i \in 1..Len(q) : q[i] = p[j]
  <2>1. PICK i \in 1..Len(q) : j = i + 1
    BY <1>1, <1>4, Places
  <2> QED
    BY <1>1, <2>1, Places
<1>5. w = [v EXCEPT ![p[1].table] = p[1].value] /\ p[1].table \in Tables
  BY <1>1 DEF Statements
<1> HIDE DEF q, w
<1>6. CASE t = p[1].table
  <2>1. \A i \in 1..Len(q) : q[i].table # t
    BY <1>2, <1>3, <1>6
  <2>2. w[t] = p[1].value
    BY <1>5, <1>6
  <2>3. Becomes(q, w, t, x) <=> p[1].value = x
    BY <2>1, <2>2 DEF Becomes
  <2>4. Becomes(p, v, t, x) <=> p[1].value = x
    BY <1>1, <1>2, <1>6 DEF Becomes
  <2> QED
    BY <2>3, <2>4 DEF q, w
<1>7. CASE t # p[1].table
  <2>1. w[t] = v[t]
    BY <1>5, <1>7
  <2>2. (\E i \in 1..Len(q) : q[i].table = t /\ q[i].value = x)
          <=> (\E i \in 1..Len(p) : p[i].table = t /\ p[i].value = x)
    <3>1. ASSUME NEW i \in 1..Len(q), q[i].table = t /\ q[i].value = x
          PROVE  \E j \in 1..Len(p) : p[j].table = t /\ p[j].value = x
      BY <1>3, <3>1
    <3>2. ASSUME NEW j \in 1..Len(p), p[j].table = t /\ p[j].value = x
          PROVE  \E i \in 1..Len(q) : q[i].table = t /\ q[i].value = x
      <4>1. j # 1
        BY <1>7, <3>2
      <4>2. PICK i \in 1..Len(q) : q[i] = p[j]
        BY <1>4, <4>1
      <4> QED
        BY <3>2, <4>2
    <3> QED
      BY <3>1, <3>2
  <2>3. (\A i \in 1..Len(q) : q[i].table # t) <=> (\A i \in 1..Len(p) : p[i].table # t)
    BY ZenonT(30), <1>3, <1>4, <1>7
  <2>4. Becomes(q, w, t, x) <=> Becomes(p, v, t, x)
    BY <2>1, <2>2, <2>3, Zenon DEF Becomes
  <2> QED
    BY <2>4 DEF q, w
<1> QED
  BY <1>6, <1>7

(* When the next statement is a commit, or there is none, the tables are   *)
(* what they are going to be.                                              *)
LEMMA CommitFinds ==
    ASSUME NEW h, NEW p, Request(h, p), p # <<>> => Head(p).table = "",
           NEW v, NEW t \in Tables, NEW x
    PROVE  Becomes(p, v, t, x) <=> v[t] = x
<1>1. \A i \in 1..Len(p) : p[i].table = ""
  <2>1. CASE p = <<>>
    BY <2>1, EmptyList
  <2>2. CASE p # <<>>
    <3>1. /\ 1 \in 1..Len(p) /\ p[1].table = ""
          /\ \A j \in 1..Len(p) : j # 1 => 1 < j
      BY <2>2, Places DEF Request
    <3> QED
      BY <3>1 DEF Request, CommitsLast
  <2> QED
    BY <2>1, <2>2
<1>2. t # ""
  BY TableNames
<1> QED
  BY <1>1, <1>2 DEF Becomes

LEMMA NothingLeft ==
    /\ \A h : Request(h, <<>>)
    /\ \A v, x : \A t \in Tables : Becomes(<<>>, v, t, x) <=> v[t] = x
  BY EmptyList DEF Request, OncePerTable, CommitsLast, Kinds, Becomes

-----------------------------------------------------------------------------
\* The requests

LEMMA Tails ==
    \A a, b, c, d, e :
        /\ Tail(<<a, b, c, d, e>>) = <<b, c, d, e>>
        /\ Tail(<<b, c, d, e>>) = <<c, d, e>>
        /\ Tail(<<c, d, e>>) = <<d, e>>
        /\ Tail(<<d, e>>) = <<e>>
        /\ <<a, b, c, d, e>> # <<>> /\ <<b, c, d, e>> # <<>>
        /\ <<c, d, e>> # <<>> /\ <<d, e>> # <<>>
  OBVIOUS

(* The requests of the homepage: up to three flags, then a commit or two.  *)
LEMMA FlagRequests ==
    ASSUME NEW h, h # "submit",
           NEW t1 \in Flags, NEW t2 \in Flags, NEW t3 \in Flags,
           t1 # t2, t1 # t3, t2 # t3,
           NEW x1 \in {0, 1}, NEW x2 \in {0, 1}, NEW x3 \in {0, 1}
    PROVE  /\ Request(h, <<Insert(t1, x1), Insert(t2, x2), Insert(t3, x3),
                           Commit, Commit>>)
           /\ Request(h, <<Insert(t2, x2), Insert(t3, x3), Commit, Commit>>)
           /\ Request(h, <<Insert(t3, x3), Commit, Commit>>)
           /\ Request(h, <<Commit>>)
<1>1. /\ t1 # "" /\ t2 # "" /\ t3 # "" /\ "" \notin Flags
      /\ t1 \notin Limits /\ t2 \notin Limits /\ t3 \notin Limits /\ "" \notin Limits
      /\ "" \notin Buttons
  BY TableNames DEF Flags
<1>2. /\ Insert(t1, x1) \in Statements /\ Insert(t2, x2) \in Statements
      /\ Insert(t3, x3) \in Statements /\ Commit \in Statements
  BY TableNames DEF Insert, Commit, Statements
<1> DEFINE p == <<Insert(t1, x1), Insert(t2, x2), Insert(t3, x3), Commit, Commit>>
<1>3. /\ p[1].table = t1 /\ p[1].value = x1
      /\ p[2].table = t2 /\ p[2].value = x2
      /\ p[3].table = t3 /\ p[3].value = x3
      /\ p[4].table = "" /\ p[5].table = ""
  BY DEF Insert, Commit
<1>4. p \in Seq(Statements)
  BY <1>2
<1>5. /\ 1..Len(p) = 1..5
      /\ \A i \in 1..5 : i = 1 \/ i = 2 \/ i = 3 \/ i = 4 \/ i = 5
  <2>1. Len(p) = 5
    OBVIOUS
  <2> HIDE DEF p
  <2> QED
    BY <2>1
<1> HIDE DEF p
<1>6. OncePerTable(p)
  BY <1>1, <1>3, <1>5 DEF OncePerTable
<1>7. CommitsLast(p)
  <2>1. ASSUME NEW i \in 1..Len(p), NEW j \in 1..Len(p), i < j, p[i].table = ""
        PROVE  p[j].table = ""
    <3>1. i = 4 \/ i = 5
      BY <1>1, <1>3, <1>5, <2>1
    <3>2. j = 5
      <4>1. \A k, l \in 1..5 : k < l /\ (k = 4 \/ k = 5) => l = 5
        OBVIOUS
      <4> QED
        BY <1>5, <2>1, <3>1, <4>1
    <3> QED
      BY <1>3, <3>2
  <2> QED
    BY <2>1 DEF CommitsLast
<1>8. Kinds(h, p)
  BY <1>1, <1>3, <1>5 DEF Kinds
<1>9. Request(h, p)
  BY <1>4, <1>6, <1>7, <1>8 DEF Request
<1>10. /\ p # <<>> /\ Tail(p) # <<>> /\ Tail(Tail(p)) # <<>>
       /\ Tail(Tail(Tail(p))) # <<>>
       /\ Tail(p) = <<Insert(t2, x2), Insert(t3, x3), Commit, Commit>>
       /\ Tail(Tail(p)) = <<Insert(t3, x3), Commit, Commit>>
       /\ Tail(Tail(Tail(Tail(p)))) = <<Commit>>
  BY Tails DEF p
<1>11. Request(h, Tail(p))
  BY <1>9, <1>10, TailRequest
<1>12. Request(h, Tail(Tail(p)))
  BY <1>10, <1>11, TailRequest
<1>13. Request(h, Tail(Tail(Tail(p))))
  BY <1>10, <1>12, TailRequest
<1>14. Request(h, Tail(Tail(Tail(Tail(p)))))
  BY <1>10, <1>13, TailRequest
<1> QED
  BY <1>9, <1>10, <1>11, <1>12, <1>14 DEF p

(* What submit() executes for the form f without the field missing.        *)
FormList(f, missing) ==
    [i \in 1..Len(LimitTables) |->
        Insert(LimitTables[i], IF i = missing THEN Empty ELSE f)]
    \o <<Insert("LimitChange", 1), Commit>>

LEMMA FormRequest ==
    ASSUME NEW f \in Forms, NEW missing
    PROVE  /\ Request("submit", FormList(f, missing))
           /\ \A v : OneForm(FormList(f, missing), v)
<1> DEFINE value(i) == IF i = missing THEN Empty ELSE f
           p == FormList(f, missing)
<1>1. DOMAIN LimitTables = 1..8 /\ Len(LimitTables) = 8
  BY DEF LimitTables
<1>2. \A i \in 1..8 : /\ LimitTables[i] \in Limits
                      /\ LimitTables[i] \notin Flags /\ LimitTables[i] # ""
  BY <1>1, TableNames DEF Limits, Range
<1>3. \A i, j \in 1..8 : LimitTables[i] = LimitTables[j] => i = j
  BY DEF LimitTables
<1>4. /\ p \in Seq(Statements) /\ Len(p) = 10
      /\ \A i \in 1..8 : p[i].table = LimitTables[i] /\ p[i].value = value(i)
      /\ p[9].table = "LimitChange" /\ p[9].value = 1
      /\ p[10].table = ""
  <2> DEFINE inserts == [i \in 1..8 |-> Insert(LimitTables[i], value(i))]
             rest == <<Insert("LimitChange", 1), Commit>>
  <2>1. inserts \in Seq(Statements) /\ Len(inserts) = 8
    <3>1. \A i \in 1..8 : Insert(LimitTables[i], value(i)) \in Statements
      BY <1>2, TableNames DEF Insert, Statements, Empty
    <3> QED
      BY <3>1
  <2>2. rest \in Seq(Statements) /\ Len(rest) = 2
    <3>1. Insert("LimitChange", 1) \in Statements /\ Commit \in Statements
      BY DEF Insert, Commit, Statements, Tables, Flags
    <3> QED
      BY <3>1
  <2>3. p = inserts \o rest
    BY <1>1 DEF FormList
  <2>4. \A i \in 1..8 : inserts[i].table = LimitTables[i] /\ inserts[i].value = value(i)
    BY DEF Insert
  <2>5. rest[1].table = "LimitChange" /\ rest[1].value = 1 /\ rest[2].table = ""
    BY DEF Insert, Commit
  <2> HIDE DEF inserts, rest, p
  <2>6. /\ p \in Seq(Statements) /\ Len(p) = 10
        /\ \A i \in 1..8 : p[i] = inserts[i]
        /\ p[9] = rest[1] /\ p[10] = rest[2]
    <3>1. /\ p \in Seq(Statements) /\ Len(p) = 10
          /\ \A i \in 1..10 : p[i] = IF i <= 8 THEN inserts[i] ELSE rest[i - 8]
      <4>1. /\ p \in Seq(Statements) /\ Len(p) = Len(inserts) + Len(rest)
            /\ \A i \in 1..(Len(inserts) + Len(rest)) :
                  p[i] = IF i <= Len(inserts) THEN inserts[i] ELSE rest[i - Len(inserts)]
        BY <2>1, <2>2, <2>3, ConcatProperties
      <4> QED
        BY <2>1, <2>2, <4>1
    <3> QED
      BY <3>1
  <2> QED
    BY <2>4, <2>5, <2>6
<1>5. /\ 1..Len(p) = 1..10
      /\ \A i \in 1..10 : i \in 1..8 \/ i = 9 \/ i = 10
      /\ 1..8 \subseteq 1..10 /\ 9 \in 1..10 /\ 10 \in 1..10
  <2> HIDE DEF p
  <2>1. 1..Len(p) = 1..10
    BY <1>4
  <2>2. /\ \A i \in 1..10 : i \in 1..8 \/ i = 9 \/ i = 10
        /\ 1..8 \subseteq 1..10 /\ 9 \in 1..10 /\ 10 \in 1..10
    OBVIOUS
  <2> QED
    BY <2>1, <2>2
<1>6. /\ "LimitChange" \in Flags /\ "LimitChange" \notin Buttons /\ "LimitChange" # ""
      /\ "" \notin Flags /\ "" \notin Limits /\ "" \notin Buttons
      /\ "LimitChange" \notin Limits
      /\ \A t \in Limits : t \notin Buttons /\ t \notin Flags
  BY TableNames DEF Flags, Buttons
<1>7. \A i \in 1..8 : value(i) \in Forms \cup {Empty}
  OBVIOUS
<1> HIDE DEF p, value
<1>8. OncePerTable(p)
  <2>1. ASSUME NEW i \in 1..Len(p), NEW j \in 1..Len(p),
               p[i].table # "", p[i].table = p[j].table
        PROVE  i = j
    <3>1. i \in 1..8 \/ i = 9
      BY <1>4, <1>5, <2>1
    <3>2. j \in 1..8 \/ j = 9
      BY <1>4, <1>5, <2>1
    <3>3. \A k \in 1..8 : p[k].table \in Limits
      BY <1>2, <1>4
    <3>4. CASE i \in 1..8
      <4>1. j # 9
        BY <1>4, <1>6, <2>1, <3>3, <3>4
      <4>2. j \in 1..8
        BY <3>2, <4>1
      <4>3. LimitTables[i] = LimitTables[j]
        BY <1>4, <2>1, <3>4, <4>2
      <4> QED
        BY <1>3, <3>4, <4>2, <4>3
    <3>5. CASE i = 9
      <4>1. j \notin 1..8
        BY <1>4, <1>6, <2>1, <3>3, <3>5
      <4> QED
        BY <3>2, <3>5, <4>1
    <3> QED
      BY <3>1, <3>4, <3>5
  <2> QED
    BY <2>1 DEF OncePerTable
<1>9. CommitsLast(p)
  <2>1. ASSUME NEW i \in 1..Len(p), NEW j \in 1..Len(p), i < j
        PROVE  p[i].table # ""
    <3>1. i \in 1..8 \/ i = 9
      <4>1. i \in 1..10 /\ j \in 1..10
        BY <1>5
      <4> QED
        BY <2>1, <4>1
    <3> QED
      BY <1>2, <1>4, <1>6, <3>1
  <2> QED
    BY <2>1 DEF CommitsLast
<1>10. Kinds("submit", p)
  <2>1. ASSUME NEW i \in 1..Len(p)
        PROVE  /\ p[i].table \notin Buttons
               /\ p[i].table \in Flags => p[i].value \in {0, 1}
               /\ p[i].table \in Limits => p[i].value \in Forms \cup {Empty}
    <3>1. CASE i \in 1..8
      BY <1>2, <1>4, <1>6, <1>7, <3>1
    <3>2. CASE i = 9
      BY <1>4, <1>6, <3>2
    <3>3. CASE i = 10
      BY <1>4, <1>6, <3>3
    <3> QED
      BY <1>5, <3>1, <3>2, <3>3
  <2> QED
    BY <2>1 DEF Kinds
<1>11. ASSUME NEW v PROVE OneForm(p, v)
  <2>1. ASSUME NEW t \in Limits PROVE Becomes(p, v, t, f) \/ Becomes(p, v, t, Empty)
    <3>1. PICK i \in 1..8 : LimitTables[i] = t
      BY <1>1 DEF Limits, Range
    <3>2. p[i].table = t /\ (p[i].value = f \/ p[i].value = Empty) /\ i \in 1..Len(p)
      <4>1. value(i) = f \/ value(i) = Empty
        BY DEF value
      <4>2. i \in 1..Len(p)
        BY <1>5
      <4> QED
        BY <1>4, <3>1, <4>1, <4>2
    <3> QED
      BY <3>2 DEF Becomes
  <2> QED
    BY <2>1 DEF OneForm
<1> QED
  BY <1>4, <1>8, <1>9, <1>10, <1>11 DEF Request, p

-----------------------------------------------------------------------------
\* The initial state and the steps

(* A view of the tables that TypeOK allows. *)
Fits(v) ==
    /\ DOMAIN v = Tables
    /\ \A t \in Flags : v[t] \in {0, 1}
    /\ \A t \in Limits : v[t] \in Forms

LEMMA TypeParts ==
    TypeOK <=>
        /\ handler \in {"Main", "auto", "manu", "open", "close", "submit"}
        /\ program \in Seq(Statements)
        /\ Fits(view) /\ Fits(committed)
        /\ stamped \subseteq Tables /\ connected \in BOOLEAN
  BY Zenon DEF TypeOK, Fits, Statements, Limits

LEMMA InitIInv == Init => IInv
<1> SUFFICES ASSUME Init PROVE IInv
  OBVIOUS
<1>1. Fits(view)
  <2>1. \A t \in Limits : t # "AutoModus" /\ t \notin Flags \ {"AutoModus"}
    BY TableNames DEF Flags
  <2> QED
    BY <2>1, TableNames, FormsAssumption, Zenon DEF Init, Fits, Flags
<1>2. program = <<>> /\ view = committed /\ handler = "Main"
  BY DEF Init
<1>3. TypeOK
  BY <1>1, <1>2, EmptyList, TypeParts DEF Init
<1> QED
  BY <1>2, <1>3, NothingLeft DEF IInv

LEMMA BeginIInv ==
    ASSUME IInv, NEW h \in {"Main", "auto", "manu", "open", "close", "submit"}, NEW p,
           Begin(h, p), Request(h, p), h = "submit" => \A v : OneForm(p, v)
    PROVE  IInv'
<1>1. /\ handler' = h /\ program' = p /\ view' = view /\ committed' = committed
      /\ stamped' = stamped /\ connected' = connected
  BY DEF Begin
<1>2. TypeOK'
  BY <1>1, TypeParts DEF IInv, Request, TypeOK, Limits, Statements
<1> QED
  BY <1>1, <1>2 DEF IInv

LEMMA ButtonRequests ==
    \A h \in {"Main", "auto", "manu", "open", "close"} :
        \A x, y \in {0, 1} :
            /\ Request(h, <<Insert("AutoModus", 1), Insert("ManOpen", 0),
                            Insert("ManClose", 0), Commit, Commit>>)
            /\ Request(h, <<Insert("ManOpen", x), Insert("ManClose", y), Commit, Commit>>)
            /\ Request(h, <<Insert("AutoModus", 0), Commit, Commit>>)
            /\ Request(h, <<Commit>>)
<1> SUFFICES ASSUME NEW h \in {"Main", "auto", "manu", "open", "close"},
                    NEW x \in {0, 1}, NEW y \in {0, 1}
             PROVE  /\ Request(h, <<Insert("AutoModus", 1), Insert("ManOpen", 0),
                                    Insert("ManClose", 0), Commit, Commit>>)
                    /\ Request(h, <<Insert("ManOpen", x), Insert("ManClose", y),
                                    Commit, Commit>>)
                    /\ Request(h, <<Insert("AutoModus", 0), Commit, Commit>>)
                    /\ Request(h, <<Commit>>)
  OBVIOUS
<1>1. /\ "AutoModus" \in Flags /\ "ManOpen" \in Flags /\ "ManClose" \in Flags
      /\ h # "submit" /\ 0 \in {0, 1} /\ 1 \in {0, 1}
      /\ "AutoModus" # "ManOpen" /\ "AutoModus" # "ManClose" /\ "ManOpen" # "ManClose"
  BY DEF Flags
<1>2. Request(h, <<Insert("AutoModus", 1), Insert("ManOpen", 0), Insert("ManClose", 0),
                  Commit, Commit>>)
  BY <1>1, FlagRequests
<1>3. Request(h, <<Insert("ManOpen", x), Insert("ManClose", y), Commit, Commit>>)
  BY <1>1, FlagRequests
<1>4. Request(h, <<Insert("AutoModus", 0), Commit, Commit>>) /\ Request(h, <<Commit>>)
  BY <1>1, FlagRequests
<1> QED
  BY <1>2, <1>3, <1>4

LEMMA BeginsIInv ==
    ASSUME IInv, \/ Main \/ AutoButton \/ ManuButton \/ OpenButton \/ CloseButton
                 \/ \E f \in Forms, missing \in MayMiss \cup {0} : Submit(f, missing)
    PROVE  IInv'
<1>1. CASE Main
  BY <1>1, BeginIInv, ButtonRequests DEF Main
<1>2. CASE AutoButton
  BY <1>2, BeginIInv, ButtonRequests DEF AutoButton
<1>3. CASE ManuButton
  BY <1>3, BeginIInv, ButtonRequests DEF ManuButton
<1>4. CASE OpenButton
  <2>1. CASE view["AutoModus"] = 0
    BY <1>4, <2>1, BeginIInv, ButtonRequests DEF OpenButton
  <2>2. CASE view["AutoModus"] # 0
    BY <1>4, <2>2, BeginIInv, ButtonRequests DEF OpenButton
  <2> QED
    BY <2>1, <2>2
<1>5. CASE CloseButton
  <2>1. CASE view["AutoModus"] = 0
    BY <1>5, <2>1, BeginIInv, ButtonRequests DEF CloseButton
  <2>2. CASE view["AutoModus"] # 0
    BY <1>5, <2>2, BeginIInv, ButtonRequests DEF CloseButton
  <2> QED
    BY <2>1, <2>2
<1>6. CASE \E f \in Forms, missing \in MayMiss \cup {0} : Submit(f, missing)
  <2>1. PICK f \in Forms, missing \in MayMiss \cup {0} : Submit(f, missing)
    BY <1>6
  <2>2. Begin("submit", FormList(f, missing))
    BY <2>1 DEF Submit, FormList
  <2> QED
    BY <2>2, FormRequest, BeginIInv
<1> QED
  BY <1>1, <1>2, <1>3, <1>4, <1>5, <1>6

(* What an INSERT does that is not refused. *)
LEMMA InsertMoves ==
    ASSUME IInv, ExecuteInsert, program' # <<>> \/ view' # view
    PROVE  /\ Head(program).table \in Tables \ stamped
           /\ view' = [view EXCEPT ![Head(program).table] = Head(program).value]
           /\ stamped' = stamped \cup {Head(program).table}
           /\ program' = Tail(program)
           /\ Fits(view')
<1> DEFINE s == Head(program)
<1>1. /\ s.table \notin stamped /\ ~(s.table \in Limits /\ s.value = Empty)
      /\ view' = [view EXCEPT ![s.table] = s.value]
      /\ stamped' = stamped \cup {s.table}
      /\ program' = Tail(program)
      /\ s.table # "" /\ program # <<>>
  BY DEF ExecuteInsert, Limits
<1>2. /\ s \in Statements
      /\ s.table \in Flags => s.value \in {0, 1}
      /\ s.table \in Limits => s.value \in Forms \cup {Empty}
  <2>1. program \in Seq(Statements) /\ Kinds(handler, program)
    BY DEF IInv, Request
  <2>2. 1 \in 1..Len(program) /\ s = program[1] /\ program[1] \in Statements
    BY <1>1, <2>1, Places
  <2> HIDE DEF s
  <2> QED
    BY <2>1, <2>2 DEF Kinds
<1>3. s.table \in Tables
  BY <1>1, <1>2 DEF Statements
<1>4. Fits(view) /\ Flags \cap Limits = {}
  BY TypeParts, TableNames DEF IInv
<1>5. Fits(view')
  <2> HIDE DEF s
  <2>1. DOMAIN view' = Tables
    BY <1>1, <1>4 DEF Fits
  <2>2. \A t \in Tables : view'[t] = IF t = s.table THEN s.value ELSE view[t]
    BY <1>1, <1>4 DEF Fits
  <2>3. \A t \in Flags : view'[t] \in {0, 1}
    BY <1>2, <1>4, <2>2, TableNames DEF Fits
  <2>4. \A t \in Limits : view'[t] \in Forms
    BY <1>1, <1>2, <1>4, <2>2, TableNames DEF Fits
  <2> QED
    BY <2>1, <2>3, <2>4 DEF Fits
<1> QED
  BY <1>1, <1>3, <1>5

LEMMA ExecuteInsertIInv == ASSUME IInv, ExecuteInsert PROVE IInv'
<1>1. /\ handler' = handler /\ committed' = committed /\ connected' /\ connected
      /\ connected' = connected
      /\ program # <<>> /\ Head(program).table # ""
  BY DEF ExecuteInsert
<1>2. CASE program' # <<>> \/ view' # view
  <2>1. /\ Head(program).table \in Tables \ stamped
        /\ view' = [view EXCEPT ![Head(program).table] = Head(program).value]
        /\ stamped' = stamped \cup {Head(program).table}
        /\ program' = Tail(program)
        /\ Fits(view')
    BY <1>2, InsertMoves
  <2>2. Request(handler, program')
    BY <1>1, <2>1, TailRequest DEF IInv
  <2>3. TypeOK'
    BY <1>1, <2>1, <2>2, TypeParts DEF IInv, Request, TypeOK, Fits, Limits, Statements
  <2>4. ASSUME handler = "submit" PROVE OneForm(program', view')
    <3>1. PICK f \in Forms :
            \A t \in Limits : Becomes(program, view, t, f) \/ Becomes(program, view, t, Empty)
      BY <1>1, <2>4 DEF IInv, OneForm
    <3>2. \A t \in Tables : \A x :
            Becomes(program', view', t, x) <=> Becomes(program, view, t, x)
      BY <1>1, <2>1, InsertMakes, TypeParts DEF IInv, Fits
    <3> QED
      BY <3>1, <3>2, TableNames DEF OneForm
  <2> QED
    BY <1>1, <2>2, <2>3, <2>4 DEF IInv
<1>3. CASE program' = <<>> /\ view' = view
  <2>1. stamped' \subseteq Tables
    <3>1. stamped \subseteq Tables
      BY TypeParts DEF IInv
    <3>2. Head(program).table \in Tables
      <4>1. Head(program) \in Statements
        BY <1>1, Places DEF IInv, Request
      <4> QED
        BY <1>1, <4>1 DEF Statements
    <3>3. stamped' = stamped \/ stamped' = stamped \cup {Head(program).table}
      BY DEF ExecuteInsert
    <3> QED
      BY <3>1, <3>2, <3>3
  <2>2. TypeOK'
    BY <1>1, <1>3, <2>1, EmptyList, TypeParts DEF IInv, TypeOK, Limits
  <2> QED
    BY <1>1, <1>3, <2>2, NothingLeft DEF IInv
<1> QED
  BY <1>2, <1>3

(* After a commit there are only commits. *)
LEMMA CommitsFollow ==
    ASSUME NEW h, NEW p, Request(h, p), p # <<>>, Head(p).table = "", Tail(p) # <<>>
    PROVE  Head(Tail(p)).table = ""
<1>1. p \in Seq(Statements) /\ Tail(p) \in Seq(Statements)
  BY Places DEF Request
<1>2. /\ 1 \in 1..Len(p) /\ p[1].table = ""
      /\ 1 \in 1..Len(Tail(p)) /\ Head(Tail(p)) = Tail(p)[1]
  BY <1>1, Places
<1>3. 1 + 1 \in 1..Len(p) /\ Tail(p)[1] = p[1 + 1]
  BY <1>1, <1>2, Places
<1>4. \A j \in 1..Len(p) : p[j].table = ""
  <2>1. \A j \in 1..Len(p) : j # 1 => 1 < j
    BY <1>1, Places
  <2> QED
    BY <1>2, <2>1 DEF Request, CommitsLast
<1> QED
  BY <1>2, <1>3, <1>4

LEMMA ExecuteCommitIInv == ASSUME IInv, ExecuteCommit PROVE IInv'
<1>1. /\ handler' = handler /\ view' = view /\ committed' = view
      /\ connected /\ connected' = connected /\ stamped' = stamped
      /\ program # <<>> /\ Head(program).table = "" /\ program' = Tail(program)
  BY DEF ExecuteCommit
<1>2. Request(handler, program')
  BY <1>1, TailRequest DEF IInv
<1>3. TypeOK'
  BY <1>1, <1>2, TypeParts DEF IInv, Request, TypeOK, Limits, Statements
<1>4. ASSUME handler = "submit" PROVE OneForm(program', view')
  <2>1. PICK f \in Forms :
          \A t \in Limits : Becomes(program, view, t, f) \/ Becomes(program, view, t, Empty)
    BY <1>1, <1>4 DEF IInv, OneForm
  <2>2. \A t \in Tables : \A x : Becomes(program, view, t, x) <=> view[t] = x
    BY <1>1, CommitFinds DEF IInv
  <2>3. program' # <<>> => Head(program').table = ""
    BY <1>1, CommitsFollow DEF IInv
  <2>4. \A t \in Tables : \A x : Becomes(program', view', t, x) <=> view[t] = x
    <3> DEFINE q == program'
    <3>1. Request(handler, q) /\ (q # <<>> => Head(q).table = "")
      BY <1>2, <2>3
    <3> HIDE DEF q
    <3>2. \A t \in Tables : \A x : Becomes(q, view, t, x) <=> view[t] = x
      BY <3>1, CommitFinds
    <3> QED
      BY <1>1, <3>2 DEF q
  <2> QED
    BY <2>1, <2>2, <2>4, TableNames DEF OneForm
<1> QED
  BY <1>1, <1>2, <1>3, <1>4 DEF IInv

LEMMA NextIInv == IInv /\ [Next]_vars => IInv'
<1> SUFFICES ASSUME IInv, [Next]_vars PROVE IInv'
  OBVIOUS
<1>1. CASE Tick
  <2>1. TypeOK'
    BY <1>1, TypeParts DEF IInv, Tick, TypeOK, Limits
  <2> QED
    BY <1>1, <2>1 DEF IInv, Tick
<1>2. CASE ExecuteNothing
  <2>1. TypeOK'
    BY <1>2, TypeParts, EmptyList DEF IInv, ExecuteNothing, TypeOK, Limits
  <2> QED
    BY <1>2, <2>1, NothingLeft DEF IInv, ExecuteNothing
<1>3. CASE Disconnect
  <2>1. TypeOK'
    BY <1>3, TypeParts DEF IInv, Disconnect, TypeOK, Limits
  <2> QED
    BY <1>3, <2>1 DEF IInv, Disconnect
<1>4. CASE Restart
  <2>1. TypeOK'
    BY <1>4, TypeParts, EmptyList DEF IInv, Restart, TypeOK, Limits
  <2> QED
    BY <1>4, <2>1, NothingLeft DEF IInv, Restart
<1>5. CASE UNCHANGED vars
  <2>1. TypeOK'
    BY <1>5, TypeParts DEF IInv, vars, TypeOK, Limits
  <2> QED
    BY <1>5, <2>1 DEF IInv, vars
<1> QED
  BY <1>1, <1>2, <1>3, <1>4, <1>5, BeginsIInv, ExecuteInsertIInv, ExecuteCommitIInv
     DEF Next

(* What a request can find is what the invariant says, for every set of    *)
(* forms and for every field that may be missing, whether or not requests  *)
(* share a second.                                                         *)
THEOREM Inductive == Spec => []IInv
<1>1. Init => IInv
  BY InitIInv
<1>2. IInv /\ [Next]_vars => IInv'
  BY NextIInv
<1> QED
  BY <1>1, <1>2, PTL DEF Spec

(* Every variable keeps its type: an empty field never reaches a table.    *)
THEOREM TypeCorrect == Spec => []TypeOK
<1>1. IInv => TypeOK
  BY DEF IInv
<1> QED
  BY <1>1, Inductive, PTL

-----------------------------------------------------------------------------
\* Forms

LEMMA HealsStep ==
    ASSUME IInv, [Next]_vars, handler = "submit", committed' # committed,
           NEW t \in Limits, NEW u \in Limits
    PROVE  committed'[t] = committed'[u]
<1>1. ExecuteCommit
  BY DEF Next, vars, Tick, Main, AutoButton, ManuButton, OpenButton, CloseButton,
         Submit, Begin, ExecuteInsert, ExecuteNothing, Disconnect, Restart
<1>2. /\ connected /\ program # <<>> /\ Head(program).table = "" /\ committed' = view
      /\ Request(handler, program) /\ Fits(view)
  BY <1>1, TypeParts DEF ExecuteCommit, IInv
<1>3. PICK f \in Forms :
        \A y \in Limits : Becomes(program, view, y, f) \/ Becomes(program, view, y, Empty)
  BY <1>2 DEF IInv, OneForm
<1>4. \A y \in Tables : \A x : Becomes(program, view, y, x) <=> view[y] = x
  BY <1>2, CommitFinds
<1>5. ASSUME NEW y \in Limits PROVE view[y] = f
  <2>1. view[y] = f \/ view[y] = Empty
    BY <1>3, <1>4, TableNames
  <2>2. view[y] # Empty
    BY <1>2, FormsAssumption DEF Fits, Empty
  <2> QED
    BY <2>1, <2>2
<1> QED
  BY <1>2, <1>5

(* Whatever half forms are about, a form that is served to its own commit  *)
(* leaves the limits of one form in the tables (submit, reset).            *)
THEOREM FormsHeal == Spec => CompleteFormHeals
<1>1. ASSUME IInv, [Next]_vars
      PROVE  [handler = "submit" /\ committed' # committed
                => \A t, u \in Range(LimitTables) : committed'[t] = committed'[u]]_vars
  BY <1>1, HealsStep DEF Limits
<1>2. IInv /\ [Next]_vars =>
        [handler = "submit" /\ committed' # committed
           => \A t, u \in Range(LimitTables) : committed'[t] = committed'[u]]_vars
  BY <1>1
<1> QED
  BY <1>2, Inductive, PTL DEF Spec, CompleteFormHeals

-----------------------------------------------------------------------------
\* Buttons

(* What becomes of a table that a request writes, and of one it does not.  *)
LEMMA Written ==
    ASSUME NEW p, OncePerTable(p), NEW v
    PROVE  \A i \in 1..Len(p) : p[i].table # "" =>
              \A x : Becomes(p, v, p[i].table, x) <=> x = p[i].value
  BY DEF OncePerTable, Becomes

LEMMA NotWritten ==
    ASSUME NEW p, NEW t, \A i \in 1..Len(p) : p[i].table # t, NEW v
    PROVE  \A x : Becomes(p, v, t, x) <=> v[t] = x
  BY DEF Becomes

LEMMA SoundSame ==
    ASSUME NEW p, NEW v, NEW q, NEW w, Sound(p, v),
           \A t \in Buttons : \A x : Becomes(p, v, t, x) <=> Becomes(q, w, t, x)
    PROVE  Sound(q, w)
  BY DEF Sound, Buttons

(* A request that has nothing to do with buttons leaves them alone.        *)
LEMMA NoButtons ==
    ASSUME NEW p, \A i \in 1..Len(p) : p[i].table \notin Buttons, NEW v
    PROVE  Sound(p, v) <=> Sound(<<>>, v)
<1>1. \A t \in Buttons : \A x : Becomes(p, v, t, x) <=> v[t] = x
  BY NotWritten
<1>2. \A t \in Buttons : \A x : Becomes(<<>>, v, t, x) <=> v[t] = x
  BY NothingLeft, TableNames
<1> QED
  BY <1>1, <1>2, SoundSame

LEMMA CommitSound == ASSUME NEW v PROVE Sound(<<Commit>>, v) <=> Sound(<<>>, v)
<1>1. \A i \in 1..Len(<<Commit>>) : <<Commit>>[i] = Commit
  OBVIOUS
<1>2. Commit.table \notin Buttons
  BY DEF Commit, Insert, Buttons
<1> QED
  BY <1>1, <1>2, NoButtons

(* What is said of the view before the request of a button holds of what   *)
(* it makes of the view.                                                   *)
LEMMA AutoSound ==
    ASSUME NEW v
    PROVE  Sound(<<Insert("AutoModus", 1), Insert("ManOpen", 0), Insert("ManClose", 0),
                   Commit, Commit>>, v)
<1> DEFINE p == <<Insert("AutoModus", 1), Insert("ManOpen", 0), Insert("ManClose", 0),
                  Commit, Commit>>
<1>1. OncePerTable(p)
  BY ButtonRequests DEF Request
<1>2. /\ 1 \in 1..Len(p) /\ 2 \in 1..Len(p) /\ 3 \in 1..Len(p)
      /\ p[2].table = "ManOpen" /\ p[2].value = 0
      /\ p[3].table = "ManClose" /\ p[3].value = 0
  BY DEF Insert
<1> HIDE DEF p
<1>3. \A i \in 1..Len(p) : p[i].table # "" =>
         \A x : Becomes(p, v, p[i].table, x) <=> x = p[i].value
  BY <1>1, Written
<1>4. \A x : Becomes(p, v, "ManOpen", x) <=> x = 0
  BY <1>2, <1>3
<1>5. \A x : Becomes(p, v, "ManClose", x) <=> x = 0
  BY <1>2, <1>3
<1>6. Sound(p, v)
  BY <1>4, <1>5 DEF Sound
<1> QED
  BY <1>6 DEF p

LEMMA ManuSound ==
    ASSUME NEW v, Sound(<<>>, v)
    PROVE  Sound(<<Insert("AutoModus", 0), Commit, Commit>>, v)
<1> DEFINE p == <<Insert("AutoModus", 0), Commit, Commit>>
<1>1. OncePerTable(p)
  BY ButtonRequests DEF Request
<1>2. /\ 1 \in 1..Len(p) /\ p[1].table = "AutoModus" /\ p[1].value = 0
      /\ \A i \in 1..Len(p) : p[i].table # "ManOpen" /\ p[i].table # "ManClose"
  <2>1. Len(p) = 3 /\ p[1] = Insert("AutoModus", 0) /\ p[2] = Commit /\ p[3] = Commit
    OBVIOUS
  <2> HIDE DEF p
  <2>2. 1 \in 1..3 /\ \A i \in 1..3 : i = 1 \/ i = 2 \/ i = 3
    OBVIOUS
  <2>3. /\ Insert("AutoModus", 0).table = "AutoModus" /\ Insert("AutoModus", 0).value = 0
        /\ Commit.table = ""
    BY DEF Insert, Commit
  <2>4. \A i \in 1..3 : p[i].table # "ManOpen" /\ p[i].table # "ManClose"
    BY <2>1, <2>2, <2>3
  <2> QED
    BY <2>1, <2>2, <2>3, <2>4
<1> HIDE DEF p
<1>3. \A i \in 1..Len(p) : p[i].table # "" =>
         \A x : Becomes(p, v, p[i].table, x) <=> x = p[i].value
  BY <1>1, Written
<1>4. \A x : Becomes(p, v, "AutoModus", x) <=> x = 0
  BY <1>2, <1>3
<1>5. \A x : Becomes(p, v, "ManOpen", x) <=> v["ManOpen"] = x
  BY <1>2, NotWritten
<1>6. \A x : Becomes(p, v, "ManClose", x) <=> v["ManClose"] = x
  BY <1>2, NotWritten
<1>7. ~(v["ManOpen"] = 1 /\ v["ManClose"] = 1)
  BY NothingLeft, TableNames DEF Sound, Buttons
<1>8. Sound(p, v)
  BY <1>4, <1>5, <1>6, <1>7 DEF Sound
<1> QED
  BY <1>8 DEF p

LEMMA PressedMakes ==
    ASSUME NEW p, OncePerTable(p), NEW i \in 1..Len(p), NEW j \in 1..Len(p),
           p[i].table = "ManOpen", p[j].table = "ManClose",
           \A k \in 1..Len(p) : p[k].table # "AutoModus", NEW v
    PROVE  /\ \A x : Becomes(p, v, "ManOpen", x) <=> x = p[i].value
           /\ \A x : Becomes(p, v, "ManClose", x) <=> x = p[j].value
           /\ \A x : Becomes(p, v, "AutoModus", x) <=> v["AutoModus"] = x
<1>1. \A k \in 1..Len(p) : p[k].table # "" =>
         \A x : Becomes(p, v, p[k].table, x) <=> x = p[k].value
  BY Written
<1>2. p[i].table # "" /\ p[j].table # ""
  OBVIOUS
<1>3. /\ \A x : Becomes(p, v, p[i].table, x) <=> x = p[i].value
      /\ \A x : Becomes(p, v, p[j].table, x) <=> x = p[j].value
  BY <1>1, <1>2
<1>4. \A x : Becomes(p, v, "AutoModus", x) <=> v["AutoModus"] = x
  BY NotWritten
<1> QED
  BY <1>3, <1>4

LEMMA OpenCloseSound ==
    ASSUME NEW v, v["AutoModus"] = 0, NEW x \in {0, 1}, NEW y \in {0, 1}, x # y
    PROVE  Sound(<<Insert("ManOpen", x), Insert("ManClose", y), Commit, Commit>>, v)
<1> DEFINE p == <<Insert("ManOpen", x), Insert("ManClose", y), Commit, Commit>>
<1>1. OncePerTable(p)
  BY ButtonRequests DEF Request
<1>2. /\ Len(p) = 4 /\ p[1] = Insert("ManOpen", x) /\ p[2] = Insert("ManClose", y)
      /\ p[3] = Commit /\ p[4] = Commit
  OBVIOUS
<1> HIDE DEF p
<1>3. 1 \in 1..4 /\ 2 \in 1..4 /\ \A i \in 1..4 : i = 1 \/ i = 2 \/ i = 3 \/ i = 4
  OBVIOUS
<1>4. /\ Insert("ManOpen", x).table = "ManOpen" /\ Insert("ManOpen", x).value = x
      /\ Insert("ManClose", y).table = "ManClose" /\ Insert("ManClose", y).value = y
      /\ Commit.table = ""
  BY DEF Insert, Commit
<1>5. \A i \in 1..Len(p) : p[i].table # "AutoModus"
  BY <1>2, <1>3, <1>4
<1>6. 1 \in 1..Len(p) /\ 2 \in 1..Len(p)
  BY <1>2, <1>3
<1>7. p[1].table = "ManOpen" /\ p[2].table = "ManClose"
  BY <1>2, <1>4
<1>8. /\ \A z : Becomes(p, v, "ManOpen", z) <=> z = x
      /\ \A z : Becomes(p, v, "ManClose", z) <=> z = y
      /\ \A z : Becomes(p, v, "AutoModus", z) <=> z = 0
  <2>1. /\ \A z : Becomes(p, v, "ManOpen", z) <=> z = p[1].value
        /\ \A z : Becomes(p, v, "ManClose", z) <=> z = p[2].value
        /\ \A z : Becomes(p, v, "AutoModus", z) <=> v["AutoModus"] = z
    BY <1>1, <1>5, <1>6, <1>7, PressedMakes
  <2> QED
    BY ZenonT(30), <2>1, <1>2, <1>4
<1>9. Sound(p, v)
  BY <1>8 DEF Sound
<1> QED
  BY <1>9 DEF p

LEMMA SpacedInit == ASSUME Init PROVE SpacedInv
<1>1. program = <<>> /\ view = committed
  BY DEF Init
<1>2. /\ committed["AutoModus"] = 1 /\ committed["ManOpen"] = 0
      /\ committed["ManClose"] = 0
  BY TableNames, Zenon DEF Init, Buttons, Flags
<1>3. \A t \in Buttons : \A x : Becomes(<<>>, committed, t, x) <=> committed[t] = x
  BY NothingLeft, TableNames
<1>4. Sound(<<>>, committed)
  BY <1>2, <1>3 DEF Sound, Buttons
<1> QED
  BY <1>1, <1>4, EmptyList DEF SpacedInv

LEMMA SpacedBegin ==
    ASSUME SpacedInv, Spaced, NEW h, NEW p, Begin(h, p),
           Sound(<<>>, view) => Sound(p, view)
    PROVE  SpacedInv'
  BY EmptyList DEF SpacedInv, Begin

LEMMA SpacedBegins ==
    ASSUME IInv, SpacedInv, Spaced,
           \/ Main \/ AutoButton \/ ManuButton \/ OpenButton \/ CloseButton
           \/ \E f \in Forms, missing \in MayMiss \cup {0} : Submit(f, missing)
    PROVE  SpacedInv'
<1>1. CASE Main
  BY <1>1, SpacedBegin, CommitSound DEF Main
<1>2. CASE AutoButton
  BY <1>2, SpacedBegin, AutoSound DEF AutoButton
<1>3. CASE ManuButton
  BY <1>3, SpacedBegin, ManuSound DEF ManuButton
<1>4. CASE OpenButton
  <2>1. CASE view["AutoModus"] = 0
    BY <1>4, <2>1, SpacedBegin, OpenCloseSound DEF OpenButton
  <2>2. CASE view["AutoModus"] # 0
    BY <1>4, <2>2, SpacedBegin, CommitSound DEF OpenButton
  <2> QED
    BY <2>1, <2>2
<1>5. CASE CloseButton
  <2>1. CASE view["AutoModus"] = 0
    BY <1>5, <2>1, SpacedBegin, OpenCloseSound DEF CloseButton
  <2>2. CASE view["AutoModus"] # 0
    BY <1>5, <2>2, SpacedBegin, CommitSound DEF CloseButton
  <2> QED
    BY <2>1, <2>2
<1>6. CASE \E f \in Forms, missing \in MayMiss \cup {0} : Submit(f, missing)
  <2>1. PICK f \in Forms, missing \in MayMiss \cup {0} : Submit(f, missing)
    BY <1>6
  <2>2. Begin("submit", FormList(f, missing))
    BY <2>1 DEF Submit, FormList
  <2>3. \A i \in 1..Len(FormList(f, missing)) : FormList(f, missing)[i].table \notin Buttons
    BY FormRequest DEF Request, Kinds
  <2> QED
    BY <2>2, <2>3, NoButtons, SpacedBegin
<1> QED
  BY <1>1, <1>2, <1>3, <1>4, <1>5, <1>6

(* What is left of a request writes tables without a row of this second,   *)
(* also after its next statement.                                          *)
LEMMA TailUnstamped ==
    ASSUME NEW h, NEW p, Request(h, p), p # <<>>, NEW s,
           \A i \in 1..Len(p) : p[i].table \notin s
    PROVE  /\ \A i \in 1..Len(Tail(p)) : Tail(p)[i].table \notin s
           /\ Head(p).table # "" =>
                 \A i \in 1..Len(Tail(p)) : Tail(p)[i].table # Head(p).table
<1>1. /\ 1 \in 1..Len(p) /\ Head(p) = p[1]
      /\ \A i \in 1..Len(Tail(p)) : i + 1 \in 1..Len(p) /\ i + 1 # 1
      /\ \A i \in 1..Len(Tail(p)) : Tail(p)[i] = p[i + 1]
  BY Places DEF Request
<1>2. \A i \in 1..Len(Tail(p)) : \E j \in 1..Len(p) : j # 1 /\ Tail(p)[i] = p[j]
  BY <1>1
<1>3. Head(p).table # "" => \A j \in 1..Len(p) : j # 1 => p[j].table # Head(p).table
  BY <1>1 DEF Request, OncePerTable
<1> QED
  BY <1>2, <1>3

LEMMA SpacedInsert == ASSUME IInv, SpacedInv, ExecuteInsert PROVE SpacedInv'
<1>1. /\ committed' = committed /\ connected /\ connected'
      /\ program # <<>> /\ Head(program).table # ""
      /\ Request(handler, program) /\ Sound(program, view)
      /\ \A i \in 1..Len(program) : program[i].table \notin stamped
      /\ DOMAIN view = Tables
  BY TypeParts DEF ExecuteInsert, IInv, SpacedInv, Fits
<1>2. CASE program' # <<>> \/ view' # view
  <2>1. /\ view' = [view EXCEPT ![Head(program).table] = Head(program).value]
        /\ stamped' = stamped \cup {Head(program).table}
        /\ program' = Tail(program)
    BY <1>2, InsertMoves
  <2>2. \A t \in Buttons : \A x :
           Becomes(program, view, t, x) <=> Becomes(program', view', t, x)
    BY <1>1, <2>1, InsertMakes, TableNames
  <2>3. Sound(program', view')
    BY <1>1, <2>2, SoundSame
  <2>4. \A i \in 1..Len(program') : program'[i].table \notin stamped'
    BY <1>1, <2>1, TailUnstamped
  <2> QED
    BY <1>1, <2>3, <2>4 DEF SpacedInv
<1>3. CASE program' = <<>> /\ view' = view
  <2>1. Sound(<<>>, view)
    <3>1. CASE /\ Tail(program) = <<>>
               /\ [view EXCEPT ![Head(program).table] = Head(program).value] = view
      <4>1. \A t \in Buttons : \A x :
               Becomes(Tail(program),
                       [view EXCEPT ![Head(program).table] = Head(program).value], t, x)
                  <=> Becomes(program, view, t, x)
        BY <1>1, InsertMakes, TableNames
      <4>2. \A t \in Buttons : \A x :
               Becomes(program, view, t, x) <=> Becomes(<<>>, view, t, x)
        BY <3>1, <4>1
      <4> QED
        BY <1>1, <4>2, SoundSame
    <3>2. CASE Head(program).table \in stamped
      <4>1. 1 \in 1..Len(program) /\ Head(program) = program[1]
        BY <1>1, Places DEF Request
      <4> QED
        BY <1>1, <3>2, <4>1
    <3>3. CASE Head(program).table \in Limits
      <4>1. 1 \in 1..Len(program) /\ Head(program) = program[1]
        BY <1>1, Places DEF Request
      <4>2. \A i \in 1..Len(program) : program[i].table \notin Buttons
        BY <1>1, <3>3, <4>1 DEF Request, Kinds
      <4> QED
        BY <1>1, <4>2, NoButtons
    <3> QED
      BY <1>3, <3>1, <3>2, <3>3 DEF ExecuteInsert, Limits
  <2> QED
    BY <1>1, <1>3, <2>1, EmptyList DEF SpacedInv
<1> QED
  BY <1>2, <1>3

LEMMA SpacedCommit == ASSUME IInv, SpacedInv, ExecuteCommit PROVE SpacedInv'
<1>1. /\ committed' = view /\ view' = view /\ connected /\ connected' /\ stamped' = stamped
      /\ program # <<>> /\ Head(program).table = "" /\ program' = Tail(program)
      /\ Request(handler, program) /\ Sound(program, view)
      /\ \A i \in 1..Len(program) : program[i].table \notin stamped
  BY DEF ExecuteCommit, IInv, SpacedInv
<1>2. \A t \in Buttons : \A x : Becomes(program, view, t, x) <=> view[t] = x
  BY <1>1, CommitFinds, TableNames
<1>3. \A t \in Buttons : \A x : Becomes(Tail(program), view, t, x) <=> view[t] = x
  <2>1. Request(handler, Tail(program))
    BY <1>1, TailRequest
  <2>2. Tail(program) # <<>> => Head(Tail(program)).table = ""
    BY <1>1, CommitsFollow
  <2> QED
    BY <2>1, <2>2, CommitFinds, TableNames
<1>4. \A t \in Buttons : \A x : Becomes(<<>>, view, t, x) <=> view[t] = x
  BY NothingLeft, TableNames
<1>5. Sound(Tail(program), view) /\ Sound(<<>>, view)
  <2>1. \A t \in Buttons : \A x :
           Becomes(program, view, t, x) <=> Becomes(Tail(program), view, t, x)
    BY <1>2, <1>3
  <2>2. \A t \in Buttons : \A x :
           Becomes(program, view, t, x) <=> Becomes(<<>>, view, t, x)
    BY <1>2, <1>4
  <2>3. Sound(Tail(program), view)
    BY <1>1, <2>1, SoundSame
  <2>4. Sound(<<>>, view)
    BY <1>1, <2>2, SoundSame
  <2> QED
    BY <2>3, <2>4
<1>6. \A i \in 1..Len(Tail(program)) : Tail(program)[i].table \notin stamped
  BY <1>1, TailUnstamped
<1> QED
  BY <1>1, <1>5, <1>6 DEF SpacedInv

LEMMA SpacedNext ==
    ASSUME Spaced, IInv, SpacedInv, [Next]_vars
    PROVE  SpacedInv'
<1>1. CASE Tick
  BY <1>1 DEF SpacedInv, Tick
<1>2. CASE ExecuteNothing
  BY <1>2, EmptyList DEF SpacedInv, ExecuteNothing
<1>3. CASE Disconnect
  BY <1>3 DEF SpacedInv, Disconnect
<1>4. CASE Restart
  BY <1>4, EmptyList DEF SpacedInv, Restart
<1>5. CASE UNCHANGED vars
  BY <1>5 DEF SpacedInv, vars
<1> QED
  BY <1>1, <1>2, <1>3, <1>4, <1>5, SpacedBegins, SpacedInsert, SpacedCommit DEF Next

(* When every request starts in a second of its own, what the buttons say  *)
(* is never contradictory, nor is what the request at work leaves of it.   *)
THEOREM SpacedInductive == ASSUME Spaced PROVE Spec => []SpacedInv
<1>1. Init => SpacedInv
  BY SpacedInit
<1>2. IInv /\ SpacedInv /\ [Next]_vars => SpacedInv'
  BY SpacedNext
<1> QED
  BY <1>1, <1>2, Inductive, PTL DEF Spec

LEMMA SpacedMeans ==
    ASSUME SpacedInv
    PROVE  ButtonsExclusive /\ AutoMeansNoButton
<1>1. \A t \in Buttons : \A x : Becomes(<<>>, committed, t, x) <=> committed[t] = x
  BY NothingLeft, TableNames
<1> QED
  BY <1>1 DEF SpacedInv, Sound, Buttons, ButtonsExclusive, AutoMeansNoButton

(* Open resets Close and Close resets Open, whatever breaks off half way,  *)
(* provided that requests do not share a second.                           *)
THEOREM ButtonsStayExclusive == ASSUME Spaced PROVE Spec => []ButtonsExclusive
<1>1. SpacedInv => ButtonsExclusive
  BY SpacedMeans
<1> QED
  BY <1>1, SpacedInductive, PTL

(* Under the same condition the controller finds no button pressed in      *)
(* automatic mode.                                                         *)
THEOREM AutoReleasesButtons == ASSUME Spaced PROVE Spec => []AutoMeansNoButton
<1>1. SpacedInv => AutoMeansNoButton
  BY SpacedMeans
<1> QED
  BY <1>1, SpacedInductive, PTL

=============================================================================
