# SmartWindow in TLA+

A window that opens by itself: a controller on a Raspberry Pi decides from the
values of two sensor nodes, one of which also drives the window, and from the
limits that a user sets on a web page. This directory models the parts of it
that decide, drive and store, and the closed loop that the decision loop, the
receive loop, the network and the node form together. The modules are checked
with TLC on small instances, and the safety of the components and of the loop is proved with
TLAPS for all of them.

Paths below are relative to the repository (`src/` here). Short names:
*controller* = `RaspberryPi/Window_Controller/main_controller.cpp`,
*database access* = `write_read.cpp` beside it, *node* =
`microController/phytec/main.c`, *web server* = `Webserver/Webserver.py`,
*schema* = `Webserver/database_tables.sql`, *description* =
`Webserver/templates/Description.html`.

## The system

| part | state | operations | talks to |
| --- | --- | --- | --- |
| decision loop (controller, `decisionLoop`) | 18 booleans of a state chart, 4 alarm latches, the values last read | one endless pass: read ~20 tables, move the latches, write the alarm states, move the chart, multicast Open or Close, sleep | reads all tables, writes `*_AlarmState`, multicasts to the nodes |
| receive loop (controller, `receiveLoop`) | none of its own | a datagram `PUT_<sensor>_<position>/<value>` becomes a row of `<sensor>_<position>`; `PUT_Win/Open` and `PUT_Win/Close` become a row of `Win_Open` | hears the nodes, writes tables |
| main thread (controller, `main`) | none | multicasts `GET_All` periodically | the nodes |
| database access | a session per call | newest value of a table by two queries (0 when one fails); INSERT with `NOW()` | MySQL |
| node, communication thread | current command, one request | take a datagram, hand the command to the main thread, wait for its message, answer the sender | the controller over UDP, the main thread by messages |
| node, main thread | servo position, `b_openWindow`, `b_windowIsDriving`, the latest measurement | measure; drive the servo a step per turn; report the end | sensors, servo |
| web server | one database connection, with its open transaction | Home, Auto, Manu, Open, Close, Submit, Reset, pages that only read | MySQL |
| schema | tables of (id, unique time stamp, value) | | |

The controller's threads share nothing but the database; the web server shares
the same database. The nodes are reached by datagrams, which can get lost.

### What is hard

* **The state chart** is thirty `if`s over eighteen booleans, evaluated one
  after the other within a pass, each seeing what the ones before have done. Its
  inputs are rows of different ages and zeros of failed queries.
* **Repetition and confirmation**: a command is repeated until `Win_Open`
  confirms it, and `Win_Open` is what an acknowledgement of the node says.
* **Two threads of the node wait for each other's messages**; the struct with the
  measurement is shared without a lock.
* **The servo's bounds**: set before the step, tested after it; a reset forgets
  where the window is.
* **A loop of stale values**: `Win_Open` is read at the start of a pass, the command
  leaves seconds later, the node drives for seconds and acknowledges, the receive
  loop writes in between; each datagram can get lost, copies of a command queue
  up, and each of the programs can start again on its own.
* **Sessions** that a failed `mysql_select_db` or query leaves open take the server's
  places, which makes further calls fail.
* **One row per second**: the time stamps are unique, so the second row of a
  second is refused; in the web server this ends a request half way, with what
  it has inserted still in the open transaction.

`PROJECT.json` lists these hazards line by line, with the properties aimed at
them.

### What makes the parts correct

* Decision loop: one state at any time; commands that never contradict each
  other, are repeated until confirmed and are never an Open for a window that is
  open; rows of the chart are left only through `init`, which closes first;
  a lasting priority is obeyed; a room that has settled ends the openings; the display
  agrees with the latches.
* Receive loop: `Win_Open` follows the acknowledgements, and never the
  controller's own commands.
* Database access: a value that is returned was the newest one during the call;
  sessions are given back; reads work again after an outage.
* The closed loop: when the chart rests, the window is where it should be and nothing is under
  way that could move it; the window moves only while the chart wants it to; noise
  that lasts closes it; an alarm that lasts opens it, whatever has failed before.
* Node: every request is answered, completely and in order; the threads never
  wait for each other; an acknowledgement is true; a report is one measurement.
* Web server: what others see at a commit is what a request meant - one button,
  no button in automatic mode, the limits of one form.

## The modules

| module | what it is |
| --- | --- |
| `Alarms` | the arithmetic of a pass: thresholds, latches, displayed states (pure operators) |
| `DecisionLoop` | the decision loop; extends `Alarms` |
| `WindowCommand` | abstract: what the decision loop promises the window |
| `DecisionLoopProofs` | theorems about `DecisionLoop` and their proofs |
| `MCDecisionLoop` | the sets of readings for TLC |
| `SensorNode` | the node, both threads and the servo, with and without `IN` |
| `NodePromise` | abstract: what the node promises its clients |
| `SensorNodeProofs` | theorems about `SensorNode` and their proofs |
| `SmartWindow` | the closed loop: an instance of `DecisionLoop` and one of `SensorNode`, the receive loop, the main thread, `Win_Open` and the link |
| `SmartWindowProofs` | theorems about `SmartWindow` and their proofs, which use those about its two parts |
| `MCSmartWindow` | its sets of readings for TLC |
| `DatabaseAccess` | the calls of `write_read.cpp`, statement by statement, and the server's sessions |
| `LatestValue` | abstract: what a reader of the database is promised |
| `DatabaseAccessProofs` | theorems about `DatabaseAccess` and their proofs |
| `Webserver` | the requests of the web server that write |
| `WebserverProofs` | theorems about `Webserver` and their proofs |

Each `\* Fault for <property>` definition is a wrong version of the definition that
follows it; with it in place TLC finds the property violated (`mutants` in
`PROJECT.json`). They are not part of the specifications.

### DecisionLoop and the code

`active` is the set of the booleans that are true: `<<0,0>>` is `init`, `<<0,1>>`
`state0`, `<<p,k>>` is `state<p><k>`. `alarm` holds the latches, `reading` the other
locals of a pass, `sent` what the pass has multicast, `shown` the newest rows of
the alarm-state tables. `Pass(r)` is one turn of `while(1)` with `r` found in
the database: latches in the order of the code, `ShownAfter` for the INSERTs,
`ChartPass` for transitions 0 to 4.7 in the order of the text, `Commands` for the
assignments under the chart. A pass is one action because nothing else can see
the loop's locals; that the database changes *during* a pass is covered by what
`r` may be: any combination of values, a fresh button beside a stale window
position included. The row that `Humidity_AlarmState` ends with depends on the
clock (two INSERTs in a row, the second refused if the second has not passed),
so it is a choice. The air-quality state goes to `AirQuality_AlarmState`; the
schema has `Air_Quality_AlarmState`, so nothing becomes visible and there is
nothing to model. The locals no decision depends on (air pressure, inner volume,
outer air quality) are left out. The width of `int` is not modelled: the values
come from sensors and forms far inside it.

### WindowCommand

Commands and the position that the pass has read. A pass that reads the
window closed may send nothing, Open or Close, but must repeat an Open of the pass
before; a pass that reads it open may send nothing or Close, and must repeat a
Close. Never both commands. `KeepsPromise` is this specification under the
mapping `commands <- sent`, `seen <- reading.winOpen`.

### SensorNode and the code

`commPc` and `mainPc` say what each thread is about to do; `request`, `command`,
`answer` belong to the communication thread, `order`, `driving`, `canOpen`, `pos`
to the main thread; `mailbox` is the message queue of the communication thread;
`servo` is the position last set and `data` tells one measurement from the next.
One action per blocking call and per turn of the drive: `Receive` (`recvfrom` and the
comparison of the text), `HandOver` (`msg_send`, which needs the main thread in
`msg_receive`, as it has no queue), `TakeReply`, `Report` (one `pp_send` of
five), `Acknowledge`; `InitAll`, `Measure`, `DriveOpen`, `DriveClose`,
`NoNeedToDrive`, `NoCase`, `Reply`. `Reboot` starts the program again and leaves the
servo where it is. RIOT's `msg_send`, `msg_receive` and `servo_set` are modelled
from how the program uses them: a thread without a queue must be receiving, a
message to a thread that has ended is dropped, the servo clamps to its bounds.
The scheduling runs `initAll` far enough to set `main_id` before the
communication thread takes its first datagram: both threads have the same priority,
and the new one waits for the creator to block. Datagrams stay at the socket and
never come into the message queue of the thread.

`NodePromise` is a sequential server: accept a command, send its answer message by
message, accept the next; fair in its own steps. The mapping forgets which
thread is at work.

### SmartWindow and the code

`Controller` is `DecisionLoop` and `Node` is `SensorNode` with `IN`, over variables of the
same names; `step` cuts a pass into the query for `Win_Open` (`Read`, into `seen`),
everything up to the assignments (`Decide`, a `Controller!Pass` that found
`seen`) and `sw_send` (`Send`). The other queries of the pass return what
`Readings` allows. `Poll` is the main thread's `GET_All`. `Handle` is a turn of the receive
loop: own datagrams ignored, an acknowledgement becomes a row of `Win_Open` unless the
table has one of this second (`stamped`; `Tick` is the clock), a report goes to tables that
are part of `Readings` here. `Acknowledge` and `Report` are the node's steps together
with their `pp_send`.

The link: one hop, one sender in each direction per socket, so a datagram is lost or
comes in the order of sending, once. It is lost when the network loses it or
the socket's buffer is full (`InboxSize`, `SocketSize`). A multicast also comes back
to the socket of the controller. A row that cannot be inserted because of an
error of the database has the effect of a lost acknowledgement.

Failures, each counted: `Restart` (the controller starts again on the tables as
they are), `Reset` (the node's `Reboot`), `ReceiveError` (`recvfrom` fails and the receive
loop ends while the other threads go on). With `ReadsFail` the query for `Win_Open` can return
the 0 of a failure in any pass.

### DatabaseAccess and the code

One action per statement that the server sees: `Connect`, `SelectDb` (`mysql_select_db`),
`SelectMaxId`, `SelectValue`, `Insert`, `Close`. A call leaves without `close_session` when
its `mysql_select_db` fails after it has connected (`SelectDb`; in `write_in_db` as in the reads) and
a read also when one of its queries does (`SelectFails`). `mysql_init` then initialises the handle
again, so the program has no way to close that session; the server does it after its
`wait_timeout` (`Expire`, external). After the INSERT `write_in_db` closes before it looks at the
error. When connecting fails, at the limit of the server or for another reason, nobody looks
at the error, but `mysql_select_db` then fails without a session, and the call ends: one step
here, as there is nothing in between that others could see. `result` is what the last call has
returned.

`LatestValue`: a call looks once, at some moment between its start and its return,
at the newest value, and returns it or nothing; every call returns. Under the mapping the
look is the first of the two queries: the rows are only appended, so the second
query finds what the first has chosen.

### Webserver and the code

A request is the list (`program`) of INSERTs and commits its function executes,
one per action; `handler` is the function. `view` is what the one connection
of the program sees, `committed` what everyone else sees, `stamped` the tables
that have a row of the current second. An INSERT is refused where the table is
in `stamped` or the form gave nothing; the exception ends the request, and
nothing rolls back what came before - the next commit publishes it. A table
is its newest value. Flask's built-in server serves one request at a time, and
the pages send each request whole. A form is a number; its eight fields carry
that number, or `Empty`. `reset()` is `Submit` with the form `Defaults`.
The connection is opened when the program starts and never again: `Disconnect` is MySQL
ending it (`wait_timeout`, a restart of the server), after which requests fail
(`ExecuteNothing`) until a `Restart` of the program; either undoes what is not committed.
`LimitChange` has no initial row and no reader; it starts as 0 here.

## The runs

| run | shows | bounds |
| --- | --- | --- |
| `decision_control` | `TypeOK`, `OneState`, `RestingOpen`, `TemperatureShown`, `KeepsPromise`, `RowLeftThroughInit`, `PriorityHonoured`, `ComfortEndsOpening` | 280 readings: automatic, or manual with any of the four button settings; window; five rooms, two of them also with noise; priorities 0 to 3; INSERTs of the humidity state can fail |
| `decision_OpenHolds` | a window opened by hand, or for an alarm, is closed again by the pass that reads it open | the same readings |
| `node_in` | `NoMutualWait`, `KeepsPromise` | the real servo bounds and step, inbox of 2, three commands |
| `node_reset` | `TypeOK`, `OneMeasurement`, `OpenAckTrue` | the same, with resets at any moment, failing `initAll`, a text that is no command, three positions of the window at the start |
| `node_out_NoMutualWait` | a window command blocks the node outside for good | without `IN`, no failures |
| `node_CloseAckTrue` | Close is acknowledged with the window open | started with the window open |
| `web` | `TypeOK`, `ButtonsExclusive`, `AutoMeansNoButton`, `CompleteFormHeals` | two forms; the first, third or last field may be empty; requests begin in a new second; the connection can be lost and the program start again at any moment |
| `web_hasty_AutoMeansNoButton` | Automatic within the second of an Open leaves Open pressed in automatic mode | requests at any time |
| `smart_loop` | `TypeOK`, `ClosedAtRest`, `OpenAtRest`, `MovesOnDemand`, `NoiseCloses` | Open by hand in row 4, noise and a warm room in row 2, and changes between them; inbox of 2, socket of 1, `GET_All` at any time; no failures |
| `smart_faults` | `AlarmOpens` | two failures of any kind, failing queries for `Win_Open`; inbox and socket of 1 |
| `smart_restart_NoiseCloses` | a controller started again leaves the window open in noise | one restart of the controller |
| `database` | `TypeOK`, `LeaksExplained`, `KeepsPromise`, `ReadsRecover` | one reader, one writer, two sessions, four rows, three failures of a connect, a `mysql_select_db` or a query |

The bounds and why they are enough:

* *Readings.* The chart depends on a reading only through mode, buttons, window,
  priority and the four latches, and on a latch only through the order of its
  value, its limits and the outer value. The set holds both truth values of each,
  with a room that is warm, one that is comfortable but dry, one that is cold with colder air outside (a Warning
  without an Alarm), one with crossed limits and one that has settled. `Readings` is a constant in the theorems, so the safety part does
  not rest on the choice. 0 is in the sets because a failed query returns 0.
* *Node.* The servo has its real bounds, so the overshoot is the real one.
  Two waiting datagrams are the least that lets one wait behind the one that waits;
  the node keeps no memory of a request beyond `canOpen`, `pos` and `command`.
  `data` as one bit is enough to notice two measurements in a report, since at
  most one measurement can come between two of its datagrams.
* *Closed loop.* The node's state depends on the servo only through its bounds, so
  a short way (2 to 9 in steps of 2, with an overshoot at both ends) does instead of
  the long one. Two datagrams at the node let a late Open wait behind a Close; the
  controller's socket needs one, since datagrams that do not fit are lost as any can
  be (the safety properties are proved for sockets of any size). Rows 2 and 4 are in the
  readings; rows 1 and 3 differ from row 2 in the alarm they look at. Two failures
  are the least that let one meet the repair of another.
* *Database.* Three failures are one more than the sessions, so that the
  sessions run out and come back; four rows let a row arrive at each point of a read.
* *Web.* Two forms are enough to tell a mixture; three of the eight fields cover
  a request that breaks off at the first, a middle and the last table.

`CHECK_DEADLOCK FALSE` is set where the node really stops and nothing resets it: the two
violation runs of the node. In `node_reset` a reset is always possible.

Liveness. `PriorityHonoured` needs no fairness: `Next` is always enabled by a `Pass`, and
the formula itself supposes that the window is read open again and again and
closed again and again; stuttering for ever satisfies it vacuously only where
`reading` no longer changes, which the hypothesis excludes. `ComfortEndsOpening` needs none
either: it supposes that Open is answered in the end, by a window read open, so that a
behaviour that stops while Open is sent is not one it speaks of. `KeepsPromise` of the
node is checked under weak fairness of each thread: they have the same priority,
and each sleeps (`xtimer_usleep`) or blocks in every turn of its loop, so
neither can keep the other from running.

`SmartWindow` assumes that the threads of the controller run (weak fairness of the steps
of a pass and of the receive loop while it lives), that the clock advances, that
the node's threads run, and of the link that of infinitely many commands some reach a
node that has room again and again, and of infinitely many acknowledgements some reach
a socket that is emptied again and again. A node that hangs with a full inbox is
owed nothing. Without the last two nothing can be promised over a network; the code's
own repetition is what makes them enough. No failure is fair: the failures are bounded and may never happen.
`DatabaseAccess` assumes that the callers call again and again, as the loops do, and
that the server closes abandoned sessions in the end.

## What is proved

Every theorem holds for every value of the constants of its module that satisfies the
named assumptions there, unless it says more under "supposes".

### DecisionLoopProofs

For every set of readings and every set of failing writes:

| theorem | states | supposes |
| --- | --- | --- |
| `TypeCorrect` | `Spec => []TypeOK` | |
| `AirQualityNeverAlarms` | `Spec => [](alarm.airQ = FALSE)`: no reading ever sets the air-quality alarm | |
| `OneStateAlways` | `Spec => []OneState` | |
| `RestingOpenAlways` | `Spec => []RestingOpen` | |
| `RowsLeftThroughInit` | `Spec => RowLeftThroughInit` | |
| `SettledOpensNothing` | in automatic mode and a settled room no opening begins in any row, and one that has begun is over in the pass that reads the window open: the steps behind `ComfortEndsOpening` | |
| `PromiseKept` | `Spec => KeepsPromise`: the decision loop implements `WindowCommand` | |
| `TemperatureToldRight` | `Spec => []TemperatureShown` | INSERTs into `Temp_AlarmState` succeed |
| `Inductive` | `Spec => []IInv` | |
| `AlarmCanEnd` | a climate alarm has a reading that resets it exactly if the lower limit is below the upper one | |
| `LatchesExclusive` | no reading both sets and resets a temperature, humidity or noise latch | |

The argument. `OneState` is not inductive in a useful way by itself: that a pass
ends in one state says nothing of which. The invariant `IInv` adds that the
air-quality latch is off, that the commands sent are those of the state, and
that an open step is only rested in under the conditions of `RestingOpen`. The
step: a single `if` (`Fire`) applied to a one-element set gives a one-element
set (`FireFlag`), so a row's seven `if`s do, and a whole table of what a row can
do to a flag follows (`RowStep`, `RowStepFacts`): a row does not touch flags of
other rows, and from its own it goes to its own or to `init`. Four rows and
transition 0 give the facts about a pass (`PassMoves`). That the latch of the air
quality is off (`AirQualityMute`: its two thresholds overlap, and reset comes second) decides that row 4
never rests open in automatic mode. `SettledOpensNothing` adds that a settled reading resets both
climate latches (`SettledResets`, by `LatchesExclusive`). Everything listed above
is read off `IInv` and `PassMoves`; `TemperatureShown` is inductive by itself, as
what is shown after a pass depends on its latch and its reading only.

### SensorNodeProofs

For every servo, every inbox and either build. `ServoAssumption` asks for a step of at
most `LOWER` (so that `pos`, which the code compares as an unsigned number, does not go
below zero) and for a whole number between the bounds (else `START` is `LOWER`, and a
first drive could end a whole step below it); the board's 1800, 2500 and 10 are far from
both.

| theorem | states | supposes |
| --- | --- | --- |
| `TypeCorrect` | `Spec => []TypeOK`: `pos` overshoots a bound by less than a step, the servo keeps between them | |
| `OneMeasurementAlways` | `Spec => []OneMeasurement` | |
| `OpenAckAlwaysTrue` | `Spec => []OpenAckTrue`, through any number of resets | |
| `NeverMutualWait` | `Spec => []NoMutualWait` | the build knows every text it receives; `initAll` succeeds |
| `PromisedSteps` | `Spec` implies the initial states and every step of `NodePromise` (the safety part of `KeepsPromise`) | the same, and no reset |
| `CloseAckTrueFromClosed` | `Spec => []CloseAckTrue` | the window is closed at the start; no reset |
| `Inductive` | `Spec => []IInv` | |

The argument. `IInv` says whose turn it is (`Turns`: while the main thread serves, the
communication thread waits and the mailbox is empty, which is why nothing needs a
lock), what has been sent so far (`Answers`: one acknowledgement, or the first values of
the measurement taken last), which way `pos` allows to drive (`Servo`), and that news of
a finished opening, wherever it is between the main thread and the client, means a
window the program takes for open. `OpenAckTrue` is the end of that chain, and needs the
whole of it. `CloseAckTrue` is the mirror image with `Shut` (a window the program takes for
closed is closed, unless it is being opened), which only a known start gives:
`node_CloseAckTrue` shows what a start with the window open does. For `NeverMutualWait` and
`PromisedSteps` `Serves` is added: the command, the
order, the message and the result at each stage are those of the request. The
hypotheses are what the node outside cannot rely on, and `node_out_NoMutualWait` shows
that `NoMutualWait` fails there. In `PromisedSteps` the mapping turns the
pairs of text and measurement in `answer` into texts; a `Report` is the next
element of `Sensors` (`HeardFacts`), everything between two messages is a stutter.

### WebserverProofs

For every set of forms and any fields that may be missing:

| theorem | states | supposes |
| --- | --- | --- |
| `TypeCorrect` | `Spec => []TypeOK`: an empty field never reaches a table | |
| `FormsHeal` | `Spec => CompleteFormHeals` | |
| `ButtonsStayExclusive` | `Spec => []ButtonsExclusive` | `Spaced`: requests start in a new second |
| `AutoReleasesButtons` | `Spec => []AutoMeansNoButton` | `Spaced` |
| `Inductive`, `SpacedInductive` | the invariants `IInv` and `SpacedInv` | the second `Spaced` |

The argument. The invariants speak of what a request still has to do. `Becomes(p, v, t, x)`
says that table `t` has the value `x` once the statements `p` have been executed on `v`; an
INSERT that succeeds leaves it as it is (`InsertMakes`), because no
request writes a table twice and all write before they commit. So `OneForm(program, view)`
(the limits will be those of one form or stay empty) and `Sound(program, view)` (the
buttons will be exclusive) are invariants, and at the commit, when only commits are left, they speak of
`view` itself. `SpacedInv` also needs that no table a request still has to write is
`stamped`: in a second of its own no button is refused. Without `Spaced` this is false, and
`web_hasty_AutoMeansNoButton` shows what follows.

### DatabaseAccessProofs

For any finite set of callers, any limit of sessions and any number of rows and failures:

| theorem | states | supposes |
| --- | --- | --- |
| `TypeCorrect` | `Spec => []TypeOK` | |
| `LeaksAreFailures` | `Spec => []LeaksExplained` | |
| `ReadsTrue` | `Spec` implies the initial states and every step of `LatestValue` (the safety part of `KeepsPromise`) | |
| `Inductive` | `Spec => []IInv` | |

The argument. A caller's step to another statement keeps the number of busy callers or changes it by
one (`BusyKept`, `BusyMore`, `BusyLess`, from the library's facts about cardinality), and the
sessions change with it. `RowsFound` (the id that the first query has found belongs to a row,
however many rows have been added since) and `OwnStatements` (readers query, writers insert) make
the second query return what the first has seen: `SelectMaxId` is the look of
`LatestValue`, everything after it is a stutter or the return.

### SmartWindowProofs

For every set of readings, every servo, sockets of any size, and any number of failures.
The assumptions are those of the parts (`PartsAssumption`) and that the bounds are numbers
(`BoundsAssumption`).

| theorem | states | supposes |
| --- | --- | --- |
| `PartsKept` | `Spec => []PartsInv`: both parts keep their inductive invariants in the loop | |
| `TypeCorrect` | `Spec => []TypeOK` | |
| `MovesOnDemandAlways` | `Spec => MovesOnDemand` | `Undisturbed` |
| `OpenAtRestAlways` | `Spec => []OpenAtRest` | `Undisturbed` |
| `ClosedAtRestAlways` | `Spec => []ClosedAtRest` | `Undisturbed`; the window is closed at the start |

`Undisturbed` says that the query for `Win_Open` does not fail and that neither program
starts again; the receive loop may end at any moment. Each part of it is needed: TLC finds `MovesOnDemand`
and `ClosedAtRest` violated in the instance of `smart_loop` as soon as the query may
fail, or one restart of the controller or one reset of the node is allowed; and
`ClosedAtRest` as soon as the window may be open at the start.

The argument. Every step of the loop is a pass or leaves the chart alone, and a step of the
node or leaves the node alone (`StepKinds`), so what is proved of the parts carries over;
after a restart the chart is at its start (`RestartChart`). Then: let `c` be the command the chart
wants (`WantedBy`: Open in an opening or open step, else Close) and `d` the other one. A command
waits at the node, is served there, comes back as an acknowledgement at the socket of the
controller and is confirmed in `Win_Open`. `InTurn(c, d)` says that along this way no `d` comes after
a `c`; `InPlace(c, d)` that a `d` that is left at the node finds the window where `d` wants it, so that it
moves nothing, and that a `c` that is served to its end, acknowledged or confirmed has brought the
window where `c` wants it. There is one lemma for each kind of step (`LinkReceive`, `LinkInner`,
`LinkAcknowledge`, `LinkReport`, `LinkMulticast`, `LinkHandle`), and the loss of a
datagram is a case of each. They rest on the order of sending: `NotBehind` survives appending (`Joined`) and
taking the head (`Departed`).

`Agrees(c)` ties the chart to it. A pass turns the chart round only if it has read the
window where `c` wants it; the value may be old by then, but what `Win_Open` has confirmed
of `c` it does not take back while the chart wants `c` (`LinkHandle`), so it is confirmed
still. Then no `d` is left anywhere, and the roles change (`LinkTurned`, `DecideKeeps`). A chart that rests has
read the confirmation (`ChartMoves`), which gives the two properties at rest; a drive is
for a command that does not find the window in place (`DriveMoves` of the node), which can
only be `c`, not confirmed (`DriveOnDemand`).

### Only model-checked

The liveness properties: `PriorityHonoured`, `ComfortEndsOpening`, `NoiseCloses`, `AlarmOpens`, `ReadsRecover` and the
fairness in the two promises of `SensorNode` and `DatabaseAccess` (temporal reasoning from
fairness is outside what the prover does). Every invariant and every action property that
a passing run checks is also stated by a theorem.

## Where the code and its documents disagree

The five runs that expect a violation show it; `findings` in `PROJECT.json`
quotes both sides. In short: a window opened by hand (rows 1 to 3) or for an alarm
(any row) is closed by the pass that reads it open; a controller that starts again
between an Open and its acknowledgement takes the opening window for a closed one, and
leaves it open however loud the street is; the node outside stops for good at the first
window command; a node started with its window open acknowledges Close without moving;
Automatic chosen within a second of Open leaves Open pressed: the mode is inserted, the reset of
the button is refused, and the next request commits that. (When the user comes back to manual mode
the window opens without a click.)

Seen on the way and not a run of their own:

* A defect: the air-quality alarm cannot rise (theorem `AirQualityNeverAlarms`).
  `src/Doc/AirQuality.png` draws a latch that is set above `AirQuality_MAX` and reset at
  `AirQuality_MAX` - 2, `database_tables.sql:74` gives priority 2 to the air quality, and *description*
  (line 63) says that the priority defines which alarm is paid attention to; lines 429 to 432 of the
  *controller* reset the latch from `AirQuality_MAX` - 2 *upwards*. With priority 2 the window
  never opens in automatic mode, and with priority 3 one of the three alarms is always off.
  No property asks for that; the theorem states it of the code.
* Both buttons can be pressed at once: when the second changes between the two INSERTs of a
  Close, an Open in the new second sets `ManOpen`, is refused the reset of `ManClose`,
  and the next request commits that. With both clicks in one second Open's first INSERT is
  refused already, and the click is lost.
* `src/Doc/Temperatur.png` shows OK for a temperature above `Temp_MIN` and below the outer one; the code
  shows OK within the limits, and that is what `TemperatureShown` is about.
* A query for `Win_Open` that fails while the window is open makes a closing chart
  rest: the 0 looks like the confirmation. `ClosedAtRest` is therefore checked without
  failing queries, and `AlarmOpens` shows only that the chart can still open.
* A reset of the node with its window open has the same effect by way of a Close that
  is acknowledged without a movement.
* When `lowpan0` has no address yet at the start, `get_Lowpan0Ipv6Address` fails,
  nobody looks, and the receive loop compares senders with an uninitialised buffer:
  every command then confirms itself (the mutant `HandleOwn` shows what it does to
  `MovesOnDemand`).
* The row of an old priority can still begin to open in the pass that has read the new
  one (the transitions into the opening step come before the ones that look at the
  priority); Open is sent on while the noise alarm is on, until the window answers;
  the humidity state is written only during an alarm; the servo stops one step short
  of the bound it reports.

## What is not modelled

* The vendored MySQL headers and libraries (`xcompile/`): third-party declarations, and
  10,700 of the 12,800 lines that a count of the implementation finds. What is left is
  about 2,100 lines; the modules stand for the parts of them that keep state.
* The text of a datagram and the choice of a sensor table in the receive loop
  (`splitString`, `tableName`): the sensor tables are inputs (`Readings`) of the decision loop.
* Sensor drivers and floating-point conversions of the node; the channel set-up
  of its radio: calls into RIOT, no state of the program. A driver that fails is
  reported as a value like any other.
* `get_latest_value_double`, which nobody calls: it has the steps of the other two reads.
* The dummy loop (never started), the pages and style sheets, the build files.

## Plan

Done: the components and the closed loop modelled and checked, their safety proved, and of what the
liveness properties rest on short of fairness the chart's part for a settled room
(`SettledOpensNothing`). Left, as lemmas of the parts: that the servo's way has an end and each turn of the loop
comes nearer to it, and that a pass with the readings of a lasting alarm and a confirmed window leads
from each step of the chart to the next.
