# Formal models of wb-mqtt-smartweb

`wb-mqtt-smartweb` connects an MQTT broker with SmartWeb heating controllers on
a CAN bus. This directory holds TLA+ models of the program, the TLC
configurations that check them, and TLAPS proofs. Line numbers refer to the
sources beside this directory (`src/src/...`).

## 1. The system

| component | state | operations | threads |
|---|---|---|---|
| **Virtual controller** `MqttToSmartWebGateway` | queue `CanFrames`; `Status`, `SendIAmHereTime`, `ResetConnectionTime`; per output three time points and a mapping point; per control the time of its last update | `Handle`, `SelectTimeout`, five requests, broadcasts, keep-alive, value events, destructor | CAN listener, own task, MQTT driver, owner |
| **Program poller** `SmartWebToMqttGateway` | `KnownPrograms`, `Requests`, `RequestIndex`, `DeviceIds`; devices and controls in the driver | `HandleMapping`, `AddProgram`, `HandleGetValueResponse`, `SetParameter`, command handler, destructor | scheduler, reader, MQTT driver, owner |
| **Reader** `ThreadedCanReader` | bounded queue `Frames` | `Handle`, `Get`, destructor | CAN listener, own thread, owner |
| **Scheduler** `scheduler` | list `Tasks` | `MakeIteration`, `AddTask`, destructor | own thread, owner |
| **CAN port** `CanPort` | list of handlers, `WriteConfirmed` | `Send`, `AddHandler`, `RemoveHandler`, listener | listener, every sender |
| **Configuration** `config_parser` | none after start-up | loading of controllers and classes | one |
| **Conventions** `smart_web_conventions.h` | none | identifiers, `FromDouble`, `ToDouble` | – |
| **main** | none | wiring, signals | one |

Interaction: the port's listener calls `Handle` of each handler under
`HandlersMutex` until one takes the frame. Handlers only queue; the controllers'
tasks and the reader's thread do the work. Everybody calls `Send`, which blocks
until the bus confirms the frame or five seconds pass. The scheduler calls
`HandleMapping` once per `poll_interval_ms`. The MQTT driver calls the value
handlers on its own thread. `main` builds the poller, then the controllers, and
destroys them in reverse.

What is hard: two condition variables waited on without a predicate; work done
between two locks; a task whose turn is held up by Sends and cut short by
exceptions, while six kinds of time point expire; requests appended to a list
another thread walks; a confirmation that does not say which frame it confirms;
destructors that rely on time-outs; configurations in which entries clash,
files are bad or directories absent. `PROJECT.json` lists 40 hazards, each at
its line, with the properties that cover it.

What makes each component correct:

* controller: every accepted request is answered once and in order; a broadcast
  carries the mapping point of the request for that output; broadcasts,
  keep-alive and updates are on time; stale values are not sent; it stops;
* poller: requests match the known programs; none is read out of bounds or
  forgotten; what is polled is shown; commands reach the parameter the control
  shows; nothing is left behind in the driver;
* reader: frames in order, once, lost only when the queue is full;
* scheduler: no task lost, doubled, late, or run more often than its period;
* port: a Send returns normally only when its own frame was confirmed, and never
  needs its time-out while the socket loses nothing; a handler is not removed
  while it is called; the listener comes to an end;
* configuration: bad entries cost only themselves; an output and its sensor are
  one channel; a user's class overrides a built-in one and never the other way
  round; setting a control to what it shows sets what is shown.

## 2. Modules

| module | models | theorems |
|---|---|---|
| `SmartWeb` | identifiers, `FromDouble` with its narrowing | |
| `ControllerPromise` | abstract FIFO request server | |
| `VirtualController` | the controller; implements `ControllerPromise` | `VirtualController_proofs`, `VirtualControllerTiming_proofs` |
| `CanPort` | `Send`, the listener, the list of handlers | `CanPort_proofs` |
| `LossyQueue` | abstract bounded queue with one consumer | |
| `ThreadedCanReader` | the reader; implements `LossyQueue` | `CanReceiver_proofs` |
| `CanReceiver` | port and reader composed, with controllers behind the reader and `main`'s order of destruction; implements `CanPort`, `ThreadedCanReader` and so `LossyQueue` | `CanReceiver_proofs` |
| `Scheduler` | the scheduler and `TPeriodicTask` | `Scheduler_proofs` |
| `SmartWebToMqttGateway` | the poller, on top of `LossyQueue` | `SmartWebToMqttGateway_proofs` |
| `Codecs` | the codecs: raw values, text, and the double arithmetic between | |
| `Config` | `LoadConfig`: controllers and classes; uses `Codecs` | `Config_proofs` |
| `FiniteRecursion` | induction and recursion over the natural numbers, as lemmas the proofs cite | itself |
| `MCVirtualController`, `MCCanReceiver`, `MCScheduler`, `MCSmartWebToMqttGateway`, `MCConfig` | the small instances TLC checks | |

No module declares a RECURSIVE operator.

### VirtualController

`now` is the steady clock. `Urgent = FALSE` lets the clock advance between any
two steps; `Urgent = TRUE` is the idealisation that computation takes no time:
the clock advances only while the task waits for a frame (up to `READ_TIMEOUT`)
or is in a Send (up to `SEND_TIMEOUT`).

`pc` is the task's point in `TaskFn`. One turn of its loop is
`loop`, (`waiting`), `dispatch`, then `iamhere` when idle, or `request`,
(`checkTiming`, `readControl`), (`reply`, `sendReply`), `outputs`,
(`checkTiming`, `readControl`, `sendOutput`)\*, `iamhere`, (`sendIAmHere`).
Steps are cut where another thread can act in between: `Handle`'s push and its
notification (the mutex is released in between), the check of the value
time-out and the read of the control, the read and the end of the Send. The
frame's payload is kept under the two readings its handlers make of it.

* `HandlePush`, `HandleNotify`: `Handle`. `RemoveHandler`, `Disable`: the
  destructor; the join is what `StopsEventually` speaks of. `RemoveHandler`
  takes the mutex the listener holds, hence `bus = "idle"`.
* `Select...`: `SelectTimeout`. A notified wait on an empty queue is undefined
  behaviour; `pc = "undefined"` stands for whatever follows, and no property
  promises anything afterwards. Spurious wake-ups are left out here: they add
  only further ways to that state, or serve a queued frame as a notification
  does.
* `NothingReceived`, `FrameReceived`: lines 507-538. `Get...`,
  `IAmHereRequested`, `Reject`: `handle_request`; a handler that throws goes
  back to `loop` and skips the outputs and the keep-alive, as lines 546-549 do.
* `NextOutput` to `OutputSent`: `send_scheduled_outputs`. A failed Send is
  swallowed by `send_frame`, so `ReplySent` and its like stand for both
  outcomes; an early confirmation is the Send ending before `until`.
* `publishedAt` and `unsent` are history variables.

### Scheduler

Tasks live in a list as in the code: new ones in front, finished ones at the
end, sorted only before a sleep. `goSleep`/`goSleepUntil` are the points at
which the thread holds no lock and is not yet waiting; a notification there is
lost. `WakeSpuriously` is the wake-up without reason the standard allows.

### CanPort

`WriteMutex` is held through a whole Send, so at most one sender is between
`write` (the flag is clear, the frame is not yet written), `check` (the frame is
written, the flag is looked at) and `wait`. The bus is part of the model: `tx`
holds what was written and not transmitted; `Transmit` puts the confirmation
into the receive buffer `rx`, or loses it if the buffer is full. The listener's
`recvmsg` either sets the flag and notifies (`ReadConfirmation`) or begins to
offer a frame (`ReadFrame`); the call of one handler is one step, and while it
lasts (`listener = "call"`) the list cannot change, because `RunHandlers`,
`AddHandler` and `RemoveHandler` take `HandlersMutex`. The write time-out has no
length here: a wait may be given up at any moment. `gaveUp` and `lost` are
history variables.

### ThreadedCanReader and CanReceiver

`Handle` and `Get` hold the mutex, so each is one step except for the wait. The
wait may time out at any moment and may end spuriously; `spurious` remembers
that it did. `CanReceiver` puts the reader into the port's list: a call of it is
`Handle` and the port's `HandlerTakes` or `HandlerPasses` in one step (the
reader's `AcceptFrame` decides, a full queue takes the frame too, and loses it).
Controllers join and leave the list behind the reader; then the reader is
removed, then the port is destroyed.

### SmartWebToMqttGateway

The reader's queue is `LossyQueue` with the reader's limit; `Queue!Take` and
`Queue!Done` bracket the handling of a frame. (The undefined step a spurious
wake-up of the reader may take is not carried over.) Sections under
`RequestMutex` are one step; `AddProgram` is two, because `KnownPrograms` is
filled in before the mutex is taken; `HandleMapping` is two, because
`RequestIndex` is advanced after the Send and outside the mutex. A driver
transaction is one step. Class names are assumed to be unique: with two classes
of one name the code takes whichever its hash map yields first. Parent cycles,
for which the code would not return, are cut at the number of classes
(`RecursionReturns` proves that nothing else is cut). A value
response is kept as the parameter it names and its value; which values a codec
refuses is modelled here, their arithmetic in `Codecs`. From outside `src/`:
`SetRawValue` clears a control's error, and transactions do not fail. That a
program answers only what its classes describe is a property of the bus, hence
of `BusFrames`, and `CommandIsPolled` rests on it: an answer for a parameter of
any other configured class would create a control as well.

### Config and Codecs

`LoadConfig` is a sequence of phases: the file, its controllers one by one, the
built-in and the user's class files one by one. A controller that throws is
dropped, a bad class file skipped, a missing directory is fatal: its exception
is not of the type the loader catches. `loaded[n]` is a controller after the
first `n` of its entries, `MapSensor` of the sensors and then `MapEntry` of the
parameters, in the order of the code; the count of parameters keeps its eight
bits. A class is built from its file as a whole: `Ids` and `First` say what
`std::map::insert` leaves of entries with equal ids, the first (the built-in
GENERIC_RELAY gives 5 and 6 twice, so `periodicOnTime` and `periodicOffTime` are
never shown), and `OrderAfter` where the next kind of controls begins. What the
schemas guarantee of a valid file is `ConfigAssumption`. The loader does not
compare class names; that they are unique is the assumption `GatewayAssumption`
of the poller.

`Codecs` gives what a response shows and what a command sets as functions. A
command's decimal becomes a double, is multiplied by the divisor in double
arithmetic and truncated; `Truncated` computes the result exactly with integers:
the remainder of the decimal's binary expansion tells whether reading it rounded
down, and the position of the product whether multiplying made up for it.

## 3. Runs

| run | fairness | question | result |
|---|---|---|---|
| `controller_safety` | threads, clock | types, `OutputAuthorised`, `PromiseKept`, `StopsEventually` under any interleaving | holds |
| `controller_timed` | – | `KeepAliveTimely`, `OutputTimely`, `UpdatePrompt`, `IdleMeansNoWindow`, `StaleNotSent` with ideal computation | holds |
| `controller_empty_pop` | – | `NoEmptyPop` | **violated** |
| `controller_lost_update` | – | `NoChannelUpdates` | **violated** |
| `controller_starved` | – | `OutputTimely` with unsupported requests | **violated** |
| `scheduler` | thread, notification, clock | types, `Conserved`, `OnTime`, `RateBounded`, `StopsEventually` | holds |
| `scheduler_lost_wakeup` | same | `AddedIsRun` | **violated** |
| `receiver` | threads, listener, bus, Sends | types, `OwnConfirmation`, `CalledIsRegistered`, `SendEnds`, `ListenerStops` of the port; types, `EmptyGetIsSpurious`, `QueuePromise`, `QueuedIsHandled`, `StopsEventually` of the reader behind it | holds |
| `poller` | reader, poller | types, `PolledInBounds`, `RequestsMatchPrograms`, `CommandIsPolled`, `NothingLeftBehind`, `PolledIsShown`, `EveryRequestPolled` | holds |
| `poller_inherited` | – | `PolledIsShown` with an inherited input | **violated** |
| `configuration` | loader | types, `BadControllersDropped`, `CountCoversIndices`, `OutputIsSensor`, `UserOverridesBuiltIn`, `OrdersDistinct`, `CommandSetsWhatIsShown`, `BadEntriesSurvived` | holds |
| `config_missing_directory` | – | `MissingDirectorySurvived` | **violated** |

Bounds, and why they are enough:

* `controller_safety`: one output and one mapped control, which may fail; seven
  frames, one for each fate of a frame (scheduled, answered, answered although
  not a request, refused when replying, refused outright, for another
  controller); a backlog of two, the least in which order shows; a reading
  beyond 16 bits; all durations one, so that every expiry falls inside
  `MaxTime` = 2 and is interleaved with everything else.
* `controller_timed`: the ratios that matter are kept (interval shorter than the
  window, connection time-out equal to the window, keep-alive shorter than the
  interval, value time-out shorter than the window). One turn of the loop takes
  at most `Lap` = `READ_TIMEOUT` + (outputs + 2) Sends, here 4. The window of 9
  is longer than the interval of 3 and one `Lap`, so an output that is sent and
  then not sent again is late (after 8) while its window is still open;
  `OutputSent_once` is caught in this way. The window has room for three
  repetitions in time; that a later one is missed cannot be seen in it, but
  apart from the clock the state after a repetition is one after the first Send.
  An interval of 3 is also long enough for a second request inside the window
  to be answered late if it did not bring the next Send forward
  (`GetOutputValue_late`). `MaxTime` = 11 covers a window and the request for
  the next. Only supported requests arrive; `controller_starved`, with the same
  constants but for the frames, shows why that is needed. `SEND_TIMEOUT` = 1
  stands for the five seconds of an unconfirmed Send. `READ_TIMEOUT` = 1 is long
  against it (one second in the code); both occur in `Lap`, by which the
  deadlines are stated.
* `scheduler`: periods 2 and 12 and runs of up to 3, longer than one period;
  24 time units are two long periods.
* `receiver`: two senders and two Sends, the least in which a confirmation can
  be taken for another Send's; a receive buffer of one, which is full whenever
  it holds anything, so that confirmations are lost; a reader and one controller
  behind it; a frame the reader refuses and two it accepts; a queue of two, the
  least in which the first and the last of it differ: taking the wrong one
  (`Pop_newest`) and dropping the wrong one (`Handle_dropOldest`) are both
  caught. `CanReceiver_proofs` and `CanPort_proofs` cover every other size for
  the safety properties.
* `poller`: two programs; three classes in the shape of the built-in BOILER,
  whose ancestor TEMPERATURE_SOURCE is reached by two paths; announcements with
  a short frame and with an unknown class; answers with a number and with a
  reserved reading, to what is described and what is not; a queue of one, since
  what a longer one does is checked in `receiver` and proved. In
  `poller_inherited` the parent has an input of its own, as a user's class may.
* `configuration`: all combinations of five files, three built-in and five user
  directories. The files hold `src/config.json`, the largest sensor index, the
  parameter indices 254 and 255 (where the count wraps), a sensor and a
  parameter of one key, a sensor given twice, a channel without a control, an
  entry without a mapping. The classes have the shape of GENERIC_RELAY and
  ROOM_DEVICE with every encoding, two that begin with "schedule" and are refused
  (`ScheduleEncodings`), equal ids, absent and empty objects, and
  override each other; directories are absent, empty or hold a bad file. The
  codecs are checked on `Samples`: -300 to 300, the limits and reserved values,
  and multiples of 6000. Of `uint60K` only tenths of minutes are modelled, the
  others having no finite decimal; integers end at 2^31-1, TLC's own limit.

Deadlock is checked in the controller's runs. The others may stop, after the
destructor or at the clock's bound; that nothing stops earlier is what their
liveness properties say.

Fairness: threads are scheduled by the operating system, waits and Sends have
time-outs, and the clock advances, hence weak fairness of each thread's step and
of `Tick`. The owner, having begun to destroy an object, goes on. Nothing is
fair about frames, values, or a wake-up without reason. `ReceiverFairSpec` is
fair to the reader's thread, to the listener (its `select` ends after a second)
together with the handlers it calls, to the bus, which transmits what was
written, and to a Send's own steps, but not to its time-out: that a Send ends
by its confirmation, not by giving up, is what `SendEnds` says. The poller's
fairness supposes that the scheduler runs `HandleMapping` again and again, as
it does once it has run it; `scheduler_lost_wakeup` shows that it may never run
it at all, and then `EveryRequestPolled` does not hold of the whole program.
`ConfigFairSpec` is fair to the one thread that loads the configuration.

### What the violated runs show

* **Empty pop** (`MqttToSmartWebGateway.cpp:166`): the task may take a frame
  between its push and its notification; the notification then ends the next
  wait, and `front()`/`pop()` meet an empty queue.
* **Lost update** (`:446`): the stamp that marks values as sent is taken after
  the Send, so a value that came during it waits for the next interval.
* **Starvation** (`:470`): an unsupported request abandons the turn; requests
  such as the panel's JOURNAL, if they keep coming, stop the broadcasts.
* **Lost wake-up** (`scheduler.cpp:91`): the first `AddTask` may notify before
  the thread sleeps; the list was empty, so the sleep has no end and the bus is
  never polled.
* **Inherited inputs** (`SmartWebToMqttGateway.cpp:448`): polled, but answers
  are looked up in the program's own class and dropped.
* **Missing directory** (`config_parser.cpp:205`): the handler means to go on
  without a class directory, but is for `filesystem_error`, which `IterateDir`
  has turned into a `TNoDirError` (160-161); the process ends with code 6. A
  configuration given with `-c` has no `.d/classes` beside it unless one is made.

Two things the passing runs show are worth knowing. A Send that was given up
(time-out, spurious wake-up) may leave a confirmation behind that the next Send
takes for its own, and so on: `OwnConfirmation` promises nothing after the first.
And `CommandSetsWhatIsShown` is exact only for integers, tenths, names and
switches: with hundredths, thousandths and 60000ths the truncation at
`SmartWebToMqttGateway.h:68` may set the raw value below the one shown (0.29
becomes 28).

One thing was met while modelling and is part of the model, but not of a
property: at `config_parser.cpp:259` the time-out of a parameter's mapping is
looked for in the controller's object, where the schema has none, so a mapped
parameter never goes stale.

Every property of a passing run has a mutant of the model in `PROJECT.json`,
defined beside the definition it changes, that violates it.

## 4. Proofs

`VirtualController_proofs` proves, for all values of the constants that satisfy
`ConstantsAssumption` and `DurationsAssumption`:

* `Inductive`: `Spec => []IInv`. `TypeOK` is not inductive by itself: it does
  not say that the frame being served was accepted, at which points of the loop
  there is one, or that `idx` is in range where an output is read or sent.
  `IInv` adds these, and that a window is open only on a channel with a mapping
  point for this controller and this channel.
* `TypeCorrect`, `OutputsAuthorised`: conjuncts of `IInv`.
* `PromiseHolds`: `Spec => PromiseKept`. The inbox is the queue, with the frame
  at hand in front until its reply is being sent or it is refused. Taking a
  frame is then a stutter, replying and refusing are steps of the abstract
  server.
* `NoWindowWhenIdle`: `IdleMeansNoWindow`, under the added assumptions `Urgent`
  and `CONNECTION_TIMEOUT >= SEND_MESSAGES_TIME` (equal in the code, lines
  17-18). A request opens the window at the time its arrival was noted, so each
  window ends no later than the connection; this is where instantaneous
  computation is needed.

`VirtualControllerTiming_proofs` proves what holds in time, under `Urgent`, for
any mapping, controls, traffic and durations:

* `StaleValuesNotSent` (`StaleNotSent`): the time stamp the time-out check looks
  at never runs ahead of the value, an event under way has just been published,
  and what passed the check stays fresh until its Send begins, since only
  computation lies between (`FreshInv`).
* `KeepAliveInTime`, `OutputsInTime`, `UpdatesInTime` (`KeepAliveTimely`,
  `OutputTimely`, `UpdatePrompt`). The Sends of a turn are numbered: the reply,
  one for each output, I_AM_HERE. `Left(n)` is the most time until the task has
  come to the n-th: what is left of the wait or Send under way, and
  `SEND_TIMEOUT` for each Send between. That this never grows faster than time
  passes, in whatever order the steps come, is the core of the proof; the
  invariants `KeepInv`, `OutputsInv` and `UpdatesInv` say that what is due at
  some time is reached within one `Lap` of it. For the outputs, "due" is the time
  scheduled, `SendTimePoint`; `ScheduleInv` says that this is never later than
  what is promised, the request or an interval after the last broadcast
  (`NextBroadcast`). All three need `AllServed`, that
  no accepted frame makes `handle_request` throw: `controller_starved` is the
  counterexample without it. The latter two also need
  `CONNECTION_TIMEOUT >= SEND_MESSAGES_TIME`, as `NoWindowWhenIdle` does. The
  frames of `controller_timed` satisfy all these assumptions.

`CanPort_proofs` proves, for any senders, handlers, traffic and buffer,
`PortTypeCorrect`, `CalledHandlerRegistered` and `SendsConfirmed`
(`OwnConfirmation`). The invariant `PortIInv` adds `OneAtATime`: as long as no
Send was given up, at most one frame is between its write and the reading of its
confirmation, and none once the flag or the wake-up reports one; without it the
flag says nothing about whose confirmation was read. `InPlace` says that the
handler called stands at its place in the list.

`CanReceiver_proofs` first proves, for any filter and queue limit of the reader,
`TypeCorrect`, `EmptyOnlySpuriously` and `QueueImplemented` from an invariant
that adds to the types: a thread woken by a notification finds a frame, and a
frame is at hand exactly while it is handled. Then it proves that the composition
implements both parts (`ImplementsPort`, `ImplementsReader`): a step of it is a
step or a stutter of each. For the reader this needs `InPlace`, since it may
assume only frames from the bus. `ReceiverKeepsPromise` and
`ReceiverCallsRegistered` follow: the lossy queue the poller's model is built on
is what port and reader together provide.

`Scheduler_proofs` proves, for any tasks, periods and run times, `TypeCorrect`,
`TasksConserved` and `RateHolds`. The invariant says that the list and the task
taken out of it hold each added task exactly once and that each is due no
earlier than a period after its last run. The step that sorts rests on
`SortPermutes`: the positions counted by `StableSort` are a permutation, which
follows from the order being strict and total (an injection of a finite set into
itself is a surjection). `TasksOnTime` (`OnTime`, under `Urgent`) bounds, for a
task that is due, the runs that can come before its own: those of tasks not added
yet, which go to the front, of those before it in the list, and of those due no
later, which a sort may put before it. A task that was run is due again only a
period later, so it is none of these twice (`Ahead`, `TimeInv`).

`SmartWebToMqttGateway_proofs` proves, for any classes, programs and traffic:

* `NothingIsLeft` (`NothingLeftBehind`): until the devices are removed, the
  gateway's record of them is what the driver holds, and nothing is handled after
  the reader was joined.
* `RequestsAreDescribed`: what `AddRequests` asks for, by its recursion through
  the names of parent classes, are the requests for what the class and its
  ancestors describe, no more and no less. The ancestors are those the recursion
  reaches within as many levels as there are classes. `LineageIsAll`: these are
  all of them, since each generation up to a closed one adds a class.
* `RecursionReturns`, supposing `Acyclic`, that no class is its own ancestor:
  what `AddRequests` adds for a class is what the class describes followed by
  what `AddRequests` adds for each parent, as the code has it, with no limit on
  the depth. A chain of parents as long as the limit would meet a class twice,
  and classes with shorter chains add the same at any greater depth. The
  built-in classes satisfy `Acyclic`; a user's may not, and then the code does
  not return (a hazard in `PROJECT.json`).
* `PollsWhatIsDescribed` (`RequestsMatchPrograms`): a known program's requests
  are in the list once and in order, from the first announcement on, whatever it
  announces later. `PollingInBounds` (`PolledInBounds`): while a request is being
  sent the index is short of the end, and others only append.
* `GatewayTypeCorrect` (`TypeOK`): also that every control is on a device that
  exists and that only requests the gateway made are sent.
* `AnswersAreShown` (`PolledIsShown`), supposing `InputsAreOwn`: a class has
  whatever inputs and outputs its ancestors have. So it is of the built-in
  classes, none of which implements a class with inputs or outputs;
  `poller_inherited` is the counterexample for others.
* `CommandsArePolled` (`CommandIsPolled`), supposing `ProgramsAre`: each program
  answers for what its own class and its ancestors describe.

`MCSmartWebToMqttGateway` has TLC check that its classes satisfy `Acyclic` and,
where they are the built-in ones, the other two suppositions.

`Config_proofs` proves, for every configuration the schemas allow, all the safety
properties that `configuration` checks. The invariant
`ControllersInv` says that the controllers are those of the sound entries read so
far; it rests on `LoadedIfSound`, by induction over the entries of a controller:
it is refused exactly if it maps nothing, names a channel that is not one, or
gives a key twice. On the way the count covers what is mapped although it wraps,
and each output answers as its sensor, although the check for a duplicate output
(`config_parser.cpp:248`) cannot fire. `ClassesInv` says that the class of each
type is that of the first of the files seen so far, the user's before the
built-in ones, and that the orders of a class are apart: `OrderAfter` lies beyond
every order of the kinds before.

`CommandsSetWhatIsShown` (`CommandSetsWhatIsShown`) is about the codecs, for every
raw value. That a name sets the lowest of its keys and a switch the 0 or 1 it
shows is plain; a number sets its raw value or, if `Truncated` finds the product
short, the next one towards zero, and that only with divisors beyond 10. That
tenths are exact (`TenthsExact`) needs the arithmetic: the double next to m/10 is
short of it by r/10 of a unit in its last place with r at most 9, or in ten-fold
by r units, of which fewer than five matter because it is the nearest; half the
distance from m to the double below it is at least four such units, as the power
of two below m is at least eight times the one below m/10 (sixteen times if m is
itself a power of two). So the product rounds to m. `LogIs` and `RemainderTyped`
give the exponents and remainders of `Truncated` a value, for raw values to 2^15.

`LoadedFits` ties the models together: a controller that `LoadConfig` keeps has a
time-out for whatever it maps, a finite mapping, a count in a byte and outputs
within the array; a class it keeps has finitely many ids, all bytes, and inputs
and outputs that are read-only. These are what `ConstantsAssumption` and
`GatewayAssumption` say of the constants that stand for them. Beyond this
the two assume that names are strings, that class names differ, and that a
controller maps at most 32767 parameters; of the latter two no schema speaks.

`FiniteRecursion` holds what several of these proofs need: induction and
definition by recursion over the natural numbers, ranks of finite sets of
numbers, the members of concatenated sequences, and that powers of two double
and grow (a power of two counts the subsets of a finite set). The library states the first
two of operators, which the provers cannot instantiate; here they are stated of
sets and functions, and follow from the well-foundedness of inclusion among
finite sets.

Only model-checked: liveness (`StopsEventually`, `QueuedIsHandled`, `SendEnds`,
`ListenerStops`, `EveryRequestPolled`, `BadEntriesSurvived`), which is out of TLAPS's reach.

## 5. Not modelled

* The socket: opening and binding it, and the errors of `select` and `recvmsg`, which end the process. In the controller's
  model a Send is an interval of at most `SEND_TIMEOUT` whose outcome its
  callers ignore, as they do; the wait for the write mutex behind other senders
  is not part of that interval.
* The schemas: which files they refuse is `Malformed`. `poll_interval_ms`,
  `debug` and `interface_name` are copied.
* The command line, which is only parsed: `getopt`'s string (`main.cpp:125`)
  lacks `i:`, so that `-i` of the usage text ends the process with code 2, and
  the configuration's `interface_name` is what counts. Signals, and the limits of 60
  and 10 seconds on starting and stopping, which end the process.
* The raw layouts of frames, and `SensorData::ToDouble`, which only logs use: the
  models keep the fields that are tested.
* Logging, packaging; the class files are data, of which the instances take the
  shape.
* The uninitialised bits of two CAN headers, exceptions that end the process and
  the memory a backlog takes (hazards in `PROJECT.json`).

## 6. Plan

Order: the controller, its queue and requests first, because it has the most
threads and all the time points; then the scheduler and the reader, which the
poller rests on; then the poller; then the port, composed with the reader; then
the configuration and the codecs. These are done; every safety property of a
passing run has a theorem, and what one model supposes of another's results is
either proved (`ImplementsReader`, `LoadedFits`) or named above as an assumption.
Left are the socket's own errors and the upper half of the range of `uint1K` and
`uint60K`.
