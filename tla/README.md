# Zumo-Delivery: TLA+ models and proofs

Zumo-Delivery is the firmware of a small tracked car (ATmega32U4) and the
Python programs that drive it over USB. This directory models the parts of it
that can go wrong between two events: a command against a running manoeuvre, a
deadline against the control loop, obstacle avoidance against everything else,
bytes against packets, interrupts against the variables they share, and the
threads of the host program against each other. TLC checks small instances;
TLAPS proves the safety properties, and the safety part of each refinement, for every value of the constants.

## 1. The system

```
 host: serial_monitor*.py, game_pad_interface.py
   |  write(command byte + packed payload)          ^ replies
   v                                                |
 USB OUT endpoint                              USB IN endpoint
   |  usb_read_next_byte: 1 byte per loop           | usb_write_next_byte
   v                                                |
 receive ring buffer --> Message_Handling_Task --> send ring buffer
                               | raises and lowers
                               v
      message flags  mf_x = { active, duration, last_trigger_time }
                               | MSG_FLAG_Execute: active and due?
                               v
 main loop: restart, battery, telemetry, timed PWM, distance control,
            velocity control, stop, IR report, obstacle avoidance
                               |
                               v
          controllers (target position, velocity), motor PWM, LEDs
 timer interrupt: _count_ms + 1        encoder interrupts: tick counts
```

| Part (source) | State | Operations | What makes it correct |
|---|---|---|---|
| Message flags, clock (`application_defines.h`, `Timing.c`, `MSG_FLAG_Execute`, `Message_Handling_Init`) | per flag: active, duration, last trigger; a wrapping millisecond counter | raise, lower, "due?", reinitialise, tick | a flag falls due at its time, also when the counter wraps; a restart leaves nothing running |
| Drive commands (`Message_Handling_Task`, `Reset_Drive_Flags`) | flags, targets, PWM, red LED | `p P s d D v V O ~` | a new command replaces the old one completely; a refused one changes nothing |
| Main loop (`Main.c`) | flags, `first_time`, targets, PWM | one handler per flag, fixed order | one driver of the motors at a time; what has stopped stays stopped; deadlines are kept |
| Obstacle avoidance (`Obstacle_Avoidance.c`, `Proximity.c`) | reader state, driving state, hold counter, counts per side | read left, read right, decide | steers away from the nearer side; comes back to straight; holds are whole |
| Ring buffer (`Ring_Buffer.c`) | array, start and end index | initialise, push, pop, get, set | a bounded double-ended queue |
| Serial link, receiving (`SerialIO.c`) | receive buffer, `clear_buffer`, `reading` | read a byte, end a packet, peek, get, flush | commands are cut where the host began them, once each, in order |
| Serial link, sending (`SerialIO.c`, `serial_monitor_lib.py`) | send buffer; `dataNumBytes` of the host's parser | send a reply, write a byte, parse, open the port anew | the host hears whole replies, in order |
| Telemetry (`Message_Handling_Task`, `Main.c`) | flags of the reports, statics that keep a first half, the battery flag | request, subscribe, report | every request is answered; halves of a report belong together |
| Clock (`Timing.c`) | `_count_ms`, `TCNT0` | interrupt, `GetTime`, `SecondsSince` | stamps are right although they are read piecemeal |
| Encoders (`Encoder.c`) | counters, last pin levels | two interrupts, `Counts_*`, `Zero_Encoders` | every edge counts once, in its direction |
| Controller, filter, battery, servo, LEDs | coefficients, targets, voltages | | see `PROJECT.json` |
| Host connection (`serial_monitor_lib.py`) | `isRun`, `thread`, `serialConnection` | open, read in a thread, lose, close | a connection that is up is served, one that is not is closed |
| Host window and game pad (`serial_monitor_joy.py`, `game_pad_interface.py`) | rates, `changed`, two mutexes, the callbacks, the entries, the last command | events, callbacks, repetition, connect, close | rates reach the device, whole; no deadlock; the program ends |

The parts interact by shared globals (flags, controllers, motor registers) that
every handler of one cooperative loop may write, by two interrupts that fire
between any two instructions of it, by two undelimited byte streams, and on the
host by fields that four threads share, most of them without a lock. The hard
behaviours are therefore: the order in which commands and due flags meet;
deadlines that race the handlers they end; the wrap of the clock; static
variables that outlive the command that used them; full buffers; losing the
place in a byte stream; multi-byte variables torn by an interrupt; and threads
that wait for each other. Every one, at its line, is a hazard in
`PROJECT.json`, with the properties that would catch it.

## 2. The modules

| Module | Models | Remarks |
|---|---|---|
| `MessageFlags` | the flags of driving, `MSG_FLAG_Execute`, `Message_Handling_Init`, `SecondsSince`, the timer interrupt | `active` is the set of active flags; the clock wraps at `TimeMod` |
| `ObstacleAvoidance` | `Run_OA_Task`, `Run_State_Machine`, `IRRead`, `IR_Counts` | extends `MessageFlags`; one action per reader state, one per driving state |
| `ObstacleTask` | main's loop after an accepted `O` and no other command | the task alone, with fairness |
| `DriveControl` | the drive commands and the loop's handlers that move the car, composed with `ObstacleAvoidance` and the timer | `pc` is the next handler; one action per command and per handler |
| `DriveProperties`, `MCDrive` | the properties of `DriveControl` and the parts of the inductive invariant; constants for TLC | |
| `DistanceControl` | the tick counts of distance and velocity control, the commands that interrupt them, the wheels | refines what `DriveControl` leaves open; time and duty cycles are left open here |
| `Timing`, `MCTiming` | `GetTime` byte by byte against `TIMER0_COMPB_vect`, `SecondsSince` with its two fields, a flag that is polled | shows what `MessageFlags` may assume of the clock; the place values of the bytes (1, 256, ...) are the constant `Weight`, which `WeightAssumption` defines by its recurrence |
| `Encoder` | the quadrature interrupt, late and torn, `Counts_Left`, `Zero_Encoders` | one wheel |
| `BoundedDeque` | what `Ring_Buffer.h` promises | abstract |
| `RingBuffer` | `Ring_Buffer.c` | the loop of `rb_set` is one action per iteration; `called` (the last call and its arguments) is not in the code: both levels show it, so that each call must implement the abstract operation of the same name |
| `CommandQueue` | what the host may expect of its commands | abstract |
| `CommandStream`, `MCStream` | host writes, packets, disconnections, `usb_read_next_byte`, flush, the cutting of commands by `Message_Handling_Task` | uses the queue proved of the ring buffer |
| `ReplyQueue` | what the host may expect of the replies | abstract |
| `ReplyStream` | `usb_send_msg`, the send buffer, `usb_write_next_byte`, the parser of the host's reading thread, the opening of the port | |
| `Telemetry`, `MCTelemetry` | the commands that ask for reports, the battery task and the handlers that send them, composed with `ReplyStream` | |
| `SerialPort` | `openPort`, `readSerialStart`, `backgroundThread` and `close` statement by statement | a reading thread uses whatever connection is current |
| `HostProgram` | the window, both threads of the game pad and their mutexes, composed with `SerialPort` | |
| `Subsequences` | no code: a sequence seen through a function (`Images`) and the sum of its weights (`Total`), in which the mappings of both queues are written | recursive functions, so that the proofs can use them |
| `DriveControlProofs`, `DistanceProofs`, `StreamProofs`, `RingBufferProofs`, `TelemetryProofs`, `HostProofs` | theorems | each extends the module it is about; `DriveControlProofs` also `ObstacleTask` |
| `InterruptProofs` | theorems about `Timing` and `Encoder` | the two modules that are about an interrupt and a variable it shares |
| `InductionProofs` | lemmas about numbers, recursion, and `Images` and `Total` | no component of its own |

Every module with state has a type invariant (`...TypeOK`). `TypeOK` of the drive system is checked by a run and
proved; of `RingBuffer`, `ObstacleTask`, `CommandStream`, `Telemetry`, `DistanceControl`, `Timing`, `Encoder` and `HostProgram` they are proved, for all constants, and no run is spent on them.

Definitions keep the names of the functions they model; `map` in
`PROJECT.json` gives the lines. `Mut...` definitions are plausible slips of the
definition that follows them; each property is violated under one of them.

### Abstractions

*Handlers are atomic.* The loop is sequential; only interrupts come in between.
The timer interrupt is an action between any two handlers. A tick inside a
handler, after its flag was found due, gives the same result as a tick just
before it, because a flag that is due is still due a millisecond later.
`TicksPerLoop` bounds the milliseconds of one iteration.

*The clock is read in one piece* in `MessageFlags`. `Timing` has the rest: torn
readings never make a flag late, and make it early only when a carry between
the bytes of the counter is caught half-way. `DeadlineKept` is an upper bound and
is not affected.

*Units.* Velocities and distances are integers of 0.1 mm, so that the
coefficients of `MotorPWM.c` are exact; float rounding may lower a duty cycle
by one percent point, which no property tells apart. `DistanceControl` counts
encoder edges and keeps the conversion of a difference of counts to a 16-bit `int`
(`MotorPWM.c:172`); `Timing` counts `TCNT0`. `MSG_FLAG_Execute` compares `float`s, the models compare
integers: the two differ only from 2^24 ms on (4.7 hours), where a `float` is rounded to an even number.

*Distance.* In `DriveControl` a distance run may have arrived at each update, and only
the sign of a target position is kept; `DistanceControl` has the numbers.

*Commands arrive whole in `DriveControl`, `DistanceControl` and `Telemetry`.* `CommandStream` is the
justification: it shows that commands are carried out once each, in order. The `~` that is not
removed is the exception, and `DriveControl` has it (`restart_at_head`,
`UsbOverflow`).

*History.* `order` is the command being executed; a restart voids the promise
of a deadline, so it becomes `"restarted"`. `goal`, `ref` and `off` (`DistanceControl`), `age`,
`carried` and `ticked` (`Timing`), `seen`, `base`, `late` and `torn` (`Encoder`), `gap` and `disturbed`
(`Telemetry`), `cut` and `jammed` (`CommandStream`), `told`, `sent`, `outdated` and `raced` (`HostProgram`) are
history as well: no guard of the code's actions reads them. `broken` (`ReplyStream`) is history that also blurs the
bytes, see below; `openings` counts for a bound.

*`CommandStream`.* A byte is what a `switch` on it sees, plus whether the host
meant it as a command. Payload takes any value, commands' letters included.
A host write is one command; packets may end anywhere in known commands, and a
host that writes unknown ones writes them in packets of whole commands. Each unknown write may have any length. The
first packet is never empty (the code would never acknowledge it, `reading` being
false still). A disconnection loses what is on the way and leaves the device's buffers as they are; `cut` records
that it lost the rest of a command, or came before the end of a flush (begun or about to begin), which then discards from a packet of the new connection.
`~` is in the device's table and may be a byte of payload, whether or not the host sends it as a command; `jammed` records that one
came to the head of the receive buffer, where it stays with all that follows until it is overwritten.

*`ReplyStream`.* A byte is its reply and its place in it, of which the parser only
uses the value. A byte taken for a length though it is none may have any value, a negative one
included, after which the reading loop has no branch left (`Deaf`), not even that of the next connection, since
`dataNumBytes` is a field of the object and only its constructor and the reading of a reply set it. `Reopen` is a connection that was closed or lost and is opened again: the new
thread's `reset_input_buffer` throws away what the host has not read, which is some front part of the bytes under way (the rest is still
in the device), while the thread goes on with the `dataNumBytes` of the one before. `broken` records that this has thrown away the rest of a reply, or
that the send buffer has overflowed; replies after that are not told apart. Whether the data of a garbled reply parses is left open.

*`Telemetry`.* When a periodic report falls due is open. The data of a reply is left out.

*`Encoder`.* The edge times are arbitrary. `PCINT0_vect_Torn` lets the wheel pass one edge between any two of the
eight readings of the pins that an interrupt makes.

*`HostProgram`.* A rate is a number that stands for both velocities, so that a command mixed of two
is visible. A call of another thread on a widget waits until the window's
thread is in its event loop, which is how tkinter runs it. Each statement on a shared field is an action, and `send` takes
the entries from the window one by one (`SendFirst`, `SendRest`). Filling in is two actions: the first entry and the rest. Each entry is deleted and inserted in two calls of its own; a repetition between
those leaves two numbers in one entry, which is not readable and refused, or one of the pairs that the two actions give. `Repeat` leaves out
the time since the last command and the test that the entries hold a `V` (`serial_monitor_joy.py:350`): it may happen more often than in the code,
which is sound for safety; for liveness it is assumed that nobody types another command by hand.
Python closes a connection that is replaced.

## 3. The runs

| Run | Shows |
|---|---|
| `obstacle_task` | Alone, with the source's hold of four decisions and two brightness levels: target velocities fit the state (`VelocityFitsState`), each hold is whole (`HoldIsWhole`), a turn slows the wheel of the less bright side (`SteersAway`), a road that stays clear ends in driving straight and an obstacle that stays ends in a turn |
| `drive_commands` | All commands but `O`, restarts included, in any order, at any tick, with durations already elapsed and durations longer than an iteration: types (duty cycles within 100), `HaltSticks`, `NoForeignDeadline`, `DeadlineKept` |
| `drive_ends` | `TimedRunEnds` under fairness, across wraps of the counter, unless the host renews for ever |
| `drive_avoid` | Obstacle avoidance among timed commands: `OneDriver`, `RedLedTruthful`, `AvoidanceUndisturbed` |
| `distance` | Distance runs with wheels that turn, slip and coast, interrupted at every point: `Telescopes` (what is left to go and what was gone add up to what was asked; a run that took over the old reading of an interrupted one is wrong by exactly that reading, or what an `int` makes of it, from beginning to end), `NotPastGoal` and `NeverStopsShort` (measured from the encoders as the command zeroed them, or as the handler first read them; such runs excepted, see Findings), `DistanceEnds` (for every run) |
| `timing` | `TornReadsRunAhead`, `NeverLate`, `EarlyOnlyByCarry`, `DurationOrWrap` (a duration is right, or too long by exactly one wrap of the microseconds) |
| `encoder` | `CountsExact` when interrupts keep up, `SlipsByCycles` when they are late (the error is a multiple of four edges), `ReadsWhole` |
| `ring_buffer` | `ImplementsDeque` (refinement) and `SetReturns` |
| `stream` | Known and unknown commands, packets that end anywhere, disconnections at every moment: `InStep` (payload is never taken for a command, unless a disconnection has cut a command or a flush), `NeverBacklogged` (in step or not, the receive buffer never holds more than one command, and so never overwrites, until a `~` jams it; a host that sends none can meet that only after a disconnection has cut a command or a flush, when a byte of payload is taken for it), `ImplementsQueue` (each command once, in order, eventually) |
| `telemetry` | Requests, subscriptions, warnings and restarts over a send buffer that overflows and a port that is opened anew: `ReplyInStep`, `ImplementsReplies` (every reply heard once and in order; an opening loses whole replies under way, and the link breaks only when more is under way than the send buffer holds or an opening throws away the rest of a reply), `HalvesAdjacent`, `RequestsAnswered` |
| `host` | Lost connections, reconnections, pad events and a closing window at every moment: `ConnectionServed`, `PadAttached`, `NoRateForgotten`, `NoMixedCommand` (but for two races, see Findings), `RatesReachDevice`, `WindowResponds`, `ProgramEnds` (`process_callbacks` and the reading threads end; `event_thread` does at the pad's next event) |
| `restart_flags` | A statement of a comment that the code does not keep; see below |

### Bounds

*Time.* In `drive_ends` `TimeMod` 5 with `TicksPerLoop` 1: a deadline of 2 ms may last 3 (`Limit`),
less than a turn of the counter as `ClockAssumption` demands, and the counter
wraps many times in every behaviour. The assumption corresponds to durations
under 49 days. `drive_commands` has the same values: the clock's differences go up to 4, so a stop that comes later than `Limit` can be
seen. `drive_avoid` has durations of 1 and `TimeMod` 3.
*Durations* 2 outlasts an iteration; -1 has elapsed on arrival (`D` and `V`
accept it, `P` and `O` refuse it).
*Arguments.* One duty cycle above 100 so that clamping happens; one velocity; a
spin (100, below `MIN_TURN_ARC`) and an arc (500), turns to one side in `drive_commands`, to both in `drive_ends`. More
values multiply the states without new interleavings.
*Obstacle avoidance* inside `DriveControl` has a hold of 2 and one level; `ObstacleTask` has the
source's values.
*Timing.* Three bytes of three values and a millisecond of three counts: carries out of one and of
two bytes, and the wrap of the whole counter, fall into readings. `TimingAssumption` leaves room for a stamp that runs ahead by the
highest byte: for the real counter, iterations under 255 ms and durations under 2^32 - 2^24 - 256 ms (49.5 days); with a longer
duration a flag whose stamp is torn could be late. `MicroMod` 7 is no multiple of the period, as 65536 is not of 1000.
*Encoder.* A counter of two halves of four values wraps in both directions within the wheel's eight edges.
*Distance.* Goals 0 and 2 make every straight run, spin and arc with a track that is to stand still or to move;
two commands let each interrupt or follow each, one slip lets a wheel pass or leave its goal. An `int` of the values -3 to 2 is the narrowest for tracks that make two
counts between two updates (`DistanceAssumption`; in the code 32767 counts are more than four metres), so the old reading of an interrupted run wraps.
*Ring.* Four slots and three values: every position of the indexes, full, empty
and wrapped, is reached. `SetIndexes` leaves out `Length - 1`: the buffer never
holds more than `Length - 1` elements, so `rb_set` with that index would push for ever. The
header calls indexes outside the active length "poorly defined", and all callers (`Filter.c`)
stay inside.
*Stream.* Commands of one and three bytes and unknown writes of one and two stand for 1 to 13; a packet
of three takes one to three commands, so packets that end before, inside and after a
command, and several commands in a packet, all occur. A byte of payload looks like an unknown command or like `~`, so a cut command jams the buffer and
overflows it; the host sends no `~` of its own.
*Telemetry.* The float time, the loop time (two halves) and the low-battery warning (periodic, unasked) are the three
ways a report goes; replies of two bytes meet a buffer of three, so two pending replies overflow it. The port is opened twice, the second time with any part of a reply read,
waiting or still in the device.
*Host.* Two connections and two rates: a thread of the first connection meets the second, and a repetition of the
first rates meets the second ones. `MaxActivity` keeps both from being combined beyond that.

### Fairness

`WF(Main)`: the loop has no blocking call, so it always goes on. `WF(Tick)`:
interrupts are masked only for a few instructions. In `CommandStream`,
`WF(Deliver)`: the host controller delivers what was written when the endpoint is
free. In `Telemetry`, `SF(WriteByte)`: the host polls the endpoint again and
again, so it cannot be found busy for ever; `WF(Host)`: the reading thread runs; a connection that is closed or lost is opened again (`Reopen` is both in
one step), a bounded number of times. In the formula `WriteByte` comes with `heard' = "none"`, as every step of the device does. In `DistanceControl`, `SF(Dist)`: the flag's period
elapses again and again; `WF(Turn)`: a powered motor turns its wheel (a blocked one would never arrive, and the code has no
answer to that). In `HostProgram`, threads run, and `SF` for what waits for a mutex or the event loop: it gets it if it is free again
and again. Nothing is assumed of users: they need not press a button or move the pad.

### Findings

`restart_flags`: `Message_Handling_Init` does not reinitialise velocity control and
obstacle avoidance, so `~` in a timed `V` removes the stop and the car drives on.

Further disagreements of code and comments, or surprises, which the models contain and no run is spent on:

* The case of `~` does not remove it from the receive buffer (`MEGN540_MessageHandeling.c:189`; the comment at 97
  says commands persist only while incomplete). Every iteration restarts again, and later commands wait behind it until
  more bytes than the buffer holds have arrived. Each restart also forgets when the last
  low-battery warning was sent, so with a low battery the warning goes out at every run of the battery task (2 ms)
  instead of every second.
* `p` and `P` announce "Deactivate other flags" (345) and do not clear obstacle avoidance, whose first decision, if it is still to come,
  activates velocity control, which drives over the PWM. After it they have cleared velocity control, and decisions only change targets.
* A negative angular velocity (851, against the comment at 798) and a negative spin (569, against 501) turn left.
* `d D v V O` answer BAT LOW below 3.0 V and POWER OFF above, the reverse of `p`, `P` and `Main.c:129`.
* A distance run that starts after an interrupted one finds `first_time` false and measures from the old reading
  (`Main.c:326`), although the command has zeroed the encoders. Its first update jumps by the counts of the run before (`off`), or, if they are more than an
  `int` holds, by what is left of them in 16 bits. It may end at once or drive past its goal: `Telescopes` says by how much, `NotPastGoal` and `NeverStopsShort`
  except it, and `DistanceEnds` holds for it too.
* After a cut command, a byte of payload `0x7E` is taken for `~`, which stays in the buffer: also a host that never sends `~` can be jammed
  (second part of `NeverBacklogged`).
* `reset_input_buffer` (`serial_monitor_lib.py:174`) at the start of a reading thread throws away what has arrived, while `dataNumBytes` keeps what the thread
  before it had understood. If a connection is lost, or the port closed, in the middle of a reply, the host is out of step from then on, and only chance brings it back;
  after a negative length it is deaf for good, until the program is started again.
* `SecondsSince` does not borrow (`Timing.c:132`), and `GetTime` can be torn: `DurationOrWrap` and `EarlyOnlyByCarry` say by how much.
* Two commands may be mixed into one `V` in two ways (`raced`, `serial_monitor_joy.py:351` and 390-395), which is then repeated. A repetition reads its two arguments
  one by one, and the game pad's thread sets new ones in between. Or a repetition of the old rates overwrites the entries of a callback, which reads the first of them; then the next
  repetition, with the new rates, overwrites the others before the callback reads them. The second takes a callback that waits for the window for half the timeout. `NoMixedCommand` shows that there is no
  third way.
* The window deadlocks with the game pad's thread when it attaches or detaches the callback while that thread holds the list and waits for a
  widget (`Stuck`). `WindowResponds` shows that this is the only way for it to hang.
* A failed write in the repetition ends `update_gui` for good (`serial_monitor_joy.py:354`).
* A reading thread that dies in `reset_input_buffer` leaves `isRun` set; `ConnectionServed` names this case and the lost start.

## 4. What is proved

`DriveControlProofs`, for all sets of commands, arguments and durations and any period of the
clock, from `TimeAssumption`, `OAAssumption`, `DriveAssumption` (constants have
their types) and `ClockAssumption` (no deadline is as long as a turn of the
counter):

* `TypeCorrect`.
* `HaltSticksTheorem`, `OneDriverTheorem`, `NoForeignDeadlineTheorem`. None of
  the three is inductive: that a run which is over leaves no driver behind
  depends on who could have been active with it, and on deadlines belonging to
  the run. `ControlInv` is their conjunction with `Armed` (a timed command that
  is executing has its flag pending), and that is inductive.
* `DeadlineTheorem`. `DeadlineKept` bounds the age of a deadline but says
  nothing about how much of the iteration is left. `WaitingInv` does: the age of a
  pending flag is at most its duration, less one, plus the ticks of this iteration,
  plus one whole iteration if its handler is still to come. A tick then costs
  exactly one, and a pass of the handler that finds the flag not due buys an
  iteration.
* `RedLedTheorem` and `AvoidanceTheorem`, inductive together given `OneDriver`.

The same module, about `ObstacleTask` and for every hold, number of levels and period: `ObstacleTypeCorrect`, `HoldIsWholeTheorem`,
`VelocityTheorem`, `SteersAwayTheorem`. `Decided` says state by state what the counter and the velocities are.

`DistanceProofs`, for every set of goals and width of an `int`, from `DistanceAssumption` (goals are naturals; from one update to the next a track makes fewer counts than an `int`
holds): `DistanceTypeCorrect`, `TelescopesTheorem`, `NotPastGoalTheorem`, `NeverStopsShortTheorem`. `DistanceInv` adds to `Telescopes` that the two handlers that
share the reading exclude each other (`NotBoth`), that a run before its first reading has all of its way to go (`Fresh`), that the
target keeps the sign of the goal (`SameWay`: the handler tests the sign of the target, the property that of the goal), and that
no track that has moved is at zero (`ShortOfGoal`). The last three, and the exact form of `Telescopes`, are about a run with a reading of its own (`OwnRun`): its counts are within `MaxRoll` of the
last reading (`Near`), so that the conversion to `int` changes nothing. For a run with an old reading the sum is right modulo 2^16 only.

`StreamProofs`, for every table of lengths, every packet size, payload and length of an unknown write, with
disconnections: `StreamTypeCorrect` and `NeverBackloggedTheorem` for every set of commands of the host; `InStepTheorem` and
`QueueRefined` for hosts that do not send `~` as a command (`NoRestart`). Payload may hold the byte in all four. A host that sends `~`
is left out of the last two because the code never removes it: behind it the buffer does fill up and overwrite (see Findings).

* The invariant of the first two (`StreamInv`) has two forms: between iterations the buffer holds an incomplete command (`Waiting`), and
  after the next byte at most a complete one or a byte that is none (`Peeked`); so a command that is removed leaves nothing.
* `InStep` is about the next byte only. `FrameInv` is about all bytes still to come: those in the receive buffer, in the endpoint
  (unless they are being discarded) and at the host are whole commands (`Framed`), and where a flush may happen the packet ends with one.
  `Framed` says position by position which bytes follow a command byte, so no induction over the sequence is needed:
  `FramedConcat` and `FramedSplit` put such sequences together and cut them after a whole command. The proof
  showed that a disconnection between the reception of a one-byte unknown command and its flush also loses the place, which the bound of
  two bytes on unknown writes had hidden; `cut` includes it since.
* `QueueRefined`: `Spec => Queue!Safety`, the initial condition and the steps of `ImplementsQueue`. The commands still pending
  are the images of the command bytes of `Stream`, as long as nothing is cut. Moving a byte from the host to the endpoint or into the receive buffer leaves
  the stream as it is, hence stutters; a write appends one message, whose images are its command (`CommandsMessage`); a complete
  command is the front of the stream by `FrameInv`, and what is left has the other images (`CommandsConcat`); a flush gives up one unknown
  command and nothing behind it, because its packet ends there; a disconnection maps to losing pending commands, or to breaking the promise when it cuts.

`TelemetryProofs`, for every set of reports, table of sizes (a reply has a length and a byte of data at least, and fits the
send buffer), capacity and limit of the host's driver: `TelemetryTypeCorrect`, `ReplyInStepCorrect`, `HalvesAdjacentCorrect`, `RepliesRefined`.

* `ReplyInStep` is about the next byte the host reads. `LinkInv` is about all bytes under way, in the host's driver and in the send
  buffer, until the link is broken: they are whole replies, position by position (`Whole`), but for the length that the reading
  thread may have taken already (`Expected`). An opening that leaves the host in step has thrown away nothing or stopped before a length, so what is left is whole (`OpeningEffects`, `WholeRest`).
* `HalvesAdjacent` is an action property. Its invariant, `HalvesInv`, says that a report between its halves which nothing has disturbed
  will be executed when its handler is called, and that its first half is from this iteration if the loop has passed its handler since and
  from the one before if not. That an undisturbed second half cannot be skipped is what makes the age exactly one.
* `RepliesRefined`: `Spec => Replies!Safety`. The replies pending are the images of the last bytes under way. Only `usb_send_msg`, the reading
  of a last byte and an opening of the port change them; an opening maps to losing the oldest ones (`Replies!Reopen`) or to breaking the link (`Replies!Break`). The queue may overflow only if the replies
  pending and the new one are more bytes than it has room for, whereas
  the code overwrites when the new bytes do not fit behind those still in the send buffer; `QueueInv` relates the two (`Total` of the replies under way is the number of bytes under
  way, and one more while the host has taken a length). An opening may drop any number of whole replies, so that this must hold of the bytes from every length on (`Fits`).

`InductionProofs` has what both refinements need of `Images` and `Total`: that their recursions are well defined, and that they
distribute over concatenation. The library's induction theorems take an operator, which the provers cannot instantiate; instead `LeastNumber` (from the well-founded order of the
numbers) gives a least element of a set of counterexamples, `UpTo` turns that into induction for a set, and `RecursionSolved` into the existence of
a function defined step by step.

`InterruptProofs`, about `Timing`, for any number and size of bytes, any period, length of an iteration and duration within `TimingAssumption`:
`TimingTypeCorrect`, `TornReadsTheorem`, `NeverLateTheorem`, `EarlyTheorem`, `DurationTheorem`.

* `ReadingInv`: what has been loaded is the lower part of the counter plus a `d`, which is 0 until the one tick that a reading has
  time for, and then -1 or the carry out of the bytes loaded before.
* `ActiveInv`: the milliseconds `e` that have begun since the stamp, and how far it is off (`a`), relate the age of the flag to the two clocks; a stamp that
  runs ahead is younger than an iteration (`Within(0)`), because the first poll finds it due. The unsigned difference of a poll is then
  `e + d - a` modulo the counter; `PollPlain` shows that it does not wrap unless the stamp ran ahead, and `PollAhead` that it then wraps to
  more than the duration. That two torn stamps cannot cancel (both at a carry, less than 255 ms apart) is part of it.
* The facts about place values (`WeightPositive`, `WeightDivides`) are proved from a least counterexample (`LeastNumber`).

The same module, about `Encoder`, for every width of the counter and range of the wheel: `EncoderTypeCorrect`, `CountsExactTheorem`, `SlipsByCyclesTheorem`,
`ReadsWholeTheorem`. `EncoderInv` adds that the remembered levels are those of one edge (`Remembered`), that the wheel is at most
one edge ahead unless an interrupt was late (`OneEdge`), and that a read masks the interrupts for as long as its half is used (`CountsReadInv`).
`CountedPhase` is the quadrature table: the count changes by the way the wheel has gone, up to whole cycles.

`HostProofs`, for any number of connections and of events of the pad: `HostTypeCorrect`, `ConnectionServedTheorem`,
`NoRateForgottenTheorem`, `PadAttachedTheorem`, `NoMixedCommandTheorem`. None is inductive: each says what holds while the window or the
callbacks rest. `PortInv` says at each statement of `openPort`, `readSerialStart` and `close` what `isRun`, `thread` and the reading
threads may be, and that a reading thread that has done one of its three steps of losing will do the others (`ClosingInv`,
`LosingInv`); `MutexInv` who holds the mutexes where; `AttachedInv` counts the callbacks against the connections; `EntryInv`
what is a number where; `WholeInv` that before a race a repetition fills in what the callback was told once it sends, and that the callback's entries and the one it has read
already agree, older rates being there only if a repetition put them there (`outdated`).

`RingBufferProofs`, for every array length of at least two and every set of elements:

* `RingTypeCorrect`.
* `RingImplementsDeque`: Ring_Buffer.c implements `BoundedDeque`. One lemma per
  operation says what its index arithmetic does to the sequence of active
  elements (`PushBackContents`, `PushFrontContents`, `PopBackContents`,
  `PopFrontContents`, `SetContents`), by comparing elements position by position.

Only model-checked: liveness (`TimedRunEnds`, `SetReturns`, `ClearRoadEndsStraight`,
`ObstacleEndsTurning`, `DistanceEnds`, `RequestsAnswered`, `WindowResponds`, `ProgramEnds`, `RatesReachDevice`, and the fairness that
`ImplementsQueue` and `ImplementsReplies` add to the two `Safety` formulas that are proved), because it needs fairness and ENABLED, which the
prover does not handle. Neither checked nor proved: `ImplementsQueue` for hosts that send `~`, since the code does not keep it (see Findings).

## 5. Not modelled

The control law and the filter (floating-point arithmetic in straight-line code), the registers,
the 16-bit edge of a duty cycle, `inputs_mod.py` (third party), plotting, auto-send and the
command-line interface. LUFA and the USB descriptors: `lufa/` is a vendored USB stack with its
demos and bootloaders and makes up most of the repository's lines; the program uses a few of its endpoint calls, which
`CommandStream` and `ReplyStream` model as external parts, and the remainder is not part of this system.
