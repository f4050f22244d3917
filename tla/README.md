# A TLA+ model of rpi-hal-embassy

`rpi-hal-embassy` connects the bare-metal `rpi-hal` crate to the Embassy async
ecosystem on Raspberry Pi boards: a time driver, an executor, an interrupt
dispatcher, and two network adapters for `embassy-net`. The crate is about 2200
lines of Rust, of which some 900 execute; the rest is documentation that argues,
often at length, why a step is done in the order it is. Beside it stand twelve
example images, about 3700 lines, which bring boards up in a certain order and
run tasks that rely on what the crate promises. Those arguments are what this
directory checks: TLA+ modules that model the code, TLC runs of small instances,
and TLAPS proofs of what matters most for every value of the constants.

File names below are relative to `src/src/`, those of examples to
`src/examples/`; line numbers are those of the commit this directory stands
beside.

## 1. Inventory

### Time driver (`time_driver.rs`)

*State.* A timer queue (one deadline per task) behind a critical-section mutex,
and in the hardware a 64-bit microsecond counter and the Compare 1 register with
its sticky match flag, which is the interrupt.
*Operations.* `init`, `schedule_wake`, `on_timer_irq`, and `rearm` inside the
latter two; `now`.
*Interaction.* Called from tasks (`schedule_wake`, in the poll of a timer
future) and from the interrupt handler; wakes tasks through the executor's
wakers. With `rpi-hal`'s `multicore` feature the mutex is a lock between cores.
*Hard.* Compare 1 is an equality test on 32 bits and the counter does not stop
while the driver decides, so an alarm written too late fires 71.6 minutes late;
clear-before-drain; skipped re-arms; clamped far deadlines; spurious calls.
*Correct when* every queued deadline has an alarm at or before it whenever
nobody is inside the driver, the retry loop makes progress, and every deadline
is served.

### Executor and pender (`executor.rs`)

*State.* Per core: the run queue (in `embassy-executor`), where `run` is, and
the core's event register.
*Operations.* `run` (spawn, poll, `wfe`), `__pender` (`dsb; sev`).
*Interaction.* Wake-ups arrive from interrupt handlers, tasks, other cores.
*Hard.* A wake-up between the last poll and `wfe`; a store of one core that
another sees after the event announcing it; several wakers, of which only one
owes the event.
*Correct when* no core sleeps over a queued task, no wake-up is dropped, and a
woken task is polled even if no interrupt happens to arrive.

### Interrupt dispatch (`irq.rs`)

*State.* None of its own: the levels of the interrupt sources.
*Operations.* `dispatch`, `__irq_handler`.
*Hard.* A level left asserting re-enters the handler for ever; GPIO has one
source per bank of pins.
*Correct when* each source is serviced whatever the others do, and the
foreground runs again once the devices are quiet.

### Ethernet runner (`ethernet.rs`, and `lan9514.rs`, which forwards to it)

*State.* The stack's packet queues, the chip's FIFO, the bring-up's progress,
what the stack was told about the link, counters, `START_LAST_ERROR`.
*Operations.* `run`: bring-up, multicast filter, wait for the link, then
`receive_forever` and `transmit_forever` joined in one task.
*Hard.* A transfer brings several frames but the queue may have one slot; a
failed send must release its buffer; the two queues depend on each other,
because the stack takes a frame only with a transmit buffer in hand; bring-up
may fail at each step and a link may never come.
*Correct when* frames of a completed transfer are never lost or reordered, each
queued send is on the wire or counted, neither queue wedges, and a dead
interface says that it is dead.

### Wi-Fi runner (`wifi.rs`)

*State.* `Watch` (association state, due time, deadline), the loop's `heard`,
`quiet` and `due`, and what others read: `ASSOCIATED`, `LINK`, `DROPS`, `JOINS`,
`COUNTERS_WANTED`, `COUNTERS`, and the frame counters.
*Operations.* The pass: `receive`, `transmit`, `sample_link`, `Watch::pass`
(`join`, `associate`, `probe`), `sample_counters`; `request_counters`.
*Interaction.* With the firmware, which loses and regains associations, resets
settings, and grants transmit credit in the headers of received frames; with the
stack through queues; with the application through statics.
*Hard.* Everything the firmware does between two passes; a control command
discards data frames; the credit window and the queues can block each other;
time-outs race late answers; requests race readings.
*Correct when* stack and application agree, a loss is noticed in time and
recovered from, no frame is lost except to a control command, no queue wedges,
and a reading answers the request it was taken for.

### Ethernet images (`embassy_net_echo.rs`, `embassy_net_burst.rs`, `embassy_picoserve.rs`, `embassy_picoserve_site.rs`)

*State.* Where `kmain` and `run` are; what the USB bus has reported; whether the
USB interrupt reaches a handler.
*Operations.* Power on, read the MAC address, wait for the hub, walk the bus
(and, in the echo image, poll it), claim a chip with one driver or two, allocate
channels, wait for the link (site), initialise the time driver, arm the
interrupts, start the executor.
*Hard.* Bring-up spins on transfers whose status the interrupt handler would
take; a chip behind two hubs attaches late and is reported once; waits with and
without a bound; every step may fail.
*Correct when* a transfer is completed by the spinner or by the handler but never
contended, a late chip is found, and each boot ends in one of the ways written.

### Wi-Fi image (`embassy_net_wifi.rs`)

*State.* `kmain`'s progress, the card, the firmware it loaded.
*Operations.* `load_files`, `read_file`, `parse_config`, `radio`, the join, `run`.
*Hard.* The firmware is picked before the chip can be asked which it is; a file
may be shorter than its directory entry or longer than its buffer; the network
may be lost before the runner's first poll.
*Correct when* no chip gets another's firmware and the boot ends whatever the
card holds.

### Tasks of the examples

* The *burst counter* (`embassy_net_burst.rs`) reads the adapter's counters while
  the receive loop may be in the middle of a batch, and ends a burst on silence.
  Correct when the loss it states is the burst's and its counters belong together.
* The *echo server* (`embassy_net_echo.rs`, `embassy_net_wifi.rs`) serves one
  client at a time from buffers that outlive it. Correct when a client gets back
  only its own bytes and a client that ends frees the server.
* The *I2C heartbeat* (`embassy_i2c.rs`) measures how long a transfer held the
  core, with a ticker that catches up. Correct when a blocking transfer shows.
* The *idle timer test* (`embassy_time_idle.rs`) shares Compare 1 with the time
  driver. Correct when an awaited deadline keeps its alarm and the injections end.
* The *UART echo* (`embassy_uart_echo.rs`) shares the port between two tasks by
  an async mutex. Correct when either gets it.
* *Interrupt handlers* and the gates that each image opens for them. Correct when
  whatever is let in is serviced.

### Not modelled

* `lib.rs` (module declarations and feature gates) and `build.rs` (a
  compile-time `cfg`): nothing runs. `lan9514.rs`: aliases of the runner.
* The pages of the web examples, which picoserve serves, and the loops of the
  blink, button, now and multicore examples: one await and one print per round,
  nothing shared but what is printed. How the multicore example starts its cores
  is in `TimedSystem`, all interrupt handlers are in `IrqDispatch`.
* Tallies that no step reads: unusable receives, failures and their last error,
  gaps between receives. `RX_GAP_MAX` is one saturating expression of one task.
* The firmware's pause of the Wi-Fi data channel, which answers `TxBusy` just as
  spent credit does.
* The shell scripts, and everything outside the repository except as far as its
  code relies on it: `rpi-hal`, the `embassy-*` crates, the chips and firmware.

`PROJECT.json` lists every part.

## 2. Modules

| Module | Models | Used by |
|---|---|---|
| `TimeDriver` | `time_driver.rs`, one register access per step | `TimedSystem`, `TimeDriverProofs` |
| `TimeDriverProofs` | proofs about it | `TimedSystemProofs` |
| `Executor` | `executor.rs` and the wake path | `TimedSystem`, `ExecutorProofs` |
| `ExecutorProofs` | proofs about it | `TimedSystemProofs` |
| `Sleep` | what both promise together, abstractly | `TimedSystem` |
| `TimedSystem` | tasks, driver and executors composed | `TimedSystemProofs` |
| `TimedSystemProofs` | proofs about it, from those about its parts | |
| `IrqDispatch` | `irq.rs` and the handlers of the examples | `Applications` |
| `Ethernet` | `ethernet.rs` | `EthernetBoard` |
| `PacketInterface` | what an interface promises the stack, abstractly | `Ethernet` |
| `EthernetBoard` | `kmain` and `run` of the Ethernet images, then `Ethernet` | `EthernetProofs` |
| `EthernetProofs` | proofs about both | |
| `WifiWatch` | the association watch and what it tells | `WifiBoot` |
| `WifiBoot` | the Wi-Fi image up to the runner, then `WifiWatch` | `WifiProofs` |
| `WifiProofs` | proofs about both | |
| `WifiFrames` | the frame path and the credit window | `WifiFramesProofs` |
| `WifiFramesProofs` | proofs about it | |
| `WifiCounters` | the counters handshake | `WifiCountersProofs` |
| `WifiCountersProofs` | proofs about it | |
| `BurstCount` | the burst counter and the statistics it reads | `Applications` |
| `EchoServer` | the echo task | `Applications` |
| `I2cBus` | heartbeat and transfers of the I2C example | `Applications` |
| `IdleProbe` | the idle timer test | `Applications` |
| `Applications` | one part of an application at a time | `ApplicationsProofs` |
| `ApplicationsProofs` | proofs about the burst, echo, I2C and idle parts | |
| `Console` | the UART echo | |
| `MC…` | constants and symmetry for TLC | |

A model keeps the control of the code and abstracts its data: a frame is a
number or a kind, an error is a choice, an instant is what is left of a wait.
Each module that is run also holds *mutated forms* of some definitions, marked
as mutants: the form the definition would have with a plausible bug. They are
used by no specification; substituted for the original they make the property
named in `PROJECT.json` fail, which shows that the property can fail.

### TimeDriver

`Tick` moves the counter at any time, also inside a critical section. The
section is a `holder` (a task, or the interrupt) with a `step`:
`clear → sample → drain → arm → check → retry …`. `Sample` is `self.now()`,
`Expire`/`Drained` are `next_expiration`, `Arm` and `Accepted`/`Refused` are the
two halves of `set_compare1`: write, then look whether the counter is still
below the target. `stall` bounds the ticks one such pass may take (`MaxStall`,
smaller than the clamp: a pass takes microseconds, the clamp is about half an
hour). The match flag may or may not be set by writing the current value,
which the model leaves open. `HeadUnchanged` lets the queue report a changed
head without need but never the opposite.

### Executor

A waker's enqueue is *issued* (`BeginWake`) and later *performed* (`Enqueue`),
and `DsbComplete` is what `dsb` adds: the `sev` waits for it. `Pender` sets
every core's event. An interrupt may end a `wfe` at any time, but none is
promised. `signalled` records tasks woken and not polled since.

### TimedSystem and Sleep

`TimedSystem` instantiates both. A poll (`PollAgain`, `PollOther`, `PollDue`)
joins `X!PollTask` with `D!ScheduleWake`; `Expire` joins `D!Expire` with
`X!BeginWake`; a core inside the driver does nothing else. `Sleep` has just the
time, the deadline each task awaits and the parity of its completed awaits:
`Resume` only at or after the deadline, and always in the end. The first half
is the poll's own guard in `PollDue`, as it is the `Timer`'s in the code: nothing
the driver or the executor does can break it. What the runs show is the second,
that a due task is resumed, and its mutants break that half. `KeepsPromise` is
`Sleep`'s specification over the same variables; the other variables of
`TimedSystem` are hidden by it. A task in `Mixed` waits for more than its
deadline: something else may wake it early, and it may then turn to another.
A task that has ended asks the driver for nothing more; the wake-up of an entry
it left in the queue ends in `PollEnded`. `SleepersCovered` says what both parts
keep between them: outside the driver, a task that sleeps has been woken since
it last ran, or its alarm is pending or ahead, no later than the deadline it awaits.

### IrqDispatch

The six `if`s of `dispatch` in order, each with its sources; `image` chooses
between it and the handler of an example, with the gates that example opens.
Devices raise levels at any point; a service routine leaves its own sources
quiet.

### Ethernet and PacketInterface

Steps lie between awaits. `Start`, `SetMulticast`, `LinkAnswers`/`LinkGivesUp`
are bring-up; `ReceiveFrames`/`ReceiveFails`, `Deliver` the receive loop;
`Transmit`, `SendCompletes` the transmit loop. The variables `fetched`,
`received`, `wire` are histories in which frames are numbers. `failed` and
`told` are too: the steps of bring-up that failed and the reports made, against
which `DeadInterfaceSaysSo` holds the error recorded and the link told.

`PacketInterface` knows neither chip nor transfer: an inbox that frames enter in
order, an outbox that is emptied in order, one at a time, and nothing but the
stack's own queueing before the interface is up. `KeepsOrder` is its specification
with the inbox read as the receive queue and what is left of the transfer,
the outbox as the transmit queue. It has no fairness: what moves in the end
is said by `SendQueueMoves` and `FetchedIsReceived`.

### EthernetBoard

Extends `Ethernet` by `boot` and the bus. A step of `kmain` that may fail either
goes on or halts (`Try`); on a *sound* board, chosen at the start, none fails.
`Claim` offers the chip to the image's drivers once. `Blocking` lists the steps
that ask the bus and spin. `Run` forgets what `kmain` knew, and from then on the
runner takes its steps. The site image programs the duplex before `run`, and the
runner starts the chip after it (`start`, by the comment at line 359, assumes
full duplex); the model has that order but no state for the duplex.

### WifiWatch and WifiBoot

`Pass` is the whole synchronous pass of the runner, `Elapse` the time to the
next one. `FoundGone`, `FoundBack`, `StillUp`, `StillJoining`, `StillDown` are
the arms of `Watch::pass`; `WatchOnly`, `JoinTaken`, `JoinRefused` the ways out
of `join`. The firmware's actions lie between passes. `off` and `sinceJoin` are
clocks for the properties. `sample_link` does not look at the association, so a
sample may show a signal while `ASSOCIATED` is false; `LinkWithdrawn` says when
it goes.

`receive` answers true for a frame and for any error, so a pass can count as
having heard from the network without one: by a frame left in the chip's FIFO,
or by a read that failed. The model lets it, at any time (`MayReceive`), until
the firmware is settled. A radio whose receives fail on every pass puts the probe
off for ever. `off` therefore counts from the loss, the first poll or the last
thing received, whichever is last, and `LossNoticed` bounds that time: what can be
promised is that a loss is noticed in time once the receives stop, however much
the stack sends.

Of a *settled* firmware three things are assumed that the crate cannot show: it
keeps its association and takes every command; it fails every link reading off
the network; and no receive covers up a loss the watch has not noticed. The liveness
properties and the second half of `JoinsPaced`, that no join is issued over a
live link, speak of a settled firmware; `OneAnswer`, `LossNoticed` and the pacing do
not.

`WifiBoot` is `kmain` before it: a file may be missing, be longer than the
buffer, or give less than its directory entry says; the table may know no radio
for the board, or the wrong one. Between the join and the first poll of `run`
the firmware may lose the network and any time may pass; the wait for the probe
starts with that poll (`Begin`).

### WifiFrames

A pass taken apart, because the firmware runs meanwhile: receive frame by frame,
one transmit, then the control commands. `limit`, `sent`, `freed` are sequence
numbers modulo `Seqs`; each frame but a malformed one carries the limit valid
when it was queued. `ReceiveBad` is such a malformed frame, `ReceiveFails` an
error with no frame behind it; both end the burst and count as hearing from the
radio. `Command` drains the chip, losing data. That the stack takes
a frame only with a transmit buffer at hand is how `embassy-net-driver-channel`
hands out its tokens.

### WifiCounters

`Clear`, `Want`, `Take` are the caller; `Begin`, `Store` the two ends of a
reading. `Local` is the set of callers that are tasks of the runner's core and
so cannot run between them; the others can.

### Applications and its parts

The parts share no state that a property of one speaks of, so one
specification runs one of them (`part`), and one run checks them all.

* `BurstCount`: a datagram is the size of its burst, or foreign. It travels chip,
  transfer, receive queue, socket, burst task; each place but the transfer may
  be full, and chip and socket then drop. `host.lost` is what really was lost.
* `EchoServer`: a byte is its connection and place. `buf` keeps what earlier reads
  left in it.
* `I2cBus`: time in heartbeat periods. `parked` says whether the core is free;
  `blocked` and `shown` measure, for the property, what `maxGap` should show.
* `IdleProbe`: time is what is left of a deadline and of the alarm. The driver is
  taken as `TimeDriver` promises, in one step; the task's and the handler's
  own writes to Compare 1 are in three (read the clock, write, look again).
* `Console`: a step goes from one await to the next, so a free mutex is taken in
  the step that gave it up.

## 3. Runs

| Run | Properties | Distinct states |
|---|---|---|
| `timer` | `AlarmCovers`, `RetryDrains`, `EveryDeadlineFires` | 25 000 |
| `executor` | `NoLostWake`, `SignalHeld`, `EveryWakePolls` | 63 000 |
| `system_two_cores` | refinement of `Sleep` (`KeepsPromise`) | 217 000 |
| `system_one_core` | `SleepersCovered`; refinement of `Sleep`, with a task that waits for more than its deadline | 247 000 |
| `ethernet` | `ReceiveLossless`, `SendAccounted`, `DeadInterfaceSaysSo`, refinement of `PacketInterface` (`KeepsOrder`), `OneCompleter`, `BoardSettles`, `SendQueueMoves`, `FetchedIsReceived` | 27 000 |
| `wifi_watch` | `FirmwareFits`, `BootEnds`, `OneAnswer`, `LossNoticed`, `JoinsPaced`, `Recovers`, `LinkWithdrawn` | 146 000 |
| `wifi_frames` | `ReceiveAccounted`, `SendAccounted`, `QueuesMove` | 368 000 |
| `wifi_counters` | `AnswerIsFresh`, `EveryRequestAnswered` | 900 |
| `applications` | `InterruptsServed`; `LossExact`, `SnapshotAgrees`; `EchoesOwnBytes`, `ServesAgain`; `BlockingShows`; `NeverPoisoned`, `InjectionEnds` | 74 000 |

`ethernet`, `wifi_watch` and `applications` check the type invariant too; those
of the other modules are theorems or part of a proved invariant (section 4). What each property
says, and of which lines, stands above it in its module.

Three further runs end in a counterexample, each against a sentence of the source
(`findings` in `PROJECT.json` quotes them):

* `wifi_settings`: an association the firmware renews between two probes is not
  noticed, so power management and the multicast filter stay reset.
* `wifi_counters_cross_core`: a request made from another core during a reading
  is answered by that reading, which began before it.
* `uart_report`: the echo task of the UART example gives the lock up and takes it
  again without an await in between, so the reporting task, woken each time,
  always finds it held: keys are pressed for ever and no `t=` line is written.

Some things the models show, or leave open, that contradict no sentence of the source:

* With both queues full and the credit spent, the Wi-Fi limit that would free
  them waits in frames the runner has no buffer to read. Nothing moves for
  `RX_SILENCE`; then the probe, meant for a silent radio, reads the limit and
  discards the data. It is the only thing that keeps the queues from
  wedging for good (`wifi_frames`).
* A transfer of the I2C example that holds the core at its very end is not
  reported: the record is read before the heartbeat next runs. `BlockingShows`
  therefore speaks of what a heartbeat has come after.
* A burst's baseline is taken when its first datagram reaches the task, and the
  transfer that brought it is by then usually counted. The two counters still
  agree with one another (`SnapshotAgrees`), but not with the burst's size.
  `BurstCount` takes the port to be quiet between bursts: foreign datagrams closer
  together than `QUIET` would keep a burst open into the next.
* An echo server's short write drops the rest of what was read, so a client gets
  its bytes in order but perhaps not all. One that vanishes without a word
  keeps the only socket: no time-out is set, and `ServesAgain` promises nothing then.

### Bounds and why they suffice

* `TimeDriver`: low word modulo 5, clamp 4, horizon 7, so that the low word
  wraps, the last deadline is beyond the clamp from the start, and a pass may
  take 2 ticks, enough for any deadline to come due at any register access. Two
  tasks, three deadlines. `Horizon` ends the run of time, `MAX` is beyond it.
* `Executor`: two cores, three tasks (two share a core and can queue behind one
  another), two concurrent wakers.
* `TimedSystem`: two tasks on two cores or on one; modulo 3, clamp 2, horizon 3,
  so that the far deadline is clamped and the low word wraps.
* `Ethernet`: a receive queue of 2 with batches of up to 3, so that a batch never
  fits; a transmit queue of 1, so that a token for the stack is scarce; four
  arrivals and two sends (`MaxIn`, `MaxOut`).
* `EthernetBoard`: the wait for the hub is 2 rounds instead of 100; hub and chip
  appear at any time or never, of either kind; all images.
* `WifiWatch`: the intervals keep the order they have in the code (probe =
  sample interval < retry = silence < budget), a pass may be late by two units,
  the runner has a `Reconnect` or not from the start, and the outage counters
  wrap at 2.
* `WifiBoot`: a buffer of 2 and files of up to 3, so that a file fits, fits
  exactly, or does not.
* `BurstCount`: bursts of 1 and of 3, two of them, one foreign datagram; a FIFO of
  2, a receive queue of 1 and transfers of 2, so that datagrams are lost in the
  chip and a batch stays half delivered; counters wrap at 8.
* `EchoServer`: two clients of four bytes, more than the buffer of 2 and the
  socket's 3; a transmit buffer that a full read does not always fit.
* `I2cBus`: four heartbeat periods, so that one transfer can hold the core for
  several and the ticker catch up.
* `IdleProbe`: three injections, two late writes, deadlines longer than the
  injection interval and shorter than the clamp.
* `Console`: a read of 2 and a receive FIFO of 3.
* `WifiFrames`: a burst, a window and queues of one make each limit bite at once;
  frame counters and sequence numbers wrap at 2, traffic is unbounded. `QueuesMove`
  has `<>[][~Fails]_vars` as a premise, that receives stop failing in the end: a
  radio that fails every one keeps the probe off and moves no credit.
* `WifiCounters`: six stamps, enough for two callers, one of them on another
  core, to ask twice each during readings.

### Fairness

The counter ticks; cores execute; a critical section runs to its end (weak
fairness: nothing disables these). A pending timer interrupt is taken in *some*
gap between critical sections, and a core that wants the critical section gets
it in some gap: strong fairness, since others may take it in between. No
spurious interrupt, no other wake-up, no link, no frame from the air and no
successful join is promised. The network stack is polled infinitely often when
it could take a frame (strong, because transmit slots come and go). USB
transfers end, as the host controller times them out. `kmain` goes on, but no
hub or chip is promised, and the site image's wait for its link, which the code
does not bound, has no fairness at all. In `Applications` the host sends what it
has begun, and a client acknowledges what it is sent; in `IdleProbe` the
counter ticks; nobody is promised to press a key except in `Console`, where it is
what starves the other task. For Wi-Fi, recovery is
promised only once the firmware is *settled* (section 2), and it then lands the
join it works on.

`CHECK_DEADLOCK FALSE` appears where a system may rightly stop: an image that has
halted, an Ethernet interface whose bring-up failed or all of whose bounded
traffic is done, a part of an application at the end of its bounds, and a
counters handshake that has used up its stamps.

## 4. Proofs

Proved by TLAPS from the modules' named assumptions, for all constants: for any
number of tasks, cores, wakers, callers and clients, and for any depth of a
queue, length of an interval, wrap of a counter and bound on the traffic. Every
safety property that a passing run checks is a theorem, and so is the
refinement of `PacketInterface`.

The argument is the same everywhere: an invariant `…Inv` that is inductive
contains the property as a conjunct or implies it; a lemma per action or group
of actions shows that it is kept. TLC checked each of these invariants on the
runs' instances before it was proved.

### `TimeDriverProofs`

Assumptions: `ClockAssumption` (the pass of a critical section is shorter than
the clamp and the clamp shorter than the wrap) and `ContextAssumption` (tasks,
interrupt and "free" differ).

* `TypeCorrect`: `TypeOK`.
* `AlarmAlwaysCovers`: `AlarmCovers`. It is not inductive: it speaks of states
  in which nobody is inside, and says nothing of how a holder gets there. `IInv`
  adds what each step of the section knows: after the drain no queued deadline
  is at or before the sample, `next` is at or before every queued deadline, the
  target is at or before `next` and within a clamp of the counter, and if the
  counter is below the target then the flag is set or the equality is still
  ahead. `Accepted` turns the last into `AlarmCovers`; `Tick` keeps it, because
  either the low word matches and the flag rises, or the meeting point is still
  ahead.
* `RetryAlwaysDrains`: `RetryDrains`. A target refused is `next` itself, not
  the clamp, since the pass is shorter than the clamp, and `next` is a
  deadline of a queued task.

### `ExecutorProofs`

Assumptions: `HomeAssumption`, `NoneAssumption`.

* `NoWakeIsLost`: `NoLostWake` for any cores, tasks and wakers. The invariant
  ties a non-empty queue of a core that is not about to poll to its event or to
  a performed enqueue whose `sev` is owed; `Enqueue` may skip the pender only
  when the queue was not empty, which is when that held already.
* `WakesAreHeld`: `SignalHeld` and `LinkedOnce`.

### `TimedSystemProofs`

Assumptions: `SystemAssumption` and `PartsAssumption`, which says that the
parts' own assumptions hold of the constants they are given.

* `SystemRunsTheDriver`, `SystemRunsTheExecutors`: every behaviour of the
  composition is one of `TimeDriver` and one of `Executor`, step by step. The
  second needs the driver's invariant (who expires an entry is inside, so it is a
  waker); the first needs that what a task asks for is a deadline.
* `AlarmCoversInTheSystem`, `NoWakeIsLostInTheSystem`: hence the theorems of the
  parts hold in the composition, instantiated rather than proved again.
* `NoSleeperIsForgotten`, `EverySleeperIsCovered`: `SleepersCovered`. The
  invariant `NoneForgotten` closes the gap between the parts: a task that sleeps
  is in the driver's queue no later than it asked for, or has been woken since
  its last poll. With `AlarmCovers` it gives the property, with `NoLostWake` and
  `SignalHeld` that the woken task's core will poll.
* `SystemTypeCorrect`: `TypeOK`.

### `EthernetProofs`

Assumptions: `SizeAssumption` of `Ethernet` (queues, FIFO and transfers hold at
least one frame) and `HubAssumption` (the wait for the hub has a round).

* `NothingReceivedIsLost`: `ReceiveLossless`. `RxInv` adds that what the chip
  holds is newer than what any transfer carried, and in order.
* `EverySendIsAccounted`: `SendAccounted`. That the wire is in order needs the
  numbers of the queue (`QueueNumbered`): its frames are the ones that come next
  after those done with, and the wire's are among the latter.
* `DeadInterfacesSaySo`: `DeadInterfaceSaysSo`, for bring-up that may fail
  anywhere: one report of the link, made once both loops run or the interface is
  parked, and an error recorded exactly if a step failed; `LoopsWhenUp` adds that before the loops run nothing has moved.
* `RunnerIsTheInterface`: `KeepsOrder`. Each step is one of `PacketInterface`, or
  a stutter for those that stay inside: `Deliver` moves a frame from the transfer to
  the queue, which the mapping reads as one inbox.
* `ImageRunsTheRunner`, `ImagesKeepTheRunnersPromises`: from power-on, every
  behaviour of an image is one of the runner's, so that all four hold of the image.
* `OneCompleterAtATime`: `OneCompleter`, since the interrupt is armed by the last
  step before the executor (`ArmedLast`). `ImageTypeCorrect`: `BoardTypeOK`.

### `WifiProofs`

Assumptions: `IntervalAssumption` (the intervals and the delay of a pass are at
least one; nothing about their order) and `FileAssumption`.

* `AnswersAgree`: `OneAnswer`.
* `LossIsNoticed`: `LossNoticed`, for a firmware that does anything at all. By
  itself it does not survive a pass: why is the watch no longer up by then?
  `Noticing` adds that the silence is at least as long as `off` or already full;
  that the probe's wait runs as well, so that the two are within the interval
  together; and that after a pass one of the two is not over.
* `JoinsArePaced`: `JoinsPaced`. Its first half is by `Pacing`: the time since the
  last join and the wait before the next make up the gap between them. Its second
  is by the probe that comes before each join in the same pass, which a settled
  firmware answers truthfully.
* `ImageRunsTheWatch`, `ImageKeepsTheWatchsPromises`: they hold of the image.
* `FirmwareIsTheChips`: `FirmwareFits`; `ChipAsked` adds that firmware is given
  only where the chip that answered is the one the files were chosen for.
* `BootTypeCorrect`: `BootTypeOK`.

### `WifiFramesProofs`

Assumption: `SizeAssumption` (sizes of at least one, a window below the sequence
numbers' modulus).

* `EveryArrivalIsAccounted`, `EveryQueuedFrameIsAccounted`: `ReceiveAccounted` and
  `SendAccounted`, which are inductive given `TypeOK` (`FramesTypeCorrect`). The
  work is in the arithmetic: counters are equal modulo their wrap, and the data
  frames in the FIFO are counted by their places (`Places`), so that what a burst
  or a command takes out of it is a difference of cardinalities.

### `WifiCountersProofs`

Assumption: `CallerAssumption`.

* `AnswerAlwaysFresh`: `AnswerIsFresh` for any callers, any of them foreign, and
  any bound on the stamps. `Aware` strengthens it by what a local caller can rely
  on: between its two steps nothing is being read and the slot stays empty, and a
  reading under way began after its last request, because the runner begins one
  only when no local caller is between its steps.

### `ApplicationsProofs`

Assumptions: `SizeAssumption` (buffers hold something; an injection interval is
not beyond the clamp, as in `embassy_time_idle.rs`) and `WindowAssumption`: a
burst and what others send during it are fewer datagrams than the 32-bit
counters count to. The code accepts bursts of at most `MAX_BURST`, a million.

* `LossIsExact`: `LossExact`. `Reckoned` accounts for every datagram of the host's
  burst: unsent, on its way, lost, or received; once a burst is closed nothing of it
  is left to come. The places of a queue that hold the burst's own are counted as
  in `WifiFramesProofs`, but through five queues in a row.
* `SnapshotsAgree`: `SnapshotAgrees`. The counters wrap, so nothing can be said
  of them but relative to the baseline: there are numbers `frames` and `batches`
  by which they rose since, with `2 * batches <= frames`, and `frames` is within
  what was sent, hence below the wrap. That is where `WindowAssumption` enters,
  and without it the subtraction modulo the wrap would not give them back.
* `OwnBytesOnly`: `EchoesOwnBytes`. What was echoed, what is held in the buffer and
  what waits to be read are this client's bytes, in ascending order one after the
  other; what an earlier client left in the buffer is beyond `n`.
* `BlockingIsShown`: `BlockingShows`; the core was held no longer than the heartbeat
  has been away.
* `DeadlineIsSpared`: `NeverPoisoned`; matches are injected only in phases in
  which no deadline is queued, and a handler's injection is over before the task
  that cleared the flag goes on.
* `TypeCorrect`: `TypeOK`, part by part.

### Only model-checked

* Liveness: `EveryDeadlineFires`, `EveryWakePolls`, `KeepsPromise` (whose
  safety half is the poll's guard), `BoardSettles`, `SendQueueMoves`, `FetchedIsReceived`,
  `BootEnds`, `Recovers`, `LinkWithdrawn`, `QueuesMove`, `EveryRequestAnswered`,
  `InterruptsServed`, `ServesAgain`, `InjectionEnds`. It rests on fairness, hence on
  `ENABLED`, which is out of this prover's reach.
* `Console`, whose only property is the one it violates.

## 5. Plan

Done: the core (time driver, executor, both composed and refined to `Sleep`,
dispatch), both network runners, the images that start them, the refinement of
the Ethernet runner to `PacketInterface`, the tasks of the examples, and proofs of
every safety property the runs check.

Next, in this order:

1. The safety that the liveness properties rest on and that no theorem states: that
   the handler of each image services every source its gates let in, and that
   the Wi-Fi runner's credit never exceeds what the firmware granted.
2. `WifiWatch` and `WifiFrames` composed, without liveness: together their state
   space is beyond TLC's five minutes with it. What is lost is the commands of a
   rejoin against the frame path; `WifiFrames` has those of a probe. As with
   `TimedSystem`, the proofs of the parts would carry over.
