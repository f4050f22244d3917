------------------------------ MODULE TimedSystem ------------------------------
(***************************************************************************)
(* The executor and the time driver at work together: tasks that await     *)
(* deadlines, the timer interrupt on its core, and the executors of one or *)
(* more cores (src/src/time_driver.rs, src/src/executor.rs).               *)
(*                                                                         *)
(* A task is polled and calls schedule_wake from inside its poll; the      *)
(* driver, from the interrupt handler or from a task's own schedule_wake,  *)
(* wakes what is due through the executor's wakers; the interrupt ends the *)
(* wfe of its core and its handler holds that core up while it runs.       *)
(***************************************************************************)
EXTENDS Naturals, FiniteSets

CONSTANTS
    Cores, Tasks, Home, None,                           \* as in Executor
    Irq, Free, W, Clamp, MaxStall, Horizon, Deadlines, MAX,  \* as in TimeDriver
    IrqCore,    \* the core the timer interrupt is routed to
    Device,     \* whatever else wakes a task: another interrupt, another task
    Mixed       \* the tasks that wait for more than their deadline

ASSUME SystemAssumption ==
    /\ IrqCore \in Cores
    /\ Device \notin Tasks \cup {Irq}
    /\ Mixed \subseteq Tasks

VARIABLES
    mode, runq, batch, event, storing, sevDue, signalled,
    now, c1, match, phase, expires, holder, step, sampled, next, target, stall,
    goal,       \* the deadline a task awaits, MAX once it has ended
    lap         \* parity of the number of awaits the task has completed

Wakers == Tasks \cup {Irq, Device}

D == INSTANCE TimeDriver
X == INSTANCE Executor

(* What either part takes for granted holds where they meet.               *)
ASSUME PartsAssumption ==
    /\ D!ClockAssumption /\ D!ContextAssumption
    /\ X!HomeAssumption /\ X!NoneAssumption

driverVars == <<now, c1, match, phase, expires, holder, step, sampled, next, target, stall>>
execVars == <<mode, runq, batch, event, storing, sevDue, signalled>>
taskVars == <<goal, lap>>
vars == <<driverVars, execVars, taskVars>>

TaskTypes ==
    /\ goal \in [Tasks -> Deadlines \cup {MAX}]
    /\ lap \in [Tasks -> {0, 1}]

TypeOK ==
    /\ D!TypeOK
    /\ X!TypeOK
    /\ TaskTypes

Init ==
    /\ D!Init
    /\ X!Init
    /\ goal \in [Tasks -> Deadlines]
    /\ lap = [t \in Tasks |-> 0]

-----------------------------------------------------------------------------
(* A core inside the driver, in the handler or in a task's schedule_wake,  *)
(* does nothing else.                                                      *)
CoreOf(ctx) == IF ctx = Irq THEN IrqCore ELSE Home[ctx]

Inside(c) == holder # Free /\ CoreOf(holder) = c

(* A wake-up the holder started is over before its next step.              *)
WakerIdle == holder # Free => storing[holder] = None /\ ~sevDue[holder]

Clock == D!Tick /\ UNCHANGED <<execVars, taskVars>>

BringUp == (D!InitDriver \/ D!Unmask) /\ UNCHANGED <<execVars, taskVars>>

(* "anything that should wake it ... must be enabled before this is called" *)
(* (executor.rs 129-131).                                                   *)
Start(c) ==
    /\ phase = "unmasked"
    /\ X!Spawn(c)
    /\ UNCHANGED <<driverVars, taskVars>>

(* The executor's own steps between two polls of tasks.                    *)
Loop(c) ==
    /\ ~Inside(c)
    /\ X!TakeQueue(c) \/ X!PollReturns(c) \/ X!ConsumeEvent(c) \/ X!Park(c)
    /\ UNCHANGED <<driverVars, taskVars>>

(* Another source than the timer ends a core's wfe.                        *)
OtherInterrupt(c) ==
    /\ ~Inside(c)
    /\ X!Interrupt(c)
    /\ UNCHANGED <<driverVars, taskVars>>

(* A task's poll.  Before its deadline it asks again, or something else it *)
(* waits for has come and it turns to another deadline; after it, it goes  *)
(* on and awaits the next, or ends.  A wake-up that was on its way to a    *)
(* task when it ended comes to nothing.                                    *)
TooEarly(t) == now < goal[t]

Ended(t) == goal[t] = MAX

PollAgain(c, t) ==
    /\ ~Inside(c)
    /\ TooEarly(t) /\ ~Ended(t)
    /\ X!PollTask(c, t)
    /\ D!ScheduleWake(t, goal[t])
    /\ UNCHANGED taskVars

PollOther(c, t) ==
    /\ t \in Mixed
    /\ ~Inside(c)
    /\ TooEarly(t) /\ ~Ended(t)
    /\ X!PollTask(c, t)
    /\ \E d \in Deadlines :
          /\ goal' = [goal EXCEPT ![t] = d]
          /\ D!ScheduleWake(t, d)
    /\ UNCHANGED lap

PollDue(c, t) ==
    /\ ~Inside(c)
    /\ ~TooEarly(t)
    /\ X!PollTask(c, t)
    /\ \/ \E d \in Deadlines :
              /\ goal' = [goal EXCEPT ![t] = d]
              /\ D!ScheduleWake(t, d)
       \/ /\ goal' = [goal EXCEPT ![t] = MAX]
          /\ UNCHANGED driverVars
    /\ lap' = [lap EXCEPT ![t] = 1 - @]

PollEnded(c, t) ==
    /\ ~Inside(c)
    /\ Ended(t)
    /\ X!PollTask(c, t)
    /\ UNCHANGED <<driverVars, taskVars>>

PollTask(c, t) ==
    PollAgain(c, t) \/ PollOther(c, t) \/ PollDue(c, t) \/ PollEnded(c, t)

DeviceWake(t) ==
    /\ t \in Mixed /\ ~Ended(t)
    /\ X!BeginWake(Device, t)
    /\ UNCHANGED <<driverVars, taskVars>>

-----------------------------------------------------------------------------
(* The interrupt is taken on its core, and ends that core's wfe.           *)
TimerIrq ==
    /\ D!TimerIrq
    /\ IF mode[IrqCore] = "asleep" THEN X!Interrupt(IrqCore) ELSE UNCHANGED execVars
    /\ UNCHANGED taskVars

Expire(t) ==
    /\ WakerIdle
    /\ D!Expire(t)
    /\ X!BeginWake(holder, t)
    /\ UNCHANGED taskVars

DriverStep ==
    \/ \E t \in Tasks : Expire(t)
    \/ /\ WakerIdle
       /\ D!ClearMatch \/ D!Sample \/ D!Drained \/ D!Arm \/ D!Accepted \/ D!Refused
       /\ UNCHANGED <<execVars, taskVars>>

WakerStep(ctx) == X!WakerStep(ctx) /\ UNCHANGED <<driverVars, taskVars>>

Next ==
    \/ Clock
    \/ BringUp
    \/ TimerIrq
    \/ DriverStep
    \/ \E ctx \in Wakers : WakerStep(ctx)
    \/ \E t \in Tasks : DeviceWake(t)
    \/ \E c \in Cores :
          \/ Start(c) \/ Loop(c) \/ OtherInterrupt(c)
          \/ \E t \in Tasks : PollTask(c, t)

(* Time passes; cores execute; a pending interrupt is taken and a core     *)
(* that spins for the critical section gets it in some gap.                *)
Fairness ==
    /\ WF_vars(Clock)
    /\ WF_vars(BringUp)
    /\ SF_vars(TimerIrq)
    /\ WF_vars(DriverStep)
    /\ \A ctx \in Wakers : WF_vars(WakerStep(ctx))
    /\ \A c \in Cores :
          /\ WF_vars(Start(c))
          /\ WF_vars(Loop(c))
          /\ SF_vars(\E t \in Tasks : PollTask(c, t))

Spec == Init /\ [][Next]_vars
FairSpec == Spec /\ Fairness

-----------------------------------------------------------------------------
(* Whenever nobody is inside the driver, a task that sleeps has been woken *)
(* since it last ran, or the alarm is pending or will meet the counter at  *)
(* or before the deadline the task awaits: nothing is dropped between what *)
(* a poll asks for, what the driver queues and wakes, and the next poll    *)
(* (time_driver.rs 85-97, 117-127, executor.rs 93-98).                     *)
Sleeping(t) == mode[Home[t]] # "init" /\ ~Ended(t)

SleepersCovered ==
    holder = Free =>
        \A t \in Tasks : Sleeping(t) =>
            \/ t \in signalled
            \/ match \/ \E a \in now + 1 .. goal[t] : D!LowWord(a) = c1

(* The system keeps the promise: never resumed early, always resumed.      *)
(* Sleep sees the driver's clock and the tasks; all else is hidden.  The   *)
(* first half rests on the poll alone, which asks the clock before it goes *)
(* on; it is the second that driver, interrupt and executors must keep up  *)
(* together (time_driver.rs 85-127, executor.rs 51-82, 132-146).           *)
Promise == INSTANCE Sleep WITH now <- now, goal <- goal, lap <- lap

KeepsPromise == Promise!Spec
=============================================================================
