--------------------------- MODULE TimedSystemProofs ---------------------------
(***************************************************************************)
(* Proofs about TimedSystem, for any number of cores and tasks, any clock  *)
(* that satisfies PartsAssumption, and any tasks that other sources wake:  *)
(* each part runs in the composition as it does alone, so that what is     *)
(* proved of it alone holds in the composition too; and no task that       *)
(* sleeps is forgotten between them.                                       *)
(***************************************************************************)
EXTENDS TimedSystem, TLAPS

(* The theorems about the parts.                                           *)
Driver == INSTANCE TimeDriverProofs
Executors == INSTANCE ExecutorProofs

-----------------------------------------------------------------------------
LEMMA InitTasks == Init => TaskTypes
BY DEF Init, TaskTypes

(* What a task awaits changes in its polls only.                           *)
LEMMA StepTasks == TaskTypes /\ [Next]_vars => TaskTypes'
<1> SUFFICES ASSUME TaskTypes, [Next]_vars PROVE TaskTypes'
  OBVIOUS
<1>1. UNCHANGED taskVars => TaskTypes'
  BY DEF TaskTypes, taskVars
<1>2. ASSUME NEW t \in Tasks, NEW d \in Deadlines \cup {MAX},
             goal' = [goal EXCEPT ![t] = d],
             lap' = lap \/ lap' = [lap EXCEPT ![t] = 1 - @]
      PROVE  TaskTypes'
  <2>1. lap[t] \in {0, 1}
    BY DEF TaskTypes
  <2>2. 1 - lap[t] \in {0, 1}
    BY <2>1
  <2> QED
    BY <1>2, <2>2 DEF TaskTypes
<1>3. ASSUME NEW c \in Cores, NEW t \in Tasks, PollTask(c, t) PROVE TaskTypes'
  <2>1. CASE PollAgain(c, t) \/ PollEnded(c, t)
    BY <1>1, <2>1 DEF PollAgain, PollEnded
  <2>2. CASE PollOther(c, t)
    <3>1. PICK d \in Deadlines : goal' = [goal EXCEPT ![t] = d]
      BY <2>2 DEF PollOther
    <3> QED
      BY <1>2, <2>2, <3>1 DEF PollOther
  <2>3. CASE PollDue(c, t)
    <3>1. PICK d \in Deadlines \cup {MAX} : goal' = [goal EXCEPT ![t] = d]
      BY <2>3 DEF PollDue
    <3> QED
      BY <1>2, <2>3, <3>1 DEF PollDue
  <2> QED
    BY <1>3, <2>1, <2>2, <2>3 DEF PollTask
<1>4. CASE UNCHANGED vars
  BY <1>1, <1>4 DEF vars
<1> QED
  BY <1>1, <1>3, <1>4 DEF Next, Clock, BringUp, TimerIrq, DriverStep, Expire, WakerStep,
     DeviceWake, Start, Loop, OtherInterrupt

-----------------------------------------------------------------------------
(* The driver's own actions, named as its theorems name them.              *)
LEMMA DriverActions ==
    /\ D!Init <=> Driver!Init
    /\ D!Tick <=> Driver!Tick
    /\ D!InitDriver <=> Driver!InitDriver
    /\ D!Unmask <=> Driver!Unmask
    /\ D!TimerIrq <=> Driver!TimerIrq
    /\ \A t, at : D!ScheduleWake(t, at) <=> Driver!ScheduleWake(t, at)
    /\ \A t : D!Expire(t) <=> Driver!Expire(t)
    /\ D!ClearMatch \/ D!Sample \/ D!Drained \/ D!Arm \/ D!Accepted \/ D!Refused
           <=> \/ Driver!ClearMatch \/ Driver!Sample \/ Driver!Drained
               \/ Driver!Arm \/ Driver!Accepted \/ Driver!Refused
BY DEF D!Init, Driver!Init, D!Tick, Driver!Tick, D!InitDriver, Driver!InitDriver,
   D!Unmask, Driver!Unmask, D!TimerIrq, Driver!TimerIrq, D!OnIrq, Driver!OnIrq,
   D!Enter, Driver!Enter, D!ScheduleWake, Driver!ScheduleWake, D!Earlier, Driver!Earlier,
   D!HeadUnchanged, Driver!HeadUnchanged, D!Queued, Driver!Queued,
   D!Expire, Driver!Expire, D!Due, Driver!Due, D!ClearMatch, Driver!ClearMatch,
   D!Sample, Driver!Sample, D!Drained, Driver!Drained, D!Remaining, Driver!Remaining,
   D!Arm, Driver!Arm, D!Clamped, Driver!Clamped, D!LowWord, Driver!LowWord,
   D!Accepted, Driver!Accepted, D!Armed, Driver!Armed, D!Release, Driver!Release,
   D!Refused, Driver!Refused, D!hardware, Driver!hardware, D!locals, Driver!locals

LEMMA DriverUnchanged == UNCHANGED driverVars <=> UNCHANGED Driver!vars
BY DEF driverVars, Driver!vars, Driver!hardware, Driver!locals

(* Each step of the system is one of the driver or none of its business;   *)
(* what a task asks for is a deadline, which is why it must not ask when   *)
(* it has ended.                                                           *)
LEMMA StepDriver == TaskTypes /\ [Next]_vars => [Driver!Next]_Driver!vars
<1> SUFFICES ASSUME TaskTypes, [Next]_vars, ~UNCHANGED driverVars PROVE Driver!Next
  BY DriverUnchanged
<1>1. ASSUME NEW c \in Cores, NEW t \in Tasks, PollTask(c, t) PROVE Driver!Next
  <2>1. \E at \in Deadlines : D!ScheduleWake(t, at)
    BY <1>1 DEF PollTask, PollAgain, PollOther, PollDue, PollEnded, Ended, TaskTypes
  <2> QED
    BY <2>1, DriverActions DEF Driver!Next
<1>2. CASE Clock \/ BringUp \/ TimerIrq
  BY <1>2, DriverActions DEF Clock, BringUp, TimerIrq, Driver!Next
<1>3. CASE DriverStep
  BY <1>3, DriverActions DEF DriverStep, Expire, Driver!Next, Driver!HolderStep
<1> QED
  BY <1>1, <1>2, <1>3 DEF Next, vars, WakerStep, DeviceWake, Start, Loop, OtherInterrupt

(* In the composition the driver behaves as it does alone.                 *)
THEOREM SystemRunsTheDriver == Spec => Driver!Spec
<1>1. Init => Driver!Init
  BY DriverActions DEF Init
<1> QED
  BY <1>1, InitTasks, StepTasks, StepDriver, PTL DEF Spec, Driver!Spec

(* So its alarm covers every queued deadline here too, whatever the        *)
(* executors do between two of its steps (time_driver.rs 88-97, 102-107).  *)
THEOREM AlarmCoversInTheSystem == Spec => [](D!AlarmCovers /\ D!RetryDrains)
<1>1. Driver!AlarmCovers <=> D!AlarmCovers
  BY DEF D!AlarmCovers, Driver!AlarmCovers, D!Queued, Driver!Queued, D!LowWord, Driver!LowWord
<1>2. Driver!RetryDrains <=> D!RetryDrains
  BY DEF D!RetryDrains, Driver!RetryDrains
<1> QED
  BY <1>1, <1>2, SystemRunsTheDriver, Driver!AlarmAlwaysCovers, Driver!RetryAlwaysDrains,
     PartsAssumption, PTL DEF Driver!AlarmAlwaysCovers, Driver!RetryAlwaysDrains

-----------------------------------------------------------------------------
(* The executors' own actions, named as their theorems name them.          *)
LEMMA ExecutorActions ==
    /\ X!Init <=> Executors!Init
    /\ \A c : X!Spawn(c) <=> Executors!Spawn(c)
    /\ \A c : X!TakeQueue(c) \/ X!PollReturns(c) \/ X!ConsumeEvent(c) \/ X!Park(c)
           <=> \/ Executors!TakeQueue(c) \/ Executors!PollReturns(c)
               \/ Executors!ConsumeEvent(c) \/ Executors!Park(c)
    /\ \A c, t : X!PollTask(c, t) <=> Executors!PollTask(c, t)
    /\ \A c : X!Interrupt(c) <=> Executors!Interrupt(c)
    /\ \A w, t : X!BeginWake(w, t) <=> Executors!BeginWake(w, t)
    /\ \A w : X!WakerStep(w) <=> Executors!WakerStep(w)
BY DEF X!Init, Executors!Init, X!Spawn, Executors!Spawn, X!TasksOf, Executors!TasksOf,
   X!TakeQueue, Executors!TakeQueue, X!PollReturns, Executors!PollReturns,
   X!ConsumeEvent, Executors!ConsumeEvent, X!Park, Executors!Park,
   X!PollTask, Executors!PollTask, X!Interrupt, Executors!Interrupt,
   X!BeginWake, Executors!BeginWake, X!Owner, Executors!Owner,
   X!WakerStep, Executors!WakerStep, X!Enqueue, Executors!Enqueue, X!Linked, Executors!Linked,
   X!Pender, Executors!Pender, X!DsbComplete, Executors!DsbComplete, X!Sev, Executors!Sev,
   X!wakerVars, Executors!wakerVars

LEMMA ExecutorsUnchanged == UNCHANGED execVars <=> UNCHANGED Executors!vars
BY DEF execVars, Executors!vars, Executors!wakerVars

(* Each step of the system is one of an executor or none of its business.  *)
(* The driver wakes from inside the critical section, as its holder.       *)
LEMMA StepExecutors == Driver!IInv /\ [Next]_vars => [Executors!Next]_Executors!vars
<1> SUFFICES ASSUME Driver!IInv, [Next]_vars, ~UNCHANGED execVars PROVE Executors!Next
  BY ExecutorsUnchanged
<1>1. ASSUME NEW c \in Cores, Start(c) \/ Loop(c) PROVE Executors!Next
  BY <1>1, ExecutorActions DEF Start, Loop, Executors!Next, Executors!CoreStep
<1>2. ASSUME NEW c \in Cores, NEW t \in Tasks, PollTask(c, t) PROVE Executors!Next
  <2>1. X!PollTask(c, t)
    BY <1>2 DEF PollTask, PollAgain, PollOther, PollDue, PollEnded
  <2> QED
    BY <2>1, ExecutorActions DEF Executors!Next, Executors!CoreStep
<1>3. ASSUME NEW c \in Cores, X!Interrupt(c) PROVE Executors!Next
  BY <1>3, ExecutorActions DEF Executors!Next
<1>4. ASSUME NEW w \in Wakers, NEW t \in Tasks, X!BeginWake(w, t) PROVE Executors!Next
  BY <1>4, ExecutorActions DEF Executors!Next
<1>5. ASSUME NEW t \in Tasks, Expire(t) PROVE Executors!Next
  <2>1. X!BeginWake(holder, t) /\ step = "drain"
    BY <1>5 DEF Expire, D!Expire
  <2>2. holder \in Wakers
    BY <2>1 DEF Driver!IInv, Driver!TypeOK, Driver!HolderShape, Driver!Contexts, Wakers
  <2> QED
    BY <1>4, <2>1, <2>2
<1>6. CASE TimerIrq
  BY <1>3, <1>6, SystemAssumption DEF TimerIrq
<1>7. ASSUME NEW w \in Wakers, WakerStep(w) PROVE Executors!Next
  BY <1>7, ExecutorActions DEF WakerStep, Executors!Next
<1>8. ASSUME NEW t \in Tasks, DeviceWake(t) PROVE Executors!Next
  BY <1>4, <1>8 DEF DeviceWake, Wakers
<1> QED
  BY <1>1, <1>2, <1>3, <1>5, <1>6, <1>7, <1>8
  DEF Next, vars, Clock, BringUp, DriverStep, OtherInterrupt

(* In the composition the executors behave as they do alone.               *)
THEOREM SystemRunsTheExecutors == Spec => Executors!Spec
<1>1. Init => Executors!Init
  BY ExecutorActions DEF Init
<1>2. Spec => []Driver!IInv
  BY SystemRunsTheDriver, Driver!Inductive, PartsAssumption, PTL DEF Driver!Inductive
<1> QED
  BY <1>1, <1>2, StepExecutors, PTL DEF Spec, Executors!Spec

(* So no core sleeps over a queued task and no wake-up is dropped here     *)
(* either, with the driver and the interrupt as wakers (executor.rs 95).   *)
THEOREM NoWakeIsLostInTheSystem == Spec => [](X!NoLostWake /\ X!SignalHeld /\ X!LinkedOnce)
<1>1. Executors!NoLostWake <=> X!NoLostWake
  BY DEF X!NoLostWake, Executors!NoLostWake, X!Notified, Executors!Notified
<1>2. Executors!SignalHeld /\ Executors!LinkedOnce <=> X!SignalHeld /\ X!LinkedOnce
  BY DEF X!SignalHeld, Executors!SignalHeld, X!Linked, Executors!Linked,
     X!Owner, Executors!Owner, X!LinkedOnce, Executors!LinkedOnce
<1> QED
  BY <1>1, <1>2, SystemRunsTheExecutors, Executors!NoWakeIsLost, Executors!WakesAreHeld,
     PartsAssumption, PTL DEF Executors!NoWakeIsLost, Executors!WakesAreHeld

-----------------------------------------------------------------------------
(* A task that sleeps is in the driver's queue, no later than it asked     *)
(* for, or it has been woken since.                                        *)
NoneForgotten ==
    \A t \in Tasks : Sleeping(t) => t \in signalled \/ expires[t] <= goal[t]

PartsTyped == Driver!TypeOK /\ Executors!TypeOK

LEMMA PartsWellTyped == Spec => []PartsTyped
<1>1. Executors!IInv => Executors!TypeOK
  BY DEF Executors!IInv
<1> QED
  BY <1>1, SystemRunsTheDriver, SystemRunsTheExecutors, Driver!TypeCorrect,
     Executors!Inductive, PartsAssumption, PTL
  DEF Driver!TypeCorrect, Executors!Inductive, PartsTyped

(* The numbers behind the types.                                           *)
LEMMA Numbers ==
    /\ MAX \in Nat /\ \A d \in Deadlines : d \in Nat /\ d < MAX
    /\ TaskTypes => \A t \in Tasks : goal[t] \in Nat
    /\ PartsTyped => now \in Nat /\ \A t \in Tasks : expires[t] \in Nat
<1>1. MAX \in Nat /\ \A d \in Deadlines : d \in Nat /\ d < MAX
  BY PartsAssumption DEF D!ClockAssumption
<1>2. now \in 0 .. Horizon => now \in Nat
  BY PartsAssumption DEF D!ClockAssumption
<1> QED
  BY <1>1, <1>2 DEF TaskTypes, PartsTyped, Driver!TypeOK

(* A poll that asks the driver again leaves its task in the queue.         *)
LEMMA AskingKeeps ==
    ASSUME TaskTypes, PartsTyped, NoneForgotten, NEW t \in Tasks, NEW c \in Cores,
           NEW d \in Deadlines, X!PollTask(c, t), D!ScheduleWake(t, d),
           goal' = [goal EXCEPT ![t] = d]
    PROVE  NoneForgotten'
<1>1. /\ mode' = mode /\ signalled' = signalled \ {t}
      /\ expires' = [expires EXCEPT ![t] = D!Earlier(expires[t], d)]
  BY DEF X!PollTask, D!ScheduleWake
<1>2. goal \in [Tasks -> Deadlines \cup {MAX}] /\ expires \in [Tasks -> Deadlines \cup {MAX}]
  BY DEF TaskTypes, PartsTyped, Driver!TypeOK
<1>3. D!Earlier(expires[t], d) <= d
  BY Numbers DEF D!Earlier
<1> SUFFICES ASSUME NEW u \in Tasks, Sleeping(u)' PROVE u \in signalled' \/ expires'[u] <= goal'[u]
  BY DEF NoneForgotten
<1>4. CASE u = t
  BY <1>1, <1>2, <1>3, <1>4
<1>5. CASE u # t
  <2>1. goal'[u] = goal[u] /\ expires'[u] = expires[u]
    BY <1>1, <1>2, <1>5
  <2>2. Sleeping(u)
    BY <1>1, <2>1 DEF Sleeping, Ended
  <2> QED
    BY <1>1, <1>5, <2>1, <2>2 DEF NoneForgotten
<1> QED
  BY <1>4, <1>5

(* A poll after which the task has ended leaves the others as they were.   *)
LEMMA EndingKeeps ==
    ASSUME TaskTypes, NoneForgotten, NEW t \in Tasks, NEW c \in Cores,
           X!PollTask(c, t), UNCHANGED driverVars,
           goal' = [goal EXCEPT ![t] = MAX]
    PROVE  NoneForgotten'
<1>1. mode' = mode /\ signalled' = signalled \ {t} /\ expires' = expires
  BY DEF X!PollTask, driverVars
<1> SUFFICES ASSUME NEW u \in Tasks, Sleeping(u)' PROVE u \in signalled' \/ expires'[u] <= goal'[u]
  BY DEF NoneForgotten
<1>2. u # t
  BY DEF Sleeping, Ended, TaskTypes
<1>3. goal'[u] = goal[u] /\ Sleeping(u)
  BY <1>1, <1>2 DEF TaskTypes, Sleeping, Ended
<1> QED
  BY <1>1, <1>2, <1>3 DEF NoneForgotten

(* Any other step starts no sleep but of a task it wakes, and takes a task *)
(* out of the queue only by waking it.                                     *)
LEMMA OthersKeep ==
    ASSUME NoneForgotten, goal' = goal, signalled \subseteq signalled',
           \A t \in Tasks : /\ Sleeping(t)' => Sleeping(t) \/ t \in signalled'
                            /\ expires'[t] = expires[t] \/ t \in signalled'
    PROVE  NoneForgotten'
BY DEF NoneForgotten

LEMMA StepForgetsNone ==
    TaskTypes /\ PartsTyped /\ NoneForgotten /\ [Next]_vars => NoneForgotten'
<1> SUFFICES ASSUME TaskTypes, PartsTyped, NoneForgotten, [Next]_vars PROVE NoneForgotten'
  OBVIOUS
<1>1. ASSUME NEW c \in Cores, NEW t \in Tasks, PollTask(c, t) PROVE NoneForgotten'
  <2>0. X!PollTask(c, t) /\ goal \in [Tasks -> Deadlines \cup {MAX}]
    BY <1>1 DEF PollTask, PollAgain, PollOther, PollDue, PollEnded, TaskTypes
  <2>1. goal = [goal EXCEPT ![t] = goal[t]]
    BY <2>0
  <2>2. CASE PollAgain(c, t)
    BY <2>0, <2>1, <2>2, AskingKeeps DEF PollAgain, taskVars, Ended
  <2>3. CASE PollOther(c, t)
    BY <2>0, <2>3, AskingKeeps DEF PollOther
  <2>4. CASE PollDue(c, t)
    BY <2>0, <2>4, AskingKeeps, EndingKeeps DEF PollDue
  <2>5. CASE PollEnded(c, t)
    BY <2>0, <2>1, <2>5, EndingKeeps DEF PollEnded, taskVars, Ended
  <2> QED
    BY <1>1, <2>2, <2>3, <2>4, <2>5 DEF PollTask
<1>2. CASE UNCHANGED <<goal, expires, mode, signalled>>
  BY <1>2, OthersKeep DEF Sleeping, Ended
<1>3. ASSUME NEW c \in Cores, Start(c) PROVE NoneForgotten'
  <2>1. /\ goal' = goal /\ expires' = expires /\ mode' = [mode EXCEPT ![c] = "poll"]
        /\ signalled' = signalled \cup {t \in Tasks : Home[t] = c}
    BY <1>3 DEF Start, X!Spawn, X!TasksOf, driverVars, taskVars
  <2>2. \A t \in Tasks : Home[t] # c => mode'[Home[t]] = mode[Home[t]]
    BY <2>1, PartsAssumption DEF X!HomeAssumption, PartsTyped, Executors!TypeOK
  <2> QED
    BY <2>1, <2>2, OthersKeep DEF Sleeping, Ended
<1>4. ASSUME NEW c \in Cores, UNCHANGED <<goal, expires, signalled>>, mode[c] # "init",
             NEW m, mode' = [mode EXCEPT ![c] = m]
      PROVE  NoneForgotten'
  BY <1>4, OthersKeep DEF Sleeping, Ended, PartsTyped, Executors!TypeOK
<1>5. ASSUME NEW c \in Cores, Loop(c) \/ OtherInterrupt(c) PROVE NoneForgotten'
  <2>1. /\ UNCHANGED <<goal, expires, signalled>> /\ mode[c] # "init"
        /\ \E m : mode' = [mode EXCEPT ![c] = m]
    BY <1>5 DEF Loop, OtherInterrupt, X!TakeQueue, X!PollReturns, X!ConsumeEvent, X!Park,
       X!Interrupt, driverVars, taskVars
  <2> QED
    BY <1>4, <2>1
<1>6. CASE TimerIrq
  <2>1. UNCHANGED <<goal, expires>>
    BY <1>6 DEF TimerIrq, D!TimerIrq, D!OnIrq, taskVars
  <2>2. CASE X!Interrupt(IrqCore)
    BY <1>4, <2>1, <2>2, SystemAssumption DEF X!Interrupt
  <2>3. CASE UNCHANGED execVars
    BY <1>2, <2>1, <2>3 DEF execVars
  <2> QED
    BY <1>6, <2>2, <2>3 DEF TimerIrq
<1>7. ASSUME NEW w, NEW t \in Tasks, X!BeginWake(w, t), goal' = goal,
             \A u \in Tasks : expires'[u] = expires[u] \/ u = t
      PROVE  NoneForgotten'
  BY <1>7, OthersKeep DEF X!BeginWake, Sleeping, Ended
<1>8. ASSUME NEW t \in Tasks, Expire(t) PROVE NoneForgotten'
  <2>1. goal' = goal /\ X!BeginWake(holder, t) /\ expires' = [expires EXCEPT ![t] = MAX]
    BY <1>8 DEF Expire, D!Expire, taskVars
  <2> QED
    BY <1>7, <2>1 DEF PartsTyped, Driver!TypeOK
<1>9. ASSUME NEW t \in Tasks, DeviceWake(t) PROVE NoneForgotten'
  BY <1>7, <1>9 DEF DeviceWake, driverVars, taskVars
<1>10. CASE Clock \/ BringUp \/ \E w \in Wakers : WakerStep(w)
  <2>1. UNCHANGED <<goal, expires, mode, signalled>>
    BY <1>10 DEF Clock, BringUp, D!Tick, D!InitDriver, D!Unmask, WakerStep, X!WakerStep,
       X!Enqueue, X!Pender, driverVars, execVars, taskVars
  <2> QED
    BY <1>2, <2>1
<1>11. CASE DriverStep
  <2>1. CASE /\ D!ClearMatch \/ D!Sample \/ D!Drained \/ D!Arm \/ D!Accepted \/ D!Refused
             /\ UNCHANGED <<execVars, taskVars>>
    <3>1. UNCHANGED expires
      BY <2>1 DEF D!ClearMatch, D!Sample, D!Drained, D!Arm, D!Accepted, D!Refused
    <3> QED
      BY <1>2, <2>1, <3>1 DEF execVars, taskVars
  <2> QED
    BY <1>8, <1>11, <2>1 DEF DriverStep
<1>12. CASE UNCHANGED vars
  BY <1>2, <1>12 DEF vars, driverVars, execVars, taskVars
<1> QED
  BY <1>1, <1>3, <1>5, <1>6, <1>9, <1>10, <1>11, <1>12 DEF Next

(* The hand-over between driver and executors has no gap: not at a poll,   *)
(* not at a wake-up, not when a task turns from one deadline to another.   *)
THEOREM NoSleeperIsForgotten == Spec => []NoneForgotten
<1>1. Init => NoneForgotten
  BY PartsAssumption DEF Init, X!Init, X!HomeAssumption, NoneForgotten, Sleeping
<1> QED
  BY <1>1, InitTasks, StepTasks, PartsWellTyped, StepForgetsNone, PTL DEF Spec

(* The state of the whole is well typed.                                   *)
THEOREM SystemTypeCorrect == Spec => []TypeOK
<1>1. PartsTyped /\ TaskTypes => TypeOK
  BY DEF PartsTyped, TypeOK, D!TypeOK, Driver!TypeOK, D!Contexts, Driver!Contexts, D!Steps,
     Driver!Steps, X!TypeOK, Executors!TypeOK, X!TasksOf, Executors!TasksOf
<1> QED
  BY <1>1, InitTasks, StepTasks, PartsWellTyped, PTL DEF Spec

(* What the parts keep and what is kept between them, put together.        *)
THEOREM EverySleeperIsCovered == Spec => []SleepersCovered
<1>1. TaskTypes /\ PartsTyped /\ NoneForgotten /\ D!AlarmCovers => SleepersCovered
  <2> SUFFICES ASSUME TaskTypes, PartsTyped, NoneForgotten, D!AlarmCovers, holder = Free,
                      NEW t \in Tasks, Sleeping(t), t \notin signalled, ~match
               PROVE  \E a \in now + 1 .. goal[t] : D!LowWord(a) = c1
    BY DEF SleepersCovered
  <2>1. expires[t] <= goal[t] /\ goal[t] \in Deadlines
    BY DEF NoneForgotten, Sleeping, Ended, TaskTypes
  <2>2. goal[t] \in Nat /\ expires[t] \in Nat /\ now \in Nat /\ goal[t] < MAX /\ MAX \in Nat
    BY <2>1, Numbers
  <2>3. t \in D!Queued
    BY <2>1, <2>2 DEF D!Queued
  <2>4. PICK a \in now + 1 .. expires[t] : D!LowWord(a) = c1
    BY <2>3 DEF D!AlarmCovers
  <2>5. a \in now + 1 .. goal[t]
    BY <2>1, <2>2
  <2> QED
    BY <2>4, <2>5
<1>2. Spec => []TaskTypes
  BY InitTasks, StepTasks, PTL DEF Spec
<1> QED
  BY <1>1, <1>2, PartsWellTyped, NoSleeperIsForgotten, AlarmCoversInTheSystem, PTL
=============================================================================
