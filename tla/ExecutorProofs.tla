---------------------------- MODULE ExecutorProofs ----------------------------
(* Proofs about Executor, for any cores, tasks and wakers.                 *)
EXTENDS Executor, TLAPS

(* A waker whose enqueue is unseen still owes its pender call, and poll    *)
(* takes the queue only when it is done with the batch before.             *)
Owed == \A w \in Wakers : storing[w] # None => sevDue[w]

BatchDone == \A c \in Cores : mode[c] # "run" => batch[c] = {}

IInv ==
    /\ TypeOK
    /\ Owed
    /\ BatchDone
    /\ NoLostWake
    /\ LinkedOnce
    /\ SignalHeld

LEMMA OwnerCore == \A t \in Tasks : Owner(t) \in Cores /\ t \in TasksOf(Owner(t))
BY HomeAssumption DEF Owner, TasksOf

LEMMA InitIInv == Init => IInv
BY DEF Init, IInv, TypeOK, Owed, BatchDone, NoLostWake, LinkedOnce, SignalHeld

LEMMA SpawnStep == ASSUME IInv, NEW c \in Cores, Spawn(c) PROVE IInv'
<1>1. /\ mode[c] = "init" /\ mode' = [mode EXCEPT ![c] = "poll"]
      /\ runq' = [runq EXCEPT ![c] = TasksOf(c)]
      /\ signalled' = signalled \cup TasksOf(c)
      /\ event' = [d \in Cores |-> event[d] \/ TasksOf(c) # {}]
      /\ UNCHANGED <<batch, storing, sevDue>>
    BY DEF Spawn, wakerVars
<1>2. TypeOK'
    BY <1>1 DEF IInv, TypeOK, TasksOf
<1>3. Owed' /\ BatchDone'
    BY <1>1 DEF IInv, TypeOK, Owed, BatchDone
<1>4. NoLostWake'
    BY <1>1 DEF IInv, TypeOK, NoLostWake, Notified
<1>5. LinkedOnce'
    BY <1>1 DEF IInv, TypeOK, LinkedOnce, BatchDone
<1>6. SignalHeld'
    <2> SUFFICES ASSUME NEW t \in signalled', ~Linked(t)'
                 PROVE  \E w \in Wakers : storing[w] = t
        BY <1>1 DEF SignalHeld
    <2>1. t \in Tasks
        BY <1>2 DEF TypeOK
    <2>2. Owner(t) # c
        BY <1>1, <2>1, OwnerCore DEF Linked, IInv, TypeOK
    <2>3. t \in signalled /\ ~Linked(t)
        BY <1>1, <2>1, <2>2, OwnerCore DEF Linked, IInv, TypeOK, Owner, TasksOf
    <2> QED
        BY <2>3 DEF IInv, SignalHeld
<1> QED
    BY <1>2, <1>3, <1>4, <1>5, <1>6 DEF IInv

LEMMA TakeQueueStep == ASSUME IInv, NEW c \in Cores, TakeQueue(c) PROVE IInv'
<1>1. /\ mode[c] = "poll" /\ mode' = [mode EXCEPT ![c] = "run"]
      /\ batch' = [batch EXCEPT ![c] = runq[c]]
      /\ runq' = [runq EXCEPT ![c] = {}]
      /\ UNCHANGED <<event, storing, sevDue, signalled>>
    BY DEF TakeQueue, wakerVars
<1>2. TypeOK'
    BY <1>1 DEF IInv, TypeOK
<1>3. Owed' /\ BatchDone'
    BY <1>1 DEF IInv, TypeOK, Owed, BatchDone
<1>4. NoLostWake'
    BY <1>1 DEF IInv, TypeOK, NoLostWake, Notified
<1>5. LinkedOnce'
    BY <1>1 DEF IInv, TypeOK, LinkedOnce
<1>6. batch[c] = {}
    BY <1>1 DEF IInv, BatchDone
<1>7. \A t \in Tasks : Linked(t) => Linked(t)'
    BY <1>1, <1>6, OwnerCore DEF Linked, IInv, TypeOK, Owner
<1>8. SignalHeld'
    BY <1>1, <1>7 DEF IInv, TypeOK, SignalHeld
<1> QED
    BY <1>2, <1>3, <1>4, <1>5, <1>8 DEF IInv

LEMMA PollTaskStep ==
    ASSUME IInv, NEW c \in Cores, NEW t \in Tasks, PollTask(c, t) PROVE IInv'
<1>1. /\ mode[c] = "run"
      /\ t \in batch[c] /\ batch' = [batch EXCEPT ![c] = @ \ {t}]
      /\ signalled' = signalled \ {t}
      /\ UNCHANGED <<mode, runq, event, storing, sevDue>>
    BY DEF PollTask, wakerVars
<1>2. TypeOK'
    BY <1>1 DEF IInv, TypeOK
<1>3. Owed' /\ BatchDone' /\ NoLostWake' /\ LinkedOnce'
    BY <1>1 DEF IInv, TypeOK, Owed, BatchDone, NoLostWake, Notified, LinkedOnce
<1>4. \A u \in Tasks \ {t} : Linked(u) => Linked(u)'
    BY <1>1, OwnerCore DEF Linked, IInv, TypeOK, Owner
<1>5. SignalHeld'
    BY <1>1, <1>4 DEF IInv, TypeOK, SignalHeld
<1> QED
    BY <1>2, <1>3, <1>5 DEF IInv

(* The steps around wfe: the event is given up only to poll again.         *)
LEMMA IdleStep ==
    ASSUME IInv, NEW c \in Cores,
           PollReturns(c) \/ ConsumeEvent(c) \/ Park(c) \/ Interrupt(c)
    PROVE  IInv'
<1>1. /\ \/ mode' = [mode EXCEPT ![c] = "wfe"] /\ batch[c] = {} /\ event' = event
         \/ mode' = [mode EXCEPT ![c] = "poll"] /\ mode[c] # "run"
            /\ (event' = event \/ event' = [event EXCEPT ![c] = FALSE])
         \/ mode' = [mode EXCEPT ![c] = "asleep"] /\ mode[c] = "wfe" /\ event' = event
      /\ mode[c] # "poll"
      /\ UNCHANGED <<runq, batch, storing, sevDue, signalled>>
    BY DEF PollReturns, ConsumeEvent, Park, Interrupt, wakerVars
<1>2. TypeOK'
    BY <1>1 DEF IInv, TypeOK
<1>3. Owed' /\ BatchDone' /\ LinkedOnce'
    BY <1>1 DEF IInv, TypeOK, Owed, BatchDone, LinkedOnce
<1>4. NoLostWake'
    <2> SUFFICES ASSUME NEW d \in Cores, mode'[d] # "poll", runq[d] # {}
                 PROVE  Notified(d)'
        BY <1>1 DEF NoLostWake
    <2>1. mode[d] # "poll" /\ event'[d] = event[d]
        BY <1>1 DEF IInv, TypeOK
    <2> QED
        BY <1>1, <2>1 DEF IInv, NoLostWake, Notified
<1>5. SignalHeld'
    BY <1>1 DEF IInv, SignalHeld, Linked
<1> QED
    BY <1>2, <1>3, <1>4, <1>5 DEF IInv

LEMMA BeginWakeStep ==
    ASSUME IInv, NEW w \in Wakers, NEW t \in Tasks, BeginWake(w, t) PROVE IInv'
<1>1. /\ storing[w] = None /\ sevDue[w] = FALSE
      /\ storing' = [storing EXCEPT ![w] = t]
      /\ sevDue' = [sevDue EXCEPT ![w] = TRUE]
      /\ signalled' = signalled \cup {t}
      /\ UNCHANGED <<mode, runq, batch, event>>
    BY DEF BeginWake, IInv, TypeOK
<1>2. TypeOK'
    BY <1>1 DEF IInv, TypeOK
<1>3. Owed' /\ BatchDone' /\ LinkedOnce'
    BY <1>1 DEF IInv, TypeOK, Owed, BatchDone, LinkedOnce
<1>4. NoLostWake'
    BY <1>1 DEF IInv, TypeOK, NoLostWake, Notified
<1>5. SignalHeld'
    <2> SUFFICES ASSUME NEW u \in signalled', ~Linked(u)
                 PROVE  \E v \in Wakers : storing'[v] = u
        BY <1>1 DEF SignalHeld, Linked
    <2>1. CASE u = t
        BY <1>1, <2>1 DEF IInv, TypeOK
    <2>2. CASE u # t
        <3>1. PICK v \in Wakers : storing[v] = u
            BY <1>1, <2>2 DEF IInv, SignalHeld
        <3>2. u # None
            BY <1>2, NoneAssumption DEF TypeOK
        <3> QED
            BY <1>1, <3>1, <3>2 DEF IInv, TypeOK
    <2> QED
        BY <2>1, <2>2
<1> QED
    BY <1>2, <1>3, <1>4, <1>5 DEF IInv

(* The waker that finds the queue empty is the one that owes the sev.      *)
LEMMA EnqueueStep == ASSUME IInv, NEW w \in Wakers, Enqueue(w) PROVE IInv'
<1> DEFINE t == storing[w]
           c == Owner(t)
<1>1. /\ t # None /\ storing' = [storing EXCEPT ![w] = None]
      /\ \/ Linked(t) /\ runq' = runq /\ sevDue' = [sevDue EXCEPT ![w] = FALSE]
         \/ /\ ~Linked(t) /\ runq' = [runq EXCEPT ![c] = @ \cup {t}]
            /\ \/ sevDue' = sevDue
               \/ runq[c] # {} /\ sevDue' = [sevDue EXCEPT ![w] = FALSE]
      /\ UNCHANGED <<mode, batch, event, signalled>>
    BY DEF Enqueue
<1>2. t \in Tasks /\ c \in Cores /\ t \in TasksOf(c) /\ sevDue[w]
    BY <1>1, OwnerCore DEF IInv, TypeOK, Owed
<1> HIDE DEF c
<1>3. TypeOK'
    <2>1. runq' \in [Cores -> SUBSET Tasks]
        BY <1>1, <1>2 DEF IInv, TypeOK
    <2>2. \A d \in Cores : runq'[d] \cup batch'[d] \subseteq TasksOf(d)
        BY <1>1, <1>2 DEF IInv, TypeOK
    <2>3. storing' \in [Wakers -> Tasks \cup {None}] /\ sevDue' \in [Wakers -> BOOLEAN]
        BY <1>1 DEF IInv, TypeOK
    <2> QED
        BY <1>1, <2>1, <2>2, <2>3 DEF IInv, TypeOK
<1>4. Owed' /\ BatchDone'
    BY <1>1 DEF IInv, TypeOK, Owed, BatchDone
<1>5. NoLostWake'
    <2> SUFFICES ASSUME NEW d \in Cores, mode[d] # "poll", runq'[d] # {}
                 PROVE  Notified(d)'
        BY <1>1 DEF NoLostWake
    <2>1. CASE runq[d] # {}
        <3>1. event[d] \/ \E v \in Wakers : sevDue[v] /\ storing[v] = None
            BY <2>1 DEF IInv, NoLostWake, Notified
        <3> QED
            BY <1>1, <3>1 DEF IInv, TypeOK, Notified
    <2>2. CASE runq[d] = {}
        <3>1. d = c /\ sevDue' = sevDue
            BY <1>1, <1>2, <2>2 DEF IInv, TypeOK
        <3> QED
            BY <1>1, <1>2, <3>1 DEF IInv, TypeOK, Notified
    <2> QED
        BY <2>1, <2>2
<1>6. LinkedOnce'
    BY <1>1, <1>2 DEF IInv, TypeOK, LinkedOnce, Linked, c
<1>7. \A u \in Tasks : Linked(u) \/ u = t => Linked(u)'
    <2> SUFFICES ASSUME NEW u \in Tasks, Linked(u) \/ u = t PROVE Linked(u)'
        OBVIOUS
    <2>1. CASE Linked(t) /\ runq' = runq
        BY <1>1, <2>1 DEF Linked, Owner
    <2>2. CASE runq' = [runq EXCEPT ![c] = @ \cup {t}]
        <3>1. runq[Owner(u)] \subseteq runq'[Owner(u)]
            BY <1>2, <2>2, OwnerCore DEF IInv, TypeOK
        <3>2. t \in runq'[c]
            BY <1>2, <2>2 DEF IInv, TypeOK
        <3> QED
            BY <1>1, <3>1, <3>2 DEF Linked, Owner, c
    <2> QED
        BY <1>1, <2>1, <2>2
<1>8. SignalHeld'
    <2> SUFFICES ASSUME NEW u \in signalled, ~Linked(u)'
                 PROVE  \E v \in Wakers : storing'[v] = u
        BY <1>1 DEF SignalHeld
    <2>1. u \in Tasks
        BY DEF IInv, TypeOK
    <2>2. ~Linked(u) /\ u # t
        BY <1>7, <2>1
    <2>3. PICK v \in Wakers : storing[v] = u
        BY <2>2 DEF IInv, SignalHeld
    <2> QED
        BY <1>1, <2>2, <2>3 DEF IInv, TypeOK
<1> QED
    BY <1>3, <1>4, <1>5, <1>6, <1>8 DEF IInv

LEMMA PenderStep == ASSUME IInv, NEW w \in Wakers, Pender(w) PROVE IInv'
<1>1. /\ storing[w] = None /\ event' = [d \in Cores |-> TRUE]
      /\ sevDue' = [sevDue EXCEPT ![w] = FALSE]
      /\ UNCHANGED <<mode, runq, batch, storing, signalled>>
    BY DEF Pender, DsbComplete, Sev
<1>2. TypeOK'
    BY <1>1 DEF IInv, TypeOK
<1>3. Owed' /\ BatchDone' /\ LinkedOnce' /\ NoLostWake'
    BY <1>1 DEF IInv, TypeOK, Owed, BatchDone, LinkedOnce, NoLostWake, Notified
<1>4. SignalHeld'
    BY <1>1 DEF IInv, SignalHeld, Linked
<1> QED
    BY <1>2, <1>3, <1>4 DEF IInv

LEMMA StutterStep == IInv /\ UNCHANGED vars => IInv'
BY DEF IInv, TypeOK, Owed, BatchDone, NoLostWake, Notified, LinkedOnce,
       SignalHeld, Linked, vars, wakerVars

LEMMA NextIInv == IInv /\ [Next]_vars => IInv'
BY SpawnStep, TakeQueueStep, PollTaskStep, IdleStep, BeginWakeStep, EnqueueStep,
   PenderStep, StutterStep DEF Next, CoreStep, WakerStep

(* Every state the executors reach satisfies the strengthened invariant.   *)
THEOREM Inductive == Spec => []IInv
<1>1. Init => IInv
    BY InitIInv
<1>2. IInv /\ [Next]_vars => IInv'
    BY NextIInv
<1> QED
    BY <1>1, <1>2, PTL DEF Spec

(* "There is no lost-wake-up race" (executor.rs 95-98), on any number of   *)
(* cores and with any number of contexts waking at once.                   *)
THEOREM NoWakeIsLost == Spec => []NoLostWake
<1>1. IInv => NoLostWake
    BY DEF IInv
<1> QED
    BY <1>1, Inductive, PTL

(* No wake-up is dropped between Waker::wake and the poll it asks for, and *)
(* no task is linked into a run queue twice (executor.rs 45-47, 132-146).  *)
THEOREM WakesAreHeld == Spec => [](SignalHeld /\ LinkedOnce)
<1>1. IInv => SignalHeld /\ LinkedOnce
    BY DEF IInv
<1> QED
    BY <1>1, Inductive, PTL
=============================================================================
