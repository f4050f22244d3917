------------------------------- MODULE Executor -------------------------------
(***************************************************************************)
(* The thread-mode executor and its pender (src/src/executor.rs): each     *)
(* core polls its woken tasks, then parks in wfe until an event or an      *)
(* interrupt.  A wake-up comes from any context -- an interrupt handler, a *)
(* task of this core or of another one -- and is an enqueue followed by    *)
(* __pender's "dsb; sev".                                                  *)
(*                                                                         *)
(* A store of one core is seen by another only some time after it was      *)
(* issued, so a waker's enqueue is first issued (storing) and later        *)
(* performed; dsb is what holds the sev back until then.                   *)
(*                                                                         *)
(* The run queue is embassy-executor's: a task is linked into it at most   *)
(* once, poll takes the whole queue at once, and the pender is called when *)
(* the queue was empty.                                                    *)
(***************************************************************************)
EXTENDS Naturals, FiniteSets

CONSTANTS
    Cores,      \* the cores that run an executor
    Tasks,      \* the tasks spawned on them
    Home,       \* Home[t]: the core whose executor t was spawned on
    Wakers,     \* the contexts that wake tasks
    None        \* no task

ASSUME HomeAssumption == Home \in [Tasks -> Cores]
ASSUME NoneAssumption == None \notin Tasks

VARIABLES
    mode,       \* what each core's run() is doing
    runq,       \* tasks woken since the core last took its queue
    batch,      \* tasks taken by the poll in progress and not yet polled
    event,      \* the core's event register, sticky
    storing,    \* the task a waker's enqueue was issued for, unseen so far
    sevDue,     \* whether the waker's pender call is still to come
    signalled   \* tasks woken and not polled since

wakerVars == <<storing, sevDue>>
vars == <<mode, runq, batch, event, wakerVars, signalled>>

TasksOf(c) == {t \in Tasks : Home[t] = c}

(* A task names the executor it belongs to: a wake finds it from there.    *)
Owner(t) == Home[t]

TypeOK ==
    /\ mode \in [Cores -> {"init", "poll", "run", "wfe", "asleep"}]
    /\ runq \in [Cores -> SUBSET Tasks]
    /\ batch \in [Cores -> SUBSET Tasks]
    /\ \A c \in Cores : runq[c] \cup batch[c] \subseteq TasksOf(c)
    /\ event \in [Cores -> BOOLEAN]
    /\ storing \in [Wakers -> Tasks \cup {None}]
    /\ sevDue \in [Wakers -> BOOLEAN]
    /\ signalled \subseteq Tasks

Init ==
    /\ mode = [c \in Cores |-> "init"]
    /\ runq = [c \in Cores |-> {}]
    /\ batch = [c \in Cores |-> {}]
    /\ event \in [Cores -> BOOLEAN]
    /\ storing = [w \in Wakers |-> None]
    /\ sevDue = [w \in Wakers |-> FALSE]
    /\ signalled = {}

-----------------------------------------------------------------------------
(* run(init): the initial tasks are spawned, which wakes each of them.     *)
Spawn(c) ==
    /\ mode[c] = "init"
    /\ mode' = [mode EXCEPT ![c] = "poll"]
    /\ runq' = [runq EXCEPT ![c] = TasksOf(c)]
    /\ signalled' = signalled \cup TasksOf(c)
    /\ event' = [d \in Cores |-> event[d] \/ TasksOf(c) # {}]
    /\ UNCHANGED <<batch, wakerVars>>

(* poll() takes the whole run queue ...                                    *)
TakeQueue(c) ==
    /\ mode[c] = "poll"
    /\ mode' = [mode EXCEPT ![c] = "run"]
    /\ batch' = [batch EXCEPT ![c] = runq[c]]
    /\ runq' = [runq EXCEPT ![c] = {}]
    /\ UNCHANGED <<event, wakerVars, signalled>>

(* ... and polls each task of it.  From just before its poll a task can be *)
(* queued again.                                                           *)
PollTask(c, t) ==
    /\ mode[c] = "run"
    /\ t \in batch[c]
    /\ batch' = [batch EXCEPT ![c] = @ \ {t}]
    /\ signalled' = signalled \ {t}
    /\ UNCHANGED <<mode, runq, event, wakerVars>>

(* Mutant: what was queued during the poll is discarded with it.           *)
PollReturnsEmpty(c) ==
    /\ mode[c] = "run"
    /\ batch[c] = {}
    /\ mode' = [mode EXCEPT ![c] = "wfe"]
    /\ runq' = [runq EXCEPT ![c] = {}]
    /\ UNCHANGED <<batch, event, wakerVars, signalled>>

PollReturns(c) ==
    /\ mode[c] = "run"
    /\ batch[c] = {}
    /\ mode' = [mode EXCEPT ![c] = "wfe"]
    /\ UNCHANGED <<runq, batch, event, wakerVars, signalled>>

(* wfe: a pending event is consumed and the core goes on; without one it   *)
(* parks.  A parked core consumes the event that arrives.                  *)
ConsumeEvent(c) ==
    /\ mode[c] \in {"wfe", "asleep"}
    /\ event[c]
    /\ event' = [event EXCEPT ![c] = FALSE]
    /\ mode' = [mode EXCEPT ![c] = "poll"]
    /\ UNCHANGED <<runq, batch, wakerVars, signalled>>

Park(c) ==
    /\ mode[c] = "wfe"
    /\ ~event[c]
    /\ mode' = [mode EXCEPT ![c] = "asleep"]
    /\ UNCHANGED <<runq, batch, event, wakerVars, signalled>>

(* An interrupt ends a wfe whatever the event register says.               *)
Interrupt(c) ==
    /\ mode[c] = "asleep"
    /\ mode' = [mode EXCEPT ![c] = "poll"]
    /\ UNCHANGED <<runq, batch, event, wakerVars, signalled>>

-----------------------------------------------------------------------------
(* Waker::wake: the enqueue is issued.  What the task waits for is ready   *)
(* from here on.  A task that was never spawned has no waker.              *)
BeginWake(w, t) ==
    /\ storing[w] = None /\ ~sevDue[w]
    /\ mode[Owner(t)] # "init"
    /\ storing' = [storing EXCEPT ![w] = t]
    /\ sevDue' = [sevDue EXCEPT ![w] = TRUE]
    /\ signalled' = signalled \cup {t}
    /\ UNCHANGED <<mode, runq, batch, event>>

Linked(t) == t \in runq[Owner(t)] \cup batch[Owner(t)]

(* The enqueue is performed.  A task already linked is left where it is;   *)
(* a task that joins others may skip the pender.                           *)
Enqueue(w) ==
    LET t == storing[w]
        c == Owner(t)
    IN  /\ t # None
        /\ storing' = [storing EXCEPT ![w] = None]
        /\ \/ /\ Linked(t)
              /\ sevDue' = [sevDue EXCEPT ![w] = FALSE]
              /\ UNCHANGED runq
           \/ /\ ~Linked(t)
              /\ runq' = [runq EXCEPT ![c] = @ \cup {t}]
              /\ \/ UNCHANGED sevDue
                 \/ /\ runq[c] # {}
                    /\ sevDue' = [sevDue EXCEPT ![w] = FALSE]
        /\ UNCHANGED <<mode, batch, event, signalled>>

(* dsb completes when every store issued before it has been performed.     *)
(* Mutant: sev without the barrier.                                        *)
NoDsb(w) == TRUE

DsbComplete(w) == storing[w] = None

(* __pender: sev sets the event register of every core.                    *)
(* Mutant: no event is signalled.                                          *)
NoSev == event

Sev == [c \in Cores |-> TRUE]

Pender(w) ==
    /\ sevDue[w]
    /\ DsbComplete(w)
    /\ event' = Sev
    /\ sevDue' = [sevDue EXCEPT ![w] = FALSE]
    /\ UNCHANGED <<mode, runq, batch, storing, signalled>>

-----------------------------------------------------------------------------
CoreStep(c) ==
    \/ Spawn(c)
    \/ TakeQueue(c)
    \/ \E t \in Tasks : PollTask(c, t)
    \/ PollReturns(c)
    \/ ConsumeEvent(c)
    \/ Park(c)

WakerStep(w) == Enqueue(w) \/ Pender(w)

Next ==
    \/ \E c \in Cores : CoreStep(c) \/ Interrupt(c)
    \/ \E w \in Wakers : WakerStep(w) \/ \E t \in Tasks : BeginWake(w, t)

(* Each core executes its program, each started wake-up is finished.  No   *)
(* interrupt is promised.                                                  *)
Fairness ==
    /\ \A c \in Cores : WF_vars(CoreStep(c))
    /\ \A w \in Wakers : WF_vars(WakerStep(w))

Spec == Init /\ [][Next]_vars
FairSpec == Spec /\ Fairness

-----------------------------------------------------------------------------
(* "There is no lost-wake-up race between polling and sleeping"            *)
(* (executor.rs 95): a core whose queue is not empty is about to poll, or  *)
(* its event register is set, or some waker still owes the sev for it --   *)
(* also when that waker is another one than the last to queue a task.      *)
Notified(c) == event[c] \/ \E w \in Wakers : sevDue[w] /\ storing[w] = None

NoLostWake ==
    \A c \in Cores : mode[c] # "poll" /\ runq[c] # {} => Notified(c)

(* The run queue is an intrusive list: a task is in the queue or in the    *)
(* batch being polled, never in both, whoever wakes it while it is there.  *)
LinkedOnce ==
    \A c \in Cores : runq[c] \cap batch[c] = {}

(* A wake-up is never dropped on the way: a task woken and not polled      *)
(* since is in the queue or the batch, or its enqueue is under way.        *)
SignalHeld ==
    \A t \in signalled : Linked(t) \/ \E w \in Wakers : storing[w] = t

(* Every task that is woken is polled afterwards, with no help from an     *)
(* interrupt that happens to arrive (executor.rs 87-98, 139-144).          *)
EveryWakePolls ==
    \A t \in Tasks : t \in signalled ~> t \notin signalled
=============================================================================
