------------------------------ MODULE TimeDriver ------------------------------
(***************************************************************************)
(* The embassy-time driver on System Timer Compare 1                       *)
(* (src/src/time_driver.rs).                                               *)
(*                                                                         *)
(* The hardware counts microseconds in 64 bits, but Compare 1 is an        *)
(* equality test on the low word alone: a deadline written after the       *)
(* counter went past it fires a whole wrap late.  The driver therefore     *)
(* has to arm a moving target.  Everything it does happens in a critical   *)
(* section (interrupts masked, and a spinlock between cores), but the      *)
(* counter runs on inside it, so the section is modelled as a holder that  *)
(* takes one register access per step with ticks in between.               *)
(*                                                                         *)
(* Two parts are not in the crate's source: the System Timer (Tick and     *)
(* set_compare1) and the timer queue of embassy-time-queue-utils           *)
(* (expires, Expire, the answer of schedule_wake).  They are modelled by   *)
(* what time_driver.rs relies on.                                          *)
(***************************************************************************)
EXTENDS Naturals

CONSTANTS
    Tasks,      \* the tasks that wait for deadlines, one waker each
    Irq, Free,  \* the other holders of the critical section
    W,          \* modulus of the low word: 2^32 in the hardware
    Clamp,      \* farthest target set_compare1 arms; farther ones are cut to it
    MaxStall,   \* most ticks one pass of a critical section can take
    Horizon,    \* last value of the counter that is looked at
    Deadlines,  \* the deadlines tasks may ask for
    MAX         \* u64::MAX, "no deadline"

(* A critical section is far shorter than the ~35 minutes of the clamp,    *)
(* and the clamp is below the wrap, so a target never aliases with now.    *)
ASSUME ClockAssumption ==
    /\ {W, Clamp, MaxStall, Horizon, MAX} \subseteq Nat
    /\ MaxStall < Clamp /\ Clamp < W
    /\ Horizon < MAX
    /\ Deadlines \subseteq 0 .. Horizon

ASSUME ContextAssumption ==
    /\ Irq \notin Tasks
    /\ Free \notin Tasks
    /\ Irq # Free

VARIABLES
    now,        \* the 64-bit counter
    c1,         \* the Compare 1 register
    match,      \* the Compare 1 match flag, the interrupt's level
    phase,      \* how far the application's bring-up has come
    expires,    \* expires[t]: deadline of t in the queue, MAX when not queued
    holder,     \* who is in the critical section
    step,       \* the holder's next register access
    sampled,    \* the holder's last reading of the counter
    next,       \* what next_expiration returned to the holder
    target,     \* what set_compare1 wrote for it
    stall       \* ticks since the holder last read the counter to arm

hardware == <<now, c1, match>>
locals == <<sampled, next, target>>
vars == <<hardware, phase, expires, holder, step, locals, stall>>

Contexts == Tasks \cup {Irq}
Steps == {"idle", "clear", "sample", "drain", "arm", "check", "retry"}

LowWord(x) == x % W

Queued == {t \in Tasks : expires[t] # MAX}

TypeOK ==
    /\ now \in 0 .. Horizon
    /\ c1 \in 0 .. W - 1
    /\ match \in BOOLEAN
    /\ phase \in {"boot", "enabled", "unmasked"}
    /\ expires \in [Tasks -> Deadlines \cup {MAX}]
    /\ holder \in Contexts \cup {Free}
    /\ step \in Steps
    /\ sampled \in Nat /\ next \in Nat /\ target \in Nat
    /\ stall \in 0 .. MaxStall

-----------------------------------------------------------------------------
(* The program starts with whatever an earlier one left in Compare 1.      *)
Init ==
    /\ now = 0
    /\ c1 \in 0 .. W - 1
    /\ match \in BOOLEAN
    /\ phase = "boot"
    /\ expires = [t \in Tasks |-> MAX]
    /\ holder = Free
    /\ step = "idle"
    /\ sampled = 0 /\ next = 0 /\ target = 0
    /\ stall = 0

(* The counter moves whatever the software does.  The flag is sticky.      *)
Tick ==
    /\ now < Horizon
    /\ holder # Free => stall < MaxStall
    /\ now' = now + 1
    /\ match' = (match \/ LowWord(now') = c1)
    /\ stall' = IF holder = Free THEN 0 ELSE stall + 1
    /\ UNCHANGED <<c1, phase, expires, holder, step, locals>>

(* init(): clear a match left from before, then enable the source.         *)
InitDriver ==
    /\ phase = "boot"
    /\ match' = FALSE
    /\ phase' = "enabled"
    /\ UNCHANGED <<now, c1, expires, holder, step, locals, stall>>

(* The application's last bring-up step: unmask interrupts at the CPU.     *)
Unmask ==
    /\ phase = "enabled"
    /\ phase' = "unmasked"
    /\ UNCHANGED <<hardware, expires, holder, step, locals, stall>>

-----------------------------------------------------------------------------
Enter(c, first) ==
    /\ holder = Free
    /\ holder' = c
    /\ step' = first

Release ==
    /\ holder' = Free
    /\ step' = "idle"
    /\ sampled' = 0 /\ next' = 0 /\ target' = 0
    /\ stall' = 0

(* The queue keeps the sooner of two deadlines of one task.  It answers    *)
(* that its head changed unless an entry at most as late was there before; *)
(* answering so without need costs a re-arm and is allowed.                *)
Earlier(a, b) == IF a < b THEN a ELSE b

HeadUnchanged(at) == \E u \in Queued : expires[u] <= at

(* Mutant: nothing is queued behind an earlier deadline.                   *)
ScheduleWakeHeadOnly(t, at) ==
    /\ phase # "boot"
    /\ holder = Free
    /\ \/ expires' = [expires EXCEPT ![t] = Earlier(@, at)] /\ Enter(t, "sample")
       \/ HeadUnchanged(at) /\ UNCHANGED <<expires, holder, step>>
    /\ UNCHANGED <<hardware, phase, locals, stall>>

(* No task runs before init: each kmain calls it before it starts the     *)
(* executor.  The code does not check.                                     *)
ScheduleWake(t, at) ==
    /\ phase # "boot"
    /\ holder = Free
    /\ expires' = [expires EXCEPT ![t] = Earlier(@, at)]
    /\ \/ Enter(t, "sample")
       \/ HeadUnchanged(at) /\ UNCHANGED <<holder, step>>
    /\ UNCHANGED <<hardware, phase, locals, stall>>

(* on_timer_irq(), called for a pending match or spuriously.               *)
OnIrq ==
    /\ Enter(Irq, "clear")
    /\ UNCHANGED <<hardware, phase, expires, locals, stall>>

TimerIrq == phase = "unmasked" /\ match /\ OnIrq

SpuriousCall == phase # "boot" /\ ~match /\ OnIrq

ClearMatch ==
    /\ step = "clear"
    /\ match' = FALSE
    /\ step' = "sample"
    /\ UNCHANGED <<now, c1, phase, expires, holder, locals, stall>>

(* rearm(): self.now(), both before the loop and in its body.              *)
(* Mutant: the counter is read once, before the loop.                      *)
SampleOnce ==
    /\ step \in {"sample", "retry"}
    /\ sampled' = IF step = "retry" THEN sampled ELSE now
    /\ step' = "drain"
    /\ stall' = 0
    /\ UNCHANGED <<hardware, phase, expires, holder, next, target>>

Sample ==
    /\ step \in {"sample", "retry"}
    /\ sampled' = now
    /\ step' = "drain"
    /\ stall' = 0
    /\ UNCHANGED <<hardware, phase, expires, holder, next, target>>

(* queue.next_expiration(sampled): wake every entry that is due ...        *)
Due(t) == expires[t] <= sampled

Expire(t) ==
    /\ step = "drain"
    /\ Due(t)
    /\ expires' = [expires EXCEPT ![t] = MAX]
    /\ UNCHANGED <<hardware, phase, holder, step, locals, stall>>

(* ... and return the earliest that is left, u64::MAX when there is none.  *)
Remaining == {expires[t] : t \in Tasks} \cup {MAX}

Drained ==
    /\ step = "drain"
    /\ \A t \in Tasks : ~Due(t)
    /\ \E m \in Remaining :
          /\ \A n \in Remaining : m <= n
          /\ next' = m
    /\ step' = "arm"
    /\ UNCHANGED <<hardware, phase, expires, holder, sampled, target, stall>>

(* set_compare1(next): write the low word of the clamped target ...        *)
Clamped(deadline) == Earlier(deadline, now + Clamp)

(* Mutant: the deadline is cut to the low word before it is compared.      *)
ArmTruncated ==
    /\ step = "arm"
    /\ target' = Clamped(LowWord(next))
    /\ c1' = LowWord(target')
    /\ match' \in {match, match \/ LowWord(now) = c1'}
    /\ step' = "check"
    /\ stall' = 0
    /\ UNCHANGED <<now, phase, expires, holder, sampled, next>>

Arm ==
    /\ step = "arm"
    /\ target' = Clamped(next)
    /\ c1' = LowWord(target')
    /\ match' \in {match, match \/ LowWord(now) = c1'}
    /\ step' = "check"
    /\ stall' = 0
    /\ UNCHANGED <<now, phase, expires, holder, sampled, next>>

(* ... then see whether the counter is still below it.                     *)
Armed == now < target

Accepted ==
    /\ step = "check"
    /\ Armed
    /\ Release
    /\ UNCHANGED <<hardware, phase, expires>>

(* Mutant: the answer of set_compare1 is ignored.                          *)
RefusedIgnored ==
    /\ step = "check"
    /\ ~Armed
    /\ Release
    /\ UNCHANGED <<hardware, phase, expires>>

Refused ==
    /\ step = "check"
    /\ ~Armed
    /\ step' = "retry"
    /\ UNCHANGED <<hardware, phase, expires, holder, locals, stall>>

HolderStep ==
    \/ ClearMatch
    \/ Sample
    \/ \E t \in Tasks : Expire(t)
    \/ Drained
    \/ Arm
    \/ Accepted
    \/ Refused

Next ==
    \/ Tick
    \/ InitDriver
    \/ Unmask
    \/ \E t \in Tasks, at \in Deadlines : ScheduleWake(t, at)
    \/ TimerIrq
    \/ SpuriousCall
    \/ HolderStep

(* Time passes, bring-up is finished, a critical section runs to its end,  *)
(* and a pending interrupt is taken in some gap between critical sections. *)
Fairness ==
    /\ WF_vars(Tick)
    /\ WF_vars(InitDriver)
    /\ WF_vars(Unmask)
    /\ WF_vars(HolderStep)
    /\ SF_vars(TimerIrq)

Spec == Init /\ [][Next]_vars
FairSpec == Spec /\ Fairness

-----------------------------------------------------------------------------
(* Whenever nobody is inside the driver, every queued deadline is covered: *)
(* the interrupt is pending, or the counter meets Compare 1 at or before   *)
(* it.  This is what clear-before-drain, the retry of a refused target and *)
(* skipping the re-arm behind an earlier deadline have to preserve         *)
(* (time_driver.rs 88-97, 102-107, 119-125).                               *)
AlarmCovers ==
    holder = Free =>
        \A t \in Queued :
            match \/ \E a \in now + 1 .. expires[t] : LowWord(a) = c1

(* set_compare1 refuses only when an entry has come due, so the next pass  *)
(* of the loop removes one and the loop ends: "Each pass removes at least  *)
(* the entry that just came due, so this terminates" (time_driver.rs 88).  *)
RetryDrains ==
    step = "retry" => \E t \in Tasks : expires[t] <= now

(* Every deadline that is asked for is eventually served, whatever is      *)
(* asked for in the meantime.                                              *)
EveryDeadlineFires ==
    \A t \in Tasks : expires[t] # MAX ~> expires[t] = MAX
=============================================================================
