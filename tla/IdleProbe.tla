------------------------------- MODULE IdleProbe -------------------------------
(***************************************************************************)
(* src/examples/embassy_time_idle.rs: a task and an interrupt handler that *)
(* share Compare 1 with the time driver.  The task awaits a deadline, has  *)
(* the handler inject spurious matches while the timer queue is empty,     *)
(* waits for a key and for the last match, and awaits a deadline again.    *)
(*                                                                         *)
(* Time is what is left: of the queued deadline and of the alarm.  The     *)
(* driver's steps are those TimeDriver promises, taken whole: the handler  *)
(* clears the match, wakes what is due and arms the next deadline or the   *)
(* clamp; schedule_wake arms a deadline.  Between reading the clock for a  *)
(* target, writing it, and looking whether it has passed, time goes on.    *)
(***************************************************************************)
EXTENDS Naturals

CONSTANTS
    Delay,              \* how far ahead a deadline is
    INJECT_INTERVAL,
    Clamp,              \* the driver's alarm for an empty queue
    SPURIOUS_TARGET,
    MaxLate             \* bound: how often a write is found late

None == Clamp + 1

VARIABLES
    pc,         \* the task: "phase1", "aim", "write", "check", "read", "spin",
                \* "phase4", "done"
    irq,        \* the handler: "out", "driver", "aim", "write", "check"
    deadline,   \* what is left of the queued deadline
    alarm,      \* what is left until Compare 1 matches
    match,      \* the match flag
    target,     \* what is left of the task's and the handler's targets
    inject, spurious,   \* INJECT, SPURIOUS
    late        \* how many writes were late

vars == <<pc, irq, deadline, alarm, match, target, inject, spurious, late>>

TypeOK ==
    /\ pc \in {"phase1", "aim", "write", "check", "read", "spin", "phase4", "done"}
    /\ irq \in {"out", "driver", "aim", "write", "check"}
    /\ {deadline, alarm} \subseteq 0 .. None
    /\ target \in [{"task", "handler"} -> 0 .. INJECT_INTERVAL]
    /\ {match, inject} \subseteq BOOLEAN
    /\ spurious \in 0 .. SPURIOUS_TARGET
    /\ late \in 0 .. MaxLate

Init ==
    /\ pc = "phase1" /\ irq = "out"
    /\ deadline = Delay /\ alarm = Delay /\ match = FALSE
    /\ target = [w \in {"task", "handler"} |-> 0]
    /\ inject = FALSE /\ spurious = 0 /\ late = 0

-----------------------------------------------------------------------------
Down(left) == IF left \in {0, None} THEN left ELSE left - 1

Writing == {w \in {"task", "handler"} :
                (IF w = "task" THEN pc ELSE irq) \in {"write", "check"}}

(* A target passes unseen at most MaxLate times.                           *)
Tick ==
    /\ target' = [w \in {"task", "handler"} |-> Down(target[w])]
    /\ late' = late + (IF \E w \in Writing : target[w] = 1 THEN 1 ELSE 0)
    /\ late' <= MaxLate
    /\ deadline' = Down(deadline)
    /\ alarm' = IF alarm = 1 THEN None ELSE Down(alarm)
    /\ match' = (match \/ alarm = 1)
    /\ UNCHANGED <<pc, irq, inject, spurious>>

(* set_compare1(now + INJECT_INTERVAL_US).  A target written after it has  *)
(* passed does not match.                                                  *)
Aim(w) ==
    /\ target' = [target EXCEPT ![w] = INJECT_INTERVAL]
    /\ UNCHANGED <<deadline, alarm, match, late>>

Write(w) ==
    /\ alarm' = IF target[w] = 0 THEN None ELSE target[w]
    /\ UNCHANGED <<deadline, match, target, late>>

-----------------------------------------------------------------------------
(* The interrupt is taken wherever the task is, and first runs the driver. *)
NextAlarm == IF deadline \in {0, None} THEN Clamp ELSE deadline

TakeIrq ==
    /\ irq = "out" /\ match
    /\ irq' = "driver"
    /\ match' = FALSE
    /\ deadline' = IF deadline = 0 THEN None ELSE deadline
    /\ alarm' = NextAlarm
    /\ UNCHANGED <<pc, target, inject, spurious, late>>

(* Mutant: the count is tested before it has gone up.                      *)
LastOfOneMore == spurious = SPURIOUS_TARGET

Last == spurious + 1 = SPURIOUS_TARGET

Handle ==
    /\ irq = "driver"
    /\ IF ~inject
         THEN irq' = "out" /\ UNCHANGED <<inject, spurious>>
         ELSE /\ spurious' = spurious + 1
              /\ irq' = IF Last THEN "out" ELSE "aim"
              /\ inject' = ~Last
    /\ UNCHANGED <<pc, deadline, alarm, match, target, late>>

HandlerAims ==
    /\ irq = "aim"
    /\ irq' = "write"
    /\ Aim("handler")
    /\ UNCHANGED <<pc, inject, spurious>>

HandlerWrites ==
    /\ irq = "write"
    /\ irq' = "check"
    /\ Write("handler")
    /\ UNCHANGED <<pc, inject, spurious>>

(* A late write is repeated.  Mutant: it is not looked at.                 *)
NeverLate(w) == FALSE

Late(w) == target[w] = 0

HandlerChecks ==
    /\ irq = "check"
    /\ irq' = IF Late("handler") THEN "aim" ELSE "out"
    /\ UNCHANGED <<pc, deadline, alarm, match, target, inject, spurious, late>>

Handler == TakeIrq \/ Handle \/ HandlerAims \/ HandlerWrites \/ HandlerChecks

-----------------------------------------------------------------------------
(* The task, while the handler is out.                                     *)
Task(from, to) ==
    /\ irq = "out"
    /\ pc = from
    /\ pc' = to
    /\ UNCHANGED <<irq, spurious>>

Unarmed == UNCHANGED <<deadline, alarm, match, target, late>>

StartInjecting ==
    /\ Task("phase1", "aim")
    /\ deadline = None
    /\ inject' = TRUE
    /\ Unarmed

TaskAims == Task("aim", "write") /\ Aim("task") /\ UNCHANGED inject

TaskWrites == Task("write", "check") /\ Write("task") /\ UNCHANGED inject

TaskChecks ==
    /\ Task("check", IF Late("task") THEN "aim" ELSE "read")
    /\ Unarmed /\ UNCHANGED inject

KeyPressed == Task("read", "spin") /\ Unarmed /\ UNCHANGED inject

(* Mutant: the task goes on though the handler still injects.              *)
NoWait == TRUE

InjectionOver == ~inject

Phase4 ==
    /\ Task("spin", "phase4")
    /\ InjectionOver
    /\ deadline' = Delay /\ alarm' = Delay
    /\ UNCHANGED <<match, target, inject, late>>

Done ==
    /\ Task("phase4", "done")
    /\ deadline = None
    /\ Unarmed /\ UNCHANGED inject

TaskStep == StartInjecting \/ TaskAims \/ TaskWrites \/ TaskChecks \/ Phase4 \/ Done

Next == Tick \/ Handler \/ TaskStep \/ KeyPressed

-----------------------------------------------------------------------------
(* A deadline the task awaits keeps its alarm: "the handler never poisons  *)
(* a deadline a task is genuinely waiting for" (embassy_time_idle.rs       *)
(* 62-65, 121-128).                                                        *)
NeverPoisoned ==
    deadline # None /\ irq = "out" => match \/ alarm <= deadline

(* Each injected match leads to the next, until the target is reached:     *)
(* nothing leaves Compare 1 behind the counter (embassy_time_idle.rs       *)
(* 222-247).                                                               *)
InjectionEnds == inject ~> ~inject /\ spurious = SPURIOUS_TARGET
=============================================================================
