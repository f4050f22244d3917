--------------------------- MODULE TimeDriverProofs ---------------------------
(* Proofs about TimeDriver, for any number of tasks and any clock that     *)
(* satisfies ClockAssumption.                                              *)
EXTENDS TimeDriver, TLAPS

(* Only the section's holder has a next step, and no one has entered or    *)
(* queued anything before init() cleared the match flag.                   *)
HolderShape ==
    /\ holder = Free <=> step = "idle"
    /\ phase = "boot" => holder = Free /\ Queued = {}

(* The reading an entry is judged by is never ahead of the counter, and    *)
(* what next_expiration returned stays the head while it is being armed.   *)
NextIsHead ==
    /\ sampled <= now
    /\ step \in {"arm", "check"} =>
          /\ \A t \in Tasks : next <= expires[t]
          /\ next = MAX \/ \E t \in Tasks : expires[t] = next

(* Between writing Compare 1 and checking it: the register holds the low   *)
(* word of a target no later than the head, and a target that is not the   *)
(* head itself is still at least a clamp ahead of when it was written.     *)
TargetWritten ==
    step = "check" =>
        /\ LowWord(target) = c1
        /\ target <= next
        /\ target = next \/ target + stall = now + Clamp

IInv ==
    /\ TypeOK
    /\ HolderShape
    /\ NextIsHead
    /\ TargetWritten
    /\ AlarmCovers
    /\ RetryDrains

(* LowWord is only ever used as a function into the register's range.      *)
LEMMA LowWordType == \A x \in Nat : LowWord(x) \in 0 .. W - 1
BY ClockAssumption DEF LowWord

(* The numbers behind the types, as the arithmetic steps use them.         *)
LEMMA Numbers ==
    TypeOK => /\ now \in Nat /\ now < MAX /\ stall \in Nat /\ stall <= MaxStall
              /\ \A t \in Tasks : expires[t] \in Nat /\ expires[t] <= MAX
              /\ \A at \in Deadlines : at \in Nat /\ at < MAX
<1> SUFFICES ASSUME TypeOK
             PROVE  /\ now \in Nat /\ now < MAX /\ stall \in Nat /\ stall <= MaxStall
                    /\ \A t \in Tasks : expires[t] \in Nat /\ expires[t] <= MAX
                    /\ \A at \in Deadlines : at \in Nat /\ at < MAX
    OBVIOUS
<1>1. MaxStall \in Nat /\ Horizon \in Nat /\ MAX \in Nat /\ Horizon < MAX
    BY ClockAssumption
<1>2. \A at \in Deadlines : at \in Nat /\ at < MAX
    BY <1>1, ClockAssumption
<1>3. \A t \in Tasks : expires[t] \in Deadlines \cup {MAX}
    BY DEF TypeOK
<1> QED
    BY <1>1, <1>2, <1>3 DEF TypeOK

LEMMA InitIInv == Init => IInv
BY ClockAssumption, ContextAssumption
   DEF Init, IInv, TypeOK, HolderShape, NextIsHead, TargetWritten,
       AlarmCovers, RetryDrains, Queued, Contexts, Steps

LEMMA TypeStep == TypeOK /\ [Next]_vars => TypeOK'
<1> SUFFICES ASSUME TypeOK, [Next]_vars PROVE TypeOK'
    OBVIOUS
<1> USE ClockAssumption, ContextAssumption DEF TypeOK, Contexts, Steps
<1>1. CASE Tick
    BY <1>1 DEF Tick, locals
<1>2. CASE InitDriver
    BY <1>2 DEF InitDriver, locals
<1>3. CASE Unmask
    BY <1>3 DEF Unmask, hardware, locals
<1>4. ASSUME NEW t \in Tasks, NEW at \in Deadlines, ScheduleWake(t, at)
      PROVE  TypeOK'
    BY <1>4 DEF ScheduleWake, Enter, Earlier, hardware, locals
<1>5. CASE TimerIrq \/ SpuriousCall
    BY <1>5 DEF TimerIrq, SpuriousCall, OnIrq, Enter, hardware, locals
<1>6. CASE ClearMatch
    BY <1>6 DEF ClearMatch, locals
<1>7. CASE Sample
    BY <1>7 DEF Sample, hardware
<1>8. ASSUME NEW t \in Tasks, Expire(t) PROVE TypeOK'
    BY <1>8 DEF Expire, hardware, locals
<1>9. CASE Drained
    <2>1. PICK m \in Remaining : next' = m
        BY <1>9 DEF Drained
    <2>2. m \in Nat
        BY <2>1, Numbers DEF Remaining
    <2> QED
        BY <1>9, <2>1, <2>2 DEF Drained, hardware
<1>10. CASE Arm
    <2>1. target' \in Nat
        BY <1>10 DEF Arm, Clamped, Earlier
    <2>2. c1' \in 0 .. W - 1
        BY <1>10, <2>1, LowWordType DEF Arm
    <2>3. match' \in BOOLEAN
        BY <1>10 DEF Arm
    <2> QED
        BY <1>10, <2>1, <2>2, <2>3 DEF Arm
<1>11. CASE Accepted
    BY <1>11 DEF Accepted, Release, hardware
<1>12. CASE Refused
    BY <1>12 DEF Refused, hardware, locals
<1>13. CASE UNCHANGED vars
    BY <1>13 DEF vars, hardware, locals
<1> QED
    BY <1>1, <1>2, <1>3, <1>4, <1>5, <1>6, <1>7, <1>8, <1>9, <1>10,
       <1>11, <1>12, <1>13 DEF Next, HolderStep
(* The counter moves.  A deadline covered by a meeting ahead is covered by *)
(* that meeting still, or by the match flag it has just set.               *)
LEMMA TickStep == IInv /\ Tick => IInv'
<1> SUFFICES ASSUME IInv, Tick PROVE IInv'
    OBVIOUS
<1> USE ClockAssumption DEF IInv
<1>1. TypeOK'
    BY TypeStep DEF Next
<1>2. /\ now' = now + 1
      /\ UNCHANGED <<c1, phase, expires, holder, step, sampled, next, target>>
    BY DEF Tick, locals
<1>3. HolderShape'
    BY <1>2 DEF HolderShape, Queued
<1>4. NextIsHead'
    BY <1>2 DEF NextIsHead, TypeOK
<1>5. TargetWritten'
    <2> SUFFICES ASSUME step = "check" PROVE TargetWritten'
        BY <1>2 DEF TargetWritten
    <2>1. stall' = stall + 1
        BY DEF Tick, HolderShape
    <2> QED
        BY <1>2, <2>1 DEF TargetWritten, TypeOK
<1>6. AlarmCovers'
    <2> SUFFICES ASSUME holder = Free, NEW t \in Tasks, expires[t] # MAX, ~match'
                 PROVE  \E a \in now' + 1 .. expires[t] : LowWord(a) = c1
        BY <1>2 DEF AlarmCovers, Queued
    <2>1. ~match /\ LowWord(now') # c1
        BY DEF Tick, TypeOK
    <2>2. PICK a \in now + 1 .. expires[t] : LowWord(a) = c1
        BY <2>1 DEF AlarmCovers, Queued
    <2>3. a # now'
        BY <2>1, <2>2
    <2>4. a \in now' + 1 .. expires[t]
        BY <1>2, <2>2, <2>3 DEF TypeOK
    <2> QED
        BY <2>2, <2>4
<1>7. RetryDrains'
    BY <1>2, Numbers DEF RetryDrains
<1> QED
    BY <1>1, <1>3, <1>4, <1>5, <1>6, <1>7

(* Bring-up touches the match flag only while nothing is queued.           *)
LEMMA BringUpStep == IInv /\ (InitDriver \/ Unmask) => IInv'
<1> SUFFICES ASSUME IInv, InitDriver \/ Unmask PROVE IInv'
    OBVIOUS
<1>1. TypeOK'
    BY TypeStep DEF IInv, Next
<1>2. /\ UNCHANGED <<now, c1, expires, holder, step, sampled, next, target, stall>>
      /\ phase' # "boot"
      /\ phase = "boot" \/ match' = match
    BY DEF InitDriver, Unmask, hardware, locals
<1>3. HolderShape' /\ NextIsHead' /\ TargetWritten' /\ RetryDrains'
    BY <1>2 DEF IInv, HolderShape, NextIsHead, TargetWritten, RetryDrains
<1>4. AlarmCovers'
    BY <1>2 DEF IInv, AlarmCovers, HolderShape, Queued
<1> QED
    BY <1>1, <1>3, <1>4 DEF IInv

(* A deadline queued behind an earlier one is covered by what covers that. *)
LEMMA ScheduleWakeStep ==
    ASSUME IInv, NEW t \in Tasks, NEW at \in Deadlines, ScheduleWake(t, at)
    PROVE  IInv'
<1> USE ClockAssumption, ContextAssumption
<1>1. TypeOK'
    BY TypeStep DEF IInv, Next
<1>2. /\ UNCHANGED <<now, c1, match, phase, sampled, next, target, stall>>
      /\ phase # "boot" /\ holder = Free /\ step = "idle"
      /\ expires' = [expires EXCEPT ![t] = Earlier(@, at)]
    BY DEF ScheduleWake, IInv, HolderShape, hardware, locals
<1>3. \/ holder' = t /\ step' = "sample"
      \/ HeadUnchanged(at) /\ UNCHANGED <<holder, step>>
    BY DEF ScheduleWake, Enter
<1>4. HolderShape' /\ NextIsHead' /\ TargetWritten' /\ RetryDrains'
    BY <1>2, <1>3
       DEF IInv, HolderShape, NextIsHead, TargetWritten, RetryDrains
<1>5. AlarmCovers'
    <2> SUFFICES ASSUME holder' = Free, NEW u \in Tasks, expires'[u] # MAX, ~match
                 PROVE  \E a \in now + 1 .. expires'[u] : LowWord(a) = c1
        BY <1>2 DEF AlarmCovers, Queued
    <2>1. HeadUnchanged(at)
        BY <1>3
    <2>2. PICK v \in Queued : expires[v] <= at
        BY <2>1 DEF HeadUnchanged
    <2>3. PICK w \in Queued : expires[w] <= expires'[u]
        <3>1. CASE u = t /\ expires'[u] = at
            BY <2>2, <3>1
        <3>2. CASE expires'[u] = expires[u]
            BY <1>2, <3>2, Numbers DEF Queued, IInv
        <3> QED
            BY <1>2, <3>1, <3>2 DEF Earlier, IInv, TypeOK
    <2>4. PICK a \in now + 1 .. expires[w] : LowWord(a) = c1
        BY <1>2, <2>3 DEF IInv, AlarmCovers
    <2>5. expires'[u] \in Nat /\ expires[w] \in Nat /\ now \in Nat
        BY <1>2, Numbers DEF IInv, TypeOK, Queued, Earlier
    <2> QED
        BY <2>3, <2>4, <2>5
<1> QED
    BY <1>1, <1>4, <1>5 DEF IInv

(* Inside the section the driver may leave deadlines uncovered: the two    *)
(* invariants speak of its exits, Accepted and Refused.                    *)
LEMMA EnterStep == IInv /\ (TimerIrq \/ SpuriousCall) => IInv'
<1> SUFFICES ASSUME IInv, TimerIrq \/ SpuriousCall PROVE IInv'
    OBVIOUS
<1>1. TypeOK'
    BY TypeStep DEF IInv, Next
<1>2. /\ UNCHANGED <<now, c1, match, phase, expires, sampled, next, target, stall>>
      /\ phase # "boot" /\ holder' # Free /\ step' = "clear"
    BY ContextAssumption DEF TimerIrq, SpuriousCall, OnIrq, Enter, hardware, locals
<1>3. HolderShape' /\ NextIsHead' /\ TargetWritten' /\ RetryDrains' /\ AlarmCovers'
    BY <1>2 DEF IInv, HolderShape, NextIsHead, TargetWritten, RetryDrains, AlarmCovers
<1> QED
    BY <1>1, <1>3 DEF IInv

LEMMA InsideStep ==
    IInv /\ (ClearMatch \/ Sample \/ \E t \in Tasks : Expire(t)) => IInv'
<1> SUFFICES ASSUME IInv, ClearMatch \/ Sample \/ \E t \in Tasks : Expire(t)
             PROVE  IInv'
    OBVIOUS
<1>1. TypeOK'
    BY TypeStep DEF IInv, Next, HolderStep
<1>2. /\ UNCHANGED <<now, phase, holder>>
      /\ step # "idle" /\ step' \in {"sample", "drain"}
      /\ sampled' \in {sampled, now}
    BY DEF ClearMatch, Sample, Expire, hardware, locals
<1>3. HolderShape' /\ NextIsHead' /\ TargetWritten' /\ RetryDrains' /\ AlarmCovers'
    BY <1>2, Numbers
       DEF IInv, HolderShape, NextIsHead, TargetWritten, RetryDrains, AlarmCovers
<1> QED
    BY <1>1, <1>3 DEF IInv

(* next_expiration returns the head of what is left.                       *)
LEMMA DrainedStep == IInv /\ Drained => IInv'
<1> SUFFICES ASSUME IInv, Drained PROVE IInv'
    OBVIOUS
<1>1. TypeOK'
    BY TypeStep DEF IInv, Next, HolderStep
<1>2. /\ UNCHANGED <<now, phase, expires, holder, sampled>>
      /\ step = "drain" /\ step' = "arm"
    BY DEF Drained, hardware
<1>3. next' \in Remaining /\ \A n \in Remaining : next' <= n
    BY DEF Drained
<1>4. NextIsHead'
    BY <1>2, <1>3 DEF NextIsHead, Remaining, IInv
<1>5. HolderShape' /\ TargetWritten' /\ RetryDrains' /\ AlarmCovers'
    BY <1>2 DEF IInv, HolderShape, TargetWritten, RetryDrains, AlarmCovers
<1> QED
    BY <1>1, <1>4, <1>5 DEF IInv

LEMMA ArmStep == IInv /\ Arm => IInv'
<1> SUFFICES ASSUME IInv, Arm PROVE IInv'
    OBVIOUS
<1>1. TypeOK'
    BY TypeStep DEF IInv, Next, HolderStep
<1>2. /\ UNCHANGED <<now, phase, expires, holder, sampled, next>>
      /\ step = "arm" /\ step' = "check" /\ stall' = 0
      /\ target' = Clamped(next) /\ c1' = LowWord(target')
    BY DEF Arm
<1>3. TargetWritten'
    <2>1. Clamp \in Nat /\ now \in Nat /\ next \in Nat
        BY ClockAssumption, Numbers DEF IInv, TypeOK
    <2>2. target' <= next /\ (target' = next \/ target' = now + Clamp)
        BY <1>2, <2>1 DEF Clamped, Earlier
    <2> QED
        BY <1>2, <2>1, <2>2 DEF TargetWritten
<1>4. HolderShape' /\ NextIsHead' /\ RetryDrains' /\ AlarmCovers'
    BY <1>2 DEF IInv, HolderShape, NextIsHead, RetryDrains, AlarmCovers
<1> QED
    BY <1>1, <1>3, <1>4 DEF IInv

(* An accepted target lies ahead of the counter and no later than the      *)
(* head: it is the meeting that covers every entry.                        *)
LEMMA AcceptedStep == IInv /\ Accepted => IInv'
<1> SUFFICES ASSUME IInv, Accepted PROVE IInv'
    OBVIOUS
<1>1. TypeOK'
    BY TypeStep DEF IInv, Next, HolderStep
<1>2. /\ UNCHANGED <<now, c1, match, phase, expires>>
      /\ step = "check" /\ holder' = Free /\ step' = "idle"
      /\ sampled' = 0 /\ now < target
    BY DEF Accepted, Release, Armed, hardware
<1>3. AlarmCovers'
    <2> SUFFICES ASSUME NEW t \in Tasks
                 PROVE  \E a \in now + 1 .. expires[t] : LowWord(a) = c1
        BY <1>2 DEF AlarmCovers, Queued
    <2>1. target \in Nat /\ next \in Nat /\ now \in Nat /\ expires[t] \in Nat
        BY Numbers DEF IInv, TypeOK
    <2>2. target <= next /\ next <= expires[t] /\ LowWord(target) = c1
        BY <1>2 DEF IInv, TargetWritten, NextIsHead
    <2>3. target \in now + 1 .. expires[t]
        BY <1>2, <2>1, <2>2
    <2> QED
        BY <2>2, <2>3
<1>4. HolderShape' /\ NextIsHead' /\ TargetWritten' /\ RetryDrains'
    BY <1>2, Numbers DEF IInv, HolderShape, NextIsHead, TargetWritten, RetryDrains, Queued
<1> QED
    BY <1>1, <1>3, <1>4 DEF IInv

(* A refused target is the head itself: a clamped one is farther ahead     *)
(* than any section can stall.                                             *)
LEMMA RefusedStep == IInv /\ Refused => IInv'
<1> SUFFICES ASSUME IInv, Refused PROVE IInv'
    OBVIOUS
<1>1. TypeOK'
    BY TypeStep DEF IInv, Next, HolderStep
<1>2. /\ UNCHANGED <<now, phase, expires, holder, sampled>>
      /\ step = "check" /\ step' = "retry" /\ ~(now < target)
    BY DEF Refused, Armed, hardware, locals
<1>3. RetryDrains'
    <2>1. /\ now \in Nat /\ now < MAX /\ stall \in Nat /\ stall <= MaxStall
          /\ target \in Nat
        BY Numbers DEF IInv, TypeOK
    <2>2. Clamp \in Nat /\ MaxStall \in Nat /\ MaxStall < Clamp
        BY ClockAssumption
    <2>3. target # now + Clamp - stall
        BY <1>2, <2>1, <2>2
    <2>4. target = next
        BY <1>2, <2>1, <2>2, <2>3 DEF IInv, TargetWritten
    <2>5. MAX \in Nat /\ next # MAX
        BY <1>2, <2>1, <2>4, ClockAssumption
    <2>6. \E t \in Tasks : expires[t] = next
        BY <1>2, <2>5 DEF IInv, NextIsHead
    <2> QED
        BY <1>2, <2>1, <2>4, <2>6 DEF RetryDrains
<1>4. HolderShape' /\ NextIsHead' /\ TargetWritten' /\ AlarmCovers'
    BY <1>2 DEF IInv, HolderShape, NextIsHead, TargetWritten, AlarmCovers
<1> QED
    BY <1>1, <1>3, <1>4 DEF IInv

LEMMA StutterStep == IInv /\ UNCHANGED vars => IInv'
BY DEF IInv, TypeOK, HolderShape, NextIsHead, TargetWritten, AlarmCovers,
       RetryDrains, Queued, vars, hardware, locals

LEMMA NextIInv == IInv /\ [Next]_vars => IInv'
BY TickStep, BringUpStep, ScheduleWakeStep, EnterStep, InsideStep, DrainedStep,
   ArmStep, AcceptedStep, RefusedStep, StutterStep DEF Next, HolderStep

(* Every state the driver reaches satisfies the strengthened invariant.    *)
THEOREM Inductive == Spec => []IInv
<1>1. Init => IInv
    BY InitIInv
<1>2. IInv /\ [Next]_vars => IInv'
    BY NextIInv
<1> QED
    BY <1>1, <1>2, PTL DEF Spec

(* The driver's state stays within its types (time_driver.rs 56-128).      *)
THEOREM TypeCorrect == Spec => []TypeOK
<1>1. IInv => TypeOK
    BY DEF IInv
<1> QED
    BY <1>1, Inductive, PTL

(* No queued deadline is ever left to the wrap of the equality compare:    *)
(* outside the driver's critical sections each is pending or met in time   *)
(* (time_driver.rs 85-127), for any tasks, clock width, clamp and stall.   *)
THEOREM AlarmAlwaysCovers == Spec => []AlarmCovers
<1>1. IInv => AlarmCovers
    BY DEF IInv
<1> QED
    BY <1>1, Inductive, PTL

(* Each extra pass of rearm's loop has an entry to remove, the termination *)
(* argument of the comment at time_driver.rs 88-93.                        *)
THEOREM RetryAlwaysDrains == Spec => []RetryDrains
<1>1. IInv => RetryDrains
    BY DEF IInv
<1> QED
    BY <1>1, Inductive, PTL
=============================================================================
