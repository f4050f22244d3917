--------------------------------- MODULE I2cBus ---------------------------------
(***************************************************************************)
(* The measurement of src/examples/embassy_i2c.rs: a heartbeat task that   *)
(* records the longest gap between its own wake-ups, and a bus task that   *)
(* resets the record before each transfer and reads it after.  One core: a *)
(* task runs until it awaits, and time passes while it does.               *)
(*                                                                         *)
(* External: Ticker, which sets its next deadline a period after the last  *)
(* one and so catches up after a delay, and the transfers, which may hold  *)
(* the core for a while before they await or complete.                     *)
(***************************************************************************)
EXTENDS Naturals

CONSTANTS
    Horizon,    \* bound of time, in heartbeat periods
    Timeout,    \* of the transfer that is cancelled
    Pause       \* between two passes

VARIABLES
    clock,
    pc,         \* what the bus task is at
    parked,     \* whether it awaits, and the core is free
    since,      \* when its transfer started
    beat,       \* the ticker's next deadline
    last,       \* when the heartbeat woke last
    maxGap,     \* MAX_GAP_US
    blocked,    \* how long the core was held since the heartbeat, or the transfer's start
    shown,      \* the longest such time a heartbeat has come after
    report      \* the gap said last, and shown then

vars == <<clock, pc, parked, since, beat, last, maxGap, blocked, shown, report>>

Timed == {"probe", "long"}
Steps == Timed \cup {"present", "cancel", "after", "pause"}

TypeOK ==
    /\ {clock, since, last, maxGap, blocked, shown} \subseteq 0 .. Horizon
    /\ pc \in Steps /\ parked \in BOOLEAN
    /\ beat \in 1 .. Horizon + 1
    /\ report \in [gap : 0 .. Horizon, shown : 0 .. Horizon]

Init ==
    /\ clock = 0 /\ pc = "probe" /\ parked = FALSE /\ since = 0
    /\ beat = 1 /\ last = 0 /\ maxGap = 0 /\ blocked = 0 /\ shown = 0
    /\ report = [gap |-> 0, shown |-> 0]

MaxOf(a, b) == IF a < b THEN b ELSE a

Tick ==
    /\ clock < Horizon
    /\ clock' = clock + 1
    /\ blocked' = IF parked THEN blocked ELSE blocked + 1
    /\ UNCHANGED <<pc, parked, since, beat, last, maxGap, shown, report>>

(* heartbeat(), when the core is free.  A late one is repeated at once.    *)
(* Mutant: the last gap is kept, not the longest.                          *)
LastGap(gap) == gap

LongestGap(gap) == MaxOf(maxGap, gap)

Heartbeat ==
    /\ parked /\ beat <= clock
    /\ maxGap' = LongestGap(clock - last)
    /\ last' = clock
    /\ beat' = beat + 1
    /\ shown' = MaxOf(shown, blocked) /\ blocked' = 0
    /\ UNCHANGED <<clock, pc, parked, since, report>>

(* The bus task awaits, and is polled again.                               *)
Parks ==
    /\ ~parked
    /\ parked' = TRUE
    /\ UNCHANGED <<clock, pc, since, beat, last, maxGap, blocked, shown, report>>

Polled ==
    /\ parked /\ pc # "pause"
    /\ parked' = FALSE
    /\ UNCHANGED <<clock, pc, since, beat, last, maxGap, blocked, shown, report>>

(* timed() resets the record as its transfer starts.                       *)
Goto(step) ==
    /\ pc' = step /\ since' = clock
    /\ maxGap' = IF step \in Timed THEN 0 ELSE maxGap
    /\ shown' = 0 /\ blocked' = 0

(* ... and reads it when it is over.                                       *)
Reported ==
    report' = IF pc \in Timed THEN [gap |-> maxGap, shown |-> shown] ELSE report

BusStep(from, to) ==
    /\ ~parked
    /\ pc = from
    /\ Goto(to)
    /\ Reported
    /\ UNCHANGED <<clock, parked, beat, last>>

Probed == BusStep("probe", "present")

(* Nothing answers: the other checks are skipped.                          *)
Absent == BusStep("present", "pause")

Present == BusStep("present", "long")

LongRead == BusStep("long", "cancel")

(* The future is polled before the timeout, and wins a tie.                *)
CompletedFirst == BusStep("cancel", "after")

DroppedMidTransfer ==
    /\ since + Timeout <= clock
    /\ BusStep("cancel", "after")

NextTransfer == BusStep("after", "pause")

NextPass ==
    /\ parked /\ pc = "pause" /\ since + Pause <= clock
    /\ parked' = FALSE
    /\ Goto("probe")
    /\ UNCHANGED <<clock, beat, last, report>>

Next ==
    \/ Tick \/ Heartbeat \/ Parks \/ Polled
    \/ Probed \/ Absent \/ Present \/ LongRead
    \/ CompletedFirst \/ DroppedMidTransfer \/ NextTransfer \/ NextPass

-----------------------------------------------------------------------------
(* A transfer that held the core shows in the gap it reports, however many *)
(* heartbeats caught up since: "the longest gap cannot be caught up"       *)
(* (embassy_i2c.rs 113-120, 235-245).  Held at its very end it does not:   *)
(* the record is read before the heartbeat next runs.                      *)
BlockingShows == report.shown <= report.gap
=============================================================================
