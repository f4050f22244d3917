-------------------------------- MODULE Console --------------------------------
(***************************************************************************)
(* src/examples/embassy_uart_echo.rs: two tasks of one executor that share *)
(* the UART through an async mutex.  A task runs until it awaits: a step   *)
(* is what it does from one await to the next, so a lock that is free when *)
(* its own task asks for it is taken in the same step it was given up in.  *)
(*                                                                         *)
(* External: embassy_sync's Mutex, which gives a waiting task no claim but *)
(* wakes it; the terminal, where somebody types; and the transmit FIFO,    *)
(* which takes the bytes.                                                  *)
(***************************************************************************)
EXTENDS Naturals

CONSTANTS
    Buf,        \* what one read holds: 32
    MaxTyped    \* bound: characters in the receive FIFO

VARIABLES
    echo,       \* what the echo task awaits: "start", "read", "write"
    report,     \* what the reporting task awaits: "start", "tick", "lock", "write"
    owner,      \* who holds the mutex: "echo", "report", "none"
    due,        \* whether the ticker's second has passed
    fifo        \* characters typed and not read

vars == <<echo, report, owner, due, fifo>>

Init ==
    /\ echo = "start" /\ report = "start" /\ owner = "none"
    /\ due = FALSE /\ fifo = 0

(* kmain spawns both; the ticker's first deadline is a second away.        *)
EchoStarts ==
    /\ echo = "start"
    /\ echo' = "read" /\ owner' = "echo"
    /\ UNCHANGED <<report, due, fifo>>

ReportStarts ==
    /\ report = "start"
    /\ report' = "tick"
    /\ UNCHANGED <<echo, owner, due, fifo>>

Type ==
    /\ fifo < MaxTyped
    /\ fifo' = fifo + 1
    /\ UNCHANGED <<echo, report, owner, due>>

Second ==
    /\ report = "tick" /\ ~due
    /\ echo # "start"
    /\ due' = TRUE
    /\ UNCHANGED <<echo, report, owner, fifo>>

-----------------------------------------------------------------------------
(* Unlock, count, and lock again, with no await where another task runs.   *)
(* A read that fails locks again likewise, which changes nothing here.     *)
ReadCompletes ==
    /\ echo = "read" /\ fifo > 0
    /\ \E n \in 1 .. Buf : n <= fifo /\ fifo' = fifo - n
    /\ echo' = "write"
    /\ UNCHANGED <<report, owner, due>>

(* Unlock, and round the loop lock for the next read.                      *)
EchoWritten ==
    /\ echo = "write"
    /\ echo' = "read"
    /\ UNCHANGED <<report, owner, due, fifo>>

EchoStep == EchoStarts \/ ReadCompletes \/ EchoWritten

Ticked ==
    /\ report = "tick" /\ due
    /\ due' = FALSE
    /\ IF owner = "none"
         THEN report' = "write" /\ owner' = "report"
         ELSE report' = "lock" /\ UNCHANGED owner
    /\ UNCHANGED <<echo, fifo>>

Locked ==
    /\ report = "lock" /\ owner = "none"
    /\ report' = "write" /\ owner' = "report"
    /\ UNCHANGED <<echo, due, fifo>>

ReportWritten ==
    /\ report = "write"
    /\ report' = "tick" /\ owner' = "none"
    /\ UNCHANGED <<echo, due, fifo>>

ReportStep == ReportStarts \/ Ticked \/ Locked \/ ReportWritten

Next == EchoStep \/ ReportStep \/ Type \/ Second

(* The executor polls what is woken, seconds pass, and somebody types.     *)
Spec ==
    /\ Init /\ [][Next]_vars
    /\ WF_vars(EchoStep) /\ SF_vars(ReportStep)
    /\ WF_vars(Second) /\ WF_vars(Type)

-----------------------------------------------------------------------------
(* The lock is held "only across the read, so the reporting task can write *)
(* between keystrokes" (embassy_uart_echo.rs 64-65): a due line is written *)
(* when somebody types.                                                    *)
ReportGetsThrough == report = "lock" ~> report = "write"
=============================================================================
