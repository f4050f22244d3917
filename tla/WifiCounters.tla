------------------------------ MODULE WifiCounters ------------------------------
(***************************************************************************)
(* The counters handshake of src/src/wifi.rs: a caller clears the slot and *)
(* raises a flag, the runner's pass lowers the flag, reads the chip and    *)
(* stores what came of it, and the caller polls the slot.                  *)
(*                                                                         *)
(* Both sides run to their next await without interruption by a task of    *)
(* the same core; nothing keeps a caller on another core from running in   *)
(* between.  Requests and readings are stamped in the order they begin.    *)
(***************************************************************************)
EXTENDS Naturals

CONSTANTS
    Callers,
    Local,      \* the callers that are tasks of the runner's core
    MaxEvents   \* bound on the requests and readings

ASSUME CallerAssumption == Local \subseteq Callers /\ MaxEvents \in Nat

VARIABLES
    COUNTERS_WANTED,
    COUNTERS,   \* the stamp of the reading in the slot, 0 when it is empty
    pc,         \* each caller: "idle", "cleared" inside the request, "waiting"
    asked,      \* stamp of the caller's last request
    reading,    \* stamp of the reading the runner is taking, 0 for none
    events      \* stamps given so far

vars == <<COUNTERS_WANTED, COUNTERS, pc, asked, reading, events>>

TypeOK ==
    /\ COUNTERS_WANTED \in BOOLEAN
    /\ COUNTERS \in 0 .. events
    /\ pc \in [Callers -> {"idle", "cleared", "waiting"}]
    /\ asked \in [Callers -> 0 .. events]
    /\ reading \in 0 .. events
    /\ events \in 0 .. MaxEvents

Init ==
    /\ COUNTERS_WANTED = FALSE
    /\ COUNTERS = 0
    /\ pc = [c \in Callers |-> "idle"]
    /\ asked = [c \in Callers |-> 0]
    /\ reading = 0
    /\ events = 0

(* Nobody on the runner's core is between two awaits.                      *)
NoCaller == \A c \in Local : pc[c] # "cleared"

CoreFree == reading = 0 /\ NoCaller

(* request_counters(): clear the slot, then raise the flag.  A caller that *)
(* is waiting may ask again.                                               *)
(* Mutant: the last answer is left in the slot.                            *)
ClearNothing(c) ==
    /\ c \in Local => CoreFree
    /\ pc[c] # "cleared"
    /\ events + 1 < MaxEvents
    /\ events' = events + 1
    /\ asked' = [asked EXCEPT ![c] = events']
    /\ pc' = [pc EXCEPT ![c] = "cleared"]
    /\ UNCHANGED <<COUNTERS, COUNTERS_WANTED, reading>>

Clear(c) ==
    /\ c \in Local => CoreFree
    /\ pc[c] # "cleared"
    /\ events + 1 < MaxEvents
    /\ events' = events + 1
    /\ asked' = [asked EXCEPT ![c] = events']
    /\ COUNTERS' = 0
    /\ pc' = [pc EXCEPT ![c] = "cleared"]
    /\ UNCHANGED <<COUNTERS_WANTED, reading>>

Want(c) ==
    /\ pc[c] = "cleared"
    /\ COUNTERS_WANTED' = TRUE
    /\ pc' = [pc EXCEPT ![c] = "waiting"]
    /\ UNCHANGED <<COUNTERS, asked, reading, events>>

(* counters(): the caller finds an answer.                                 *)
Take(c) ==
    /\ c \in Local => CoreFree
    /\ pc[c] = "waiting"
    /\ COUNTERS # 0
    /\ pc' = [pc EXCEPT ![c] = "idle"]
    /\ UNCHANGED <<COUNTERS_WANTED, COUNTERS, asked, reading, events>>

(* sample_counters(): one swap, then a control command, then the store --  *)
(* of a failure too.  One stamp is kept back for a last reading.           *)
Begin ==
    /\ CoreFree
    /\ COUNTERS_WANTED
    /\ COUNTERS_WANTED' = FALSE
    /\ events < MaxEvents
    /\ events' = events + 1
    /\ reading' = events'
    /\ UNCHANGED <<COUNTERS, pc, asked>>

(* Mutant: a reading that failed is not stored.                            *)
StoreSuccess ==
    /\ reading # 0
    /\ COUNTERS' \in {COUNTERS, reading}
    /\ reading' = 0
    /\ UNCHANGED <<COUNTERS_WANTED, pc, asked, events>>

Store ==
    /\ reading # 0
    /\ COUNTERS' = reading
    /\ reading' = 0
    /\ UNCHANGED <<COUNTERS_WANTED, pc, asked, events>>

Next == Begin \/ Store \/ \E c \in Callers : Clear(c) \/ Want(c) \/ Take(c)

(* The runner passes, and a caller that asked goes on polling.             *)
Fairness ==
    /\ WF_vars(Begin) /\ WF_vars(Store)
    /\ \A c \in Callers : WF_vars(Want(c)) /\ WF_vars(Take(c))

Spec == Init /\ [][Next]_vars
FairSpec == Spec /\ Fairness

-----------------------------------------------------------------------------
(* An answer is never older than the request it is taken for, when caller  *)
(* and runner share a core -- whatever callers on other cores do meanwhile *)
(* (wifi.rs 653-698).                                                      *)
Fresh(c) == pc[c] = "waiting" /\ COUNTERS # 0 => COUNTERS > asked[c]

AnswerIsFresh == \A c \in Local : Fresh(c)

(* "counters returning Some means a reading taken since this call, so a    *)
(* caller polling for one cannot mistake the previous answer for a fresh   *)
(* one" (wifi.rs 682-686), said of every caller.                           *)
SomeMeansFresh == \A c \in Callers : Fresh(c)

(* Every request is answered, also when another caller clears the answer   *)
(* before it was seen (wifi.rs 653-698).                                   *)
EveryRequestAnswered ==
    \A c \in Callers : pc[c] = "waiting" ~> pc[c] = "idle"
=============================================================================
