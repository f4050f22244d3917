------------------------------ MODULE WifiFrames ------------------------------
(***************************************************************************)
(* How the Wi-Fi runner moves frames (src/src/wifi.rs): each pass of its   *)
(* loop drains the chip into the stack's receive queue, hands the chip one *)
(* queued frame, and then puts at most a few control commands to it.       *)
(*                                                                         *)
(* The firmware takes a frame only within a credit window, which it        *)
(* advances in the headers of the frames the host reads.  A control        *)
(* command discards the data frames that come before its reply, though     *)
(* their headers count.  Firmware, queues and stack are not in the crate:  *)
(* the stack runs between passes, and takes a received frame only when it  *)
(* could also answer it, that is, when a transmit buffer is free.          *)
(*                                                                         *)
(* The association is taken as up throughout (WifiWatch has the rest), and *)
(* a pass as one unit of time.                                             *)
(***************************************************************************)
EXTENDS Integers, Sequences, FiniteSets

CONSTANTS
    N_RX, N_TX,         \* depths of the queues
    RX_BURST,
    RX_SILENCE, PROBE_INTERVAL, LINK_QUIET_PASSES,  \* in passes
    Fifo,               \* frames the chip holds for the host
    Window,             \* frames the firmware buffers for the air
    Seqs,               \* modulus of sequence numbers
    Wrap                \* modulus of the counters: 2^32

ASSUME SizeAssumption ==
    /\ {N_RX, N_TX, RX_BURST, RX_SILENCE, PROBE_INTERVAL, LINK_QUIET_PASSES,
        Fifo, Window, Seqs, Wrap} \subseteq Nat \ {0}
    /\ Window < Seqs

VARIABLES
    pc,         \* the part of the pass that comes next, or "sleep"
    burst,      \* frames this pass has delivered
    received,   \* whether this pass found any
    silent,     \* passes since one did
    quiet,      \* passes that moved nothing
    dueIn,      \* passes left to Watch::due
    wanted,     \* COUNTERS_WANTED
    rxLen, txLen,   \* frames in the stack's two queues
    fifo,       \* frames the chip holds for the host
    sent,       \* sequence number of the next frame to the chip
    limit,      \* the first one the host knows it may not use
    freed,      \* the first one the firmware still holds
    count       \* RX_FRAMES, TX_FRAMES, TX_FAILURES, RX_ERRORS, and what
                \* they should account for

passVars == <<pc, burst, received, silent, quiet, dueIn>>
chipVars == <<fifo, sent, limit, freed>>
vars == <<passVars, wanted, rxLen, txLen, chipVars, count>>

Kinds == {"data", "control", "bad"}
Counters == {"RX_FRAMES", "RX_ERRORS", "TX_FRAMES", "TX_FAILURES",
             "arrived", "discarded", "taken", "queued"}

PassTypes ==
    /\ pc \in {"sleep", "receive", "transmit", "sample", "watch", "counters"}
    /\ burst \in 0 .. RX_BURST
    /\ received \in BOOLEAN /\ wanted \in BOOLEAN
    /\ silent \in 0 .. RX_SILENCE
    /\ quiet \in 0 .. LINK_QUIET_PASSES
    /\ dueIn \in 0 .. PROBE_INTERVAL

FrameTypes ==
    /\ rxLen \in 0 .. N_RX /\ txLen \in 0 .. N_TX
    /\ fifo \in Seq([kind : Kinds, limit : 0 .. Seqs - 1]) /\ Len(fifo) <= Fifo
    /\ {sent, limit, freed} \subseteq 0 .. Seqs - 1
    /\ count \in [Counters -> 0 .. Wrap - 1]

TypeOK == PassTypes /\ FrameTypes

Init ==
    /\ pc = "receive" /\ burst = 0 /\ received = FALSE
    /\ silent = 0 /\ quiet = 0 /\ dueIn = PROBE_INTERVAL
    /\ wanted = FALSE
    /\ rxLen = 0 /\ txLen = 0
    /\ fifo = <<>>
    /\ sent = 0 /\ limit = Window /\ freed = 0
    /\ count = [c \in Counters |-> 0]

(* The counters in C go on by n, as fetch_add does.                        *)
Counted(C, n) == [c \in Counters |-> IF c \in C THEN (count[c] + n) % Wrap ELSE count[c]]

UpTo(bound, n) == IF n < bound THEN n ELSE bound

-----------------------------------------------------------------------------
(* Timer::after(POLL_INTERVAL) ends, the next pass starts.                 *)
StackCanTake == rxLen > 0 /\ txLen < N_TX

BeginPass ==
    /\ pc = "sleep"
    /\ pc' = "receive"
    /\ burst' = 0 /\ received' = FALSE
    /\ silent' = UpTo(RX_SILENCE, silent + 1)
    /\ dueIn' = IF dueIn = 0 THEN 0 ELSE dueIn - 1
    /\ UNCHANGED <<quiet, wanted, rxLen, txLen, fifo, sent, limit, freed, count>>

(* Mutant: a full queue loses a frame.                                     *)
ReceiveStopsDropping ==
    /\ pc = "receive"
    /\ burst = RX_BURST \/ rxLen = N_RX \/ fifo = <<>>
    /\ pc' = "transmit"
    /\ fifo' = IF rxLen = N_RX /\ fifo # <<>> THEN Tail(fifo) ELSE fifo
    /\ UNCHANGED <<burst, received, silent, quiet, dueIn, wanted, rxLen, txLen,
                   sent, limit, freed, count>>

RxBufFree == rxLen < N_RX

(* receive(): the burst is over, the queue is full, or nothing is waiting. *)
ReceiveStops ==
    /\ pc = "receive"
    /\ burst = RX_BURST \/ ~RxBufFree \/ fifo = <<>>
    /\ pc' = "transmit"
    /\ UNCHANGED <<burst, received, silent, quiet, dueIn, wanted, rxLen, txLen,
                   fifo, sent, limit, freed, count>>

(* recv_ethernet reads the next frame; each kind but the malformed one     *)
(* carries a limit.                                                        *)
ReadFrame(kind) ==
    /\ pc = "receive"
    /\ burst < RX_BURST /\ RxBufFree /\ fifo # <<>>
    /\ Head(fifo).kind = kind
    /\ fifo' = Tail(fifo)
    /\ limit' = IF kind = "bad" THEN limit ELSE Head(fifo).limit
    /\ UNCHANGED <<silent, quiet, dueIn, wanted, txLen, sent, freed>>

ReceiveData ==
    /\ ReadFrame("data")
    /\ rxLen' = rxLen + 1
    /\ burst' = burst + 1 /\ received' = TRUE
    /\ count' = Counted({"RX_FRAMES"}, 1)
    /\ UNCHANGED pc

(* Ok(None) and Err end the receive half of the pass, whatever is behind.  *)
ReceiveControl ==
    /\ ReadFrame("control")
    /\ pc' = "transmit"
    /\ UNCHANGED <<burst, received, rxLen, count>>

ReceiveBad ==
    /\ ReadFrame("bad")
    /\ pc' = "transmit"
    /\ received' = TRUE
    /\ count' = Counted({"RX_ERRORS"}, 1)
    /\ UNCHANGED <<burst, rxLen>>

(* An error that is of no frame: nothing was read, and whatever is in the  *)
(* FIFO stays there.                                                       *)
ReceiveFails ==
    /\ pc = "receive"
    /\ burst < RX_BURST /\ RxBufFree
    /\ pc' = "transmit"
    /\ received' = TRUE
    /\ count' = Counted({"RX_ERRORS"}, 1)
    /\ UNCHANGED <<burst, silent, quiet, dueIn, wanted, rxLen, txLen, chipVars>>

-----------------------------------------------------------------------------
(* The end of the moving half: what run() concludes from it.               *)
(* Mutant: a frame to send counts as hearing from the network.             *)
HeardAny(moved) == received \/ moved

Heard(moved) == received

MovingDone(moved) ==
    /\ pc = "transmit"
    /\ pc' = "sample"
    /\ silent' = IF Heard(moved) THEN 0 ELSE silent
    /\ quiet' = IF received \/ moved THEN 0 ELSE UpTo(LINK_QUIET_PASSES, quiet + 1)
    /\ UNCHANGED <<burst, received, dueIn, wanted, rxLen, fifo, limit, freed>>

(* transmit(): a frame is taken, waits for credit, or cannot be sent.      *)
HasCredit == sent # limit

TransmitNone ==
    /\ txLen = 0
    /\ MovingDone(FALSE)
    /\ UNCHANGED <<txLen, sent, count>>

TransmitSent ==
    /\ txLen > 0 /\ HasCredit
    /\ MovingDone(TRUE)
    /\ sent' = (sent + 1) % Seqs
    /\ txLen' = txLen - 1
    /\ count' = Counted({"TX_FRAMES"}, 1)

(* Mutant: a frame without credit is dropped uncounted.                    *)
TransmitBusyDrops ==
    /\ txLen > 0 /\ ~HasCredit
    /\ MovingDone(TRUE)
    /\ txLen' = txLen - 1
    /\ UNCHANGED <<sent, count>>

TransmitBusy ==
    /\ txLen > 0 /\ ~HasCredit
    /\ MovingDone(TRUE)
    /\ UNCHANGED <<txLen, sent, count>>

TransmitFailed ==
    /\ txLen > 0
    /\ MovingDone(TRUE)
    /\ txLen' = txLen - 1
    /\ count' = Counted({"TX_FAILURES"}, 1)
    /\ UNCHANGED sent

-----------------------------------------------------------------------------
(* A control command: what is waiting is read on the way to the reply, and *)
(* its data is lost; the reply carries a limit too.                        *)
Limit == (freed + Window) % Seqs

(* How many of the frames are data.                                        *)
Places(frames) == {i \in 1 .. Len(frames) : frames[i].kind = "data"}

Data(frames) == Cardinality(Places(frames))

Command ==
    /\ limit' = Limit
    /\ fifo' = <<>>
    /\ count' = Counted({"discarded"}, Data(fifo))

NoCommand == UNCHANGED <<limit, fifo, count>>

CommandStep(from, to) ==
    /\ pc = from
    /\ pc' = to
    /\ UNCHANGED <<burst, received, silent, quiet, rxLen, txLen, sent, freed>>

(* sample_link: on a quiet radio, at its own interval.                     *)
SampleLink ==
    /\ CommandStep("sample", "watch")
    /\ \/ NoCommand
       \/ quiet = LINK_QUIET_PASSES /\ Command
    /\ UNCHANGED <<dueIn, wanted>>

(* Watch::pass while the association is up: the probe.                     *)
ProbeDue == dueIn = 0 /\ silent = RX_SILENCE

WatchPass ==
    /\ CommandStep("watch", "counters")
    /\ IF ProbeDue
         THEN Command /\ dueIn' = PROBE_INTERVAL
         ELSE NoCommand /\ UNCHANGED dueIn
    /\ UNCHANGED wanted

(* sample_counters: if one was asked for.                                  *)
SampleCounters ==
    /\ CommandStep("counters", "sleep")
    /\ IF wanted THEN Command ELSE NoCommand
    /\ wanted' = FALSE
    /\ UNCHANGED dueIn

PassStep ==
    \/ BeginPass
    \/ ReceiveStops \/ ReceiveData \/ ReceiveControl \/ ReceiveBad \/ ReceiveFails
    \/ TransmitNone \/ TransmitSent \/ TransmitBusy \/ TransmitFailed
    \/ SampleLink \/ WatchPass \/ SampleCounters

-----------------------------------------------------------------------------
(* The firmware, at any time.                                              *)
Arrive(kind) ==
    /\ Len(fifo) < Fifo
    /\ fifo' = Append(fifo, [kind |-> kind, limit |-> IF kind = "bad" THEN 0 ELSE Limit])
    /\ count' = IF kind = "data" THEN Counted({"arrived"}, 1) ELSE count
    /\ UNCHANGED <<passVars, wanted, rxLen, txLen, sent, limit, freed>>

FreeBuffer ==
    /\ freed # sent
    /\ freed' = (freed + 1) % Seqs
    /\ UNCHANGED <<passVars, wanted, rxLen, txLen, fifo, sent, limit, count>>

(* The stack and the application, while the runner sleeps.                 *)
StackTake ==
    /\ pc = "sleep"
    /\ StackCanTake
    /\ rxLen' = rxLen - 1
    /\ \/ /\ UNCHANGED txLen
          /\ count' = Counted({"taken"}, 1)
       \/ /\ txLen' = txLen + 1
          /\ count' = Counted({"taken", "queued"}, 1)
    /\ UNCHANGED <<passVars, wanted, chipVars>>

StackSend ==
    /\ pc = "sleep"
    /\ txLen < N_TX
    /\ txLen' = txLen + 1
    /\ count' = Counted({"queued"}, 1)
    /\ UNCHANGED <<passVars, wanted, rxLen, chipVars>>

RequestCounters ==
    /\ pc = "sleep"
    /\ wanted' = TRUE
    /\ UNCHANGED <<passVars, rxLen, txLen, chipVars, count>>

Next ==
    \/ PassStep
    \/ \E kind \in Kinds : Arrive(kind)
    \/ FreeBuffer
    \/ StackTake \/ StackSend \/ RequestCounters

(* The runner is polled, the air takes frames, and the stack takes what it *)
(* is given whenever it can.  The firmware need not ever send the host a   *)
(* frame of its own accord.                                                *)
Fairness ==
    /\ WF_vars(PassStep)
    /\ WF_vars(FreeBuffer)
    /\ SF_vars(StackTake)

Spec == Init /\ [][Next]_vars
FairSpec == Spec /\ Fairness

-----------------------------------------------------------------------------
(* Each data frame that reaches the chip is handed to the stack and        *)
(* counted, or still in the FIFO, or lost to a control command -- never to *)
(* a full queue, a burst that ends or an error behind it; and the counters *)
(* stay right across their wrap (wifi.rs 728-766).                         *)
ReceiveAccounted ==
    /\ count["arrived"]
        = (count["RX_FRAMES"] + Data(fifo) + count["discarded"]) % Wrap
    /\ count["RX_FRAMES"] = (count["taken"] + rxLen) % Wrap

(* Each frame the stack queues is taken by the chip, counted as a failure, *)
(* or still queued: waiting for credit loses none and counts none twice    *)
(* (wifi.rs 819-838).                                                      *)
SendAccounted ==
    count["queued"] = (count["TX_FRAMES"] + count["TX_FAILURES"] + txLen) % Wrap

(* A receive that failed counts as something heard (756-762).  A radio     *)
(* that does nothing else puts the probe off for ever, grants no credit,   *)
(* and wedges the transmit queue: the code has no way out of it.           *)
Fails == ReceiveBad \/ ReceiveFails

(* Neither queue ever wedges, whatever the chip refuses, once receives no  *)
(* longer fail.  When both are full and the credit is spent, nothing       *)
(* moves: the limit is in frames that are not read for want of a slot,     *)
(* which the stack frees only with a transmit buffer in hand.  The probe   *)
(* of a silent radio is what ends that (wifi.rs 43-54, 488-500, 731-740,   *)
(* 829-836).                                                               *)
QueuesMove ==
    <>[][~Fails]_vars =>
        /\ <>[](txLen = 0) \/ []<><<txLen' < txLen>>_vars
        /\ <>[](rxLen = 0) \/ []<><<rxLen' < rxLen>>_vars
=============================================================================
