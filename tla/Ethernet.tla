------------------------------- MODULE Ethernet -------------------------------
(***************************************************************************)
(* The runner between embassy-net's packet queues and a USB Ethernet chip  *)
(* (src/src/ethernet.rs, and lan9514.rs, which forwards to it): bring-up,  *)
(* the wait for the link, then a receive loop and a transmit loop joined   *)
(* in one task.  A step is what the task does between two awaits.          *)
(*                                                                         *)
(* The chip, the USB transfers and the queues of embassy-net-driver-       *)
(* channel are not in the crate: a transfer ends with any outcome its type *)
(* allows, a queue is a bounded FIFO whose buffers are claimed and         *)
(* released, and the stack takes a received frame only when it could also  *)
(* answer it, that is, when a transmit buffer is free.  Frames are         *)
(* numbered in the order they are made.                                    *)
(***************************************************************************)
EXTENDS Naturals, Sequences, SequencesExt

CONSTANTS
    N_RX, N_TX,     \* depths of the queues
    Fifo,           \* frames the chip holds before it drops arrivals
    MaxBatch,       \* frames one transfer can carry
    LinkWait,       \* LINK_WAIT_US, in checks of the clock
    AllMulticast,   \* EthernetConfig::all_multicast
    MaxIn, MaxOut   \* bounds: frames that arrive, frames the stack sends

ASSUME SizeAssumption ==
    /\ {N_RX, N_TX, Fifo, MaxBatch} \subseteq Nat \ {0}
    /\ {LinkWait, MaxIn, MaxOut} \subseteq Nat
    /\ AllMulticast \in BOOLEAN

VARIABLES
    phase,      \* where run() is
    link,       \* what the stack was told: LinkState
    startError, \* whether START_LAST_ERROR holds an error
    waited,     \* how far the link-wait clock has run
    failed,     \* the steps of the bring-up that failed
    told,       \* how often the stack was told of a link state
    fifo,       \* frames in the chip
    arrived,    \* number of frames that reached the chip
    fetched,    \* frames completed transfers carried, in order
    batch,      \* frames of the last transfer still to be handed over
    size,       \* how many frames that transfer carried
    rxq,        \* the stack's receive queue
    received,   \* frames the stack took, in order
    rxFrames,   \* RX_FRAMES
    txq,        \* the stack's transmit queue
    queued,     \* number of frames the stack ever queued
    sending,    \* whether a transmit transfer is pending on txq's head
    wire,       \* frames the chip put on the wire, in order
    tx          \* TX_FRAMES and TX_FAILURES

upVars == <<phase, link, startError, waited, failed, told>>
rxVars == <<fifo, arrived, fetched, batch, size, rxq, received, rxFrames>>
txVars == <<txq, queued, sending, wire, tx>>
vars == <<upVars, rxVars, txVars>>

(* The frames numbered so far.                                             *)
Frames(newest) == 1 .. newest

UpTypes ==
    /\ phase \in {"start", "multicast", "linkwait", "running", "parked"}
    /\ link \in {"Down", "Up"}
    /\ startError \in BOOLEAN
    /\ waited \in 0 .. LinkWait
    /\ failed \subseteq {"start", "multicast"}
    /\ told \in Nat

RxTypes ==
    /\ arrived \in 0 .. MaxIn
    /\ {fifo, fetched, batch, rxq, received} \subseteq Seq(Frames(arrived))
    /\ Len(fifo) <= Fifo /\ Len(rxq) <= N_RX
    /\ size \in 0 .. MaxBatch /\ Len(batch) <= size
    /\ rxFrames \in Nat

TxTypes ==
    /\ queued \in 0 .. MaxOut
    /\ {txq, wire} \subseteq Seq(Frames(queued)) /\ Len(txq) <= N_TX
    /\ sending \in BOOLEAN
    /\ tx \in [{"frames", "failures"} -> Nat]

TypeOK == UpTypes /\ RxTypes /\ TxTypes

Init ==
    /\ phase = "start" /\ link = "Down" /\ startError = FALSE /\ waited = 0
    /\ failed = {} /\ told = 0
    /\ fifo = <<>> /\ arrived = 0 /\ fetched = <<>>
    /\ batch = <<>> /\ size = 0 /\ rxq = <<>> /\ received = <<>>
    /\ rxFrames = 0
    /\ txq = <<>> /\ queued = 0 /\ sending = FALSE /\ wire = <<>>
    /\ tx = [c \in {"frames", "failures"} |-> 0]

-----------------------------------------------------------------------------
(* start_async: tried once.  After an error the interface parks for good.  *)
Start ==
    /\ phase = "start"
    /\ \/ /\ phase' = IF AllMulticast THEN "multicast" ELSE "linkwait"
          /\ UNCHANGED <<link, startError, failed, told>>
       \/ /\ phase' = "parked"
          /\ failed' = failed \cup {"start"}
          /\ startError' = TRUE
          /\ link' = "Down" /\ told' = told + 1
    /\ UNCHANGED <<waited, rxVars, txVars>>

(* A failed multicast filter is reported and survived.                     *)
(* Mutant: it is not reported.                                             *)
SetMulticastUnrecorded ==
    /\ phase = "multicast"
    /\ phase' = "linkwait"
    /\ failed' \in {failed, failed \cup {"multicast"}}
    /\ UNCHANGED <<link, startError, waited, told, rxVars, txVars>>

SetMulticast ==
    /\ phase = "multicast"
    /\ phase' = "linkwait"
    /\ \/ UNCHANGED <<startError, failed>>
       \/ failed' = failed \cup {"multicast"} /\ startError' = TRUE
    /\ UNCHANGED <<link, waited, told, rxVars, txVars>>

Clock ==
    /\ phase = "linkwait"
    /\ waited < LinkWait
    /\ waited' = waited + 1
    /\ UNCHANGED <<phase, link, startError, failed, told, rxVars, txVars>>

(* The wait ends with a link or an error, or at the deadline; each way the *)
(* link is reported up, and both loops start.                              *)
ReportUp ==
    /\ phase = "linkwait"
    /\ phase' = "running"
    /\ link' = "Up" /\ told' = told + 1
    /\ UNCHANGED <<startError, waited, failed, rxVars, txVars>>

LinkAnswers == ReportUp

Expired == waited >= LinkWait

LinkGivesUp == Expired /\ ReportUp

-----------------------------------------------------------------------------
(* A frame reaches a started chip, which drops it when its FIFO is full.   *)
Arrive ==
    /\ phase \notin {"start", "parked"}
    /\ arrived < MaxIn
    /\ arrived' = arrived + 1
    /\ fifo' = IF Len(fifo) < Fifo THEN Append(fifo, arrived') ELSE fifo
    /\ UNCHANGED <<upVars, fetched, batch, size, rxq, received, rxFrames, txVars>>

(* A bulk IN is pending whenever no frame waits to be handed over.         *)
(* Mutant: the loop starts with the chip, before the link is reported.     *)
ReceivingEarly == phase \in {"linkwait", "running"} /\ batch = <<>>

Receiving == phase = "running" /\ batch = <<>>

Carries == {n \in 1 .. MaxBatch : n <= Len(fifo)}

ReceiveFrames(n) ==
    /\ Receiving
    /\ n \in Carries
    /\ batch' = SubSeq(fifo, 1, n)
    /\ size' = n
    /\ fetched' = fetched \o batch'
    /\ fifo' = SubSeq(fifo, n + 1, Len(fifo))
    /\ UNCHANGED <<upVars, arrived, rxq, received, rxFrames, txVars>>

(* An unusable answer or an error loses what it carried, and the transfer  *)
(* is asked for again.  The tallies of these (RX_UNUSABLE, RX_FAILURES,    *)
(* RX_BATCHED, the gaps) are not kept: no step of the runner reads them.   *)
ReceiveFails(n) ==
    /\ Receiving
    /\ n \in Carries
    /\ fifo' = SubSeq(fifo, n + 1, Len(fifo))
    /\ UNCHANGED <<upVars, arrived, fetched, batch, size, rxq, received, rxFrames, txVars>>

(* rx_buf().await, copy, rx_done; after the last frame the transfer is     *)
(* counted and the next one issued without another await.                  *)
(* Mutant: the queue's room is not waited for.                             *)
RxBufAssumed == TRUE

RxBufFree == Len(rxq) < N_RX

(* Mutant: a full queue drops the rest of the batch.                       *)
DeliverOrDrop ==
    /\ batch # <<>>
    /\ RxBufFree
    /\ rxq' = Append(rxq, Head(batch))
    /\ batch' = IF Len(rxq') < N_RX THEN Tail(batch) ELSE <<>>
    /\ rxFrames' = IF batch' = <<>> THEN rxFrames + size ELSE rxFrames
    /\ UNCHANGED <<upVars, fifo, arrived, fetched, size, received, txVars>>

Deliver ==
    /\ batch # <<>>
    /\ RxBufFree
    /\ rxq' = Append(rxq, Head(batch))
    /\ batch' = Tail(batch)
    /\ rxFrames' = IF batch' = <<>> THEN rxFrames + size ELSE rxFrames
    /\ UNCHANGED <<upVars, fifo, arrived, fetched, size, received, txVars>>

StackTake ==
    /\ rxq # <<>>
    /\ Len(txq) < N_TX
    /\ received' = Append(received, Head(rxq))
    /\ rxq' = Tail(rxq)
    /\ UNCHANGED <<upVars, fifo, arrived, fetched, batch, size, rxFrames, txVars>>

-----------------------------------------------------------------------------
(* The stack may queue frames before it is told of a link; they wait.      *)
StackSend ==
    /\ queued < MaxOut
    /\ Len(txq) < N_TX
    /\ queued' = queued + 1
    /\ txq' = Append(txq, queued')
    /\ UNCHANGED <<upVars, rxVars, sending, wire, tx>>

(* tx_buf().await: the head is lent to the transfer and stays queued.      *)
(* Mutant: one loop for both halves, so a send waits for the receive.      *)
TransmitInTurn ==
    /\ phase = "running"
    /\ ~sending
    /\ txq # <<>>
    /\ batch = <<>>
    /\ sending' = TRUE
    /\ UNCHANGED <<upVars, rxVars, txq, queued, wire, tx>>

Transmit ==
    /\ phase = "running"
    /\ ~sending
    /\ txq # <<>>
    /\ sending' = TRUE
    /\ UNCHANGED <<upVars, rxVars, txq, queued, wire, tx>>

(* The buffer is released whether or not the chip took the frame.          *)
(* Mutant: a refused frame keeps its buffer.                               *)
ReleasedWhenSent(ok) == IF ok THEN Tail(txq) ELSE txq

Released(ok) == Tail(txq)

SendCompletes(ok) ==
    /\ sending
    /\ sending' = FALSE
    /\ tx' = [tx EXCEPT !.frames = @ + 1, !.failures = IF ok THEN @ ELSE @ + 1]
    /\ wire' = IF ok THEN Append(wire, Head(txq)) ELSE wire
    /\ txq' = Released(ok)
    /\ UNCHANGED <<upVars, rxVars, queued>>

-----------------------------------------------------------------------------
BringUp == Start \/ SetMulticast \/ LinkGivesUp

ReceiveCompletes == \E n \in Carries : ReceiveFrames(n) \/ ReceiveFails(n)

SendStep == Transmit \/ \E ok \in BOOLEAN : SendCompletes(ok)

Next ==
    \/ BringUp \/ LinkAnswers \/ Clock
    \/ Arrive \/ ReceiveCompletes \/ Deliver \/ StackTake
    \/ StackSend \/ SendStep

Spec == Init /\ [][Next]_vars

-----------------------------------------------------------------------------
(* What one transfer carried reaches the stack whole, once and in order,   *)
(* also when the queue fills in the middle of a batch (ethernet.rs 413-436,*)
(* "leaving the rest to be dropped exactly as they were before"), and      *)
(* RX_FRAMES counts the frames of each transfer that was handed over       *)
(* (437-444).                                                              *)
ReceiveLossless ==
    /\ fetched = received \o rxq \o batch
    /\ rxFrames = Len(fetched) - (IF batch = <<>> THEN 0 ELSE size)

(* Every frame the stack ever queued is on the wire once, in order, or     *)
(* counted as refused, or still queued (ethernet.rs 594-605).              *)
SendAccounted ==
    /\ Len(wire) + tx.failures + Len(txq) = queued
    /\ tx.frames = Len(wire) + tx.failures
    /\ \A i, j \in 1 .. Len(wire) : i < j => wire[i] < wire[j]

(* The stack is told of a link exactly while both loops run, and is told   *)
(* once, whichever way the wait for it ended; an error is recorded exactly *)
(* if a step of the bring-up failed, and the link state tells which: an    *)
(* interface whose start failed is parked and never carries a frame, one   *)
(* whose multicast filter failed goes on (ethernet.rs 305-324, 345-373,    *)
(* 714-726).                                                               *)
DeadInterfaceSaysSo ==
    /\ link = "Up" <=> phase = "running"
    /\ told = IF phase \in {"running", "parked"} THEN 1 ELSE 0
    /\ startError <=> failed # {}
    /\ phase = "parked" <=> "start" \in failed
    /\ phase = "parked" => wire = <<>> /\ fetched = <<>>

(* The runner is an interface that is up when it is running: what waits is *)
(* in the queue or still in the last transfer, and what is done with was   *)
(* sent or refused (ethernet.rs 376-392, 407-452, 580-606).                *)
Interface == INSTANCE PacketInterface WITH
    Depth <- N_TX,
    up <- phase = "running",
    newest <- IF fetched = <<>> THEN 0 ELSE Last(fetched),
    inbox <- rxq \o batch,
    taken <- received,
    outbox <- txq,
    done <- tx.frames

KeepsOrder == Interface!Spec

(* The transmit queue never wedges, however many sends fail and however    *)
(* long the receive side is stuck: each queued frame leaves it, unless the *)
(* interface is dead (ethernet.rs 276-278, 580-605).                       *)
SendQueueMoves ==
    \A f \in 1 .. MaxOut :
        Contains(txq, f) ~> ~Contains(txq, f) \/ phase = "parked"

(* Every frame a transfer carried is taken by the stack in the end, which  *)
(* needs a transmit buffer for it: failed sends must give theirs back      *)
(* (ethernet.rs 419-423, 580-584).                                         *)
FetchedIsReceived ==
    \A f \in 1 .. MaxIn :
        Contains(fetched, f) ~> Contains(received, f)
=============================================================================
