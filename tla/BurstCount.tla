------------------------------- MODULE BurstCount -------------------------------
(***************************************************************************)
(* The datagram counter of src/examples/embassy_net_burst.rs and the       *)
(* adapter's statistics it reads (src/src/ethernet.rs).  Three tasks of    *)
(* one executor: the receive loop, the stack, and burst_task; a step is    *)
(* what one of them does between two awaits.                               *)
(*                                                                         *)
(* External: the host, which sends a burst and waits for its report before *)
(* the next; other traffic to the port; the chip, which drops what its     *)
(* FIFO has no room for, and the socket, which drops what its buffer has   *)
(* none for.  A burst is over in less than QUIET, so that a silence means  *)
(* all of it has arrived or is lost; and the others' traffic is taken not  *)
(* to bridge the host's pause.                                             *)
(***************************************************************************)
EXTENDS Naturals, SequencesExt

CONSTANTS
    Totals,                 \* sizes of a burst
    MaxBursts, MaxNoise,    \* bounds: bursts, and datagrams of others
    ChipFifo, RxQueue, Transfer, Socket,    \* capacities, in frames
    Wrap32                  \* modulus of the counters: 2^32

NoBurst == [total |-> 0]
Foreign == 0    \* a datagram without the prefix, or of an impossible total

VARIABLES
    host,       \* the size of the host's burst, what is unsent and what is lost
    bursts, noise,  \* how many were sent
    chip,       \* the datagrams in the chip, each by its burst's total
    transfer,   \* those of the last transfer still to be handed over
    carried,    \* how many it carried
    rxQueue, socket,    \* those queued for the stack, and for burst_task
    stats,      \* RX_FRAMES and RX_BATCHED
    burst,      \* burst_task's burst
    report      \* the last line it wrote, and what the burst really lost

pathVars == <<chip, transfer, carried, rxQueue, socket, stats>>
vars == <<host, bursts, noise, pathVars, burst, report>>

TypeOK ==
    /\ host.unsent + host.lost <= host.total /\ host.total \in Totals \cup {0}
    /\ bursts \in 0 .. MaxBursts /\ noise \in 0 .. MaxNoise
    /\ {chip, transfer, rxQueue, socket} \subseteq Seq(Totals \cup {Foreign})
    /\ Len(chip) <= ChipFifo /\ Len(rxQueue) <= RxQueue /\ Len(socket) <= Socket
    /\ Len(transfer) <= carried /\ carried <= Transfer
    /\ stats \in [{"frames", "batched"} -> 0 .. Wrap32 - 1]
    /\ burst = NoBurst \/ burst.total \in Totals

(* Earlier traffic has counted any number of frames.                       *)
Init ==
    /\ host = [total |-> 0, unsent |-> 0, lost |-> 0]
    /\ bursts = 0 /\ noise = 0
    /\ chip = <<>> /\ transfer = <<>> /\ carried = 0 /\ rxQueue = <<>> /\ socket = <<>>
    /\ stats \in [frames : {0, Wrap32 - 1}, batched : {0}]
    /\ burst = NoBurst
    /\ report = [lost |-> 0, missing |-> 0, frames |-> 0, batched |-> 0]

-----------------------------------------------------------------------------
Silence == host.unsent = 0 /\ \A q \in {chip, transfer, rxQueue, socket} : q = <<>>

HostBegins(t) ==
    /\ bursts < MaxBursts
    /\ Silence /\ burst = NoBurst
    /\ bursts' = bursts + 1
    /\ host' = [total |-> t, unsent |-> t, lost |-> 0]
    /\ UNCHANGED <<noise, pathVars, burst, report>>

HostSends ==
    /\ host.unsent > 0
    /\ IF Len(chip) < ChipFifo
         THEN /\ chip' = Append(chip, host.total)
              /\ host' = [host EXCEPT !.unsent = @ - 1]
         ELSE /\ UNCHANGED chip
              /\ host' = [host EXCEPT !.unsent = @ - 1, !.lost = @ + 1]
    /\ UNCHANGED <<bursts, noise, transfer, carried, rxQueue, socket, stats, burst, report>>

Noise ==
    /\ noise < MaxNoise
    /\ noise' = noise + 1
    /\ Len(chip) < ChipFifo
    /\ chip' = Append(chip, Foreign)
    /\ UNCHANGED <<host, bursts, transfer, carried, rxQueue, socket, stats, burst, report>>

(* receive_frames_async completes with the frames of one transfer.         *)
ReceiveFrames(n) ==
    /\ transfer = <<>>
    /\ n <= Len(chip)
    /\ transfer' = SubSeq(chip, 1, n) /\ carried' = n
    /\ chip' = SubSeq(chip, n + 1, Len(chip))
    /\ UNCHANGED <<host, bursts, noise, rxQueue, socket, stats, burst, report>>

(* What fits is handed over; a full queue parks the loop in the middle of  *)
(* a batch, and the batch is counted after its last frame.                 *)
Fits ==
    LET room == RxQueue - Len(rxQueue)
    IN  IF Len(transfer) < room THEN Len(transfer) ELSE room

HandOver ==
    /\ transfer # <<>> /\ Fits > 0
    /\ rxQueue' = rxQueue \o SubSeq(transfer, 1, Fits)
    /\ transfer' = SubSeq(transfer, Fits + 1, Len(transfer))
    /\ UNCHANGED <<host, bursts, noise, chip, carried, socket, burst, report>>

Counted(frames, batches) ==
    [frames |-> (stats.frames + frames) % Wrap32,
     batched |-> (stats.batched + batches) % Wrap32]

Batch == IF transfer' = <<>> /\ carried > 1 THEN 1 ELSE 0

(* Mutant: each frame is counted as it is handed over.                     *)
DeliverCountingEach ==
    /\ HandOver
    /\ stats' = Counted(Fits, Batch)

Deliver ==
    /\ HandOver
    /\ stats' = IF transfer' = <<>> THEN Counted(carried, Batch) ELSE stats

StackMoves ==
    /\ rxQueue # <<>>
    /\ rxQueue' = Tail(rxQueue)
    /\ IF Len(socket) < Socket
         THEN socket' = Append(socket, Head(rxQueue)) /\ UNCHANGED host
         ELSE /\ UNCHANGED socket
              /\ host' = IF Head(rxQueue) = Foreign THEN host ELSE [host EXCEPT !.lost = @ + 1]
    /\ UNCHANGED <<bursts, noise, chip, transfer, carried, stats, burst, report>>

-----------------------------------------------------------------------------
(* Burst::begin takes the adapter's counters as a baseline.                *)
Begin(total) ==
    [total |-> total, received |-> 0, frames |-> stats.frames, batched |-> stats.batched]

Current(total) == IF burst = NoBurst THEN Begin(total) ELSE burst

(* recv_from ends before QUIET does.  Foreign datagrams and errors are not *)
(* the burst's.  Mutant: whatever arrives while one is open counts.        *)
RecvAny ==
    /\ socket # <<>>
    /\ burst' = IF Head(socket) = Foreign /\ burst = NoBurst
                THEN burst
                ELSE [Current(Head(socket)) EXCEPT !.received = @ + 1]
    /\ socket' = Tail(socket)
    /\ UNCHANGED <<host, bursts, noise, chip, transfer, carried, rxQueue, stats, report>>

Recv ==
    /\ socket # <<>>
    /\ burst' = IF Head(socket) = Foreign
                THEN burst
                ELSE [Current(Head(socket)) EXCEPT !.received = @ + 1]
    /\ socket' = Tail(socket)
    /\ UNCHANGED <<host, bursts, noise, chip, transfer, carried, rxQueue, stats, report>>

SaturatingSub(a, b) == IF a < b THEN 0 ELSE a - b

WrappingSub(a, b) == (a + Wrap32 - b) % Wrap32

Report ==
    [lost |-> SaturatingSub(burst.total, burst.received),
     missing |-> host.lost,
     frames |-> WrappingSub(stats.frames, burst.frames),
     batched |-> WrappingSub(stats.batched, burst.batched)]

(* The finished burst is taken, and its line written.                      *)
QuietElapses ==
    /\ Silence /\ burst # NoBurst
    /\ report' = Report
    /\ burst' = NoBurst
    /\ UNCHANGED <<host, bursts, noise, pathVars>>

BoardStep ==
    \/ \E n \in 1 .. Transfer : ReceiveFrames(n)
    \/ Deliver \/ StackMoves \/ Recv \/ QuietElapses

Next ==
    \/ \E t \in Totals : HostBegins(t)
    \/ HostSends \/ Noise
    \/ BoardStep

-----------------------------------------------------------------------------
(* The loss on the line is what was lost of that burst: others' datagrams  *)
(* do not hide it, the tail is not inferred from what arrived, and nothing *)
(* of one burst is counted in another (embassy_net_burst.rs 218-223,       *)
(* 319-339).                                                               *)
LossExact == report.lost = report.missing

(* The two counters on the line belong to the same transfers, whichever    *)
(* batch was half delivered at the baseline and although they wrap: a      *)
(* batch is at least two frames (ethernet.rs 427-444, 560-570).            *)
SnapshotAgrees == report.frames >= 2 * report.batched

=============================================================================
