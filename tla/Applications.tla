------------------------------ MODULE Applications ------------------------------
(***************************************************************************)
(* The parts of an application: its interrupt handler, and the tasks of    *)
(* the examples.  An image has some of them; they share nothing a property *)
(* of one speaks of, so a behaviour is that of one part.                   *)
(***************************************************************************)
EXTENDS Naturals, Sequences

CONSTANTS
    Totals, MaxBursts, MaxNoise, ChipFifo, RxQueue, Transfer, Socket, Wrap32,
    MaxClients, MaxBytes, Buf, RxBuffer, TxBuffer,
    Horizon, Timeout, Pause,
    Delay, INJECT_INTERVAL, Clamp, SPURIOUS_TARGET, MaxLate

(* Transfers, buffers and bursts hold something, and an alarm for an empty *)
(* queue is further off than any deadline.                                 *)
ASSUME SizeAssumption ==
    /\ Totals \subseteq Nat \ {0}
    /\ {Transfer, RxQueue, Wrap32, Buf, RxBuffer, TxBuffer, SPURIOUS_TARGET} \subseteq Nat \ {0}
    /\ {ChipFifo, Socket, Horizon, Clamp} \subseteq Nat
    /\ {MaxBursts, MaxNoise, MaxClients, MaxBytes, MaxLate} \subseteq Nat
    /\ {Delay, INJECT_INTERVAL} \subseteq 1 .. Clamp

(* A burst is of at most MAX_BURST datagrams (embassy_net_burst.rs 334):   *)
(* with what others send meanwhile, fewer than the counters count to.      *)
ASSUME WindowAssumption == \A total \in Totals : total + MaxNoise < Wrap32

VARIABLES
    part,       \* the part that runs
    image, asserting, irqPc, quiet,
    host, bursts, noise, chip, transfer, carried, rxQueue, socket, stats, burst, line,
    echoPc, client, peer, sent, rx, buf, n, tx, echoed,
    clock, busPc, parked, since, beat, last, maxGap, blocked, shown, report,
    probePc, probeIrq, deadline, alarm, match, target, inject, spurious, late

irqVars == <<image, asserting, irqPc, quiet>>
burstVars == <<host, bursts, noise, chip, transfer, carried, rxQueue, socket, stats, burst, line>>
echoVars == <<echoPc, client, peer, sent, rx, buf, n, tx, echoed>>
busVars == <<clock, busPc, parked, since, beat, last, maxGap, blocked, shown, report>>
probeVars == <<probePc, probeIrq, deadline, alarm, match, target, inject, spurious, late>>
vars == <<part, irqVars, burstVars, echoVars, busVars, probeVars>>

Irq == INSTANCE IrqDispatch WITH pc <- irqPc
Burst == INSTANCE BurstCount WITH report <- line
Echo == INSTANCE EchoServer WITH pc <- echoPc
I2c == INSTANCE I2cBus WITH pc <- busPc
Idle == INSTANCE IdleProbe WITH pc <- probePc, irq <- probeIrq

TypeOK ==
    /\ part \in {"irq", "burst", "echo", "i2c", "idle"}
    /\ Irq!TypeOK /\ Burst!TypeOK /\ Echo!TypeOK /\ I2c!TypeOK /\ Idle!TypeOK

Init ==
    /\ part \in {"irq", "burst", "echo", "i2c", "idle"}
    /\ Irq!Init /\ (part # "irq" => image = "dispatch")
    /\ Burst!Init /\ (part # "burst" => stats["frames"] = 0)
    /\ Echo!Init /\ I2c!Init /\ Idle!Init

(* Steps of one part leave the others alone.                               *)
IrqPart == part = "irq" /\ UNCHANGED <<part, burstVars, echoVars, busVars, probeVars>>
BurstPart == part = "burst" /\ UNCHANGED <<part, irqVars, echoVars, busVars, probeVars>>
EchoPart == part = "echo" /\ UNCHANGED <<part, irqVars, burstVars, busVars, probeVars>>
I2cPart == part = "i2c" /\ UNCHANGED <<part, irqVars, burstVars, echoVars, probeVars>>
IdlePart == part = "idle" /\ UNCHANGED <<part, irqVars, burstVars, echoVars, busVars>>

Next ==
    \/ IrqPart /\ Irq!Next
    \/ BurstPart /\ Burst!Next
    \/ EchoPart /\ Echo!Next
    \/ I2cPart /\ I2c!Next
    \/ IdlePart /\ Idle!Next

(* A core executes its handler and its tasks; a host sends the burst it    *)
(* has begun; a client that is there, or has closed its end, acknowledges  *)
(* what it is sent; the counter ticks.                                     *)
Fairness ==
    /\ WF_vars(IrqPart /\ Irq!Handler)
    /\ WF_vars(BurstPart /\ Burst!BoardStep)
    /\ WF_vars(BurstPart /\ Burst!HostSends)
    /\ WF_vars(EchoPart /\ Echo!ServerStep)
    /\ WF_vars(EchoPart /\ Echo!Acknowledges)
    /\ WF_vars(IdlePart /\ Idle!Tick)
    /\ WF_vars(IdlePart /\ Idle!Handler)
    /\ WF_vars(IdlePart /\ Idle!TaskStep)

Spec == Init /\ [][Next]_vars /\ Fairness

-----------------------------------------------------------------------------
(* A source that asserts is serviced, and a quiet machine leaves the       *)
(* handler for good, for dispatch and every example's handler (irq.rs).    *)
InterruptsServed == Irq!InterruptsServed

(* The loss a burst's line states is the burst's, and the adapter's        *)
(* counters on it agree (embassy_net_burst.rs, ethernet.rs).               *)
LossExact == Burst!LossExact
SnapshotAgrees == Burst!SnapshotAgrees

(* A client gets its own bytes back, and one that has gone frees the       *)
(* server (embassy_net_echo.rs, embassy_net_wifi.rs).                      *)
EchoesOwnBytes == Echo!EchoesOwnBytes
ServesAgain == Echo!ServesAgain

(* A transfer that held the core shows in its gap (embassy_i2c.rs).        *)
BlockingShows == I2c!BlockingShows

(* Injected matches spare a deadline that is awaited, and come to their    *)
(* end (embassy_time_idle.rs).                                             *)
NeverPoisoned == Idle!NeverPoisoned
InjectionEnds == Idle!InjectionEnds
=============================================================================
