----------------------------- MODULE EthernetBoard -----------------------------
(***************************************************************************)
(* The four Ethernet images (src/examples/embassy_net_echo.rs,             *)
(* embassy_net_burst.rs, embassy_picoserve.rs, embassy_picoserve_site.rs)  *)
(* from power-on to the Ethernet runner, and the runner from there on.     *)
(*                                                                         *)
(* kmain runs alone, with blocking USB transfers and no interrupt; when it *)
(* has found the chip it arms the interrupts and starts an executor whose  *)
(* tasks include the runner of Ethernet.tla.  Three images walk the bus    *)
(* once, for a LAN9514; echo keeps polling, and takes a LAN7800 as well.   *)
(* The rest of the board (the hub, the bus, when the chip attaches, what a *)
(* transfer answers) is external; `sound' boards are those where nothing   *)
(* that is asked for fails.                                                *)
(***************************************************************************)
EXTENDS Ethernet

CONSTANT HubWait    \* the wait for the hub, 10 s, in polls of 100 ms

ASSUME HubAssumption == HubWait \in Nat \ {0}

VARIABLES
    image,      \* which example was flashed; forgotten once the executor runs
    boot,       \* where kmain, or run, is
    sound,      \* whether everything the image asks for works on this board
    hub,        \* whether the root port reports a device
    hubWaited,  \* waited_ms
    chip,       \* the Ethernet function on the bus, or "none" so far
    offered,    \* whether the bus has reported the chip's attachment
    found,      \* what the image claimed
    usbIrq      \* whether the USB interrupt reaches a handler

kmainVars == <<image, sound, hubWaited, found>>
busVars == <<hub, chip, offered>>
boardVars == <<kmainVars, boot, busVars, usbIrq>>
allVars == <<boardVars, vars>>

Images == {"echo", "burst", "picoserve", "site"}
Chips == {"lan9514", "lan7800"}

(* The steps of kmain and run that ask the bus for something and spin.     *)
Blocking == {"walk", "poll", "link", "duplex", "setduplex"}

BoardTypes ==
    /\ image \in Images \cup {"any"}
    /\ boot \in Blocking \cup {"power", "mac", "hub", "channels", "driver",
                               "irqs", "spawn", "up", "halted"}
    /\ sound \in BOOLEAN /\ hub \in BOOLEAN /\ offered \in BOOLEAN /\ usbIrq \in BOOLEAN
    /\ hubWaited \in 0 .. HubWait
    /\ chip \in Chips \cup {"none"}
    /\ found \in {"none", chip}

BoardTypeOK == TypeOK /\ BoardTypes

BoardInit ==
    /\ Init
    /\ image \in Images
    /\ boot = "power"
    /\ sound \in BOOLEAN
    /\ hub = FALSE /\ hubWaited = 0
    /\ chip = "none" /\ offered = FALSE /\ found = "none"
    /\ usbIrq = FALSE

-----------------------------------------------------------------------------
(* The board: the hub appears, and behind it the chip, sooner or later.    *)
HubAppears ==
    /\ boot \notin {"up", "halted"}
    /\ ~hub
    /\ hub' = TRUE
    /\ UNCHANGED <<kmainVars, boot, chip, offered, usbIrq, vars>>

ChipAttaches ==
    /\ boot \notin {"up", "halted"}
    /\ hub
    /\ chip = "none"
    /\ chip' \in IF image = "echo" THEN Chips ELSE {"lan9514"}
    /\ UNCHANGED <<kmainVars, boot, hub, offered, usbIrq, vars>>

(* A step of kmain whose failure is written to the console and halts.      *)
Try(at, then) ==
    /\ boot = at
    /\ boot' \in IF sound THEN {then} ELSE {then, "halted"}
    /\ UNCHANGED <<kmainVars, busVars, usbIrq, vars>>

PowerOn == Try("power", "mac")

MacAddress == Try("mac", "hub")

(* port_connected, every 100 ms, and a halt after ten seconds.             *)
HubOverdue == hubWaited + 1 >= HubWait

WaitForHub ==
    /\ boot = "hub"
    /\ IF hub
       THEN boot' = "walk" /\ UNCHANGED hubWaited
       ELSE /\ hubWaited' = IF hubWaited < HubWait THEN hubWaited + 1 ELSE hubWaited
            /\ boot' = IF HubOverdue THEN "halted" ELSE "hub"
    /\ UNCHANGED <<image, sound, found, busVars, usbIrq, vars>>

-----------------------------------------------------------------------------
(* Each driver declines a chip that is not its own: the three images ask   *)
(* one driver, echo asks both in turn.  A driver that recognises the chip  *)
(* may still fail to set it up; both loops then go on without it, and the  *)
(* attachment is not reported a second time.                               *)
(* Mutant: the echo image asks one driver too.                             *)
KnownToFirst == {"lan9514"}

Known == IF image = "echo" THEN Chips ELSE {"lan9514"}

Claim ==
    IF chip = "none" \/ offered
    THEN found' = found /\ UNCHANGED offered
    ELSE /\ offered' = TRUE
         /\ IF chip \in Known
            THEN found' \in IF sound THEN {chip} ELSE {chip, found}
            ELSE found' = found

(* usb::enumerate: one walk.  What it finds is run from inside the walk;   *)
(* when the walk ends without it, so does kmain.                           *)
WalkOnce ==
    /\ boot = "walk"
    /\ Claim
    /\ boot' \in {IF found' = "none" THEN "halted" ELSE "channels"}
    /\ UNCHANGED <<image, sound, hubWaited, hub, chip, usbIrq, vars>>

(* Bus::enumerate, then Bus::poll every 250 ms until something is claimed. *)
(* A failed walk halts; a failed poll is only printed.                     *)
WalkBus ==
    /\ boot = "walk"
    /\ \/ /\ Claim
          /\ boot' = IF found' = "none" THEN "poll" ELSE "channels"
       \/ /\ ~sound
          /\ boot' = "halted"
          /\ UNCHANGED <<found, offered>>
    /\ UNCHANGED <<image, sound, hubWaited, hub, chip, usbIrq, vars>>

PollBus ==
    /\ boot = "poll"
    /\ \/ /\ Claim
          /\ boot' = IF found' = "none" THEN "poll" ELSE "channels"
       \/ /\ ~sound
          /\ UNCHANGED <<found, offered, boot>>
    /\ UNCHANGED <<image, sound, hubWaited, hub, chip, usbIrq, vars>>

(* Two host channels, one per direction.                                   *)
AllocChannels == Try("channels", IF image = "site" THEN "link" ELSE "driver")

-----------------------------------------------------------------------------
(* The site image waits for the link before anything else, without bound,  *)
(* and programs the duplex the link settled on.                            *)
WaitForLink ==
    /\ boot = "link"
    /\ boot' \in IF sound THEN {"duplex"} ELSE {"duplex", "halted"}
    /\ UNCHANGED <<kmainVars, busVars, usbIrq, vars>>

ReadDuplex == Try("duplex", "setduplex")

SetDuplex == Try("setduplex", "driver")

(* time_driver::init comes first: it needs no interrupt.                   *)
(* Mutant: the site image arms the interrupts before it waits for its link.*)
InitDriverArmed ==
    /\ boot = "driver"
    /\ boot' = IF image = "site" THEN "link" ELSE "irqs"
    /\ usbIrq' = TRUE
    /\ UNCHANGED <<kmainVars, busVars, vars>>

InitDriver ==
    /\ boot = "driver"
    /\ boot' = "irqs"
    /\ UNCHANGED <<kmainVars, busVars, usbIrq, vars>>

(* enable_usb_irq, enable_irq: "no blocking transfers left here to race    *)
(* the handler" (embassy_net_echo.rs 408-413).                             *)
EnableIrqs ==
    /\ boot = "irqs"
    /\ boot' = "spawn"
    /\ usbIrq' = TRUE
    /\ UNCHANGED <<kmainVars, busVars, vars>>

(* ethernet::new and executor.run.  kmain's locals are not read again.     *)
Run ==
    /\ boot = "spawn"
    /\ boot' = "up"
    /\ image' = "any" /\ sound' = FALSE /\ hubWaited' = 0
    /\ chip' = "none" /\ found' = "none" /\ offered' = FALSE
    /\ UNCHANGED <<hub, usbIrq, vars>>

Bringup == PowerOn \/ MacAddress \/ WaitForHub \/ AllocChannels
Handover == InitDriver \/ EnableIrqs \/ Run

EchoKmain == image = "echo" /\ (Bringup \/ WalkBus \/ PollBus)
EchoRun == image = "echo" /\ Handover

BurstKmain == image = "burst" /\ (Bringup \/ WalkOnce)
BurstRun == image = "burst" /\ Handover

PicoserveKmain == image = "picoserve" /\ (Bringup \/ WalkOnce)
PicoserveRun == image = "picoserve" /\ Handover

SiteKmain == image = "site" /\ (Bringup \/ WalkOnce)
SiteRun == image = "site" /\ (ReadDuplex \/ SetDuplex \/ Handover)

Kmain ==
    \/ EchoKmain \/ BurstKmain \/ PicoserveKmain \/ SiteKmain
    \/ EchoRun \/ BurstRun \/ PicoserveRun \/ SiteRun

WhileUp(A) == boot = "up" /\ A /\ UNCHANGED boardVars

BoardNext == Kmain \/ WaitForLink \/ HubAppears \/ ChipAttaches \/ WhileUp(Next)

(* kmain goes on; the clock runs, transfers end (the controller times them *)
(* out), the task is polled, and the stack takes what it is given whenever *)
(* it can, in the gaps its own sends leave.  No hub, chip, link, arrival   *)
(* or send is promised.                                                    *)
BoardFairness ==
    /\ WF_allVars(Kmain)
    /\ WF_allVars(WhileUp(BringUp)) /\ WF_allVars(WhileUp(Clock))
    /\ WF_allVars(WhileUp(ReceiveCompletes)) /\ WF_allVars(WhileUp(Deliver))
    /\ SF_allVars(WhileUp(StackTake))
    /\ WF_allVars(WhileUp(SendStep))

BoardSpec == BoardInit /\ [][BoardNext]_allVars /\ BoardFairness

-----------------------------------------------------------------------------
(* The bus is never asked by spinning once the interrupt handler would     *)
(* race it for the channel's status, and never awaited before the handler  *)
(* could complete it (embassy_net_echo.rs 352-358 and 408-413).            *)
OneCompleter ==
    [][ /\ boot \in Blocking => ~usbIrq
        /\ upVars' # upVars \/ fetched' # fetched \/ sending' # sending => usbIrq ]_allVars

(* Every boot ends: with the runner carrying frames or parked, with a      *)
(* message and a halt, or in one of the two waits the images do not bound, *)
(* for a chip (echo) and for a link (site).  A chip that attaches late, of *)
(* either kind, ends the first of them: where its set-up works, the        *)
(* attachment the poll loop sees is not dropped (embassy_net_echo.rs       *)
(* 202-222, 225-257 and 306-342, embassy_picoserve_site.rs 364-374,        *)
(* ethernet.rs 345-357).                                                   *)
BoardSettles ==
    <>[]\/ boot = "up" /\ phase \in {"running", "parked"}
        \/ boot \in {"halted", "link"}
        \/ boot = "poll" /\ found = "none" /\ (sound => chip = "none")
=============================================================================
