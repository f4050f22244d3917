------------------------------ MODULE IrqDispatch ------------------------------
(***************************************************************************)
(* The interrupt handler of an image: dispatch() (src/src/irq.rs), or the  *)
(* one an example writes for itself (src/examples/).  One entry of the     *)
(* CPU's vector has to service every source the image's kmain routes to    *)
(* the CPU.  The sources are levels: one that is left asserting re-enters  *)
(* the handler as soon as it returns, and the foreground never runs again. *)
(*                                                                         *)
(* What a service routine does to its device is modelled by what a handler *)
(* relies on: afterwards the source no longer asserts.  The crate is taken *)
(* with its async feature; without it dispatch has the timer alone.        *)
(***************************************************************************)
EXTENDS Naturals, Sequences

VARIABLES
    image,      \* whose handler and gates
    asserting,  \* the sources whose level is up
    pc,         \* the branch of the handler to take next, 0 in the foreground
    quiet       \* whether the devices have stopped raising interrupts

vars == <<image, asserting, pc, quiet>>

(* The armed sources: GPIO raises one per bank of pins.                    *)
Gpio == {"gpio0", "gpio28", "gpio46"}

Sources == {"timer1", "usb", "i2c", "uart", "emmc"} \cup Gpio

(* is_gpio_pending answers for one bank, so each is asked about.           *)
BanksAsked == Gpio

(* The independent ifs of each handler, in their order, each with the      *)
(* sources it asks for.                                                    *)
Dispatch == <<{"timer1"}, {"usb"}, BanksAsked, {"i2c"}, {"uart"}, {"emmc"}>>

Ethernet == <<{"timer1"}, {"usb"}>>     \* echo, burst, picoserve, site

Wifi == <<{"timer1"}>>                  \* and the multicore example

Console == <<{"timer1"}, {"uart"}>>     \* uart_echo, time_idle

Bus == <<{"timer1"}, {"i2c"}, {"uart"}>>

Button == <<{"timer1"}, {"gpio0"}>>

Handlers ==
    [dispatch |-> Dispatch, ethernet |-> Ethernet, wifi |-> Wifi,
     console |-> Console, bus |-> Bus, button |-> Button]

Branches == Handlers[image]

(* The gates kmain and run open: enable_..._irq, beside the timer's own.   *)
Gates ==
    [dispatch |-> Sources, ethernet |-> {"timer1", "usb"}, wifi |-> {"timer1"},
     console |-> {"timer1", "uart"}, bus |-> {"timer1", "i2c", "uart"},
     button |-> {"timer1", "gpio0"}]

End == Len(Branches) + 1

TypeOK ==
    /\ image \in DOMAIN Handlers
    /\ asserting \subseteq Gates[image]
    /\ pc \in 0 .. End
    /\ quiet \in BOOLEAN

Init == image \in DOMAIN Handlers /\ asserting = {} /\ pc = 0 /\ quiet = FALSE

(* A device raises its interrupt, at any point of the handler too.         *)
Raise(s) ==
    /\ ~quiet /\ s \in Gates[image]
    /\ asserting' = asserting \cup {s}
    /\ UNCHANGED <<image, pc, quiet>>

Quieten ==
    /\ quiet' = TRUE
    /\ UNCHANGED <<image, asserting, pc>>

TakeIrq ==
    /\ pc = 0
    /\ asserting # {}
    /\ pc' = 1
    /\ UNCHANGED <<image, asserting, quiet>>

(* An owner's on_irq services all of its sources, whichever was asked for. *)
Owned(b) == IF Branches[b] \cap Gpio # {} THEN Gpio ELSE Branches[b]

Pending(b) == asserting \cap Branches[b] # {}

(* The next if is reached whether or not this one was taken.               *)
(* Mutant: the branches are chained with else.                             *)
AfterChain(b) == End

AfterService(b) == b + 1

Service ==
    /\ pc \in DOMAIN Branches
    /\ Pending(pc)
    /\ asserting' = asserting \ Owned(pc)
    /\ pc' = AfterService(pc)
    /\ UNCHANGED <<image, quiet>>

Skip ==
    /\ pc \in DOMAIN Branches
    /\ ~Pending(pc)
    /\ pc' = pc + 1
    /\ UNCHANGED <<image, asserting, quiet>>

Return ==
    /\ pc = End
    /\ pc' = 0
    /\ UNCHANGED <<image, asserting, quiet>>

Handler == TakeIrq \/ Service \/ Skip \/ Return

Next == Handler \/ Quieten \/ \E s \in Sources : Raise(s)

-----------------------------------------------------------------------------
(* Every source that asserts is serviced, even while others never stop     *)
(* asserting: "each source is checked, not chained" (irq.rs 80-87, and the *)
(* handlers of the examples).  Once the devices are quiet the CPU leaves   *)
(* the handler for good: no gate an image opens is without a branch, the   *)
(* livelock of irq.rs 9-19.                                                *)
InterruptsServed ==
    /\ \A s \in Sources : s \in asserting ~> s \notin asserting
    /\ quiet ~> [](pc = 0 /\ asserting = {})
=============================================================================
