------------------------------- MODULE WifiWatch -------------------------------
(***************************************************************************)
(* The Wi-Fi runner's watch over the association (src/src/wifi.rs): the    *)
(* pass of the runner's loop, what it tells the stack and the application, *)
(* and the rejoin.  The receive and transmit halves of a pass show here    *)
(* only by whether they moved anything.                                    *)
(*                                                                         *)
(* The firmware is not in the crate.  It loses and regains the association *)
(* on its own, takes a join and lands or abandons it, resets its settings  *)
(* with every association, and may fail any command until it is settled.   *)
(* Of a settled one three things are assumed, none of which the crate can  *)
(* show: it keeps its association and takes every command; it fails every  *)
(* link reading off the network; and a loss nobody has noticed yet is not  *)
(* covered up by receives, be they frames left in its FIFO or errors.      *)
(*                                                                         *)
(* Instants are kept as what is left of a wait (dueIn, deadlineIn,         *)
(* linkDueIn) or as what has passed of one, cut off where the code stops   *)
(* telling them apart (silent, quiet).                                     *)
(***************************************************************************)
EXTENDS Integers, FiniteSetsExt

CONSTANTS
    RX_SILENCE, PROBE_INTERVAL, JOIN_POLL, JOIN_BUDGET, RETRY_INTERVAL,
    LINK_INTERVAL, LINK_QUIET_PASSES,
    MaxDelay,       \* longest time from one pass to the next
    Wrap            \* modulus of DROPS and JOINS: 2^32

ASSUME IntervalAssumption ==
    /\ {RX_SILENCE, PROBE_INTERVAL, JOIN_POLL, JOIN_BUDGET, RETRY_INTERVAL,
        LINK_INTERVAL, LINK_QUIET_PASSES, MaxDelay, Wrap} \subseteq Nat \ {0}

VARIABLES
    reconnect,  \* whether the runner was given a Reconnect
    awake,      \* whether the poll interval is over and a pass is due
    state,      \* Watch::state
    dueIn,      \* time left to Watch::due
    deadlineIn, \* time left to the deadline of Joining
    silent,     \* time since a pass received something: since heard
    quiet,      \* passes that moved nothing
    linkDueIn,  \* time left to the next link sample
    ASSOCIATED, \* what associated() answers
    LINK,       \* whether link() answers Some
    stackLink,  \* what the stack was told
    DROPS, JOINS,
    onNet,      \* the firmware is associated
    pending,    \* the firmware works on a join
    settings,   \* what became of the settings of Reconnect
    settled,    \* the firmware keeps its association and takes every command
    off,        \* time since the association was lost, run() was first
                \* polled or something was received, whichever came last
    sinceJoin   \* time since a join was issued

watchVars == <<state, dueIn, deadlineIn>>
loopVars == <<silent, quiet, linkDueIn>>
toldVars == <<ASSOCIATED, LINK, stackLink, DROPS, JOINS>>
chipVars == <<onNet, pending, settings, settled>>
timeVars == <<off, sinceJoin>>
vars == <<reconnect, awake, watchVars, loopVars, toldVars, chipVars, timeVars>>

NoticeBound == Max({RX_SILENCE, PROBE_INTERVAL}) + MaxDelay
JoinGap == Min({RETRY_INTERVAL, PROBE_INTERVAL})

LongestWait == Max({PROBE_INTERVAL, JOIN_POLL, RETRY_INTERVAL})

Flags == {reconnect, awake, ASSOCIATED, LINK, onNet, pending, settled} \subseteq BOOLEAN

Ranges ==
    /\ state \in {"Unstarted", "Up", "Joining", "Down"}
    /\ dueIn \in 0 .. LongestWait
    /\ deadlineIn \in 0 .. JOIN_BUDGET
    /\ silent \in 0 .. RX_SILENCE
    /\ quiet \in 0 .. LINK_QUIET_PASSES
    /\ linkDueIn \in 0 .. LINK_INTERVAL
    /\ stackLink \in {"Up", "Down"}
    /\ DROPS \in 0 .. Wrap - 1 /\ JOINS \in 0 .. Wrap - 1
    /\ settings \in {"applied", "refused", "reset"}
    /\ off \in 0 .. NoticeBound
    /\ sinceJoin \in 0 .. JoinGap

TypeOK == Flags /\ Ranges

(* run() is handed a joined chip, which may have lost its association      *)
(* since.  reconnecting() may have been called before.                     *)
Init ==
    /\ reconnect \in BOOLEAN
    /\ awake = TRUE
    /\ state = "Unstarted" /\ dueIn = 0 /\ deadlineIn = 0
    /\ silent = 0 /\ quiet = 0 /\ linkDueIn = 0
    /\ ASSOCIATED = FALSE /\ LINK = FALSE /\ stackLink = "Down"
    /\ DROPS = 0 /\ JOINS = 0
    /\ onNet = TRUE /\ pending = FALSE /\ settings = "applied" /\ settled = FALSE
    /\ off = 0 /\ sinceJoin = JoinGap

(* The first poll of run(), however long after the join: the chip is taken *)
(* as up, not asked, and every clock of the loop starts here.              *)
Begin ==
    /\ state = "Unstarted"
    /\ ASSOCIATED' = TRUE
    /\ stackLink' = "Up"
    /\ state' = "Up"
    /\ dueIn' = PROBE_INTERVAL
    /\ silent' = 0 /\ quiet' = 0 /\ linkDueIn' = 0 /\ off' = 0
    /\ UNCHANGED <<reconnect, awake, deadlineIn, LINK, DROPS, JOINS, chipVars, sinceJoin>>

Left(time, d) == Max({0, time - d})
UpTo(limit, time) == Min({limit, time})

-----------------------------------------------------------------------------
(* Timer::after(POLL_INTERVAL), and whatever keeps the executor from       *)
(* coming back at once; or, before the first poll, any time at all.        *)
Elapse(d) ==
    /\ ~awake \/ state = "Unstarted"
    /\ awake' = TRUE
    /\ dueIn' = Left(dueIn, d)
    /\ deadlineIn' = Left(deadlineIn, d)
    /\ silent' = UpTo(RX_SILENCE, silent + d)
    /\ linkDueIn' = Left(linkDueIn, d)
    /\ off' = IF onNet THEN 0 ELSE UpTo(NoticeBound, off + d)
    /\ sinceJoin' = UpTo(JoinGap, sinceJoin + d)
    /\ UNCHANGED <<reconnect, state, quiet, toldVars, chipVars>>

(* The two halves that move frames.  heard follows receives alone.         *)
(* Mutant: any traffic counts as hearing from the network.                 *)
HeardAny(received, sent) == received \/ sent

Heard(received, sent) == received

(* receive() answers true for a frame and for any error, and both can come *)
(* off the network: frames wait in the chip's FIFO, and an error need not  *)
(* be a frame's.                                                           *)
MayReceive == onNet \/ ~settled \/ state # "Up"

MoveFrames(received, sent) ==
    /\ received => MayReceive
    /\ silent' = IF Heard(received, sent) THEN 0 ELSE silent
    /\ quiet' = IF received \/ sent THEN 0 ELSE UpTo(LINK_QUIET_PASSES, quiet + 1)
    /\ off' = IF received THEN 0 ELSE off

(* sample_link: only on an idle radio.  A failed read empties the slot.    *)
(* That it fails off the network is assumed of a settled firmware.         *)
(* Mutant: a failed read leaves the last sample standing.                  *)
ReadingsStanding == IF onNet THEN {TRUE} ELSE {LINK}

Readings == (IF settled THEN {} ELSE {FALSE}) \cup {onNet}

SampleLink(sample) ==
    IF quiet' < LINK_QUIET_PASSES \/ linkDueIn > 0
        THEN sample = LINK /\ UNCHANGED linkDueIn
        ELSE sample \in Readings /\ linkDueIn' = LINK_INTERVAL

(* probe: the chip says it is on a network; a failed command says "no".    *)
ProbeYes == onNet
ProbeNo == ~onNet \/ ~settled

-----------------------------------------------------------------------------
(* join(): nothing to join with, a join taken, or a join refused.  One     *)
(* issued over a live association takes it down.                           *)
WatchOnly ==
    /\ ~reconnect
    /\ state' = "Down"
    /\ dueIn' = PROBE_INTERVAL
    /\ UNCHANGED <<deadlineIn, JOINS, chipVars, sinceJoin>>

Issue == reconnect /\ JOINS' = (JOINS + 1) % Wrap /\ sinceJoin' = 0

(* Mutant: the two waits of a join are swapped.                            *)
JoinTakenSwapped ==
    /\ Issue
    /\ state' = "Joining"
    /\ deadlineIn' = JOIN_POLL
    /\ dueIn' = JOIN_BUDGET
    /\ onNet' = FALSE /\ pending' = TRUE /\ settings' = "reset"
    /\ UNCHANGED settled

JoinTaken ==
    /\ Issue
    /\ state' = "Joining"
    /\ deadlineIn' = JOIN_BUDGET
    /\ dueIn' = JOIN_POLL
    /\ onNet' = FALSE /\ pending' = TRUE /\ settings' = "reset"
    /\ UNCHANGED settled

(* Mutant: a refused join is tried again as soon as a taken one is probed. *)
JoinRefusedSoon ==
    /\ ~settled
    /\ Issue
    /\ state' = "Down"
    /\ dueIn' = JOIN_POLL
    /\ UNCHANGED <<deadlineIn, chipVars>>

JoinRefused ==
    /\ ~settled
    /\ Issue
    /\ state' = "Down"
    /\ dueIn' = RETRY_INTERVAL
    /\ UNCHANGED <<deadlineIn, chipVars>>

Join == WatchOnly \/ JoinTaken \/ JoinRefused

(* associate(): settings first, their refusals ignored, then the report.   *)
(* Mutant: the stack is not told.                                          *)
AssociateSilently ==
    /\ \/ reconnect /\ settings' = "applied"
       \/ reconnect /\ ~settled /\ settings' = "refused"
       \/ ~reconnect /\ UNCHANGED settings
    /\ ASSOCIATED' = TRUE
    /\ state' = "Up"
    /\ dueIn' = PROBE_INTERVAL
    /\ UNCHANGED <<stackLink, deadlineIn, DROPS, JOINS, onNet, pending, settled, sinceJoin>>

Associate ==
    /\ \/ reconnect /\ settings' = "applied"
       \/ reconnect /\ ~settled /\ settings' = "refused"
       \/ ~reconnect /\ UNCHANGED settings
    /\ ASSOCIATED' = TRUE
    /\ stackLink' = "Up"
    /\ state' = "Up"
    /\ dueIn' = PROBE_INTERVAL
    /\ UNCHANGED <<deadlineIn, DROPS, JOINS, onNet, pending, settled, sinceJoin>>

(* Watch::pass, given the link sample this pass has just taken.            *)
NotDue ==
    dueIn > 0 \/ (state = "Up" /\ silent' < RX_SILENCE)

PassIdle(sample) ==
    /\ NotDue
    /\ LINK' = sample
    /\ UNCHANGED <<watchVars, ASSOCIATED, stackLink, DROPS, JOINS, chipVars, sinceJoin>>

StillUp(sample) ==
    /\ ~NotDue /\ state = "Up" /\ ProbeYes
    /\ LINK' = sample
    /\ dueIn' = PROBE_INTERVAL
    /\ UNCHANGED <<state, deadlineIn, ASSOCIATED, stackLink, DROPS, JOINS, chipVars, sinceJoin>>

FoundGone ==
    /\ ~NotDue /\ state = "Up" /\ ProbeNo
    /\ DROPS' = (DROPS + 1) % Wrap
    /\ ASSOCIATED' = FALSE
    /\ LINK' = FALSE
    /\ stackLink' = "Down"
    /\ Join

FoundBack(sample) ==
    /\ ~NotDue /\ state \in {"Joining", "Down"} /\ ProbeYes
    /\ LINK' = sample
    /\ Associate

(* Mutant: a join is never given up.                                       *)
StillJoiningForever(sample) ==
    /\ ~NotDue /\ state = "Joining" /\ ProbeNo
    /\ LINK' = sample
    /\ dueIn' = JOIN_POLL
    /\ UNCHANGED <<state, deadlineIn, ASSOCIATED, stackLink, DROPS, JOINS, chipVars, sinceJoin>>

StillJoining(sample) ==
    /\ ~NotDue /\ state = "Joining" /\ ProbeNo
    /\ LINK' = sample
    /\ IF deadlineIn = 0
         THEN state' = "Down" /\ dueIn' = RETRY_INTERVAL
         ELSE dueIn' = JOIN_POLL /\ UNCHANGED state
    /\ UNCHANGED <<deadlineIn, ASSOCIATED, stackLink, DROPS, JOINS, chipVars, sinceJoin>>

(* Mutant: the chip is not asked before it is told.                        *)
StillDownUnasked(sample) ==
    /\ ~NotDue /\ state = "Down"
    /\ LINK' = sample
    /\ Join
    /\ UNCHANGED <<ASSOCIATED, stackLink, DROPS>>

StillDown(sample) ==
    /\ ~NotDue /\ state = "Down" /\ ProbeNo
    /\ LINK' = sample
    /\ Join
    /\ UNCHANGED <<ASSOCIATED, stackLink, DROPS>>

WatchPass(sample) ==
    \/ PassIdle(sample) \/ StillUp(sample) \/ FoundGone
    \/ FoundBack(sample) \/ StillJoining(sample) \/ StillDown(sample)

Pass ==
    /\ awake
    /\ state # "Unstarted"
    /\ awake' = FALSE
    /\ \E received, sent, sample \in BOOLEAN :
          /\ MoveFrames(received, sent)
          /\ SampleLink(sample)
          /\ WatchPass(sample)
    /\ UNCHANGED reconnect

-----------------------------------------------------------------------------
(* The firmware, between passes.                                           *)
Lose ==
    /\ onNet /\ ~settled
    /\ onNet' = FALSE
    /\ UNCHANGED <<reconnect, awake, watchVars, loopVars, toldVars, pending, settings, settled, timeVars>>

(* Its own roaming, or the join it was given.                              *)
Regain ==
    /\ ~onNet
    /\ ~settled \/ pending
    /\ onNet' = TRUE
    /\ pending' = FALSE
    /\ settings' = "reset"
    /\ off' = 0
    /\ UNCHANGED <<reconnect, awake, watchVars, loopVars, toldVars, settled, sinceJoin>>

AbandonJoin ==
    /\ pending /\ ~settled
    /\ pending' = FALSE
    /\ UNCHANGED <<reconnect, awake, watchVars, loopVars, toldVars, onNet, settings, settled, timeVars>>

Settle ==
    /\ ~settled
    /\ settled' = TRUE
    /\ UNCHANGED <<reconnect, awake, watchVars, loopVars, toldVars, onNet, pending, settings, timeVars>>

Next ==
    \/ \E d \in 1 .. MaxDelay : Elapse(d)
    \/ Begin \/ Pass
    \/ Lose \/ Regain \/ AbandonJoin \/ Settle

(* The runner's task is polled, and a settled firmware lands the join it   *)
(* works on.  Nothing is promised of one that is not settled.              *)
Fairness ==
    /\ WF_vars(\E d \in 1 .. MaxDelay : Elapse(d))
    /\ WF_vars(Begin) /\ WF_vars(Pass)
    /\ WF_vars(settled /\ Regain)

Spec == Init /\ [][Next]_vars
FairSpec == Spec /\ Fairness

-----------------------------------------------------------------------------
(* The stack, the application and the watch never disagree about whether   *)
(* there is a network (wifi.rs 87-89, 503-514, 581-583).                   *)
OneAnswer ==
    /\ ASSOCIATED <=> state = "Up"
    /\ ASSOCIATED <=> stackLink = "Up"

(* A loss is noticed however much the stack goes on sending, and within    *)
(* the longer of RX_SILENCE and PROBE_INTERVAL of the last thing received  *)
(* after it, or of the first poll: the interval runs while the silence     *)
(* does, so that the two of "about fifteen seconds" do not add up (wifi.rs *)
(* 394-415, 480-514, 609-612).  A radio that gives an error on every pass  *)
(* is as good as heard from, and puts the probe off for ever (756-762).    *)
LossNoticed == state = "Up" => off < NoticeBound

(* Joins are paced: two are never closer than the retry interval or, when  *)
(* a regained network is lost again, the probe interval (432-438).  And    *)
(* none takes down the link of a firmware that answers, which may have     *)
(* put it back unasked (528-531).                                          *)
JoinPaced ==
    /\ JOINS' # JOINS => sinceJoin >= JoinGap
    /\ settled /\ onNet => onNet'

JoinsPaced == [][JoinPaced]_vars

(* A runner that can rejoin is back on the network for good once the       *)
(* firmware behaves, from any state its failures left; one without         *)
(* anything to rejoin with still notices a network the firmware puts back  *)
(* by itself (wifi.rs 481-585).                                            *)
Recovers ==
    /\ reconnect /\ settled ~> [](state = "Up" /\ stackLink = "Up" /\ onNet)
    /\ ~reconnect /\ settled /\ onNet ~> stackLink = "Up"

(* A sample of a network that is gone is withdrawn, by the loss or by the  *)
(* next sample: "a signal reading that has quietly stopped updating is     *)
(* worse than none" (wifi.rs 342-344).  It can only stand while a stack    *)
(* that was told of no link goes on sending, which puts the sample off.    *)
LinkWithdrawn ==
    settled /\ LINK /\ ~onNet ~> ~LINK \/ onNet \/ (state = "Down" /\ quiet = 0)

(* "Applied again after each association" (wifi.rs 190-214), by a firmware *)
(* that takes commands: settings that an association reset are sent again. *)
SettingsReapplied ==
    reconnect /\ settled /\ onNet /\ settings = "reset" ~> settings # "reset" \/ ~onNet
=============================================================================
