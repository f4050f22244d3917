---------------------------- MODULE PacketInterface ----------------------------
(***************************************************************************)
(* What the stack is promised by a network interface, whatever chip and    *)
(* transfers are behind it (src/src/ethernet.rs, the queues of its         *)
(* documentation): once it is up, frames come in order and each at most    *)
(* once, wait to be taken for as long as the stack likes, and each frame   *)
(* queued is done with exactly once, in order.  Before it is up nothing    *)
(* moves but the stack's own queueing.                                     *)
(***************************************************************************)
EXTENDS Naturals, SequencesExt

CONSTANT Depth      \* frames the stack may have queued

VARIABLES
    up,         \* whether the interface carries frames
    newest,     \* number of the last frame that came in
    inbox,      \* frames that came in and are not taken
    taken,      \* frames the stack took
    outbox,     \* frames queued and not done with
    done        \* how many were done with

vars == <<up, newest, inbox, taken, outbox, done>>

Init ==
    /\ up = FALSE /\ newest = 0 /\ inbox = <<>> /\ taken = <<>>
    /\ outbox = <<>> /\ done = 0

ComeUp ==
    /\ ~up /\ up' = TRUE
    /\ UNCHANGED <<newest, inbox, taken, outbox, done>>

(* One transfer brings any number of newer frames.                         *)
ComeIn ==
    /\ up
    /\ IsStrictPrefix(inbox, inbox')
    /\ LET came == SubSeq(inbox', Len(inbox) + 1, Len(inbox'))
       IN  /\ \A i \in 1 .. Len(came) :
                  came[i] > (IF i = 1 THEN newest ELSE came[i - 1])
           /\ newest' = Last(came)
    /\ UNCHANGED <<up, taken, outbox, done>>

Take ==
    /\ inbox # <<>>
    /\ taken' = Append(taken, Head(inbox))
    /\ inbox' = Tail(inbox)
    /\ UNCHANGED <<up, newest, outbox, done>>

Enqueue ==
    /\ Len(outbox) < Depth
    /\ outbox' = Append(outbox, done + Len(outbox) + 1)
    /\ UNCHANGED <<up, newest, inbox, taken, done>>

FinishOne ==
    /\ up
    /\ outbox # <<>>
    /\ outbox' = Tail(outbox)
    /\ done' = done + 1
    /\ UNCHANGED <<up, newest, inbox, taken>>

Next == ComeUp \/ ComeIn \/ Take \/ Enqueue \/ FinishOne

Spec == Init /\ [][Next]_vars
=============================================================================
