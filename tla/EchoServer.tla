------------------------------- MODULE EchoServer -------------------------------
(***************************************************************************)
(* echo_task of src/examples/embassy_net_echo.rs and embassy_net_wifi.rs:  *)
(* one TCP connection at a time, over buffers that outlive it.             *)
(*                                                                         *)
(* A byte is named by its connection and its place in what that client     *)
(* sends.  External: the client, which sends, closes or resets, and the    *)
(* network, which drains the transmit buffer as the client acknowledges.   *)
(***************************************************************************)
EXTENDS Naturals, SequencesExt

CONSTANTS
    MaxClients, MaxBytes,   \* bounds: connections, and bytes each sends
    Buf, RxBuffer, TxBuffer \* sizes of buf and of the socket's buffers

VARIABLES
    pc,         \* what echo_task awaits: "accept", "read" or "write"
    client,     \* number of the connection
    peer,       \* what the client's end is: "open", "closed", "reset", "none"
    sent,       \* how many bytes the client sent
    rx,         \* the socket's receive buffer
    buf, n,     \* echo_task's buffer, and how much of it the last read filled
    tx,         \* bytes in the socket's transmit buffer
    echoed      \* the bytes sent to this client

clientVars == <<client, peer, sent>>
vars == <<pc, clientVars, rx, buf, n, tx, echoed>>

Bytes == [of : 1 .. MaxClients, at : 1 .. MaxBytes]
Blank == [of |-> 0, at |-> 0]

TypeOK ==
    /\ pc \in {"accept", "read", "write"}
    /\ client \in 0 .. MaxClients /\ sent \in 0 .. MaxBytes
    /\ peer \in {"open", "closed", "reset", "none"}
    /\ rx \in Seq(Bytes) /\ Len(rx) <= RxBuffer
    /\ buf \in [1 .. Buf -> Bytes \cup {Blank}]
    /\ n \in 0 .. Buf /\ tx \in 0 .. TxBuffer
    /\ echoed \in Seq(Bytes)

Init ==
    /\ pc = "accept" /\ client = 0 /\ peer = "none" /\ sent = 0
    /\ rx = <<>> /\ buf = [i \in 1 .. Buf |-> Blank] /\ n = 0 /\ tx = 0
    /\ echoed = <<>>

-----------------------------------------------------------------------------
(* The client.                                                             *)
Sends ==
    /\ peer = "open" /\ sent < MaxBytes /\ Len(rx) < RxBuffer
    /\ sent' = sent + 1
    /\ rx' = Append(rx, [of |-> client, at |-> sent'])
    /\ UNCHANGED <<pc, client, peer, buf, n, tx, echoed>>

Leaves(how) ==
    /\ peer = "open"
    /\ peer' = how
    /\ UNCHANGED <<pc, client, sent, rx, buf, n, tx, echoed>>

Acknowledges ==
    /\ tx > 0
    /\ tx' = tx - 1
    /\ UNCHANGED <<pc, clientVars, rx, buf, n, echoed>>

-----------------------------------------------------------------------------
(* A fresh socket over the same buffers takes a client.                    *)
Accept ==
    /\ pc = "accept" /\ client < MaxClients
    /\ pc' = "read"
    /\ client' = client + 1 /\ peer' = "open" /\ sent' = 0
    /\ rx' = <<>> /\ tx' = 0 /\ echoed' = <<>>
    /\ UNCHANGED <<buf, n>>

Ready == IF Len(rx) < Buf THEN Len(rx) ELSE Buf

Read ==
    /\ pc = "read" /\ rx # <<>> /\ peer # "reset"
    /\ n' = Ready
    /\ buf' = [i \in 1 .. Buf |-> IF i <= Ready THEN rx[i] ELSE buf[i]]
    /\ rx' = SubSeq(rx, Ready + 1, Len(rx))
    /\ pc' = "write"
    /\ UNCHANGED <<clientVars, tx, echoed>>

(* abort(): the socket is discarded, not closed.                           *)
Abort ==
    /\ pc' = "accept" /\ peer' = "none"
    /\ UNCHANGED <<client, sent, rx, buf, n, tx, echoed>>

(* A read of no bytes is the peer closing.  Mutant: only an error ends it. *)
ErrorOnly == peer = "reset"

Ended == peer = "reset" \/ (peer = "closed" /\ rx = <<>>)

ReadEnds == pc = "read" /\ Ended /\ Abort

(* write() takes what there is room for, and its answer is not looked at.  *)
(* Mutant: buf is written whole.                                           *)
WholeBuffer == buf

Filled == SubSeq(buf, 1, n)

Write ==
    /\ pc = "write" /\ tx < TxBuffer /\ peer # "reset"
    /\ LET room == TxBuffer - tx
           taken == SubSeq(Filled, 1, IF Len(Filled) < room THEN Len(Filled) ELSE room)
       IN  /\ echoed' = echoed \o taken
           /\ tx' = tx + Len(taken)
    /\ pc' = "read"
    /\ UNCHANGED <<clientVars, rx, buf, n>>

WriteFails == pc = "write" /\ peer = "reset" /\ Abort

ServerStep == Accept \/ Read \/ ReadEnds \/ Write \/ WriteFails

Next ==
    \/ ServerStep
    \/ Sends \/ Acknowledges
    \/ \E how \in {"closed", "reset"} : Leaves(how)

-----------------------------------------------------------------------------
(* What a client gets back is its own bytes, in order and none twice, and  *)
(* never what an earlier client or an earlier read left in the buffer      *)
(* (embassy_net_echo.rs 133-142).  A short write may leave some out.       *)
EchoesOwnBytes ==
    /\ \A i \in 1 .. Len(echoed) : echoed[i].of = client
    /\ \A i, j \in 1 .. Len(echoed) : i < j => echoed[i].at < echoed[j].at

(* A client that has closed or reset its end gives the only socket back,   *)
(* whatever was unread or unacknowledged then (embassy_net_echo.rs         *)
(* 134-149).                                                               *)
ServesAgain == peer \in {"closed", "reset"} ~> pc = "accept"
=============================================================================
