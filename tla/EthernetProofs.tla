----------------------------- MODULE EthernetProofs -----------------------------
(***************************************************************************)
(* The Ethernet runner loses, repeats and reorders nothing that a transfer *)
(* carried or the stack queued, for any depth of the queues, any size of a *)
(* transfer and any number of frames; it implements the interface the      *)
(* stack was promised; and both hold of the whole image, from power-on.    *)
(***************************************************************************)
EXTENDS EthernetBoard, Integers, SequenceTheorems, TLAPS

(* The elements of s are larger the later they come.                       *)
Increasing(s) == \A i, j \in 1 .. Len(s) : i < j => s[i] < s[j]

-----------------------------------------------------------------------------
(* Handing the head of t to the back of s leaves what is in both, in order *)
(* (the loop at ethernet.rs 413-436).                                      *)
LEMMA HandHead ==
    ASSUME NEW S, NEW s \in Seq(S), NEW t \in Seq(S), t # <<>>
    PROVE  Append(s, Head(t)) \o Tail(t) = s \o t
<1> DEFINE l == Append(s, Head(t)) \o Tail(t)
           r == s \o t
<1>1. /\ Head(t) \in S /\ Tail(t) \in Seq(S)
      /\ Len(t) \in Nat \ {0} /\ Len(Tail(t)) = Len(t) - 1
      /\ \A i \in 1 .. Len(Tail(t)) : Tail(t)[i] = t[i + 1]
  BY HeadTailProperties, EmptySeq
<1>2. Head(t) = t[1]
  BY <1>1
<1>3. Append(s, Head(t)) \in Seq(S) /\ Len(Append(s, Head(t))) = Len(s) + 1
  BY <1>1, AppendProperties
<1>4. l \in Seq(S) /\ r \in Seq(S) /\ Len(l) = Len(s) + Len(t) /\ Len(r) = Len(l)
  BY <1>1, <1>3, ConcatProperties
<1>5. ASSUME NEW i \in 1 .. Len(l) PROVE l[i] = r[i]
  <2>1. r[i] = IF i <= Len(s) THEN s[i] ELSE t[i - Len(s)]
    BY <1>4, <1>5, ConcatProperties
  <2>2. l[i] = IF i <= Len(s) + 1 THEN Append(s, Head(t))[i] ELSE Tail(t)[i - (Len(s) + 1)]
    BY <1>1, <1>3, <1>4, <1>5, ConcatProperties
  <2>3. CASE i <= Len(s)
    BY <1>1, <2>1, <2>2, <2>3, AppendProperties
  <2>4. CASE i = Len(s) + 1
    BY <1>1, <1>2, <2>1, <2>2, <2>4, AppendProperties
  <2>5. CASE i > Len(s) + 1
    BY <1>1, <1>4, <2>1, <2>2, <2>5
  <2> QED
    BY <2>3, <2>4, <2>5
<1> QED
  BY <1>4, <1>5, SeqEqual

(* The head of two queues in a row is that of the first (ethernet.rs       *)
(* 413-436: what the stack takes is not of the batch).                     *)
LEMMA ConcatHead ==
    ASSUME NEW S, NEW s \in Seq(S), NEW t \in Seq(S), s # <<>>
    PROVE  /\ s \o t # <<>> /\ Head(s \o t) = Head(s)
           /\ Tail(s \o t) = Tail(s) \o t
OBVIOUS

(* A transfer of n frames takes the first n of a FIFO and leaves the rest  *)
(* (receive_frames_async as ethernet.rs 407-426 sees it).                  *)
LEMMA TakeFront ==
    ASSUME NEW S, NEW s \in Seq(S), NEW n \in 1 .. Len(s)
    PROVE  /\ SubSeq(s, 1, n) \in Seq(S) /\ SubSeq(s, n + 1, Len(s)) \in Seq(S)
           /\ Len(SubSeq(s, 1, n)) = n /\ Len(SubSeq(s, n + 1, Len(s))) = Len(s) - n
           /\ \A i \in 1 .. n : SubSeq(s, 1, n)[i] = s[i]
           /\ \A i \in 1 .. Len(s) - n : SubSeq(s, n + 1, Len(s))[i] = s[n + i]
           /\ SubSeq(s, 1, n) # <<>>
<1>1. /\ SubSeq(s, 1, n) \in Seq(S) /\ Len(SubSeq(s, 1, n)) = n
      /\ \A i \in 1 .. n : SubSeq(s, 1, n)[i] = s[i]
  <2>1. \A i \in 1 .. n : s[i] \in S
    BY ElementOfSeq, LenProperties
  <2>2. n - 1 + 1 = n /\ 1 <= n /\ n \in Int
    BY LenProperties
  <2>3. /\ SubSeq(s, 1, n) \in Seq(S) /\ Len(SubSeq(s, 1, n)) = n
        /\ \A i \in 1 .. n : SubSeq(s, 1, n)[i] = s[1 + i - 1]
    BY <2>1, <2>2, SubSeqProperties
  <2>4. \A i \in 1 .. n : 1 + i - 1 = i
    BY <2>2
  <2> QED
    BY <2>3, <2>4
<1>2. /\ SubSeq(s, n + 1, Len(s)) \in Seq(S)
      /\ Len(SubSeq(s, n + 1, Len(s))) = Len(s) - n
      /\ \A i \in 1 .. Len(s) - n : SubSeq(s, n + 1, Len(s))[i] = s[n + i]
  <2>1. \A i \in n + 1 .. Len(s) : s[i] \in S
    BY ElementOfSeq, LenProperties
  <2>2. Len(s) - (n + 1) + 1 = Len(s) - n /\ n + 1 \in Int /\ Len(s) \in Int
    BY LenProperties
  <2>3. /\ SubSeq(s, n + 1, Len(s)) \in Seq(S)
        /\ Len(SubSeq(s, n + 1, Len(s))) = (IF n + 1 <= Len(s) THEN Len(s) - n ELSE 0)
        /\ \A i \in 1 .. Len(s) - n : SubSeq(s, n + 1, Len(s))[i] = s[n + 1 + i - 1]
    BY <2>1, <2>2, SubSeqProperties
  <2>4. \A i \in 1 .. Len(s) - n : n + 1 + i - 1 = n + i
    BY <2>2
  <2>5. Len(SubSeq(s, n + 1, Len(s))) = Len(s) - n
    <3>1. n \in Int /\ Len(s) \in Int /\ n <= Len(s)
      BY LenProperties
    <3>2. (IF n + 1 <= Len(s) THEN Len(s) - n ELSE 0) = Len(s) - n
      BY <3>1
    <3> QED
      BY <2>3, <3>2
  <2> QED
    BY <2>3, <2>4, <2>5
<1> QED
  BY <1>1, <1>2, EmptySeq

(* What is left of growing numbers still grows.                            *)
LEMMA IncreasingRest ==
    ASSUME NEW S \in SUBSET Int, NEW s \in Seq(S), NEW n \in 1 .. Len(s), Increasing(s)
    PROVE  Increasing(SubSeq(s, n + 1, Len(s)))
<1>1. Len(s) \in Nat /\ n \in Nat
  BY LenProperties
<1> QED
  BY <1>1, TakeFront DEF Increasing

(* A number larger than all goes to the back.                              *)
LEMMA IncreasingAppend ==
    ASSUME NEW S \in SUBSET Int, NEW s \in Seq(S), NEW e \in S, Increasing(s),
           \A i \in 1 .. Len(s) : s[i] < e
    PROVE  Increasing(Append(s, e))
<1>1. Len(s) \in Nat
  BY LenProperties
<1> QED
  BY <1>1, AppendProperties DEF Increasing

-----------------------------------------------------------------------------
(* The frame the stack will be given last of those a transfer carried.     *)
Newest == IF fetched = <<>> THEN 0 ELSE Last(fetched)

(* What the chip holds is newer than what any transfer carried.            *)
FifoNewer ==
    /\ Increasing(fifo)
    /\ \A i \in 1 .. Len(fifo) : Newest < fifo[i]

(* The queue holds the frames that come next after those done with, and    *)
(* those on the wire are among the latter.                                 *)
QueueNumbered ==
    /\ tx.frames + Len(txq) = queued
    /\ \A i \in 1 .. Len(txq) : txq[i] = tx.frames + i
    /\ \A i \in 1 .. Len(wire) : wire[i] <= tx.frames
    /\ tx.frames = Len(wire) + tx.failures
    /\ Increasing(wire)
    /\ sending => txq # <<>>

(* The loops run exactly while the link is reported; before, and when      *)
(* parked, no transfer was ever made.                                      *)
LoopsWhenUp ==
    /\ link = "Up" <=> phase = "running"
    /\ told = IF phase \in {"running", "parked"} THEN 1 ELSE 0
    /\ startError <=> failed # {}
    /\ phase = "parked" <=> "start" \in failed
    /\ phase # "running" => fetched = <<>> /\ wire = <<>> /\ tx.frames = 0 /\ ~sending

RxInv == RxTypes /\ ReceiveLossless /\ FifoNewer
TxInv == TxTypes /\ QueueNumbered
IInv == UpTypes /\ RxInv /\ TxInv /\ LoopsWhenUp

-----------------------------------------------------------------------------
(* Nothing has moved at power-on (ethernet.rs 276-313).                    *)
LEMMA InitIInv == Init => IInv
<1> SUFFICES ASSUME Init PROVE IInv
  OBVIOUS
<1> USE SizeAssumption
<1>1. UpTypes
  <2>1. startError \in BOOLEAN
    BY Zenon DEF Init
  <2> QED
    BY <2>1 DEF Init, UpTypes
<1>2. RxTypes
  BY DEF Init, RxTypes
<1>3. ReceiveLossless
  BY DEF Init, ReceiveLossless
<1>4. FifoNewer
  BY DEF Init, FifoNewer, Increasing
<1>5. TxTypes
  <2>1. sending \in BOOLEAN
    BY Zenon DEF Init
  <2>2. tx \in [{"frames", "failures"} -> Nat]
    BY DEF Init
  <2> QED
    BY <2>1, <2>2 DEF Init, TxTypes
<1>6. QueueNumbered
  BY DEF Init, QueueNumbered, Increasing
<1>7. LoopsWhenUp
  BY DEF Init, LoopsWhenUp
<1> QED
  BY <1>1, <1>2, <1>3, <1>4, <1>5, <1>6, <1>7 DEF IInv, RxInv, TxInv

-----------------------------------------------------------------------------
(* A frame that reaches the chip is its newest, or is dropped there.       *)
LEMMA ArriveRx == RxInv /\ Arrive => RxInv'
<1> SUFFICES ASSUME RxInv, Arrive PROVE RxInv'
  OBVIOUS
<1> USE SizeAssumption DEF RxInv
<1>1. arrived \in Nat /\ arrived' = arrived + 1 /\ arrived' \in 0 .. MaxIn
  BY DEF Arrive, RxTypes
<1>2. Frames(arrived) \subseteq Frames(arrived') /\ arrived' \in Frames(arrived')
  BY <1>1 DEF Frames
<1>3. {fifo, fetched, batch, rxq, received} \subseteq Seq(Frames(arrived'))
  <2>1. ASSUME NEW q \in Seq(Frames(arrived)) PROVE q \in Seq(Frames(arrived'))
    BY <1>2, SeqMonotonic
  <2> QED
    BY <2>1 DEF RxTypes
<1>4. /\ Append(fifo, arrived') \in Seq(Frames(arrived'))
      /\ Len(Append(fifo, arrived')) = Len(fifo) + 1
      /\ \A i \in 1 .. Len(fifo) : Append(fifo, arrived')[i] = fifo[i]
      /\ Append(fifo, arrived')[Len(fifo) + 1] = arrived'
  BY <1>2, <1>3, AppendProperties
<1>5. \A i \in 1 .. Len(fifo) : fifo[i] < arrived'
  <2>1. \A i \in 1 .. Len(fifo) : fifo[i] \in Frames(arrived)
    BY ElementOfSeq DEF RxTypes
  <2> QED
    BY <1>1, <2>1 DEF Frames
<1>6. RxTypes'
  <2>1. Len(fifo) \in Nat
    BY LenProperties DEF RxTypes
  <2>2. fifo' \in Seq(Frames(arrived')) /\ Len(fifo') <= Fifo
    <3>1. CASE Len(fifo) < Fifo
      <4>1. fifo' = Append(fifo, arrived')
        BY <3>1 DEF Arrive
      <4>2. Len(fifo) + 1 <= Fifo
        BY <2>1, <3>1
      <4> QED
        BY <1>4, <4>1, <4>2
    <3>2. CASE ~(Len(fifo) < Fifo)
      BY <1>3, <3>2 DEF Arrive, RxTypes
    <3> QED
      BY <3>1, <3>2
  <2>3. {fetched, batch, rxq, received}' \subseteq Seq(Frames(arrived'))
    BY <1>3 DEF Arrive
  <2> QED
    BY <1>1, <2>2, <2>3 DEF Arrive, RxTypes
<1>7. ReceiveLossless'
  BY DEF Arrive, ReceiveLossless
<1>8. Newest' = Newest /\ Newest \in 0 .. arrived
  <2>1. ASSUME fetched # <<>> PROVE Last(fetched) \in 1 .. arrived
    <3>1. fetched \in Seq(Frames(arrived)) /\ Len(fetched) \in Nat \ {0}
      BY <2>1, EmptySeq DEF RxTypes
    <3>2. fetched[Len(fetched)] \in Frames(arrived)
      BY <3>1, ElementOfSeq
    <3> QED
      BY <2>1, <3>2 DEF Last, Frames
  <2> QED
    BY <1>1, <2>1 DEF Arrive, Newest
<1>9. FifoNewer'
  <2>1. Len(fifo) \in Nat
    BY LenProperties DEF RxTypes
  <2>2. Increasing(Append(fifo, arrived'))
    <3>1. Frames(arrived') \in SUBSET Int
      BY <1>1 DEF Frames
    <3> QED
      BY <1>2, <1>3, <1>5, <3>1, IncreasingAppend DEF FifoNewer
  <2>3. \A i \in 1 .. Len(Append(fifo, arrived')) : Newest < Append(fifo, arrived')[i]
    BY <1>1, <1>4, <1>8, <2>1 DEF FifoNewer
  <2> QED
    BY <1>8, <2>2, <2>3 DEF Arrive, FifoNewer
<1> QED
  BY <1>6, <1>7, <1>9

(* The front of the chip's FIFO leaves it, for a transfer or to be lost:   *)
(* what stays is newer than what went (ethernet.rs 407-412, 445-452).      *)
LEMMA FrontLeaves ==
    ASSUME RxTypes, FifoNewer, NEW n \in Carries
    PROVE  /\ SubSeq(fifo, n + 1, Len(fifo)) \in Seq(Frames(arrived))
           /\ Len(SubSeq(fifo, n + 1, Len(fifo))) \in 0 .. Fifo
           /\ Increasing(SubSeq(fifo, n + 1, Len(fifo)))
           /\ \A i \in 1 .. Len(SubSeq(fifo, n + 1, Len(fifo))) :
                 /\ Newest < SubSeq(fifo, n + 1, Len(fifo))[i]
                 /\ fifo[n] < SubSeq(fifo, n + 1, Len(fifo))[i]
<1> USE SizeAssumption
<1>1. n \in 1 .. Len(fifo) /\ Len(fifo) \in Nat /\ fifo \in Seq(Frames(arrived))
  <2>1. fifo \in Seq(Frames(arrived))
    BY DEF RxTypes
  <2>2. Len(fifo) \in Nat
    BY <2>1, LenProperties
  <2> QED
    BY <2>1, <2>2 DEF Carries
<1>2. /\ SubSeq(fifo, n + 1, Len(fifo)) \in Seq(Frames(arrived))
      /\ Len(SubSeq(fifo, n + 1, Len(fifo))) = Len(fifo) - n
      /\ \A i \in 1 .. Len(fifo) - n : SubSeq(fifo, n + 1, Len(fifo))[i] = fifo[n + i]
  BY <1>1, TakeFront
<1>3. Increasing(SubSeq(fifo, n + 1, Len(fifo)))
  <2>1. Frames(arrived) \in SUBSET Int
    BY DEF RxTypes, Frames
  <2> QED
    BY <1>1, <2>1, IncreasingRest DEF FifoNewer
<1>4. ASSUME NEW i \in 1 .. Len(fifo) - n
      PROVE  Newest < fifo[n + i] /\ fifo[n] < fifo[n + i]
  BY <1>1 DEF FifoNewer, Increasing
<1>5. Len(fifo) - n \in 0 .. Fifo
  BY <1>1 DEF RxTypes
<1> QED
  BY <1>2, <1>3, <1>4, <1>5

(* A transfer that completes appends what it carried to what was fetched,  *)
(* and leaves newer frames in the chip (ethernet.rs 407-412).              *)
LEMMA ReceiveFramesRx ==
    ASSUME RxInv, NEW n \in Carries, ReceiveFrames(n)
    PROVE  RxInv' /\ Newest' = fifo[n] /\ batch' # <<>>
<1>0. RxTypes /\ ReceiveLossless /\ FifoNewer
  BY DEF RxInv
<1>1. /\ batch = <<>> /\ batch' = SubSeq(fifo, 1, n) /\ size' = n
      /\ fetched' = fetched \o SubSeq(fifo, 1, n)
      /\ fifo' = SubSeq(fifo, n + 1, Len(fifo))
      /\ UNCHANGED <<arrived, rxq, received, rxFrames>>
  BY DEF ReceiveFrames, Receiving
<1>2. /\ {fifo, fetched, rxq, received} \subseteq Seq(Frames(arrived))
      /\ n \in 1 .. Len(fifo) /\ n \in 1 .. MaxBatch
  <2>1. Len(fifo) \in Nat
    BY <1>0, LenProperties DEF RxTypes
  <2> QED
    BY <1>0, <2>1, SizeAssumption DEF RxTypes, Carries
<1>3. /\ SubSeq(fifo, 1, n) \in Seq(Frames(arrived)) /\ SubSeq(fifo, 1, n) # <<>>
      /\ Len(SubSeq(fifo, 1, n)) = n
      /\ \A i \in 1 .. n : SubSeq(fifo, 1, n)[i] = fifo[i]
  <2>1. fifo \in Seq(Frames(arrived)) /\ n \in 1 .. Len(fifo)
    BY <1>2
  <2> QED
    BY <2>1, TakeFront
<1>4. /\ fetched' \in Seq(Frames(arrived)) /\ Len(fetched') = Len(fetched) + n
      /\ \A i \in 1 .. Len(fetched) + n :
            fetched'[i] = IF i <= Len(fetched) THEN fetched[i]
                          ELSE SubSeq(fifo, 1, n)[i - Len(fetched)]
  BY <1>1, <1>2, <1>3, ConcatProperties
<1>5. /\ fifo' \in Seq(Frames(arrived)) /\ Len(fifo') <= Fifo
      /\ Increasing(fifo') /\ \A i \in 1 .. Len(fifo') : fifo[n] < fifo'[i]
  <2>1. /\ fifo' \in Seq(Frames(arrived)) /\ Increasing(fifo')
        /\ \A i \in 1 .. Len(fifo') : fifo[n] < fifo'[i]
    BY <1>0, <1>1, FrontLeaves
  <2>2. Len(fifo') \in 0 .. Fifo
    BY <1>0, <1>1, FrontLeaves
  <2> QED
    BY <2>1, <2>2
<1>6. RxTypes'
  <2>1. {fifo, fetched, batch, rxq, received}' \subseteq Seq(Frames(arrived))
    BY <1>1, <1>2, <1>3, <1>4, <1>5
  <2>2. Len(batch') <= size' /\ size' \in 0 .. MaxBatch
    <3>1. Len(batch') = n /\ size' = n
      BY <1>1, <1>3
    <3>2. n \in 0 .. MaxBatch
      BY <1>2, SizeAssumption
    <3> QED
      BY <3>1, <3>2
  <2> QED
    BY <1>0, <1>1, <1>5, <2>1, <2>2 DEF RxTypes
<1>7. ReceiveLossless'
  <2>1. fetched = received \o rxq
    BY <1>0, <1>1, <1>2, ConcatProperties, ConcatEmptySeq DEF ReceiveLossless
  <2>2. rxFrames = Len(fetched)
    BY <1>0, <1>1, <1>2, LenProperties DEF ReceiveLossless
  <2>3. rxFrames' = Len(fetched') - size'
    BY <1>1, <1>2, <1>4, <2>2, LenProperties
  <2> QED
    BY <1>0, <1>1, <1>3, <2>1, <2>3 DEF ReceiveLossless
<1>8. Newest' = fifo[n]
  <2>1. Len(fetched) \in Nat /\ n \in Nat \ {0}
    BY <1>2, LenProperties
  <2>2. fetched' # <<>>
    BY <1>4, <2>1, EmptySeq
  <2>3. fetched'[Len(fetched')] = fifo[n]
    <3>1. /\ Len(fetched') \in 1 .. Len(fetched) + n /\ ~(Len(fetched') <= Len(fetched))
          /\ Len(fetched') - Len(fetched) = n
      BY <1>4, <2>1
    <3>2. fetched'[Len(fetched')] = SubSeq(fifo, 1, n)[n]
      BY <1>4, <3>1
    <3> QED
      BY <1>3, <2>1, <3>2
  <2> QED
    BY <2>2, <2>3 DEF Newest, Last
<1>9. FifoNewer'
  BY <1>0, <1>5, <1>8 DEF FifoNewer
<1> QED
  BY <1>1, <1>3, <1>6, <1>7, <1>8, <1>9 DEF RxInv

(* A transfer that fails loses what it carried before it was fetched       *)
(* (ethernet.rs 445-452).                                                  *)
LEMMA ReceiveFailsRx ==
    ASSUME RxInv, NEW n \in Carries, ReceiveFails(n)
    PROVE  RxInv'
<1>0. RxTypes /\ ReceiveLossless /\ FifoNewer
  BY DEF RxInv
<1>1. /\ fifo' = SubSeq(fifo, n + 1, Len(fifo))
      /\ UNCHANGED <<arrived, fetched, batch, size, rxq, received, rxFrames>>
  BY DEF ReceiveFails
<1>2. /\ fifo' \in Seq(Frames(arrived)) /\ Len(fifo') <= Fifo
      /\ Increasing(fifo') /\ \A i \in 1 .. Len(fifo') : Newest < fifo'[i]
  BY <1>0, <1>1, FrontLeaves
<1>3. RxTypes'
  BY <1>0, <1>1, <1>2 DEF RxTypes
<1>4. ReceiveLossless' /\ Newest' = Newest
  BY <1>0, <1>1 DEF ReceiveLossless, Newest
<1>5. FifoNewer'
  BY <1>0, <1>2, <1>4 DEF FifoNewer
<1> QED
  BY <1>3, <1>4, <1>5 DEF RxInv

(* Each frame of a batch goes to the back of the queue, and the batch is   *)
(* counted with its last (ethernet.rs 413-444).                            *)
LEMMA DeliverRx == RxInv /\ Deliver => RxInv' /\ rxq' \o batch' = rxq \o batch
<1> SUFFICES ASSUME RxInv, Deliver PROVE RxInv' /\ rxq' \o batch' = rxq \o batch
  OBVIOUS
<1>0. RxTypes /\ ReceiveLossless /\ FifoNewer
  BY DEF RxInv
<1>1. /\ batch # <<>> /\ Len(rxq) < N_RX
      /\ rxq' = Append(rxq, Head(batch)) /\ batch' = Tail(batch)
      /\ rxFrames' = IF batch' = <<>> THEN rxFrames + size ELSE rxFrames
      /\ UNCHANGED <<fifo, arrived, fetched, size, received>>
  BY DEF Deliver, RxBufFree
<1>2. /\ {batch, rxq, received} \subseteq Seq(Frames(arrived))
      /\ Len(batch) \in Nat \ {0} /\ Len(rxq) \in Nat
  BY <1>0, <1>1, EmptySeq, LenProperties DEF RxTypes
<1>3. /\ Head(batch) \in Frames(arrived) /\ batch' \in Seq(Frames(arrived))
      /\ Len(batch') = Len(batch) - 1
  BY <1>1, <1>2, HeadTailProperties
<1>4. rxq' \in Seq(Frames(arrived)) /\ Len(rxq') = Len(rxq) + 1
  BY <1>1, <1>2, <1>3, AppendProperties
<1>5. RxTypes'
  <2>1. Len(rxq') <= N_RX /\ Len(batch') <= size'
    <3>1. N_RX \in Nat /\ size \in Nat /\ Len(batch) <= size
      BY <1>0, SizeAssumption DEF RxTypes
    <3>2. Len(rxq') <= N_RX
      <4>1. Len(rxq) < N_RX /\ Len(rxq') = Len(rxq) + 1 /\ Len(rxq) \in Nat
        BY <1>1, <1>2, <1>4
      <4> QED
        BY <3>1, <4>1
    <3>3. Len(batch') <= size'
      <4>1. size' = size /\ Len(batch') = Len(batch) - 1 /\ Len(batch) \in Nat
        BY <1>1, <1>2, <1>3
      <4> QED
        BY <3>1, <4>1
    <3> QED
      BY <3>2, <3>3
  <2>2. rxFrames' \in Nat
    BY <1>0, <1>1 DEF RxTypes
  <2> QED
    BY <1>0, <1>1, <1>3, <1>4, <2>1, <2>2 DEF RxTypes
<1>6. rxq' \o batch' = rxq \o batch /\ received \o rxq' \o batch' = received \o rxq \o batch
  <2>1. /\ {batch, rxq, received, batch', rxq'} \subseteq Seq(Frames(arrived))
        /\ batch # <<>>
    BY <1>1, <1>2, <1>3, <1>4
  <2>2. Append(rxq, Head(batch)) \o Tail(batch) = rxq \o batch
    BY <2>1, HandHead
  <2>3. rxq' \o batch' = rxq \o batch
    BY <1>1, <2>2
  <2>4. (received \o rxq') \o batch' = received \o (rxq' \o batch')
    <3>1. /\ received \in Seq(Frames(arrived)) /\ rxq' \in Seq(Frames(arrived))
          /\ batch' \in Seq(Frames(arrived))
      BY <2>1
    <3> QED
      BY <3>1
  <2>5. (received \o rxq) \o batch = received \o (rxq \o batch)
    <3>1. /\ received \in Seq(Frames(arrived)) /\ rxq \in Seq(Frames(arrived))
          /\ batch \in Seq(Frames(arrived))
      BY <2>1
    <3> QED
      BY <3>1
  <2> QED
    BY <2>3, <2>4, <2>5
<1>7. ReceiveLossless'
  <2>1. fetched' = received' \o rxq' \o batch'
    BY <1>0, <1>1, <1>6 DEF ReceiveLossless
  <2>2. rxFrames' = Len(fetched') - (IF batch' = <<>> THEN 0 ELSE size')
    <3>1. rxFrames = Len(fetched) - size /\ size \in Int /\ Len(fetched) \in Int
      BY <1>0, <1>1, LenProperties DEF ReceiveLossless, RxTypes
    <3> QED
      BY <1>1, <3>1
  <2> QED
    BY <1>0, <2>1, <2>2 DEF ReceiveLossless
<1>8. FifoNewer'
  BY <1>0, <1>1 DEF FifoNewer, Newest
<1> QED
  BY <1>5, <1>6, <1>7, <1>8 DEF RxInv

(* The stack takes the head of the queue.                                  *)
LEMMA StackTakeRx == RxInv /\ StackTake => RxInv'
<1> SUFFICES ASSUME RxInv, StackTake PROVE RxInv'
  OBVIOUS
<1>0. RxTypes /\ ReceiveLossless /\ FifoNewer
  BY DEF RxInv
<1>1. /\ rxq # <<>> /\ received' = Append(received, Head(rxq)) /\ rxq' = Tail(rxq)
      /\ UNCHANGED <<fifo, arrived, fetched, batch, size, rxFrames>>
  BY DEF StackTake
<1>2. {batch, rxq, received} \subseteq Seq(Frames(arrived)) /\ Len(rxq) \in Nat \ {0}
  BY <1>0, <1>1, EmptySeq DEF RxTypes
<1>3. /\ Head(rxq) \in Frames(arrived) /\ rxq' \in Seq(Frames(arrived))
      /\ Len(rxq') = Len(rxq) - 1
  BY <1>1, <1>2, HeadTailProperties
<1>4. received' \in Seq(Frames(arrived))
  BY <1>1, <1>2, <1>3, AppendProperties
<1>5. RxTypes'
  BY <1>0, <1>1, <1>2, <1>3, <1>4, SizeAssumption DEF RxTypes
<1>6. received' \o rxq' = received \o rxq
  BY <1>1, <1>2, HandHead
<1>7. ReceiveLossless'
  BY <1>0, <1>1, <1>6 DEF ReceiveLossless
<1>8. FifoNewer'
  BY <1>0, <1>1 DEF FifoNewer, Newest
<1> QED
  BY <1>5, <1>7, <1>8 DEF RxInv

-----------------------------------------------------------------------------
(* The stack's next frame joins the back of the queue (ethernet.rs         *)
(* 580-584, the buffer tx_buf answers with).                               *)
LEMMA StackSendTx == TxInv /\ StackSend => TxInv'
<1> SUFFICES ASSUME TxInv, StackSend PROVE TxInv'
  OBVIOUS
<1>0. TxTypes /\ QueueNumbered
  BY DEF TxInv
<1>1. /\ queued' = queued + 1 /\ queued' <= MaxOut /\ queued \in Nat
      /\ Len(txq) < N_TX /\ txq' = Append(txq, queued')
      /\ UNCHANGED <<sending, wire, tx>>
  BY <1>0, SizeAssumption DEF StackSend, TxTypes
<1>2. Frames(queued) \subseteq Frames(queued') /\ queued' \in Frames(queued')
  BY <1>1 DEF Frames
<1>3. txq \in Seq(Frames(queued')) /\ wire \in Seq(Frames(queued'))
  <2>1. ASSUME NEW q \in Seq(Frames(queued)) PROVE q \in Seq(Frames(queued'))
    BY <1>2, SeqMonotonic
  <2> QED
    BY <1>0, <2>1 DEF TxTypes
<1>4. /\ Append(txq, queued') \in Seq(Frames(queued'))
      /\ Append(txq, queued') # <<>>
      /\ Len(Append(txq, queued')) = Len(txq) + 1
      /\ \A i \in 1 .. Len(txq) : Append(txq, queued')[i] = txq[i]
      /\ Append(txq, queued')[Len(txq) + 1] = queued'
  BY <1>2, <1>3, AppendProperties
<1>5. Len(txq) \in Nat /\ tx.frames \in Nat
  BY <1>0, LenProperties DEF TxTypes
<1>6. TxTypes'
  <2>1. queued' \in 0 .. MaxOut
    BY <1>1, SizeAssumption
  <2>2. txq' \in Seq(Frames(queued')) /\ Len(txq') <= N_TX
    BY <1>1, <1>4, <1>5, SizeAssumption
  <2> QED
    BY <1>0, <1>1, <1>3, <2>1, <2>2 DEF TxTypes
<1>7. QueueNumbered'
  <2>1. tx.frames + Len(txq') = queued'
    <3>1. tx.frames + Len(txq) = queued /\ Len(txq') = Len(txq) + 1
      BY <1>0, <1>1, <1>4 DEF QueueNumbered
    <3> QED
      BY <1>1, <1>5, <3>1
  <2>2. ASSUME NEW i \in 1 .. Len(txq') PROVE txq'[i] = tx.frames + i
    <3>1. Len(txq') = Len(txq) + 1
      BY <1>1, <1>4
    <3>2. CASE i \in 1 .. Len(txq)
      BY <1>0, <1>1, <1>4, <3>2 DEF QueueNumbered
    <3>3. CASE i = Len(txq) + 1
      BY <1>1, <1>4, <2>1, <3>1, <3>3
    <3> QED
      BY <1>5, <3>1, <3>2, <3>3
  <2>3. txq' # <<>>
    BY <1>1, <1>4
  <2> QED
    BY <1>0, <1>1, <2>1, <2>2, <2>3 DEF QueueNumbered
<1> QED
  BY <1>6, <1>7 DEF TxInv

(* The head is lent to the transfer and stays queued (580-584).            *)
LEMMA TransmitTx == TxInv /\ Transmit => TxInv'
<1> SUFFICES ASSUME TxInv, Transmit PROVE TxInv'
  OBVIOUS
<1>1. txq # <<>> /\ sending' = TRUE /\ UNCHANGED <<txq, queued, wire, tx>>
  BY DEF Transmit
<1>2. sending' \in BOOLEAN
  BY <1>1, Zenon
<1>3. TxTypes'
  BY <1>1, <1>2 DEF TxInv, TxTypes
<1>4. QueueNumbered'
  BY <1>1 DEF TxInv, QueueNumbered
<1> QED
  BY <1>3, <1>4 DEF TxInv

(* The head leaves the queue, for the wire or as a failure (594-605).      *)
LEMMA SendCompletesTx ==
    ASSUME TxInv, NEW ok \in BOOLEAN, SendCompletes(ok)
    PROVE  TxInv'
<1>0. TxTypes /\ QueueNumbered
  BY DEF TxInv
<1>1. /\ txq' = Tail(txq) /\ txq # <<>> /\ sending' = FALSE /\ queued' = queued
      /\ wire' = IF ok THEN Append(wire, Head(txq)) ELSE wire
      /\ tx'.frames = tx.frames + 1
      /\ tx'.failures = IF ok THEN tx.failures ELSE tx.failures + 1
      /\ tx' \in [{"frames", "failures"} -> Nat]
  <2>1. /\ txq' = Tail(txq) /\ txq # <<>> /\ sending' = FALSE /\ queued' = queued
        /\ wire' = IF ok THEN Append(wire, Head(txq)) ELSE wire
    BY <1>0 DEF SendCompletes, Released, QueueNumbered
  <2>2. /\ tx \in [{"frames", "failures"} -> Nat]
        /\ tx' = [tx EXCEPT !.frames = tx.frames + 1,
                           !.failures = IF ok THEN tx.failures ELSE tx.failures + 1]
    BY <1>0 DEF SendCompletes, TxTypes
  <2>3. /\ tx'.frames = tx.frames + 1
        /\ tx'.failures = IF ok THEN tx.failures ELSE tx.failures + 1
    BY <2>2
  <2>4. tx' \in [{"frames", "failures"} -> Nat]
    <3>1. /\ tx.frames + 1 \in Nat
          /\ (IF ok THEN tx.failures ELSE tx.failures + 1) \in Nat
      BY <2>2
    <3> QED
      BY <2>2, <3>1
  <2> QED
    BY <2>1, <2>3, <2>4
<1>2. /\ txq \in Seq(Frames(queued)) /\ wire \in Seq(Frames(queued))
      /\ Len(txq) \in Nat \ {0} /\ Len(wire) \in Nat
      /\ tx.frames \in Nat /\ tx.failures \in Nat
  BY <1>0, <1>1, EmptySeq, LenProperties DEF TxTypes
<1>3. /\ Head(txq) \in Frames(queued) /\ Tail(txq) \in Seq(Frames(queued))
      /\ Len(Tail(txq)) = Len(txq) - 1
      /\ \A i \in 1 .. Len(Tail(txq)) : Tail(txq)[i] = txq[i + 1]
  BY <1>1, <1>2, HeadTailProperties
<1>4. Head(txq) = tx.frames + 1
  <2>1. Head(txq) = txq[1]
    BY <1>1, <1>2
  <2>2. txq[1] = tx.frames + 1
    BY <1>0, <1>2 DEF QueueNumbered
  <2> QED
    BY <2>1, <2>2
<1>5. /\ Append(wire, Head(txq)) \in Seq(Frames(queued))
      /\ Len(Append(wire, Head(txq))) = Len(wire) + 1
      /\ \A i \in 1 .. Len(wire) : Append(wire, Head(txq))[i] = wire[i]
      /\ Append(wire, Head(txq))[Len(wire) + 1] = Head(txq)
  BY <1>2, <1>3, AppendProperties
<1>6. TxTypes'
  <2>1. sending' \in BOOLEAN
    BY <1>1, Zenon
  <2>2. txq' \in Seq(Frames(queued)) /\ wire' \in Seq(Frames(queued))
    BY <1>1, <1>2, <1>3, <1>5
  <2>3. Len(txq') <= N_TX
    BY <1>0, <1>1, <1>2, <1>3, SizeAssumption DEF TxTypes
  <2> QED
    BY <1>0, <1>1, <2>1, <2>2, <2>3 DEF TxTypes
<1>7. tx'.frames + Len(txq') = queued'
  BY <1>0, <1>1, <1>2, <1>3 DEF QueueNumbered
<1>8. ASSUME NEW i \in 1 .. Len(txq') PROVE txq'[i] = tx'.frames + i
  <2>1. txq'[i] = txq[i + 1] /\ i + 1 \in 1 .. Len(txq)
    BY <1>1, <1>2, <1>3
  <2>2. txq[i + 1] = tx.frames + (i + 1)
    BY <1>0, <2>1 DEF QueueNumbered
  <2>3. tx'.frames + i = tx.frames + (i + 1)
    <3>1. i \in Nat
      BY <1>1, <1>2, <1>3
    <3>2. tx'.frames = tx.frames + 1 /\ tx.frames \in Nat
      BY <1>1, <1>2
    <3> QED
      BY <3>1, <3>2
  <2> QED
    BY <2>1, <2>2, <2>3
<1>9. /\ \A i \in 1 .. Len(wire) : wire[i] <= tx.frames /\ wire[i] < Head(txq)
      /\ \A i \in 1 .. Len(wire) : wire[i] \in Nat
  <2>1. \A i \in 1 .. Len(wire) : wire[i] \in Nat
    <3>1. \A i \in 1 .. Len(wire) : wire[i] \in Frames(queued)
      BY <1>2, ElementOfSeq
    <3> QED
      BY <3>1, <1>0 DEF Frames, TxTypes
  <2> QED
    BY <1>0, <1>2, <1>4, <2>1 DEF QueueNumbered
<1>10. CASE ok
  <2>1. \A i \in 1 .. Len(wire') : wire'[i] <= tx'.frames
    BY <1>1, <1>2, <1>4, <1>5, <1>9, <1>10
  <2>2. Increasing(wire')
    <3>1. Frames(queued) \in SUBSET Int /\ Increasing(wire)
      BY <1>0 DEF Frames, TxTypes, QueueNumbered
    <3>2. Increasing(Append(wire, Head(txq)))
      BY <1>2, <1>3, <1>9, <3>1, IncreasingAppend
    <3> QED
      BY <1>1, <1>10, <3>2
  <2>3. tx'.frames = Len(wire') + tx'.failures
    <3>1. Len(wire') = Len(wire) + 1 /\ tx.frames = Len(wire) + tx.failures
      BY <1>0, <1>1, <1>5, <1>10 DEF QueueNumbered
    <3> QED
      BY <1>1, <1>2, <1>10, <3>1
  <2> QED
    BY <1>1, <1>6, <1>7, <1>8, <2>1, <2>2, <2>3 DEF TxInv, QueueNumbered
<1>11. CASE ~ok
  <2>1. \A i \in 1 .. Len(wire') : wire'[i] <= tx'.frames
    BY <1>1, <1>2, <1>9, <1>11
  <2>2. Increasing(wire')
    BY <1>0, <1>1, <1>11 DEF QueueNumbered
  <2>3. tx'.frames = Len(wire') + tx'.failures
    BY <1>0, <1>1, <1>2, <1>11 DEF QueueNumbered
  <2> QED
    BY <1>1, <1>6, <1>7, <1>8, <2>1, <2>2, <2>3 DEF TxInv, QueueNumbered
<1> QED
  BY <1>10, <1>11

-----------------------------------------------------------------------------
(* A step of the runner, the chip or the stack keeps the invariant         *)
(* (ethernet.rs 276-605).                                                  *)
LEMMA NextIInv == IInv /\ [Next]_vars => IInv'
<1> SUFFICES ASSUME IInv, [Next]_vars PROVE IInv'
  OBVIOUS
<1>0. UpTypes /\ RxInv /\ TxInv /\ LoopsWhenUp
  BY DEF IInv
<1>1. ASSUME UNCHANGED rxVars PROVE RxInv'
  BY <1>0, <1>1 DEF rxVars, RxInv, RxTypes, ReceiveLossless, FifoNewer, Newest
<1>2. ASSUME UNCHANGED txVars PROVE TxInv'
  BY <1>0, <1>2 DEF txVars, TxInv, TxTypes, QueueNumbered
<1>3. ASSUME UNCHANGED upVars PROVE UpTypes'
  BY <1>0, <1>3 DEF upVars, UpTypes
<1>4. CASE Start
  <2>1. UpTypes'
    <3>1. startError' \in BOOLEAN
      BY <1>0, <1>4, Zenon DEF Start, UpTypes
    <3>2. /\ phase' \in {"multicast", "linkwait", "parked"}
          /\ link' \in {"Down", link} /\ waited' = waited
          /\ failed' \in {failed, failed \cup {"start"}} /\ told' \in {told, told + 1}
      BY <1>4 DEF Start
    <3> QED
      BY <1>0, <3>1, <3>2 DEF UpTypes
  <2>2. LoopsWhenUp'
    BY <1>0, <1>4 DEF Start, LoopsWhenUp, rxVars, txVars
  <2> QED
    BY <1>1, <1>2, <1>4, <2>1, <2>2 DEF Start, IInv
<1>5. CASE SetMulticast
  <2>1. UpTypes'
    <3>1. startError' \in BOOLEAN
      BY <1>0, <1>5, Zenon DEF SetMulticast, UpTypes
    <3> QED
      BY <1>0, <1>5, <3>1 DEF SetMulticast, UpTypes
  <2>2. LoopsWhenUp'
    BY <1>0, <1>5 DEF SetMulticast, LoopsWhenUp, rxVars, txVars
  <2> QED
    BY <1>1, <1>2, <1>5, <2>1, <2>2 DEF SetMulticast, IInv
<1>6. CASE ReportUp
  <2>1. UpTypes' /\ LoopsWhenUp'
    BY <1>0, <1>6 DEF ReportUp, UpTypes, LoopsWhenUp
  <2> QED
    BY <1>1, <1>2, <1>6, <2>1 DEF ReportUp, IInv
<1>7. CASE Clock
  <2>1. UpTypes'
    BY <1>0, <1>7, SizeAssumption DEF Clock, UpTypes
  <2>2. LoopsWhenUp'
    BY <1>0, <1>7 DEF Clock, LoopsWhenUp, rxVars, txVars
  <2> QED
    BY <1>1, <1>2, <1>7, <2>1, <2>2 DEF Clock, IInv
<1>8. CASE Arrive
  <2>1. RxInv' /\ UNCHANGED <<upVars, txVars, fetched>>
    BY <1>0, <1>8, ArriveRx DEF Arrive
  <2> QED
    BY <1>0, <1>2, <1>3, <2>1 DEF LoopsWhenUp, upVars, txVars, IInv
<1>9. ASSUME NEW n \in Carries, ReceiveFrames(n) PROVE IInv'
  <2>1. RxInv' /\ UNCHANGED <<upVars, txVars>> /\ phase = "running"
    BY <1>0, <1>9, ReceiveFramesRx DEF ReceiveFrames, Receiving
  <2> QED
    BY <1>0, <1>2, <1>3, <2>1 DEF LoopsWhenUp, upVars, txVars, IInv
<1>10. ASSUME NEW n \in Carries, ReceiveFails(n) PROVE IInv'
  <2>1. RxInv' /\ UNCHANGED <<upVars, txVars>> /\ phase = "running"
    BY <1>0, <1>10, ReceiveFailsRx DEF ReceiveFails, Receiving
  <2> QED
    BY <1>0, <1>2, <1>3, <2>1 DEF LoopsWhenUp, upVars, txVars, IInv
<1>11. CASE Deliver
  <2>1. RxInv' /\ UNCHANGED <<upVars, txVars, fetched>>
    BY <1>0, <1>11, DeliverRx DEF Deliver
  <2> QED
    BY <1>0, <1>2, <1>3, <2>1 DEF LoopsWhenUp, upVars, txVars, IInv
<1>12. CASE StackTake
  <2>1. RxInv' /\ UNCHANGED <<upVars, txVars, fetched>>
    BY <1>0, <1>12, StackTakeRx DEF StackTake
  <2> QED
    BY <1>0, <1>2, <1>3, <2>1 DEF LoopsWhenUp, upVars, txVars, IInv
<1>13. CASE StackSend
  <2>1. TxInv' /\ UNCHANGED <<upVars, rxVars, wire, tx, sending>>
    BY <1>0, <1>13, StackSendTx DEF StackSend
  <2> QED
    BY <1>0, <1>1, <1>3, <2>1 DEF LoopsWhenUp, upVars, rxVars, IInv
<1>14. CASE Transmit
  <2>1. TxInv' /\ UNCHANGED <<upVars, rxVars>> /\ phase = "running"
    BY <1>0, <1>14, TransmitTx DEF Transmit
  <2> QED
    BY <1>0, <1>1, <1>3, <2>1 DEF LoopsWhenUp, upVars, rxVars, IInv
<1>15. ASSUME NEW ok \in BOOLEAN, SendCompletes(ok) PROVE IInv'
  <2>1. TxInv' /\ UNCHANGED <<upVars, rxVars>> /\ phase = "running"
    BY <1>0, <1>15, SendCompletesTx DEF SendCompletes, LoopsWhenUp
  <2> QED
    BY <1>0, <1>1, <1>3, <2>1 DEF LoopsWhenUp, upVars, rxVars, IInv
<1>16. CASE UNCHANGED vars
  <2>1. UNCHANGED <<upVars, rxVars, txVars>>
    BY <1>16 DEF vars
  <2> QED
    BY <1>0, <1>1, <1>2, <1>3, <2>1 DEF LoopsWhenUp, upVars, rxVars, txVars, IInv
<1> QED
  BY <1>4, <1>5, <1>6, <1>7, <1>8, <1>9, <1>10, <1>11, <1>12, <1>13, <1>14, <1>15, <1>16
     DEF Next, BringUp, LinkAnswers, LinkGivesUp, ReceiveCompletes, SendStep

LEMMA IInvHolds == Spec => []IInv
<1> QED
  BY InitIInv, NextIInv, PTL DEF Spec

-----------------------------------------------------------------------------
(* What a transfer carried reaches the stack whole, once and in order, for *)
(* any depth of the receive queue and any size of a transfer, and the      *)
(* frames of each are counted (ethernet.rs 407-452).                       *)
THEOREM NothingReceivedIsLost == Spec => []ReceiveLossless
<1>1. IInv => ReceiveLossless
  BY DEF IInv, RxInv
<1> QED
  BY IInvHolds, <1>1, PTL

(* Each frame the stack queued is on the wire once and in order, counted   *)
(* as refused, or still queued (ethernet.rs 580-605).                      *)
THEOREM EverySendIsAccounted == Spec => []SendAccounted
<1>1. IInv => SendAccounted
  <2> SUFFICES ASSUME TxTypes, QueueNumbered PROVE SendAccounted
    BY DEF IInv, TxInv
  <2>1. /\ Len(wire) \in Nat /\ Len(txq) \in Nat
        /\ tx.frames \in Nat /\ tx.failures \in Nat
    BY LenProperties DEF TxTypes
  <2> QED
    BY <2>1 DEF QueueNumbered, Increasing, SendAccounted
<1> QED
  BY IInvHolds, <1>1, PTL

(* A link is reported exactly while the loops run, and once; an error is   *)
(* shown exactly if a step failed; and an interface that is parked carried *)
(* nothing (ethernet.rs 305-373, 714-726).                                 *)
THEOREM DeadInterfacesSaySo == Spec => []DeadInterfaceSaysSo
<1>1. IInv => DeadInterfaceSaysSo
  BY DEF IInv, LoopsWhenUp, DeadInterfaceSaysSo
<1> QED
  BY IInvHolds, <1>1, PTL

-----------------------------------------------------------------------------
(* A runner that has not started is an interface that is not up.           *)
LEMMA InitInterface == Init => Interface!Init
<1> SUFFICES ASSUME Init PROVE Interface!Init
  OBVIOUS
<1>1. rxq \o batch = <<>>
  <2>1. rxq = <<>> /\ batch = <<>>
    BY DEF Init
  <2> QED
    BY <2>1
<1> QED
  BY <1>1 DEF Init, Interface!Init

(* Steps that leave the queues and the loops alone are none of the         *)
(* interface's.                                                            *)
LEMMA InterfaceStutters ==
    ASSUME (phase = "running")' = (phase = "running"), fetched' = fetched,
           rxq' \o batch' = rxq \o batch, received' = received,
           txq' = txq, tx'.frames = tx.frames
    PROVE  UNCHANGED Interface!vars
BY DEF Interface!vars

(* A transfer is newer frames coming in behind those that wait (ethernet.rs*)
(* 407-412).                                                               *)
LEMMA ReceiveComesIn ==
    ASSUME RxInv, NEW n \in Carries, ReceiveFrames(n)
    PROVE  Interface!ComeIn
<1> DEFINE came == SubSeq(fifo, 1, n)
<1>1. /\ phase = "running" /\ batch = <<>> /\ batch' = came
      /\ UNCHANGED <<phase, rxq, received, txq, tx>>
  BY DEF ReceiveFrames, Receiving, upVars, txVars
<1>2. rxq \in Seq(Frames(arrived)) /\ fifo \in Seq(Frames(arrived))
  BY DEF RxInv, RxTypes
<1>3. n \in 1 .. Len(fifo) /\ Len(fifo) \in Nat /\ Len(rxq) \in Nat
  BY <1>2, LenProperties, SizeAssumption DEF Carries
<1>4. /\ came \in Seq(Frames(arrived)) /\ Len(came) = n /\ came # <<>>
      /\ \A i \in 1 .. n : came[i] = fifo[i]
  BY <1>2, <1>3, TakeFront
<1>5. Newest' = fifo[n] /\ Newest' = came[n]
  BY <1>3, <1>4, ReceiveFramesRx
<1> HIDE DEF came
<1>6. rxq \o batch = rxq /\ rxq' \o batch' = rxq \o came
  BY <1>1, <1>2, ConcatEmptySeq
<1>7. Interface!IsStrictPrefix(rxq, rxq \o came)
  <2>1. Len(rxq \o came) = Len(rxq) + n
    BY <1>2, <1>4, ConcatProperties
  <2>2. SubSeq(rxq \o came, 1, Len(rxq)) = SubSeq(rxq, 1, Len(rxq))
    BY <1>2, <1>3, <1>4
  <2>3. rxq # rxq \o came
    BY <1>3, <2>1
  <2> QED
    BY <1>3, <2>1, <2>2, <2>3 DEF Interface!IsStrictPrefix, Interface!IsPrefix
<1>8. SubSeq(rxq \o came, Len(rxq) + 1, Len(rxq \o came)) = came
  BY <1>2, <1>3, <1>4
<1>9. \A i \in 1 .. Len(came) : came[i] > (IF i = 1 THEN Newest ELSE came[i - 1])
  <2> SUFFICES ASSUME NEW i \in 1 .. n
               PROVE  came[i] > (IF i = 1 THEN Newest ELSE came[i - 1])
    BY <1>4
  <2>1. i \in 1 .. Len(fifo)
    BY <1>3
  <2>2. Newest < fifo[i] /\ (i # 1 => fifo[i - 1] < fifo[i])
    BY <1>3, <2>1 DEF RxInv, FifoNewer, Increasing
  <2>3. came[i] = fifo[i] /\ (i # 1 => came[i - 1] = fifo[i - 1])
    BY <1>3, <1>4
  <2> QED
    BY <2>2, <2>3
<1>10. Newest' = Interface!Last(came)
  BY <1>4, <1>5 DEF Interface!Last
<1>11. Interface!IsStrictPrefix(rxq \o batch, rxq' \o batch')
  BY <1>6, <1>7
<1>12. SubSeq(rxq' \o batch', Len(rxq \o batch) + 1, Len(rxq' \o batch')) = came
  BY <1>6, <1>8
<1> QED
  BY <1>1, <1>9, <1>10, <1>11, <1>12 DEF Interface!ComeIn, Newest

(* Every step of the runner is one of the interface's, or none.            *)
LEMMA StepInterface == IInv /\ [Next]_vars => [Interface!Next]_Interface!vars
<1> SUFFICES ASSUME IInv, [Next]_vars PROVE [Interface!Next]_Interface!vars
  OBVIOUS
<1>0. RxInv /\ TxInv /\ LoopsWhenUp
  BY DEF IInv
<1>1. CASE Start \/ SetMulticast \/ Clock
  <2>1. /\ (phase = "running")' = (phase = "running")
        /\ UNCHANGED <<rxVars, txVars>>
    BY <1>1 DEF Start, SetMulticast, Clock
  <2> QED
    BY <2>1, InterfaceStutters DEF rxVars, txVars
<1>2. CASE ReportUp
  <2>1. Interface!ComeUp
    BY <1>2 DEF ReportUp, Interface!ComeUp, rxVars, txVars
  <2> QED
    BY <2>1 DEF Interface!Next
<1>3. CASE Arrive
  <2> QED
    BY <1>3, InterfaceStutters DEF Arrive, upVars, txVars
<1>4. ASSUME NEW n \in Carries, ReceiveFrames(n)
      PROVE  Interface!Next
  BY <1>0, <1>4, ReceiveComesIn DEF Interface!Next
<1>5. ASSUME NEW n \in Carries, ReceiveFails(n)
      PROVE  UNCHANGED Interface!vars
  BY <1>5, InterfaceStutters DEF ReceiveFails, upVars, txVars
<1>6. CASE Deliver
  <2>1. rxq' \o batch' = rxq \o batch
    BY <1>0, <1>6, DeliverRx
  <2> QED
    BY <1>6, <2>1, InterfaceStutters DEF Deliver, upVars, txVars
<1>7. CASE StackTake
  <2>1. /\ rxq # <<>> /\ received' = Append(received, Head(rxq)) /\ rxq' = Tail(rxq)
        /\ UNCHANGED <<upVars, fetched, batch, txVars>>
    BY <1>7 DEF StackTake
  <2>2. rxq \in Seq(Frames(arrived)) /\ batch \in Seq(Frames(arrived))
    BY <1>0 DEF RxInv, RxTypes
  <2>3. rxq \o batch # <<>> /\ Head(rxq \o batch) = Head(rxq) /\ Tail(rxq \o batch) = Tail(rxq) \o batch
    BY <2>1, <2>2, ConcatHead
  <2>4. Interface!Take
    BY <2>1, <2>3 DEF Interface!Take, upVars, txVars
  <2> QED
    BY <2>4 DEF Interface!Next
<1>8. CASE StackSend
  <2>1. /\ Len(txq) < N_TX /\ txq' = Append(txq, queued + 1)
        /\ UNCHANGED <<upVars, rxVars, tx>>
    BY <1>8 DEF StackSend
  <2>2. queued = tx.frames + Len(txq)
    BY <1>0 DEF TxInv, QueueNumbered
  <2>3. Interface!Enqueue
    BY <2>1, <2>2 DEF Interface!Enqueue, upVars, rxVars
  <2> QED
    BY <2>3 DEF Interface!Next
<1>9. CASE Transmit
  BY <1>9, InterfaceStutters DEF Transmit, upVars, rxVars
<1>10. ASSUME NEW ok \in BOOLEAN, SendCompletes(ok) PROVE Interface!Next
  <2>1. /\ txq # <<>> /\ txq' = Tail(txq) /\ phase = "running"
        /\ UNCHANGED <<upVars, rxVars>>
    BY <1>0, <1>10 DEF SendCompletes, Released, TxInv, QueueNumbered, LoopsWhenUp
  <2>2. tx'.frames = tx.frames + 1
    BY <1>0, <1>10 DEF SendCompletes, TxInv, TxTypes
  <2>3. Interface!FinishOne
    BY <2>1, <2>2 DEF Interface!FinishOne, upVars, rxVars
  <2> QED
    BY <2>3 DEF Interface!Next
<1>11. CASE UNCHANGED vars
  BY <1>11, InterfaceStutters DEF vars, upVars, rxVars, txVars
<1> QED
  BY <1>1, <1>2, <1>3, <1>4, <1>5, <1>6, <1>7, <1>8, <1>9, <1>10, <1>11
     DEF Next, BringUp, LinkAnswers, LinkGivesUp, ReceiveCompletes, SendStep

(* The runner is the interface the stack was promised: frames come in      *)
(* order and at most once and wait to be taken, each frame queued is done  *)
(* with once and in order, and nothing is carried before the link is       *)
(* reported (ethernet.rs 376-392, 407-452, 580-606).                       *)
THEOREM RunnerIsTheInterface == Spec => KeepsOrder
<1> QED
  BY IInvHolds, InitInterface, StepInterface, PTL DEF Spec, KeepsOrder, Interface!Spec

-----------------------------------------------------------------------------
(* What an image does before its executor runs is none of the runner's;    *)
(* what it does after is the runner's (the four images' kmain and run).    *)
LEMMA BoardStep == [BoardNext]_allVars => UNCHANGED vars \/ (boot = "up" /\ Next /\ UNCHANGED boardVars)
<1> SUFFICES ASSUME BoardNext, ~(boot = "up" /\ Next /\ UNCHANGED boardVars)
             PROVE  UNCHANGED vars
  BY DEF allVars
<1>1. CASE HubAppears \/ ChipAttaches \/ WaitForLink
  BY <1>1 DEF HubAppears, ChipAttaches, WaitForLink
<1>2. CASE Bringup
  BY <1>2 DEF Bringup, PowerOn, MacAddress, WaitForHub, AllocChannels, Try
<1>3. CASE WalkOnce \/ WalkBus \/ PollBus
  BY <1>3 DEF WalkOnce, WalkBus, PollBus
<1>4. CASE ReadDuplex \/ SetDuplex \/ Handover
  BY <1>4 DEF ReadDuplex, SetDuplex, Handover, InitDriver, EnableIrqs, Run, Try
<1> QED
  BY <1>1, <1>2, <1>3, <1>4
     DEF BoardNext, Kmain, EchoKmain, EchoRun, BurstKmain, BurstRun, PicoserveKmain,
         PicoserveRun, SiteKmain, SiteRun, WhileUp

(* The runner of an image is the runner proved about: every behaviour of   *)
(* an image, from power-on, is one of the runner that starts late or never.*)
THEOREM ImageRunsTheRunner == BoardSpec => Spec
<1>1. BoardInit => Init
  BY DEF BoardInit
<1>2. [BoardNext]_allVars => [Next]_vars
  BY BoardStep
<1> QED
  BY <1>1, <1>2, PTL DEF BoardSpec, Spec

(* Hence an image loses no frame, accounts for every send, says so when    *)
(* its interface is dead, and keeps the interface's promise.               *)
THEOREM ImagesKeepTheRunnersPromises ==
    BoardSpec => [](ReceiveLossless /\ SendAccounted /\ DeadInterfaceSaysSo) /\ KeepsOrder
<1> QED
  BY ImageRunsTheRunner, NothingReceivedIsLost, EverySendIsAccounted,
     DeadInterfacesSaySo, RunnerIsTheInterface, PTL

-----------------------------------------------------------------------------
(* The USB interrupt reaches its handler from the step that arms it on,    *)
(* which is the last before the executor (embassy_net_echo.rs 408-413).    *)
ArmedLast == usbIrq <=> boot \in {"spawn", "up"}

BoardInv == BoardTypes /\ ArmedLast

(* The board is off and nothing is armed.                                  *)
LEMMA InitBoardInv == BoardInit => BoardInv
<1> SUFFICES ASSUME BoardInit PROVE BoardInv
  OBVIOUS
<1>1. sound \in BOOLEAN /\ hub \in BOOLEAN /\ offered \in BOOLEAN /\ usbIrq \in BOOLEAN
  BY Zenon DEF BoardInit
<1> QED
  BY <1>1, HubAssumption DEF BoardInit, BoardInv, BoardTypes, ArmedLast, Blocking

(* A step of kmain that may halt arms nothing.                             *)
LEMMA TryBoardInv ==
    ASSUME BoardInv, NEW at, NEW then, Try(at, then),
           at \notin {"spawn", "up"}, then \notin {"spawn", "up"},
           then \in Blocking \cup {"mac", "hub", "driver"}
    PROVE  BoardInv'
<1>1. boot' \in {then, "halted"} /\ UNCHANGED <<kmainVars, busVars, usbIrq>> /\ boot = at
  BY DEF Try
<1>2. ArmedLast'
  BY <1>1 DEF BoardInv, ArmedLast
<1>3. BoardTypes'
  BY <1>1 DEF BoardInv, BoardTypes, kmainVars, busVars, Blocking
<1> QED
  BY <1>2, <1>3 DEF BoardInv

(* The driver that claims a chip claims the one on the bus.                *)
LEMMA ClaimTypes ==
    ASSUME BoardTypes, Claim, chip' = chip
    PROVE  found' \in {"none", chip'} /\ offered' \in BOOLEAN
<1>1. found' \in {"none", chip}
  BY DEF BoardTypes, Claim
<1>2. offered' \in BOOLEAN
  BY Zenon DEF BoardTypes, Claim
<1> QED
  BY <1>1, <1>2

(* Every step of an image keeps the order in which it arms its interrupts  *)
(* (the four images' kmain and run).                                       *)
LEMMA NextBoardInv == BoardInv /\ [BoardNext]_allVars => BoardInv'
<1> SUFFICES ASSUME BoardInv, [BoardNext]_allVars PROVE BoardInv'
  OBVIOUS
<1>0. BoardTypes /\ ArmedLast
  BY DEF BoardInv
<1>1. CASE HubAppears
  <2>1. hub' \in BOOLEAN
    BY <1>1, Zenon DEF HubAppears
  <2> QED
    BY <1>0, <1>1, <2>1 DEF HubAppears, kmainVars, BoardInv, BoardTypes, ArmedLast
<1>2. CASE ChipAttaches
  BY <1>0, <1>2 DEF ChipAttaches, kmainVars, Chips, BoardInv, BoardTypes, ArmedLast
<1>3. CASE PowerOn \/ MacAddress \/ AllocChannels \/ ReadDuplex \/ SetDuplex
  BY <1>3, TryBoardInv DEF PowerOn, MacAddress, AllocChannels, ReadDuplex, SetDuplex, Blocking
<1>4. CASE WaitForHub
  <2>1. hubWaited' \in 0 .. HubWait /\ boot' \in {"walk", "halted", "hub"} /\ boot = "hub"
    BY <1>0, <1>4, HubAssumption DEF WaitForHub, BoardTypes
  <2> QED
    BY <1>0, <1>4, <2>1 DEF WaitForHub, busVars, Blocking, BoardInv, BoardTypes, ArmedLast
<1>5. CASE WalkOnce \/ WalkBus \/ PollBus
  <2>1. /\ boot \in {"walk", "poll"} /\ boot' \in {"walk", "poll", "halted", "channels"}
        /\ UNCHANGED <<image, sound, hubWaited, hub, chip, usbIrq>>
    BY <1>5 DEF WalkOnce, WalkBus, PollBus
  <2>2. Claim \/ UNCHANGED <<found, offered>>
    BY <1>5 DEF WalkOnce, WalkBus, PollBus
  <2>3. found' \in {"none", chip'} /\ offered' \in BOOLEAN
    BY <1>0, <2>1, <2>2, ClaimTypes DEF BoardTypes
  <2> QED
    BY <1>0, <2>1, <2>3 DEF Blocking, BoardInv, BoardTypes, ArmedLast
<1>6. CASE WaitForLink
  BY <1>0, <1>6 DEF WaitForLink, kmainVars, busVars, Blocking, BoardInv, BoardTypes, ArmedLast
<1>7. CASE InitDriver
  BY <1>0, <1>7 DEF InitDriver, kmainVars, busVars, BoardInv, BoardTypes, ArmedLast
<1>8. CASE EnableIrqs
  <2>1. usbIrq' \in BOOLEAN
    BY <1>8, Zenon DEF EnableIrqs
  <2> QED
    BY <1>0, <1>8, <2>1 DEF EnableIrqs, kmainVars, busVars, BoardInv, BoardTypes, ArmedLast
<1>9. CASE Run
  <2>1. sound' \in BOOLEAN /\ offered' \in BOOLEAN
    BY <1>9, Zenon DEF Run
  <2> QED
    BY <1>0, <1>9, <2>1, HubAssumption DEF Run, BoardInv, BoardTypes, ArmedLast
<1>10. CASE UNCHANGED boardVars
  BY <1>0, <1>10 DEF boardVars, kmainVars, busVars, BoardInv, BoardTypes, ArmedLast
<1> QED
  BY <1>1, <1>2, <1>3, <1>4, <1>5, <1>6, <1>7, <1>8, <1>9, <1>10
     DEF BoardNext, Kmain, EchoKmain, EchoRun, BurstKmain, BurstRun, PicoserveKmain,
         PicoserveRun, SiteKmain, SiteRun, Bringup, Handover, WhileUp, allVars

LEMMA BoardInvHolds == BoardSpec => []BoardInv
<1> QED
  BY InitBoardInv, NextBoardInv, PTL DEF BoardSpec

(* Types of an image and its runner.                                       *)
THEOREM ImageTypeCorrect == BoardSpec => []BoardTypeOK
<1>1. IInv /\ BoardInv => BoardTypeOK
  BY DEF IInv, RxInv, TxInv, TypeOK, BoardInv, BoardTypeOK
<1> QED
  BY ImageRunsTheRunner, IInvHolds, BoardInvHolds, <1>1, PTL

(* The bus is asked by spinning only while no handler would race for the   *)
(* channel, and awaited only when one completes what is awaited            *)
(* (embassy_net_echo.rs 352-358, 408-413).                                 *)
THEOREM OneCompleterAtATime == BoardSpec => OneCompleter
<1>1. BoardInv /\ [BoardNext]_allVars =>
        [ /\ boot \in Blocking => ~usbIrq
          /\ upVars' # upVars \/ fetched' # fetched \/ sending' # sending => usbIrq ]_allVars
  <2> SUFFICES ASSUME BoardInv, [BoardNext]_allVars
               PROVE  /\ boot \in Blocking => ~usbIrq
                      /\ upVars' # upVars \/ fetched' # fetched \/ sending' # sending => usbIrq
    OBVIOUS
  <2>1. boot \in Blocking => ~usbIrq
    BY DEF BoardInv, ArmedLast, Blocking
  <2>2. boot = "up" => usbIrq
    BY DEF BoardInv, ArmedLast
  <2>3. UNCHANGED vars => upVars' = upVars /\ fetched' = fetched /\ sending' = sending
    BY DEF vars, rxVars, txVars
  <2> QED
    BY <2>1, <2>2, <2>3, BoardStep
<1> QED
  BY BoardInvHolds, <1>1, PTL DEF BoardSpec, OneCompleter
=============================================================================
