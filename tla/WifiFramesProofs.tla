---------------------------- MODULE WifiFramesProofs ----------------------------
(***************************************************************************)
(* The Wi-Fi runner accounts for each frame, for queues, bursts, windows   *)
(* and counters of any size.                                               *)
(***************************************************************************)
EXTENDS WifiFrames, FiniteSetTheorems, FunctionTheorems, SequenceTheorems, TLAPS

IInv == TypeOK /\ ReceiveAccounted /\ SendAccounted

Frame == [kind : Kinds, limit : 0 .. Seqs - 1]

-----------------------------------------------------------------------------
(* A total that is kept in parts, modulo the wrap of the counters.         *)
Account(total, part, rest) == total = (part + rest) % Wrap

(* A sum can be reduced before more is added to it.                        *)
LEMMA ReduceLate ==
    ASSUME NEW W \in Int, W > 0, NEW a \in Int, NEW b \in Int
    PROVE  ((a % W) + b) % W = (a + b) % W
OBVIOUS

(* A total stays right when n moves from the rest into a part that is      *)
(* counted (fetch_add at wifi.rs 728-766, 819-838).                        *)
LEMMA MovesOver ==
    ASSUME NEW total, NEW part \in Int, NEW rest \in Int, NEW n \in Int,
           Account(total, part, rest + n)
    PROVE  Account(total, (part + n) % Wrap, rest)
<1>1. Wrap \in Int /\ Wrap > 0 /\ part + n \in Int
  BY SizeAssumption
<1>2. (((part + n) % Wrap) + rest) % Wrap = ((part + n) + rest) % Wrap
  BY <1>1, ReduceLate, Zenon
<1>3. (part + n) + rest = part + (rest + n)
  OBVIOUS
<1> QED
  BY <1>2, <1>3, Zenon DEF Account

(* It stays right when n joins both the total and the rest.                *)
LEMMA JoinsBoth ==
    ASSUME NEW total, NEW part \in Int, NEW rest \in Int, NEW n \in Int,
           Account(total, part, rest)
    PROVE  Account((total + n) % Wrap, part, rest + n)
<1>1. Wrap \in Int /\ Wrap > 0 /\ part + rest \in Int
  BY SizeAssumption
<1>2. (((part + rest) % Wrap) + n) % Wrap = ((part + rest) + n) % Wrap
  BY <1>1, ReduceLate, Zenon
<1>3. (part + rest) + n = part + (rest + n)
  OBVIOUS
<1> QED
  BY <1>2, <1>3, Zenon DEF Account

LEMMA WrapRange ==
    \A a \in Int : a % Wrap \in 0 .. Wrap - 1
<1>1. Wrap \in Int /\ Wrap > 0
  BY SizeAssumption
<1> QED
  BY <1>1

-----------------------------------------------------------------------------
(* The data frames of a FIFO are finitely many, and none of an empty one   *)
(* (recv_ethernet as wifi.rs 728-766 uses it).                             *)
LEMMA DataCounts ==
    ASSUME NEW S, NEW f \in Seq(S)
    PROVE  IsFiniteSet(Places(f)) /\ Data(f) \in Nat
<1>1. IsFiniteSet(1 .. Len(f))
  BY LenProperties, FS_Interval
<1>2. Places(f) \in SUBSET (1 .. Len(f))
  BY DEF Places
<1> QED
  BY <1>1, <1>2, FS_Subset, FS_CardinalityType DEF Data

LEMMA DataOfNone == Data(<<>>) = 0
<1>1. Places(<<>>) = {}
  BY DEF Places
<1> QED
  BY <1>1, FS_EmptySet DEF Data

(* One that arrives counts if it is data.                                  *)
LEMMA DataAppended ==
    ASSUME NEW S, NEW f \in Seq(S), NEW e \in S
    PROVE  Data(Append(f, e)) = Data(f) + (IF e.kind = "data" THEN 1 ELSE 0)
<1> DEFINE g == Append(f, e)
<1>1. /\ Len(f) \in Nat /\ Len(g) = Len(f) + 1
      /\ \A i \in 1 .. Len(f) : g[i] = f[i]
      /\ g[Len(f) + 1] = e
  BY AppendProperties, LenProperties
<1>2. \A i \in 1 .. Len(g) : i \in 1 .. Len(f) \/ i = Len(f) + 1
  BY <1>1
<1>3. Places(g) = Places(f) \cup (IF e.kind = "data" THEN {Len(f) + 1} ELSE {})
  BY <1>1, <1>2 DEF Places
<1>4. Len(f) + 1 \notin Places(f)
  BY <1>1 DEF Places
<1>5. IsFiniteSet(Places(f)) /\ Data(f) \in Nat
  BY DataCounts
<1> HIDE DEF g
<1>6. CASE e.kind = "data"
  BY <1>3, <1>4, <1>5, <1>6, FS_AddElement DEF Data, g
<1>7. CASE e.kind # "data"
  BY <1>3, <1>5, <1>7 DEF Data, g
<1> QED
  BY <1>6, <1>7

(* One that is read no longer counts: the others move one place forward.   *)
LEMMA DataRead ==
    ASSUME NEW S, NEW f \in Seq(S), f # <<>>
    PROVE  Data(f) = Data(Tail(f)) + (IF Head(f).kind = "data" THEN 1 ELSE 0)
<1> DEFINE P == Places(f) \ {1}
           T == Places(Tail(f))
           shift == [i \in P |-> i - 1]
<1>1. /\ Len(f) \in Nat \ {0} /\ Tail(f) \in Seq(S) /\ Len(Tail(f)) = Len(f) - 1
      /\ \A i \in 1 .. Len(Tail(f)) : Tail(f)[i] = f[i + 1]
      /\ Head(f) = f[1]
  BY HeadTailProperties, EmptySeq
<1>2. IsFiniteSet(Places(f)) /\ Data(f) \in Nat /\ IsFiniteSet(T) /\ Data(Tail(f)) \in Nat
  BY <1>1, DataCounts
<1>3. IsFiniteSet(P) /\ Cardinality(P) = Data(f) - (IF 1 \in Places(f) THEN 1 ELSE 0)
  BY <1>2, FS_RemoveElement DEF Data
<1>4. 1 \in Places(f) <=> Head(f).kind = "data"
  BY <1>1 DEF Places
<1>5. \A i \in P : i \in 2 .. Len(f) /\ i - 1 \in T
  BY <1>1 DEF Places
<1>6. \A j \in T : j \in Int /\ j + 1 \in P
  BY <1>1 DEF Places
<1>7. shift \in [P -> T] /\ \A i \in P : shift[i] = i - 1
  BY <1>5
<1>8. \A a, b \in P : shift[a] = shift[b] => a = b
  BY <1>5, <1>7
<1>9. \A j \in T : \E i \in P : shift[i] = j
  BY <1>6, <1>7
<1> HIDE DEF P, T, shift
<1>10. shift \in Bijection(P, T)
  BY <1>7, <1>8, <1>9, Fun_IsBij
<1>11. Cardinality(T) = Cardinality(P)
  BY <1>3, <1>10, FS_Bijection, Fun_ExistsBij
<1> QED
  BY <1>2, <1>3, <1>4, <1>11 DEF Data, T

-----------------------------------------------------------------------------
(* A step that counts leaves the counters it does not name alone.          *)
LEMMA CountedOnly ==
    ASSUME TypeOK, NEW C, NEW n \in Nat
    PROVE  /\ Counted(C, n) \in [Counters -> 0 .. Wrap - 1]
           /\ \A c \in Counters :
                 Counted(C, n)[c] = IF c \in C THEN (count[c] + n) % Wrap ELSE count[c]
<1>0. count \in [Counters -> 0 .. Wrap - 1] /\ Wrap \in Nat
  BY SizeAssumption DEF TypeOK, FrameTypes
<1>1. \A c \in Counters : count[c] \in 0 .. Wrap - 1 /\ count[c] + n \in Int
  BY <1>0
<1>2. \A c \in Counters :
         (IF c \in C THEN (count[c] + n) % Wrap ELSE count[c]) \in 0 .. Wrap - 1
  BY <1>1, WrapRange
<1> QED
  BY <1>2 DEF Counted

LEMMA InitIInv == Init => IInv
<1> SUFFICES ASSUME Init PROVE IInv
  OBVIOUS
<1>1. {N_RX, N_TX, RX_BURST, RX_SILENCE, PROBE_INTERVAL, LINK_QUIET_PASSES, Window, Seqs, Wrap,
       Fifo} \subseteq Nat \ {0} /\ Window < Seqs
  BY SizeAssumption
<1>2. PassTypes
  <2>1. received \in BOOLEAN /\ wanted \in BOOLEAN
    BY Zenon DEF Init
  <2> QED
    BY <1>1, <2>1 DEF Init, PassTypes
<1>3. <<>> \in Seq(Frame) /\ Len(<<>>) = 0
  BY EmptySeq
<1>4. FrameTypes
  BY <1>1, <1>3 DEF Init, FrameTypes, Frame
<1>5. \A c \in Counters : count[c] = 0
  BY DEF Init
<1>6. 0 % Wrap = 0
  BY <1>1
<1>7. ReceiveAccounted /\ SendAccounted
  BY <1>5, <1>6, DataOfNone DEF Init, ReceiveAccounted, SendAccounted, Counters
<1> QED
  BY <1>2, <1>4, <1>7 DEF IInv, TypeOK

-----------------------------------------------------------------------------
(* What a pass keeps about itself.                                         *)
LEMMA StepPassTypes == TypeOK /\ Next => PassTypes'
<1> SUFFICES ASSUME TypeOK, Next PROVE PassTypes'
  OBVIOUS
<1>0. /\ pc \in {"sleep", "receive", "transmit", "sample", "watch", "counters"}
      /\ burst \in 0 .. RX_BURST
      /\ silent \in 0 .. RX_SILENCE /\ quiet \in 0 .. LINK_QUIET_PASSES
      /\ dueIn \in 0 .. PROBE_INTERVAL
  BY DEF TypeOK, PassTypes
<1>1. /\ RX_BURST \in Nat /\ RX_SILENCE \in Nat /\ PROBE_INTERVAL \in Nat
      /\ LINK_QUIET_PASSES \in Nat
  BY SizeAssumption
<1>2. received' \in BOOLEAN /\ wanted' \in BOOLEAN
  <2>1. received \in BOOLEAN /\ wanted \in BOOLEAN
    BY DEF TypeOK, PassTypes
  <2>2. received' \in {TRUE, FALSE, received} /\ wanted' \in {TRUE, FALSE, wanted}
    BY DEF Next, PassStep, BeginPass, ReceiveStops, ReceiveData, ReceiveControl, ReceiveBad,
           ReceiveFails,
           ReadFrame, TransmitNone, TransmitSent, TransmitBusy, TransmitFailed, MovingDone,
           SampleLink, WatchPass, SampleCounters, CommandStep, Arrive, FreeBuffer, StackTake,
           StackSend, RequestCounters, passVars
  <2> QED
    BY <2>1, <2>2, Zenon
<1>3. /\ pc' \in {"sleep", "receive", "transmit", "sample", "watch", "counters"}
      /\ burst' \in 0 .. RX_BURST
      /\ silent' \in 0 .. RX_SILENCE /\ quiet' \in 0 .. LINK_QUIET_PASSES
      /\ dueIn' \in 0 .. PROBE_INTERVAL
  <2>1. CASE BeginPass
    BY <1>0, <1>1, <2>1 DEF BeginPass, UpTo
  <2>2. CASE ReceiveStops \/ ReceiveData \/ ReceiveControl \/ ReceiveBad \/ ReceiveFails
    BY <1>0, <1>1, <2>2 DEF ReceiveStops, ReceiveData, ReceiveControl, ReceiveBad,
           ReceiveFails, ReadFrame
  <2>3. CASE TransmitNone \/ TransmitSent \/ TransmitBusy \/ TransmitFailed
    <3>1. PICK moved \in BOOLEAN : MovingDone(moved)
      BY <2>3 DEF TransmitNone, TransmitSent, TransmitBusy, TransmitFailed
    <3> QED
      BY <1>0, <1>1, <3>1 DEF MovingDone, UpTo
  <2>4. CASE SampleLink \/ WatchPass \/ SampleCounters
    BY <1>0, <1>1, <2>4 DEF SampleLink, WatchPass, SampleCounters, CommandStep
  <2>5. CASE \/ \E kind \in Kinds : Arrive(kind)
             \/ FreeBuffer \/ StackTake \/ StackSend \/ RequestCounters
    BY <1>0, <2>5 DEF Arrive, FreeBuffer, StackTake, StackSend, RequestCounters, passVars
  <2> QED
    BY <2>1, <2>2, <2>3, <2>4, <2>5 DEF Next, PassStep
<1> QED
  BY <1>2, <1>3 DEF PassTypes

(* What a step does to the frames: nothing, or one of these.               *)
Moves ==
    \/ UNCHANGED <<fifo, rxLen, txLen, count>>
    \/ ReceiveData \/ ReceiveControl \/ ReceiveBad \/ ReceiveFails
    \/ Command /\ UNCHANGED <<rxLen, txLen>>
    \/ TransmitSent \/ TransmitFailed
    \/ \E kind \in Kinds : Arrive(kind)
    \/ StackTake \/ StackSend

LEMMA StepMoves == Next => Moves
<1> SUFFICES ASSUME Next PROVE Moves
  OBVIOUS
<1>1. CASE BeginPass \/ ReceiveStops \/ FreeBuffer \/ RequestCounters
  BY <1>1 DEF BeginPass, ReceiveStops, FreeBuffer, RequestCounters, chipVars, Moves
<1>2. CASE TransmitNone \/ TransmitBusy
  BY <1>2 DEF TransmitNone, TransmitBusy, MovingDone, Moves
<1>3. CASE SampleLink \/ WatchPass \/ SampleCounters
  BY <1>3 DEF SampleLink, WatchPass, SampleCounters, CommandStep, NoCommand, Moves
<1> QED
  BY <1>1, <1>2, <1>3 DEF Next, PassStep, Moves

(* The queues stay within their depths, and every number within its        *)
(* modulus.                                                                *)
LEMMA StepFrameTypes == IInv /\ Next => FrameTypes'
<1> SUFFICES ASSUME IInv, Next PROVE FrameTypes'
  OBVIOUS
<1>0. /\ rxLen \in 0 .. N_RX /\ txLen \in 0 .. N_TX
      /\ fifo \in Seq(Frame) /\ Len(fifo) <= Fifo
      /\ sent \in 0 .. Seqs - 1 /\ limit \in 0 .. Seqs - 1 /\ freed \in 0 .. Seqs - 1
      /\ count \in [Counters -> 0 .. Wrap - 1]
  BY DEF IInv, TypeOK, FrameTypes, Frame
<1>1. /\ N_RX \in Nat /\ N_TX \in Nat /\ Fifo \in Nat /\ Window \in Nat /\ Seqs \in Nat \ {0}
  BY SizeAssumption
<1>2. /\ Limit \in 0 .. Seqs - 1 /\ (sent + 1) % Seqs \in 0 .. Seqs - 1
      /\ (freed + 1) % Seqs \in 0 .. Seqs - 1
  BY <1>0, <1>1 DEF Limit
<1>3. fifo # <<>> => /\ Head(fifo) \in Frame /\ Tail(fifo) \in Seq(Frame)
                     /\ Len(Tail(fifo)) <= Fifo
  BY <1>0, <1>1, HeadTailProperties, LenProperties
<1>4. <<>> \in Seq(Frame) /\ Len(<<>>) <= Fifo
  BY <1>1, EmptySeq
<1>5. Moves
  BY StepMoves
<1>6. rxLen' \in 0 .. N_RX /\ txLen' \in 0 .. N_TX
  <2>1. rxLen' = rxLen \/ (rxLen' = rxLen + 1 /\ RxBufFree) \/ (rxLen' = rxLen - 1 /\ rxLen > 0)
    BY <1>5 DEF Moves, ReceiveData, ReceiveControl, ReceiveBad,
           ReceiveFails, ReadFrame, TransmitSent,
                TransmitFailed, MovingDone, Arrive, StackTake, StackCanTake, StackSend, Command
  <2>2. txLen' = txLen \/ (txLen' = txLen + 1 /\ txLen < N_TX) \/ (txLen' = txLen - 1 /\ txLen > 0)
    BY <1>5 DEF Moves, ReceiveData, ReceiveControl, ReceiveBad,
           ReceiveFails, ReadFrame, TransmitSent,
                TransmitFailed, MovingDone, Arrive, StackTake, StackCanTake, StackSend, Command
  <2> QED
    BY <1>0, <1>1, <2>1, <2>2 DEF RxBufFree
<1>7. fifo' \in Seq(Frame) /\ Len(fifo') <= Fifo
  <2>1. CASE fifo' \in {fifo, <<>>}
    BY <1>0, <1>4, <2>1
  <2>2. CASE fifo # <<>> /\ fifo' = Tail(fifo)
    BY <1>3, <2>2
  <2>3. CASE \E kind \in Kinds : Arrive(kind)
    <3>1. PICK kind \in Kinds : Arrive(kind)
      BY <2>3
    <3> DEFINE e == [kind |-> kind, limit |-> IF kind = "bad" THEN 0 ELSE Limit]
    <3>2. e \in Frame
      BY <1>1, <1>2 DEF Frame
    <3>3. fifo' = Append(fifo, e) /\ Len(fifo) < Fifo
      BY <3>1 DEF Arrive
    <3> HIDE DEF e
    <3> QED
      BY <1>0, <1>1, <3>2, <3>3, AppendProperties, LenProperties
  <2> QED
    BY <1>5, <2>1, <2>2, <2>3 DEF Moves, ReceiveData, ReceiveControl, ReceiveBad,
           ReceiveFails, ReadFrame,
       TransmitSent, TransmitFailed, MovingDone, StackTake, StackSend, chipVars, Command
<1>8. /\ sent' \in 0 .. Seqs - 1 /\ limit' \in 0 .. Seqs - 1 /\ freed' \in 0 .. Seqs - 1
  <2>1. sent' \in {sent, (sent + 1) % Seqs} /\ freed' \in {freed, (freed + 1) % Seqs}
    BY DEF Next, PassStep, BeginPass, ReceiveStops, ReceiveData, ReceiveControl, ReceiveBad,
           ReceiveFails,
           ReadFrame, TransmitNone, TransmitSent, TransmitBusy, TransmitFailed, MovingDone,
           SampleLink, WatchPass, SampleCounters, CommandStep, Arrive, FreeBuffer, StackTake,
           StackSend, RequestCounters, chipVars
  <2>2. limit' \in {limit, Limit} \/ (fifo # <<>> /\ limit' = Head(fifo).limit)
    <3>1. CASE BeginPass \/ ReceiveStops \/ FreeBuffer \/ StackTake \/ StackSend \/ RequestCounters
               \/ \E kind \in Kinds : Arrive(kind)
      BY <3>1 DEF BeginPass, ReceiveStops, Arrive, FreeBuffer, StackTake, StackSend,
                  RequestCounters, chipVars
    <3>2. CASE ReceiveData \/ ReceiveControl \/ ReceiveBad \/ ReceiveFails
      BY <3>2 DEF ReceiveData, ReceiveControl, ReceiveBad, ReceiveFails, ReadFrame, chipVars
    <3>3. CASE TransmitNone \/ TransmitSent \/ TransmitBusy \/ TransmitFailed
      BY <3>3 DEF TransmitNone, TransmitSent, TransmitBusy, TransmitFailed, MovingDone
    <3>4. CASE SampleLink \/ WatchPass \/ SampleCounters
      BY <3>4 DEF SampleLink, WatchPass, SampleCounters, Command, NoCommand
    <3> QED
      BY <3>1, <3>2, <3>3, <3>4 DEF Next, PassStep
  <2>3. fifo # <<>> => Head(fifo).limit \in 0 .. Seqs - 1
    BY <1>3 DEF Frame
  <2> QED
    BY <1>0, <1>2, <2>1, <2>2, <2>3
<1>9. count' \in [Counters -> 0 .. Wrap - 1]
  <2>1. \/ count' = count
        \/ \E C \in SUBSET Counters : count' = Counted(C, 1)
        \/ count' = Counted({"discarded"}, Data(fifo))
    BY <1>5 DEF Moves, ReceiveData, ReceiveControl, ReceiveBad,
           ReceiveFails, TransmitSent, TransmitFailed,
                Arrive, StackTake, StackSend, Command, Counters
  <2>2. Data(fifo) \in Nat
    BY <1>0, DataCounts
  <2> QED
    BY <1>0, <2>1, <2>2, CountedOnly DEF IInv
<1> QED
  BY <1>6, <1>7, <1>8, <1>9 DEF FrameTypes, Frame

-----------------------------------------------------------------------------
(* What a step adds on one side of an account it adds on the other, before *)
(* or after a wrap (wifi.rs 728-766, 819-838).                             *)
LEMMA StepAccounts == IInv /\ Next => (ReceiveAccounted /\ SendAccounted)'
<1> SUFFICES ASSUME IInv, Next PROVE (ReceiveAccounted /\ SendAccounted)'
  OBVIOUS
<1> DEFINE arrived == count["arrived"]
           rx == count["RX_FRAMES"]
           discarded == count["discarded"]
           taken == count["taken"]
           queued == count["queued"]
           tx == count["TX_FRAMES"]
           failed == count["TX_FAILURES"]
           d == Data(fifo)
<1>0. /\ rxLen \in Nat /\ txLen \in Nat /\ fifo \in Seq(Frame) /\ TypeOK
      /\ d \in Nat
      /\ arrived \in Int /\ rx \in Int /\ discarded \in Int /\ taken \in Int
      /\ queued \in Int /\ tx \in Int /\ failed \in Int
  <2>1. count \in [Counters -> 0 .. Wrap - 1] /\ fifo \in Seq(Frame)
        /\ rxLen \in 0 .. N_RX /\ txLen \in 0 .. N_TX
    BY DEF IInv, TypeOK, FrameTypes, Frame
  <2> QED
    BY <2>1, DataCounts, SizeAssumption DEF IInv, Counters
<1>1. /\ Account(arrived, rx, d + discarded) /\ Account(rx, taken, rxLen)
      /\ Account(queued, tx, failed + txLen)
  <2>1. /\ rx + d + discarded = rx + (d + discarded) /\ tx + failed + txLen = tx + (failed + txLen)
    BY <1>0
  <2> QED
    BY <2>1 DEF IInv, ReceiveAccounted, SendAccounted, Account
<1>2. ASSUME NEW C, NEW n \in Nat, count' = Counted(C, n)
      PROVE  \A c \in Counters : count'[c] = IF c \in C THEN (count[c] + n) % Wrap ELSE count[c]
  BY <1>0, <1>2, CountedOnly
<1>3. fifo # <<>> => /\ d = Data(Tail(fifo)) + (IF Head(fifo).kind = "data" THEN 1 ELSE 0)
                     /\ Data(Tail(fifo)) \in Nat
  BY <1>0, DataRead, HeadTailProperties, DataCounts
<1>4. /\ 1 \in Int /\ d + discarded \in Int /\ failed + txLen \in Int /\ tx + txLen \in Int
      /\ rxLen \in Int /\ txLen \in Int /\ d \in Int
  BY <1>0
<1> DEFINE Kept == /\ Account(arrived', rx', Data(fifo') + discarded')
                   /\ Account(rx', taken', rxLen')
                   /\ Account(queued', tx', failed' + txLen')
<1>5. /\ rx' \in Int /\ discarded' \in Int /\ tx' \in Int /\ failed' \in Int /\ txLen' \in Int
       /\ Data(fifo') \in Int
  <2>1. FrameTypes'
    BY StepFrameTypes
  <2>2. /\ count' \in [Counters -> 0 .. Wrap - 1] /\ fifo' \in Seq(Frame)
        /\ txLen' \in 0 .. N_TX
    BY <2>1 DEF FrameTypes, Frame
  <2> QED
    BY <2>2, DataCounts, SizeAssumption DEF Counters
<1>6. /\ rx' + Data(fifo') + discarded' = rx' + (Data(fifo') + discarded')
       /\ tx' + failed' + txLen' = tx' + (failed' + txLen')
  BY <1>5
<1> SUFFICES Kept
  BY <1>6 DEF ReceiveAccounted, SendAccounted, Account
<1> HIDE DEF d
<1>7. CASE UNCHANGED <<fifo, rxLen, txLen, count>>
  BY <1>1, <1>7 DEF d
<1>8. CASE ReceiveData
  <2>1. /\ rxLen' = rxLen + 1 /\ txLen' = txLen
        /\ fifo # <<>> /\ fifo' = Tail(fifo) /\ Head(fifo).kind = "data"
        /\ count' = Counted({"RX_FRAMES"}, 1)
    BY <1>8 DEF ReceiveData, ReadFrame
  <2>2. /\ rx' = (rx + 1) % Wrap
        /\ UNCHANGED <<arrived, discarded, taken, queued, tx, failed>>
    BY <1>2, <2>1 DEF Counters
  <2>3. d + discarded = Data(fifo') + discarded + 1 /\ Data(fifo') + discarded \in Int
    <3>1. d = Data(fifo') + 1 /\ Data(fifo') \in Nat
      BY <1>3, <2>1
    <3>2. discarded \in Int
      BY <1>0
    <3> QED
      BY <3>1, <3>2
  <2>4. Account(arrived, (rx + 1) % Wrap, Data(fifo') + discarded)
    BY <1>0, <1>1, <1>4, <2>3, MovesOver, Zenon
  <2>5. Account((rx + 1) % Wrap, taken, rxLen + 1)
    BY <1>0, <1>1, <1>4, JoinsBoth, Zenon
  <2> QED
    BY <1>1, <2>1, <2>2, <2>3, <2>4, <2>5
<1>9. CASE ReceiveControl \/ ReceiveBad \/ ReceiveFails
  <2>1. /\ rxLen' = rxLen /\ txLen' = txLen
        /\ \/ fifo' = fifo
           \/ fifo # <<>> /\ fifo' = Tail(fifo) /\ Head(fifo).kind # "data"
        /\ count' = count \/ count' = Counted({"RX_ERRORS"}, 1)
    BY <1>9 DEF ReceiveControl, ReceiveBad, ReceiveFails, ReadFrame, chipVars
  <2>2. UNCHANGED <<arrived, rx, discarded, taken, queued, tx, failed>>
    BY <1>2, <2>1 DEF Counters
  <2>3. Data(fifo') = d
    <3>1. CASE fifo' = fifo
      BY <3>1 DEF d
    <3>2. CASE fifo # <<>> /\ fifo' = Tail(fifo) /\ Head(fifo).kind # "data"
      <4>1. d = Data(fifo') + 0 /\ Data(fifo') \in Nat
        BY <1>3, <3>2
      <4> QED
        BY <4>1
    <3> QED
      BY <2>1, <3>1, <3>2
  <2> QED
    BY <1>1, <2>1, <2>2, <2>3
<1>10. CASE Command /\ UNCHANGED <<rxLen, txLen>>
  <2>1. count' = Counted({"discarded"}, d) /\ Data(fifo') = 0
    BY <1>10, DataOfNone DEF Command, d
  <2>2. /\ discarded' = (discarded + d) % Wrap
        /\ UNCHANGED <<arrived, rx, taken, queued, tx, failed>>
    BY <1>0, <1>2, <2>1 DEF Counters
  <2>3. Account(arrived, discarded, rx + d)
    BY <1>0, <1>1 DEF Account
  <2>4. Account(arrived, (discarded + d) % Wrap, rx)
    BY <1>0, <1>4, <2>3, MovesOver, Zenon
  <2>5. (discarded + d) % Wrap \in Int
    <3>1. discarded + d \in Int
      BY <1>0
    <3> QED
      BY <3>1, WrapRange
  <2>6. Account(arrived, rx, 0 + ((discarded + d) % Wrap))
    BY <1>0, <2>4, <2>5 DEF Account
  <2> QED
    BY <1>1, <1>10, <2>1, <2>2, <2>6
<1>11. CASE \E kind \in Kinds : Arrive(kind)
  <2>1. PICK kind \in Kinds : Arrive(kind)
    BY <1>11
  <2> DEFINE e == [kind |-> kind, limit |-> IF kind = "bad" THEN 0 ELSE Limit]
  <2>2. /\ fifo' = Append(fifo, e) /\ e.kind = kind /\ UNCHANGED <<rxLen, txLen>>
        /\ count' = IF kind = "data" THEN Counted({"arrived"}, 1) ELSE count
    BY <2>1 DEF Arrive
  <2>3. e \in Frame
    <3>1. Seqs \in Nat \ {0} /\ freed \in Int /\ Window \in Int
      BY SizeAssumption DEF IInv, TypeOK, FrameTypes
    <3>2. 0 \in 0 .. Seqs - 1 /\ Limit \in 0 .. Seqs - 1
      BY <3>1 DEF Limit
    <3> QED
      BY <3>2 DEF Frame
  <2> HIDE DEF e
  <2>4. Data(fifo') = d + (IF kind = "data" THEN 1 ELSE 0)
    BY <1>0, <2>2, <2>3, DataAppended DEF d
  <2>5. /\ arrived' = IF kind = "data" THEN (arrived + 1) % Wrap ELSE arrived
        /\ UNCHANGED <<rx, discarded, taken, queued, tx, failed>>
    BY <1>2, <2>2 DEF Counters
  <2>6. Account((arrived + 1) % Wrap, rx, d + discarded + 1)
    BY <1>0, <1>1, <1>4, JoinsBoth, Zenon
  <2>7. Account(arrived', rx', Data(fifo') + discarded')
    <3>1. Data(fifo') + discarded' = IF kind = "data" THEN d + discarded + 1 ELSE d + discarded
      BY <1>0, <2>4, <2>5
    <3> QED
      BY <1>1, <2>5, <2>6, <3>1
  <2> QED
    BY <1>1, <2>2, <2>5, <2>7
<1>12. CASE TransmitSent \/ TransmitFailed
  <2>1. /\ txLen' = txLen - 1 /\ UNCHANGED <<rxLen, fifo>>
        /\ count' = Counted({"TX_FRAMES"}, 1) \/ count' = Counted({"TX_FAILURES"}, 1)
    BY <1>12 DEF TransmitSent, TransmitFailed, MovingDone
  <2>2. /\ UNCHANGED <<arrived, rx, discarded, taken, queued>>
        /\ \/ tx' = (tx + 1) % Wrap /\ failed' = failed
           \/ failed' = (failed + 1) % Wrap /\ tx' = tx
    BY <1>2, <2>1 DEF Counters
  <2>3. /\ failed + txLen = failed + txLen' + 1 /\ tx + txLen = tx + txLen' + 1
        /\ failed + txLen' \in Int /\ tx + txLen' \in Int /\ failed + 1 \in Int
    <3>1. txLen' = txLen - 1
      BY <2>1
    <3>2. failed \in Int /\ tx \in Int /\ txLen \in Int
      BY <1>0
    <3> HIDE DEF failed, tx
    <3> QED
      BY <3>1, <3>2
  <2>4. Account(queued, (tx + 1) % Wrap, failed + txLen')
    BY <1>0, <1>1, <1>4, <2>3, MovesOver, Zenon
  <2>5. Account(queued, tx, ((failed + 1) % Wrap) + txLen')
    <3>1. Account(queued, failed, tx + txLen)
      BY <1>0, <1>1 DEF Account
    <3>2. Account(queued, (failed + 1) % Wrap, tx + txLen')
      BY <1>0, <1>4, <2>3, <3>1, MovesOver, Zenon
    <3>3. (failed + 1) % Wrap \in Int
      BY <2>3, WrapRange
    <3>4. ((failed + 1) % Wrap) + (tx + txLen') = tx + (((failed + 1) % Wrap) + txLen')
      <4>1. txLen' \in Int /\ tx \in Int
        BY <1>0, <1>5
      <4> QED
        BY <3>3, <4>1
    <3> QED
      BY <3>2, <3>4 DEF Account
  <2>6. Account(queued', tx', failed' + txLen')
    BY <2>2, <2>4, <2>5
  <2> QED
    BY <1>1, <2>1, <2>2, <2>6 DEF d
<1>13. CASE StackTake \/ StackSend
  <2>1. /\ fifo' = fifo
        /\ \/ rxLen' = rxLen - 1 /\ txLen' = txLen /\ count' = Counted({"taken"}, 1)
           \/ rxLen' = rxLen - 1 /\ txLen' = txLen + 1 /\ count' = Counted({"taken", "queued"}, 1)
           \/ rxLen' = rxLen /\ txLen' = txLen + 1 /\ count' = Counted({"queued"}, 1)
    BY <1>13 DEF StackTake, StackSend, chipVars
  <2>2. /\ UNCHANGED <<arrived, rx, discarded, tx, failed>>
        /\ \/ rxLen' = rxLen /\ taken' = taken
           \/ rxLen' = rxLen - 1 /\ taken' = (taken + 1) % Wrap
        /\ \/ txLen' = txLen /\ queued' = queued
           \/ txLen' = txLen + 1 /\ queued' = (queued + 1) % Wrap
    BY <1>2, <2>1 DEF Counters
  <2>3. ASSUME rxLen' = rxLen - 1
        PROVE  Account(rx, (taken + 1) % Wrap, rxLen')
    <3>1. rxLen = rxLen' + 1 /\ rxLen' \in Int
      BY <1>0, <2>3
    <3> QED
      BY <1>0, <1>1, <1>4, <3>1, MovesOver, Zenon
  <2>4. Account((queued + 1) % Wrap, tx, failed + txLen + 1)
    BY <1>0, <1>1, <1>4, JoinsBoth, Zenon
  <2>5. failed + txLen + 1 = failed + (txLen + 1)
    <3>1. failed \in Int /\ txLen \in Int
      BY <1>0
    <3> QED
      BY <3>1
  <2> QED
    BY <1>1, <2>1, <2>2, <2>3, <2>4, <2>5 DEF d
<1> QED
  BY <1>7, <1>8, <1>9, <1>10, <1>11, <1>12, <1>13, StepMoves DEF Moves
LEMMA IInvHolds == Spec => []IInv
<1>1. IInv /\ [Next]_vars => IInv'
  <2>1. IInv /\ UNCHANGED vars => IInv'
    BY DEF IInv, TypeOK, PassTypes, FrameTypes, ReceiveAccounted, SendAccounted,
           vars, passVars, chipVars
  <2> QED
    BY <2>1, StepPassTypes, StepFrameTypes, StepAccounts DEF IInv, TypeOK
<1> QED
  BY InitIInv, <1>1, PTL DEF Spec

(* No data frame is lost between the chip and the stack, but to a control  *)
(* command, and the counters say so across their wrap, for any depth of    *)
(* the queues, any burst and any credit window (wifi.rs 728-766).          *)
THEOREM EveryArrivalIsAccounted == Spec => []ReceiveAccounted
<1>1. IInv => ReceiveAccounted
  BY DEF IInv
<1> QED
  BY IInvHolds, <1>1, PTL

(* A frame that waits for credit is neither lost nor counted twice         *)
(* (wifi.rs 819-838).                                                      *)
THEOREM EveryQueuedFrameIsAccounted == Spec => []SendAccounted
<1>1. IInv => SendAccounted
  BY DEF IInv
<1> QED
  BY IInvHolds, <1>1, PTL

(* No queue overruns its depth (wifi.rs 728-766).                          *)
THEOREM FramesTypeCorrect == Spec => []TypeOK
<1>1. IInv => TypeOK
  BY DEF IInv
<1> QED
  BY IInvHolds, <1>1, PTL
=============================================================================
