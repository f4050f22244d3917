--------------------------- MODULE ApplicationsProofs ---------------------------
(***************************************************************************)
(* What the tasks of the examples report, answer and wait for, for buffers,*)
(* queues, bursts, periods and delays of any size.                         *)
(***************************************************************************)
EXTENDS Applications, Integers, SequenceTheorems, FiniteSetTheorems, FunctionTheorems, TLAPS

-----------------------------------------------------------------------------
(* A transfer, or a read, takes the first n of what waits and leaves the   *)
(* rest (ethernet.rs 407-426, embassy_net_echo.rs 133-142).                *)
LEMMA TakeFront ==
    ASSUME NEW S, NEW s \in Seq(S), NEW m \in 1 .. Len(s)
    PROVE  /\ SubSeq(s, 1, m) \in Seq(S) /\ SubSeq(s, m + 1, Len(s)) \in Seq(S)
           /\ Len(SubSeq(s, 1, m)) = m /\ Len(SubSeq(s, m + 1, Len(s))) = Len(s) - m
           /\ \A i \in 1 .. m : SubSeq(s, 1, m)[i] = s[i]
           /\ \A i \in 1 .. Len(s) - m : SubSeq(s, m + 1, Len(s))[i] = s[m + i]
           /\ SubSeq(s, 1, m) # <<>>
<1>1. /\ SubSeq(s, 1, m) \in Seq(S) /\ Len(SubSeq(s, 1, m)) = m
      /\ \A i \in 1 .. m : SubSeq(s, 1, m)[i] = s[i]
  <2>1. \A i \in 1 .. m : s[i] \in S
    BY ElementOfSeq, LenProperties
  <2>2. m - 1 + 1 = m /\ 1 <= m /\ m \in Int
    BY LenProperties
  <2>3. /\ SubSeq(s, 1, m) \in Seq(S) /\ Len(SubSeq(s, 1, m)) = m
        /\ \A i \in 1 .. m : SubSeq(s, 1, m)[i] = s[1 + i - 1]
    BY <2>1, <2>2, SubSeqProperties
  <2>4. \A i \in 1 .. m : 1 + i - 1 = i
    BY <2>2
  <2> QED
    BY <2>3, <2>4
<1>2. /\ SubSeq(s, m + 1, Len(s)) \in Seq(S)
      /\ Len(SubSeq(s, m + 1, Len(s))) = Len(s) - m
      /\ \A i \in 1 .. Len(s) - m : SubSeq(s, m + 1, Len(s))[i] = s[m + i]
  <2>1. \A i \in m + 1 .. Len(s) : s[i] \in S
    BY ElementOfSeq, LenProperties
  <2>2. Len(s) - (m + 1) + 1 = Len(s) - m /\ m + 1 \in Int /\ Len(s) \in Int
    BY LenProperties
  <2>3. /\ SubSeq(s, m + 1, Len(s)) \in Seq(S)
        /\ Len(SubSeq(s, m + 1, Len(s))) = (IF m + 1 <= Len(s) THEN Len(s) - m ELSE 0)
        /\ \A i \in 1 .. Len(s) - m : SubSeq(s, m + 1, Len(s))[i] = s[m + 1 + i - 1]
    BY <2>1, <2>2, SubSeqProperties
  <2>4. \A i \in 1 .. Len(s) - m : m + 1 + i - 1 = m + i
    BY <2>2
  <2>5. Len(SubSeq(s, m + 1, Len(s))) = Len(s) - m
    <3>1. m \in Int /\ Len(s) \in Int /\ m <= Len(s)
      BY LenProperties
    <3>2. (IF m + 1 <= Len(s) THEN Len(s) - m ELSE 0) = Len(s) - m
      BY <3>1
    <3> QED
      BY <2>3, <3>2
  <2> QED
    BY <2>3, <2>4, <2>5
<1> QED
  BY <1>1, <1>2, EmptySeq

(* The places of s that hold an element of K, and how many there are.      *)
Where(s, K) == {i \in 1 .. Len(s) : s[i] \in K}

HowMany(s, K) == Cardinality(Where(s, K))

LEMMA HowManyCounts ==
    ASSUME NEW S, NEW s \in Seq(S), NEW K
    PROVE  IsFiniteSet(Where(s, K)) /\ HowMany(s, K) \in Nat
<1>1. IsFiniteSet(1 .. Len(s))
  BY LenProperties, FS_Interval
<1>2. Where(s, K) \in SUBSET (1 .. Len(s))
  BY DEF Where
<1> QED
  BY <1>1, <1>2, FS_Subset, FS_CardinalityType DEF HowMany

LEMMA HowManyOfNone == \A K : HowMany(<<>>, K) = 0
<1>1. \A K : Where(<<>>, K) = {}
  BY DEF Where
<1> QED
  BY <1>1, FS_EmptySet DEF HowMany

LEMMA HowManyOfOne ==
    ASSUME NEW e, NEW K
    PROVE  HowMany(<<e>>, K) = IF e \in K THEN 1 ELSE 0
<1>1. Where(<<e>>, K) = IF e \in K THEN {1} ELSE {}
  BY DEF Where
<1> QED
  BY <1>1, FS_EmptySet, FS_Singleton DEF HowMany

(* Two queues, one behind the other, hold what both hold: the places of    *)
(* the second move behind those of the first.                              *)
LEMMA HowManyJoined ==
    ASSUME NEW S, NEW s \in Seq(S), NEW t \in Seq(S), NEW K
    PROVE  HowMany(s \o t, K) = HowMany(s, K) + HowMany(t, K)
<1> DEFINE c == s \o t
           F == Where(s, K)
           T == Where(t, K)
           M == {i \in Where(c, K) : i > Len(s)}
           shift == [i \in T |-> Len(s) + i]
<1>1. /\ c \in Seq(S) /\ Len(c) = Len(s) + Len(t)
      /\ \A i \in 1 .. Len(s) + Len(t) : c[i] = IF i <= Len(s) THEN s[i] ELSE t[i - Len(s)]
  BY ConcatProperties
<1>2. Len(s) \in Nat /\ Len(t) \in Nat
  BY LenProperties
<1> HIDE DEF c
<1>3. /\ IsFiniteSet(F) /\ HowMany(s, K) \in Nat /\ IsFiniteSet(T) /\ HowMany(t, K) \in Nat
  BY HowManyCounts
<1>4. \A i \in 1 .. Len(s) : i \in 1 .. Len(c) /\ c[i] = s[i]
  BY <1>1, <1>2
<1>5. \A i \in 1 .. Len(t) : Len(s) + i \in 1 .. Len(c) /\ c[Len(s) + i] = t[i]
  <2> SUFFICES ASSUME NEW i \in 1 .. Len(t)
               PROVE  Len(s) + i \in 1 .. Len(c) /\ c[Len(s) + i] = t[i]
    OBVIOUS
  <2>1. /\ Len(s) + i \in 1 .. Len(s) + Len(t) /\ ~(Len(s) + i <= Len(s))
        /\ (Len(s) + i) - Len(s) = i
    BY <1>2
  <2> QED
    BY <1>1, <2>1
<1>6. ASSUME NEW i \in 1 .. Len(c)
      PROVE  \/ i \in 1 .. Len(s)
             \/ i > Len(s) /\ i - Len(s) \in 1 .. Len(t) /\ c[i] = t[i - Len(s)]
  <2>1. i \in 1 .. Len(s) + Len(t)
    BY <1>1
  <2>2. CASE i <= Len(s)
    BY <1>2, <2>1, <2>2
  <2>3. CASE ~(i <= Len(s))
    <3>1. i > Len(s) /\ i - Len(s) \in 1 .. Len(t)
      BY <1>2, <2>1, <2>3
    <3>2. c[i] = t[i - Len(s)]
      BY <1>1, <2>1, <2>3
    <3> QED
      BY <3>1, <3>2
  <2> QED
    BY <2>2, <2>3
<1>7. Where(c, K) = F \cup M /\ F \cap M = {}
  BY <1>2, <1>4, <1>5, <1>6 DEF Where
<1>8. \A i \in T : i \in Int /\ Len(s) + i \in M
  BY <1>2, <1>4, <1>5, <1>6 DEF Where
<1>9. \A i \in M : i \in Int /\ i - Len(s) \in T
  BY <1>2, <1>4, <1>5, <1>6 DEF Where
<1>10. shift \in [T -> M] /\ \A i \in T : shift[i] = Len(s) + i
  BY <1>8
<1>11. \A a, b \in T : shift[a] = shift[b] => a = b
  BY <1>2, <1>8, <1>10
<1>12. \A i \in M : \E j \in T : shift[j] = i
  <2> SUFFICES ASSUME NEW i \in M PROVE shift[i - Len(s)] = i /\ i - Len(s) \in T
    OBVIOUS
  <2> QED
    BY <1>2, <1>9, <1>10
<1> HIDE DEF F, T, M, shift
<1>13. shift \in Bijection(T, M)
  BY <1>10, <1>11, <1>12, Fun_IsBij
<1>14. IsFiniteSet(M) /\ Cardinality(M) = Cardinality(T)
  BY <1>3, <1>13, FS_Bijection, Fun_ExistsBij
<1>15. Cardinality(F \cup M) = Cardinality(F) + Cardinality(M)
  <2>1. /\ Cardinality(F \cup M) = Cardinality(F) + Cardinality(M) - Cardinality(F \cap M)
        /\ Cardinality(F \cap M) = 0
    BY <1>3, <1>7, <1>14, FS_Union, FS_EmptySet
  <2>2. Cardinality(F) \in Nat /\ Cardinality(M) \in Nat
    BY <1>3, <1>14, FS_CardinalityType
  <2> QED
    BY <2>1, <2>2
<1> QED
  BY <1>7, <1>14, <1>15 DEF HowMany, F, T, c

(* What is appended counts if it is of the kind.                           *)
LEMMA HowManyAppended ==
    ASSUME NEW S, NEW s \in Seq(S), NEW e \in S, NEW K
    PROVE  HowMany(Append(s, e), K) = HowMany(s, K) + (IF e \in K THEN 1 ELSE 0)
<1>1. Append(s, e) = s \o <<e>> /\ <<e>> \in Seq(S)
  OBVIOUS
<1>2. HowMany(s \o <<e>>, K) = HowMany(s, K) + HowMany(<<e>>, K)
  BY <1>1, HowManyJoined
<1>3. HowMany(<<e>>, K) = IF e \in K THEN 1 ELSE 0
  BY HowManyOfOne
<1> QED
  BY <1>1, <1>2, <1>3

(* The front and the rest count together what they counted as one.         *)
LEMMA HowManyTaken ==
    ASSUME NEW S, NEW s \in Seq(S), NEW m \in 1 .. Len(s), NEW K
    PROVE  HowMany(s, K) = HowMany(SubSeq(s, 1, m), K) + HowMany(SubSeq(s, m + 1, Len(s)), K)
<1>1. s = SubSeq(s, 1, m) \o SubSeq(s, m + 1, Len(s))
  <2>1. /\ SubSeq(s, 1, m) \in Seq(S) /\ SubSeq(s, m + 1, Len(s)) \in Seq(S)
        /\ Len(SubSeq(s, 1, m)) = m /\ Len(SubSeq(s, m + 1, Len(s))) = Len(s) - m
        /\ \A i \in 1 .. m : SubSeq(s, 1, m)[i] = s[i]
        /\ \A i \in 1 .. Len(s) - m : SubSeq(s, m + 1, Len(s))[i] = s[m + i]
    BY TakeFront
  <2> DEFINE f == SubSeq(s, 1, m)
             r == SubSeq(s, m + 1, Len(s))
  <2> HIDE DEF f, r
  <2>2. /\ f \in Seq(S) /\ r \in Seq(S) /\ Len(f) = m /\ Len(r) = Len(s) - m
        /\ \A i \in 1 .. m : f[i] = s[i]
        /\ \A i \in 1 .. Len(s) - m : r[i] = s[m + i]
    BY <2>1 DEF f, r
  <2>3. /\ f \o r \in Seq(S) /\ Len(f \o r) = Len(f) + Len(r)
        /\ \A i \in 1 .. Len(f) + Len(r) :
              (f \o r)[i] = IF i <= Len(f) THEN f[i] ELSE r[i - Len(f)]
    BY <2>2, ConcatProperties
  <2>4. Len(f \o r) = Len(s) /\ \A i \in 1 .. Len(s) : (f \o r)[i] = s[i]
    <3>1. Len(s) \in Nat /\ m \in Nat /\ m <= Len(s)
      BY LenProperties
    <3>2. Len(f) + Len(r) = Len(s)
      BY <2>2, <3>1
    <3> SUFFICES ASSUME NEW i \in 1 .. Len(s) PROVE (f \o r)[i] = s[i]
      BY <2>3, <3>2
    <3>0. i \in Nat /\ 1 <= i /\ i <= Len(s)
      BY <3>1
    <3>3. CASE i <= m
      <4>1. i \in 1 .. m
        BY <3>0, <3>1, <3>3
      <4>2. (f \o r)[i] = f[i]
        BY <2>2, <2>3, <3>2, <3>3
      <4> QED
        BY <2>2, <4>1, <4>2
    <3>4. CASE i > m
      <4>1. i - m \in 1 .. Len(s) - m /\ m + (i - m) = i /\ ~(i <= m)
        BY <3>0, <3>1, <3>4
      <4>2. r[i - m] = s[i]
        BY <2>2, <4>1
      <4>3. (f \o r)[i] = r[i - m]
        BY <2>2, <2>3, <3>2, <4>1
      <4> QED
        BY <4>2, <4>3
    <3>5. i <= m \/ i > m
      BY <3>0, <3>1
    <3> QED
      BY <3>3, <3>4, <3>5, Zenon
  <2>5. f \o r = s
    BY <2>3, <2>4, SeqEqual
  <2> QED
    BY <2>5 DEF f, r
<1>2. SubSeq(s, 1, m) \in Seq(S) /\ SubSeq(s, m + 1, Len(s)) \in Seq(S)
  BY TakeFront
<1>3. \A f, r \in Seq(S) : HowMany(f \o r, K) = HowMany(f, K) + HowMany(r, K)
  BY HowManyJoined
<1> QED
  BY <1>1, <1>2, <1>3, Zenon

(* What is read counted if it was of the kind.                             *)
LEMMA HowManyRead ==
    ASSUME NEW S, NEW s \in Seq(S), s # <<>>, NEW K
    PROVE  HowMany(s, K) = HowMany(Tail(s), K) + (IF Head(s) \in K THEN 1 ELSE 0)
<1>1. s = <<Head(s)>> \o Tail(s) /\ <<Head(s)>> \in Seq(S) /\ Tail(s) \in Seq(S)
  OBVIOUS
<1>2. HowMany(s, K) = HowMany(<<Head(s)>>, K) + HowMany(Tail(s), K)
  <2>1. \A f, r \in Seq(S) : HowMany(f \o r, K) = HowMany(f, K) + HowMany(r, K)
    BY HowManyJoined
  <2> QED
    BY <1>1, <2>1, Zenon
<1>3. HowMany(<<Head(s)>>, K) = IF Head(s) \in K THEN 1 ELSE 0
  BY HowManyOfOne
<1>4. HowMany(Tail(s), K) \in Nat
  BY <1>1, HowManyCounts
<1> QED
  BY <1>2, <1>3, <1>4

-----------------------------------------------------------------------------
(* The core was held no longer than the heartbeat has been away, and what  *)
(* a heartbeat came after is in the gap (embassy_i2c.rs 113-120, 235-245). *)
BusInv ==
    /\ clock \in Nat /\ last \in Nat /\ blocked \in Nat /\ maxGap \in Nat /\ shown \in Nat
    /\ last + blocked <= clock
    /\ shown <= maxGap
    /\ BlockingShows

LEMMA BusInvHolds == Spec => []BusInv
<1>1. Init => BusInv
  BY DEF Init, I2c!Init, BusInv, BlockingShows, I2c!BlockingShows
<1>2. BusInv /\ [Next]_vars => BusInv'
  <2> SUFFICES ASSUME BusInv, [Next]_vars PROVE BusInv'
    OBVIOUS
  <2>0. /\ clock \in Nat /\ last \in Nat /\ blocked \in Nat /\ maxGap \in Nat /\ shown \in Nat
        /\ last + blocked <= clock
        /\ shown <= maxGap
        /\ report.shown <= report.gap
    BY DEF BusInv, BlockingShows, I2c!BlockingShows
  <2>1. CASE UNCHANGED busVars
    BY <2>1 DEF busVars, BusInv, BlockingShows, I2c!BlockingShows
  <2>2. CASE I2c!Tick
    BY <2>0, <2>2 DEF I2c!Tick, BusInv, BlockingShows, I2c!BlockingShows
  <2>3. CASE I2c!Heartbeat
    BY <2>0, <2>3 DEF I2c!Heartbeat, I2c!LongestGap, I2c!MaxOf, BusInv, BlockingShows,
                      I2c!BlockingShows
  <2>4. CASE I2c!Parks \/ I2c!Polled
    BY <2>0, <2>4 DEF I2c!Parks, I2c!Polled, BusInv, BlockingShows, I2c!BlockingShows
  <2>5. ASSUME NEW from, NEW to, I2c!BusStep(from, to)
        PROVE  BusInv'
    <3>1. /\ UNCHANGED <<clock, last>> /\ blocked' = 0 /\ shown' = 0
          /\ maxGap' \in {0, maxGap}
      BY <2>5 DEF I2c!BusStep, I2c!Goto
    <3>2. report' \in {report, [gap |-> maxGap, shown |-> shown]}
      BY <2>5 DEF I2c!BusStep, I2c!Reported
    <3> QED
      BY <2>0, <3>1, <3>2 DEF BusInv, BlockingShows, I2c!BlockingShows
  <2>6. CASE I2c!NextPass
    BY <2>0, <2>6 DEF I2c!NextPass, I2c!Goto, BusInv, BlockingShows, I2c!BlockingShows
  <2>7. CASE I2c!Next
    BY <2>2, <2>3, <2>4, <2>5, <2>6, <2>7 DEF I2c!Next, I2c!Probed, I2c!Absent, I2c!Present,
       I2c!LongRead, I2c!CompletedFirst, I2c!DroppedMidTransfer, I2c!NextTransfer
  <2> QED
    BY <2>1, <2>7 DEF Next, IrqPart, BurstPart, EchoPart, I2cPart, IdlePart, vars
<1> QED
  BY <1>1, <1>2, PTL DEF Spec

(* A transfer that held the core shows in the gap it reports, for any      *)
(* period, timeout and length of a run (embassy_i2c.rs 113-120, 235-245).  *)
THEOREM BlockingIsShown == Spec => []BlockingShows
<1>1. BusInv => BlockingShows
  BY DEF BusInv
<1> QED
  BY BusInvHolds, <1>1, PTL

-----------------------------------------------------------------------------
(* Matches are injected only while no deadline is queued, by the task or   *)
(* by a handler it waits for, and an alarm that is late for a deadline has *)
(* matched already (embassy_time_idle.rs 62-65, 121-128, 222-247).         *)
ProbeInv ==
    /\ deadline \in 0 .. Idle!None /\ alarm \in 0 .. Idle!None
    /\ target \in [{"task", "handler"} -> 0 .. INJECT_INTERVAL]
    /\ deadline # Idle!None => match \/ alarm <= deadline
    /\ probePc \in {"aim", "write", "check", "read", "spin"} => deadline = Idle!None
    /\ inject => probePc \in {"aim", "write", "check", "read", "spin"}
    /\ probeIrq \in {"aim", "write", "check"} => inject

LEMMA ProbeInvHolds == Spec => []ProbeInv
<1>0. /\ Clamp \in Nat /\ Delay \in 1 .. Clamp /\ INJECT_INTERVAL \in 1 .. Clamp
      /\ Idle!None = Clamp + 1
  BY SizeAssumption DEF Idle!None
<1>1. Init => ProbeInv
  <2> SUFFICES ASSUME Init PROVE ProbeInv
    OBVIOUS
  <2>1. Idle!Init
    BY DEF Init
  <2> QED
    BY <1>0, <2>1 DEF Idle!Init, ProbeInv
<1>2. ProbeInv /\ [Next]_vars => ProbeInv'
  <2> SUFFICES ASSUME ProbeInv, [Next]_vars PROVE ProbeInv'
    OBVIOUS
  <2>0. /\ deadline \in 0 .. Idle!None /\ alarm \in 0 .. Idle!None
        /\ target \in [{"task", "handler"} -> 0 .. INJECT_INTERVAL]
        /\ deadline # Idle!None => match \/ alarm <= deadline
        /\ probePc \in {"aim", "write", "check", "read", "spin"} => deadline = Idle!None
        /\ inject => probePc \in {"aim", "write", "check", "read", "spin"}
        /\ probeIrq \in {"aim", "write", "check"} => inject
    BY DEF ProbeInv
  <2>1. CASE UNCHANGED probeVars
    BY <2>1 DEF probeVars, ProbeInv
  <2>2. CASE Idle!Tick
    <3>1. /\ UNCHANGED <<probePc, probeIrq, inject>>
          /\ deadline' = (IF deadline \in {0, Idle!None} THEN deadline ELSE deadline - 1)
          /\ alarm' = (IF alarm = 1 THEN Idle!None
                       ELSE IF alarm \in {0, Idle!None} THEN alarm ELSE alarm - 1)
          /\ match' = (match \/ alarm = 1)
      BY <2>2 DEF Idle!Tick, Idle!Down
    <3>2. \A w \in {"task", "handler"} : Idle!Down(target[w]) \in 0 .. INJECT_INTERVAL
      BY <1>0, <2>0 DEF Idle!Down
    <3>3. target' \in [{"task", "handler"} -> 0 .. INJECT_INTERVAL]
      BY <2>2, <3>2 DEF Idle!Tick
    <3>4. deadline' \in 0 .. Idle!None /\ alarm' \in 0 .. Idle!None
      BY <1>0, <2>0, <3>1
    <3>5. deadline' # Idle!None => match' \/ alarm' <= deadline'
      <4>1. CASE match \/ alarm = 1
        BY <3>1, <4>1
      <4>2. CASE alarm # 1 /\ alarm <= deadline /\ deadline # Idle!None
        BY <1>0, <2>0, <3>1, <4>2
      <4>3. CASE deadline = Idle!None
        BY <3>1, <4>3
      <4> QED
        BY <2>0, <4>1, <4>2, <4>3
    <3>6. deadline = Idle!None => deadline' = Idle!None
      BY <3>1
    <3> QED
      BY <2>0, <3>1, <3>3, <3>4, <3>5, <3>6 DEF ProbeInv
  <2>3. CASE Idle!TakeIrq
    BY <1>0, <2>0, <2>3 DEF Idle!TakeIrq, Idle!NextAlarm, ProbeInv
  <2>4. CASE Idle!Handle
    BY <2>0, <2>4 DEF Idle!Handle, ProbeInv
  <2>5. CASE Idle!HandlerAims
    BY <1>0, <2>0, <2>5 DEF Idle!HandlerAims, Idle!Aim, ProbeInv
  <2>6. CASE Idle!HandlerWrites
    BY <1>0, <2>0, <2>6 DEF Idle!HandlerWrites, Idle!Write, ProbeInv
  <2>7. CASE Idle!HandlerChecks
    BY <2>0, <2>7 DEF Idle!HandlerChecks, ProbeInv
  <2>8. CASE Idle!StartInjecting
    BY <2>0, <2>8 DEF Idle!StartInjecting, Idle!Task, Idle!Unarmed, ProbeInv
  <2>9. CASE Idle!TaskAims
    BY <1>0, <2>0, <2>9 DEF Idle!TaskAims, Idle!Task, Idle!Aim, ProbeInv
  <2>10. CASE Idle!TaskWrites
    BY <1>0, <2>0, <2>10 DEF Idle!TaskWrites, Idle!Task, Idle!Write, ProbeInv
  <2>11. CASE Idle!TaskChecks \/ Idle!KeyPressed
    BY <2>0, <2>11 DEF Idle!TaskChecks, Idle!KeyPressed, Idle!Task, Idle!Unarmed, ProbeInv
  <2>12. CASE Idle!Phase4
    BY <1>0, <2>0, <2>12 DEF Idle!Phase4, Idle!Task, Idle!InjectionOver, ProbeInv
  <2>13. CASE Idle!Done
    BY <2>0, <2>13 DEF Idle!Done, Idle!Task, Idle!Unarmed, ProbeInv
  <2>14. CASE Idle!Next
    BY <2>2, <2>3, <2>4, <2>5, <2>6, <2>7, <2>8, <2>9, <2>10, <2>11, <2>12, <2>13, <2>14
    DEF Idle!Next, Idle!Handler, Idle!TaskStep
  <2> QED
    BY <2>1, <2>14 DEF Next, IrqPart, BurstPart, EchoPart, I2cPart, IdlePart, vars
<1> QED
  BY <1>1, <1>2, PTL DEF Spec

(* A deadline the task awaits keeps its alarm, however many matches are    *)
(* injected and wherever the interrupt is taken (embassy_time_idle.rs      *)
(* 62-65, 121-128).                                                        *)
THEOREM DeadlineIsSpared == Spec => []NeverPoisoned
<1>1. ProbeInv => NeverPoisoned
  BY DEF ProbeInv, NeverPoisoned, Idle!NeverPoisoned
<1> QED
  BY ProbeInvHolds, <1>1, PTL

-----------------------------------------------------------------------------
(* The client's bytes on their way: those in s, as far as it sent them, in *)
(* order.                                                                  *)
Mine(s, who, upTo) ==
    /\ s \in Seq(Echo!Bytes)
    /\ \A i \in 1 .. Len(s) : s[i].of = who /\ s[i].at <= upTo
    /\ \A i, j \in 1 .. Len(s) : i < j => s[i].at < s[j].at

Ahead(s, t) == \A i \in 1 .. Len(s), j \in 1 .. Len(t) : s[i].at < t[j].at

(* What the last read put in buf, until it is written.                     *)
Held == IF echoPc = "write" THEN Echo!Filled ELSE <<>>

(* The bytes echoed, those in buf and those still to be read are this      *)
(* client's, one after the other (embassy_net_echo.rs 133-142).            *)
EchoInv ==
    /\ client \in 0 .. MaxClients /\ sent \in 0 .. MaxBytes /\ tx \in 0 .. TxBuffer
    /\ peer = "open" => client > 0
    /\ buf \in [1 .. Buf -> Echo!Bytes \cup {Echo!Blank}]
    /\ echoPc = "write" => n \in 1 .. Buf
    /\ Mine(echoed, client, sent) /\ Mine(Held, client, sent) /\ Mine(rx, client, sent)
    /\ Ahead(echoed, Held) /\ Ahead(Held, rx) /\ Ahead(echoed, rx)

LEMMA NothingIsMine ==
    ASSUME NEW who, NEW upTo
    PROVE  /\ Mine(<<>>, who, upTo)
           /\ \A s : Ahead(<<>>, s) /\ Ahead(s, <<>>)
<1>1. <<>> \in Seq(Echo!Bytes) /\ Len(<<>>) = 0
  BY EmptySeq
<1> QED
  BY <1>1 DEF Mine, Ahead

(* The next byte of the client comes after all of its others.              *)
LEMMA NextByte ==
    ASSUME NEW who \in 1 .. MaxClients, NEW k \in 0 .. MaxBytes, k < MaxBytes,
           NEW s, Mine(s, who, k), NEW t, Mine(t, who, k), Ahead(t, s)
    PROVE  LET e == [of |-> who, at |-> k + 1] IN
           Mine(Append(s, e), who, k + 1) /\ Mine(t, who, k + 1) /\ Ahead(t, Append(s, e))
<1> DEFINE e == [of |-> who, at |-> k + 1]
           a == Append(s, e)
<1>1. MaxClients \in Nat /\ MaxBytes \in Nat
  BY SizeAssumption
<1>2. e \in Echo!Bytes /\ e.of = who /\ e.at = k + 1
  BY <1>1 DEF Echo!Bytes
<1>3. s \in Seq(Echo!Bytes) /\ t \in Seq(Echo!Bytes)
  BY DEF Mine
<1> HIDE DEF e
<1>4. /\ a \in Seq(Echo!Bytes) /\ Len(a) = Len(s) + 1 /\ Len(s) \in Nat /\ Len(t) \in Nat
      /\ \A i \in 1 .. Len(s) : a[i] = s[i]
      /\ a[Len(s) + 1] = e
  BY <1>2, <1>3, AppendProperties, LenProperties
<1> HIDE DEF a
<1>5. \A i \in 1 .. Len(a) : i \in 1 .. Len(s) \/ i = Len(s) + 1
  BY <1>4
<1>6. /\ \A i \in 1 .. Len(s) : s[i].at \in Nat /\ s[i].at <= k
      /\ \A i \in 1 .. Len(t) : t[i].at \in Nat /\ t[i].at <= k
  <2>1. \A b \in Echo!Bytes : b.at \in Nat
    BY <1>1 DEF Echo!Bytes
  <2>2. \A i \in 1 .. Len(s) : s[i] \in Echo!Bytes
    BY <1>3, ElementOfSeq
  <2>3. \A i \in 1 .. Len(t) : t[i] \in Echo!Bytes
    BY <1>3, ElementOfSeq
  <2> QED
    BY <2>1, <2>2, <2>3 DEF Mine
<1>7. Mine(a, who, k + 1)
  <2>1. \A i \in 1 .. Len(a) : a[i].of = who
    BY <1>2, <1>4, <1>5 DEF Mine
  <2>2. \A i \in 1 .. Len(a) : a[i].at <= k + 1
    <3> SUFFICES ASSUME NEW i \in 1 .. Len(a) PROVE a[i].at <= k + 1
      OBVIOUS
    <3>1. CASE i \in 1 .. Len(s)
      BY <1>4, <1>6, <3>1
    <3>2. CASE i = Len(s) + 1
      BY <1>2, <1>4, <3>2
    <3> QED
      BY <1>5, <3>1, <3>2
  <2>3. ASSUME NEW i \in 1 .. Len(a), NEW j \in 1 .. Len(a), i < j
        PROVE  a[i].at < a[j].at
    <3>1. i \in 1 .. Len(s) /\ a[i] = s[i] /\ s[i].at \in Nat /\ s[i].at <= k
      BY <1>4, <1>6, <2>3
    <3>2. CASE j \in 1 .. Len(s)
      BY <1>4, <2>3, <3>1, <3>2 DEF Mine
    <3>3. CASE j = Len(s) + 1
      BY <1>2, <1>4, <3>1, <3>3
    <3> QED
      BY <1>5, <3>2, <3>3
  <2> QED
    BY <1>4, <2>1, <2>2, <2>3 DEF Mine
<1>8. Mine(t, who, k + 1)
  <2>1. \A i \in 1 .. Len(t) : t[i].at <= k + 1
    BY <1>6
  <2> QED
    BY <1>3, <2>1 DEF Mine
<1>9. Ahead(t, a)
  <2> SUFFICES ASSUME NEW i \in 1 .. Len(t), NEW j \in 1 .. Len(a) PROVE t[i].at < a[j].at
    BY DEF Ahead
  <2>1. CASE j \in 1 .. Len(s)
    BY <1>4, <2>1 DEF Ahead
  <2>2. CASE j = Len(s) + 1
    BY <1>2, <1>4, <1>6, <2>2
  <2> QED
    BY <1>5, <2>1, <2>2
<1> QED
  BY <1>7, <1>8, <1>9 DEF a, e

(* Taking some from the front leaves two parts, one ahead of the other.    *)
LEMMA TakeMine ==
    ASSUME NEW who, NEW k, NEW s, Mine(s, who, k), NEW m \in 1 .. Len(s)
    PROVE  /\ Mine(SubSeq(s, 1, m), who, k) /\ Mine(SubSeq(s, m + 1, Len(s)), who, k)
           /\ Ahead(SubSeq(s, 1, m), SubSeq(s, m + 1, Len(s)))
           /\ \A t : Ahead(t, s) => Ahead(t, SubSeq(s, 1, m)) /\ Ahead(t, SubSeq(s, m + 1, Len(s)))
           /\ \A t : Ahead(s, t) => Ahead(SubSeq(s, 1, m), t)
<1> DEFINE f == SubSeq(s, 1, m)
           r == SubSeq(s, m + 1, Len(s))
<1>1. s \in Seq(Echo!Bytes)
  BY DEF Mine
<1>2. /\ f \in Seq(Echo!Bytes) /\ r \in Seq(Echo!Bytes)
      /\ Len(f) = m /\ Len(r) = Len(s) - m
      /\ \A i \in 1 .. m : f[i] = s[i]
      /\ \A i \in 1 .. Len(s) - m : r[i] = s[m + i]
  BY <1>1, TakeFront
<1>3. Len(s) \in Nat
  BY <1>1, LenProperties
<1> HIDE DEF f, r
<1>4. \A i \in 1 .. Len(f) : i \in 1 .. Len(s) /\ f[i] = s[i]
  BY <1>2, <1>3
<1>5. \A i \in 1 .. Len(r) : m + i \in 1 .. Len(s) /\ r[i] = s[m + i]
  BY <1>2, <1>3
<1>6. Mine(f, who, k)
  BY <1>2, <1>4 DEF Mine
<1>7. Mine(r, who, k)
  <2>1. \A i, j \in 1 .. Len(r) : i < j => m + i < m + j
    BY <1>2, <1>3
  <2> QED
    BY <1>2, <1>5, <2>1 DEF Mine
<1>8. Ahead(f, r)
  <2>1. \A i \in 1 .. Len(f), j \in 1 .. Len(r) : i < m + j
    BY <1>2, <1>3
  <2> QED
    BY <1>4, <1>5, <2>1 DEF Mine, Ahead
<1>9. \A t : Ahead(t, s) => Ahead(t, f) /\ Ahead(t, r)
  BY <1>4, <1>5 DEF Ahead
<1>10. \A t : Ahead(s, t) => Ahead(f, t)
  BY <1>4 DEF Ahead
<1> QED
  BY <1>6, <1>7, <1>8, <1>9, <1>10 DEF f, r

(* One part behind the other.                                              *)
LEMMA JoinMine ==
    ASSUME NEW who, NEW k, NEW s, Mine(s, who, k), NEW t, Mine(t, who, k), Ahead(s, t)
    PROVE  /\ Mine(s \o t, who, k)
           /\ \A u : Ahead(s, u) /\ Ahead(t, u) => Ahead(s \o t, u)
<1> DEFINE c == s \o t
<1>1. s \in Seq(Echo!Bytes) /\ t \in Seq(Echo!Bytes)
  BY DEF Mine
<1>2. /\ c \in Seq(Echo!Bytes) /\ Len(c) = Len(s) + Len(t)
      /\ \A i \in 1 .. Len(s) + Len(t) : c[i] = IF i <= Len(s) THEN s[i] ELSE t[i - Len(s)]
  BY <1>1, ConcatProperties
<1>3. Len(s) \in Nat /\ Len(t) \in Nat
  BY <1>1, LenProperties
<1> HIDE DEF c
<1>4. \A i \in 1 .. Len(c) : \/ i \in 1 .. Len(s) /\ c[i] = s[i]
                             \/ i > Len(s) /\ i - Len(s) \in 1 .. Len(t) /\ c[i] = t[i - Len(s)]
  BY <1>2, <1>3
<1>5. \A i \in 1 .. Len(c) : c[i].of = who /\ c[i].at <= k
  BY <1>4 DEF Mine
<1>6. ASSUME NEW i \in 1 .. Len(c), NEW j \in 1 .. Len(c), i < j
      PROVE  c[i].at < c[j].at
  <2>1. CASE j <= Len(s)
    BY <1>3, <1>4, <1>6, <2>1 DEF Mine
  <2>2. CASE i <= Len(s) /\ j > Len(s)
    <3>1. i \in 1 .. Len(s) /\ c[i] = s[i]
      BY <1>2, <1>3, <1>4, <2>2
    <3>2. j - Len(s) \in 1 .. Len(t) /\ c[j] = t[j - Len(s)]
      BY <1>2, <1>3, <1>4, <2>2
    <3> QED
      BY <3>1, <3>2 DEF Ahead
  <2>3. CASE i > Len(s)
    <3>1. j > Len(s) /\ i - Len(s) < j - Len(s)
      BY <1>2, <1>3, <1>6, <2>3
    <3>2. /\ i - Len(s) \in 1 .. Len(t) /\ c[i] = t[i - Len(s)]
          /\ j - Len(s) \in 1 .. Len(t) /\ c[j] = t[j - Len(s)]
      BY <1>2, <1>3, <1>4, <1>6, <2>3, <3>1
    <3> QED
      BY <3>1, <3>2 DEF Mine
  <2> QED
    BY <1>2, <1>3, <2>1, <2>2, <2>3
<1>7. \A u : Ahead(s, u) /\ Ahead(t, u) => Ahead(c, u)
  BY <1>4 DEF Ahead
<1> QED
  BY <1>2, <1>5, <1>6, <1>7 DEF Mine, c

LEMMA EchoInvHolds == Spec => []EchoInv
<1>0. MaxClients \in Nat /\ MaxBytes \in Nat /\ Buf \in Nat \ {0} /\ TxBuffer \in Nat \ {0}
  BY SizeAssumption
<1>1. Init => EchoInv
  <2> SUFFICES ASSUME Init PROVE EchoInv
    OBVIOUS
  <2>1. Echo!Init
    BY DEF Init
  <2>2. Held = <<>>
    BY <2>1 DEF Echo!Init, Held
  <2>3. buf \in [1 .. Buf -> Echo!Bytes \cup {Echo!Blank}]
    BY <2>1 DEF Echo!Init
  <2> QED
    BY <1>0, <2>1, <2>2, <2>3, NothingIsMine DEF Echo!Init, EchoInv
<1>2. EchoInv /\ [Next]_vars => EchoInv'
  <2> SUFFICES ASSUME EchoInv, [Next]_vars PROVE EchoInv'
    OBVIOUS
  <2>0. /\ client \in 0 .. MaxClients /\ sent \in 0 .. MaxBytes /\ tx \in 0 .. TxBuffer
        /\ peer = "open" => client > 0
        /\ buf \in [1 .. Buf -> Echo!Bytes \cup {Echo!Blank}]
        /\ echoPc = "write" => n \in 1 .. Buf
        /\ Mine(echoed, client, sent) /\ Mine(Held, client, sent) /\ Mine(rx, client, sent)
        /\ Ahead(echoed, Held) /\ Ahead(Held, rx) /\ Ahead(echoed, rx)
    BY DEF EchoInv
  <2>1. CASE UNCHANGED echoVars
    <3>1. Held' = Held
      BY <2>1 DEF echoVars, Held, Echo!Filled
    <3> QED
      BY <2>0, <2>1, <3>1 DEF echoVars, EchoInv, Mine, Ahead
  <2>2. CASE Echo!Sends
    <3>1. /\ sent \in 0 .. MaxBytes /\ sent < MaxBytes /\ sent' = sent + 1
          /\ rx' = Append(rx, [of |-> client, at |-> sent + 1])
          /\ UNCHANGED <<echoPc, client, peer, buf, n, tx, echoed>>
          /\ client \in 1 .. MaxClients
      BY <1>0, <2>0, <2>2 DEF Echo!Sends
    <3>2. Held' = Held
      BY <3>1 DEF Held, Echo!Filled
    <3>3. sent' \in 0 .. MaxBytes
      BY <1>0, <3>1
    <3>4. /\ Mine(rx', client, sent') /\ Mine(echoed, client, sent') /\ Ahead(echoed, rx')
      BY <2>0, <3>1, NextByte
    <3>5. Mine(Held, client, sent') /\ Ahead(Held, rx')
      BY <2>0, <3>1, NextByte
    <3> QED
      BY <2>0, <3>1, <3>2, <3>3, <3>4, <3>5 DEF EchoInv
  <2>3. CASE \E how \in {"closed", "reset"} : Echo!Leaves(how)
    <3>1. /\ UNCHANGED <<echoPc, client, sent, rx, buf, n, tx, echoed>> /\ peer' # "open"
      BY <2>3 DEF Echo!Leaves
    <3>2. Held' = Held
      BY <3>1 DEF Held, Echo!Filled
    <3> QED
      BY <2>0, <3>1, <3>2 DEF EchoInv
  <2>4. CASE Echo!Acknowledges
    <3>1. /\ UNCHANGED <<echoPc, client, peer, sent, rx, buf, n, echoed>> /\ tx' = tx - 1 /\ tx > 0
      BY <2>4 DEF Echo!Acknowledges, Echo!clientVars
    <3>2. Held' = Held
      BY <3>1 DEF Held, Echo!Filled
    <3>3. tx' \in 0 .. TxBuffer
      BY <1>0, <2>0, <3>1
    <3> QED
      BY <2>0, <3>1, <3>2, <3>3 DEF EchoInv
  <2>5. CASE Echo!Accept
    <3>1. /\ echoPc' = "read" /\ client' = client + 1 /\ client < MaxClients /\ sent' = 0
          /\ rx' = <<>> /\ tx' = 0 /\ echoed' = <<>> /\ buf' = buf
      BY <2>5 DEF Echo!Accept
    <3>2. Held' = <<>>
      BY <3>1 DEF Held
    <3>3. client' \in 0 .. MaxClients /\ client' > 0 /\ sent' \in 0 .. MaxBytes /\ tx' \in 0 .. TxBuffer
      BY <1>0, <2>0, <3>1
    <3> QED
      BY <2>0, <3>1, <3>2, <3>3, NothingIsMine DEF EchoInv
  <2>6. CASE Echo!Read
    <3> DEFINE k == Echo!Ready
    <3>1. /\ echoPc = "read" /\ rx # <<>> /\ n' = k
          /\ buf' = [i \in 1 .. Buf |-> IF i <= k THEN rx[i] ELSE buf[i]]
          /\ rx' = SubSeq(rx, k + 1, Len(rx))
          /\ echoPc' = "write" /\ UNCHANGED <<client, peer, sent, tx, echoed>>
      BY <2>6 DEF Echo!Read, Echo!clientVars
    <3>2. rx \in Seq(Echo!Bytes) /\ Len(rx) \in Nat \ {0}
      BY <2>0, <3>1, LenProperties, EmptySeq DEF Mine
    <3>3. k \in 1 .. Len(rx) /\ k \in 1 .. Buf
      BY <1>0, <3>2 DEF Echo!Ready
    <3> HIDE DEF k
    <3>4. \A i \in 1 .. k : rx[i] \in Echo!Bytes
      BY <3>2, <3>3, ElementOfSeq
    <3>5. buf' \in [1 .. Buf -> Echo!Bytes \cup {Echo!Blank}]
      <4>1. \A i \in 1 .. Buf : (IF i <= k THEN rx[i] ELSE buf[i]) \in Echo!Bytes \cup {Echo!Blank}
        BY <2>0, <3>3, <3>4
      <4> QED
        BY <3>1, <4>1
    <3>6. SubSeq(buf', 1, k) = SubSeq(rx, 1, k)
      <4>1. \A i \in 1 .. k : buf'[i] = rx[i]
        BY <1>0, <3>1, <3>3
      <4>2. buf' \in Seq(Echo!Bytes \cup {Echo!Blank}) /\ Len(buf') = Buf
        BY <1>0, <3>5
      <4> QED
        BY <3>2, <3>3, <4>1, <4>2
    <3>7. Held' = SubSeq(rx, 1, k)
      BY <3>1, <3>6 DEF Held, Echo!Filled
    <3>8. Held = <<>>
      BY <3>1 DEF Held
    <3>9. /\ Mine(Held', client, sent) /\ Mine(rx', client, sent) /\ Ahead(Held', rx')
          /\ Ahead(echoed, Held') /\ Ahead(echoed, rx')
      BY <2>0, <3>1, <3>3, <3>7, TakeMine
    <3> QED
      BY <2>0, <3>1, <3>3, <3>5, <3>9 DEF EchoInv
  <2>7. CASE Echo!Write
    <3> DEFINE f == Echo!Filled
               k == IF Len(f) < TxBuffer - tx THEN Len(f) ELSE TxBuffer - tx
    <3>1. /\ echoPc = "write" /\ tx < TxBuffer
          /\ echoed' = echoed \o SubSeq(f, 1, k)
          /\ tx' = tx + Len(SubSeq(f, 1, k))
          /\ echoPc' = "read" /\ UNCHANGED <<client, peer, sent, rx, buf, n>>
      BY <2>7 DEF Echo!Write, Echo!clientVars
    <3>2. Held = f /\ Held' = <<>>
      BY <3>1 DEF Held
    <3>3. Len(f) \in Nat \ {0}
      <4>1. buf \in Seq(Echo!Bytes \cup {Echo!Blank}) /\ Len(buf) = Buf
        BY <1>0, <2>0
      <4>2. n \in 1 .. Buf
        BY <2>0, <3>1
      <4>3. n \in 1 .. Len(buf)
        BY <4>1, <4>2
      <4>4. Len(SubSeq(buf, 1, n)) = n
        BY <4>1, <4>3, TakeFront
      <4> QED
        BY <1>0, <4>2, <4>4 DEF Echo!Filled
    <3>4. k \in 1 .. Len(f) /\ k <= TxBuffer - tx
      BY <1>0, <2>0, <3>1, <3>3
    <3>5. f \in Seq(Echo!Bytes)
      BY <2>0, <3>2 DEF Mine
    <3> HIDE DEF f, k
    <3>6. Len(SubSeq(f, 1, k)) = k
      BY <3>4, <3>5, TakeFront
    <3>7. tx' \in 0 .. TxBuffer
      BY <1>0, <2>0, <3>1, <3>3, <3>4, <3>6
    <3>8. /\ Mine(f, client, sent) /\ Ahead(f, rx) /\ Ahead(echoed, f)
      BY <2>0, <3>2
    <3>9. /\ Mine(SubSeq(f, 1, k), client, sent) /\ Ahead(SubSeq(f, 1, k), rx)
          /\ Ahead(echoed, SubSeq(f, 1, k))
      BY <3>4, <3>8, TakeMine
    <3>10. Mine(echoed', client, sent) /\ Ahead(echoed', rx)
      BY <2>0, <3>1, <3>9, JoinMine
    <3> QED
      BY <2>0, <3>1, <3>2, <3>7, <3>10, NothingIsMine DEF EchoInv
  <2>8. CASE Echo!ReadEnds \/ Echo!WriteFails
    <3>1. /\ echoPc' = "accept" /\ peer' = "none" /\ UNCHANGED <<client, sent, rx, buf, n, tx, echoed>>
      BY <2>8 DEF Echo!ReadEnds, Echo!WriteFails, Echo!Abort
    <3>2. Held' = <<>>
      BY <3>1 DEF Held
    <3> QED
      BY <2>0, <3>1, <3>2, NothingIsMine DEF EchoInv
  <2>9. CASE Echo!Next
    BY <2>2, <2>3, <2>4, <2>5, <2>6, <2>7, <2>8, <2>9 DEF Echo!Next, Echo!ServerStep
  <2> QED
    BY <2>1, <2>9 DEF Next, IrqPart, BurstPart, EchoPart, I2cPart, IdlePart, vars
<1> QED
  BY <1>1, <1>2, PTL DEF Spec

(* A client is echoed its own bytes, in order and none twice, whatever the *)
(* sizes of the buffers and wherever it closes or resets                   *)
(* (embassy_net_echo.rs 133-142).                                          *)
THEOREM OwnBytesOnly == Spec => []EchoesOwnBytes
<1>1. EchoInv => EchoesOwnBytes
  BY DEF EchoInv, Mine, EchoesOwnBytes, Echo!EchoesOwnBytes
<1> QED
  BY EchoInvHolds, <1>1, PTL

-----------------------------------------------------------------------------
(* The burst's own datagrams in a queue, and on their way.                 *)
Own(q) == HowMany(q, Totals)

InFlight == host.unsent + Own(chip) + Own(transfer) + Own(rxQueue) + Own(socket)

Queues ==
    /\ chip \in Seq({host.total, Burst!Foreign})
    /\ transfer \in Seq({host.total, Burst!Foreign})
    /\ rxQueue \in Seq({host.total, Burst!Foreign})
    /\ socket \in Seq({host.total, Burst!Foreign})

Bursts(total) ==
    [total : {total}, received : Nat, frames : 0 .. Wrap32 - 1, batched : 0 .. Wrap32 - 1]

(* Every datagram of the host's burst is unsent, on its way, lost or       *)
(* received, and once the burst is taken nothing of it is left to come     *)
(* (embassy_net_burst.rs 218-223, 319-339).                                *)
Reckoned ==
    \/ /\ burst = Burst!NoBurst
       /\ host.lost <= host.total
       /\ InFlight = 0 \/ InFlight + host.lost = host.total
    \/ /\ burst \in Bursts(host.total) /\ host.total \in Totals
       /\ InFlight + host.lost + burst.received = host.total

BurstInv ==
    /\ host \in [total : Totals \cup {0}, unsent : Nat, lost : Nat]
    /\ carried \in 0 .. Transfer
    /\ stats \in [{"frames", "batched"} -> 0 .. Wrap32 - 1]
    /\ Queues /\ Reckoned
    /\ LossExact

LEMMA OwnCounts ==
    ASSUME Queues
    PROVE  Own(chip) \in Nat /\ Own(transfer) \in Nat /\ Own(rxQueue) \in Nat /\ Own(socket) \in Nat
BY HowManyCounts DEF Own, Queues

(* Of what the path carries, the burst's own is what is not foreign.       *)
LEMMA OwnIsNotForeign ==
    ASSUME host.total \in Totals \cup {0}, NEW e \in {host.total, Burst!Foreign}
    PROVE  /\ e \in Totals <=> e # Burst!Foreign
           /\ e # Burst!Foreign => e = host.total /\ host.total \in Totals
BY SizeAssumption DEF Burst!Foreign

LEMMA BurstInvHolds == Spec => []BurstInv
<1>0. /\ Totals \subseteq Nat \ {0} /\ Transfer \in Nat \ {0} /\ RxQueue \in Nat \ {0}
      /\ Wrap32 \in Nat \ {0}
  BY SizeAssumption
<1>1. Init => BurstInv
  <2> SUFFICES ASSUME Init PROVE BurstInv
    OBVIOUS
  <2>1. Burst!Init
    BY DEF Init
  <2>2. /\ host = [total |-> 0, unsent |-> 0, lost |-> 0]
        /\ chip = <<>> /\ transfer = <<>> /\ carried = 0 /\ rxQueue = <<>> /\ socket = <<>>
        /\ burst = Burst!NoBurst
        /\ line = [lost |-> 0, missing |-> 0, frames |-> 0, batched |-> 0]
    BY <2>1 DEF Burst!Init
  <2>3. stats \in [{"frames", "batched"} -> 0 .. Wrap32 - 1]
    <3>1. stats \in [frames : {0, Wrap32 - 1}, batched : {0}]
      BY <2>1 DEF Burst!Init
    <3>2. [frames : {0, Wrap32 - 1}, batched : {0}] \subseteq [{"frames", "batched"} -> 0 .. Wrap32 - 1]
      <4> SUFFICES ASSUME NEW f \in {0, Wrap32 - 1}, NEW b \in {0}
                   PROVE  [frames |-> f, batched |-> b] \in [{"frames", "batched"} -> 0 .. Wrap32 - 1]
        OBVIOUS
      <4>1. f \in 0 .. Wrap32 - 1 /\ b \in 0 .. Wrap32 - 1
        BY <1>0
      <4> QED
        BY <4>1
    <3> QED
      BY <3>1, <3>2
  <2>4. Queues
    BY <2>2, EmptySeq DEF Queues
  <2>5. Own(<<>>) = 0
    BY HowManyOfNone DEF Own
  <2>6. Reckoned
    BY <2>2, <2>5 DEF Reckoned, InFlight
  <2>7. LossExact
    BY <2>2 DEF LossExact, Burst!LossExact
  <2> QED
    BY <1>0, <2>2, <2>3, <2>4, <2>6, <2>7 DEF BurstInv
<1>2. BurstInv /\ [Next]_vars => BurstInv'
  <2> SUFFICES ASSUME BurstInv, [Next]_vars PROVE BurstInv'
    OBVIOUS
  <2> DEFINE Q == {host.total, Burst!Foreign}
  <2>0. /\ host \in [total : Totals \cup {0}, unsent : Nat, lost : Nat]
        /\ carried \in 0 .. Transfer
        /\ stats \in [{"frames", "batched"} -> 0 .. Wrap32 - 1]
        /\ Queues /\ Reckoned
        /\ line.lost = line.missing
    BY DEF BurstInv, LossExact, Burst!LossExact
  <2>01. /\ chip \in Seq(Q) /\ transfer \in Seq(Q) /\ rxQueue \in Seq(Q) /\ socket \in Seq(Q)
    BY <2>0 DEF Queues
  <2>02. Own(chip) \in Nat /\ Own(transfer) \in Nat /\ Own(rxQueue) \in Nat /\ Own(socket) \in Nat
    BY <2>0, OwnCounts
  <2>03. host.total \in Totals \cup {0} /\ host.total \in Nat /\ host.unsent \in Nat /\ host.lost \in Nat
    <3>1. host.total \in Totals \cup {0} /\ host.unsent \in Nat /\ host.lost \in Nat
      BY <2>0
    <3>2. \A total \in Totals \cup {0} : total \in Nat
      BY <1>0
    <3> QED
      BY <3>1, <3>2, Zenon
  <2>04. ASSUME host' = host, burst' = burst, InFlight' = InFlight
         PROVE  Reckoned'
    BY <2>0, <2>04 DEF Reckoned
  <2> HIDE DEF Q
  <2>1. CASE UNCHANGED burstVars
    <3>1. InFlight' = InFlight
      BY <2>1 DEF burstVars, InFlight, Own
    <3> QED
      BY <2>0, <2>1, <2>04, <3>1 DEF burstVars, BurstInv, Queues, LossExact, Burst!LossExact
  <2>2. ASSUME NEW t \in Totals, Burst!HostBegins(t) PROVE BurstInv'
    <3>1. /\ host' = [total |-> t, unsent |-> t, lost |-> 0]
          /\ UNCHANGED <<chip, transfer, carried, rxQueue, socket, stats, burst, line>>
          /\ burst = Burst!NoBurst
          /\ chip = <<>> /\ transfer = <<>> /\ rxQueue = <<>> /\ socket = <<>>
      BY <2>2 DEF Burst!HostBegins, Burst!pathVars, Burst!Silence
    <3>2. Queues'
      BY <3>1, EmptySeq DEF Queues
    <3>3. Own(<<>>) = 0
      BY HowManyOfNone DEF Own
    <3>4. t \in Nat /\ host'.total = t /\ host'.unsent = t /\ host'.lost = 0
      BY <1>0, <3>1
    <3>5. /\ InFlight' = host'.unsent + Own(chip') + Own(transfer') + Own(rxQueue') + Own(socket')
          /\ chip' = <<>> /\ transfer' = <<>> /\ rxQueue' = <<>> /\ socket' = <<>>
      BY <3>1 DEF InFlight, Own
    <3>6. InFlight' = t
      BY <3>3, <3>4, <3>5
    <3>7. Reckoned'
      BY <3>1, <3>4, <3>6 DEF Reckoned
    <3>8. host' \in [total : Totals \cup {0}, unsent : Nat, lost : Nat]
      BY <3>1, <3>4
    <3> QED
      BY <2>0, <3>1, <3>2, <3>7, <3>8 DEF BurstInv, LossExact, Burst!LossExact
  <2>3. CASE Burst!HostSends
    <3>1. /\ host.unsent > 0
          /\ UNCHANGED <<transfer, carried, rxQueue, socket, stats, burst, line>>
          /\ \/ chip' = Append(chip, host.total) /\ host' = [host EXCEPT !.unsent = @ - 1]
             \/ chip' = chip /\ host' = [host EXCEPT !.unsent = @ - 1, !.lost = @ + 1]
      BY <2>3 DEF Burst!HostSends
    <3>2. /\ host' \in [total : Totals \cup {0}, unsent : Nat, lost : Nat]
          /\ host'.total = host.total /\ host'.unsent = host.unsent - 1
      <4>1. host.unsent - 1 \in Nat /\ host.lost + 1 \in Nat
        BY <2>03, <3>1
      <4>2. CASE host' = [host EXCEPT !.unsent = @ - 1]
        BY <2>0, <4>1, <4>2
      <4>3. CASE host' = [host EXCEPT !.unsent = @ - 1, !.lost = @ + 1]
        BY <2>0, <4>1, <4>3
      <4> QED
        BY <3>1, <4>2, <4>3
    <3>3. host.total \in Totals
      BY <2>0, <2>02, <2>03, <3>1 DEF Reckoned, InFlight
    <3>4. host.total \in Q
      BY DEF Q
    <3>5. chip' \in Seq(Q)
      <4>1. Append(chip, host.total) \in Seq(Q)
        BY <2>01, <3>4, AppendProperties
      <4>2. chip' = Append(chip, host.total) \/ chip' = chip
        BY <3>1
      <4> QED
        BY <2>01, <4>1, <4>2, Zenon
    <3>6. Queues'
      BY <2>01, <3>1, <3>2, <3>5 DEF Queues, Q
    <3>7. \/ Own(chip') = Own(chip) + 1 /\ host'.lost = host.lost
          \/ Own(chip') = Own(chip) /\ host'.lost = host.lost + 1
      <4>1. CASE chip' = Append(chip, host.total) /\ host' = [host EXCEPT !.unsent = @ - 1]
        <5>1. Own(Append(chip, host.total)) = Own(chip) + 1
          BY <2>01, <3>3, <3>4, HowManyAppended DEF Own
        <5>2. host'.lost = host.lost
          BY <2>0, <4>1
        <5> QED
          BY <4>1, <5>1, <5>2
      <4>2. CASE chip' = chip /\ host' = [host EXCEPT !.unsent = @ - 1, !.lost = @ + 1]
        BY <2>0, <4>2
      <4> QED
        BY <3>1, <4>1, <4>2
    <3>8. InFlight' + host'.lost = InFlight + host.lost /\ InFlight > 0
      <4>1. InFlight' = host'.unsent + Own(chip') + Own(transfer) + Own(rxQueue) + Own(socket)
        BY <3>1 DEF InFlight, Own
      <4>2. Own(chip') \in Nat /\ host'.lost \in Nat
        BY <2>02, <2>03, <3>7
      <4>3. InFlight = host.unsent + Own(chip) + Own(transfer) + Own(rxQueue) + Own(socket)
        BY DEF InFlight
      <4>4. host'.unsent = host.unsent - 1
        BY <3>2
      <4> HIDE DEF InFlight
      <4>5. InFlight > 0
        BY <2>02, <2>03, <3>1, <4>3
      <4>6. CASE Own(chip') = Own(chip) + 1 /\ host'.lost = host.lost
        <5>1. InFlight' = (host.unsent - 1) + (Own(chip) + 1) + Own(transfer) + Own(rxQueue) + Own(socket)
          BY <4>1, <4>4, <4>6
        <5>2. InFlight' = InFlight
          BY <2>02, <2>03, <4>3, <5>1
        <5> QED
          BY <4>5, <4>6, <5>2
      <4>7. CASE Own(chip') = Own(chip) /\ host'.lost = host.lost + 1
        <5>1. InFlight' = (host.unsent - 1) + Own(chip) + Own(transfer) + Own(rxQueue) + Own(socket)
          BY <4>1, <4>4, <4>7
        <5>2. InFlight' = InFlight - 1
          BY <2>02, <2>03, <4>3, <5>1
        <5>3. InFlight \in Nat
          BY <2>02, <2>03, <4>3
        <5> QED
          BY <2>03, <4>5, <4>7, <5>2, <5>3
      <4> QED
        BY <3>7, <4>6, <4>7
    <3>9. InFlight' \in Nat /\ InFlight \in Nat /\ host'.lost \in Nat
      <4>1. InFlight' = host'.unsent + Own(chip') + Own(transfer) + Own(rxQueue) + Own(socket)
        BY <3>1 DEF InFlight, Own
      <4>2. host'.unsent \in Nat
        BY <3>2
      <4> QED
        BY <2>02, <2>03, <3>7, <4>1, <4>2 DEF InFlight
    <3>10. Reckoned'
      <4> HIDE DEF InFlight
      <4>1. CASE burst = Burst!NoBurst /\ InFlight + host.lost = host.total
        <5>1. InFlight' + host'.lost = host'.total /\ host'.lost <= host'.total
          BY <2>03, <3>2, <3>8, <3>9, <4>1
        <5> QED
          BY <3>1, <4>1, <5>1 DEF Reckoned
      <4>2. CASE /\ burst \in Bursts(host.total)
                 /\ InFlight + host.lost + burst.received = host.total
        <5>1. burst.received \in Nat
          BY <4>2 DEF Bursts
        <5>2. InFlight' + host'.lost + burst.received = host'.total
          BY <2>03, <3>2, <3>8, <3>9, <4>2, <5>1
        <5> QED
          BY <3>1, <3>2, <3>3, <4>2, <5>2 DEF Reckoned
      <4>3. \/ burst = Burst!NoBurst /\ InFlight + host.lost = host.total
            \/ /\ burst \in Bursts(host.total)
               /\ InFlight + host.lost + burst.received = host.total
        BY <2>0, <3>8, <3>9 DEF Reckoned
      <4> QED
        BY <4>1, <4>2, <4>3
    <3> QED
      BY <2>0, <3>1, <3>2, <3>6, <3>10 DEF BurstInv, LossExact, Burst!LossExact
  <2>4. CASE Burst!Noise
    <3>1. /\ chip' = Append(chip, Burst!Foreign)
          /\ UNCHANGED <<host, transfer, carried, rxQueue, socket, stats, burst, line>>
      BY <2>4 DEF Burst!Noise
    <3>2. Burst!Foreign \in Q /\ Burst!Foreign \notin Totals
      BY <1>0 DEF Q, Burst!Foreign
    <3>3. chip' \in Seq(Q)
      BY <2>01, <3>1, <3>2
    <3>4. Queues'
      BY <2>01, <3>1, <3>3 DEF Queues, Q
    <3>5. Own(chip') = Own(chip)
      <4>1. Own(Append(chip, Burst!Foreign)) = Own(chip) + 0
        BY <2>01, <3>2, HowManyAppended DEF Own
      <4> QED
        BY <2>02, <3>1, <4>1
    <3>6. InFlight' = InFlight
      BY <3>1, <3>5 DEF InFlight, Own
    <3> QED
      BY <2>0, <2>04, <3>1, <3>4, <3>6 DEF BurstInv, LossExact, Burst!LossExact
  <2>5. ASSUME NEW k \in 1 .. Transfer, Burst!ReceiveFrames(k) PROVE BurstInv'
    <3>1. /\ transfer = <<>> /\ k <= Len(chip)
          /\ transfer' = SubSeq(chip, 1, k) /\ carried' = k
          /\ chip' = SubSeq(chip, k + 1, Len(chip))
          /\ UNCHANGED <<host, rxQueue, socket, stats, burst, line>>
      BY <2>5 DEF Burst!ReceiveFrames
    <3>2. k \in 1 .. Len(chip) /\ k \in 0 .. Transfer
      BY <1>0, <2>01, <3>1, LenProperties
    <3>3. transfer' \in Seq(Q) /\ chip' \in Seq(Q)
      BY <2>01, <3>1, <3>2, TakeFront
    <3>4. Queues'
      BY <2>01, <3>1, <3>3 DEF Queues, Q
    <3>5. Own(chip) = Own(SubSeq(chip, 1, k)) + Own(SubSeq(chip, k + 1, Len(chip)))
      BY <2>01, <3>2, HowManyTaken DEF Own
    <3>6. Own(chip) = Own(transfer') + Own(chip')
      BY <3>1, <3>5
    <3>7. Own(transfer) = 0
      BY <3>1, HowManyOfNone DEF Own
    <3>8. Own(transfer') \in Nat /\ Own(chip') \in Nat
      BY <3>3, HowManyCounts DEF Own
    <3>9. /\ InFlight' = host.unsent + Own(chip') + Own(transfer') + Own(rxQueue) + Own(socket)
      BY <3>1 DEF InFlight, Own
    <3>10. InFlight' = InFlight
      BY <2>02, <2>03, <3>6, <3>7, <3>8, <3>9 DEF InFlight
    <3> QED
      BY <2>0, <2>04, <3>1, <3>2, <3>4, <3>10 DEF BurstInv, LossExact, Burst!LossExact
  <2>6. CASE Burst!Deliver
    <3> DEFINE k == Burst!Fits
    <3>1. /\ transfer # <<>> /\ k > 0
          /\ rxQueue' = rxQueue \o SubSeq(transfer, 1, k)
          /\ transfer' = SubSeq(transfer, k + 1, Len(transfer))
          /\ UNCHANGED <<host, chip, carried, socket, burst, line>>
          /\ stats' \in {stats, Burst!Counted(carried, Burst!Batch)}
      BY <2>6 DEF Burst!Deliver, Burst!HandOver
    <3>2. k \in 1 .. Len(transfer)
      BY <1>0, <2>01, <3>1, LenProperties DEF Burst!Fits
    <3>3. stats' \in [{"frames", "batched"} -> 0 .. Wrap32 - 1]
      <4> DEFINE a == (stats.frames + carried) % Wrap32
                 b == (stats.batched + Burst!Batch) % Wrap32
      <4>1. Burst!Batch \in {0, 1}
        BY DEF Burst!Batch
      <4>2. stats.frames \in Nat /\ stats.batched \in Nat /\ carried \in Nat
        BY <1>0, <2>0
      <4>3. a \in 0 .. Wrap32 - 1 /\ b \in 0 .. Wrap32 - 1
        BY <1>0, <4>1, <4>2
      <4>4. Burst!Counted(carried, Burst!Batch) = [frames |-> a, batched |-> b]
        BY DEF Burst!Counted
      <4> HIDE DEF a, b
      <4>5. [frames |-> a, batched |-> b] \in [{"frames", "batched"} -> 0 .. Wrap32 - 1]
        BY <4>3
      <4> QED
        BY <2>0, <3>1, <4>4, <4>5
    <3> HIDE DEF k
    <3>4. /\ SubSeq(transfer, 1, k) \in Seq(Q) /\ transfer' \in Seq(Q)
      BY <2>01, <3>1, <3>2, TakeFront
    <3>5. rxQueue' \in Seq(Q)
      BY <2>01, <3>1, <3>4, ConcatProperties
    <3>6. Queues'
      BY <2>01, <3>1, <3>4, <3>5 DEF Queues, Q
    <3>7. Own(transfer) = Own(SubSeq(transfer, 1, k)) + Own(SubSeq(transfer, k + 1, Len(transfer)))
      BY <2>01, <3>2, HowManyTaken DEF Own
    <3>8. Own(rxQueue \o SubSeq(transfer, 1, k)) = Own(rxQueue) + Own(SubSeq(transfer, 1, k))
      BY <2>01, <3>4, HowManyJoined DEF Own
    <3>9. Own(SubSeq(transfer, 1, k)) \in Nat /\ Own(transfer') \in Nat
      BY <3>4, HowManyCounts DEF Own
    <3>10. Own(rxQueue') = Own(rxQueue) + Own(SubSeq(transfer, 1, k))
      BY <3>1, <3>8
    <3>11. Own(transfer) = Own(SubSeq(transfer, 1, k)) + Own(transfer')
      BY <3>1, <3>7
    <3>12. InFlight' = host.unsent + Own(chip) + Own(transfer') + Own(rxQueue') + Own(socket)
      BY <3>1 DEF InFlight, Own
    <3>13. InFlight' = InFlight
      BY <2>02, <2>03, <3>9, <3>10, <3>11, <3>12 DEF InFlight
    <3> QED
      BY <2>0, <2>04, <3>1, <3>3, <3>6, <3>13 DEF BurstInv, LossExact, Burst!LossExact
  <2>7. CASE Burst!StackMoves
    <3> DEFINE e == Head(rxQueue)
               one == IF e \in Totals THEN 1 ELSE 0
    <3>1. /\ rxQueue # <<>> /\ rxQueue' = Tail(rxQueue)
          /\ UNCHANGED <<chip, transfer, carried, stats, burst, line>>
          /\ \/ socket' = Append(socket, e) /\ host' = host
             \/ /\ socket' = socket
                /\ host' = IF e = Burst!Foreign THEN host ELSE [host EXCEPT !.lost = @ + 1]
      BY <2>7 DEF Burst!StackMoves
    <3>2. e \in Q /\ Tail(rxQueue) \in Seq(Q)
      BY <2>01, <3>1, HeadTailProperties
    <3>3. /\ e \in Totals <=> e # Burst!Foreign
          /\ e # Burst!Foreign => host.total \in Totals
      BY <2>03, <3>2, OwnIsNotForeign DEF Q
    <3>4. Own(rxQueue) = Own(Tail(rxQueue)) + one
      BY <2>01, <3>1, HowManyRead DEF Own
    <3> HIDE DEF e
    <3>5. /\ host' \in [total : Totals \cup {0}, unsent : Nat, lost : Nat]
          /\ host'.total = host.total /\ host'.unsent = host.unsent
      BY <2>0, <2>03, <3>1
    <3>6. \/ Own(socket') = Own(socket) + one /\ host'.lost = host.lost
          \/ Own(socket') = Own(socket) /\ host'.lost = host.lost + one
      <4>1. CASE socket' = Append(socket, e) /\ host' = host
        <5>1. Own(Append(socket, e)) = Own(socket) + one
          BY <2>01, <3>2, HowManyAppended DEF Own
        <5> QED
          BY <4>1, <5>1
      <4>2. CASE /\ socket' = socket
                 /\ host' = IF e = Burst!Foreign THEN host ELSE [host EXCEPT !.lost = @ + 1]
        <5>1. host'.lost = host.lost + one
          BY <2>0, <2>03, <3>3, <4>2
        <5> QED
          BY <4>2, <5>1
      <4> QED
        BY <3>1, <4>1, <4>2
    <3>7. socket' \in Seq(Q)
      <4>1. Append(socket, e) \in Seq(Q)
        BY <2>01, <3>2, AppendProperties
      <4>2. socket' = Append(socket, e) \/ socket' = socket
        BY <3>1
      <4> QED
        BY <2>01, <4>1, <4>2, Zenon
    <3>8. Queues'
      BY <2>01, <3>1, <3>2, <3>5, <3>7 DEF Queues, Q
    <3>9. Own(rxQueue) = Own(rxQueue') + one /\ Own(rxQueue') \in Nat /\ Own(socket') \in Nat
      BY <3>1, <3>2, <3>4, <3>7, HowManyCounts DEF Own
    <3>10. InFlight' = host.unsent + Own(chip) + Own(transfer) + Own(rxQueue') + Own(socket')
      BY <3>1, <3>5 DEF InFlight, Own
    <3>11. one \in {0, 1} /\ (one = 1 => host.total \in Totals)
      BY <3>3
    <3>12. one = 0 => host'.lost = host.lost
      BY <3>6, <2>03
    <3> HIDE DEF one
    <3>13. /\ InFlight' + host'.lost = InFlight + host.lost
           /\ InFlight >= one /\ InFlight' <= InFlight
           /\ InFlight \in Nat /\ InFlight' \in Nat /\ host'.lost \in Nat
      BY <2>02, <2>03, <3>6, <3>9, <3>10, <3>11 DEF InFlight
    <3>14. Reckoned'
      <4> HIDE DEF InFlight
      <4>1. CASE burst = Burst!NoBurst /\ InFlight + host.lost = host.total
        <5>1. InFlight' + host'.lost = host'.total /\ host'.lost <= host'.total
          BY <2>03, <3>5, <3>13, <4>1
        <5> QED
          BY <3>1, <4>1, <5>1 DEF Reckoned
      <4>2. CASE /\ burst \in Bursts(host.total) /\ host.total \in Totals
                 /\ InFlight + host.lost + burst.received = host.total
        <5>1. burst.received \in Nat
          BY <4>2 DEF Bursts
        <5>2. InFlight' + host'.lost + burst.received = host'.total
          BY <2>03, <3>5, <3>13, <4>2, <5>1
        <5> QED
          BY <3>1, <3>5, <4>2, <5>2 DEF Reckoned
      <4>3. CASE burst = Burst!NoBurst /\ InFlight = 0 /\ host.lost <= host.total
        <5>1. InFlight' = 0 /\ host'.lost = host.lost
          BY <2>03, <3>12, <3>13, <3>11, <4>3
        <5> QED
          BY <3>1, <3>5, <4>3, <5>1 DEF Reckoned
      <4> QED
        BY <2>0, <4>1, <4>2, <4>3 DEF Reckoned
    <3> QED
      BY <2>0, <3>1, <3>5, <3>8, <3>14 DEF BurstInv, LossExact, Burst!LossExact
  <2>8. CASE Burst!Recv
    <3> DEFINE e == Head(socket)
    <3>1. /\ socket # <<>> /\ socket' = Tail(socket)
          /\ UNCHANGED <<host, chip, transfer, carried, rxQueue, stats, line>>
          /\ burst' = IF e = Burst!Foreign THEN burst
                      ELSE [Burst!Current(e) EXCEPT !.received = @ + 1]
      BY <2>8 DEF Burst!Recv
    <3>2. e \in Q /\ Tail(socket) \in Seq(Q)
      BY <2>01, <3>1, HeadTailProperties
    <3>3. /\ e \in Totals <=> e # Burst!Foreign
          /\ e # Burst!Foreign => e = host.total /\ host.total \in Totals
      BY <2>03, <3>2, OwnIsNotForeign DEF Q
    <3>4. Own(socket) = Own(Tail(socket)) + (IF e \in Totals THEN 1 ELSE 0)
      BY <2>01, <3>1, HowManyRead DEF Own
    <3> HIDE DEF e
    <3>5. Queues'
      BY <2>01, <3>1, <3>2 DEF Queues, Q
    <3>6. Own(socket') \in Nat
      BY <3>1, <3>2, HowManyCounts DEF Own
    <3>7. InFlight' = host.unsent + Own(chip) + Own(transfer) + Own(rxQueue) + Own(socket')
      BY <3>1 DEF InFlight, Own
    <3>8. Reckoned'
      <4>1. CASE e = Burst!Foreign
        <5>1. Own(socket) = Own(socket')
          BY <3>1, <3>3, <3>4, <3>6, <4>1
        <5>2. InFlight' = InFlight
          BY <3>7, <5>1 DEF InFlight
        <5> QED
          BY <2>04, <3>1, <4>1, <5>2
      <4>2. CASE e # Burst!Foreign
        <5>1. Own(socket) = Own(socket') + 1
          BY <3>1, <3>3, <3>4, <4>2
        <5>2. InFlight = InFlight' + 1 /\ InFlight' \in Nat /\ InFlight \in Nat
          BY <2>02, <2>03, <3>6, <3>7, <5>1 DEF InFlight
        <5>3. e = host.total /\ host.total \in Totals
          BY <3>3, <4>2
        <5>4. burst' = [Burst!Current(e) EXCEPT !.received = @ + 1]
          BY <3>1, <4>2
        <5> HIDE DEF InFlight
        <5>5. CASE burst = Burst!NoBurst
          <6>1. InFlight + host.lost = host.total
            <7>1. burst \notin Bursts(host.total)
              <8>1. \A b \in Bursts(host.total) : b.total = host.total
                BY DEF Bursts
              <8>2. burst.total = 0 /\ host.total # 0
                BY <1>0, <5>3, <5>5 DEF Burst!NoBurst
              <8> QED
                BY <8>1, <8>2
            <7> QED
              BY <2>0, <5>2, <7>1 DEF Reckoned
          <6> DEFINE r == Burst!Begin(e)
          <6>2. stats.frames \in 0 .. Wrap32 - 1 /\ stats.batched \in 0 .. Wrap32 - 1
            BY <2>0
          <6>3. r \in Bursts(host.total) /\ r.received = 0
            BY <5>3, <6>2 DEF Burst!Begin, Bursts
          <6>4. burst' = [r EXCEPT !.received = @ + 1]
            BY <5>4, <5>5 DEF Burst!Current
          <6> HIDE DEF r
          <6>5. burst' \in Bursts(host.total) /\ burst'.received = 1
            BY <6>3, <6>4 DEF Bursts
          <6>6. InFlight' + host'.lost + burst'.received = host'.total
            BY <2>03, <3>1, <5>2, <6>1, <6>5
          <6> QED
            BY <3>1, <5>3, <6>5, <6>6 DEF Reckoned
        <5>6. CASE burst # Burst!NoBurst
          <6>1. burst \in Bursts(host.total) /\ InFlight + host.lost + burst.received = host.total
            BY <2>0, <5>6 DEF Reckoned
          <6>2. burst' = [burst EXCEPT !.received = @ + 1]
            BY <5>4, <5>6 DEF Burst!Current
          <6>3. burst.received \in Nat
            BY <6>1 DEF Bursts
          <6>4. burst' \in Bursts(host.total) /\ burst'.received = burst.received + 1
            BY <6>1, <6>2, <6>3 DEF Bursts
          <6>5. InFlight' + host'.lost + burst'.received = host'.total
            BY <2>03, <3>1, <5>2, <6>1, <6>3, <6>4
          <6> QED
            BY <3>1, <5>3, <6>4, <6>5 DEF Reckoned
        <5> QED
          BY <5>5, <5>6
      <4> QED
        BY <4>1, <4>2
    <3> QED
      BY <2>0, <3>1, <3>5, <3>8 DEF BurstInv, LossExact, Burst!LossExact
  <2>9. CASE Burst!QuietElapses
    <3>1. /\ burst # Burst!NoBurst /\ burst' = Burst!NoBurst
          /\ host.unsent = 0 /\ chip = <<>> /\ transfer = <<>> /\ rxQueue = <<>> /\ socket = <<>>
          /\ line' = Burst!Report
          /\ UNCHANGED <<host, chip, transfer, carried, rxQueue, socket, stats>>
      BY <2>9 DEF Burst!QuietElapses, Burst!Silence, Burst!pathVars
    <3>2. Own(<<>>) = 0
      BY HowManyOfNone DEF Own
    <3>3. InFlight = 0 /\ InFlight' = InFlight
      <4>1. InFlight = 0
        BY <3>1, <3>2 DEF InFlight
      <4>2. InFlight' = InFlight
        BY <3>1 DEF InFlight, Own
      <4> QED
        BY <4>1, <4>2
    <3>4. /\ burst \in Bursts(host.total)
          /\ InFlight + host.lost + burst.received = host.total
      BY <2>0, <3>1 DEF Reckoned
    <3>5. burst.received \in Nat /\ burst.total = host.total
      BY <3>4 DEF Bursts
    <3>6. host.lost <= host.total /\ Burst!SaturatingSub(burst.total, burst.received) = host.lost
      <4>1. host.lost + burst.received = host.total
        BY <2>03, <3>3, <3>4, <3>5
      <4> QED
        BY <2>03, <3>5, <4>1 DEF Burst!SaturatingSub
    <3>7. line'.lost = line'.missing
      BY <3>1, <3>6 DEF Burst!Report
    <3>8. Reckoned'
      BY <3>1, <3>3, <3>6 DEF Reckoned
    <3>9. Queues'
      BY <2>0, <3>1 DEF Queues
    <3> QED
      BY <2>0, <3>1, <3>7, <3>8, <3>9 DEF BurstInv, LossExact, Burst!LossExact
  <2>10. CASE Burst!Next
    BY <2>2, <2>3, <2>4, <2>5, <2>6, <2>7, <2>8, <2>9, <2>10 DEF Burst!Next, Burst!BoardStep
  <2> QED
    BY <2>1, <2>10 DEF Next, IrqPart, BurstPart, EchoPart, I2cPart, IdlePart, vars
<1> QED
  BY <1>1, <1>2, PTL DEF Spec

(* The loss a burst's line states is that burst's, for bursts, transfers   *)
(* and queues of any size and whatever else arrives (embassy_net_burst.rs  *)
(* 218-223, 319-339).                                                      *)
THEOREM LossIsExact == Spec => []LossExact
<1>1. BurstInv => LossExact
  BY DEF BurstInv
<1> QED
  BY BurstInvHolds, <1>1, PTL

-----------------------------------------------------------------------------
(* Frames of a transfer not counted yet: a batch is, after its last one.   *)
Uncounted == IF transfer = <<>> THEN 0 ELSE carried

(* The frames that are still to be counted.                                *)
Coming == Len(chip) + Uncounted + host.unsent

(* Since the burst's baseline the counters have gone up by `frames' and    *)
(* `batches', and since the host began no more frames than were sent have  *)
(* been counted (ethernet.rs 427-444, 560-570).                            *)
CountedSince(counted, frames, batches) ==
    /\ counted + Coming <= host.total + noise
    /\ frames <= counted /\ 2 * batches <= frames
    /\ burst # Burst!NoBurst =>
         /\ stats.frames = (burst.frames + frames) % Wrap32
         /\ stats.batched = (burst.batched + batches) % Wrap32

SnapshotInv ==
    /\ noise \in 0 .. MaxNoise
    /\ \E counted, frames, batches \in Nat : CountedSince(counted, frames, batches)
    /\ SnapshotAgrees

(* The difference of a counter and its baseline is what it has counted.    *)
LEMMA WrapsBack ==
    ASSUME NEW W \in Nat, NEW base \in 0 .. W - 1, NEW c \in 0 .. W - 1
    PROVE  (((base + c) % W) + (W - base)) % W = c
<1>1. CASE base + c < W
  <2>1. (base + c) % W = base + c
    BY <1>1
  <2>2. (base + c) + (W - base) = c + W
    OBVIOUS
  <2>3. (c + W) % W = c
    OBVIOUS
  <2> QED
    BY <2>1, <2>2, <2>3
<1>2. CASE base + c >= W
  <2>1. (base + c) % W = (base + c) - W
    BY <1>2
  <2>2. ((base + c) - W) + (W - base) = c
    OBVIOUS
  <2>3. c % W = c
    OBVIOUS
  <2> QED
    BY <2>1, <2>2, <2>3
<1> QED
  BY <1>1, <1>2

(* A counter goes up from wherever it is.                                  *)
LEMMA CountsOn ==
    ASSUME NEW W \in Nat, W > 0, NEW base \in Nat, NEW c \in Nat, NEW more \in Nat
    PROVE  (((base + c) % W) + more) % W = (base + (c + more)) % W
<1>1. base + c \in Int /\ more \in Int /\ (base + c) + more = base + (c + more)
  OBVIOUS
<1>2. \A a \in Int, b \in Int : ((a % W) + b) % W = (a + b) % W
  OBVIOUS
<1> QED
  BY <1>1, <1>2, Zenon

LEMMA SnapshotInvHolds == Spec => []SnapshotInv
<1>0. /\ Totals \subseteq Nat \ {0} /\ MaxNoise \in Nat /\ Wrap32 \in Nat /\ Wrap32 > 0
      /\ \A total \in Totals : total + MaxNoise < Wrap32
  BY SizeAssumption, WindowAssumption
<1>1. Init => SnapshotInv
  <2> SUFFICES ASSUME Init PROVE SnapshotInv
    OBVIOUS
  <2>1. Burst!Init
    BY DEF Init
  <2>2. /\ host.total = 0 /\ noise = 0 /\ Coming = 0 /\ burst = Burst!NoBurst
    BY <2>1 DEF Burst!Init, Coming, Uncounted
  <2>3. CountedSince(0, 0, 0)
    BY <2>2 DEF CountedSince
  <2>4. SnapshotAgrees
    BY <2>1 DEF Burst!Init, SnapshotAgrees, Burst!SnapshotAgrees
  <2> QED
    BY <1>0, <2>2, <2>3, <2>4 DEF SnapshotInv
<1>2. BurstInv /\ SnapshotInv /\ [Next]_vars => SnapshotInv'
  <2> SUFFICES ASSUME BurstInv, SnapshotInv, [Next]_vars PROVE SnapshotInv'
    OBVIOUS
  <2>1. PICK d \in Nat, f \in Nat, b \in Nat : CountedSince(d, f, b)
    BY DEF SnapshotInv
  <2>0. /\ host \in [total : Totals \cup {0}, unsent : Nat, lost : Nat]
        /\ carried \in Nat
        /\ stats \in [{"frames", "batched"} -> 0 .. Wrap32 - 1]
        /\ Queues /\ Reckoned
        /\ noise \in 0 .. MaxNoise
        /\ line.frames >= 2 * line.batched
    BY SizeAssumption DEF BurstInv, SnapshotInv, SnapshotAgrees, Burst!SnapshotAgrees
  <2>01. /\ Len(chip) \in Nat /\ Uncounted \in Nat /\ noise \in Nat
         /\ host.total \in Nat /\ host.unsent \in Nat /\ Coming \in Nat
    <3>1. Len(chip) \in Nat
      BY <2>0, LenProperties DEF Queues
    <3>2. Uncounted \in Nat
      BY <2>0 DEF Uncounted
    <3>3. host.total \in Nat /\ host.unsent \in Nat /\ noise \in Nat
      <4>1. host.total \in Totals \cup {0} /\ host.unsent \in Nat
        BY <2>0
      <4>2. \A total \in Totals \cup {0} : total \in Nat
        BY <1>0
      <4>3. noise \in Nat
        BY <1>0, <2>0
      <4> QED
        BY <4>1, <4>2, <4>3
    <3> QED
      BY <3>1, <3>2, <3>3 DEF Coming
  <2>02. stats.frames \in 0 .. Wrap32 - 1 /\ stats.batched \in 0 .. Wrap32 - 1
    BY <2>0
  <2>03. /\ d + Coming <= host.total + noise
         /\ f <= d /\ 2 * b <= f
         /\ burst # Burst!NoBurst =>
              /\ stats.frames = (burst.frames + f) % Wrap32
              /\ stats.batched = (burst.batched + b) % Wrap32
    BY <2>1 DEF CountedSince
  <2>04. burst # Burst!NoBurst => burst \in Bursts(host.total) /\ host.total \in Totals
    BY <2>0 DEF Reckoned
  <2>05. ASSUME UNCHANGED <<stats, burst, line>>, noise' \in 0 .. MaxNoise,
                Coming' \in Nat, host'.total \in Nat,
                Coming' + (host.total + noise) <= Coming + (host'.total + noise')
         PROVE  SnapshotInv'
    <3>1. noise' \in Nat
      BY <1>0, <2>05
    <3>2. d + Coming' <= host'.total + noise'
      <4> DEFINE r == host.total + noise
                 q == host'.total + noise'
                 y == Coming'
      <4>1. r \in Int /\ q \in Int /\ y \in Int /\ d \in Int /\ Coming \in Int
        BY <2>01, <2>05, <3>1
      <4>2. d + Coming <= r /\ y + r <= Coming + q
        BY <2>03, <2>05
      <4> HIDE DEF r, q, y
      <4>3. d + y <= q
        BY <4>1, <4>2
      <4> QED
        BY <4>3 DEF q, y
    <3>3. CountedSince(d, f, b)'
      BY <2>03, <2>05, <3>2 DEF CountedSince
    <3> QED
      BY <2>0, <2>05, <3>3 DEF SnapshotInv, SnapshotAgrees, Burst!SnapshotAgrees
  <2>2. CASE UNCHANGED burstVars
    <3>1. UNCHANGED <<host, noise, chip, transfer, carried, stats, burst, line>>
      BY <2>2 DEF burstVars
    <3>2. Coming' = Coming
      BY <3>1 DEF Coming, Uncounted
    <3>3. CountedSince(d, f, b)'
      BY <2>03, <3>1, <3>2 DEF CountedSince
    <3> QED
      BY <2>0, <3>1, <3>3 DEF SnapshotInv, SnapshotAgrees, Burst!SnapshotAgrees
  <2>3. ASSUME NEW t \in Totals, Burst!HostBegins(t) PROVE SnapshotInv'
    <3>1. /\ host' = [total |-> t, unsent |-> t, lost |-> 0]
          /\ UNCHANGED <<noise, chip, transfer, carried, stats, burst, line>>
          /\ burst = Burst!NoBurst /\ chip = <<>> /\ transfer = <<>>
      BY <2>3 DEF Burst!HostBegins, Burst!pathVars, Burst!Silence
    <3>2. Coming' = t /\ host'.total = t /\ t \in Nat
      <4>1. /\ Len(chip') = 0 /\ Uncounted' = 0 /\ host'.unsent = t /\ host'.total = t /\ t \in Nat
        BY <1>0, <3>1 DEF Uncounted
      <4> QED
        BY <4>1 DEF Coming
    <3>3. CountedSince(0, 0, 0)'
      BY <2>01, <3>1, <3>2 DEF CountedSince
    <3> QED
      BY <2>0, <3>1, <3>3 DEF SnapshotInv, SnapshotAgrees, Burst!SnapshotAgrees
  <2>4. CASE Burst!HostSends
    <3>1. /\ host.unsent > 0
          /\ UNCHANGED <<noise, transfer, carried, stats, burst, line>>
          /\ chip' = Append(chip, host.total) \/ chip' = chip
          /\ \/ host' = [host EXCEPT !.unsent = @ - 1]
             \/ host' = [host EXCEPT !.unsent = @ - 1, !.lost = @ + 1]
      BY <2>4 DEF Burst!HostSends
    <3>2. host'.total = host.total /\ host'.unsent = host.unsent - 1
      BY <2>0, <3>1
    <3>3. Len(chip') = Len(chip) \/ Len(chip') = Len(chip) + 1
      BY <2>0, <3>1, AppendProperties DEF Queues
    <3>4. Uncounted' = Uncounted
      BY <3>1 DEF Uncounted
    <3>5. Coming' = Len(chip') + Uncounted + (host.unsent - 1)
      BY <3>2, <3>4 DEF Coming
    <3>6. Coming' \in Nat /\ Coming' <= Coming
      <4>1. CASE Len(chip') = Len(chip)
        BY <2>01, <3>1, <3>5, <4>1 DEF Coming
      <4>2. CASE Len(chip') = Len(chip) + 1
        BY <2>01, <3>1, <3>5, <4>2 DEF Coming
      <4> QED
        BY <3>3, <4>1, <4>2
    <3>7. Coming' + (host.total + noise) <= Coming + (host'.total + noise')
      BY <2>01, <3>1, <3>2, <3>6
    <3> QED
      BY <2>0, <2>01, <2>05, <3>1, <3>2, <3>6, <3>7
  <2>5. CASE Burst!Noise
    <3>1. /\ noise < MaxNoise /\ noise' = noise + 1 /\ chip' = Append(chip, Burst!Foreign)
          /\ UNCHANGED <<host, transfer, carried, stats, burst, line>>
      BY <2>5 DEF Burst!Noise
    <3>2. Len(chip') = Len(chip) + 1
      BY <2>0, <3>1, AppendProperties DEF Queues
    <3>3. Uncounted' = Uncounted
      BY <3>1 DEF Uncounted
    <3>4. noise' \in 0 .. MaxNoise
      BY <1>0, <2>0, <3>1
    <3>5. Coming' = (Len(chip) + 1) + Uncounted + host.unsent
      BY <3>1, <3>2, <3>3 DEF Coming
    <3>6. Coming' = Coming + 1
      BY <2>01, <3>5 DEF Coming
    <3>7. Coming' \in Nat /\ Coming' + (host.total + noise) <= Coming + (host'.total + noise')
      BY <2>01, <3>1, <3>6
    <3> QED
      BY <2>01, <2>05, <3>1, <3>4, <3>7
  <2>6. ASSUME NEW k \in 1 .. Transfer, Burst!ReceiveFrames(k) PROVE SnapshotInv'
    <3>1. /\ transfer = <<>> /\ k <= Len(chip) /\ carried' = k
          /\ transfer' = SubSeq(chip, 1, k) /\ chip' = SubSeq(chip, k + 1, Len(chip))
          /\ UNCHANGED <<host, noise, stats, burst, line>>
      BY <2>6 DEF Burst!ReceiveFrames
    <3>2. k \in 1 .. Len(chip)
      BY <2>01, <3>1, SizeAssumption
    <3>3. Len(chip') = Len(chip) - k /\ transfer' # <<>>
      <4>1. chip \in Seq({host.total, Burst!Foreign})
        BY <2>0 DEF Queues
      <4>2. Len(SubSeq(chip, k + 1, Len(chip))) = Len(chip) - k /\ SubSeq(chip, 1, k) # <<>>
        BY <3>2, <4>1, TakeFront
      <4> QED
        BY <3>1, <4>2
    <3>4. Uncounted = 0 /\ Uncounted' = k
      BY <3>1, <3>3 DEF Uncounted
    <3>5. Coming' = (Len(chip) - k) + k + host.unsent
      BY <3>1, <3>3, <3>4 DEF Coming
    <3>6. Coming' = Coming
      BY <2>01, <3>2, <3>4, <3>5 DEF Coming
    <3>7. Coming' + (host.total + noise) <= Coming + (host'.total + noise')
      BY <2>01, <3>1, <3>6
    <3> QED
      BY <2>0, <2>01, <2>05, <3>1, <3>6, <3>7
  <2>7. CASE Burst!Deliver
    <3> DEFINE m == Burst!Batch
    <3>1. /\ transfer # <<>>
          /\ UNCHANGED <<host, noise, chip, carried, burst, line>>
          /\ stats' = IF transfer' = <<>> THEN Burst!Counted(carried, m) ELSE stats
      BY <2>7 DEF Burst!Deliver, Burst!HandOver
    <3>2. CASE transfer' # <<>>
      <4>1. Coming' = Coming /\ stats' = stats
        BY <3>1, <3>2 DEF Coming, Uncounted
      <4>2. Coming' + (host.total + noise) <= Coming + (host'.total + noise')
        BY <2>01, <3>1, <4>1
      <4> QED
        BY <2>0, <2>01, <2>05, <3>1, <4>1, <4>2
    <3>3. CASE transfer' = <<>>
      <4>1. m \in {0, 1} /\ 2 * m <= carried
        BY <2>0, <3>3 DEF Burst!Batch
      <4>2. /\ stats'.frames = (stats.frames + carried) % Wrap32
            /\ stats'.batched = (stats.batched + m) % Wrap32
        BY <3>1, <3>3 DEF Burst!Counted
      <4> HIDE DEF m
      <4>3. Coming = Coming' + carried /\ Coming' \in Nat
        <5>1. Coming = Len(chip) + carried + host.unsent /\ Coming' = Len(chip) + 0 + host.unsent
          BY <3>1, <3>3 DEF Coming, Uncounted
        <5> QED
          BY <2>0, <2>01, <5>1
      <4>4. /\ (d + carried) + Coming' <= host'.total + noise'
            /\ f + carried <= d + carried /\ 2 * (b + m) <= f + carried
            /\ d + carried \in Nat /\ f + carried \in Nat /\ b + m \in Nat
        <5>1. carried \in Nat /\ host'.total = host.total /\ noise' = noise
          BY <2>0, <3>1
        <5>2. d + Coming <= host.total + noise /\ f <= d /\ 2 * b <= f
          BY <2>03
        <5>3. (d + carried) + Coming' <= host'.total + noise'
          BY <2>01, <4>3, <5>1, <5>2
        <5>4. 2 * (b + m) <= f + carried
          BY <4>1, <5>1, <5>2
        <5> QED
          BY <4>1, <5>1, <5>2, <5>3, <5>4
      <4>5. ASSUME burst' # Burst!NoBurst
            PROVE  /\ stats'.frames = (burst'.frames + (f + carried)) % Wrap32
                   /\ stats'.batched = (burst'.batched + (b + m)) % Wrap32
        <5>1. burst.frames \in Nat /\ burst.batched \in Nat
          BY <2>04, <3>1, <4>5 DEF Bursts
        <5>2. /\ stats.frames = (burst.frames + f) % Wrap32
              /\ stats.batched = (burst.batched + b) % Wrap32
          BY <2>03, <3>1, <4>5
        <5>3. \A base \in Nat, c \in Nat, more \in Nat :
                (((base + c) % Wrap32) + more) % Wrap32 = (base + (c + more)) % Wrap32
          BY <1>0, CountsOn
        <5>4. carried \in Nat
          BY <2>0
        <5>5. ((((burst.frames + f) % Wrap32) + carried) % Wrap32) = (burst.frames + (f + carried)) % Wrap32
          BY <5>1, <5>3, <5>4, Zenon
        <5>6. m \in Nat
          BY <4>1
        <5>7. ((((burst.batched + b) % Wrap32) + m) % Wrap32) = (burst.batched + (b + m)) % Wrap32
          BY <5>1, <5>6, <5>3, Zenon
        <5> QED
          BY <3>1, <4>2, <5>2, <5>5, <5>7, Zenon
      <4>6. \E c1 \in Nat, f1 \in Nat, b1 \in Nat :
                /\ c1 + Coming' <= host'.total + noise'
                /\ f1 <= c1 /\ 2 * b1 <= f1
                /\ burst' # Burst!NoBurst =>
                     /\ stats'.frames = (burst'.frames + f1) % Wrap32
                     /\ stats'.batched = (burst'.batched + b1) % Wrap32
        BY <4>4, <4>5, Zenon
      <4> QED
        BY <2>0, <3>1, <4>6 DEF SnapshotInv, CountedSince, SnapshotAgrees, Burst!SnapshotAgrees
    <3> QED
      BY <3>2, <3>3
  <2>8. CASE Burst!StackMoves
    <3>1. /\ UNCHANGED <<noise, chip, transfer, carried, stats, burst, line>>
          /\ host' \in {host, [host EXCEPT !.lost = @ + 1]}
      BY <2>8 DEF Burst!StackMoves
    <3>2. host'.total = host.total /\ host'.unsent = host.unsent
      BY <2>0, <3>1
    <3>3. Coming' = Coming
      BY <3>1, <3>2 DEF Coming, Uncounted
    <3>4. Coming' + (host.total + noise) <= Coming + (host'.total + noise')
      BY <2>01, <3>1, <3>2, <3>3
    <3> QED
      BY <2>0, <2>01, <2>05, <3>1, <3>2, <3>3, <3>4
  <2>9. CASE Burst!Recv
    <3>1. /\ UNCHANGED <<host, noise, chip, transfer, carried, stats, line>>
          /\ \/ burst' = burst
             \/ burst' = [Burst!Current(Head(socket)) EXCEPT !.received = @ + 1]
      BY <2>9 DEF Burst!Recv
    <3>2. Coming' = Coming
      BY <3>1 DEF Coming, Uncounted
    <3>3. \E f1 \in Nat, b1 \in Nat : CountedSince(d, f1, b1)'
      <4>1. CASE burst' = burst
        <5>1. CountedSince(d, f, b)'
          BY <2>03, <3>1, <3>2, <4>1 DEF CountedSince
        <5> QED
          BY <5>1
      <4>2. CASE /\ burst = Burst!NoBurst
                 /\ burst' = [Burst!Begin(Head(socket)) EXCEPT !.received = @ + 1]
        <5>1. burst'.frames = stats.frames /\ burst'.batched = stats.batched
          BY <4>2 DEF Burst!Begin
        <5>2. /\ stats.frames = (stats.frames + 0) % Wrap32
              /\ stats.batched = (stats.batched + 0) % Wrap32
          BY <1>0, <2>02
        <5>3. CountedSince(d, 0, 0)'
          BY <2>01, <2>03, <3>1, <3>2, <5>1, <5>2 DEF CountedSince
        <5> QED
          BY <5>3
      <4>3. CASE burst # Burst!NoBurst /\ burst' = [burst EXCEPT !.received = @ + 1]
        <5>1. burst'.frames = burst.frames /\ burst'.batched = burst.batched
          BY <2>04, <4>3 DEF Bursts
        <5>2. CountedSince(d, f, b)'
          BY <2>03, <3>1, <3>2, <4>3, <5>1 DEF CountedSince
        <5> QED
          BY <5>2
      <4> QED
        BY <3>1, <4>1, <4>2, <4>3 DEF Burst!Current
    <3> QED
      BY <2>0, <3>1, <3>3 DEF SnapshotInv, SnapshotAgrees, Burst!SnapshotAgrees
  <2>10. CASE Burst!QuietElapses
    <3>1. /\ burst # Burst!NoBurst /\ burst' = Burst!NoBurst
          /\ line'.frames = Burst!WrappingSub(stats.frames, burst.frames)
          /\ line'.batched = Burst!WrappingSub(stats.batched, burst.batched)
          /\ UNCHANGED <<host, noise, chip, transfer, carried, stats>>
      BY <2>10 DEF Burst!QuietElapses, Burst!Report, Burst!pathVars
    <3>2. Coming' = Coming
      BY <3>1 DEF Coming, Uncounted
    <3>3. CountedSince(d, f, b)'
      BY <2>03, <3>1, <3>2 DEF CountedSince
    <3>4. burst.frames \in 0 .. Wrap32 - 1 /\ burst.batched \in 0 .. Wrap32 - 1
      BY <2>04, <3>1 DEF Bursts
    <3>5. f \in 0 .. Wrap32 - 1 /\ b \in 0 .. Wrap32 - 1
      <4>1. host.total + MaxNoise < Wrap32
        BY <1>0, <2>04, <3>1
      <4> QED
        BY <1>0, <2>0, <2>01, <2>03, <4>1
    <3>6. /\ line'.frames = ((((burst.frames + f) % Wrap32) + (Wrap32 - burst.frames)) % Wrap32)
          /\ line'.batched = ((((burst.batched + b) % Wrap32) + (Wrap32 - burst.batched)) % Wrap32)
      <4>1. /\ line'.frames = (stats.frames + (Wrap32 - burst.frames)) % Wrap32
            /\ line'.batched = (stats.batched + (Wrap32 - burst.batched)) % Wrap32
        BY <3>1 DEF Burst!WrappingSub
      <4> QED
        BY <2>03, <3>1, <4>1, Zenon
    <3>7. line'.frames = f /\ line'.batched = b
      BY <1>0, <3>4, <3>5, <3>6, WrapsBack, Zenon
    <3> QED
      BY <2>0, <2>03, <3>1, <3>3, <3>6, <3>7 DEF SnapshotInv, SnapshotAgrees, Burst!SnapshotAgrees
  <2>11. CASE Burst!Next
    BY <2>3, <2>4, <2>5, <2>6, <2>7, <2>8, <2>9, <2>10, <2>11 DEF Burst!Next, Burst!BoardStep
  <2> QED
    BY <2>2, <2>11 DEF Next, IrqPart, BurstPart, EchoPart, I2cPart, IdlePart, vars
<1> QED
  BY <1>1, <1>2, BurstInvHolds, PTL DEF Spec

(* The two counters of a line agree, for transfers of any size, a baseline *)
(* in the middle of a batch and counters anywhere near their wrap          *)
(* (ethernet.rs 427-444, 560-570).                                         *)
THEOREM SnapshotsAgree == Spec => []SnapshotAgrees
<1>1. SnapshotInv => SnapshotAgrees
  BY DEF SnapshotInv
<1> QED
  BY SnapshotInvHolds, <1>1, PTL

-----------------------------------------------------------------------------
(* The branches of every image's handler are a list.                       *)
LEMMA BranchesAreListed ==
    ASSUME NEW h \in DOMAIN Irq!Handlers
    PROVE  Irq!Handlers[h] \in Seq(SUBSET Irq!Sources)
<1>1. /\ {"timer1"} \in SUBSET Irq!Sources /\ {"usb"} \in SUBSET Irq!Sources
      /\ {"i2c"} \in SUBSET Irq!Sources /\ {"uart"} \in SUBSET Irq!Sources
      /\ {"emmc"} \in SUBSET Irq!Sources /\ {"gpio0"} \in SUBSET Irq!Sources
      /\ Irq!BanksAsked \in SUBSET Irq!Sources
  BY DEF Irq!Sources, Irq!Gpio, Irq!BanksAsked
<1> DEFINE G == SUBSET Irq!Sources
<1>2. /\ Irq!Dispatch \in Seq(G) /\ Irq!Ethernet \in Seq(G) /\ Irq!Wifi \in Seq(G)
      /\ Irq!Console \in Seq(G) /\ Irq!Bus \in Seq(G) /\ Irq!Button \in Seq(G)
  <2> HIDE DEF G
  <2>1. /\ {"timer1"} \in G /\ {"usb"} \in G /\ {"i2c"} \in G /\ {"uart"} \in G
        /\ {"emmc"} \in G /\ {"gpio0"} \in G /\ Irq!BanksAsked \in G
    BY <1>1 DEF G
  <2> QED
    BY <2>1 DEF Irq!Dispatch, Irq!Ethernet, Irq!Wifi, Irq!Console, Irq!Bus, Irq!Button
<1> HIDE DEF G
<1>3. h \in {"dispatch", "ethernet", "wifi", "console", "bus", "button"}
  BY DEF Irq!Handlers
<1>4. Irq!Handlers[h] \in Seq(G)
  BY <1>2, <1>3 DEF Irq!Handlers
<1> QED
  BY <1>4 DEF G

LEMMA IrqTypes == Spec => []Irq!TypeOK
<1>1. Init => Irq!TypeOK
  <2> SUFFICES ASSUME Init PROVE Irq!TypeOK
    OBVIOUS
  <2>1. image \in DOMAIN Irq!Handlers /\ asserting = {} /\ irqPc = 0 /\ quiet = FALSE
    BY DEF Init, Irq!Init
  <2>2. Len(Irq!Branches) \in Nat
    BY <2>1, BranchesAreListed, LenProperties DEF Irq!Branches
  <2>3. irqPc \in 0 .. Irq!End
    BY <2>1, <2>2 DEF Irq!End
  <2> QED
    BY <2>1, <2>3 DEF Irq!TypeOK
<1>2. Irq!TypeOK /\ [Next]_vars => (Irq!TypeOK)'
  <2> SUFFICES ASSUME Irq!TypeOK, [Next]_vars PROVE (Irq!TypeOK)'
    OBVIOUS
  <2>0. /\ image \in DOMAIN Irq!Handlers /\ asserting \subseteq Irq!Gates[image]
        /\ irqPc \in 0 .. Irq!End /\ quiet \in BOOLEAN
    BY DEF Irq!TypeOK
  <2>1. image' = image
    BY DEF Next, IrqPart, BurstPart, EchoPart, I2cPart, IdlePart, vars, irqVars, Irq!Next,
           Irq!Handler, Irq!TakeIrq, Irq!Service, Irq!Skip, Irq!Return, Irq!Quieten, Irq!Raise
  <2>2. (Irq!Branches)' = Irq!Branches /\ (Irq!End)' = Irq!End
    BY <2>1 DEF Irq!Branches, Irq!End
  <2>3. /\ Len(Irq!Branches) \in Nat /\ DOMAIN Irq!Branches = 1 .. Len(Irq!Branches)
        /\ Irq!End = Len(Irq!Branches) + 1
    BY <2>0, BranchesAreListed, LenProperties DEF Irq!Branches, Irq!End
  <2>4. asserting' \subseteq Irq!Gates[image] /\ irqPc' \in 0 .. Irq!End /\ quiet' \in BOOLEAN
    <3>1. CASE UNCHANGED irqVars
      BY <2>0, <3>1 DEF irqVars
    <3>2. CASE Irq!TakeIrq \/ Irq!Return
      BY <2>0, <2>3, <3>2 DEF Irq!TakeIrq, Irq!Return
    <3>3. CASE Irq!Service \/ Irq!Skip
      <4>1. /\ irqPc \in DOMAIN Irq!Branches /\ irqPc' = irqPc + 1
            /\ asserting' \subseteq asserting /\ quiet' = quiet
        BY <3>3 DEF Irq!Service, Irq!Skip, Irq!AfterService
      <4>2. irqPc' \in 0 .. Irq!End
        BY <2>3, <4>1
      <4> QED
        BY <2>0, <4>1, <4>2
    <3>4. CASE Irq!Quieten
      BY <2>0, <3>4 DEF Irq!Quieten
    <3>5. ASSUME NEW source \in Irq!Sources, Irq!Raise(source)
          PROVE  asserting' \subseteq Irq!Gates[image] /\ irqPc' \in 0 .. Irq!End /\ quiet' \in BOOLEAN
      BY <2>0, <3>5 DEF Irq!Raise
    <3> QED
      BY <3>1, <3>2, <3>3, <3>4, <3>5 DEF Next, IrqPart, BurstPart, EchoPart, I2cPart, IdlePart,
         vars, Irq!Next, Irq!Handler
  <2> QED
    BY <2>0, <2>1, <2>2, <2>4 DEF Irq!TypeOK
<1> QED
  BY <1>1, <1>2, PTL DEF Spec

-----------------------------------------------------------------------------
(* What the path and the queues have room for.                             *)
Room ==
    /\ bursts \in 0 .. MaxBursts
    /\ Len(chip) <= ChipFifo /\ Len(rxQueue) <= RxQueue /\ Len(socket) <= Socket
    /\ Len(transfer) <= carried

LEMMA RoomHolds == Spec => []Room
<1>0. /\ MaxBursts \in Nat /\ ChipFifo \in Nat /\ RxQueue \in Nat /\ Socket \in Nat
  BY SizeAssumption
<1>1. Init => Room
  BY <1>0 DEF Init, Burst!Init, Room
<1>2. BurstInv /\ Room /\ [Next]_vars => Room'
  <2> SUFFICES ASSUME BurstInv, Room, [Next]_vars PROVE Room'
    OBVIOUS
  <2> DEFINE Q == {host.total, Burst!Foreign}
  <2>1. /\ chip \in Seq(Q) /\ transfer \in Seq(Q) /\ rxQueue \in Seq(Q) /\ socket \in Seq(Q)
    BY DEF BurstInv, Queues
  <2>2. /\ Len(chip) \in Nat /\ Len(transfer) \in Nat /\ Len(rxQueue) \in Nat /\ Len(socket) \in Nat
    BY <2>1, LenProperties
  <2>3. /\ bursts \in 0 .. MaxBursts
        /\ Len(chip) <= ChipFifo /\ Len(rxQueue) <= RxQueue /\ Len(socket) <= Socket
        /\ Len(transfer) <= carried
    BY DEF Room
  <2> HIDE DEF Q
  <2>4. CASE UNCHANGED burstVars
    BY <2>3, <2>4 DEF burstVars, Room
  <2>5. ASSUME NEW t \in Totals, Burst!HostBegins(t) PROVE Room'
    BY <1>0, <2>3, <2>5 DEF Burst!HostBegins, Burst!pathVars, Room
  <2>6. CASE Burst!HostSends \/ Burst!Noise
    <3>1. /\ UNCHANGED <<bursts, transfer, carried, rxQueue, socket>>
          /\ \/ chip' = chip
             \/ Len(chip) < ChipFifo /\ \E e \in Q : chip' = Append(chip, e)
      BY <2>6 DEF Burst!HostSends, Burst!Noise, Q
    <3>2. Len(chip') <= ChipFifo
      BY <1>0, <2>1, <2>2, <2>3, <3>1, AppendProperties
    <3> QED
      BY <2>3, <3>1, <3>2 DEF Room
  <2>7. ASSUME NEW k \in 1 .. Transfer, Burst!ReceiveFrames(k) PROVE Room'
    <3>1. /\ k <= Len(chip) /\ transfer' = SubSeq(chip, 1, k) /\ carried' = k
          /\ chip' = SubSeq(chip, k + 1, Len(chip))
          /\ UNCHANGED <<bursts, rxQueue, socket>>
      BY <2>7 DEF Burst!ReceiveFrames
    <3>2. k \in 1 .. Len(chip)
      BY <2>2, <3>1, SizeAssumption
    <3>3. Len(transfer') = k /\ Len(chip') = Len(chip) - k
      BY <2>1, <3>1, <3>2, TakeFront
    <3>4. Len(chip') <= ChipFifo /\ Len(transfer') <= carried'
      BY <1>0, <2>2, <2>3, <3>1, <3>2, <3>3
    <3> QED
      BY <2>3, <3>1, <3>4 DEF Room
  <2>8. CASE Burst!Deliver
    <3> DEFINE k == Burst!Fits
    <3>1. /\ transfer # <<>> /\ k > 0
          /\ rxQueue' = rxQueue \o SubSeq(transfer, 1, k)
          /\ transfer' = SubSeq(transfer, k + 1, Len(transfer))
          /\ UNCHANGED <<bursts, chip, carried, socket>>
      BY <2>8 DEF Burst!Deliver, Burst!HandOver
    <3>2. k \in 1 .. Len(transfer) /\ k <= RxQueue - Len(rxQueue)
      BY <1>0, <2>2, <3>1 DEF Burst!Fits
    <3> HIDE DEF k
    <3>3. /\ SubSeq(transfer, 1, k) \in Seq(Q) /\ Len(SubSeq(transfer, 1, k)) = k
          /\ Len(transfer') = Len(transfer) - k
      BY <2>1, <3>1, <3>2, TakeFront
    <3>4. Len(rxQueue') = Len(rxQueue) + k
      BY <2>1, <3>1, <3>3, ConcatProperties
    <3>5. Len(rxQueue') <= RxQueue
      BY <1>0, <2>2, <3>2, <3>4
    <3>6. carried \in Nat
      BY SizeAssumption DEF BurstInv
    <3>7. Len(transfer') <= carried'
      BY <2>2, <2>3, <3>1, <3>2, <3>3, <3>6
    <3> QED
      BY <2>3, <3>1, <3>5, <3>7 DEF Room
  <2>9. CASE Burst!StackMoves
    <3>1. /\ rxQueue # <<>> /\ rxQueue' = Tail(rxQueue)
          /\ UNCHANGED <<bursts, chip, transfer, carried>>
          /\ \/ socket' = socket
             \/ Len(socket) < Socket /\ socket' = Append(socket, Head(rxQueue))
      BY <2>9 DEF Burst!StackMoves
    <3>2. Len(rxQueue') = Len(rxQueue) - 1 /\ Head(rxQueue) \in Q
      BY <2>1, <3>1, HeadTailProperties
    <3>3. Len(socket') <= Socket
      BY <1>0, <2>1, <2>2, <2>3, <3>1, <3>2, AppendProperties
    <3>4. Len(rxQueue') <= RxQueue
      BY <1>0, <2>2, <2>3, <3>2
    <3> QED
      BY <2>3, <3>1, <3>3, <3>4 DEF Room
  <2>10. CASE Burst!Recv
    <3>1. /\ socket # <<>> /\ socket' = Tail(socket)
          /\ UNCHANGED <<bursts, chip, transfer, carried, rxQueue>>
      BY <2>10 DEF Burst!Recv
    <3>2. Len(socket') = Len(socket) - 1
      BY <2>1, <3>1, HeadTailProperties
    <3>3. Len(socket') <= Socket
      BY <1>0, <2>2, <2>3, <3>2
    <3> QED
      BY <2>3, <3>1, <3>3 DEF Room
  <2>11. CASE Burst!QuietElapses
    BY <2>3, <2>11 DEF Burst!QuietElapses, Burst!pathVars, Room
  <2>12. CASE Burst!Next
    BY <2>5, <2>6, <2>7, <2>8, <2>9, <2>10, <2>11, <2>12 DEF Burst!Next, Burst!BoardStep
  <2> QED
    BY <2>4, <2>12 DEF Next, IrqPart, BurstPart, EchoPart, I2cPart, IdlePart, vars
<1> QED
  BY <1>1, <1>2, BurstInvHolds, PTL DEF Spec

LEMMA BurstTypes == Spec => []Burst!TypeOK
<1>1. BurstInv /\ Room /\ SnapshotInv => Burst!TypeOK
  <2> SUFFICES ASSUME BurstInv, Room, SnapshotInv PROVE Burst!TypeOK
    OBVIOUS
  <2>1. /\ host \in [total : Totals \cup {0}, unsent : Nat, lost : Nat]
        /\ carried \in 0 .. Transfer
        /\ stats \in [{"frames", "batched"} -> 0 .. Wrap32 - 1]
        /\ Queues /\ Reckoned
    BY DEF BurstInv
  <2>2. host.unsent + host.lost <= host.total
    <3>1. /\ Own(chip) \in Nat /\ Own(transfer) \in Nat /\ Own(rxQueue) \in Nat /\ Own(socket) \in Nat
      BY <2>1, OwnCounts
    <3>2. host.total \in Totals \cup {0} /\ host.unsent \in Nat /\ host.lost \in Nat
      BY <2>1
    <3>3. host.total \in Nat
      <4>1. \A total \in Totals \cup {0} : total \in Nat
        BY SizeAssumption
      <4> QED
        BY <3>2, <4>1
    <3>4. InFlight \in Nat /\ host.unsent <= InFlight
      BY <3>1, <3>2 DEF InFlight
    <3>5. CASE burst \in Bursts(host.total) /\ InFlight + host.lost + burst.received = host.total
      <4>1. burst.received \in Nat
        BY <3>5 DEF Bursts
      <4> QED
        BY <3>2, <3>3, <3>4, <3>5, <4>1
    <3>6. CASE host.lost <= host.total /\ (InFlight = 0 \/ InFlight + host.lost = host.total)
      BY <3>2, <3>3, <3>4, <3>6
    <3> QED
      BY <2>1, <3>5, <3>6 DEF Reckoned
  <2>3. {chip, transfer, rxQueue, socket} \subseteq Seq(Totals \cup {Burst!Foreign})
    <3> DEFINE Q == {host.total, Burst!Foreign}
               A == Totals \cup {Burst!Foreign}
    <3>1. Q \subseteq A
      BY <2>1 DEF Burst!Foreign
    <3>2. /\ chip \in Seq(Q) /\ transfer \in Seq(Q) /\ rxQueue \in Seq(Q) /\ socket \in Seq(Q)
      BY <2>1 DEF Queues
    <3> HIDE DEF Q, A
    <3>3. \A q \in Seq(Q) : q \in Seq(A)
      BY <3>1
    <3>4. /\ chip \in Seq(A) /\ transfer \in Seq(A) /\ rxQueue \in Seq(A) /\ socket \in Seq(A)
      BY <3>2, <3>3
    <3> QED
      BY <3>4 DEF A
  <2>4. burst = Burst!NoBurst \/ burst.total \in Totals
    BY <2>1 DEF Reckoned, Bursts
  <2>5. host.total \in Totals \cup {0}
    BY <2>1
  <2>6. Len(transfer) <= carried /\ carried <= Transfer
    BY <2>1, SizeAssumption DEF Room
  <2> QED
    BY <2>1, <2>2, <2>3, <2>4, <2>5, <2>6 DEF Room, SnapshotInv, Burst!TypeOK
<1> QED
  BY <1>1, BurstInvHolds, RoomHolds, SnapshotInvHolds, PTL

-----------------------------------------------------------------------------
(* What the server awaits, and the socket has room for.                    *)
ServerTypes ==
    /\ echoPc \in {"accept", "read", "write"} /\ peer \in {"open", "closed", "reset", "none"}
    /\ Len(rx) <= RxBuffer /\ n \in 0 .. Buf

LEMMA ServerTypesHold == Spec => []ServerTypes
<1>0. RxBuffer \in Nat /\ Buf \in Nat
  BY SizeAssumption
<1>1. Init => ServerTypes
  BY <1>0 DEF Init, Echo!Init, ServerTypes
<1>2. EchoInv /\ ServerTypes /\ [Next]_vars => ServerTypes'
  <2> SUFFICES ASSUME EchoInv, ServerTypes, [Next]_vars PROVE ServerTypes'
    OBVIOUS
  <2>0. /\ echoPc \in {"accept", "read", "write"} /\ peer \in {"open", "closed", "reset", "none"}
        /\ Len(rx) <= RxBuffer /\ n \in 0 .. Buf
        /\ rx \in Seq(Echo!Bytes) /\ Len(rx) \in Nat
    BY LenProperties DEF ServerTypes, EchoInv, Mine
  <2>1. CASE UNCHANGED echoVars
    BY <2>0, <2>1 DEF echoVars, ServerTypes
  <2>2. CASE Echo!Sends
    <3>1. /\ Len(rx) < RxBuffer /\ UNCHANGED <<echoPc, peer, n>>
          /\ client > 0 /\ client \in 0 .. MaxClients
          /\ sent < MaxBytes /\ sent \in 0 .. MaxBytes
          /\ rx' = Append(rx, [of |-> client, at |-> sent + 1])
      BY <2>2 DEF Echo!Sends, EchoInv
    <3>2. [of |-> client, at |-> sent + 1] \in Echo!Bytes
      <4>1. client \in 1 .. MaxClients /\ sent + 1 \in 1 .. MaxBytes
        <5>1. MaxClients \in Nat /\ MaxBytes \in Nat
          BY SizeAssumption
        <5> QED
          BY <3>1, <5>1
      <4> QED
        BY <4>1 DEF Echo!Bytes
    <3>3. Len(rx') = Len(rx) + 1
      BY <2>0, <3>1, <3>2, AppendProperties
    <3>4. Len(rx') <= RxBuffer
      BY <1>0, <2>0, <3>1, <3>3
    <3> QED
      BY <2>0, <3>1, <3>4 DEF ServerTypes
  <2>3. CASE \E how \in {"closed", "reset"} : Echo!Leaves(how)
    BY <2>0, <2>3 DEF Echo!Leaves, ServerTypes
  <2>4. CASE Echo!Acknowledges
    BY <2>0, <2>4 DEF Echo!Acknowledges, Echo!clientVars, ServerTypes
  <2>5. CASE Echo!Accept
    BY <1>0, <2>0, <2>5 DEF Echo!Accept, ServerTypes
  <2>6. CASE Echo!Read
    <3> DEFINE k == Echo!Ready
    <3>1. /\ rx # <<>> /\ rx' = SubSeq(rx, k + 1, Len(rx)) /\ n' = k
          /\ echoPc' = "write" /\ peer' = peer
      BY <2>6 DEF Echo!Read, Echo!clientVars
    <3>2. k \in 1 .. Len(rx) /\ k \in 0 .. Buf
      <4>1. Len(rx) > 0
        BY <2>0, <3>1, EmptySeq
      <4>2. Buf > 0
        BY SizeAssumption
      <4> QED
        BY <1>0, <2>0, <4>1, <4>2 DEF Echo!Ready
    <3> HIDE DEF k
    <3>3. Len(rx') = Len(rx) - k
      BY <2>0, <3>1, <3>2, TakeFront
    <3>4. Len(rx') <= RxBuffer
      BY <1>0, <2>0, <3>2, <3>3
    <3> QED
      BY <2>0, <3>1, <3>2, <3>4 DEF ServerTypes
  <2>7. CASE Echo!Write
    BY <2>0, <2>7 DEF Echo!Write, Echo!clientVars, ServerTypes
  <2>8. CASE Echo!ReadEnds \/ Echo!WriteFails
    BY <2>0, <2>8 DEF Echo!ReadEnds, Echo!WriteFails, Echo!Abort, ServerTypes
  <2>9. CASE Echo!Next
    BY <2>2, <2>3, <2>4, <2>5, <2>6, <2>7, <2>8, <2>9 DEF Echo!Next, Echo!ServerStep
  <2> QED
    BY <2>1, <2>9 DEF Next, IrqPart, BurstPart, EchoPart, I2cPart, IdlePart, vars
<1> QED
  BY <1>1, <1>2, EchoInvHolds, PTL DEF Spec

(* What the measurement of the bus records is within the run.              *)
BusTypes ==
    /\ clock \in 0 .. Horizon /\ since \in 0 .. Horizon /\ maxGap \in 0 .. Horizon
    /\ blocked \in 0 .. Horizon
    /\ busPc \in I2c!Steps /\ parked \in BOOLEAN
    /\ beat \in 1 .. Horizon + 1
    /\ report \in [gap : 0 .. Horizon, shown : 0 .. Horizon]

LEMMA BusTypesHold == Spec => []BusTypes
<1>0. Horizon \in Nat
  BY SizeAssumption
<1>1. Init => BusTypes
  <2> SUFFICES ASSUME Init PROVE BusTypes
    OBVIOUS
  <2>1. /\ clock = 0 /\ busPc = "probe" /\ parked = FALSE /\ since = 0 /\ beat = 1
        /\ maxGap = 0 /\ blocked = 0 /\ report = [gap |-> 0, shown |-> 0]
    BY DEF Init, I2c!Init
  <2>2. /\ 0 \in 0 .. Horizon /\ 1 \in 1 .. Horizon + 1
    BY <1>0
  <2>3. report \in [gap : 0 .. Horizon, shown : 0 .. Horizon]
    BY <2>1, <2>2
  <2>4. busPc \in I2c!Steps /\ parked \in BOOLEAN
    BY <2>1 DEF I2c!Steps, I2c!Timed
  <2> QED
    BY <2>1, <2>2, <2>3, <2>4 DEF BusTypes
<1>2. BusInv /\ BusTypes /\ [Next]_vars => BusTypes'
  <2> SUFFICES ASSUME BusInv, BusTypes, [Next]_vars PROVE BusTypes'
    OBVIOUS
  <2>0. /\ clock \in 0 .. Horizon /\ since \in 0 .. Horizon /\ maxGap \in 0 .. Horizon
        /\ blocked \in 0 .. Horizon /\ last \in Nat /\ shown \in Nat /\ shown <= maxGap
        /\ last + blocked <= clock
        /\ busPc \in I2c!Steps /\ parked \in BOOLEAN
        /\ beat \in 1 .. Horizon + 1
        /\ report \in [gap : 0 .. Horizon, shown : 0 .. Horizon]
    BY DEF BusInv, BusTypes
  <2>1. CASE UNCHANGED busVars
    BY <2>0, <2>1 DEF busVars, BusTypes
  <2>2. CASE I2c!Tick
    <3>1. clock' \in 0 .. Horizon /\ blocked' \in 0 .. Horizon
      BY <1>0, <2>0, <2>2 DEF I2c!Tick
    <3> QED
      BY <2>0, <2>2, <3>1 DEF I2c!Tick, BusTypes
  <2>3. CASE I2c!Heartbeat
    <3>1. /\ maxGap' \in 0 .. Horizon /\ beat' \in 1 .. Horizon + 1 /\ blocked' = 0
          /\ UNCHANGED <<clock, busPc, parked, since, report>>
      BY <1>0, <2>0, <2>3 DEF I2c!Heartbeat, I2c!LongestGap, I2c!MaxOf
    <3> QED
      BY <1>0, <2>0, <3>1 DEF BusTypes
  <2>4. CASE I2c!Parks \/ I2c!Polled
    BY <2>0, <2>4 DEF I2c!Parks, I2c!Polled, BusTypes
  <2>5. ASSUME NEW from, NEW to \in I2c!Steps, I2c!BusStep(from, to)
        PROVE  BusTypes'
    <3>1. /\ UNCHANGED <<clock, parked, beat>> /\ blocked' = 0 /\ since' = clock
          /\ maxGap' \in {0, maxGap} /\ busPc' = to
      BY <2>5 DEF I2c!BusStep, I2c!Goto
    <3>2. report' \in {report, [gap |-> maxGap, shown |-> shown]}
      BY <2>5 DEF I2c!BusStep, I2c!Reported
    <3>3. shown \in 0 .. Horizon /\ 0 \in 0 .. Horizon
      BY <1>0, <2>0
    <3>4. report' \in [gap : 0 .. Horizon, shown : 0 .. Horizon]
      BY <2>0, <3>2, <3>3
    <3> QED
      BY <2>0, <2>5, <3>1, <3>3, <3>4 DEF BusTypes
  <2>6. CASE I2c!NextPass
    <3>1. /\ UNCHANGED <<clock, beat, report>> /\ blocked' = 0 /\ since' = clock
          /\ maxGap' \in {0, maxGap} /\ busPc' = "probe" /\ parked' = FALSE
      BY <2>6 DEF I2c!NextPass, I2c!Goto
    <3>2. busPc' \in I2c!Steps /\ parked' \in BOOLEAN
      BY <3>1 DEF I2c!Steps, I2c!Timed
    <3>3. 0 \in 0 .. Horizon
      BY <1>0
    <3> QED
      BY <2>0, <3>1, <3>2, <3>3 DEF BusTypes
  <2>7. {"present", "pause", "long", "cancel", "after"} \subseteq I2c!Steps
    BY DEF I2c!Steps, I2c!Timed
  <2>8. CASE I2c!Next
    BY <2>2, <2>3, <2>4, <2>5, <2>6, <2>7, <2>8 DEF I2c!Next, I2c!Probed, I2c!Absent, I2c!Present,
       I2c!LongRead, I2c!CompletedFirst, I2c!DroppedMidTransfer, I2c!NextTransfer
  <2> QED
    BY <2>1, <2>8 DEF Next, IrqPart, BurstPart, EchoPart, I2cPart, IdlePart, vars
<1> QED
  BY <1>1, <1>2, BusInvHolds, PTL DEF Spec

(* A run injects SPURIOUS_TARGET matches and stops.                        *)
ProbeTypes ==
    /\ probePc \in {"phase1", "aim", "write", "check", "read", "spin", "phase4", "done"}
    /\ probeIrq \in {"out", "driver", "aim", "write", "check"}
    /\ match \in BOOLEAN /\ inject \in BOOLEAN
    /\ spurious \in 0 .. SPURIOUS_TARGET /\ late \in 0 .. MaxLate
    /\ probePc = "phase1" => spurious = 0
    /\ inject => spurious < SPURIOUS_TARGET

LEMMA ProbeTypesHold == Spec => []ProbeTypes
<1>0. SPURIOUS_TARGET \in Nat \ {0} /\ MaxLate \in Nat
  BY SizeAssumption
<1>1. Init => ProbeTypes
  <2> SUFFICES ASSUME Init PROVE ProbeTypes
    OBVIOUS
  <2>1. /\ probePc = "phase1" /\ probeIrq = "out" /\ match = FALSE /\ inject = FALSE
        /\ spurious = 0 /\ late = 0
    BY DEF Init, Idle!Init
  <2>2. spurious \in 0 .. SPURIOUS_TARGET /\ late \in 0 .. MaxLate
    BY <1>0, <2>1
  <2> QED
    BY <2>1, <2>2 DEF ProbeTypes
<1>2. ProbeInv /\ ProbeTypes /\ [Next]_vars => ProbeTypes'
  <2> SUFFICES ASSUME ProbeInv, ProbeTypes, [Next]_vars PROVE ProbeTypes'
    OBVIOUS
  <2>0. /\ probePc \in {"phase1", "aim", "write", "check", "read", "spin", "phase4", "done"}
        /\ probeIrq \in {"out", "driver", "aim", "write", "check"}
        /\ match \in BOOLEAN /\ inject \in BOOLEAN
        /\ spurious \in 0 .. SPURIOUS_TARGET /\ late \in 0 .. MaxLate
        /\ probePc = "phase1" => spurious = 0
        /\ inject => spurious < SPURIOUS_TARGET
    BY DEF ProbeTypes
  <2>1. CASE UNCHANGED probeVars
    BY <2>0, <2>1 DEF probeVars, ProbeTypes
  <2>2. CASE Idle!Tick
    <3>1. /\ UNCHANGED <<probePc, probeIrq, inject, spurious>>
          /\ late' \in {late, late + 1} /\ late' <= MaxLate
      BY <1>0, <2>0, <2>2 DEF Idle!Tick
    <3>2. match' \in BOOLEAN
      BY <2>2, Zenon DEF Idle!Tick
    <3>3. late' \in 0 .. MaxLate
      BY <1>0, <2>0, <3>1
    <3> QED
      BY <2>0, <3>1, <3>2, <3>3 DEF ProbeTypes
  <2>3. CASE Idle!TakeIrq
    BY <2>0, <2>3 DEF Idle!TakeIrq, ProbeTypes
  <2>4. CASE Idle!Handle
    <3>1. UNCHANGED <<probePc, match, late>>
      BY <2>4 DEF Idle!Handle
    <3>2. CASE ~inject
      BY <2>0, <2>4, <3>1, <3>2 DEF Idle!Handle, ProbeTypes
    <3>3. CASE inject
      <4>1. /\ spurious' = spurious + 1
            /\ probeIrq' \in {"out", "aim"}
            /\ inject' = ~(spurious + 1 = SPURIOUS_TARGET)
        BY <2>4, <3>3 DEF Idle!Handle, Idle!Last
      <4>2. inject' \in BOOLEAN
        BY <4>1, Zenon
      <4>3. spurious' \in 0 .. SPURIOUS_TARGET /\ (inject' => spurious' < SPURIOUS_TARGET)
        <5>1. spurious < SPURIOUS_TARGET /\ spurious \in Nat
          BY <1>0, <2>0, <3>3
        <5>2. inject' => spurious + 1 # SPURIOUS_TARGET
          BY <4>1, Zenon
        <5> QED
          BY <1>0, <4>1, <5>1, <5>2
      <4>4. probePc' # "phase1"
        BY <3>1, <3>3 DEF ProbeInv
      <4> QED
        BY <2>0, <3>1, <4>1, <4>2, <4>3, <4>4 DEF ProbeTypes
    <3> QED
      BY <3>2, <3>3
  <2>5. CASE Idle!HandlerAims \/ Idle!HandlerWrites \/ Idle!HandlerChecks
    BY <2>0, <2>5 DEF Idle!HandlerAims, Idle!HandlerWrites, Idle!HandlerChecks, Idle!Aim,
                      Idle!Write, ProbeTypes
  <2>6. CASE Idle!StartInjecting
    BY <1>0, <2>0, <2>6 DEF Idle!StartInjecting, Idle!Task, Idle!Unarmed, ProbeTypes
  <2>7. CASE Idle!TaskAims \/ Idle!TaskWrites \/ Idle!TaskChecks \/ Idle!KeyPressed
    BY <2>0, <2>7 DEF Idle!TaskAims, Idle!TaskWrites, Idle!TaskChecks, Idle!KeyPressed, Idle!Task,
                      Idle!Aim, Idle!Write, Idle!Unarmed, ProbeTypes
  <2>8. CASE Idle!Phase4 \/ Idle!Done
    BY <2>0, <2>8 DEF Idle!Phase4, Idle!Done, Idle!Task, Idle!Unarmed, ProbeTypes
  <2>9. CASE Idle!Next
    BY <2>2, <2>3, <2>4, <2>5, <2>6, <2>7, <2>8, <2>9
    DEF Idle!Next, Idle!Handler, Idle!TaskStep
  <2> QED
    BY <2>1, <2>9 DEF Next, IrqPart, BurstPart, EchoPart, I2cPart, IdlePart, vars
<1> QED
  BY <1>1, <1>2, ProbeInvHolds, PTL DEF Spec

(* Every part keeps its types, and with them the capacities of its queues  *)
(* and buffers and the SPURIOUS_TARGET matches a run is limited to         *)
(* (ethernet.rs, embassy_net_burst.rs, embassy_net_echo.rs, irq.rs,        *)
(* embassy_i2c.rs, embassy_time_idle.rs).                                  *)
THEOREM TypeCorrect == Spec => []TypeOK
<1> DEFINE Running == part \in {"irq", "burst", "echo", "i2c", "idle"}
<1>1. Init => Running
  BY DEF Init
<1>2. Running /\ [Next]_vars => Running'
  BY DEF Next, IrqPart, BurstPart, EchoPart, I2cPart, IdlePart, vars
<1>3. EchoInv /\ ServerTypes => Echo!TypeOK
  BY DEF EchoInv, ServerTypes, Mine, Echo!TypeOK
<1>4. BusInv /\ BusTypes => I2c!TypeOK
  <2> SUFFICES ASSUME BusInv, BusTypes PROVE I2c!TypeOK
    OBVIOUS
  <2>1. last \in 0 .. Horizon /\ shown \in 0 .. Horizon
    BY SizeAssumption DEF BusInv, BusTypes
  <2> QED
    BY <2>1 DEF BusTypes, I2c!TypeOK
<1>5. ProbeInv /\ ProbeTypes => Idle!TypeOK
  BY DEF ProbeInv, ProbeTypes, Idle!TypeOK
<1>6. Spec => []Running
  BY <1>1, <1>2, PTL DEF Spec
<1>7. /\ Running
      /\ Irq!TypeOK /\ Burst!TypeOK /\ Echo!TypeOK /\ I2c!TypeOK /\ Idle!TypeOK
      => TypeOK
  BY DEF TypeOK
<1> QED
  BY <1>3, <1>4, <1>5, <1>6, <1>7, IrqTypes, BurstTypes, EchoInvHolds, ServerTypesHold, BusInvHolds,
     BusTypesHold, ProbeInvHolds, ProbeTypesHold, PTL
=============================================================================
