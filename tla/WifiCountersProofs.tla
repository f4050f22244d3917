--------------------------- MODULE WifiCountersProofs ---------------------------
(***************************************************************************)
(* An answer is never older than the request of a caller on the runner's   *)
(* core, for any callers, any of them on other cores, and any number of    *)
(* requests.                                                               *)
(***************************************************************************)
EXTENDS WifiCounters, TLAPS

(* What a caller of the runner's core knows beyond its type: inside its    *)
(* request nothing is being read and the slot is empty, and a reading that *)
(* is under way began after its last request.                              *)
Aware(c) ==
    /\ pc[c] = "cleared" => reading = 0 /\ COUNTERS = 0
    /\ reading # 0 => reading > asked[c]

IInv ==
    /\ TypeOK
    /\ \A c \in Local : Aware(c) /\ Fresh(c)

-----------------------------------------------------------------------------
(* The slot is empty and nobody has asked (wifi.rs 673-677).               *)
LEMMA InitIInv == Init => IInv
<1> SUFFICES ASSUME Init PROVE IInv
  OBVIOUS
<1>1. TypeOK
  <2>1. COUNTERS_WANTED \in BOOLEAN
    BY Zenon DEF Init
  <2>2. /\ COUNTERS \in 0 .. events /\ reading \in 0 .. events
        /\ events \in 0 .. MaxEvents
    BY CallerAssumption DEF Init
  <2>3. /\ pc \in [Callers -> {"idle", "cleared", "waiting"}]
        /\ asked \in [Callers -> 0 .. events]
    BY DEF Init
  <2> QED
    BY <2>1, <2>2, <2>3 DEF TypeOK
<1>2. ASSUME NEW c \in Local PROVE Aware(c) /\ Fresh(c)
  BY <1>2, CallerAssumption DEF Init, Aware, Fresh
<1> QED
  BY <1>1, <1>2 DEF IInv

(* Each of the caller's and the runner's steps keeps the stamps in order   *)
(* (wifi.rs 653-712).                                                      *)
LEMMA NextIInv == IInv /\ [Next]_vars => IInv'
<1> SUFFICES ASSUME IInv, [Next]_vars PROVE IInv'
  OBVIOUS
<1> USE CallerAssumption DEF IInv, TypeOK, Aware, Fresh
<1>1. ASSUME NEW c \in Callers, Clear(c) PROVE IInv'
  <2>1. TypeOK'
    BY <1>1 DEF Clear
  <2>2. ASSUME NEW d \in Local PROVE Aware(d)' /\ Fresh(d)'
    <3>1. CASE d = c
      BY <1>1, <2>2, <3>1 DEF Clear, CoreFree, NoCaller
    <3>2. CASE d # c
      BY <1>1, <2>2, <3>2 DEF Clear
    <3> QED
      BY <3>1, <3>2
  <2> QED
    BY <2>1, <2>2
<1>2. ASSUME NEW c \in Callers, Want(c) PROVE IInv'
  BY <1>2 DEF Want
<1>3. ASSUME NEW c \in Callers, Take(c) PROVE IInv'
  BY <1>3 DEF Take
<1>4. CASE Begin
  <2>1. TypeOK'
    <3>1. events \in Nat /\ events' = events + 1 /\ events' <= MaxEvents
      BY <1>4 DEF Begin
    <3>2. 0 .. events \subseteq 0 .. events'
      BY <3>1
    <3>3. asked \in [Callers -> 0 .. events']
      BY <3>2
    <3>4. COUNTERS_WANTED' \in BOOLEAN
      BY <1>4, Zenon DEF Begin
    <3>5. /\ COUNTERS' \in 0 .. events' /\ reading' \in 0 .. events'
          /\ events' \in 0 .. MaxEvents
      BY <1>4, <3>1, <3>2 DEF Begin
    <3>6. /\ pc' \in [Callers -> {"idle", "cleared", "waiting"}]
          /\ asked' \in [Callers -> 0 .. events']
      BY <1>4, <3>3 DEF Begin
    <3> QED
      BY <3>4, <3>5, <3>6
  <2>2. ASSUME NEW d \in Local PROVE Aware(d)' /\ Fresh(d)'
    BY <1>4, <2>2 DEF Begin, CoreFree, NoCaller
  <2> QED
    BY <2>1, <2>2
<1>5. CASE Store
  BY <1>5 DEF Store
<1>6. CASE UNCHANGED vars
  BY <1>6 DEF vars
<1> QED
  BY <1>1, <1>2, <1>3, <1>4, <1>5, <1>6 DEF Next

(* A caller that shares the runner's core and finds the slot filled has    *)
(* a reading that began after it asked (wifi.rs 679-698).                  *)
THEOREM AnswerAlwaysFresh == Spec => []AnswerIsFresh
<1>1. IInv => AnswerIsFresh
  BY DEF IInv, AnswerIsFresh
<1> QED
  BY InitIInv, NextIInv, <1>1, PTL DEF Spec
=============================================================================
