------------------------------- MODULE WifiProofs -------------------------------
(***************************************************************************)
(* What the Wi-Fi runner says of its association, when it notices a loss   *)
(* and how it paces its joins, for any intervals and any delay of a pass;  *)
(* and that an image runs the firmware of its chip, whatever is on the     *)
(* card.                                                                   *)
(***************************************************************************)
EXTENDS WifiBoot, TLAPS

(* A time is counted only for a network that is gone.                      *)
Counting == onNet => off = 0

(* What is counted is silence, and the wait for the probe that was under   *)
(* way when it began has not been started again; after a pass one of the   *)
(* two is not over.                                                        *)
Noticing ==
    /\ off <= silent \/ silent = RX_SILENCE
    /\ state = "Up" /\ dueIn > 0 => off + dueIn <= PROBE_INTERVAL
    /\ state = "Up" /\ ~awake => off = 0 \/ dueIn > 0 \/ silent < RX_SILENCE
    /\ state = "Up" => off < NoticeBound

(* The wait before a join may be issued makes up what is missing of the    *)
(* gap since the last.                                                     *)
Pacing == state \in {"Up", "Down"} => sinceJoin + dueIn >= JoinGap

IInv == TypeOK /\ OneAnswer /\ Counting /\ Noticing /\ Pacing

(* Until a chip has answered, no firmware was loaded; the one loaded then  *)
(* is for the radio that answered; and files are opened while some of the  *)
(* four are missing.                                                       *)
ChipAsked == boot = "firmware" => board = chip
FilesMissing == boot \in {"revision", "radio", "sd", "open", "read"} => Len(lens) < Files

BootInv == BootTypes /\ FirmwareFits /\ ChipAsked /\ FilesMissing

-----------------------------------------------------------------------------
(* The longer and the shorter of two times (FiniteSetsExt).                *)
LEMMA MaxOfTwo ==
    ASSUME NEW a \in Int, NEW b \in Int
    PROVE  Max({a, b}) = IF a >= b THEN a ELSE b
<1>1. \E x \in {a, b} : \A y \in {a, b} : x >= y
  OBVIOUS
<1>2. Max({a, b}) \in {a, b} /\ \A y \in {a, b} : Max({a, b}) >= y
  BY <1>1, Zenon DEF Max
<1> QED
  BY <1>2

LEMMA MinOfTwo ==
    ASSUME NEW a \in Int, NEW b \in Int
    PROVE  Min({a, b}) = IF a <= b THEN a ELSE b
<1>1. \E x \in {a, b} : \A y \in {a, b} : x <= y
  OBVIOUS
<1>2. Min({a, b}) \in {a, b} /\ \A y \in {a, b} : Min({a, b}) <= y
  BY <1>1, Zenon DEF Min
<1> QED
  BY <1>2

(* Time that passes is taken off a wait down to nothing, and added to what *)
(* is counted up to its limit.                                             *)
LEMMA Times ==
    /\ \A t, d \in Nat : Left(t, d) = IF d <= t THEN t - d ELSE 0
    /\ \A l, t \in Nat : UpTo(l, t) = IF l <= t THEN l ELSE t
    /\ JoinGap \in Nat /\ JoinGap <= RETRY_INTERVAL /\ JoinGap <= PROBE_INTERVAL
    /\ NoticeBound \in Nat
    /\ NoticeBound >= RX_SILENCE + MaxDelay /\ NoticeBound >= PROBE_INTERVAL + MaxDelay
    /\ LongestWait \in Nat /\ {PROBE_INTERVAL, JOIN_POLL, RETRY_INTERVAL} \subseteq 0 .. LongestWait
<1>1. ASSUME NEW t \in Nat, NEW d \in Nat
      PROVE  Left(t, d) = IF d <= t THEN t - d ELSE 0
  <2>1. Left(t, d) = IF 0 >= t - d THEN 0 ELSE t - d
    BY MaxOfTwo DEF Left
  <2> QED
    BY <2>1
<1>2. \A l, t \in Nat : UpTo(l, t) = IF l <= t THEN l ELSE t
  BY MinOfTwo DEF UpTo
<1>3. JoinGap \in Nat /\ JoinGap <= RETRY_INTERVAL /\ JoinGap <= PROBE_INTERVAL
  BY MinOfTwo, IntervalAssumption DEF JoinGap
<1>4. Max({RX_SILENCE, PROBE_INTERVAL}) \in Nat
      /\ Max({RX_SILENCE, PROBE_INTERVAL}) >= RX_SILENCE
      /\ Max({RX_SILENCE, PROBE_INTERVAL}) >= PROBE_INTERVAL
  BY MaxOfTwo, IntervalAssumption
<1>5. /\ NoticeBound \in Nat
      /\ NoticeBound >= RX_SILENCE + MaxDelay /\ NoticeBound >= PROBE_INTERVAL + MaxDelay
  BY <1>4, IntervalAssumption DEF NoticeBound
<1>6. LongestWait \in Nat /\ {PROBE_INTERVAL, JOIN_POLL, RETRY_INTERVAL} \subseteq 0 .. LongestWait
  <2> DEFINE W == {PROBE_INTERVAL, JOIN_POLL, RETRY_INTERVAL}
  <2>1. W \subseteq Nat /\ \E x \in W : \A y \in W : x >= y
    BY IntervalAssumption
  <2>2. LongestWait \in W /\ \A y \in W : LongestWait >= y
    BY <2>1, Zenon DEF Max, LongestWait
  <2> QED
    BY <2>1, <2>2
<1> QED
  BY <1>1, <1>2, <1>3, <1>5, <1>6

-----------------------------------------------------------------------------
(* A runner that was handed its chip and has not been polled (wifi.rs      *)
(* 279-295).                                                               *)
LEMMA InitIInv == Init => IInv
<1> SUFFICES ASSUME Init PROVE IInv
  OBVIOUS
<1>1. Flags
  BY Zenon DEF Init, Flags
<1>2. Ranges
  BY Times, IntervalAssumption DEF Init, Ranges
<1>3. OneAnswer /\ Counting /\ Noticing /\ Pacing
  BY Times, IntervalAssumption DEF Init, OneAnswer, Counting, Noticing, Pacing
<1> QED
  BY <1>1, <1>2, <1>3 DEF IInv, TypeOK

(* Time passes until the next pass (wifi.rs 297-323).                      *)
LEMMA ElapseIInv == ASSUME IInv, NEW d \in 1 .. MaxDelay, Elapse(d) PROVE IInv'
<1>1. Flags'
  <2>1. awake' = TRUE /\ UNCHANGED <<reconnect, ASSOCIATED, LINK, onNet, pending, settled>>
    BY DEF Elapse, toldVars, chipVars
  <2> QED
    BY <2>1, Zenon DEF IInv, TypeOK, Flags
<1>2. d \in Nat /\ d <= MaxDelay /\ MaxDelay \in Nat
  BY IntervalAssumption
<1>3. /\ dueIn \in Nat /\ deadlineIn \in Nat /\ silent \in Nat /\ linkDueIn \in Nat
      /\ off \in Nat /\ sinceJoin \in Nat
      /\ dueIn <= LongestWait /\ deadlineIn <= JOIN_BUDGET /\ linkDueIn <= LINK_INTERVAL
      /\ silent <= RX_SILENCE /\ RX_SILENCE \in Nat /\ PROBE_INTERVAL \in Nat
  BY Times, IntervalAssumption DEF IInv, TypeOK, Ranges
<1>4. /\ dueIn' = (IF d <= dueIn THEN dueIn - d ELSE 0)
      /\ deadlineIn' = (IF d <= deadlineIn THEN deadlineIn - d ELSE 0)
      /\ linkDueIn' = (IF d <= linkDueIn THEN linkDueIn - d ELSE 0)
      /\ silent' = (IF RX_SILENCE <= silent + d THEN RX_SILENCE ELSE silent + d)
      /\ off' = (IF onNet THEN 0 ELSE IF NoticeBound <= off + d THEN NoticeBound ELSE off + d)
      /\ sinceJoin' = (IF JoinGap <= sinceJoin + d THEN JoinGap ELSE sinceJoin + d)
      /\ awake' = TRUE /\ (state = "Up" => ~awake)
      /\ UNCHANGED <<state, quiet, ASSOCIATED, stackLink, DROPS, JOINS, onNet, settings>>
  <2>1. /\ dueIn' = Left(dueIn, d) /\ deadlineIn' = Left(deadlineIn, d)
        /\ linkDueIn' = Left(linkDueIn, d) /\ silent' = UpTo(RX_SILENCE, silent + d)
        /\ off' = (IF onNet THEN 0 ELSE UpTo(NoticeBound, off + d))
        /\ sinceJoin' = UpTo(JoinGap, sinceJoin + d)
        /\ awake' = TRUE /\ (state = "Up" => ~awake)
        /\ UNCHANGED <<state, quiet, ASSOCIATED, stackLink, DROPS, JOINS, onNet, settings>>
    BY DEF Elapse, toldVars, chipVars
  <2>2. \A t \in Nat : Left(t, d) = IF d <= t THEN t - d ELSE 0
    BY <1>2, Times
  <2>3. /\ silent + d \in Nat /\ off + d \in Nat /\ sinceJoin + d \in Nat
        /\ JoinGap \in Nat /\ NoticeBound \in Nat
    BY <1>2, <1>3, Times
  <2>4. /\ UpTo(RX_SILENCE, silent + d)
             = (IF RX_SILENCE <= silent + d THEN RX_SILENCE ELSE silent + d)
        /\ UpTo(NoticeBound, off + d)
             = (IF NoticeBound <= off + d THEN NoticeBound ELSE off + d)
        /\ UpTo(JoinGap, sinceJoin + d)
             = (IF JoinGap <= sinceJoin + d THEN JoinGap ELSE sinceJoin + d)
    BY <1>3, <2>3, Times
  <2> QED
    BY <1>3, <2>1, <2>2, <2>4
<1>5. Ranges'
  BY <1>2, <1>3, <1>4, Times, IntervalAssumption DEF IInv, TypeOK, Ranges
<1>6. OneAnswer'
  BY <1>4 DEF IInv, OneAnswer
<1>7. Counting'
  BY <1>4 DEF IInv, Counting
<1>8. Noticing'
  <2>1. off' <= silent' \/ silent' = RX_SILENCE
    BY <1>2, <1>3, <1>4, Times DEF IInv, Noticing
  <2>2. state' = "Up" /\ dueIn' > 0 => off' + dueIn' <= PROBE_INTERVAL
    BY <1>2, <1>3, <1>4, Times DEF IInv, Noticing
  <2>3. state' = "Up" => off' < NoticeBound
    BY <1>2, <1>3, <1>4, Times, IntervalAssumption DEF IInv, Noticing
  <2> QED
    BY <1>4, <2>1, <2>2, <2>3 DEF Noticing
<1>9. Pacing'
  BY <1>2, <1>3, <1>4, Times DEF IInv, Pacing
<1> QED
  BY <1>1, <1>5, <1>6, <1>7, <1>8, <1>9 DEF IInv, TypeOK

(* The first poll takes the chip as up, though it may no longer be, and    *)
(* counts from there (wifi.rs 279-295, 470-478).                           *)
LEMMA BeginIInv == IInv /\ Begin => IInv'
<1> SUFFICES ASSUME IInv, Begin PROVE IInv'
  OBVIOUS
<1>1. /\ state = "Unstarted" /\ state' = "Up" /\ ASSOCIATED' = TRUE /\ stackLink' = "Up"
      /\ dueIn' = PROBE_INTERVAL /\ silent' = 0 /\ quiet' = 0 /\ linkDueIn' = 0 /\ off' = 0
      /\ UNCHANGED <<reconnect, awake, deadlineIn, LINK, DROPS, JOINS, onNet, pending,
                     settings, settled, sinceJoin>>
  BY DEF Begin, chipVars
<1>2. Flags'
  BY <1>1, Zenon DEF IInv, TypeOK, Flags
<1>3. Ranges'
  BY <1>1, Times, IntervalAssumption DEF IInv, TypeOK, Ranges
<1>5. PROBE_INTERVAL \in Nat \ {0} /\ sinceJoin \in Nat /\ MaxDelay \in Nat \ {0}
  BY Times, IntervalAssumption DEF IInv, TypeOK, Ranges
<1>6. OneAnswer' /\ Counting'
  BY <1>1 DEF IInv, OneAnswer, Counting
<1>7. Noticing'
  BY <1>1, <1>5, Times DEF Noticing
<1>8. Pacing'
  BY <1>1, <1>5, Times DEF Pacing
<1> QED
  BY <1>2, <1>3, <1>6, <1>7, <1>8 DEF IInv, TypeOK

(* The firmware between passes: its association goes and comes by itself.  *)
LEMMA FirmwareIInv == IInv /\ (Lose \/ Regain \/ AbandonJoin \/ Settle) => IInv'
<1> SUFFICES ASSUME IInv, Lose \/ Regain \/ AbandonJoin \/ Settle PROVE IInv'
  OBVIOUS
<1>1. /\ UNCHANGED <<reconnect, awake, state, dueIn, deadlineIn, silent, quiet, linkDueIn,
                     ASSOCIATED, LINK, stackLink, DROPS, JOINS, sinceJoin>>
      /\ settings' \in {"reset", settings}
      /\ (off' = off /\ (onNet' => onNet)) \/ off' = 0
  BY DEF Lose, Regain, AbandonJoin, Settle, watchVars, loopVars, toldVars, timeVars
<1>2. Flags'
  <2>1. onNet' \in BOOLEAN /\ pending' \in BOOLEAN /\ settled' \in BOOLEAN
    BY Zenon DEF IInv, TypeOK, Flags, Lose, Regain, AbandonJoin, Settle
  <2> QED
    BY <1>1, <2>1, Zenon DEF IInv, TypeOK, Flags
<1>3. off \in Nat /\ silent \in Nat /\ dueIn \in Nat /\ NoticeBound \in Nat \ {0}
      /\ PROBE_INTERVAL \in Nat
  BY Times, IntervalAssumption DEF IInv, TypeOK, Ranges
<1>4. Ranges'
  BY <1>1, <1>3 DEF IInv, TypeOK, Ranges
<1>5. OneAnswer' /\ Counting' /\ Pacing'
  BY <1>1 DEF IInv, OneAnswer, Counting, Pacing
<1>6. Noticing'
  BY <1>1, <1>3 DEF IInv, Noticing
<1> QED
  BY <1>2, <1>4, <1>5, <1>6 DEF IInv, TypeOK

-----------------------------------------------------------------------------
(* join(): whatever becomes of it, the next one is at least a gap away     *)
(* unless the chip works on this one (wifi.rs 536-569).                    *)
LEMMA JoinWaits ==
    ASSUME IInv, Join
    PROVE  /\ state' \in {"Down", "Joining"}
           /\ dueIn' \in 0 .. LongestWait /\ deadlineIn' \in 0 .. JOIN_BUDGET
           /\ JOINS' \in 0 .. Wrap - 1 /\ sinceJoin' \in 0 .. JoinGap
           /\ settings' \in {"reset", settings}
           /\ {onNet', pending', settled'} \subseteq BOOLEAN
           /\ onNet' => onNet
           /\ state' = "Down" => sinceJoin' + dueIn' >= JoinGap
<1>0. /\ deadlineIn \in 0 .. JOIN_BUDGET /\ JOINS \in 0 .. Wrap - 1 /\ sinceJoin \in 0 .. JoinGap
      /\ {onNet, pending, settled} \subseteq BOOLEAN
  <2>1. {onNet, pending, settled} \subseteq BOOLEAN
    BY Zenon DEF IInv, TypeOK, Flags
  <2> QED
    BY <2>1 DEF IInv, TypeOK, Ranges
<1>1. /\ {PROBE_INTERVAL, JOIN_POLL, RETRY_INTERVAL} \subseteq 0 .. LongestWait
      /\ JoinGap \in Nat /\ JoinGap <= PROBE_INTERVAL /\ JoinGap <= RETRY_INTERVAL
      /\ {PROBE_INTERVAL, JOIN_POLL, RETRY_INTERVAL, JOIN_BUDGET} \subseteq Nat
      /\ Wrap \in Nat \ {0}
  BY Times, IntervalAssumption
<1>2. JOINS + 1 \in Nat /\ (JOINS + 1) % Wrap \in 0 .. Wrap - 1
  BY <1>0, <1>1
<1>3. CASE WatchOnly
  <2>1. /\ state' = "Down" /\ dueIn' = PROBE_INTERVAL
        /\ UNCHANGED <<deadlineIn, JOINS, onNet, pending, settings, settled, sinceJoin>>
    BY <1>3 DEF WatchOnly, chipVars
  <2>2. {onNet', pending', settled'} \subseteq BOOLEAN
    BY <1>0, <2>1, Zenon
  <2> QED
    BY <1>0, <1>1, <2>1, <2>2
<1>4. CASE JoinTaken
  <2>1. /\ state' = "Joining" /\ dueIn' = JOIN_POLL /\ deadlineIn' = JOIN_BUDGET
        /\ JOINS' = (JOINS + 1) % Wrap /\ sinceJoin' = 0
        /\ onNet' = FALSE /\ pending' = TRUE /\ settings' = "reset" /\ settled' = settled
    BY <1>4 DEF JoinTaken, Issue
  <2>2. {onNet', pending', settled'} \subseteq BOOLEAN
    BY <1>0, <2>1, Zenon
  <2> QED
    BY <1>0, <1>1, <1>2, <2>1, <2>2
<1>5. CASE JoinRefused
  <2>1. /\ state' = "Down" /\ dueIn' = RETRY_INTERVAL
        /\ JOINS' = (JOINS + 1) % Wrap /\ sinceJoin' = 0
        /\ UNCHANGED <<deadlineIn, onNet, pending, settings, settled>>
    BY <1>5 DEF JoinRefused, Issue, chipVars
  <2>2. {onNet', pending', settled'} \subseteq BOOLEAN
    BY <1>0, <2>1, Zenon
  <2> QED
    BY <1>0, <1>1, <1>2, <2>1, <2>2
<1> QED
  BY <1>3, <1>4, <1>5 DEF Join

(* What a pass makes of the watch, before the next: it is up only if it    *)
(* was found so just now, or was up and is not due (wifi.rs 480-585).      *)
Watched ==
    /\ state' \in {"Up", "Joining", "Down"}
    /\ dueIn' \in 0 .. LongestWait /\ deadlineIn' \in 0 .. JOIN_BUDGET
    /\ stackLink' \in {"Up", "Down"}
    /\ DROPS' \in 0 .. Wrap - 1 /\ JOINS' \in 0 .. Wrap - 1
    /\ settings' \in {"applied", "refused", "reset"}
    /\ sinceJoin' \in 0 .. JoinGap
    /\ {ASSOCIATED', LINK', onNet', pending', settled'} \subseteq BOOLEAN
    /\ OneAnswer'
    /\ onNet' => onNet
    /\ state' = "Up" => \/ off = 0 /\ dueIn' = PROBE_INTERVAL
                        \/ state = "Up" /\ dueIn' = dueIn /\ (dueIn > 0 \/ silent' < RX_SILENCE)
    /\ Pacing'

LEMMA WatchPassWatches ==
    ASSUME IInv, state # "Unstarted", NEW sample \in BOOLEAN, WatchPass(sample)
    PROVE  Watched
<1>0. /\ state \in {"Up", "Joining", "Down"}
      /\ dueIn \in 0 .. LongestWait /\ deadlineIn \in 0 .. JOIN_BUDGET
      /\ stackLink \in {"Up", "Down"}
      /\ DROPS \in 0 .. Wrap - 1 /\ JOINS \in 0 .. Wrap - 1
      /\ settings \in {"applied", "refused", "reset"}
      /\ sinceJoin \in 0 .. JoinGap
  BY DEF IInv, TypeOK, Ranges
<1>1. {ASSOCIATED, LINK, onNet, pending, settled} \subseteq BOOLEAN
  BY Zenon DEF IInv, TypeOK, Flags
<1>2. OneAnswer /\ Pacing /\ (onNet => off = 0)
  BY DEF IInv, Counting
<1>3. /\ {PROBE_INTERVAL, JOIN_POLL, RETRY_INTERVAL} \subseteq 0 .. LongestWait
      /\ JoinGap \in Nat /\ JoinGap <= PROBE_INTERVAL /\ JoinGap <= RETRY_INTERVAL
      /\ {PROBE_INTERVAL, JOIN_POLL, RETRY_INTERVAL, JOIN_BUDGET, LongestWait} \subseteq Nat
      /\ Wrap \in Nat \ {0}
  BY Times, IntervalAssumption
<1>4. CASE PassIdle(sample)
  <2>1. /\ UNCHANGED <<state, dueIn, deadlineIn, ASSOCIATED, stackLink, DROPS, JOINS, onNet,
                       pending, settings, settled, sinceJoin>>
        /\ LINK' = sample /\ NotDue
    BY <1>4 DEF PassIdle, watchVars, chipVars
  <2>2. {ASSOCIATED', LINK', onNet', pending', settled'} \subseteq BOOLEAN
    BY <1>1, <2>1, Zenon
  <2> QED
    BY <1>0, <1>2, <2>1, <2>2 DEF Watched, OneAnswer, Pacing, NotDue
<1>5. CASE StillUp(sample)
  <2>1. /\ UNCHANGED <<state, deadlineIn, ASSOCIATED, stackLink, DROPS, JOINS, onNet,
                       pending, settings, settled, sinceJoin>>
        /\ LINK' = sample /\ dueIn' = PROBE_INTERVAL /\ onNet
    BY <1>5 DEF StillUp, chipVars, ProbeYes
  <2>2. {ASSOCIATED', LINK', onNet', pending', settled'} \subseteq BOOLEAN
    BY <1>1, <2>1, Zenon
  <2> QED
    BY <1>0, <1>2, <1>3, <2>1, <2>2 DEF Watched, OneAnswer, Pacing
<1>6. CASE FoundGone
  <2>1. /\ Join /\ ASSOCIATED' = FALSE /\ LINK' = FALSE /\ stackLink' = "Down"
        /\ DROPS' = (DROPS + 1) % Wrap
    BY <1>6 DEF FoundGone
  <2>2. DROPS + 1 \in Nat /\ DROPS' \in 0 .. Wrap - 1
    BY <1>0, <1>3, <2>1
  <2>3. {ASSOCIATED', LINK'} \subseteq BOOLEAN
    BY <2>1, Zenon
  <2> QED
    BY <1>0, <2>1, <2>2, <2>3, JoinWaits DEF Watched, OneAnswer, Pacing
<1>7. CASE FoundBack(sample)
  <2>1. /\ UNCHANGED <<deadlineIn, DROPS, JOINS, onNet, pending, settled, sinceJoin>>
        /\ settings' \in {"applied", "refused", settings}
        /\ ASSOCIATED' = TRUE /\ stackLink' = "Up" /\ state' = "Up"
        /\ LINK' = sample /\ dueIn' = PROBE_INTERVAL /\ onNet
    BY <1>7 DEF FoundBack, Associate, ProbeYes
  <2>2. {ASSOCIATED', LINK', onNet', pending', settled'} \subseteq BOOLEAN
    BY <1>1, <2>1, Zenon
  <2> QED
    BY <1>0, <1>2, <1>3, <2>1, <2>2 DEF Watched, OneAnswer, Pacing
<1>8. CASE StillJoining(sample)
  <2>1. /\ UNCHANGED <<deadlineIn, ASSOCIATED, stackLink, DROPS, JOINS, onNet,
                       pending, settings, settled, sinceJoin>>
        /\ LINK' = sample /\ state = "Joining"
        /\ \/ state' = "Down" /\ dueIn' = RETRY_INTERVAL
           \/ state' = "Joining" /\ dueIn' = JOIN_POLL
    BY <1>8 DEF StillJoining, chipVars
  <2>2. {ASSOCIATED', LINK', onNet', pending', settled'} \subseteq BOOLEAN
    BY <1>1, <2>1, Zenon
  <2> QED
    BY <1>0, <1>2, <1>3, <2>1, <2>2 DEF Watched, OneAnswer, Pacing
<1>9. CASE StillDown(sample)
  <2>1. /\ Join /\ UNCHANGED <<ASSOCIATED, stackLink, DROPS>>
        /\ LINK' = sample /\ state = "Down"
    BY <1>9 DEF StillDown
  <2>2. {ASSOCIATED', LINK'} \subseteq BOOLEAN
    BY <1>1, <2>1, Zenon
  <2> QED
    BY <1>0, <1>2, <2>1, <2>2, JoinWaits DEF Watched, OneAnswer, Pacing
<1> QED
  BY <1>4, <1>5, <1>6, <1>7, <1>8, <1>9 DEF WatchPass

(* A pass of the runner's loop (wifi.rs 297-323): only something that was  *)
(* received starts the silence again, and with it what is counted.         *)
LEMMA PassIInv == IInv /\ Pass => IInv'
<1> SUFFICES ASSUME IInv, Pass PROVE IInv'
  OBVIOUS
<1>1. PICK received \in BOOLEAN, sent \in BOOLEAN, sample \in BOOLEAN :
         MoveFrames(received, sent) /\ SampleLink(sample) /\ WatchPass(sample)
  BY DEF Pass
<1>2. /\ state # "Unstarted" /\ awake' = FALSE
      /\ UNCHANGED reconnect
  BY DEF Pass
<1>3. Watched
  BY <1>1, <1>2, WatchPassWatches
<1>4. (silent' = silent /\ off' = off) \/ (silent' = 0 /\ off' = 0)
  BY <1>1 DEF MoveFrames, Heard
<1>5. quiet' \in 0 .. LINK_QUIET_PASSES /\ linkDueIn' \in 0 .. LINK_INTERVAL
  <2>1. quiet \in Nat /\ quiet + 1 \in Nat /\ LINK_QUIET_PASSES \in Nat
    BY IntervalAssumption DEF IInv, TypeOK, Ranges
  <2>2. UpTo(LINK_QUIET_PASSES, quiet + 1)
           = IF LINK_QUIET_PASSES <= quiet + 1 THEN LINK_QUIET_PASSES ELSE quiet + 1
    BY <2>1, Times
  <2>3. quiet' \in 0 .. LINK_QUIET_PASSES
    BY <1>1, <2>1, <2>2 DEF MoveFrames
  <2>4. linkDueIn' \in 0 .. LINK_INTERVAL
    BY <1>1, IntervalAssumption DEF SampleLink, IInv, TypeOK, Ranges
  <2> QED
    BY <2>3, <2>4
<1>6. /\ silent \in 0 .. RX_SILENCE /\ off \in 0 .. NoticeBound /\ dueIn \in Nat
      /\ RX_SILENCE \in Nat \ {0} /\ PROBE_INTERVAL \in Nat \ {0} /\ MaxDelay \in Nat \ {0}
  BY Times, IntervalAssumption DEF IInv, TypeOK, Ranges
<1>7. Flags'
  <2>1. {ASSOCIATED', LINK', onNet', pending', settled'} \subseteq BOOLEAN
    BY <1>3 DEF Watched
  <2>2. awake' \in BOOLEAN /\ reconnect' \in BOOLEAN
    BY <1>2, Zenon DEF IInv, TypeOK, Flags
  <2> QED
    BY <2>1, <2>2, Zenon DEF Flags
<1>8. Ranges'
  <2>1. silent' \in 0 .. RX_SILENCE
    BY <1>4, <1>6
  <2>2. off' \in 0 .. NoticeBound
    BY <1>4, <1>6, Times
  <2> QED
    BY <1>3, <1>5, <2>1, <2>2 DEF Watched, Ranges
<1>9. Counting'
  BY <1>3, <1>4 DEF Watched, Counting, IInv
<1>10. Noticing'
  <2>1. off' <= silent' \/ silent' = RX_SILENCE
    BY <1>4, <1>6 DEF IInv, Noticing
  <2>2. ASSUME state' = "Up"
        PROVE  \/ off = 0 /\ dueIn' = PROBE_INTERVAL
               \/ state = "Up" /\ dueIn' = dueIn /\ (dueIn > 0 \/ silent' < RX_SILENCE)
    BY <1>3, <2>2 DEF Watched
  <2>3. state' = "Up" /\ dueIn' > 0 => off' + dueIn' <= PROBE_INTERVAL
    BY <1>4, <1>6, <2>2 DEF IInv, Noticing
  <2>4. state' = "Up" => off' = 0 \/ dueIn' > 0 \/ silent' < RX_SILENCE
    BY <1>4, <1>6, <2>2
  <2>5. state' = "Up" => off' < NoticeBound
    BY <1>4, <1>6, <2>2, Times DEF IInv, Noticing
  <2> QED
    BY <2>1, <2>3, <2>4, <2>5 DEF Noticing
<1> QED
  BY <1>3, <1>7, <1>8, <1>9, <1>10 DEF Watched, IInv, TypeOK

(* Each step of the runner and the firmware keeps the invariant.           *)
LEMMA NextIInv == IInv /\ [Next]_vars => IInv'
<1>1. IInv /\ UNCHANGED vars => IInv'
  BY DEF IInv, TypeOK, Flags, Ranges, OneAnswer, Counting, Noticing, Pacing,
         vars, watchVars, loopVars, toldVars, chipVars, timeVars
<1> QED
  BY <1>1, ElapseIInv, BeginIInv, PassIInv, FirmwareIInv DEF Next

LEMMA IInvHolds == Spec => []IInv
<1> QED
  BY InitIInv, NextIInv, PTL DEF Spec

(* The stack, the application and the watch never disagree about the       *)
(* network, whatever the firmware does (wifi.rs 503-514, 581-583).         *)
THEOREM AnswersAgree == Spec => []OneAnswer
<1>1. IInv => OneAnswer
  BY DEF IInv
<1> QED
  BY IInvHolds, <1>1, PTL

(* A loss is noticed in time, counted from the last thing received or the  *)
(* first poll, however much the stack goes on sending and whatever the     *)
(* firmware does, for any intervals (wifi.rs 394-415, 480-514).            *)
THEOREM LossIsNoticed == Spec => []LossNoticed
<1>1. IInv => LossNoticed
  BY DEF IInv, Noticing, LossNoticed
<1> QED
  BY IInvHolds, <1>1, PTL

(* Two joins are never closer than the gap, and none is issued over the    *)
(* link of a firmware that answers (wifi.rs 432-438, 516-569).             *)
THEOREM JoinsArePaced == Spec => JoinsPaced
<1>1. IInv /\ [Next]_vars => [JoinPaced]_vars
  <2> SUFFICES ASSUME IInv, Next PROVE JoinPaced
    OBVIOUS
  <2>1. ASSUME JOINS' # JOINS PROVE sinceJoin >= JoinGap
    <3>1. Pass
      BY <2>1 DEF Next, Elapse, Begin, Lose, Regain, AbandonJoin, Settle, toldVars
    <3>2. PICK sample \in BOOLEAN : WatchPass(sample)
      BY <3>1 DEF Pass
    <3>3. ~NotDue /\ state \in {"Up", "Down"}
      BY <2>1, <3>2 DEF WatchPass, PassIdle, StillUp, FoundGone, FoundBack, Associate,
                        StillJoining, StillDown
    <3>4. dueIn = 0 /\ sinceJoin \in Nat /\ JoinGap \in Nat
      BY <3>3, Times DEF NotDue, IInv, TypeOK, Ranges
    <3> QED
      BY <3>3, <3>4 DEF IInv, Pacing
  <2>2. ASSUME settled, onNet PROVE onNet'
    <3>1. CASE Pass
      <4>1. PICK sample \in BOOLEAN : WatchPass(sample)
        BY <3>1 DEF Pass
      <4>2. ~FoundGone /\ ~StillDown(sample)
        BY <2>2 DEF FoundGone, StillDown, ProbeNo
      <4> QED
        BY <2>2, <4>1, <4>2 DEF WatchPass, PassIdle, StillUp, FoundBack, Associate,
                                StillJoining, chipVars
    <3> QED
      BY <2>2, <3>1 DEF Next, Elapse, Begin, Lose, Regain, AbandonJoin, Settle, chipVars
  <2> QED
    BY <2>1, <2>2 DEF JoinPaced
<1> QED
  BY IInvHolds, <1>1, PTL DEF Spec, JoinsPaced

-----------------------------------------------------------------------------
(* The boot leaves the runner alone until it is polled, but for the        *)
(* firmware it has joined a network with, and for the time that passes     *)
(* (embassy_net_wifi.rs 272-417).                                          *)
LEMMA BootStep == [BootNext]_allVars => [Next]_vars
<1> SUFFICES ASSUME [BootNext]_allVars PROVE [Next]_vars
  OBVIOUS
<1>1. CASE Kmain
  <2>1. CASE LoadFiles
    BY <2>1 DEF LoadFiles, SdInit, OpenFile, ReadMore, NextFile, Try
  <2>2. CASE BringUpChip
    BY <2>2 DEF BringUpChip, SdioInit, ChipId, LoadFirmware, WifiNew, EtherAddr, Try
  <2>3. CASE GetOnNetwork
    BY <2>3 DEF GetOnNetwork, LoadClm, ParseConfig, JoinWpa2, Try
  <2>4. CASE BoardRevision \/ Radio \/ InitDriver \/ Run
    BY <2>4 DEF BoardRevision, Radio, InitDriver, Run, Try
  <2> QED
    BY <1>1, <2>1, <2>2, <2>3, <2>4 DEF Kmain
<1>2. CASE Joined /\ Firmware /\ UNCHANGED bootVars
  BY <1>2 DEF Firmware, Next
<1>3. CASE WhileUp(Next)
  BY <1>3 DEF WhileUp
<1>4. CASE UNCHANGED allVars
  BY <1>4 DEF allVars
<1> QED
  BY <1>1, <1>2, <1>3, <1>4 DEF BootNext

(* In the image the runner does nothing the runner alone does not do.      *)
THEOREM ImageRunsTheWatch == BootSpec => Spec
<1>1. BootInit => Init
  BY DEF BootInit
<1> QED
  BY <1>1, BootStep, PTL DEF BootSpec, Spec

(* So what the watch promises for any boot it promises in the image        *)
(* (wifi.rs 394-569, embassy_net_wifi.rs 447-490).                         *)
THEOREM ImageKeepsTheWatchsPromises ==
    BootSpec => [](OneAnswer /\ LossNoticed) /\ JoinsPaced
<1> QED
  BY ImageRunsTheWatch, AnswersAgree, LossIsNoticed, JoinsArePaced, PTL

-----------------------------------------------------------------------------
(* Power-on: nothing is known and nothing is read.                         *)
LEMMA InitBootInv == BootInit => BootInv
<1> SUFFICES ASSUME BootInit PROVE BootInv
  OBVIOUS
<1>1. Len(lens) = 0 /\ lens \in Seq(0 .. Buffer)
  BY DEF BootInit
<1>2. BootTypes
  BY <1>1, FileAssumption DEF BootInit, BootTypes, Radios, Files, NoFile
<1> QED
  BY <1>1, <1>2 DEF BootInit, BootInv, FirmwareFits, ChipAsked, FilesMissing, Files

(* Reading the card: four files, none longer than its buffer               *)
(* (embassy_net_wifi.rs 181-203, 232-253).                                 *)
LEMMA LoadFilesBootInv == BootInv /\ LoadFiles => BootInv'
<1> SUFFICES ASSUME BootInv, LoadFiles PROVE BootInv'
  OBVIOUS
<1>0. BootTypes /\ FirmwareFits /\ FilesMissing
  BY DEF BootInv
<1>1. UNCHANGED <<board, chip, running>>
  BY DEF LoadFiles, SdInit, OpenFile, ReadMore, NextFile
<1>2. boot' \in {"open", "read", "sdio", "halted"}
  BY DEF LoadFiles, SdInit, OpenFile, ReadMore, NextFile, Try
<1>3. emmc' \in {"none", "card", "radio"}
  BY <1>0 DEF LoadFiles, SdInit, OpenFile, ReadMore, NextFile, BootTypes
<1>4. Buffer \in Nat /\ MaxFile \in Nat
  BY FileAssumption
<1>5. file' \in [size : 0 .. MaxFile, avail : 0 .. MaxFile, total : 0 .. Buffer]
  <2>1. CASE SdInit
    BY <2>1, <1>0 DEF SdInit, BootTypes
  <2>2. CASE OpenFile
    BY <2>2, <1>4 DEF OpenFile
  <2>3. CASE ReadMore
    BY <2>3, <1>0, <1>4 DEF ReadMore, BootTypes
  <2>4. CASE NextFile
    BY <2>4, <1>4 DEF NextFile, NoFile
  <2> QED
    BY <2>1, <2>2, <2>3, <2>4 DEF LoadFiles
<1>6. /\ lens' \in Seq(0 .. Buffer) /\ Len(lens') <= Files
      /\ boot' \in {"open", "read"} => Len(lens') < Files
  <2>1. CASE SdInit
    BY <2>1, <1>0 DEF SdInit, Try, BootTypes, FilesMissing
  <2>2. CASE OpenFile
    BY <2>2, <1>0 DEF OpenFile, Try, BootTypes, FilesMissing
  <2>3. CASE ReadMore
    BY <2>3, <1>0 DEF ReadMore, BootTypes, FilesMissing
  <2>4. CASE NextFile
    <3>1. lens \in Seq(0 .. Buffer) /\ file.total \in 0 .. Buffer /\ Len(lens) < Files
      BY <2>4, <1>0 DEF NextFile, BootTypes, FilesMissing
    <3>2. lens' \in Seq(0 .. Buffer) /\ Len(lens') = Len(lens) + 1
      BY <2>4, <3>1 DEF NextFile
    <3> QED
      BY <2>4, <3>1, <3>2 DEF NextFile, Files
  <2> QED
    BY <2>1, <2>2, <2>3, <2>4 DEF LoadFiles
<1>7. BootTypes'
  BY <1>0, <1>1, <1>2, <1>3, <1>5, <1>6 DEF BootTypes
<1> QED
  BY <1>0, <1>1, <1>2, <1>6, <1>7 DEF BootInv, FirmwareFits, ChipAsked, FilesMissing

(* From the chip to the executor: the firmware is given to a chip that     *)
(* answered as the one it is for (embassy_net_wifi.rs 321-490).            *)
LEMMA ChipBootInv ==
    BootInv /\ (BringUpChip \/ GetOnNetwork \/ InitDriver \/ Run) => BootInv'
<1> SUFFICES ASSUME BootInv, BringUpChip \/ GetOnNetwork \/ InitDriver \/ Run
             PROVE  BootInv'
  OBVIOUS
<1>0. BootTypes /\ FirmwareFits /\ ChipAsked
  BY DEF BootInv
<1>1. CASE BringUpChip
  <2>1. UNCHANGED <<board, chip, file, lens>>
    BY <1>1 DEF BringUpChip, SdioInit, ChipId, LoadFirmware, WifiNew, EtherAddr
  <2>2. /\ boot' \in {"chip_id", "firmware", "wifi", "mac", "clm", "halted"}
        /\ boot' = "firmware" => board = chip
    BY <1>1 DEF BringUpChip, SdioInit, ChipId, ChipExpected, LoadFirmware, WifiNew,
                EtherAddr, Try
  <2>3. running' = running \/ (running' = board /\ board = chip)
    BY <1>0, <1>1 DEF BringUpChip, SdioInit, ChipId, LoadFirmware, WifiNew, EtherAddr,
                      Try, ChipAsked
  <2>4. emmc' \in {"radio", emmc}
    BY <1>1 DEF BringUpChip, SdioInit, ChipId, LoadFirmware, WifiNew, EtherAddr
  <2>5. BootTypes'
    BY <1>0, <2>1, <2>2, <2>3, <2>4 DEF BootTypes
  <2> QED
    BY <1>0, <2>1, <2>2, <2>3, <2>5 DEF BootInv, FirmwareFits, ChipAsked, FilesMissing
<1>2. CASE GetOnNetwork \/ InitDriver
  <2>1. UNCHANGED <<board, chip, running, emmc, file, lens>>
    BY <1>2 DEF GetOnNetwork, LoadClm, ParseConfig, JoinWpa2, InitDriver
  <2>2. boot' \in {"config", "join", "driver", "run", "halted"}
    BY <1>2 DEF GetOnNetwork, LoadClm, ParseConfig, JoinWpa2, InitDriver, Try
  <2>3. BootTypes'
    BY <1>0, <2>1, <2>2 DEF BootTypes
  <2> QED
    BY <1>0, <2>1, <2>2, <2>3 DEF BootInv, FirmwareFits, ChipAsked, FilesMissing
<1>3. CASE Run
  <2>1. Len(lens') = 0 /\ lens' \in Seq(0 .. Buffer)
    BY <1>3 DEF Run
  <2>2. BootTypes'
    BY <1>0, <1>3, <2>1 DEF Run, BootTypes, Files
  <2> QED
    BY <1>3, <2>2 DEF Run, BootInv, FirmwareFits, ChipAsked, FilesMissing
<1> QED
  BY <1>1, <1>2, <1>3

LEMMA BootInvHolds == BootSpec => []BootInv
<1>1. BootInv /\ [BootNext]_allVars => BootInv'
  <2> SUFFICES ASSUME BootInv, [BootNext]_allVars PROVE BootInv'
    OBVIOUS
  <2>0. BootTypes /\ FirmwareFits /\ FilesMissing
    BY DEF BootInv
  <2>1. CASE BoardRevision
    BY <2>0, <2>1 DEF BoardRevision, Try, BootTypes, BootInv, FirmwareFits, ChipAsked,
                      FilesMissing
  <2>2. CASE Radio
    <3>1. boot' \in {"sd", "halted"}
      BY <2>2 DEF Radio
    <3>2. BootTypes'
      BY <2>0, <2>2, <3>1 DEF Radio, BootTypes
    <3> QED
      BY <2>0, <2>2, <3>1, <3>2 DEF Radio, BootInv, FirmwareFits, ChipAsked, FilesMissing
  <2>3. CASE UNCHANGED bootVars
    BY <2>3 DEF bootVars, BootInv, BootTypes, FirmwareFits, ChipAsked, FilesMissing
  <2> QED
    BY <2>1, <2>2, <2>3, LoadFilesBootInv, ChipBootInv
    DEF BootNext, Kmain, WhileUp, allVars
<1> QED
  BY InitBootInv, <1>1, PTL DEF BootSpec

(* The chip never runs firmware of another radio, whatever radio() made of *)
(* the board's revision (embassy_net_wifi.rs 204-216, 332-358).            *)
THEOREM FirmwareIsTheChips == BootSpec => []FirmwareFits
<1>1. BootInv => FirmwareFits
  BY DEF BootInv
<1> QED
  BY BootInvHolds, <1>1, PTL

(* No file overruns the buffer it is read into, and no more are read than  *)
(* the image asks for, whatever the card holds (embassy_net_wifi.rs        *)
(* 181-203, 232-253).                                                      *)
THEOREM BootTypeCorrect == BootSpec => []BootTypeOK
<1>1. IInv /\ BootInv => BootTypeOK
  BY DEF IInv, BootInv, BootTypeOK
<1> QED
  BY ImageRunsTheWatch, IInvHolds, BootInvHolds, <1>1, PTL
=============================================================================
