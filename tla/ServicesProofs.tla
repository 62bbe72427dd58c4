---------------------------- MODULE ServicesProofs ----------------------------
(***************************************************************************)
(* Proofs about the guards against faults, the watchdog, the boot throttle *)
(* and the heartbeat, for every value of their constants: their types;     *)
(* that the watchdog never resets a loop that keeps completing while the   *)
(* 1 Hz tick wakes it; that the safe state is entered for boots that       *)
(* follow each other quickly and only for them; and when the heartbeat     *)
(* takes a sound clock for one that lost time.  Then, with the invariants  *)
(* of the other services, that all of them stay safe side by side.         *)
(***************************************************************************)
EXTENDS MCServices, InputProofs, DeviceProofs, TransferProofs, TLAPS

-----------------------------------------------------------------------------
(* The watchdog.                                                           *)

(* Counting modulo n: the next number, or zero at the end.                 *)
LEMMA Wraps ==
  ASSUME NEW n \in Nat \ {0}, NEW k \in 0 .. n - 1
  PROVE  /\ (k + 1) % n \in 0 .. n - 1
         /\ (k + 1) % n = 0 \/ (k + 1) % n = k + 1
<1>1. CASE k + 1 < n
  <2>1. (k + 1) % n = k + 1
    BY <1>1
  <2>2. QED
    BY <1>1, <2>1
<1>2. CASE k + 1 = n
  <2>1. (k + 1) % n = 0
    BY <1>2
  <2>2. QED
    BY <2>1
<1>3. QED
  BY <1>1, <1>2

-----------------------------------------------------------------------------
(* The types, one variable at a time, WatchdogFlags apart.                      *)
WatchdogFlags ==
  /\ hung \in BOOLEAN /\ tickOn \in BOOLEAN /\ minuteOn \in BOOLEAN
  /\ button \in BOOLEAN /\ fastTickOn \in BOOLEAN

WatchdogRanges ==
  /\ fraction \in 0 .. BeatsPerSecond - 1 /\ second \in 0 .. SecondsPerMinute - 1
  /\ unkicked \in 0 .. LongPeriod + 1 /\ passing \in 0 .. PassBeats
  /\ idleTicks \in 0 .. SuspendAfter
  /\ period \in {ShortPeriod, LongPeriod}
  /\ cpu \in {"standby", "app_loop", "kicked"}
  /\ pending \subseteq {"fast", "tick", "minute"}

WatchdogTyped == WatchdogFlags /\ WatchdogRanges

(* The fast tick runs only below its idle limit, and an interrupt of it is *)
(* handled before it can be suspended.                                     *)
FastTickIsCounted ==
  /\ fastTickOn => idleTicks < SuspendAfter
  /\ "fast" \in pending => fastTickOn

(* Why the loop gets to kick.  Asleep, the watchdog has counted no more    *)
(* than the beats since the last full second, or a second when its tick is *)
(* pending; awake, no more than that second and the reaction so far.       *)
KickedInTime ==
  tickOn /\ ~hung =>
    /\ cpu = "standby" =>
         unkicked <= IF "tick" \in pending THEN BeatsPerSecond ELSE fraction
    /\ cpu = "app_loop" => unkicked <= BeatsPerSecond + passing
    /\ cpu = "kicked" => unkicked = 0

WatchdogInv == WatchdogTyped /\ FastTickIsCounted /\ KickedInTime

LEMMA WatchdogConstants ==
  /\ BeatsPerSecond \in Nat \ {0} /\ SecondsPerMinute \in Nat \ {0}
  /\ SuspendAfter \in Nat \ {0}
  /\ PassBeats \in Nat
  /\ ShortPeriod \in Nat /\ ShortPeriod >= BeatsPerSecond + PassBeats
  /\ LongPeriod \in Nat /\ LongPeriod >= ShortPeriod
  BY WatchdogAssumption

LEMMA WatchdogTypedIsTypeOK == WatchdogTyped => WatchdogTypeOK
  BY DEF WatchdogTyped, WatchdogFlags, WatchdogRanges, WatchdogTypeOK

LEMMA WatchdogInvIsSafe == WatchdogInv => NoResetWhileTicking
<1> SUFFICES ASSUME WatchdogInv, Expired, tickOn, ~hung PROVE FALSE
  BY DEF NoResetWhileTicking, WatchdogInv, WatchdogTyped, WatchdogFlags
<1>1. /\ unkicked \in Nat /\ fraction \in 0 .. BeatsPerSecond - 1 /\ passing \in 0 .. PassBeats
      /\ period \in {ShortPeriod, LongPeriod}
      /\ cpu \in {"standby", "app_loop", "kicked"}
  BY WatchdogConstants DEF WatchdogInv, WatchdogTyped, WatchdogRanges
<1>2. unkicked <= BeatsPerSecond + PassBeats
  BY <1>1, WatchdogConstants DEF WatchdogInv, KickedInTime
<1>3. QED
  BY <1>1, <1>2, WatchdogConstants DEF Expired

LEMMA WatchdogInitInv == WatchdogInit => WatchdogInv
<1> SUFFICES ASSUME WatchdogInit PROVE WatchdogInv
  OBVIOUS
<1>1. WatchdogFlags
  BY DEF WatchdogInit, WatchdogFlags
<1>2. WatchdogRanges
  BY WatchdogConstants DEF WatchdogInit, WatchdogRanges
<1>3. FastTickIsCounted
  BY WatchdogConstants DEF WatchdogInit, FastTickIsCounted
<1>4. KickedInTime
  BY WatchdogConstants DEF WatchdogInit, KickedInTime
<1>5. QED
  BY <1>1, <1>2, <1>3, <1>4 DEF WatchdogInv, WatchdogTyped

(* A beat passes.                                                          *)
LEMMA BeatKeeps ==
  ASSUME WatchdogInv, Beat PROVE WatchdogInv'
<1> USE DEF WatchdogInv, WatchdogTyped
<1> USE WatchdogConstants
<1>1. /\ fraction' \in 0 .. BeatsPerSecond - 1
      /\ fraction' = 0 \/ fraction' = fraction + 1
  <2>1. fraction \in 0 .. BeatsPerSecond - 1 /\ fraction' = (fraction + 1) % BeatsPerSecond
    BY DEF Beat, WatchdogRanges
  <2> HIDE DEF WatchdogInv, WatchdogTyped
  <2>2. QED
    BY <2>1, Wraps
<1>2. second' \in 0 .. SecondsPerMinute - 1
  <2>1. second \in 0 .. SecondsPerMinute - 1
        /\ second' \in {second, (second + 1) % SecondsPerMinute}
    BY DEF Beat, WatchdogRanges
  <2> HIDE DEF WatchdogInv, WatchdogTyped
  <2>2. QED
    BY <2>1, Wraps
<1>3. unkicked' \in 0 .. LongPeriod + 1
  BY DEF Beat, WatchdogRanges, Expired
<1>4. passing' \in 0 .. PassBeats
  BY DEF Beat, WatchdogRanges
<1>5. pending' \subseteq {"fast", "tick", "minute"}
  BY DEF Beat
<1>6. /\ ("fast" \in pending' => fastTickOn)
      /\ (tickOn /\ fraction' = 0 => "tick" \in pending')
  BY Zenon DEF Beat
<1>7. WatchdogFlags'
  BY Zenon DEF Beat, WatchdogFlags, wakeSources
<1>8. WatchdogRanges'
  BY <1>1, <1>2, <1>3, <1>4, <1>5 DEF Beat, WatchdogRanges, wakeSources
<1>9. FastTickIsCounted'
  BY <1>6, Zenon DEF Beat, FastTickIsCounted, wakeSources
<1>10. KickedInTime'
  <2>1. /\ tickOn' = tickOn /\ hung' = hung /\ cpu' = cpu /\ cpu # "kicked"
        /\ pending = {}
        /\ unkicked' = unkicked + 1
        /\ unkicked \in Nat /\ passing \in Nat /\ fraction \in Nat /\ fraction < BeatsPerSecond
    BY DEF Beat, wakeSources, WatchdogRanges
  <2>2. ASSUME tickOn, ~hung, cpu = "standby"
        PROVE  unkicked' <= IF "tick" \in pending' THEN BeatsPerSecond ELSE fraction'
    BY <1>1, <1>6, <2>1, <2>2 DEF KickedInTime
  <2>3. ASSUME tickOn, ~hung, cpu = "app_loop"
        PROVE  unkicked' <= BeatsPerSecond + passing'
    <3>1. passing' = passing + 1
      BY <2>3 DEF Beat
    <3>2. QED
      BY <2>1, <2>3, <3>1 DEF KickedInTime
  <2>4. QED
    BY <2>1, <2>2, <2>3 DEF KickedInTime
<1>11. QED
  BY <1>7, <1>8, <1>9, <1>10

(* An interrupt handler or a button's edge: who sleeps wakes, and no one   *)
(* else is disturbed.                                                      *)
LEMMA WakeKeeps ==
  ASSUME WatchdogInv, WakeOnly, UNCHANGED <<fraction, hung, tickOn>>
  PROVE  /\ KickedInTime'
         /\ unkicked' \in 0 .. LongPeriod + 1 /\ passing' \in 0 .. PassBeats
         /\ cpu' \in {"standby", "app_loop", "kicked"}
<1>1. /\ unkicked \in 0 .. LongPeriod + 1 /\ passing \in 0 .. PassBeats
      /\ fraction \in 0 .. BeatsPerSecond - 1
      /\ cpu \in {"standby", "app_loop", "kicked"}
      /\ KickedInTime
  BY DEF WatchdogInv, WatchdogTyped, WatchdogRanges
<1>2. /\ unkicked' = unkicked
      /\ cpu = "standby" => cpu' = "app_loop" /\ passing' = 0
      /\ cpu # "standby" => cpu' = cpu /\ passing' = passing
  BY DEF WakeOnly, Wake
<1>3. KickedInTime'
  BY <1>1, <1>2, WatchdogConstants DEF KickedInTime
<1>4. QED
  BY <1>1, <1>2, <1>3, WatchdogConstants

LEMMA InterruptKeeps ==
  ASSUME WatchdogInv, Interrupt PROVE WatchdogInv'
<1> USE DEF WatchdogInv, WatchdogTyped
<1>1. CASE \E source \in {"tick", "minute"} : TickInterrupt(source)
  <2>1. PICK source \in {"tick", "minute"} : TickInterrupt(source)
    BY <1>1
  <2>2. WatchdogFlags'
    BY <2>1, Zenon DEF TickInterrupt, WatchdogFlags, wakeSources
  <2>3. FastTickIsCounted'
    BY <2>1, Zenon DEF TickInterrupt, FastTickIsCounted, wakeSources
  <2>4. WakeOnly /\ UNCHANGED <<fraction, hung, tickOn>>
    BY <2>1 DEF TickInterrupt, wakeSources
  <2>5. WatchdogRanges' /\ KickedInTime'
    BY <2>1, <2>4, WakeKeeps DEF TickInterrupt, WatchdogRanges, wakeSources
  <2>6. QED
    BY <2>2, <2>3, <2>5
<1>2. CASE FastTickInterrupt
  <2>1. "fast" \in pending /\ fastTickOn /\ idleTicks \in 0 .. SuspendAfter
        /\ idleTicks < SuspendAfter
    BY <1>2 DEF FastTickInterrupt, FastTickIsCounted, WatchdogRanges
  <2>2. idleTicks' \in {0, idleTicks + 1}
    BY <1>2 DEF FastTickInterrupt
  <2>3. idleTicks' \in 0 .. SuspendAfter
    BY <2>1, <2>2, WatchdogConstants
  <2>4. /\ idleTicks' < SuspendAfter => fastTickOn' = fastTickOn /\ period' = period
        /\ ~(idleTicks' < SuspendAfter) => fastTickOn' = FALSE /\ period' = LongPeriod
    <3>1. (idleTicks' >= SuspendAfter) <=> ~(idleTicks' < SuspendAfter)
      BY <2>3, WatchdogConstants
    <3>2. QED
      BY <1>2, <3>1, Zenon DEF FastTickInterrupt, Suspend
  <2>5. FastTickIsCounted'
    BY <1>2, <2>4, Zenon DEF FastTickInterrupt, FastTickIsCounted
  <2>6. fastTickOn' \in BOOLEAN
    BY <2>4, Zenon DEF WatchdogFlags
  <2>7. WatchdogFlags'
    BY <1>2, <2>6, Zenon DEF FastTickInterrupt, WatchdogFlags
  <2>8. WakeOnly /\ UNCHANGED <<fraction, hung, tickOn>>
    BY <1>2 DEF FastTickInterrupt
  <2>9. WatchdogRanges' /\ KickedInTime'
    BY <1>2, <2>3, <2>4, <2>8, WakeKeeps DEF FastTickInterrupt, WatchdogRanges
  <2>10. QED
    BY <2>5, <2>7, <2>9
<1>3. QED
  BY <1>1, <1>2 DEF Interrupt

LEMMA ButtonEdgeKeeps ==
  ASSUME WatchdogInv, ButtonEdge PROVE WatchdogInv'
<1> USE DEF WatchdogInv, WatchdogTyped
<1>1. WatchdogFlags'
  BY Zenon DEF ButtonEdge, Resume, WatchdogFlags
<1>2. FastTickIsCounted'
  BY WatchdogConstants DEF ButtonEdge, Resume, FastTickIsCounted
<1>3. WakeOnly /\ UNCHANGED <<fraction, hung, tickOn>>
  BY DEF ButtonEdge
<1>4. WatchdogRanges' /\ KickedInTime'
  BY <1>3, WakeKeeps, WatchdogConstants DEF ButtonEdge, Resume, WatchdogRanges
<1>5. QED
  BY <1>1, <1>2, <1>4

LEMMA AppLoopKeeps ==
  ASSUME WatchdogInv, AppLoop PROVE WatchdogInv'
<1> USE DEF WatchdogInv, WatchdogTyped
<1>1. tickOn' \in BOOLEAN /\ minuteOn' \in BOOLEAN
  BY Zenon DEF AppLoop, SetTickRate, WatchdogFlags
<1>2. WatchdogFlags'
  BY <1>1, Zenon DEF AppLoop, WatchdogFlags
<1>3. FastTickIsCounted'
  BY Zenon DEF AppLoop, FastTickIsCounted
<1>4. WatchdogRanges' /\ KickedInTime'
  BY WatchdogConstants DEF AppLoop, Kick, WatchdogRanges, KickedInTime
<1>5. QED
  BY <1>2, <1>3, <1>4

LEMMA EnterStandbyKeeps ==
  ASSUME WatchdogInv, EnterStandby PROVE WatchdogInv'
<1> USE DEF WatchdogInv, WatchdogTyped
<1>1. WatchdogFlags' /\ FastTickIsCounted'
  BY Zenon DEF EnterStandby, wakeSources, WatchdogFlags, FastTickIsCounted
<1>2. WatchdogRanges' /\ KickedInTime'
  BY WatchdogConstants DEF EnterStandby, wakeSources, WatchdogRanges, KickedInTime
<1>3. QED
  BY <1>1, <1>2

LEMMA HangKeeps ==
  ASSUME WatchdogInv, Hang PROVE WatchdogInv'
<1> USE DEF WatchdogInv, WatchdogTyped
<1>1. WatchdogFlags' /\ FastTickIsCounted'
  BY Zenon DEF Hang, wakeSources, WatchdogFlags, FastTickIsCounted
<1>2. WatchdogRanges' /\ KickedInTime'
  BY DEF Hang, wakeSources, WatchdogRanges, KickedInTime
<1>3. QED
  BY <1>1, <1>2

LEMMA WatchdogResetKeeps ==
  ASSUME WatchdogInv, Reset PROVE WatchdogInv'
<1> USE DEF WatchdogInv, WatchdogTyped
<1>1. tickOn' \in BOOLEAN /\ minuteOn' \in BOOLEAN
  BY Zenon DEF Reset, Boot, TickAfterSetup
<1>2. WatchdogFlags'
  BY <1>1, Zenon DEF Reset, Boot, Resume, WatchdogFlags
<1>3. WatchdogRanges' /\ KickedInTime' /\ FastTickIsCounted'
  BY WatchdogConstants DEF Reset, Boot, Resume, WatchdogRanges, KickedInTime, FastTickIsCounted
<1>4. QED
  BY <1>2, <1>3

LEMMA WatchdogNextInv == WatchdogInv /\ [WatchdogNext]_watchdogVars => WatchdogInv'
<1> SUFFICES ASSUME WatchdogInv, [WatchdogNext]_watchdogVars PROVE WatchdogInv'
  OBVIOUS
<1>1. CASE UNCHANGED watchdogVars
  BY <1>1 DEF watchdogVars, wakeSources, WatchdogInv, WatchdogTyped, WatchdogFlags,
     WatchdogRanges, FastTickIsCounted,
              KickedInTime
<1>2. QED
  BY <1>1, BeatKeeps, WatchdogResetKeeps, InterruptKeeps, ButtonEdgeKeeps, AppLoopKeeps,
     EnterStandbyKeeps, HangKeeps DEF WatchdogNext

-----------------------------------------------------------------------------
(* The types and ranges hold in every state (WatchdogTypeOK).              *)
THEOREM WatchdogTypes == WatchdogSpec => []WatchdogTypeOK
<1>1. WatchdogInv => WatchdogTypeOK
  BY WatchdogTypedIsTypeOK DEF WatchdogInv
<1>2. QED
  BY <1>1, WatchdogInitInv, WatchdogNextInv, PTL DEF WatchdogSpec

(* While the 1 Hz tick is registered the watchdog resets only a loop that  *)
(* hangs, whichever period is set (NoResetWhileTicking).                   *)
THEOREM LivingLoopIsNotReset == WatchdogSpec => []NoResetWhileTicking
  BY WatchdogInitInv, WatchdogNextInv, WatchdogInvIsSafe, PTL DEF WatchdogSpec

-----------------------------------------------------------------------------
(* The boot throttle.                                                      *)

(* A register's difference is at most the window exactly when the second   *)
(* is not behind the other and at most the window ahead of it: any other   *)
(* difference wraps to nearly the whole width of the register.             *)
LEMMA SecondsDiffer ==
  ASSUME NEW a \in 0 .. MinuteSeconds - 1, NEW b \in 0 .. MinuteSeconds - 1
  PROVE  WrappingSub(a, b) <= BootWindow <=> b <= a /\ a <= b + BootWindow
<1> DEFINE R == RegModulus
<1>1. /\ MinuteSeconds \in Nat \ {0, 1} /\ FieldWidth \in Nat /\ FieldWidth >= MinuteSeconds
      /\ BootWindow \in Nat /\ BootWindow < MinuteSeconds
  BY PackedClockAssumption, BootThrottleAssumption
<1>2. R \in Nat /\ R >= 2 * MinuteSeconds
  <2>1. \A x \in Nat : x >= 1 => x * FieldWidth \in Nat /\ x * FieldWidth >= x
    BY <1>1
  <2>2. 2 * FieldWidth \in Nat /\ 2 * FieldWidth >= 2 * MinuteSeconds
    BY <1>1
  <2>3. 2 * FieldWidth * FieldWidth \in Nat /\ 2 * FieldWidth * FieldWidth >= 2 * MinuteSeconds
    BY <2>1, <2>2, <1>1
  <2>4. QED
    BY <2>1, <2>3, <1>1 DEF RegModulus
<1> HIDE DEF R
<1>3. WrappingSub(a, b) = (a + R - b) % R
  BY DEF WrappingSub, R
<1>4. CASE b <= a
  <2>1. a + R - b = R + (a - b) /\ a - b \in 0 .. R - 1
    BY <1>1, <1>2, <1>4
  <2>2. (a + R - b) % R = a - b
    BY <1>2, <2>1
  <2>3. QED
    BY <1>1, <1>3, <1>4, <2>2
<1>5. CASE ~(b <= a)
  <2>1. a + R - b \in 0 .. R - 1 /\ a + R - b > BootWindow
    BY <1>1, <1>2, <1>5
  <2>2. (a + R - b) % R = a + R - b
    BY <1>2, <2>1
  <2>3. QED
    BY <1>1, <1>3, <1>5, <2>1, <2>2
<1>6. QED
  BY <1>4, <1>5

-----------------------------------------------------------------------------
(* The record and its window, one variable at a time, the flags apart.     *)
ThrottleTypes ==
  /\ bootClock \in 0 .. MinuteSeconds - 1 /\ bootSecond \in 0 .. MinuteSeconds - 1
  /\ bootCount \in 0 .. CountModulus - 1
  /\ gap \in 0 .. MinuteSeconds /\ streak \in 1 .. MaxBoots + 1

ThrottleFlags == safe \in BOOLEAN /\ clockSet \in BOOLEAN /\ wrapped \in BOOLEAN

RecordTypes ==
  /\ cause \in {"PowerOn", "Watchdog", "Panic"}
  /\ fault \in {"none", "WatchdogReset", "Panic"}

(* The register's second is where the clock was at the last boot, as long  *)
(* as less than a minute has passed and nobody has set the clock.          *)
GapIsShown ==
  ~clockSet /\ gap < MinuteSeconds =>
    bootClock = IF bootSecond + gap < MinuteSeconds THEN bootSecond + gap
                ELSE bootSecond + gap - MinuteSeconds

(* The count keeps up with the boots in a row, and past the limit it has   *)
(* led to the safe state.                                                  *)
BootsAreCounted ==
  ~wrapped => streak <= bootCount /\ (bootCount > MaxBoots => safe)

(* The inductive invariant of the boot throttle.                           *)
ThrottleInv ==
  ThrottleTypes /\ ThrottleFlags /\ RecordTypes /\ GapIsShown /\ BootsAreCounted

LEMMA ThrottleConstants ==
  /\ MinuteSeconds \in Nat \ {0, 1}
  /\ MaxBoots \in Nat \ {0} /\ BootWindow \in Nat /\ BootWindow < MinuteSeconds
  /\ CountModulus \in Nat /\ CountModulus > MaxBoots + 1
  BY PackedClockAssumption, BootThrottleAssumption

LEMMA ThrottleInitInv == ThrottleInit => ThrottleInv
<1> SUFFICES ASSUME ThrottleInit PROVE ThrottleInv
  OBVIOUS
<1>1. ThrottleFlags
  BY DEF ThrottleInit, ThrottleFlags
<1>2. ThrottleTypes /\ RecordTypes /\ GapIsShown
  BY ThrottleConstants
     DEF ThrottleInit, PoweredOn, ThrottleTypes, RecordTypes, GapIsShown
<1>3. streak <= bootCount /\ ~(bootCount > MaxBoots)
  BY ThrottleConstants DEF ThrottleInit, PoweredOn
<1>4. QED
  BY <1>1, <1>2, <1>3 DEF ThrottleInv, BootsAreCounted

(* A boot within the window of the last one, and within the minute, counts *)
(* on; one after the window, but less than a minute, starts the count.     *)
LEMMA BootsValue ==
  ASSUME ThrottleInv
  PROVE  /\ Boots \in 1 .. CountModulus /\ (Boots = 1 \/ Boots = bootCount + 1)
         /\ ~clockSet /\ gap <= BootWindow /\ bootSecond <= bootClock => Boots = bootCount + 1
         /\ ~clockSet /\ gap \in BootWindow + 1 .. MinuteSeconds - 1 => Boots = 1
<1>1. ThrottleTypes /\ GapIsShown
  BY DEF ThrottleInv
<1>2. WrappingSub(bootClock, bootSecond) <= BootWindow
        <=> bootSecond <= bootClock /\ bootClock <= bootSecond + BootWindow
  BY <1>1, SecondsDiffer DEF ThrottleTypes
<1>3. Boots = IF bootSecond <= bootClock /\ bootClock <= bootSecond + BootWindow
              THEN bootCount + 1 ELSE 1
  BY <1>2 DEF Boots
<1>4. /\ bootClock \in Nat /\ bootSecond \in Nat /\ gap \in Nat
      /\ bootCount \in 0 .. CountModulus - 1
  BY <1>1, ThrottleConstants DEF ThrottleTypes
<1>5. Boots \in 1 .. CountModulus /\ (Boots = 1 \/ Boots = bootCount + 1)
  BY <1>3, <1>4, ThrottleConstants
<1>6. ASSUME ~clockSet, gap <= BootWindow, bootSecond <= bootClock
      PROVE  Boots = bootCount + 1
  BY <1>1, <1>3, <1>4, <1>6, ThrottleConstants DEF GapIsShown, ThrottleTypes
<1>7. ASSUME ~clockSet, gap \in BootWindow + 1 .. MinuteSeconds - 1
      PROVE  Boots = 1
  BY <1>1, <1>3, <1>4, <1>7, ThrottleConstants DEF GapIsShown, ThrottleTypes
<1>8. QED
  BY <1>5, <1>6, <1>7

(* A reset other than a power-on counts the boot.                          *)
LEMMA WarmResetKeepsThrottle ==
  ASSUME ThrottleInv, NEW kind, WarmReset(kind)
  PROVE  ThrottleInv'
<1>1. /\ ThrottleTypes /\ ThrottleFlags /\ RecordTypes /\ BootsAreCounted
  BY DEF ThrottleInv
<1>2. /\ bootSecond' = bootClock /\ bootClock' = bootClock /\ gap' = 0 /\ clockSet' = FALSE
      /\ bootCount' = Boots % CountModulus /\ safe' = (Boots > MaxBoots)
      /\ wrapped' = (wrapped \/ Boots = CountModulus)
      /\ streak' = IF clockSet \/ gap > BootWindow \/ bootClock < bootSecond THEN 1
                   ELSE IF streak <= MaxBoots THEN streak + 1 ELSE streak
  BY DEF WarmReset, CheckBootThrottle
<1>3. Boots \in 1 .. CountModulus
  BY BootsValue
<1>4. bootCount' \in 0 .. CountModulus - 1 /\ (Boots # CountModulus => bootCount' = Boots)
  <2>1. CASE Boots = CountModulus
    <3>1. CountModulus % CountModulus = 0
      BY ThrottleConstants
    <3>2. QED
      BY <1>2, <2>1, <3>1, ThrottleConstants
  <2>2. CASE Boots # CountModulus
    <3>1. Boots % CountModulus = Boots
      BY <1>3, <2>2, ThrottleConstants
    <3>2. QED
      BY <1>2, <1>3, <2>2, <3>1, ThrottleConstants
  <2>3. QED
    BY <2>1, <2>2
<1>5. ThrottleTypes'
  BY <1>1, <1>2, <1>4, ThrottleConstants DEF ThrottleTypes
<1>6. ThrottleFlags'
  <2>1. safe' \in BOOLEAN
    <3>1. (Boots > MaxBoots) \in BOOLEAN
      OBVIOUS
    <3>2. QED
      BY <1>2, <3>1, Zenon
  <2>2. clockSet' \in BOOLEAN
    BY <1>2
  <2>3. wrapped' \in BOOLEAN
    <3>1. (wrapped \/ Boots = CountModulus) \in BOOLEAN
      OBVIOUS
    <3>2. QED
      BY <1>2, <3>1, Zenon
  <2>4. QED
    BY <2>1, <2>2, <2>3 DEF ThrottleFlags
<1>7. RecordTypes'
  BY <1>1 DEF WarmReset, Recorded, RecordTypes
<1>8. GapIsShown'
  BY <1>1, <1>2, ThrottleConstants DEF GapIsShown, ThrottleTypes
<1>9. BootsAreCounted'
  <2>1. ASSUME ~wrapped' PROVE ~wrapped /\ bootCount' = Boots /\ streak <= bootCount
    <3>1. ~wrapped /\ Boots # CountModulus
      BY <2>1, <1>2, Zenon
    <3>2. QED
      BY <3>1, <1>1, <1>4 DEF BootsAreCounted
  <2>2. ASSUME ~wrapped' PROVE streak' <= bootCount'
    <3>1. /\ bootCount \in Nat /\ streak \in Nat /\ Boots \in Nat
          /\ bootCount' = Boots /\ streak <= bootCount /\ 1 <= Boots
      BY <2>1, <2>2, <1>1, <1>3, ThrottleConstants DEF ThrottleTypes
    <3>2. CASE streak' = 1
      BY <3>1, <3>2
    <3>3. CASE streak' # 1
      <4>1. ~clockSet /\ ~(gap > BootWindow) /\ ~(bootClock < bootSecond)
        BY <3>3, <1>2, Zenon
      <4>2. streak' = streak + 1 \/ streak' = streak
        BY <4>1, <1>2, Zenon
      <4>3. gap <= BootWindow /\ bootSecond <= bootClock
        BY <4>1, <1>1, ThrottleConstants DEF ThrottleTypes
      <4>4. Boots = bootCount + 1
        BY <4>1, <4>3, BootsValue
      <4>5. QED
        BY <3>1, <4>2, <4>4
    <3>4. QED
      BY <3>2, <3>3
  <2>3. ASSUME ~wrapped', bootCount' > MaxBoots PROVE safe'
    BY <2>1, <2>3, <1>2, Zenon
  <2>4. QED
    BY <2>2, <2>3 DEF BootsAreCounted
<1>10. QED
  BY <1>5, <1>6, <1>7, <1>8, <1>9 DEF ThrottleInv

LEMMA ThrottleNextInv == ThrottleInv /\ [ThrottleNext]_throttleVars => ThrottleInv'
<1> SUFFICES ASSUME ThrottleInv, [ThrottleNext]_throttleVars PROVE ThrottleInv'
  OBVIOUS
<1>1. ThrottleTypes /\ ThrottleFlags /\ RecordTypes /\ GapIsShown /\ BootsAreCounted
  BY DEF ThrottleInv
<1>2. CASE BootClockAdvances
  <2>1. /\ bootClock' = (bootClock + 1) % MinuteSeconds
        /\ gap' = IF gap < MinuteSeconds THEN gap + 1 ELSE gap
        /\ UNCHANGED <<bootSecond, bootCount, cause, fault, safe, clockSet, streak, wrapped>>
    BY <1>2 DEF BootClockAdvances, registers
  <2>2. bootClock' = IF bootClock + 1 < MinuteSeconds THEN bootClock + 1 ELSE 0
    <3>1. CASE bootClock + 1 < MinuteSeconds
      <4>1. (bootClock + 1) % MinuteSeconds = bootClock + 1
        BY <3>1, <1>1, ThrottleConstants DEF ThrottleTypes
      <4>2. QED
        BY <3>1, <4>1, <2>1
    <3>2. CASE ~(bootClock + 1 < MinuteSeconds)
      <4>1. bootClock + 1 = MinuteSeconds
        BY <3>2, <1>1, ThrottleConstants DEF ThrottleTypes
      <4>2. MinuteSeconds % MinuteSeconds = 0
        BY ThrottleConstants
      <4>3. QED
        BY <3>2, <4>1, <4>2, <2>1
    <3>3. QED
      BY <3>1, <3>2
  <2>3. ThrottleTypes' /\ GapIsShown'
    BY <1>1, <2>1, <2>2, ThrottleConstants DEF ThrottleTypes, GapIsShown
  <2>4. ThrottleFlags' /\ RecordTypes'
    BY <1>1, <2>1 DEF ThrottleFlags, RecordTypes
  <2>5. BootsAreCounted'
    BY <1>1, <2>1 DEF BootsAreCounted
  <2>6. QED
    BY <2>3, <2>4, <2>5 DEF ThrottleInv
<1>3. CASE BootClockSet
  BY <1>1, <1>3 DEF BootClockSet, registers, ThrottleInv, ThrottleTypes, ThrottleFlags,
     RecordTypes, GapIsShown, BootsAreCounted
<1>4. CASE PowerOnReset
  <2>1. ThrottleFlags'
    BY <1>4 DEF PowerOnReset, ThrottleFlags
  <2>2. ThrottleTypes' /\ RecordTypes' /\ GapIsShown'
    BY <1>4, ThrottleConstants
       DEF PowerOnReset, PoweredOn, ThrottleTypes, RecordTypes, GapIsShown
  <2>3. streak' <= bootCount' /\ ~(bootCount' > MaxBoots)
    BY <1>4, ThrottleConstants DEF PowerOnReset, PoweredOn
  <2>4. QED
    BY <2>1, <2>2, <2>3 DEF ThrottleInv, BootsAreCounted
<1>5. CASE \E kind \in {"watchdog", "panic", "brown-out"} : WarmReset(kind)
  BY <1>5, WarmResetKeepsThrottle
<1>6. CASE UNCHANGED throttleVars
  BY <1>1, <1>6 DEF throttleVars, registers, ThrottleInv, ThrottleTypes, ThrottleFlags,
     RecordTypes, GapIsShown, BootsAreCounted
<1>7. QED
  BY <1>2, <1>3, <1>4, <1>5, <1>6 DEF ThrottleNext

(* The record of fault.rs holds what its bytes can.                        *)
THEOREM ThrottleTypesHold == ThrottleSpec => []ThrottleTypeOK
<1>1. ThrottleInv => ThrottleTypeOK
  BY DEF ThrottleInv, ThrottleTypes, ThrottleFlags, RecordTypes, ThrottleTypeOK
<1>2. QED
  BY <1>1, ThrottleInitInv, ThrottleNextInv, PTL DEF ThrottleSpec

(* More boots than the limit, each within the window of the last and       *)
(* within one minute of the clock, lead to the safe state, until the count *)
(* runs over its byte; a boot after the window, but less than a minute,    *)
(* never does (check_boot_throttle).                                       *)
THEOREM QuickBootsAreCaught == ThrottleSpec => SafeStateForQuickBoots
<1>1. ThrottleInv' => QuickBootsAreSafe'
  <2> SUFFICES ASSUME ThrottleInv', streak' > MaxBoots, ~wrapped' PROVE safe'
    BY DEF QuickBootsAreSafe
  <2>1. streak' <= bootCount' /\ (bootCount' > MaxBoots => safe')
    BY DEF ThrottleInv, BootsAreCounted
  <2>2. bootCount' > MaxBoots
    BY <2>1, ThrottleConstants DEF ThrottleInv, ThrottleTypes
  <2>3. QED
    BY <2>1, <2>2
<1>2. ThrottleInv /\ ThrottleNext => SlowBootsAreNot
  <2> SUFFICES ASSUME ThrottleInv, ThrottleNext, safe', gap' = 0, ~clockSet,
                      gap \in BootWindow + 1 .. MinuteSeconds - 1
               PROVE  FALSE
    BY DEF SlowBootsAreNot
  <2>1. CASE BootClockAdvances
    BY <2>1, ThrottleConstants DEF BootClockAdvances
  <2>2. CASE BootClockSet
    BY <2>2, ThrottleConstants DEF BootClockSet
  <2>3. CASE PowerOnReset
    BY <2>3 DEF PowerOnReset
  <2>4. CASE \E kind \in {"watchdog", "panic", "brown-out"} : WarmReset(kind)
    <3>1. safe' = (Boots > MaxBoots)
      BY <2>4 DEF WarmReset, CheckBootThrottle
    <3>2. Boots = 1
      BY BootsValue
    <3>3. ~(1 > MaxBoots)
      BY ThrottleConstants
    <3>4. QED
      BY <3>1, <3>2, <3>3, Zenon
  <2>5. QED
    BY <2>1, <2>2, <2>3, <2>4 DEF ThrottleNext
<1>3. ThrottleInv /\ ThrottleInv' /\ [ThrottleNext]_throttleVars
        => [QuickBootsAreSafe' /\ SlowBootsAreNot]_throttleVars
  BY <1>1, <1>2
<1>4. QED
  BY <1>3, ThrottleInitInv, ThrottleNextInv, PTL DEF ThrottleSpec, SafeStateForQuickBoots

-----------------------------------------------------------------------------
(* The heartbeat.                                                          *)

(* What the assumptions say of each constant.                              *)
LEMMA ClockConstants ==
  /\ MinuteSeconds \in Nat \ {0, 1} /\ HourMinutes \in Nat \ {0, 1} /\ Hours \in Nat \ {0, 1}
  /\ FieldWidth \in Nat \ {0, 1}
  /\ FieldWidth >= MinuteSeconds /\ FieldWidth >= HourMinutes /\ FieldWidth >= Hours
  /\ HeartbeatLimit \in Nat
<1>1. MinuteSeconds \in Nat \ {0, 1} /\ HourMinutes \in Nat \ {0, 1} /\ Hours \in Nat \ {0, 1}
  BY PackedClockAssumption
<1>2. FieldWidth \in Nat /\ FieldWidth >= MinuteSeconds /\ FieldWidth >= HourMinutes /\ FieldWidth >= Hours
  BY PackedClockAssumption
<1>3. FieldWidth \in Nat \ {0, 1}
  BY <1>1, <1>2
<1>4. HeartbeatLimit \in Nat
  BY HeartbeatAssumption
<1>5. QED
  BY <1>1, <1>2, <1>3, <1>4

(* Quotient and remainder are the only ones.                               *)
LEMMA DivMod ==
  ASSUME NEW n \in Nat \ {0}, NEW q \in Nat, NEW r \in 0 .. n - 1
  PROVE  (n * q + r) \div n = q /\ (n * q + r) % n = r
<1> DEFINE a == n * q + r
           d == a \div n
           e == a % n
<1>1. n * q \in Nat /\ a \in Nat
  OBVIOUS
<1>2. d \in Int /\ e \in 0 .. n - 1 /\ a = n * d + e
  <2> HIDE DEF a
  <2>1. QED
    BY <1>1
<1>3. n * q - n * d = e - r
  <2>1. n * d \in Int
    BY <1>2
  <2> HIDE DEF d, e
  <2>2. QED
    BY <1>1, <1>2, <2>1
<1> HIDE DEF d, e
<1>4. n * (q - d) = n * q - n * d
  BY <1>2
<1>5. q - d \in Int
  BY <1>2
<1>6. \A x \in Int : x >= 1 => n * x >= n
  OBVIOUS
<1>7. \A x \in Int : x <= -1 => n * x <= -n
  OBVIOUS
<1>8. ~(q - d >= 1) /\ ~(q - d <= -1)
  BY <1>2, <1>3, <1>4, <1>5, <1>6, <1>7
<1>9. q = d
  BY <1>2, <1>5, <1>8
<1>10. e = r
  BY <1>2, <1>3, <1>9
<1>11. QED
  BY <1>9, <1>10 DEF d, e

(* The second of the calendar with these hours, minutes and seconds.       *)
TimeAt(h, m, s) == MinuteSeconds * (HourMinutes * h + m) + s

(* The fields of a time put together from its fields.                      *)
LEMMA TimeAtFields ==
  ASSUME NEW h \in 0 .. Hours - 1, NEW m \in 0 .. HourMinutes - 1,
         NEW s \in 0 .. MinuteSeconds - 1
  PROVE  /\ TimeAt(h, m, s) \in Times
         /\ HourOf(TimeAt(h, m, s)) = h
         /\ MinuteOf(TimeAt(h, m, s)) = m
         /\ SecondOf(TimeAt(h, m, s)) = s
<1> DEFINE q == HourMinutes * h + m
           n == MinuteSeconds * HourMinutes
           r == MinuteSeconds * m + s
<1>1. HourMinutes * h \in Nat /\ q \in Nat /\ MinuteSeconds * m \in Nat /\ r \in Nat
  BY ClockConstants
<1>2. q \div HourMinutes = h /\ q % HourMinutes = m
  BY DivMod, ClockConstants
<1>3. TimeAt(h, m, s) \div MinuteSeconds = q /\ TimeAt(h, m, s) % MinuteSeconds = s
  <2> HIDE DEF q
  <2>1. (MinuteSeconds * q + s) \div MinuteSeconds = q /\ (MinuteSeconds * q + s) % MinuteSeconds = s
    BY <1>1, DivMod, ClockConstants
  <2>2. QED
    BY <2>1 DEF TimeAt, q
<1>4. n \in Nat \ {0} /\ MinuteSeconds * (HourMinutes - 1) = n - MinuteSeconds
  BY ClockConstants
<1>5. r \in 0 .. n - 1
  <2>1. \A x \in Nat, y \in Nat : x <= y => MinuteSeconds * x <= MinuteSeconds * y
    BY ClockConstants
  <2>2. MinuteSeconds * m <= MinuteSeconds * (HourMinutes - 1)
    BY <2>1, ClockConstants
  <2> HIDE DEF n
  <2>3. QED
    BY <1>1, <1>4, <2>2, ClockConstants
<1>6. TimeAt(h, m, s) = n * h + r
  BY ClockConstants DEF TimeAt
<1>7. TimeAt(h, m, s) \div n = h
  <2> HIDE DEF n, r
  <2>1. h \in Nat
    BY ClockConstants
  <2>2. (n * h + r) \div n = h
    BY <1>4, <1>5, <2>1, DivMod
  <2>3. QED
    BY <1>6, <2>2
<1>8. TimeAt(h, m, s) \in Times
  <2> HIDE DEF n, r
  <2>1. n * h \in Nat /\ n * (Hours - 1) = n * Hours - n /\ n * Hours \in Nat
    BY <1>4, ClockConstants
  <2>2. \A x \in Nat, y \in Nat : x <= y => n * x <= n * y
    BY <1>4
  <2>3. n * h <= n * (Hours - 1)
    <3>1. h \in Nat /\ Hours - 1 \in Nat /\ h <= Hours - 1
      BY ClockConstants
    <3>2. QED
      BY <2>2, <3>1
  <2>4. n * h + r \in 0 .. n * Hours - 1
    BY <1>4, <1>5, <2>1, <2>3
  <2>5. QED
    BY <1>6, <2>4 DEF Times, n
<1>9. QED
  BY <1>2, <1>3, <1>7, <1>8 DEF HourOf, MinuteOf, SecondOf

(* Every time is put together from its fields.                             *)
LEMMA TimesAreTimeAt ==
  ASSUME NEW t \in Times
  PROVE  \E h \in 0 .. Hours - 1, m \in 0 .. HourMinutes - 1, s \in 0 .. MinuteSeconds - 1 :
           t = TimeAt(h, m, s)
<1> DEFINE q == t \div MinuteSeconds
           s == t % MinuteSeconds
           h == q \div HourMinutes
           m == q % HourMinutes
<1>1. t \in Nat /\ t < MinuteSeconds * HourMinutes * Hours
  <2>1. MinuteSeconds * HourMinutes * Hours \in Nat
    BY ClockConstants
  <2>2. QED
    BY <2>1 DEF Times
<1>2. q \in Nat /\ s \in 0 .. MinuteSeconds - 1 /\ t = MinuteSeconds * q + s
  BY <1>1, ClockConstants
<1>3. h \in Nat /\ m \in 0 .. HourMinutes - 1 /\ q = HourMinutes * h + m
  <2> HIDE DEF q
  <2>1. QED
    BY <1>2, ClockConstants
<1> HIDE DEF q, s, h, m
<1>4. h \in 0 .. Hours - 1
  <2> SUFFICES ASSUME h >= Hours PROVE FALSE
    BY <1>3, ClockConstants
  <2>1. HourMinutes * h >= HourMinutes * Hours /\ HourMinutes * Hours \in Nat
    BY <1>3, ClockConstants
  <2>2. q >= HourMinutes * Hours
    BY <1>3, <2>1, ClockConstants
  <2>3. MinuteSeconds * q >= MinuteSeconds * (HourMinutes * Hours)
    BY <1>2, <2>1, <2>2, ClockConstants
  <2>4. MinuteSeconds * (HourMinutes * Hours) = MinuteSeconds * HourMinutes * Hours
    BY ClockConstants
  <2>5. QED
    BY <1>1, <1>2, <2>3, <2>4, ClockConstants
<1>5. t = TimeAt(h, m, s)
  BY <1>2, <1>3 DEF TimeAt
<1>6. QED
  BY <1>2, <1>3, <1>4, <1>5

(* The next second, carry by carry.                                        *)
NextTime(t) == (t + 1) % (MinuteSeconds * HourMinutes * Hours)

LEMMA NextTimeIs ==
  ASSUME NEW h \in 0 .. Hours - 1, NEW m \in 0 .. HourMinutes - 1,
         NEW s \in 0 .. MinuteSeconds - 1
  PROVE  NextTime(TimeAt(h, m, s)) =
           IF s < MinuteSeconds - 1 THEN TimeAt(h, m, s + 1)
           ELSE IF m < HourMinutes - 1 THEN TimeAt(h, m + 1, 0)
           ELSE IF h < Hours - 1 THEN TimeAt(h + 1, 0, 0)
           ELSE TimeAt(0, 0, 0)
<1> DEFINE n == MinuteSeconds * HourMinutes * Hours
<1>1. n \in Nat \ {0} /\ Times = 0 .. n - 1
  BY ClockConstants DEF Times
<1>2. \A t \in Times : t % n = t
  BY <1>1
<1>3. CASE s < MinuteSeconds - 1
  <2>1. TimeAt(h, m, s) + 1 = TimeAt(h, m, s + 1)
    BY ClockConstants DEF TimeAt
  <2>2. TimeAt(h, m, s + 1) \in Times
    BY <1>3, TimeAtFields, ClockConstants
  <2>3. QED
    BY <1>2, <1>3, <2>1, <2>2 DEF NextTime
<1>4. CASE ~(s < MinuteSeconds - 1) /\ m < HourMinutes - 1
  <2>1. TimeAt(h, m, s) + 1 = TimeAt(h, m + 1, 0)
    <3>1. s = MinuteSeconds - 1
      BY <1>4, ClockConstants
    <3>2. HourMinutes * h + m \in Nat
      BY ClockConstants
    <3>3. \A q \in Nat : MinuteSeconds * q + (MinuteSeconds - 1) + 1 = MinuteSeconds * (q + 1) + 0
      BY ClockConstants
    <3>4. HourMinutes * h + m + 1 = HourMinutes * h + (m + 1)
      BY ClockConstants
    <3>5. QED
      BY <3>1, <3>2, <3>3, <3>4 DEF TimeAt
  <2>2. TimeAt(h, m + 1, 0) \in Times
    <3>1. m + 1 \in 0 .. HourMinutes - 1 /\ 0 \in 0 .. MinuteSeconds - 1
      BY <1>4, ClockConstants
    <3>2. QED
      BY <3>1, TimeAtFields
  <2>3. QED
    BY <1>2, <1>4, <2>1, <2>2 DEF NextTime
<1>5. CASE ~(s < MinuteSeconds - 1) /\ ~(m < HourMinutes - 1)
  <2>1. s = MinuteSeconds - 1 /\ m = HourMinutes - 1
    BY <1>5, ClockConstants
  <2>2. HourMinutes * h \in Nat /\ HourMinutes * (h + 1) = HourMinutes * h + HourMinutes
    BY ClockConstants
  <2>3. \A q \in Nat : MinuteSeconds * (q + HourMinutes - 1) + (MinuteSeconds - 1) + 1
                          = MinuteSeconds * (q + HourMinutes)
    BY ClockConstants
  <2>4. HourMinutes * h + (HourMinutes - 1) = HourMinutes * h + HourMinutes - 1
    BY <2>2, ClockConstants
  <2>5. TimeAt(h, m, s) + 1 = MinuteSeconds * (HourMinutes * (h + 1))
    BY <2>1, <2>2, <2>3, <2>4 DEF TimeAt
  <2>6. CASE h < Hours - 1
    <3>1. h + 1 \in 0 .. Hours - 1 /\ 0 \in 0 .. HourMinutes - 1 /\ 0 \in 0 .. MinuteSeconds - 1
      BY <2>6, ClockConstants
    <3>2. TimeAt(h + 1, 0, 0) \in Times
      BY <3>1, TimeAtFields
    <3>3. TimeAt(h + 1, 0, 0) = MinuteSeconds * (HourMinutes * (h + 1))
      BY ClockConstants DEF TimeAt
    <3>4. QED
      BY <1>2, <1>5, <2>5, <2>6, <3>2, <3>3 DEF NextTime
  <2>7. CASE ~(h < Hours - 1)
    <3>1. h + 1 = Hours
      BY <2>7, ClockConstants
    <3>2. TimeAt(h, m, s) + 1 = n
      BY <2>5, <3>1, ClockConstants
    <3>3. n % n = 0
      BY <1>1
    <3>4. TimeAt(0, 0, 0) = 0
      BY ClockConstants DEF TimeAt
    <3>5. QED
      BY <1>5, <2>7, <3>2, <3>3, <3>4 DEF NextTime
  <2>8. QED
    BY <2>6, <2>7
<1>6. QED
  BY <1>3, <1>4, <1>5

-----------------------------------------------------------------------------
(* The register of a time, field by field.                                 *)
RegAt(h, m, s) == ((FieldWidth + h) * FieldWidth + m) * FieldWidth + s

(* The register of a time is its fields, packed.                           *)
LEMMA RegIs ==
  ASSUME NEW h \in 0 .. Hours - 1, NEW m \in 0 .. HourMinutes - 1,
         NEW s \in 0 .. MinuteSeconds - 1
  PROVE  ToReg(TimeAt(h, m, s)) = RegAt(h, m, s)
  BY TimeAtFields DEF ToReg, RegAt

(* The second and third powers of the field's width.                       *)
Square == FieldWidth * FieldWidth
Cube == Square * FieldWidth

(* The packed register as a polynomial of the width.                       *)
LEMMA RegAtValue ==
  ASSUME NEW h \in Nat, NEW m \in Nat, NEW s \in Nat
  PROVE  RegAt(h, m, s) = Cube + h * Square + m * FieldWidth + s
  BY ClockConstants DEF RegAt, Square, Cube

(* How the powers of the width compare with it and with the limit.         *)
LEMMA Powers ==
  /\ Square \in Nat /\ Cube \in Nat /\ RegModulus = 2 * Cube
  /\ FieldWidth <= Square /\ Square <= Cube
  /\ HeartbeatLimit < Square - HourMinutes * FieldWidth + FieldWidth - MinuteSeconds + 1
  /\ HourMinutes * FieldWidth \in Nat /\ HourMinutes * FieldWidth <= Square
  /\ Hours * Square \in Nat /\ Hours * Square <= Cube
<1>1. Square \in Nat /\ FieldWidth <= Square
  BY ClockConstants DEF Square
<1>2. Cube \in Nat /\ Square <= Cube
  <2>1. \A x \in Nat : x <= x * FieldWidth /\ x * FieldWidth \in Nat
    BY ClockConstants
  <2>2. QED
    BY <1>1, <2>1 DEF Cube
<1>3. RegModulus = 2 * Cube
  BY ClockConstants DEF RegModulus, Cube, Square
<1>4. FieldWidth * (FieldWidth - HourMinutes) = Square - HourMinutes * FieldWidth
  BY ClockConstants DEF Square
<1>5. HourMinutes * FieldWidth \in Nat /\ HourMinutes * FieldWidth <= Square
  BY ClockConstants DEF Square
<1>6. Hours * Square \in Nat /\ Hours * Square <= Cube
  <2>1. \A x \in Nat : Hours * x \in Nat /\ Hours * x <= x * FieldWidth
    BY ClockConstants
  <2>2. QED
    BY <1>1, <2>1 DEF Cube
<1>7. QED
  BY <1>1, <1>2, <1>3, <1>4, <1>5, <1>6, HeartbeatAssumption

(* The 32-bit difference, without and with a borrow.                       *)
LEMMA WrappingSubValue ==
  ASSUME NEW a \in 0 .. 2 * Cube - 1, NEW b \in 0 .. 2 * Cube - 1
  PROVE  WrappingSub(a, b) = IF b <= a THEN a - b ELSE 2 * Cube - (b - a)
<1> DEFINE R == 2 * Cube
<1>1. R \in Nat /\ RegModulus = R
  BY Powers
<1> HIDE DEF R
<1>2. a \in 0 .. R - 1 /\ b \in 0 .. R - 1
  BY DEF R
<1>3. WrappingSub(a, b) = (a + R - b) % R
  BY <1>1 DEF WrappingSub
<1>4. CASE b <= a
  <2>1. a + R - b = R * 1 + (a - b) /\ a - b \in 0 .. R - 1 /\ R \in Nat \ {0}
    BY <1>1, <1>2, <1>4
  <2>2. (R * 1 + (a - b)) % R = a - b
    BY <2>1, DivMod
  <2>3. QED
    BY <1>3, <1>4, <2>1, <2>2
<1>5. CASE ~(b <= a)
  <2>1. a + R - b \in 0 .. R - 1 /\ a + R - b = R - (b - a)
    BY <1>1, <1>2, <1>5
  <2>2. (a + R - b) % R = a + R - b
    BY <1>1, <2>1
  <2>3. QED
    BY <1>3, <1>5, <2>1, <2>2 DEF R
<1>6. QED
  BY <1>4, <1>5 DEF R

(* A register is below the modulus; what the next second adds to it.       *)
LEMMA RegAtBound ==
  ASSUME NEW h \in 0 .. Hours - 1, NEW m \in 0 .. HourMinutes - 1,
         NEW s \in 0 .. MinuteSeconds - 1
  PROVE  RegAt(h, m, s) \in Cube .. 2 * Cube - 1
<1>1. RegAt(h, m, s) = Cube + h * Square + m * FieldWidth + s
  BY RegAtValue, ClockConstants
<1>2. h * Square \in Nat /\ h * Square <= Hours * Square - Square
  <2>1. \A x \in Nat : x * Square \in Nat /\ (x + 1) * Square = x * Square + Square
    BY Powers
  <2>2. \A x \in Nat, y \in Nat : x <= y => x * Square <= y * Square
    BY Powers
  <2>3. (h + 1) * Square <= Hours * Square
    BY <2>2, ClockConstants
  <2>4. QED
    BY <2>1, <2>3, ClockConstants, Powers
<1>3. m * FieldWidth \in Nat /\ m * FieldWidth <= HourMinutes * FieldWidth - FieldWidth
  <2>1. \A x \in Nat : x * FieldWidth \in Nat /\ (x + 1) * FieldWidth = x * FieldWidth + FieldWidth
    BY ClockConstants
  <2>2. \A x \in Nat, y \in Nat : x <= y => x * FieldWidth <= y * FieldWidth
    BY ClockConstants
  <2>3. (m + 1) * FieldWidth <= HourMinutes * FieldWidth
    BY <2>2, ClockConstants
  <2>4. QED
    BY <2>1, <2>3, ClockConstants, Powers
<1>4. s \in Nat /\ s <= FieldWidth - 1
  BY ClockConstants
<1>5. QED
  BY <1>1, <1>2, <1>3, <1>4, Powers, ClockConstants

(* Of all carries the heartbeat tolerates the ones out of the seconds.     *)
LEMMA CarryValue ==
  ASSUME NEW t \in Times
  PROVE  /\ NextTime(t) \in Times
         /\ WrappingSub(ToReg(NextTime(t)), ToReg(t)) > HeartbeatLimit
              <=> HourOf(NextTime(t)) # HourOf(t)
<1>1. PICK h \in 0 .. Hours - 1, m \in 0 .. HourMinutes - 1, s \in 0 .. MinuteSeconds - 1 :
        t = TimeAt(h, m, s)
  BY TimesAreTimeAt
<1>2. /\ HourOf(t) = h /\ ToReg(t) = RegAt(h, m, s)
      /\ RegAt(h, m, s) \in 0 .. 2 * Cube - 1
      /\ RegAt(h, m, s) = Cube + h * Square + m * FieldWidth + s
  BY <1>1, TimeAtFields, RegIs, RegAtBound, RegAtValue, Powers, ClockConstants
<1>3. h \in Nat /\ m \in Nat /\ s \in Nat /\ h * Square \in Nat /\ m * FieldWidth \in Nat
  BY Powers, ClockConstants
<1>4. ASSUME NEW i \in 0 .. Hours - 1, NEW k \in 0 .. HourMinutes - 1,
             NEW r \in 0 .. MinuteSeconds - 1, NextTime(t) = TimeAt(i, k, r)
      PROVE  /\ NextTime(t) \in Times /\ HourOf(NextTime(t)) = i
             /\ ToReg(NextTime(t)) = RegAt(i, k, r) /\ RegAt(i, k, r) \in 0 .. 2 * Cube - 1
             /\ RegAt(i, k, r) = Cube + i * Square + k * FieldWidth + r
             /\ WrappingSub(ToReg(NextTime(t)), ToReg(t)) =
                  IF RegAt(h, m, s) <= RegAt(i, k, r) THEN RegAt(i, k, r) - RegAt(h, m, s)
                  ELSE 2 * Cube - (RegAt(h, m, s) - RegAt(i, k, r))
  <2>1. /\ NextTime(t) \in Times /\ HourOf(NextTime(t)) = i
        /\ ToReg(NextTime(t)) = RegAt(i, k, r)
    BY <1>4, TimeAtFields, RegIs
  <2>2. RegAt(i, k, r) \in 0 .. 2 * Cube - 1
    BY RegAtBound, Powers
  <2>3. RegAt(i, k, r) = Cube + i * Square + k * FieldWidth + r
    BY RegAtValue, ClockConstants
  <2>4. QED
    BY <1>2, <2>1, <2>2, <2>3, WrappingSubValue
<1>5. CASE s < MinuteSeconds - 1
  <2>1. s + 1 \in 0 .. MinuteSeconds - 1 /\ NextTime(t) = TimeAt(h, m, s + 1)
    BY <1>1, <1>5, NextTimeIs, ClockConstants
  <2>2. RegAt(h, m, s + 1) = RegAt(h, m, s) + 1
    BY <1>2, <1>3, <1>4, <2>1, Powers
  <2>3. WrappingSub(ToReg(NextTime(t)), ToReg(t)) = 1
    BY <1>2, <1>4, <2>1, <2>2, Powers
  <2>4. ~(1 > HeartbeatLimit)
    BY ClockConstants, HeartbeatAssumption
  <2>5. QED
    BY <1>2, <1>4, <2>1, <2>3, <2>4
<1>6. CASE ~(s < MinuteSeconds - 1) /\ m < HourMinutes - 1
  <2>1. /\ s = MinuteSeconds - 1 /\ m + 1 \in 0 .. HourMinutes - 1
        /\ 0 \in 0 .. MinuteSeconds - 1 /\ NextTime(t) = TimeAt(h, m + 1, 0)
    BY <1>1, <1>6, NextTimeIs, ClockConstants
  <2>2. (m + 1) * FieldWidth = m * FieldWidth + FieldWidth
    BY ClockConstants
  <2>3. RegAt(h, m + 1, 0) = RegAt(h, m, s) + (FieldWidth - MinuteSeconds + 1)
    BY <1>2, <1>3, <1>4, <2>1, <2>2, Powers, ClockConstants
  <2>4. FieldWidth - MinuteSeconds + 1 \in Nat
    BY ClockConstants
  <2>5. WrappingSub(ToReg(NextTime(t)), ToReg(t)) = FieldWidth - MinuteSeconds + 1
    BY <1>2, <1>4, <2>1, <2>3, <2>4, Powers
  <2>6. ~(FieldWidth - MinuteSeconds + 1 > HeartbeatLimit)
    BY <2>4, ClockConstants, HeartbeatAssumption
  <2>7. QED
    BY <1>2, <1>4, <2>1, <2>5, <2>6
<1>7. CASE ~(s < MinuteSeconds - 1) /\ ~(m < HourMinutes - 1) /\ h < Hours - 1
  <2> DEFINE d == Square - HourMinutes * FieldWidth + FieldWidth - MinuteSeconds + 1
  <2>1. /\ s = MinuteSeconds - 1 /\ m = HourMinutes - 1 /\ h + 1 \in 0 .. Hours - 1
        /\ 0 \in 0 .. HourMinutes - 1 /\ 0 \in 0 .. MinuteSeconds - 1
        /\ NextTime(t) = TimeAt(h + 1, 0, 0)
    BY <1>1, <1>7, NextTimeIs, ClockConstants
  <2>2. /\ (h + 1) * Square = h * Square + Square /\ 0 * FieldWidth = 0
        /\ m * FieldWidth = HourMinutes * FieldWidth - FieldWidth
    BY <2>1, Powers, ClockConstants
  <2>3. RegAt(h + 1, 0, 0) = RegAt(h, m, s) + d
    BY <1>2, <1>3, <1>4, <2>1, <2>2, Powers, ClockConstants
  <2>4. d \in Nat /\ d > HeartbeatLimit
    BY Powers, ClockConstants
  <2> HIDE DEF d
  <2>5. WrappingSub(ToReg(NextTime(t)), ToReg(t)) = d
    BY <1>2, <1>4, <2>1, <2>3, <2>4, Powers
  <2>6. h + 1 # h
    OBVIOUS
  <2>7. QED
    BY <1>2, <1>4, <2>1, <2>4, <2>5, <2>6
<1>8. CASE ~(s < MinuteSeconds - 1) /\ ~(m < HourMinutes - 1) /\ ~(h < Hours - 1)
  <2>1. /\ h = Hours - 1 /\ h # 0
        /\ 0 \in 0 .. Hours - 1 /\ 0 \in 0 .. HourMinutes - 1 /\ 0 \in 0 .. MinuteSeconds - 1
        /\ NextTime(t) = TimeAt(0, 0, 0)
    BY <1>1, <1>8, NextTimeIs, ClockConstants
  <2>2. RegAt(0, 0, 0) = Cube
    <3>1. 0 * Square = 0 /\ 0 * FieldWidth = 0
      BY Powers, ClockConstants
    <3>2. QED
      BY <3>1, <1>4, <2>1, Powers
  <2>3. h * Square >= Square
    <3>1. \A x \in Nat \ {0} : x * Square >= Square
      BY Powers
    <3>2. QED
      BY <1>3, <2>1, <3>1
  <2>4. RegAt(h, m, s) > Cube /\ RegAt(h, m, s) < 2 * Cube
    BY <1>2, <1>3, <2>3, Powers, ClockConstants
  <2>5. WrappingSub(ToReg(NextTime(t)), ToReg(t)) > Cube
    BY <1>2, <1>4, <2>1, <2>2, <2>4, Powers
  <2>6. WrappingSub(ToReg(NextTime(t)), ToReg(t)) > HeartbeatLimit
    <3>1. HeartbeatLimit <= Cube
      BY Powers, ClockConstants
    <3>2. WrappingSub(ToReg(NextTime(t)), ToReg(t)) \in Nat
      BY <1>2, <1>4, <2>1, <2>2, <2>4, Powers
    <3>3. QED
      BY <3>1, <3>2, <2>5, Powers, ClockConstants
  <2>7. QED
    BY <1>2, <1>4, <2>1, <2>6
<1>9. QED
  BY <1>5, <1>6, <1>7, <1>8

-----------------------------------------------------------------------------
HeartbeatFlags == lostTime \in BOOLEAN /\ missed \in BOOLEAN /\ jumped \in BOOLEAN

(* The clock and its register, the flags apart.                            *)
HeartbeatTypes ==
  /\ now \in Times /\ rate \in {"second", "minute"}
  /\ heartbeat \in {0} \cup {ToReg(t) : t \in Times}

(* The register holds the present time, unless seconds have passed without *)
(* a check or the clock was set.                                           *)
HeartbeatIsFresh == heartbeat # 0 /\ ~missed /\ ~jumped => heartbeat = ToReg(now)

(* The inductive invariant of the heartbeat.                               *)
HeartbeatInv == HeartbeatFlags /\ HeartbeatTypes /\ HeartbeatIsFresh

LEMMA HeartbeatInitInv == HeartbeatInit => HeartbeatInv
  BY DEF HeartbeatInit, HeartbeatInv, HeartbeatFlags, HeartbeatTypes, HeartbeatIsFresh

(* A second passes, with its check or without.                             *)
LEMMA CalendarAdvancesKeeps ==
  ASSUME HeartbeatInv, CalendarAdvances
  PROVE  HeartbeatInv'
<1>1. now' = NextTime(now) /\ rate' = rate /\ now' \in Times
  BY CarryValue DEF CalendarAdvances, NextTime, HeartbeatInv, HeartbeatTypes
<1>2. CASE rate = "second" \/ SecondOf(now') = 0
  <2>1. /\ lostTime' = (lostTime \/ LostTime(now')) /\ heartbeat' = ToReg(now')
        /\ missed' = FALSE /\ jumped' = FALSE
    BY <1>2 DEF CalendarAdvances, CheckHeartbeat
  <2>2. lostTime' \in BOOLEAN
    <3>1. (lostTime \/ LostTime(now')) \in BOOLEAN
      OBVIOUS
    <3>2. QED
      BY <2>1, <3>1, Zenon
  <2>3. HeartbeatFlags'
    BY <2>1, <2>2 DEF HeartbeatFlags
  <2>4. HeartbeatTypes' /\ HeartbeatIsFresh'
    BY <1>1, <2>1 DEF HeartbeatInv, HeartbeatTypes, HeartbeatIsFresh
  <2>5. QED
    BY <2>3, <2>4 DEF HeartbeatInv
<1>3. CASE ~(rate = "second" \/ SecondOf(now') = 0)
  <2>1. missed' = TRUE /\ UNCHANGED <<heartbeat, lostTime, jumped>>
    BY <1>3 DEF CalendarAdvances
  <2>2. QED
    BY <1>1, <2>1 DEF HeartbeatInv, HeartbeatFlags, HeartbeatTypes, HeartbeatIsFresh
<1>4. QED
  BY <1>2, <1>3

LEMMA HeartbeatNextInv == HeartbeatInv /\ [HeartbeatNext]_heartbeatVars => HeartbeatInv'
<1> SUFFICES ASSUME HeartbeatInv, [HeartbeatNext]_heartbeatVars PROVE HeartbeatInv'
  OBVIOUS
<1>1. CASE CalendarAdvances
  BY <1>1, CalendarAdvancesKeeps
<1>2. CASE RateChanges
  BY <1>2 DEF RateChanges, HeartbeatInv, HeartbeatFlags, HeartbeatTypes, HeartbeatIsFresh
<1>3. CASE CalendarSet
  BY <1>3 DEF CalendarSet, HeartbeatInv, HeartbeatFlags, HeartbeatTypes, HeartbeatIsFresh
<1>4. CASE ClearFaults
  BY <1>4 DEF ClearFaults, HeartbeatInv, HeartbeatFlags, HeartbeatTypes, HeartbeatIsFresh
<1>5. CASE HeartbeatReset
  <2>1. 0 \in Times
    <3>1. TimeAt(0, 0, 0) \in Times /\ TimeAt(0, 0, 0) = 0
      BY TimeAtFields, ClockConstants DEF TimeAt
    <3>2. QED
      BY <3>1
  <2>2. QED
    BY <1>5, <2>1
       DEF HeartbeatReset, HeartbeatInv, HeartbeatFlags, HeartbeatTypes, HeartbeatIsFresh
<1>6. CASE UNCHANGED heartbeatVars
  BY <1>6 DEF heartbeatVars, HeartbeatInv, HeartbeatFlags, HeartbeatTypes, HeartbeatIsFresh
<1>7. QED
  BY <1>1, <1>2, <1>3, <1>4, <1>5, <1>6 DEF HeartbeatNext

(* The heartbeat register holds a packed time, or nothing yet.             *)
THEOREM HeartbeatTypesHold == HeartbeatSpec => []HeartbeatTypeOK
<1>1. HeartbeatInv => HeartbeatTypeOK
  BY DEF HeartbeatInv, HeartbeatFlags, HeartbeatTypes, HeartbeatTypeOK
<1>2. QED
  BY <1>1, HeartbeatInitInv, HeartbeatNextInv, PTL DEF HeartbeatSpec

(* Checked every second, a clock that only advances is taken for one that  *)
(* lost time at each carry into the hours, the wrap of the calendar        *)
(* included, and nowhere else (check_heartbeat).                           *)
THEOREM HeartbeatIsMisled == HeartbeatSpec => LostTimeAtHourCarries
<1> DEFINE Misled ==
      ConsecutiveCheck /\ ~lostTime => (lostTime' <=> HourOf(now') # HourOf(now))
<1>1. HeartbeatInv /\ HeartbeatNext => Misled
  <2> SUFFICES ASSUME HeartbeatInv, HeartbeatNext, ConsecutiveCheck, ~lostTime
               PROVE  lostTime' <=> HourOf(now') # HourOf(now)
    OBVIOUS
  <2>1. CalendarAdvances
    BY DEF HeartbeatNext, ConsecutiveCheck, RateChanges, CalendarSet, ClearFaults, HeartbeatReset
  <2>2. /\ now' = NextTime(now) /\ lostTime' = (lostTime \/ LostTime(now'))
        /\ heartbeat # 0 /\ heartbeat = ToReg(now) /\ now \in Times
    BY <2>1 DEF ConsecutiveCheck, CalendarAdvances, CheckHeartbeat, NextTime, HeartbeatInv,
       HeartbeatTypes, HeartbeatIsFresh
  <2>3. LostTime(now') <=> HourOf(now') # HourOf(now)
    BY <2>2, CarryValue DEF LostTime
  <2>4. lostTime' <=> LostTime(now')
    BY <2>2, Zenon
  <2>5. QED
    BY <2>3, <2>4
<1>2. HeartbeatInv /\ [HeartbeatNext]_heartbeatVars => [Misled]_heartbeatVars
  BY <1>1
<1>3. QED
  BY <1>2, HeartbeatInitInv, HeartbeatNextInv, PTL DEF HeartbeatSpec, LostTimeAtHourCarries

-----------------------------------------------------------------------------
(* All services side by side.                                              *)

(* A step of one service is a step of its module, and stutters in the      *)
(* others.                                                                 *)
LEMMA StepsAreServices ==
  [MCNext]_serviceVars =>
    /\ [WatchdogNext]_watchdogVars /\ [HeartbeatNext]_heartbeatVars
    /\ [ThrottleNext]_throttleVars /\ [UartNext]_uartVars
    /\ [TransferNext]_transferVars /\ [OpticalNext]_opticalVars
    /\ [BuzzerNext]_buzzerVars /\ [QueueNext]_queueVars /\ [ButtonsNext]_buttonsVars
<1>1. CASE UNCHANGED serviceVars
  BY <1>1 DEF serviceVars
<1>2. CASE MCNext
  <2>1. MCQueueNext => QueueNext
    BY DEF MCQueueNext, QueueNext
  <2>2. QED
    BY <1>2, <2>1 DEF MCNext, OthersRest
<1>3. QED
  BY <1>1, <1>2

LEMMA InitsAreServices ==
  MCInit => /\ WatchdogInit /\ HeartbeatInit /\ ThrottleInit /\ UartInit /\ TransferInit
            /\ OpticalInit /\ BuzzerInit /\ QueueInit /\ ButtonsInit
  BY DEF MCInit

(* Each service, seen alone, behaves as its module specifies.  Of the two  *)
(* whose specifications have fairness the inductive invariants are enough. *)
LEMMA ServicesAreServices ==
  MCSpec => /\ []WatchdogInv /\ []PressInv
            /\ HeartbeatSpec /\ ThrottleSpec /\ UartSpec /\ TransferSpec
            /\ OpticalSpec /\ BuzzerSpec /\ QueueSpec
<1>1. MCSpec => []WatchdogInv /\ []PressInv
  BY InitsAreServices, StepsAreServices, WatchdogInitInv, WatchdogNextInv, InitPressInv,
     PressInvInductive, PTL DEF MCSpec
<1>2. MCSpec => HeartbeatSpec /\ ThrottleSpec /\ UartSpec /\ TransferSpec
  BY InitsAreServices, StepsAreServices, PTL
     DEF MCSpec, HeartbeatSpec, ThrottleSpec, UartSpec, TransferSpec
<1>3. MCSpec => OpticalSpec /\ BuzzerSpec /\ QueueSpec
  BY InitsAreServices, StepsAreServices, PTL DEF MCSpec, OpticalSpec, BuzzerSpec, QueueSpec
<1>4. QED
  BY <1>1, <1>2, <1>3

(* In whatever order the services take their steps, the variables of each  *)
(* keep their types and ranges (TypesOK).                                  *)
THEOREM ServicesTyped == MCSpec => []TypesOK
<1>1. MCSpec => []WatchdogTypeOK
  <2>1. WatchdogInv => WatchdogTypeOK
    BY WatchdogTypedIsTypeOK DEF WatchdogInv
  <2>2. QED
    BY <2>1, WatchdogInitInv, WatchdogNextInv, InitsAreServices, StepsAreServices, PTL DEF MCSpec
<1>2. MCSpec => []ButtonsTypeOK
  <2>1. ButtonsInv => ButtonsTypeOK
    BY ButtonsTypedIsTypeOK DEF ButtonsInv
  <2>2. QED
    BY <2>1, ButtonsInitInv, ButtonsNextInv, InitsAreServices, StepsAreServices, PTL DEF MCSpec
<1>3. MCSpec => HeartbeatSpec /\ ThrottleSpec /\ UartSpec /\ TransferSpec
  BY InitsAreServices, StepsAreServices, PTL
     DEF MCSpec, HeartbeatSpec, ThrottleSpec, UartSpec, TransferSpec
<1>4. MCSpec => OpticalSpec /\ BuzzerSpec /\ QueueSpec
  BY InitsAreServices, StepsAreServices, PTL DEF MCSpec, OpticalSpec, BuzzerSpec, QueueSpec
<1>5. MCSpec => [](HeartbeatTypeOK /\ ThrottleTypeOK /\ UartTypeOK /\ TransferTypeOK)
  BY <1>3, HeartbeatTypesHold, ThrottleTypesHold, UartTypes, TransferTypesHold, PTL
<1>6. MCSpec => [](OpticalTypeOK /\ BuzzerTypeOK /\ QueueTypeOK)
  BY <1>4, OpticalTypesHold, BuzzerTypesHold, EventQueueTypes, PTL
<1>7. QED
  BY <1>1, <1>2, <1>5, <1>6, PTL DEF TypesOK

(* So are their other properties: what holds of each service alone holds   *)
(* beside the others.                                                      *)
THEOREM ServicesAreSafe ==
  MCSpec => /\ [](NoResetWhileTicking /\ SessionBounded /\ MutationWithinWindow /\ MelodyIsHeard)
            /\ [](EventsInOrder /\ SuspendedOnlyAtRest /\ LongPressOnTime)
            /\ LostTimeAtHourCarries /\ SafeStateForQuickBoots
            /\ ImplementsStore /\ FramesAdvance /\ ImplementsFifo
<1>1. WatchdogInv => NoResetWhileTicking
  BY WatchdogInvIsSafe
<1>2. PressInv => EventsInOrder /\ SuspendedOnlyAtRest /\ LongPressOnTime
  BY PressInvIsSafe
<1>3. MCSpec => [](NoResetWhileTicking /\ EventsInOrder /\ SuspendedOnlyAtRest /\ LongPressOnTime)
  BY <1>1, <1>2, ServicesAreServices, PTL
<1>4. MCSpec => []SessionBounded /\ []MutationWithinWindow /\ []MelodyIsHeard
  BY ServicesAreServices, SessionsEnd, MutationNeedsPress, MelodiesAreHeard
<1>5. MCSpec => LostTimeAtHourCarries /\ SafeStateForQuickBoots
  BY ServicesAreServices, HeartbeatIsMisled, QuickBootsAreCaught
<1>6. MCSpec => ImplementsStore /\ FramesAdvance /\ ImplementsFifo
  BY ServicesAreServices, TransferIsWhole, AcceptedFramesAdvance, RingImplementsFifo
<1>7. QED
  BY <1>3, <1>4, <1>5, <1>6, PTL
=============================================================================
