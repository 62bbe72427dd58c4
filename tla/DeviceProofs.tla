----------------------------- MODULE DeviceProofs -----------------------------
(***************************************************************************)
(* Proofs about the two devices that the main loop shares with an          *)
(* interrupt.  The UART, for every width of the tick counter and every     *)
(* timeout it can measure: its types, that a session is bounded, and that  *)
(* the shell changes things only within the window of a press.  The        *)
(* buzzer, for all melodies: its types, and that a melody is heard as it   *)
(* is written.                                                             *)
(***************************************************************************)
EXTENDS UartSession, Buzzer, TLAPS

-----------------------------------------------------------------------------
(* The UART.                                                               *)

LEMMA UartConstants ==
  /\ FastTickModulus \in Nat \ {0} /\ IdleTimeout \in Nat \ {0} /\ AuthWindow \in Nat \ {0}
  /\ PassTicks \in Nat \ {0}
  /\ FastTickModulus > IdleTimeout + PassTicks
  /\ FastTickModulus > AuthWindow + PassTicks
  BY UartSessionAssumption

(* The tick counter shows now what it showed at from, age ticks later.     *)
Later(now, from, age) ==
  age < FastTickModulus /\ (now = from + age \/ now + FastTickModulus = from + age)

(* The counter's next value is one tick later for every earlier one that   *)
(* is less than its range ago.                                             *)
LEMMA NextIsLater ==
  ASSUME NEW now \in 0 .. FastTickModulus - 1
  PROVE  /\ (now + 1) % FastTickModulus \in 0 .. FastTickModulus - 1
         /\ \A from \in 0 .. FastTickModulus - 1, age \in Nat :
              Later(now, from, age) /\ age + 1 < FastTickModulus
                => Later((now + 1) % FastTickModulus, from, age + 1)
<1>1. CASE now + 1 < FastTickModulus
  <2>1. (now + 1) % FastTickModulus = now + 1
    BY <1>1, UartConstants
  <2>2. QED
    BY <1>1, <2>1, UartConstants DEF Later
<1>2. CASE now + 1 = FastTickModulus
  <2>1. (now + 1) % FastTickModulus = 0
    BY <1>2, UartConstants
  <2>2. QED
    BY <1>2, <2>1, UartConstants DEF Later
<1>3. QED
  BY <1>1, <1>2, UartConstants

(* The 16-bit difference is the age.                                       *)
LEMMA WrappedDifference ==
  ASSUME NEW now \in 0 .. FastTickModulus - 1, NEW from \in 0 .. FastTickModulus - 1,
         NEW age \in Nat, Later(now, from, age)
  PROVE  (now + FastTickModulus - from) % FastTickModulus = age
<1>1. CASE now = from + age
  <2>1. now + FastTickModulus - from = age + FastTickModulus
    BY <1>1, UartConstants
  <2>2. (age + FastTickModulus) % FastTickModulus = age
    BY UartConstants DEF Later
  <2>3. QED
    BY <2>1, <2>2
<1>2. CASE now + FastTickModulus = from + age
  <2>1. now + FastTickModulus - from = age
    BY <1>2, UartConstants
  <2>2. age % FastTickModulus = age
    BY UartConstants DEF Later
  <2>3. QED
    BY <2>1, <2>2
<1>3. QED
  BY <1>1, <1>2 DEF Later

-----------------------------------------------------------------------------
(* The types, one variable at a time, UartFlags apart.                      *)
UartFlags ==
  /\ session \in BOOLEAN /\ preference \in BOOLEAN /\ powered \in BOOLEAN
  /\ pressed \in BOOLEAN /\ mayMutate \in BOOLEAN /\ early \in BOOLEAN

UartRanges ==
  /\ fastTicks \in 0 .. FastTickModulus - 1 /\ lastActivity \in 0 .. FastTickModulus - 1
  /\ startedAt \in 0 .. FastTickModulus - 1
  /\ lag \in 0 .. PassTicks
  /\ idleFor \in Nat /\ heldFor \in Nat

UartTyped == UartFlags /\ UartRanges /\ powered = session

(* What the counter shows of a session's last activity and of a press is   *)
(* their true age: both are looked at before the counter can come round.   *)
SessionIsMeasured ==
  /\ session => idleFor < IdleTimeout + lag /\ Later(fastTicks, lastActivity, idleFor)
  /\ ~early

PressIsMeasured ==
  /\ pressed => heldFor < AuthWindow + lag /\ Later(fastTicks, startedAt, heldFor)
  /\ mayMutate => pressed

UartInv == UartTyped /\ SessionIsMeasured /\ PressIsMeasured

LEMMA UartInvIsSafe == UartInv => UartTypeOK /\ SessionBounded /\ MutationWithinWindow
  BY DEF UartInv, UartTyped, UartFlags, UartRanges, SessionIsMeasured, PressIsMeasured,
     UartTypeOK,
         SessionBounded, MutationWithinWindow

LEMMA UartInitInv == UartInit => UartInv
<1> SUFFICES ASSUME UartInit PROVE UartInv
  OBVIOUS
<1>1. UartFlags
  BY Zenon DEF UartInit, UartFlags
<1>2. UartRanges
  BY UartConstants DEF UartInit, UartRanges
<1>3. powered = session /\ SessionIsMeasured /\ PressIsMeasured
  BY Zenon DEF UartInit, SessionIsMeasured, PressIsMeasured
<1>4. QED
  BY <1>1, <1>2, <1>3 DEF UartInv, UartTyped

LEMMA TickKeeps ==
  ASSUME UartInv, Tick PROVE UartInv'
<1> USE DEF UartInv, UartTyped
<1>1. UartFlags' /\ powered' = session'
  BY Zenon DEF Tick, UartFlags
<1>2. /\ fastTicks \in 0 .. FastTickModulus - 1 /\ lastActivity \in 0 .. FastTickModulus - 1
      /\ startedAt \in 0 .. FastTickModulus - 1 /\ lag \in 0 .. PassTicks
      /\ idleFor \in Nat /\ heldFor \in Nat
      /\ lag < PassTicks /\ lag' = lag + 1
      /\ fastTicks' = (fastTicks + 1) % FastTickModulus
      /\ lastActivity' = lastActivity /\ startedAt' = startedAt
  BY DEF Tick, UartRanges
<1>3. /\ fastTicks' \in 0 .. FastTickModulus - 1
      /\ \A from \in 0 .. FastTickModulus - 1, age \in Nat :
           Later(fastTicks, from, age) /\ age + 1 < FastTickModulus
             => Later(fastTicks', from, age + 1)
  BY <1>2, NextIsLater
<1>4. idleFor' \in Nat /\ heldFor' \in Nat
  BY <1>2 DEF Tick
<1>5. UartRanges'
  BY <1>2, <1>3, <1>4, UartConstants DEF UartRanges
<1>6. ASSUME session
      PROVE  idleFor' < IdleTimeout + lag' /\ Later(fastTicks', lastActivity', idleFor')
  <2>1. idleFor' = idleFor + 1 /\ idleFor < IdleTimeout + lag
        /\ Later(fastTicks, lastActivity, idleFor)
    BY <1>6 DEF Tick, SessionIsMeasured
  <2>2. idleFor + 1 < FastTickModulus
    BY <1>2, <2>1, UartConstants
  <2>3. QED
    BY <1>2, <1>3, <2>1, <2>2, UartConstants
<1>7. ASSUME pressed
      PROVE  heldFor' < AuthWindow + lag' /\ Later(fastTicks', startedAt', heldFor')
  <2>1. heldFor' = heldFor + 1 /\ heldFor < AuthWindow + lag
        /\ Later(fastTicks, startedAt, heldFor)
    BY <1>7 DEF Tick, PressIsMeasured
  <2>2. heldFor + 1 < FastTickModulus
    BY <1>2, <2>1, UartConstants
  <2>3. QED
    BY <1>2, <1>3, <2>1, <2>2, UartConstants
<1>8. session' = session /\ early' = early /\ pressed' = pressed /\ mayMutate' = mayMutate
  BY DEF Tick
<1>9. SessionIsMeasured'
  BY <1>6, <1>8, Zenon DEF SessionIsMeasured
<1>10. PressIsMeasured'
  BY <1>7, <1>8, Zenon DEF PressIsMeasured
<1>11. QED
  BY <1>1, <1>5, <1>9, <1>10

-----------------------------------------------------------------------------
(* What a pass makes of the press, whatever event it has taken.            *)
PressTypes ==
  /\ pressed \in BOOLEAN /\ mayMutate \in BOOLEAN
  /\ startedAt \in 0 .. FastTickModulus - 1 /\ heldFor \in Nat

PressOfAPass ==
  pressed => heldFor < AuthWindow /\ Later(fastTicks, startedAt, heldFor)

LEMMA RevokeEnds ==
  ASSUME Revoke
  PROVE  PressTypes' /\ PressOfAPass' /\ (mayMutate' => pressed')
<1>1. startedAt' \in 0 .. FastTickModulus - 1 /\ heldFor' \in Nat
  BY UartConstants DEF Revoke
<1>2. QED
  BY <1>1, Zenon DEF Revoke, PressTypes, PressOfAPass

LEMMA AuthorizeMeasures ==
  ASSUME NEW held \in BOOLEAN, NEW start \in 0 .. FastTickModulus - 1, NEW age \in Nat,
         fastTicks \in 0 .. FastTickModulus - 1, UNCHANGED fastTicks,
         held => Later(fastTicks, start, age),
         Authorize(held, start, age)
  PROVE  PressTypes' /\ PressOfAPass' /\ (mayMutate' => pressed')
<1>1. CASE ~held \/ WindowOver(start)
  BY <1>1, RevokeEnds DEF Authorize
<1>2. CASE held /\ ~WindowOver(start)
  <2>1. age < AuthWindow
    <3>1. (fastTicks + FastTickModulus - start) % FastTickModulus = age
      BY <1>2, WrappedDifference
    <3>2. QED
      BY <1>2, <3>1, UartConstants DEF WindowOver
  <2>2. pressed' = TRUE /\ startedAt' = start /\ mayMutate' = TRUE /\ heldFor' = age
    BY <1>2 DEF Authorize
  <2>3. PressTypes'
    BY <2>2 DEF PressTypes
  <2>4. Later(fastTicks', startedAt', heldFor')
    BY <1>2, <2>2
  <2>5. QED
    BY <2>1, <2>2, <2>3, <2>4 DEF PressOfAPass
<1>3. QED
  BY <1>1, <1>2

LEMMA ObserveAuthKeeps ==
  ASSUME UartInv, NEW event \in {"down", "up", "other"}, ObserveAuth(event), UNCHANGED fastTicks,
         lag' = 0
  PROVE  PressTypes' /\ PressIsMeasured'
<1>1. /\ pressed \in BOOLEAN /\ startedAt \in 0 .. FastTickModulus - 1 /\ heldFor \in Nat
      /\ fastTicks \in 0 .. FastTickModulus - 1
      /\ pressed => Later(fastTicks, startedAt, heldFor)
  BY DEF UartInv, UartTyped, UartFlags, UartRanges, PressIsMeasured
<1>2. PressTypes' /\ PressOfAPass' /\ (mayMutate' => pressed')
  <2>1. CASE event = "down"
    <3>1. Authorize(TRUE, fastTicks, 0)
      BY <2>1, Zenon DEF ObserveAuth
    <3>2. Later(fastTicks, fastTicks, 0)
      BY <1>1, UartConstants DEF Later
    <3>3. QED
      BY <1>1, <3>1, <3>2, AuthorizeMeasures
  <2>2. CASE event = "up"
    BY <2>2, RevokeEnds DEF ObserveAuth
  <2>3. CASE event = "other"
    <3>1. Authorize(pressed, startedAt, heldFor)
      BY <2>3 DEF ObserveAuth
    <3>2. QED
      BY <1>1, <3>1, AuthorizeMeasures
  <2>4. QED
    BY <2>1, <2>2, <2>3
<1>3. QED
  <2>1. pressed' => heldFor' < AuthWindow + lag'
    BY <1>2, UartConstants DEF PressTypes, PressOfAPass
  <2>2. QED
    BY <1>2, <2>1, Zenon DEF PressOfAPass, PressIsMeasured

-----------------------------------------------------------------------------
(* What a pass makes of the session.                                       *)
SessionTypes ==
  /\ session \in BOOLEAN /\ preference \in BOOLEAN /\ powered \in BOOLEAN
  /\ early \in BOOLEAN /\ powered = session
  /\ lastActivity \in 0 .. FastTickModulus - 1 /\ idleFor \in Nat

(* A session that is kept was used within the timeout, and one that is cut *)
(* was not, unless the counter has come round.                             *)
LEMMA TimeoutIsTrue ==
  ASSUME UartInv, session
  PROVE  /\ ~TimedOut => idleFor < IdleTimeout
         /\ TimedOut => ~(idleFor < IdleTimeout /\ fastTicks >= lastActivity)
<1>1. /\ fastTicks \in 0 .. FastTickModulus - 1 /\ lastActivity \in 0 .. FastTickModulus - 1
      /\ idleFor \in Nat /\ Later(fastTicks, lastActivity, idleFor)
  BY DEF UartInv, UartTyped, UartRanges, SessionIsMeasured
<1>2. QED
  BY <1>1, UartConstants DEF Later, TimedOut

LEMMA ObservePollKeeps ==
  ASSUME UartInv, session, NEW hadInput \in BOOLEAN, ObservePoll(hadInput), UNCHANGED fastTicks,
         lag' = 0
  PROVE  SessionTypes' /\ SessionIsMeasured'
<1>1. /\ fastTicks \in 0 .. FastTickModulus - 1 /\ lastActivity \in 0 .. FastTickModulus - 1
      /\ idleFor \in Nat /\ Later(fastTicks, lastActivity, idleFor)
  BY DEF UartInv, UartTyped, UartRanges, SessionIsMeasured
<1>2. SessionTypes /\ ~early
  BY Zenon DEF UartInv, UartTyped, UartFlags, UartRanges, SessionIsMeasured, SessionTypes
<1>3. CASE hadInput /\ lastActivity' = fastTicks /\ idleFor' = 0
           /\ UNCHANGED <<session, preference, powered, early>>
  <2>1. lastActivity' \in 0 .. FastTickModulus - 1 /\ idleFor' \in Nat
    BY <1>1, <1>3
  <2>2. idleFor' < IdleTimeout + lag' /\ Later(fastTicks', lastActivity', idleFor')
    BY <1>1, <1>3, UartConstants DEF Later
  <2>3. QED
    BY <1>2, <1>3, <2>1, <2>2, Zenon DEF SessionTypes, SessionIsMeasured
<1>4. CASE ~TimedOut /\ UNCHANGED sessionVars
  <2>1. UNCHANGED <<session, lastActivity, preference, powered, idleFor, early>>
    BY <1>4 DEF sessionVars
  <2>2. idleFor' < IdleTimeout + lag' /\ Later(fastTicks', lastActivity', idleFor')
    BY <1>1, <1>4, <2>1, TimeoutIsTrue, UartConstants
  <2>3. QED
    BY <1>2, <2>1, <2>2, Zenon DEF SessionTypes, SessionIsMeasured
<1>5. CASE /\ TimedOut
           /\ session' = FALSE /\ preference' = FALSE /\ powered' = FALSE /\ idleFor' = 0
           /\ early' = (early \/ (idleFor < IdleTimeout /\ fastTicks >= lastActivity))
           /\ UNCHANGED lastActivity
  <2>1. ~(idleFor < IdleTimeout /\ fastTicks >= lastActivity)
    BY <1>5, TimeoutIsTrue
  <2>2. early' \in BOOLEAN /\ ~early'
    BY <1>2, <1>5, <2>1, Zenon
  <2>3. idleFor' \in Nat /\ lastActivity' \in 0 .. FastTickModulus - 1
    BY <1>1, <1>5
  <2>4. QED
    BY <1>5, <2>2, <2>3, Zenon DEF SessionTypes, SessionIsMeasured
<1>6. QED
  BY <1>3, <1>4, <1>5, Zenon DEF ObservePoll

LEMMA PassKeepsTheRest ==
  ASSUME UartInv, UNCHANGED fastTicks, lag' = 0,
         PressTypes' /\ PressIsMeasured', SessionTypes' /\ SessionIsMeasured'
  PROVE  UartInv'
<1>1. fastTicks' \in 0 .. FastTickModulus - 1 /\ lag' \in 0 .. PassTicks
  BY UartConstants DEF UartInv, UartTyped, UartRanges
<1>2. UartFlags' /\ powered' = session'
  BY Zenon DEF PressTypes, SessionTypes, UartFlags
<1>3. UartRanges'
  BY <1>1, Zenon DEF PressTypes, SessionTypes, UartRanges
<1>4. QED
  BY <1>2, <1>3 DEF UartInv, UartTyped

LEMMA PassOnlyKeeps ==
  ASSUME UartInv, NEW event \in {"down", "up", "other"}, NEW hadInput \in BOOLEAN,
         PassOnly(event, hadInput)
  PROVE  UartInv'
<1>1. ObserveAuth(event) /\ UNCHANGED fastTicks /\ lag' = 0
  BY DEF PassOnly
<1>2. SessionTypes' /\ SessionIsMeasured'
  <2>1. CASE session
    BY <1>1, <2>1, ObservePollKeeps DEF PassOnly
  <2>2. CASE ~session
    <3>1. UNCHANGED <<session, lastActivity, preference, powered, idleFor, early>>
      BY <2>2 DEF PassOnly, sessionVars
    <3>2. QED
      BY <2>2, <3>1, Zenon
         DEF UartInv, UartTyped, UartFlags, UartRanges, SessionTypes, SessionIsMeasured
  <2>3. QED
    BY <2>1, <2>2
<1>3. QED
  BY <1>1, <1>2, ObserveAuthKeeps, PassKeepsTheRest

LEMMA PassEnablingKeeps ==
  ASSUME UartInv, NEW event \in {"down", "up", "other"}, PassEnabling(event)
  PROVE  UartInv'
<1>1. ObserveAuth(event) /\ UNCHANGED fastTicks /\ lag' = 0
  BY DEF PassEnabling
<1>2. lastActivity' \in 0 .. FastTickModulus - 1 /\ idleFor' \in Nat
      /\ idleFor' < IdleTimeout + lag' /\ Later(fastTicks', lastActivity', idleFor')
  BY UartConstants DEF PassEnabling, UartInv, UartTyped, UartRanges, Later
<1>3. SessionTypes' /\ SessionIsMeasured'
  BY <1>2, Zenon
     DEF PassEnabling, UartInv, UartTyped, UartFlags, SessionTypes, SessionIsMeasured
<1>4. QED
  BY <1>1, <1>3, ObserveAuthKeeps, PassKeepsTheRest

LEMMA PassDisablingKeeps ==
  ASSUME UartInv, NEW event \in {"down", "up", "other"}, PassDisabling(event)
  PROVE  UartInv'
<1>1. ObserveAuth(event) /\ UNCHANGED fastTicks /\ lag' = 0
  BY DEF PassDisabling
<1>2. lastActivity' \in 0 .. FastTickModulus - 1 /\ idleFor' \in Nat
  BY UartConstants DEF PassDisabling
<1>3. SessionTypes' /\ SessionIsMeasured'
  BY <1>2, Zenon
     DEF PassDisabling, UartInv, UartTyped, UartFlags, SessionTypes, SessionIsMeasured
<1>4. QED
  BY <1>1, <1>3, ObserveAuthKeeps, PassKeepsTheRest

LEMMA UartResetKeeps ==
  ASSUME UartInv, UartReset PROVE UartInv'
<1>1. /\ fastTicks' \in 0 .. FastTickModulus - 1 /\ lastActivity' \in 0 .. FastTickModulus - 1
      /\ startedAt' \in 0 .. FastTickModulus - 1 /\ lag' \in 0 .. PassTicks
      /\ idleFor' \in Nat /\ heldFor' \in Nat
  BY UartConstants DEF UartReset, Revoke
<1>2. UartRanges'
  BY <1>1 DEF UartRanges
<1>3. UartFlags' /\ powered' = session' /\ SessionIsMeasured' /\ PressIsMeasured'
  BY Zenon DEF UartReset, Revoke, UartInv, UartTyped, UartFlags, SessionIsMeasured,
     PressIsMeasured
<1>4. QED
  BY <1>2, <1>3 DEF UartInv, UartTyped

LEMMA UartNextInv == UartInv /\ [UartNext]_uartVars => UartInv'
<1> SUFFICES ASSUME UartInv, [UartNext]_uartVars PROVE UartInv'
  OBVIOUS
<1>1. CASE UNCHANGED uartVars
  BY <1>1 DEF uartVars, authVars, sessionVars, UartInv, UartTyped, UartFlags, UartRanges,
              SessionIsMeasured, PressIsMeasured, Later
<1>2. CASE Pass
  BY <1>2, PassOnlyKeeps, PassEnablingKeeps, PassDisablingKeeps DEF Pass
<1>3. QED
  BY <1>1, <1>2, TickKeeps, UartResetKeeps DEF UartNext

-----------------------------------------------------------------------------
(* A live session was used within the timeout as of the last pass, and is  *)
(* cut early only when the counter has wrapped under it (SessionBounded).  *)
THEOREM SessionsEnd == UartSpec => []SessionBounded
<1>1. UartInv => SessionBounded
  BY UartInvIsSafe
<1>2. QED
  BY <1>1, UartInitInv, UartNextInv, PTL DEF UartSpec

(* The shell changes things only within the window of a press, however     *)
(* often the counter wraps (MutationWithinWindow).                         *)
THEOREM MutationNeedsPress == UartSpec => []MutationWithinWindow
<1>1. UartInv => MutationWithinWindow
  BY UartInvIsSafe
<1>2. QED
  BY <1>1, UartInitInv, UartNextInv, PTL DEF UartSpec

(* The types and ranges hold in every state (UartTypeOK).                  *)
THEOREM UartTypes == UartSpec => []UartTypeOK
<1>1. UartInv => UartTypeOK
  BY UartInvIsSafe
<1>2. QED
  BY <1>1, UartInitInv, UartNextInv, PTL DEF UartSpec

-----------------------------------------------------------------------------
(* The buzzer.                                                             *)

(* A melody that the buzzer accepts.                                       *)
Valid(m) == m \in Melodies /\ ValidSequence(m)

(* Every pair of it has a note and a duration; those before the end are    *)
(* notes or markers with a duration above zero.                            *)
LEMMA ValidMelody ==
  ASSUME NEW m, Valid(m)
  PROVE  /\ Len(m) \in Nat /\ DOMAIN m = 1 .. Len(m)
         /\ \A i \in 1 .. Len(m) : m[i].note \in Signed /\ m[i].duration \in Signed
         /\ End(m) \in 1 .. Len(m) /\ m[End(m)].note = 0
         /\ \A i \in 1 .. End(m) - 1 :
              /\ m[i].note # 0 /\ m[i].duration \in 1 .. 127
              /\ m[i].note < 0 => i > 1
              /\ m[i].note >= 0 => m[i].note \in 1 .. Notes - 1
<1> DEFINE Pairs == [note : Signed, duration : Signed] \cup [note : Signed]
<1>1. m \in Seq(Pairs) /\ ValidSequence(m)
  BY BuzzerAssumption DEF Valid
<1>2. Len(m) \in Nat /\ DOMAIN m = 1 .. Len(m) /\ \A i \in 1 .. Len(m) : m[i] \in Pairs
  <2> HIDE DEF Pairs
  <2>1. QED
    BY <1>1
<1>3. \A i \in 1 .. Len(m) : m[i].note \in Signed /\ m[i].duration \in Signed
  <2> SUFFICES ASSUME NEW i \in 1 .. Len(m)
               PROVE  m[i].note \in Signed /\ m[i].duration \in Signed
    OBVIOUS
  <2>1. m[i] \in Pairs /\ "duration" \in DOMAIN m[i]
    BY <1>1, <1>2 DEF ValidSequence, EvenLength
  <2>2. QED
    BY <2>1
<1>4. PICK end \in 1 .. Len(m) :
        m[end].note = 0 /\ \A i \in 1 .. end - 1 : m[i].note # 0 /\ ValidPair(m[i], i)
  BY <1>1 DEF ValidSequence
<1>5. End(m) \in 1 .. Len(m) /\ m[End(m)].note = 0 /\ \A i \in 1 .. End(m) - 1 : m[i].note # 0
  BY <1>4 DEF End
<1>6. End(m) = end
  BY <1>2, <1>4, <1>5
<1>7. ASSUME NEW i \in 1 .. End(m) - 1
      PROVE  /\ m[i].note # 0 /\ m[i].duration \in 1 .. 127
             /\ m[i].note < 0 => i > 1
             /\ m[i].note >= 0 => m[i].note \in 1 .. Notes - 1
  <2>1. i \in 1 .. Len(m) /\ i \in 1 .. end - 1
    BY <1>2, <1>4, <1>6
  <2>2. m[i].note # 0 /\ ValidPair(m[i], i)
    BY <1>4, <2>1
  <2>3. m[i].note \in Signed /\ m[i].duration \in Signed
    BY <1>3, <2>1
  <2> DEFINE note == m[i].note
             duration == m[i].duration
  <2>4. \/ note < 0 /\ -note <= i - 1 /\ duration > 0
        \/ note \in 1 .. Notes - 1 /\ duration > 0
    BY <2>2 DEF ValidPair
  <2>5. note \in -128 .. 127 /\ duration \in -128 .. 127
    BY <2>3 DEF Signed
  <2> HIDE DEF note, duration
  <2>6. duration \in 1 .. 127 /\ (note < 0 => i > 1) /\ (note >= 0 => note \in 1 .. Notes - 1)
    BY <2>4, <2>5, BuzzerAssumption
  <2>7. QED
    BY <2>2, <2>6 DEF note, duration
<1>8. QED
  BY <1>2, <1>3, <1>5, <1>7

(* The place of a melody's i-th pair, in the pass after k others.          *)
LEMMA Remainder ==
  ASSUME NEW n \in Nat \ {0}, NEW k \in Nat, NEW r \in 0 .. n - 1
  PROVE  (k * n + r) % n = r
<1> DEFINE a == k * n + r
           q == a \div n
           e == a % n
<1>1. a \in Nat
  OBVIOUS
<1>2. q \in Int /\ e \in 0 .. n - 1 /\ a = n * q + e
  <2> HIDE DEF a
  <2>1. QED
    BY <1>1
<1>3. n * (k - q) = e - r /\ k - q \in Int
  <2> HIDE DEF q, e
  <2>1. n * (k - q) = n * k - n * q
    BY <1>2
  <2>2. QED
    BY <1>2, <2>1
<1> DEFINE d == k - q
<1>4. d \in Int /\ n * d = e - r
  BY <1>3
<1> HIDE DEF q, e, d
<1>5. \A x \in Int : (x >= 1 => n * x >= n) /\ (x <= -1 => n * x <= -n)
  OBVIOUS
<1>6. d = 0
  BY <1>2, <1>4, <1>5
<1>7. e = r
  BY <1>2, <1>4, <1>6
<1>8. QED
  BY <1>7 DEF e

(* A part repeated.                                                        *)
LEMMA RepeatedValue ==
  ASSUME NEW S, NEW part \in Seq(S), Len(part) > 0, NEW times \in Nat
  PROVE  /\ Repeated(part, times) \in Seq(S)
         /\ Len(Repeated(part, times)) = times * Len(part)
         /\ \A k \in 0 .. times - 1, p \in 1 .. Len(part) :
              /\ k * Len(part) + p \in 1 .. times * Len(part)
              /\ Repeated(part, times)[k * Len(part) + p] = part[p]
<1> DEFINE n == Len(part)
           all == times * n
<1>1. n \in Nat \ {0} /\ all \in Nat
  OBVIOUS
<1>2. \A i \in 1 .. all : 1 + ((i - 1) % n) \in 1 .. n
  <2> HIDE DEF n, all
  <2>1. QED
    BY <1>1
<1>3. Repeated(part, times) = [i \in 1 .. all |-> part[1 + ((i - 1) % n)]]
  BY DEF Repeated
<1>4. \A i \in 1 .. n : part[i] \in S
  OBVIOUS
<1>5. Repeated(part, times) \in Seq(S) /\ Len(Repeated(part, times)) = all
  <2> HIDE DEF n, all
  <2>1. \A i \in 1 .. all : part[1 + ((i - 1) % n)] \in S
    BY <1>2, <1>4
  <2>2. QED
    BY <1>1, <1>3, <2>1
<1>6. ASSUME NEW k \in 0 .. times - 1, NEW p \in 1 .. n
      PROVE  k * n + p \in 1 .. all /\ Repeated(part, times)[k * n + p] = part[p]
  <2> HIDE DEF n
  <2>1. k * n \in Nat /\ k \in Nat /\ (k + 1) * n = k * n + n
    BY <1>1
  <2>2. \A x \in Nat : x <= times => x * n <= times * n
    BY <1>1
  <2>3. (k + 1) * n <= all
    BY <2>1, <2>2
  <2>4. k * n + p \in 1 .. all
    BY <1>1, <2>1, <2>3
  <2>5. (k * n + p) - 1 = k * n + (p - 1) /\ p - 1 \in 0 .. n - 1
    BY <1>1, <2>1
  <2>6. (k * n + (p - 1)) % n = p - 1
    BY <1>1, <2>1, <2>5, Remainder
  <2> HIDE DEF all
  <2>7. Repeated(part, times)[k * n + p] = part[1 + (((k * n + p) - 1) % n)]
    BY <1>3, <2>4
  <2>8. 1 + (((k * n + p) - 1) % n) = p
    BY <2>5, <2>6
  <2>9. QED
    BY <2>4, <2>7, <2>8
<1>7. QED
  BY <1>5, <1>6

(* A melody without a marker is heard up to its end.                       *)
LEMMA UnrolledPlain ==
  ASSUME NEW m, Valid(m), Markers(m) = {}
  PROVE  /\ Unrolled(m) \in Seq([note : Signed, duration : Signed] \cup [note : Signed])
         /\ Len(Unrolled(m)) = End(m) - 1
         /\ \A i \in 1 .. End(m) - 1 : Unrolled(m)[i] = m[i]
<1> DEFINE Pairs == [note : Signed, duration : Signed] \cup [note : Signed]
<1>1. m \in Seq(Pairs) /\ End(m) \in 1 .. Len(m)
  BY ValidMelody, BuzzerAssumption DEF Valid
<1>2. Unrolled(m) = SubSeq(m, 1, End(m) - 1)
  BY DEF Unrolled
<1> HIDE DEF Pairs
<1>3. /\ SubSeq(m, 1, End(m) - 1) \in Seq(Pairs)
      /\ Len(SubSeq(m, 1, End(m) - 1)) = End(m) - 1
      /\ \A i \in 1 .. End(m) - 1 : SubSeq(m, 1, End(m) - 1)[i] = m[i]
  BY <1>1
<1>4. QED
  BY <1>2, <1>3 DEF Pairs

(* One with a marker: what precedes the marker as often as its duration    *)
(* and once more, then what follows.                                       *)
LEMMA UnrolledRepeats ==
  ASSUME NEW m, Valid(m), NEW marker \in Markers(m), \A i, j \in Markers(m) : i = j
  PROVE  LET before == marker - 1
             times == m[marker].duration + 1
         IN /\ before \in Nat \ {0} /\ times \in Nat \ {0, 1} /\ marker \in 1 .. End(m) - 1
            /\ Unrolled(m) \in Seq([note : Signed, duration : Signed] \cup [note : Signed])
            /\ times * before \in Nat
            /\ Len(Unrolled(m)) = times * before + (End(m) - 1 - marker)
            /\ \A k \in 0 .. times - 1, p \in 1 .. before :
                 /\ k * before + p \in 1 .. times * before
                 /\ Unrolled(m)[k * before + p] = m[p]
            /\ \A i \in 1 .. End(m) - 1 - marker :
                 Unrolled(m)[times * before + i] = m[marker + i]
<1> DEFINE Pairs == [note : Signed, duration : Signed] \cup [note : Signed]
           before == marker - 1
           times == m[marker].duration + 1
           rest == End(m) - 1 - marker
           head == SubSeq(m, 1, before)
           tail == SubSeq(m, marker + 1, End(m) - 1)
           repeats == Repeated(head, times)
<1>1. m \in Seq(Pairs) /\ End(m) \in 1 .. Len(m)
  BY ValidMelody, BuzzerAssumption DEF Valid
<1>2. marker \in 1 .. End(m) - 1 /\ m[marker].note < 0
  BY DEF Markers
<1>3. marker > 1 /\ m[marker].duration \in 1 .. 127
  BY <1>2, ValidMelody
<1>4. before \in Nat \ {0} /\ times \in Nat \ {0, 1} /\ rest \in Nat
  <2> DEFINE duration == m[marker].duration
             length == Len(m)
  <2>1. duration \in 1 .. 127 /\ marker > 1 /\ marker \in 1 .. End(m) - 1
        /\ End(m) \in 1 .. length /\ length \in Nat
    BY <1>1, <1>2, <1>3
  <2> HIDE DEF duration, length
  <2>2. before \in Nat \ {0} /\ rest \in Nat /\ duration + 1 \in Nat \ {0, 1}
    BY <2>1
  <2>3. QED
    BY <2>2 DEF duration
<1>5. Unrolled(m) = repeats \o tail
  <2>1. Markers(m) # {} /\ (CHOOSE i \in Markers(m) : TRUE) = marker
    OBVIOUS
  <2>2. QED
    BY <2>1 DEF Unrolled
<1> HIDE DEF Pairs
<1>6. head \in Seq(Pairs) /\ Len(head) = before /\ \A p \in 1 .. before : head[p] = m[p]
  BY <1>1, <1>2, <1>4
<1>7. tail \in Seq(Pairs) /\ Len(tail) = rest /\ \A i \in 1 .. rest : tail[i] = m[marker + i]
  BY <1>1, <1>2, <1>4
<1> HIDE DEF before, times, rest, head, tail
<1>8. /\ repeats \in Seq(Pairs) /\ Len(repeats) = times * before
      /\ \A k \in 0 .. times - 1, p \in 1 .. before :
           k * before + p \in 1 .. times * before /\ repeats[k * before + p] = head[p]
  <2>1. head \in Seq(Pairs) /\ Len(head) = before /\ Len(head) > 0 /\ times \in Nat
    BY <1>4, <1>6
  <2>2. /\ Repeated(head, times) \in Seq(Pairs)
        /\ Len(Repeated(head, times)) = times * Len(head)
        /\ \A k \in 0 .. times - 1, p \in 1 .. Len(head) :
             /\ k * Len(head) + p \in 1 .. times * Len(head)
             /\ Repeated(head, times)[k * Len(head) + p] = head[p]
    BY <2>1, RepeatedValue
  <2> HIDE DEF repeats
  <2>3. repeats = Repeated(head, times)
    BY DEF repeats
  <2>4. QED
    BY <2>1, <2>2, <2>3
<1> DEFINE all == times * before
<1>9. all \in Nat
  BY <1>4
<1> HIDE DEF repeats, all
<1>10. /\ repeats \o tail \in Seq(Pairs) /\ Len(repeats \o tail) = all + rest
       /\ \A i \in 1 .. all : (repeats \o tail)[i] = repeats[i]
       /\ \A i \in 1 .. rest : (repeats \o tail)[all + i] = tail[i]
  <2>1. Len(repeats) = all
    BY <1>8 DEF all
  <2>2. QED
    BY <1>4, <1>7, <1>8, <1>9, <2>1
<1>11. ASSUME NEW k \in 0 .. times - 1, NEW p \in 1 .. before
       PROVE  k * before + p \in 1 .. all /\ Unrolled(m)[k * before + p] = m[p]
  <2>1. k * before + p \in 1 .. all /\ repeats[k * before + p] = m[p]
    BY <1>6, <1>8 DEF all
  <2>2. QED
    BY <1>5, <1>10, <2>1
<1>12. \A i \in 1 .. rest : Unrolled(m)[all + i] = m[marker + i]
  BY <1>5, <1>7, <1>10
<1>13. QED
  BY <1>2, <1>4, <1>5, <1>9, <1>10, <1>11, <1>12 DEF Pairs, before, times, rest, all

(* The melodies that say how they are to be heard.                         *)
OneMarker(m) == \A i, j \in Markers(m) : i = j

(* How many pairs have been played when the player comes to a position     *)
(* with a count: without a marker as many as precede it; else with k       *)
(* passes done before the present one, or with all of them.                *)
Played(m, at, count, n) ==
  \/ Markers(m) = {} /\ at \in 0 .. End(m) - 1 /\ count = -1 /\ n = at
  \/ \E marker \in Markers(m) :
       \/ \E k \in 0 .. m[marker].duration :
            /\ count = IF k = 0 THEN -1 ELSE (m[marker].duration + 1) - k
            /\ at \in 0 .. marker - 1 /\ n = k * (marker - 1) + at
       \/ /\ count = -1 /\ at \in marker .. End(m) - 1
          /\ n = (m[marker].duration + 1) * (marker - 1) + (at - marker)

(* A melody begins with nothing played.                                    *)
LEMMA PlayedNothing ==
  ASSUME NEW m, Valid(m)
  PROVE  Played(m, 0, -1, 0)
<1>1. End(m) \in Nat \ {0}
  BY ValidMelody
<1>2. CASE Markers(m) = {}
  BY <1>1, <1>2 DEF Played
<1>3. CASE Markers(m) # {}
  <2>1. PICK marker \in Markers(m) : TRUE
    BY <1>3
  <2> DEFINE duration == m[marker].duration
  <2>2. marker \in 1 .. End(m) - 1 /\ duration \in 1 .. 127
    BY ValidMelody DEF Markers
  <2> HIDE DEF duration
  <2>3. 0 \in 0 .. duration /\ 0 \in 0 .. marker - 1 /\ 0 = 0 * (marker - 1) + 0
    BY <1>1, <2>2
  <2>4. QED
    BY <2>3 DEF Played, duration
<1>4. QED
  BY <1>2, <1>3

(* The pair at a position is the next one of the unrolled melody.          *)
PairIsNext(m, at, count, n) ==
  /\ n + 1 \in 1 .. Len(Unrolled(m)) /\ Unrolled(m)[n + 1] = m[at + 1]
  /\ Played(m, at + 1, count, n + 1)

(* Off the markers, the pair at a position is the next one of the unrolled *)
(* melody, and at the end all of it has been played.                       *)
LEMMA PlayedNext ==
  ASSUME NEW m, Valid(m), OneMarker(m), NEW at \in Int, NEW count \in Int, NEW n \in Int,
         Played(m, at, count, n), at + 1 \notin Markers(m)
  PROVE  /\ at \in 0 .. End(m) - 1 /\ n \in 0 .. Len(Unrolled(m))
         /\ at + 1 = End(m) => n = Len(Unrolled(m))
         /\ at + 1 < End(m) => PairIsNext(m, at, count, n)
<1>1. End(m) \in Nat \ {0}
  BY ValidMelody
<1>2. CASE Markers(m) = {}
  <2>1. at \in 0 .. End(m) - 1 /\ count = -1 /\ n = at
    BY <1>2 DEF Played
  <2> DEFINE length == Len(Unrolled(m))
  <2>2. length = End(m) - 1 /\ \A i \in 1 .. End(m) - 1 : Unrolled(m)[i] = m[i]
    BY <1>2, UnrolledPlain
  <2>3. at + 1 < End(m) => Played(m, at + 1, count, n + 1)
    BY <1>1, <1>2, <2>1 DEF Played
  <2> HIDE DEF length
  <2>4. /\ n \in 0 .. length /\ (at + 1 = End(m) => n = length)
        /\ at + 1 < End(m) => n + 1 \in 1 .. length /\ n + 1 \in 1 .. End(m) - 1
    BY <1>1, <2>1, <2>2
  <2>5. QED
    BY <2>1, <2>2, <2>3, <2>4 DEF length, PairIsNext
<1>3. CASE Markers(m) # {}
  <2>1. PICK marker \in Markers(m) :
          \/ \E k \in 0 .. m[marker].duration :
               /\ count = IF k = 0 THEN -1 ELSE (m[marker].duration + 1) - k
               /\ at \in 0 .. marker - 1 /\ n = k * (marker - 1) + at
          \/ /\ count = -1 /\ at \in marker .. End(m) - 1
             /\ n = (m[marker].duration + 1) * (marker - 1) + (at - marker)
    BY <1>3 DEF Played
  <2> DEFINE before == marker - 1
             duration == m[marker].duration
             times == duration + 1
             all == times * before
             length == Len(Unrolled(m))
             rest == End(m) - 1 - marker
  <2>2. /\ before \in Nat \ {0} /\ times \in Nat \ {0, 1} /\ marker \in 1 .. End(m) - 1
        /\ all \in Nat /\ length = all + rest
        /\ \A k \in 0 .. times - 1, p \in 1 .. before :
             k * before + p \in 1 .. all /\ Unrolled(m)[k * before + p] = m[p]
        /\ \A i \in 1 .. rest : Unrolled(m)[all + i] = m[marker + i]
    BY UnrolledRepeats DEF OneMarker
  <2>3. duration \in Nat
    <3>1. duration \in 1 .. 127
      BY <2>2, ValidMelody
    <3>2. QED
      BY <3>1
  <2>4. rest \in Nat
    BY <1>1, <2>2
  <2>5. CASE \E k \in 0 .. duration :
               /\ count = IF k = 0 THEN -1 ELSE times - k
               /\ at \in 0 .. before /\ n = k * before + at
    <3>1. PICK k \in 0 .. duration :
               /\ count = IF k = 0 THEN -1 ELSE times - k
               /\ at \in 0 .. before /\ n = k * before + at
      BY <2>5
    <3> HIDE DEF all, length, rest, duration
    <3>2. at # before /\ at \in 0 .. before - 1
      <4>1. at + 1 # marker
        OBVIOUS
      <4>2. marker \in Nat /\ before = marker - 1 /\ at \in 0 .. before
        BY <1>1, <2>2, <3>1
      <4> HIDE DEF before
      <4>3. QED
        BY <4>1, <4>2
    <3>3. k \in 0 .. times - 1 /\ k * before \in Nat
      BY <2>2, <2>3, <3>1
    <3> DEFINE done == k * before
    <3>4. at + 1 \in 1 .. before /\ n + 1 = done + (at + 1)
      BY <2>2, <3>1, <3>2, <3>3
    <3>5. done + (at + 1) \in 1 .. all /\ Unrolled(m)[done + (at + 1)] = m[at + 1]
      BY <2>2, <3>3, <3>4
    <3>6. Played(m, at + 1, count, n + 1)
      BY <3>1, <3>4 DEF Played, duration
    <3> HIDE DEF done, times
    <3>7. at \in 0 .. End(m) - 1 /\ at + 1 < End(m)
      BY <1>1, <2>2, <3>2
    <3>8. n \in Nat /\ n + 1 \in 1 .. length
      BY <2>2, <2>4, <3>1, <3>2, <3>3, <3>4, <3>5 DEF done
    <3>9. n \in 0 .. length
      BY <2>2, <2>4, <3>8
    <3>10. QED
      BY <3>4, <3>5, <3>6, <3>7, <3>8, <3>9 DEF length, PairIsNext
  <2>6. CASE /\ count = -1 /\ at \in marker .. End(m) - 1
             /\ n = all + (at - marker)
    <3>1. at + 1 < End(m) => Played(m, at + 1, count, n + 1)
      <4>1. at + 1 < End(m) => at + 1 \in marker .. End(m) - 1
        <5>1. marker \in Nat /\ at \in marker .. End(m) - 1
          BY <1>1, <2>2, <2>6
        <5>2. QED
          BY <1>1, <5>1
      <4>2. n + 1 = all + ((at + 1) - marker)
        <5> HIDE DEF all
        <5>1. QED
          BY <1>1, <2>2, <2>6
      <4>3. QED
        BY <2>6, <4>1, <4>2 DEF Played
    <3> HIDE DEF all, length, before, times, duration
    <3> DEFINE i == (at + 1) - marker
    <3>2. at \in 0 .. End(m) - 1 /\ n \in 0 .. length /\ (at + 1 = End(m) => n = length)
          /\ n + 1 = all + i /\ marker + i = at + 1
          /\ (at + 1 < End(m) => i \in 1 .. rest /\ n + 1 \in 1 .. length)
      BY <1>1, <2>2, <2>6
    <3>3. at + 1 < End(m) => Unrolled(m)[n + 1] = m[at + 1]
      <4> HIDE DEF i, rest
      <4>1. QED
        BY <2>2, <3>2
    <3>4. QED
      BY <3>1, <3>2, <3>3 DEF length, PairIsNext
  <2>7. QED
    BY <2>1, <2>5, <2>6
<1>4. QED
  BY <1>2, <1>3

(* Where the player stands: no further than the end, with a count that     *)
(* says at least one more pass, or none.                                   *)
Stands == position \in 0 .. End(melody) - 1 /\ repeatCounter \in -1 .. 127

(* After a marker the player still stands before the end.                  *)
LEMMA PassMarkerStands ==
  ASSUME Valid(melody), Stands
  PROVE  PassMarker.position \in 0 .. End(melody) - 1 /\ PassMarker.count \in -1 .. 127
<1>1. /\ End(melody) \in 1 .. Len(melody) /\ Len(melody) \in Nat /\ melody[End(melody)].note = 0
      /\ \A i \in 1 .. End(melody) - 1 : melody[i].duration \in 1 .. 127
  BY ValidMelody
<1>2. CASE AtMarker
  <2>1. position + 1 \in 1 .. End(melody) - 1
    BY <1>1, <1>2 DEF AtMarker, Stands
  <2> DEFINE duration == melody[position + 1].duration
  <2>2. duration \in 1 .. 127 /\ Count = IF repeatCounter = -1 THEN duration ELSE repeatCounter - 1
    BY <1>1, <2>1 DEF Count
  <2> HIDE DEF duration
  <2>3. Count \in -1 .. 127
    BY <2>2 DEF Stands
  <2>4. QED
    BY <1>1, <1>2, <2>1, <2>3 DEF PassMarker, Stands
<1>3. CASE ~AtMarker
  BY <1>3 DEF PassMarker, Stands
<1>4. QED
  BY <1>2, <1>3

(* Passing a marker does not change what has been played.                  *)
LEMMA PassMarkerPlays ==
  ASSUME Valid(melody), OneMarker(melody), NEW n, Played(melody, position, repeatCounter, n)
  PROVE  /\ Played(melody, PassMarker.position, PassMarker.count, n)
         /\ PassMarker.position + 1 \notin Markers(melody)
<1> DEFINE m == melody
<1>1. /\ End(m) \in 1 .. Len(m) /\ Len(m) \in Nat /\ m[End(m)].note = 0
      /\ \A i \in 1 .. End(m) - 1 : m[i].duration \in 1 .. 127 /\ (m[i].note < 0 => i > 1)
  BY ValidMelody
<1>2. position \in 0 .. End(m) - 1
  <2>1. CASE Markers(m) = {}
    BY <2>1 DEF Played
  <2>2. CASE \E marker \in Markers(m) : position \in 0 .. marker - 1
    BY <1>1, <2>2 DEF Markers
  <2>3. CASE \E marker \in Markers(m) : position \in marker .. End(m) - 1
    BY <1>1, <2>3 DEF Markers
  <2>4. QED
    BY <2>1, <2>2, <2>3 DEF Played
<1>3. AtMarker <=> position + 1 \in Markers(m)
  <2>1. CASE position + 1 = End(m)
    BY <1>1, <2>1 DEF AtMarker, Markers
  <2>2. CASE position + 1 \in 1 .. End(m) - 1
    <3> DEFINE duration == m[position + 1].duration
    <3>1. duration \in 1 .. 127
      BY <1>1, <2>2
    <3> HIDE DEF duration
    <3>2. duration # 0
      BY <3>1
    <3>3. QED
      BY <2>2, <3>2 DEF AtMarker, Markers, duration
  <2>3. QED
    BY <1>1, <1>2, <2>1, <2>2
<1>4. CASE ~AtMarker
  BY <1>3, <1>4 DEF PassMarker
<1>5. CASE AtMarker
  <2> DEFINE marker == position + 1
             duration == m[marker].duration
             before == marker - 1
             times == duration + 1
  <2>1. marker \in Markers(m) /\ \A i \in Markers(m) : i = marker
    BY <1>3, <1>5 DEF OneMarker
  <2>2. marker \in 2 .. End(m) - 1 /\ duration \in 1 .. 127 /\ position \in Nat
    BY <1>1, <1>2, <2>1 DEF Markers
  <2>3. PICK k \in 0 .. duration :
          /\ repeatCounter = IF k = 0 THEN -1 ELSE times - k
          /\ position \in 0 .. before /\ n = k * before + position
    <3>1. position \notin marker .. End(m) - 1
      BY <2>2
    <3>2. QED
      BY <2>1, <3>1 DEF Played
  <2>4. Count = IF repeatCounter = -1 THEN duration ELSE repeatCounter - 1
    BY DEF Count
  <2> HIDE DEF duration
  <2>5. before = position /\ before \in Nat
    BY <2>2
  <2>6. k * before \in Nat /\ (k + 1) * before = k * before + before /\ n = (k + 1) * before
    <3> HIDE DEF before
    <3>1. k \in Nat
      BY <2>2
    <3>2. k * before \in Nat /\ (k + 1) * before = k * before + before
      BY <2>5, <3>1
    <3>3. QED
      BY <2>3, <2>5, <3>2
  <2>7. CASE k < duration
    <3>1. Count = times - (k + 1) /\ Rewinds(Count)
      BY <2>2, <2>3, <2>4, <2>7 DEF Rewinds
    <3>2. PassMarker = [position |-> 0, count |-> times - (k + 1)]
      BY <1>5, <3>1 DEF PassMarker
    <3>3. k + 1 \in 0 .. duration /\ k + 1 # 0 /\ 0 \in 0 .. before /\ n = (k + 1) * before + 0
      <4> DEFINE all == (k + 1) * before
      <4>1. all \in Nat /\ n = all
        <5>1. k * before + before \in Nat
          BY <2>5, <2>6
        <5>2. QED
          BY <2>6, <5>1
      <4> HIDE DEF all
      <4>2. n = all + 0
        BY <4>1
      <4>3. QED
        BY <2>2, <2>5, <2>7, <4>2 DEF all
    <3>4. Played(m, 0, times - (k + 1), n)
      BY <2>1, <3>3 DEF Played, duration
    <3>5. 1 \notin Markers(m)
      BY <2>1, <2>2
    <3>6. PassMarker.position = 0 /\ PassMarker.count = times - (k + 1)
      BY <3>2
    <3>7. QED
      BY <3>4, <3>5, <3>6
  <2>8. CASE k = duration
    <3>1. repeatCounter = 1 /\ Count = 0 /\ ~Rewinds(Count)
      BY <2>2, <2>3, <2>4, <2>8 DEF Rewinds
    <3>2. PassMarker.position = marker /\ PassMarker.count = -1
      BY <1>5, <3>1 DEF PassMarker
    <3>3. marker \in marker .. End(m) - 1 /\ n = times * before + (marker - marker)
      <4> DEFINE all == times * before
      <4>1. all \in Nat /\ n = all
        <5>1. k * before + before \in Nat
          BY <2>5, <2>6
        <5>2. QED
          BY <2>6, <2>8, <5>1
      <4> HIDE DEF all
      <4>2. n = all + (marker - marker)
        BY <2>2, <4>1
      <4>3. QED
        BY <1>1, <2>2, <4>2 DEF all
    <3>4. Played(m, marker, -1, n)
      BY <2>1, <3>3 DEF Played, duration
    <3>5. marker + 1 \notin Markers(m)
      BY <2>1, <2>2
    <3>6. QED
      BY <3>2, <3>4, <3>5
  <2>9. QED
    BY <2>2, <2>7, <2>8
<1>6. QED
  BY <1>4, <1>5

(* What reading a note does: it is played, or a second marker or the end   *)
(* stops the player.                                                       *)
NotePlayed(at) ==
  /\ at + 1 < End(melody) /\ melody[at + 1].duration \in 1 .. 127
  /\ toneTicks' = melody[at + 1].duration /\ position' = at + 1 /\ tone' = "melody"
  /\ heard' = Append(heard, melody[at + 1])
  /\ UNCHANGED <<playing, finished>>
Stopped(at) ==
  /\ playing' = FALSE /\ tone' = "off" /\ position' = at
  /\ UNCHANGED <<toneTicks, heard>>

LEMMA ReadNoteDoes ==
  ASSUME Valid(melody), NEW at \in 0 .. End(melody) - 1, ReadNote(at)
  PROVE  \/ NotePlayed(at)
         \/ at + 1 \in Markers(melody) /\ Stopped(at) /\ UNCHANGED finished
         \/ at + 1 = End(melody) /\ Stopped(at) /\ finished' = TRUE
<1> DEFINE m == melody
           note == m[at + 1].note
           duration == m[at + 1].duration
           end == End(m)
           length == Len(m)
<1>1. /\ end \in 1 .. length /\ length \in Nat /\ m[end].note = 0
      /\ at + 1 \in 1 .. end - 1 =>
           /\ note # 0 /\ duration \in 1 .. 127
           /\ note >= 0 => note \in 1 .. Notes - 1
      /\ note \in Signed
  <2>1. at + 1 \in 1 .. Len(m)
    BY ValidMelody
  <2>2. QED
    BY <2>1, ValidMelody
<1>2. \/ /\ note # 0 /\ duration # 0 /\ note \in 1 .. Notes - 1
         /\ tone' = "melody" /\ toneTicks' = duration /\ position' = at + 1
         /\ heard' = Append(heard, m[at + 1])
         /\ UNCHANGED <<playing, finished>>
      \/ /\ at >= length \/ (note # 0 /\ duration # 0 /\ note \notin 1 .. Notes - 1)
         /\ Stopped(at) /\ UNCHANGED finished
      \/ /\ note = 0 \/ duration = 0
         /\ Stopped(at) /\ finished' = TRUE
  BY DEF ReadNote, Abort, Stopped
<1>3. at \in 0 .. end - 1
  OBVIOUS
<1>4. CASE at + 1 = end
  <2>1. note = 0 /\ ~(at >= length)
    BY <1>1, <1>3, <1>4
  <2> HIDE DEF note, duration, end, length
  <2>2. Stopped(at) /\ finished' = TRUE
    BY <1>2, <2>1
  <2>3. QED
    BY <1>4, <2>2 DEF end
<1>5. CASE at + 1 < end
  <2>1. note # 0 /\ duration \in 1 .. 127 /\ (note >= 0 => note \in 1 .. Notes - 1)
    BY <1>1, <1>3, <1>5
  <2>2. note < 0 => at + 1 \in Markers(m)
    BY <1>1, <1>3, <1>5 DEF Markers
  <2>3. note \in -128 .. 127 /\ Notes \in Nat
    BY <1>1, BuzzerAssumption DEF Signed
  <2> HIDE DEF note, duration, end, length
  <2>4. duration # 0 /\ ~(at >= length) /\ (note \notin 1 .. Notes - 1 => note < 0)
    BY <1>1, <1>3, <1>5, <2>1, <2>3
  <2>5. CASE note < 0
    <3>1. Stopped(at) /\ UNCHANGED finished
      BY <1>2, <2>1, <2>3, <2>4, <2>5
    <3>2. QED
      BY <2>2, <2>5, <3>1
  <2>6. CASE note \in 1 .. Notes - 1
    <3>1. /\ tone' = "melody" /\ toneTicks' = duration /\ position' = at + 1
          /\ heard' = Append(heard, m[at + 1]) /\ UNCHANGED <<playing, finished>>
      BY <1>2, <2>1, <2>4, <2>6
    <3>2. QED
      BY <1>5, <2>1, <3>1 DEF NotePlayed, duration, end
  <2>7. QED
    BY <2>4, <2>5, <2>6
<1>6. at + 1 = end \/ at + 1 < end
  <2> HIDE DEF end, length
  <2>1. QED
    BY <1>1, <1>3
<1>7. QED
  BY <1>4, <1>5, <1>6

(* The inductive invariant.                                                *)
Pairs == [note : Signed, duration : Signed] \cup [note : Signed]

BuzzerTypes ==
  /\ \/ melody = <<>> /\ position = 0 /\ ~playing
     \/ Valid(melody) /\ position \in 0 .. End(melody) - 1
  /\ toneTicks \in 0 .. 127 /\ repeatCounter \in -1 .. 127
  /\ priority \in {Button, Signal, Alarm}
  /\ tone \in {"off", "melody", "button", "signal", "alarm"}
  /\ heard \in Seq(Pairs)

BuzzerFlags == playing \in BOOLEAN /\ finished \in BOOLEAN /\ inSafeState \in BOOLEAN

(* A melody raised the priority above a button's when it began, and the    *)
(* safe state begins with a reset and lets nothing begin.                  *)
Prior == playing => priority # Button /\ tone # "button"
Quiet == inSafeState => ~playing /\ tone = "off"

(* What has been heard is the unrolled melody as far as the player stands. *)
PlayedSoFar ==
  melody # <<>> /\ OneMarker(melody) =>
    /\ \A i \in 1 .. Len(heard) : heard[i] = Unrolled(melody)[i]
    /\ playing => Played(melody, position, repeatCounter, Len(heard))
    /\ ~playing => finished /\ Len(heard) = Len(Unrolled(melody))

BuzzerInv == BuzzerTypes /\ BuzzerFlags /\ Prior /\ Quiet /\ PlayedSoFar

(* No sequence at all is not a melody.                                     *)
LEMMA EmptyIsNot == ~Valid(<<>>)
  BY DEF Valid, ValidSequence

LEMMA BuzzerInitInv == BuzzerInit => BuzzerInv
<1> SUFFICES ASSUME BuzzerInit PROVE BuzzerInv
  OBVIOUS
<1>1. BuzzerTypes
  BY DEF BuzzerInit, BuzzerTypes
<1>2. BuzzerFlags
  BY Zenon DEF BuzzerInit, BuzzerFlags
<1>3. Prior /\ Quiet /\ PlayedSoFar
  BY DEF BuzzerInit, Prior, Quiet, PlayedSoFar
<1>4. QED
  BY <1>1, <1>2, <1>3 DEF BuzzerInv

(* A melody begins, or is refused.                                         *)
LEMMA PlaySequenceKeeps ==
  ASSUME BuzzerInv, NEW m \in Melodies, PlaySequence(m)
  PROVE  BuzzerInv'
<1>1. CASE ValidSequence(m)
  <2>1. /\ melody' = m /\ position' = 0 /\ toneTicks' = 0 /\ repeatCounter' = -1
        /\ playing' = TRUE /\ heard' = <<>> /\ finished' = FALSE
        /\ priority' = Signal /\ tone' = "off" /\ ~inSafeState /\ inSafeState' = inSafeState
    BY <1>1 DEF PlaySequence
  <2>2. Valid(m) /\ 0 \in 0 .. End(m) - 1
    <3>1. Valid(m)
      BY <1>1 DEF Valid
    <3>2. End(m) \in Nat \ {0}
      BY <3>1, ValidMelody
    <3>3. QED
      BY <3>1, <3>2
  <2>3. BuzzerTypes'
    BY <2>1, <2>2 DEF BuzzerTypes
  <2>4. BuzzerFlags'
    <3>1. inSafeState \in BOOLEAN
      BY DEF BuzzerInv, BuzzerFlags
    <3>2. QED
      BY <2>1, <3>1, Zenon DEF BuzzerFlags
  <2>5. Prior' /\ Quiet'
    BY <2>1 DEF Prior, Quiet, Button, Signal
  <2>6. PlayedSoFar'
    BY <2>1, <2>2, PlayedNothing DEF PlayedSoFar
  <2>7. QED
    BY <2>3, <2>4, <2>5, <2>6 DEF BuzzerInv
<1>2. CASE ~ValidSequence(m)
  <2>1. /\ UNCHANGED <<melody, position, toneTicks, repeatCounter, playing, heard, finished>>
        /\ priority' = Signal /\ tone' = "off" /\ ~inSafeState /\ inSafeState' = inSafeState
    BY <1>2 DEF PlaySequence
  <2>2. BuzzerTypes'
    BY <2>1 DEF BuzzerInv, BuzzerTypes
  <2>3. BuzzerFlags' /\ Prior' /\ Quiet'
    BY <2>1 DEF BuzzerInv, BuzzerFlags, Prior, Quiet, Button, Signal
  <2>4. PlayedSoFar'
    BY <2>1 DEF BuzzerInv, PlayedSoFar
  <2>5. QED
    BY <2>2, <2>3, <2>4 DEF BuzzerInv
<1>3. QED
  BY <1>1, <1>2

(* Notes and alarms touch only the priority and the piezo.                 *)
LEMMA NotesKeep ==
  ASSUME BuzzerInv, PlayAlarmBeeps \/ \E p \in {Button, Signal, Alarm} : PlayNote(p)
  PROVE  BuzzerInv'
<1>1. UNCHANGED <<melody, position, toneTicks, repeatCounter, playing, inSafeState, heard,
                  finished>>
  BY DEF PlayAlarmBeeps, PlayNote
<1>2. /\ priority' \in {Button, Signal, Alarm} /\ ~inSafeState
      /\ tone' \in {tone, "button", "signal", "alarm"}
      /\ playing => priority' # Button /\ tone' # "button"
  <2>1. CASE PlayAlarmBeeps
    BY <2>1 DEF PlayAlarmBeeps, BuzzerInv, Prior, Alarm, Button
  <2>2. CASE \E p \in {Button, Signal, Alarm} : PlayNote(p)
    <3>1. PICK p \in {Button, Signal, Alarm} : PlayNote(p)
      BY <2>2
    <3>2. ~inSafeState /\ p >= priority /\ priority' = p
          /\ tone' = CASE p = Button -> "button" [] p = Signal -> "signal" [] p = Alarm -> "alarm"
      BY <3>1 DEF PlayNote, MayStart
    <3>3. playing => p # Button
      <4>1. playing => priority \in {Signal, Alarm}
        BY DEF BuzzerInv, BuzzerTypes, Prior
      <4>2. QED
        BY <3>2, <4>1 DEF Button, Signal, Alarm
    <3>4. tone' \in {"button", "signal", "alarm"} /\ (p # Button => tone' # "button")
      BY <3>1, <3>2 DEF Button, Signal, Alarm
    <3>5. QED
      BY <3>2, <3>3, <3>4
  <2>3. QED
    BY <2>1, <2>2
<1>3. BuzzerTypes'
  BY <1>1, <1>2 DEF BuzzerInv, BuzzerTypes
<1>4. BuzzerFlags' /\ Prior' /\ Quiet'
  BY <1>1, <1>2 DEF BuzzerInv, BuzzerFlags, Prior, Quiet
<1>5. PlayedSoFar'
  BY <1>1 DEF BuzzerInv, PlayedSoFar
<1>6. QED
  BY <1>3, <1>4, <1>5 DEF BuzzerInv

(* The next pair is played.                                                *)
LEMMA NotePlayedKeeps ==
  ASSUME BuzzerInv, playing, SequenceCallback, Valid(melody), NEW at \in 0 .. End(melody) - 1,
         NotePlayed(at), repeatCounter' \in -1 .. 127,
         OneMarker(melody) => Played(melody, at, repeatCounter', Len(heard))
                              /\ at + 1 \notin Markers(melody)
  PROVE  BuzzerInv'
<1> DEFINE pair == melody[at + 1]
           played == Len(heard)
<1>1. UNCHANGED <<melody, priority, inSafeState, playing, finished>> /\ tone' = "melody"
  BY DEF SequenceCallback, NotePlayed
<1>2. heard' = Append(heard, pair) /\ position' = at + 1 /\ toneTicks' \in 0 .. 127
      /\ at + 1 \in 0 .. End(melody) - 1
  <2> DEFINE end == End(melody)
             duration == pair.duration
  <2>1. end \in Nat /\ at + 1 < end /\ duration \in 1 .. 127 /\ toneTicks' = duration
    BY ValidMelody DEF NotePlayed
  <2> HIDE DEF end, duration
  <2>2. toneTicks' \in 0 .. 127 /\ at + 1 \in 0 .. end - 1
    <3>1. at \in 0 .. end - 1
      BY DEF end
    <3>2. QED
      BY <2>1, <3>1
  <2>3. QED
    BY <2>2 DEF NotePlayed, end
<1>3. pair \in Pairs /\ heard \in Seq(Pairs) /\ played \in Nat
  <2>1. melody \in Seq(Pairs) /\ End(melody) \in 1 .. Len(melody)
    BY ValidMelody, BuzzerAssumption DEF Valid, Pairs
  <2>2. at + 1 \in 1 .. Len(melody)
    BY <2>1
  <2>3. heard \in Seq(Pairs)
    BY DEF BuzzerInv, BuzzerTypes
  <2>4. QED
    BY <2>1, <2>2, <2>3
<1> HIDE DEF pair
<1>4. /\ Append(heard, pair) \in Seq(Pairs) /\ Len(Append(heard, pair)) = played + 1
      /\ Append(heard, pair)[played + 1] = pair
      /\ \A i \in 1 .. played : Append(heard, pair)[i] = heard[i]
  BY <1>3
<1>5. BuzzerTypes'
  BY <1>1, <1>2, <1>4 DEF BuzzerInv, BuzzerTypes
<1>6. BuzzerFlags'
  BY <1>1 DEF BuzzerInv, BuzzerFlags
<1>7. Prior' /\ Quiet'
  BY <1>1 DEF BuzzerInv, Prior, Quiet
<1>8. ASSUME OneMarker(melody), melody # <<>>
      PROVE  /\ \A i \in 1 .. played + 1 : Append(heard, pair)[i] = Unrolled(melody)[i]
             /\ Played(melody, at + 1, repeatCounter', played + 1)
  <2>1. at + 1 < End(melody)
    BY DEF NotePlayed
  <2>2. Unrolled(melody)[played + 1] = pair /\ Played(melody, at + 1, repeatCounter', played + 1)
    <3>1. Played(melody, at, repeatCounter', played) /\ at + 1 \notin Markers(melody)
      BY <1>8
    <3> HIDE DEF played
    <3>2. repeatCounter' \in Int /\ played \in Int /\ at \in Int
      BY <1>3
    <3>3. PairIsNext(melody, at, repeatCounter', played)
      BY <1>8, <2>1, <3>1, <3>2, PlayedNext
    <3>4. QED
      BY <3>3 DEF PairIsNext, pair
  <2>3. \A i \in 1 .. played : heard[i] = Unrolled(melody)[i]
    BY <1>8 DEF BuzzerInv, PlayedSoFar
  <2> HIDE DEF played
  <2>4. \A i \in 1 .. played + 1 : i \in 1 .. played \/ i = played + 1
    BY <1>3
  <2>5. QED
    BY <1>4, <2>2, <2>3, <2>4
<1>9. PlayedSoFar'
  BY <1>1, <1>2, <1>4, <1>8 DEF PlayedSoFar
<1>10. QED
  BY <1>5, <1>6, <1>7, <1>9 DEF BuzzerInv

(* The player stops, with everything heard.                                *)
LEMMA StoppedKeeps ==
  ASSUME BuzzerInv, SequenceCallback, Valid(melody), NEW at \in 0 .. End(melody) - 1,
         Stopped(at), finished' \in BOOLEAN, repeatCounter' \in -1 .. 127,
         OneMarker(melody) => finished' /\ Len(heard) = Len(Unrolled(melody))
  PROVE  BuzzerInv'
<1>1. /\ UNCHANGED <<melody, priority, inSafeState, toneTicks, heard>>
      /\ playing' = FALSE /\ tone' = "off" /\ position' = at
  BY DEF SequenceCallback, Stopped
<1>2. BuzzerTypes'
  BY <1>1 DEF BuzzerInv, BuzzerTypes
<1>3. BuzzerFlags'
  <2>1. playing' \in BOOLEAN /\ inSafeState' \in BOOLEAN
    BY <1>1, Zenon DEF BuzzerInv, BuzzerFlags
  <2>2. QED
    BY <2>1 DEF BuzzerFlags
<1>4. Prior' /\ Quiet'
  BY <1>1 DEF Prior, Quiet
<1>5. PlayedSoFar'
  BY <1>1 DEF BuzzerInv, PlayedSoFar
<1>6. QED
  BY <1>2, <1>3, <1>4, <1>5 DEF BuzzerInv

(* A tick of the player: it waits, plays the next pair or stops.           *)
LEMMA SequenceCallbackKeeps ==
  ASSUME BuzzerInv, SequenceCallback
  PROVE  BuzzerInv'
<1>1. playing
  BY DEF SequenceCallback
<1>2. /\ Valid(melody) /\ melody # <<>> /\ position \in 0 .. End(melody) - 1
      /\ Stands /\ toneTicks \in 0 .. 127
  BY <1>1, EmptyIsNot DEF BuzzerInv, BuzzerTypes, Stands
<1>3. CASE toneTicks > 0
  <2>1. /\ toneTicks' = toneTicks - 1
        /\ UNCHANGED <<melody, priority, inSafeState, position, repeatCounter, playing, tone,
                       heard, finished>>
    <3>1. toneTicks # 0
      BY <1>2, <1>3
    <3>2. QED
      BY <3>1, Zenon DEF SequenceCallback
  <2>2. BuzzerTypes'
    BY <1>2, <1>3, <2>1 DEF BuzzerInv, BuzzerTypes
  <2>3. BuzzerFlags' /\ Prior' /\ Quiet' /\ PlayedSoFar'
    BY <2>1 DEF BuzzerInv, BuzzerFlags, Prior, Quiet, PlayedSoFar
  <2>4. QED
    BY <2>2, <2>3 DEF BuzzerInv
<1>4. CASE toneTicks = 0
  <2> DEFINE at == PassMarker.position
             count == PassMarker.count
  <2>1. ~(position >= Len(melody))
    BY <1>2, ValidMelody
  <2>2. repeatCounter' = count /\ ReadNote(at)
    BY <1>4, <2>1 DEF SequenceCallback
  <2>3. at \in 0 .. End(melody) - 1 /\ count \in -1 .. 127
    BY <1>2, PassMarkerStands
  <2>4. OneMarker(melody) => /\ Played(melody, at, count, Len(heard))
                             /\ at + 1 \notin Markers(melody)
    BY <1>1, <1>2, PassMarkerPlays DEF BuzzerInv, PlayedSoFar
  <2> HIDE DEF at, count
  <2>5. CASE NotePlayed(at)
    BY <1>1, <1>2, <2>2, <2>3, <2>4, <2>5, NotePlayedKeeps
  <2>6. CASE at + 1 \in Markers(melody) /\ Stopped(at) /\ UNCHANGED finished
    <3>1. finished' \in BOOLEAN
      BY <2>6 DEF BuzzerInv, BuzzerFlags
    <3>2. ~OneMarker(melody)
      BY <2>4, <2>6
    <3>3. QED
      BY <1>2, <2>2, <2>3, <2>6, <3>1, <3>2, StoppedKeeps
  <2>7. CASE at + 1 = End(melody) /\ Stopped(at) /\ finished' = TRUE
    <3>1. OneMarker(melody) => Len(heard) = Len(Unrolled(melody))
      <4> SUFFICES ASSUME OneMarker(melody) PROVE Len(heard) = Len(Unrolled(melody))
        OBVIOUS
      <4> DEFINE played == Len(heard)
      <4>1. Played(melody, at, count, played) /\ at + 1 \notin Markers(melody)
        BY <2>4
      <4> HIDE DEF played
      <4>2. played = Len(Unrolled(melody))
        <5>1. at \in Int /\ count \in Int /\ played \in Int
          BY <1>2, <2>3 DEF BuzzerInv, BuzzerTypes, played
        <5>2. QED
          BY <1>2, <2>7, <4>1, <5>1, PlayedNext
      <4>3. QED
        BY <4>2 DEF played
    <3>2. QED
      BY <1>2, <2>2, <2>3, <2>7, <3>1, StoppedKeeps
  <2>8. QED
    BY <1>2, <2>2, <2>3, <2>5, <2>6, <2>7, ReadNoteDoes
<1>5. QED
  BY <1>2, <1>3, <1>4

LEMMA BuzzerNextInv == BuzzerInv /\ [BuzzerNext]_buzzerVars => BuzzerInv'
<1> SUFFICES ASSUME BuzzerInv, [BuzzerNext]_buzzerVars PROVE BuzzerInv'
  OBVIOUS
<1>1. CASE SequenceCallback
  BY <1>1, SequenceCallbackKeeps
<1>2. CASE PlayAlarmBeeps \/ \E p \in {Button, Signal, Alarm} : PlayNote(p)
  BY <1>2, NotesKeep
<1>3. CASE BuzzerReset
  <2>1. BuzzerTypes'
    BY <1>3 DEF BuzzerReset, BuzzerTypes
  <2>2. BuzzerFlags'
    BY <1>3, Zenon DEF BuzzerReset, BuzzerFlags
  <2>3. Prior' /\ Quiet' /\ PlayedSoFar'
    BY <1>3 DEF BuzzerReset, Prior, Quiet, PlayedSoFar
  <2>4. QED
    BY <2>1, <2>2, <2>3 DEF BuzzerInv
<1>4. CASE \E m \in Melodies : PlaySequence(m)
  BY <1>4, PlaySequenceKeeps
<1>5. CASE UNCHANGED buzzerVars
  BY <1>5 DEF buzzerVars, BuzzerInv, BuzzerTypes, BuzzerFlags, Prior, Quiet, PlayedSoFar
<1>6. QED
  BY <1>1, <1>2, <1>3, <1>4, <1>5 DEF BuzzerNext

(* The player's counters keep their ranges, and nothing sounds in the safe *)
(* state, although it is left only by a reset.                             *)
THEOREM BuzzerTypesHold == BuzzerSpec => []BuzzerTypeOK
<1>1. BuzzerInv => BuzzerTypeOK
  <2> SUFFICES ASSUME BuzzerInv PROVE BuzzerTypeOK
    OBVIOUS
  <2>1. melody \in Melodies \cup {<<>>} /\ position \in 0 .. Len(melody)
    <3>1. CASE melody = <<>> /\ position = 0
      BY <3>1
    <3>2. CASE Valid(melody) /\ position \in 0 .. End(melody) - 1
      <4>1. End(melody) \in 1 .. Len(melody) /\ Len(melody) \in Nat
        BY <3>2, ValidMelody
      <4>2. QED
        BY <3>2, <4>1 DEF Valid
    <3>3. QED
      BY <3>1, <3>2 DEF BuzzerInv, BuzzerTypes
  <2>2. QED
    BY <2>1 DEF BuzzerInv, BuzzerTypes, BuzzerFlags, Quiet, BuzzerTypeOK
<1>2. QED
  BY <1>1, BuzzerInitInv, BuzzerNextInv, PTL DEF BuzzerSpec

(* A melody with at most one marker is heard as it is written, and to the  *)
(* end, whatever else is asked of the buzzer meanwhile                     *)
(* (cb_watch_buzzer_seq, play_note).                                       *)
THEOREM MelodiesAreHeard == BuzzerSpec => []MelodyIsHeard
<1>1. BuzzerInv => MelodyIsHeard
  <2> SUFFICES ASSUME BuzzerInv PROVE MelodyIsHeard
    OBVIOUS
  <2>1. ASSUME melody # <<>>, OneMarker(melody)
        PROVE  /\ playing => IsPrefix(heard, Unrolled(melody))
               /\ ~playing => finished /\ heard = Unrolled(melody)
    <3> DEFINE whole == Unrolled(melody)
    <3>1. Valid(melody)
      BY <2>1 DEF BuzzerInv, BuzzerTypes
    <3>2. whole \in Seq(Pairs)
      <4>1. CASE Markers(melody) = {}
        BY <3>1, <4>1, UnrolledPlain DEF Pairs
      <4>2. CASE Markers(melody) # {}
        <5>1. PICK marker \in Markers(melody) : TRUE
          BY <4>2
        <5>2. QED
          BY <2>1, <3>1, <5>1, UnrolledRepeats DEF Pairs, OneMarker
      <4>3. QED
        BY <4>1, <4>2
    <3>3. heard \in Seq(Pairs) /\ \A i \in 1 .. Len(heard) : heard[i] = whole[i]
      BY <2>1 DEF BuzzerInv, BuzzerTypes, PlayedSoFar
    <3>4. ASSUME playing PROVE Len(heard) <= Len(whole)
      <4> DEFINE played == Len(heard)
      <4>1. Played(melody, position, repeatCounter, played)
        BY <2>1, <3>4 DEF BuzzerInv, PlayedSoFar
      <4>2. Played(melody, PassMarker.position, PassMarker.count, played)
            /\ PassMarker.position + 1 \notin Markers(melody)
        BY <2>1, <3>1, <4>1, PassMarkerPlays
      <4> HIDE DEF played
      <4>3. PassMarker.position \in Int /\ PassMarker.count \in Int /\ played \in Int
        <5>1. Stands
          BY <2>1 DEF BuzzerInv, BuzzerTypes, Stands
        <5>2. End(melody) \in Nat
          BY <3>1, ValidMelody
        <5>3. PassMarker.position \in 0 .. End(melody) - 1 /\ PassMarker.count \in -1 .. 127
          BY <3>1, <5>1, PassMarkerStands
        <5>4. PassMarker.position \in Int /\ PassMarker.count \in Int
          BY <5>2, <5>3
        <5>5. QED
          BY <3>3, <5>4 DEF played
      <4>4. played \in 0 .. Len(whole)
        BY <2>1, <3>1, <4>2, <4>3, PlayedNext
      <4>5. QED
        BY <4>4 DEF played
    <3>5. ~playing => finished /\ Len(heard) = Len(whole)
      BY <2>1 DEF BuzzerInv, PlayedSoFar
    <3> HIDE DEF whole
    <3>6. Len(heard) = Len(whole) => heard = whole
      BY <3>2, <3>3
    <3>7. Len(heard) <= Len(whole) => IsPrefix(heard, whole)
      BY <3>2, <3>3 DEF IsPrefix
    <3>8. QED
      BY <3>4, <3>5, <3>6, <3>7 DEF whole
  <2>2. melody # <<>> => AsWritten
    BY <2>1 DEF AsWritten, OneMarker
  <2>3. playing => tone # "button"
    BY DEF BuzzerInv, Prior
  <2>4. QED
    BY <2>2, <2>3 DEF MelodyIsHeard
<1>2. QED
  BY <1>1, BuzzerInitInv, BuzzerNextInv, PTL DEF BuzzerSpec
=============================================================================
