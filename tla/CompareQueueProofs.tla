-------------------------- MODULE CompareQueueProofs --------------------------
(***************************************************************************)
(* Proofs about the compare queue for every number of slots and every      *)
(* calendar: the types; that, as long as no operation is disturbed, no     *)
(* callback is late and the alarm stands on the nearest target; that no    *)
(* timeout is used up early; and that the minute wake, once armed, is      *)
(* ended only by set_tick_rate.                                            *)
(***************************************************************************)
EXTENDS CompareQueue, WellFoundedInduction, TLAPS

(* What the proofs use of the calendar.                                    *)
LEMMA Calendar ==
  /\ Slots \in Nat \ {0} /\ Minute \in Nat \ {0} /\ Year \in Nat \ {0} /\ Years \in Nat \ {0, 1}
  /\ Minute <= Year /\ Horizon \in 0 .. Year
  /\ Cycle \in Nat /\ Cycle = Year * Years /\ Cycle >= Year + Year
<1>1. /\ Slots \in Nat \ {0} /\ Minute \in Nat \ {0} /\ Day \in Nat \ {0} /\ Year \in Nat \ {0}
      /\ Years \in Nat \ {0, 1} /\ Day % Minute = 0 /\ Year % Day = 0 /\ Horizon \in 0 .. Year
  BY CompareQueueAssumption DEF CompareQueueAssumption
<1>2. ASSUME NEW a \in Nat \ {0}, NEW b \in Nat \ {0}, b % a = 0
      PROVE  a <= b
  <2>1. CASE b < a
    <3>1. b % a = b
      BY <2>1
    <3>2. QED
      BY <1>2, <3>1
  <2>2. QED
    BY <2>1
<1>3. Minute <= Day /\ Day <= Year
  BY <1>1, <1>2
<1>4. Cycle \in Nat /\ Cycle = Year * Years
  BY <1>1 DEF Cycle
<1>5. \A y \in Nat : \A k \in Nat \ {0, 1} : y * k >= y + y
  <2>1. ASSUME NEW y \in Nat, NEW k \in Nat \ {0, 1}
        PROVE  y * k >= y + y
    <3>1. y * k = y + y + y * (k - 2) /\ k - 2 \in Nat
      OBVIOUS
    <3>2. y * (k - 2) \in Nat
      BY <3>1
    <3>3. QED
      BY <3>1, <3>2
  <2>2. QED
    BY <2>1
<1>6. QED
  BY <1>1, <1>3, <1>4, <1>5

(* A number at most a cycle outside of the calendar is brought back by one. *)
LEMMA Wrapped ==
  ASSUME NEW a \in Int, -Cycle <= a, a < Cycle + Cycle
  PROVE  a % Cycle = IF a < 0 THEN a + Cycle ELSE IF a < Cycle THEN a ELSE a - Cycle
<1> Cycle \in Nat \ {0}
  BY Calendar
<1>1. CASE a < 0
  <2>1. a % Cycle = a + Cycle
    BY <1>1
  <2>2. QED
    BY <1>1, <2>1
<1>2. CASE a >= 0 /\ a < Cycle
  <2>1. a % Cycle = a
    BY <1>2
  <2>2. QED
    BY <1>2, <2>1
<1>3. CASE a >= Cycle
  <2>1. a % Cycle = a - Cycle
    BY <1>3
  <2>2. QED
    BY <1>3, <2>1
<1>4. QED
  BY <1>1, <1>2, <1>3

LEMMA AheadValue ==
  ASSUME NEW a \in Time, NEW b \in Time
  PROVE  /\ Ahead(a, b) = IF a <= b THEN b - a ELSE b - a + Cycle
         /\ Ahead(a, b) \in 0 .. Cycle - 1
<1>1. /\ a \in Int /\ b \in Int /\ b - a \in Int /\ -Cycle <= b - a /\ b - a < Cycle + Cycle
      /\ b - a < Cycle
  BY Calendar DEF Time
<1>2. (b - a) % Cycle = IF b - a < 0 THEN b - a + Cycle ELSE b - a
  BY <1>1, Wrapped
<1>3. QED
  BY <1>1, <1>2, Calendar DEF Ahead, Time

(* A second `k` ahead, for at most a cycle.                                *)
LEMMA LaterValue ==
  ASSUME NEW n \in Time, NEW k \in Nat, k < Cycle
  PROVE  /\ (n + k) % Cycle = IF n + k < Cycle THEN n + k ELSE n + k - Cycle
         /\ (n + k) % Cycle \in Time /\ Ahead(n, (n + k) % Cycle) = k
<1>1. n + k \in Int /\ -Cycle <= n + k /\ n + k < Cycle + Cycle /\ n + k >= 0
  BY Calendar DEF Time
<1>2. (n + k) % Cycle = IF n + k < Cycle THEN n + k ELSE n + k - Cycle
  <2> DEFINE a == n + k
  <2>1. a \in Int /\ -Cycle <= a /\ a < Cycle + Cycle /\ a >= 0
    BY <1>1
  <2> HIDE DEF a
  <2>2. a % Cycle = IF a < Cycle THEN a ELSE a - Cycle
    BY <2>1, Wrapped
  <2>3. QED
    BY <1>1, <2>1, <2>2, Calendar DEF a, Time
<1>3. (n + k) % Cycle \in Time
  BY <1>1, <1>2, Calendar DEF Time
<1>4. Ahead(n, (n + k) % Cycle) = IF n <= (n + k) % Cycle THEN ((n + k) % Cycle) - n
                                  ELSE ((n + k) % Cycle) - n + Cycle
  BY <1>3, AheadValue
<1>5. QED
  BY <1>2, <1>3, <1>4, Calendar DEF Time

LEMMA NextMinuteValue ==
  ASSUME NEW n \in Time
  PROVE  NextMinute(n) \in Time /\ Ahead(n, NextMinute(n)) \in 1 .. Year
<1> DEFINE k == ((n \div Minute) + 1) * Minute - n
<1>1. n \in Nat /\ Minute \in Nat \ {0}
  BY Calendar DEF Time
<1>2. k \in 1 .. Minute
  <2>1. ASSUME NEW a \in Nat, NEW m \in Nat \ {0}
        PROVE  ((a \div m) + 1) * m - a \in 1 .. m
    <3>1. a = m * (a \div m) + (a % m) /\ a % m \in 0 .. m - 1 /\ a \div m \in Nat
      OBVIOUS
    <3>2. ((a \div m) + 1) * m = m * (a \div m) + m
      BY <3>1
    <3>3. QED
      BY <3>1, <3>2
  <2>2. QED
    BY <1>1, <2>1
<1>3. ((n \div Minute) + 1) * Minute = n + k
  BY <1>1
<1> HIDE DEF k
<1>4. NextMinute(n) = (n + k) % Cycle
  BY <1>3 DEF NextMinute
<1>5. k \in Nat /\ k < Cycle /\ k \in 1 .. Year
  BY <1>2, Calendar
<1>6. QED
  BY <1>4, <1>5, LaterValue

(* The first and the last year of the cycle.                               *)
LEMMA YearsAre ==
  ASSUME NEW n \in Time
  PROVE  /\ n < Year => YearOf(n) = 0
         /\ n >= Cycle - Year => YearOf(n) = Years - 1
<1> DEFINE q == n \div Year
<1>1. /\ n \in Nat /\ q \in Nat /\ Year * q <= n /\ n < Year * q + Year
  BY Calendar DEF Time
<1>2. ASSUME n < Year PROVE q = 0
  BY <1>2, Calendar DEF Time
<1>3. ASSUME n >= Cycle - Year PROVE q = Years - 1
  <2>1. n < Year * Years /\ n >= Year * Years - Year
    BY <1>3, Calendar DEF Time
  <2> HIDE DEF q
  <2>2. ~(q >= Years)
    <3>1. ASSUME q >= Years PROVE Year * q >= Year * Years
      BY <1>1, <3>1, Calendar
    <3>2. QED
      BY <1>1, <2>1, <3>1, Calendar
  <2>3. ~(q <= Years - 2)
    <3>1. ASSUME q <= Years - 2 PROVE Year * q <= Year * (Years - 2)
      BY <1>1, <3>1, Calendar
    <3>2. Year * (Years - 2) = Year * Years - Year - Year
      BY Calendar
    <3>3. QED
      BY <1>1, <2>1, <3>1, <3>2, Calendar
  <2>4. QED
    BY <1>1, <2>2, <2>3, Calendar
<1>4. QED
  BY <1>2, <1>3 DEF YearOf

(* target_timing, of targets at most a year ahead, and of due ones.        *)
LEMMA DueValue ==
  ASSUME NEW n \in Time, NEW t \in Time
  PROVE  /\ t = n => IsDue(n, t)
         /\ Ahead(n, t) \in 1 .. Year => ~IsDue(n, t) /\ Timestamp(n, t) = n + Ahead(n, t)
         /\ IsDue(n, t) => Ahead(t, n) < Cycle - Year
<1>1. /\ Ahead(n, t) = IF n <= t THEN t - n ELSE t - n + Cycle
      /\ Ahead(t, n) = IF t <= n THEN n - t ELSE n - t + Cycle
  BY AheadValue
<1>2. /\ n < Year => YearOf(n) = 0
      /\ n >= Cycle - Year => YearOf(n) = Years - 1
      /\ t < Year => YearOf(t) = 0
  BY YearsAre
<1>3. n \in Nat /\ t \in Nat /\ n < Cycle /\ t < Cycle
  BY Calendar DEF Time
<1>4. t = n => IsDue(n, t)
  BY <1>3, Calendar DEF IsDue, NextCycle
<1>5. ASSUME Ahead(n, t) \in 1 .. Year
      PROVE  ~IsDue(n, t) /\ Timestamp(n, t) = n + Ahead(n, t)
  <2>1. CASE n < t
    BY <1>1, <1>3, <2>1, Calendar DEF IsDue, Timestamp
  <2>2. CASE t <= n
    <3>1. n >= Cycle - Year /\ t < Year /\ n # t
      BY <1>1, <1>3, <1>5, <2>2, Calendar
    <3>2. NextCycle(n, t)
      BY <1>2, <3>1 DEF NextCycle
    <3>3. QED
      BY <1>1, <1>3, <2>2, <3>1, <3>2, Calendar DEF IsDue, Timestamp
  <2>3. QED
    BY <1>3, <2>1, <2>2
<1>6. ASSUME IsDue(n, t)
      PROVE  Ahead(t, n) < Cycle - Year
  <2>1. t <= n /\ ~NextCycle(n, t)
    BY <1>6 DEF IsDue
  <2>2. CASE n - t >= Cycle - Year
    <3>1. n >= Cycle - Year /\ t < Year
      BY <1>3, <2>2, Calendar
    <3>2. QED
      BY <1>2, <2>1, <3>1 DEF NextCycle
  <2>3. QED
    BY <1>1, <1>3, <2>1, <2>2, Calendar
<1>7. QED
  BY <1>4, <1>5, <1>6

-----------------------------------------------------------------------------
(* The table of the callbacks, and all its targets at most a year ahead.   *)
Table == [Slot -> [target : Time, enabled : BOOLEAN]]

AllAhead(s, n) == \A i \in Slot : s[i].enabled => Ahead(n, s[i].target) \in 1 .. Year

(* No enabled target comes before t.                                       *)
Nearest(s, n, t) ==
  \A i \in Slot : s[i].enabled => Ahead(n, t) \in 1 .. Ahead(n, s[i].target)

LEMMA MinuteSlotExists == MinuteSlot \in Slot
  BY Calendar DEF MinuteSlot, Slot

LEMMA DispatchedIs ==
  ASSUME NEW s \in Table, NEW n \in Time
  PROVE  /\ Dispatched(s, n) \in Table
         /\ \A i \in Slot :
              Dispatched(s, n)[i] =
                IF i \notin Due(s, n) THEN s[i]
                ELSE IF i = MinuteSlot THEN [target |-> NextMinute(n), enabled |-> TRUE]
                ELSE [s[i] EXCEPT !.enabled = FALSE]
  BY NextMinuteValue DEF Dispatched, Table

(* Targets ahead are all pending and none of them is due.                  *)
LEMMA AheadIsPending ==
  ASSUME NEW s \in Table, NEW n \in Time, AllAhead(s, n)
  PROVE  /\ \A i \in Slot : i \in Pending(s, n) <=> s[i].enabled
         /\ Due(s, n) = {}
<1>1. \A i \in Slot : s[i].enabled => ~IsDue(n, s[i].target)
  BY DueValue DEF AllAhead, Table
<1>2. QED
  BY <1>1 DEF Pending, Due

(* Dispatching at second n leaves enabled only what is ahead of n.         *)
LEMMA DispatchLeavesAhead ==
  ASSUME NEW s \in Table, NEW n \in Time,
         \A i \in Slot : s[i].enabled =>
           Ahead(n, s[i].target) \in 1 .. Year \/ s[i].target = n
  PROVE  AllAhead(Dispatched(s, n), n)
<1> SUFFICES ASSUME NEW i \in Slot, Dispatched(s, n)[i].enabled
             PROVE  Ahead(n, Dispatched(s, n)[i].target) \in 1 .. Year
  BY DEF AllAhead
<1>1. CASE i \notin Due(s, n)
  <2>1. Dispatched(s, n)[i] = s[i]
    BY <1>1, DispatchedIs
  <2>2. s[i].enabled /\ ~IsDue(n, s[i].target) /\ s[i].target \in Time
    BY <1>1, <2>1 DEF Due, Table
  <2>3. s[i].target # n
    BY <2>2, DueValue
  <2>4. QED
    BY <2>1, <2>2, <2>3
<1>2. CASE i \in Due(s, n)
  <2>1. i = MinuteSlot
    <3>1. SUFFICES ASSUME i # MinuteSlot PROVE FALSE
      OBVIOUS
    <3>2. Dispatched(s, n)[i] = [s[i] EXCEPT !.enabled = FALSE]
      BY <1>2, <3>1 DEF Dispatched
    <3>3. s[i] \in [target : Time, enabled : BOOLEAN]
      BY DEF Table
    <3>4. QED
      BY <3>2, <3>3
  <2>2. Dispatched(s, n)[i] = [target |-> NextMinute(n), enabled |-> TRUE]
    BY <1>2, <2>1, DispatchedIs
  <2>3. Dispatched(s, n)[i].target = NextMinute(n)
    BY <2>2
  <2>4. QED
    BY <2>3, NextMinuteValue
<1>3. QED
  BY <1>1, <1>2

(* schedule_next_compare finds the pending target of the least timestamp.  *)
LEMMA EarliestIs ==
  ASSUME NEW s \in Table, NEW n \in Time, Pending(s, n) # {}
  PROVE  \E i \in Pending(s, n) :
           /\ Earliest(s, n) = s[i].target
           /\ \A j \in Pending(s, n) : Timestamp(n, s[i].target) <= Timestamp(n, s[j].target)
<1> DEFINE P == Pending(s, n)
           at(i) == Timestamp(n, s[i].target)
           T == {at(i) : i \in P}
<1>1. \A i \in P : i \in Slot /\ at(i) \in Nat
  BY Calendar DEF Pending, Table, Time, Timestamp
<1>2. T \in SUBSET Nat /\ T # {}
  BY <1>1
<1>3. PICK m \in T : \A k \in T : m <= k
  <2> HIDE DEF T
  <2>1. \E m \in T : \A k \in T : <<k, m>> \notin OpToRel(<, Nat)
    BY <1>2, NatLessThanWellFounded, WFMin
  <2>2. OpToRel(<, Nat) = {ss \in Nat \X Nat : ss[1] < ss[2]}
    BY DEF OpToRel
  <2>3. ASSUME NEW k \in Nat, NEW m \in Nat, <<k, m>> \notin OpToRel(<, Nat)
        PROVE  m <= k
    <3>1. <<k, m>> \in Nat \X Nat /\ <<k, m>>[1] = k /\ <<k, m>>[2] = m
      OBVIOUS
    <3>2. ~(k < m)
      BY Zenon, <2>2, <2>3, <3>1
    <3>3. QED
      BY <3>2
  <2>4. QED
    BY <1>2, <2>1, <2>3
<1>4. \E i \in P : \A j \in P : at(i) <= at(j)
  BY <1>3
<1>5. QED
  BY <1>4 DEF Earliest

LEMMA EarliestIsNearest ==
  ASSUME NEW s \in Table, NEW n \in Time, AllAhead(s, n), Pending(s, n) # {}
  PROVE  Earliest(s, n) \in Time /\ Nearest(s, n, Earliest(s, n))
<1>1. PICK i \in Pending(s, n) :
        /\ Earliest(s, n) = s[i].target
        /\ \A j \in Pending(s, n) : Timestamp(n, s[i].target) <= Timestamp(n, s[j].target)
  BY EarliestIs
<1>2. i \in Slot /\ s[i].enabled /\ s[i].target \in Time
  BY DEF Pending, Table
<1>3. \A j \in Slot : s[j].enabled =>
        /\ j \in Pending(s, n) /\ Ahead(n, s[j].target) \in 1 .. Year
        /\ Timestamp(n, s[j].target) = n + Ahead(n, s[j].target)
  BY AheadIsPending, DueValue DEF AllAhead, Table
<1>4. n \in Int /\ Year \in Int
  BY Calendar DEF Time
<1>5. ASSUME NEW j \in Slot, s[j].enabled
      PROVE  Ahead(n, s[i].target) \in 1 .. Ahead(n, s[j].target)
  <2>1. /\ n + Ahead(n, s[i].target) <= n + Ahead(n, s[j].target)
        /\ Ahead(n, s[i].target) \in 1 .. Year /\ Ahead(n, s[j].target) \in 1 .. Year
    BY <1>1, <1>2, <1>3, <1>5
  <2>2. QED
    BY <1>4, <2>1
<1>6. QED
  BY <1>1, <1>2, <1>5 DEF Nearest

-----------------------------------------------------------------------------
(* TypeOK is inductive by itself.                                          *)
LEMMA InitTypes == Init => TypeOK
<1> SUFFICES ASSUME Init PROVE TypeOK
  OBVIOUS
<1>1. 0 \in Time /\ Minute - 1 \in Time /\ 0 \in Slot
  BY Calendar DEF Time, Slot
<1>2. QED
  BY <1>1 DEF Init, TypeOK

LEMMA EarliestType ==
  ASSUME NEW s \in Table, NEW n \in Time, Pending(s, n) # {}
  PROVE  Earliest(s, n) \in Time
  BY EarliestIs DEF Pending, Table

LEMMA NextTypes == TypeOK /\ [Next]_vars => TypeOK'
<1> SUFFICES ASSUME TypeOK, [Next]_vars PROVE TypeOK'
  OBVIOUS
<1> USE DEF TypeOK
<1>1. slots \in Table /\ now \in Time
  BY DEF Table
<1>2. \A t \in Time : Wakeup(t) \in [target : Time, mask : {"Ss", "HhMmSs"},
                     callback : {"cb_alarm_fired", "compare_tick"}, on : BOOLEAN]
  BY DEF Wakeup
<1>3. ASSUME NEW s \in Table
      PROVE  Armed(s, now) \in [target : Time, mask : {"Ss", "HhMmSs"},
                     callback : {"cb_alarm_fired", "compare_tick"}, on : BOOLEAN]
  BY <1>1, <1>2, EarliestType DEF Armed
<1>4. CASE SecondEdge
  <2>1. now' \in Time
    BY <1>1, <1>4, LaterValue, Calendar DEF SecondEdge
  <2>2. QED
    BY <1>4, <2>1 DEF SecondEdge
<1>5. CASE AlarmInterrupt
  <2>1. Dispatched(slots, now) \in Table
    BY <1>1, DispatchedIs
  <2>2. slots' \in Table
    BY <1>1, <1>5, <2>1 DEF AlarmInterrupt
  <2>3. alarm' \in [target : Time, mask : {"Ss", "HhMmSs"},
                    callback : {"cb_alarm_fired", "compare_tick"}, on : BOOLEAN]
    BY <1>3, <1>5, <2>2 DEF AlarmInterrupt
  <2>4. QED
    BY <1>5, <2>2, <2>3 DEF AlarmInterrupt, Table
<1>6. CASE ClearFlag
  BY <1>6 DEF ClearFlag
<1>7. CASE HideSeconds
  BY <1>1, <1>7, MinuteSlotExists, NextMinuteValue DEF HideSeconds
<1>8. ASSUME NEW i \in Slot, Disable(i) PROVE TypeOK'
  BY <1>8 DEF Disable
<1>9. ASSUME NEW i \in Slot, NEW ahead \in 0 .. Horizon, RegisterTimeout(i, ahead) PROVE TypeOK'
  <2>1. ahead \in Nat /\ ahead < Cycle
    BY Calendar
  <2>2. (now + ahead) % Cycle \in Time
    BY <1>1, <2>1, LaterValue
  <2>3. QED
    BY <1>9, <2>2 DEF RegisterTimeout
<1>10. ASSUME NEW t \in Time, SetDateTime(t) PROVE TypeOK'
  BY <1>10 DEF SetDateTime
<1>11. CASE Register
  <2> DEFINE entered == [slots EXCEPT ![op.slot] = [target |-> op.target, enabled |-> TRUE]]
  <2>1. entered \in Table
    BY DEF Table
  <2>2. slots' \in Table
    <3>1. slots' \in {entered, Dispatched(entered, now)}
      BY <1>11 DEF Register
    <3> HIDE DEF entered
    <3>2. Dispatched(entered, now) \in Table
      BY <1>1, <2>1, DispatchedIs
    <3>3. QED
      BY <2>1, <3>1, <3>2
  <2>3. alarm' \in {alarm, Armed(slots', now)}
    BY <1>11 DEF Register
  <2>4. QED
    BY <1>3, <1>11, <2>2, <2>3 DEF Register, Table
<1>12. CASE ScanNothing
  <2>1. 0 \in Slot /\ 0 \in Time
    BY Calendar DEF Slot, Time
  <2>2. QED
    BY <1>12, <2>1 DEF ScanNothing
<1>13. CASE ScanEarliest
  <2>1. 0 \in Slot /\ Earliest(slots, now) \in Time
    BY <1>1, <1>13, EarliestType, Calendar DEF Slot, ScanEarliest
  <2>2. QED
    BY <1>13, <2>1 DEF ScanEarliest
<1>14. CASE WriteAlarm
  <2>1. 0 \in Slot /\ 0 \in Time
    BY Calendar DEF Slot, Time
  <2>2. op.target \in Time
    OBVIOUS
  <2>3. Wakeup(op.target) \in [target : Time, mask : {"Ss", "HhMmSs"},
                    callback : {"cb_alarm_fired", "compare_tick"}, on : BOOLEAN]
    BY <1>2, <2>2
  <2>4. QED
    BY <1>14, <2>1, <2>3 DEF WriteAlarm
<1>15. CASE UNCHANGED vars
  BY <1>15 DEF vars
<1>16. QED
  BY <1>4, <1>5, <1>6, <1>7, <1>8, <1>9, <1>10, <1>11, <1>12, <1>13, <1>14, <1>15 DEF Next

-----------------------------------------------------------------------------
AlarmComes == Interrupting /\ alarm.callback = "compare_tick"

(* A target may have come only in the second in which the alarm's          *)
(* interrupt is on its way to dispatch it.                                 *)
TargetsAhead ==
  \A i \in Slot : slots[i].enabled =>
    \/ Ahead(now, slots[i].target) \in 1 .. Year
    \/ slots[i].target = now /\ AlarmComes /\ main = "idle"

AlarmStands ==
  \A i \in Slot : slots[i].enabled => alarm.on /\ alarm.callback = "compare_tick"

(* What each step of the main loop's operation knows of the steps before.  *)
StepsStand ==
  /\ main = "register" => Ahead(now, op.target) \in 0 .. Year
  /\ main = "write" => Nearest(slots, now, op.target)
  /\ main = "idle" =>
       AlarmStands /\ (Interrupting \/ Nearest(slots, now, alarm.target))

Timely == TargetsAhead /\ StepsStand

IInv == TypeOK /\ (~disturbed => Timely)

LEMMA TypesAre ==
  TypeOK => slots \in Table /\ now \in Time /\ op.target \in Time /\ alarm.target \in Time
  BY DEF TypeOK, Table

LEMMA RestIsAhead ==
  ASSUME TargetsAhead, ~Interrupting \/ main # "idle"
  PROVE  AllAhead(slots, now)
  BY DEF TargetsAhead, AllAhead, AlarmComes

(* Every target comes one second nearer.                                   *)
LEMMA SecondNearer ==
  ASSUME NEW n \in Time, NEW t \in Time
  PROVE  /\ Ahead(n, t) >= 1 => Ahead((n + 1) % Cycle, t) = Ahead(n, t) - 1
         /\ Ahead(n, t) = 0 => t = n
<1>1. /\ (n + 1) % Cycle = IF n + 1 < Cycle THEN n + 1 ELSE n + 1 - Cycle
      /\ (n + 1) % Cycle \in Time
  BY LaterValue, Calendar
<1> DEFINE m == (n + 1) % Cycle
<1>2. m \in Time /\ m = IF n + 1 < Cycle THEN n + 1 ELSE n + 1 - Cycle
  BY <1>1
<1> HIDE DEF m
<1>3. /\ Ahead(n, t) = IF n <= t THEN t - n ELSE t - n + Cycle
      /\ Ahead(m, t) = IF m <= t THEN t - m ELSE t - m + Cycle
  BY <1>2, AheadValue
<1>4. /\ Ahead(n, t) >= 1 => Ahead(m, t) = Ahead(n, t) - 1
      /\ Ahead(n, t) = 0 => t = n
  BY <1>2, <1>3, Calendar DEF Time
<1>5. QED
  BY <1>4 DEF m

LEMMA SecondEdgeKeeps ==
  ASSUME TypeOK, TypeOK', Timely, SecondEdge, ~disturbed'
  PROVE  Timely'
<1>1. /\ ~Interrupting /\ main = "idle" /\ isr = "idle" /\ now' = (now + 1) % Cycle
      /\ flag' = (flag \/ Matches(alarm, now'))
      /\ slots' = slots /\ alarm' = alarm /\ isr' = isr /\ main' = main /\ op' = op
  BY DEF SecondEdge, TypeOK
<1>2. /\ AllAhead(slots, now) /\ Nearest(slots, now, alarm.target) /\ AlarmStands
  BY <1>1, RestIsAhead DEF Timely, StepsStand
<1>3. /\ slots \in Table /\ now \in Time /\ alarm.target \in Time /\ now' \in Time
  BY TypesAre DEF TypeOK
<1>4. alarm.on /\ alarm.target = now' => Interrupting'
  BY <1>1 DEF Interrupting, Matches
<1>5. ASSUME NEW i \in Slot, slots[i].enabled
      PROVE  /\ \/ Ahead(now', slots[i].target) \in 1 .. Year
                \/ slots[i].target = now' /\ alarm.target = now'
             /\ \/ alarm.target = now'
                \/ Ahead(now', alarm.target) \in 1 .. Ahead(now', slots[i].target)
  <2>1. /\ slots[i].target \in Time /\ Ahead(now, slots[i].target) \in 1 .. Year
        /\ Ahead(now, alarm.target) \in 1 .. Ahead(now, slots[i].target)
    BY <1>2, <1>3, <1>5 DEF AllAhead, Nearest, Table
  <2>2. /\ Ahead(now', slots[i].target) = Ahead(now, slots[i].target) - 1
        /\ Ahead(now', alarm.target) = Ahead(now, alarm.target) - 1
    <3>1. Ahead(now, slots[i].target) >= 1 /\ Ahead(now, alarm.target) >= 1
      BY <2>1, Calendar
    <3>2. /\ Ahead((now + 1) % Cycle, slots[i].target) = Ahead(now, slots[i].target) - 1
          /\ Ahead((now + 1) % Cycle, alarm.target) = Ahead(now, alarm.target) - 1
      BY <1>3, <2>1, <3>1, SecondNearer
    <3>3. QED
      BY <1>1, <3>2
  <2>3. /\ Ahead(now', slots[i].target) = 0 => slots[i].target = now'
        /\ Ahead(now', alarm.target) = 0 => alarm.target = now'
    BY <1>3, <2>1, SecondNearer
  <2>4. QED
    BY <2>1, <2>2, <2>3, Calendar
<1>6. TargetsAhead'
  BY <1>1, <1>2, <1>4, <1>5 DEF TargetsAhead, AlarmStands, AlarmComes
<1>7. StepsStand'
  <2>1. AlarmStands'
    BY <1>1, <1>2 DEF AlarmStands
  <2>2. Interrupting' \/ Nearest(slots, now', alarm.target)
    BY <1>2, <1>4, <1>5 DEF Nearest, AlarmStands
  <2>3. QED
    BY <1>1, <2>1, <2>2 DEF StepsStand
<1>8. QED
  BY <1>6, <1>7 DEF Timely

LEMMA AlarmInterruptKeeps ==
  ASSUME TypeOK, TypeOK', Timely, AlarmInterrupt
  PROVE  Timely'
<1>1. /\ now' = now /\ main' = main /\ op' = op /\ ~Interrupting'
      /\ slots \in Table /\ now \in Time
  BY TypesAre DEF AlarmInterrupt, Interrupting
<1>2. CASE alarm.callback = "cb_alarm_fired"
  <2>1. slots' = slots
    BY <1>2 DEF AlarmInterrupt
  <2>2. main = "idle" => \A i \in Slot : ~slots[i].enabled
    BY <1>2 DEF Timely, StepsStand, AlarmStands
  <2>3. AllAhead(slots, now)
    BY <1>1, <1>2 DEF Timely, TargetsAhead, AllAhead, AlarmComes
  <2>4. TargetsAhead'
    BY <1>1, <2>1, <2>3 DEF TargetsAhead, AllAhead
  <2>5. StepsStand'
    BY <1>1, <2>1, <2>2 DEF Timely, StepsStand, AlarmStands, Nearest
  <2>6. QED
    BY <2>4, <2>5 DEF Timely
<1>3. CASE alarm.callback # "cb_alarm_fired"
  <2>1. /\ slots' = Dispatched(slots, now)
        /\ alarm' = IF Pending(slots', now) = {} THEN [alarm EXCEPT !.on = FALSE]
                    ELSE Armed(slots', now)
    BY <1>3 DEF AlarmInterrupt
  <2>2. slots' \in Table /\ AllAhead(slots', now)
    <3>1. \A i \in Slot : slots[i].enabled =>
            Ahead(now, slots[i].target) \in 1 .. Year \/ slots[i].target = now
      BY DEF Timely, TargetsAhead
    <3>2. QED
      BY <1>1, <2>1, <3>1, DispatchedIs, DispatchLeavesAhead
  <2>3. TargetsAhead'
    BY <1>1, <2>2 DEF TargetsAhead, AllAhead
  <2>4. main = "write" => Nearest(slots', now, op.target)
    <3>1. SUFFICES ASSUME main = "write" PROVE Nearest(slots', now, op.target)
      OBVIOUS
    <3>2. AllAhead(slots, now) /\ Nearest(slots, now, op.target)
      BY <3>1, RestIsAhead DEF Timely, StepsStand
    <3>3. Due(slots, now) = {}
      BY <1>1, <3>2, AheadIsPending
    <3>4. \A i \in Slot : slots'[i] = slots[i]
      BY <1>1, <2>1, <3>3, DispatchedIs
    <3>5. QED
      BY <3>2, <3>4 DEF Nearest
  <2>5. AlarmStands' /\ Nearest(slots', now, alarm'.target)
    <3>1. CASE Pending(slots', now) = {}
      <4>1. \A i \in Slot : ~slots'[i].enabled
        BY <1>1, <2>2, <3>1, AheadIsPending
      <4>2. QED
        BY <4>1 DEF AlarmStands, Nearest
    <3>2. CASE Pending(slots', now) # {}
      <4>1. alarm' = Wakeup(Earliest(slots', now))
        BY <2>1, <3>2 DEF Armed
      <4>2. Nearest(slots', now, Earliest(slots', now))
        BY <1>1, <2>2, <3>2, EarliestIsNearest
      <4>3. alarm'.target = Earliest(slots', now) /\ alarm'.on /\ alarm'.callback = "compare_tick"
        BY <4>1 DEF Wakeup
      <4>4. QED
        BY <4>2, <4>3 DEF AlarmStands
    <3>3. QED
      BY <3>1, <3>2
  <2>6. StepsStand'
    BY <1>1, <2>4, <2>5 DEF Timely, StepsStand
  <2>7. QED
    BY <2>3, <2>6 DEF Timely
<1>4. QED
  BY <1>2, <1>3

LEMMA RegisterKeeps ==
  ASSUME TypeOK, Timely, Register
  PROVE  Timely'
<1> DEFINE entered == [slots EXCEPT ![op.slot] = [target |-> op.target, enabled |-> TRUE]]
<1>1. /\ now' = now /\ main = "register" /\ main' = "scan" /\ ~Interrupting
      /\ slots' = IF IsDue(now, op.target) THEN Dispatched(entered, now) ELSE entered
  BY DEF Register, MainMay
<1>2. /\ slots \in Table /\ now \in Time /\ op.target \in Time /\ op.slot \in Slot
      /\ Ahead(now, op.target) \in 0 .. Year /\ AllAhead(slots, now)
  BY <1>1, TypesAre, RestIsAhead DEF TypeOK, Timely, StepsStand
<1>3. Ahead(now, op.target) \in 1 .. Year \/ op.target = now
  BY <1>2, SecondNearer, Calendar
<1>4. entered \in Table
  BY <1>2 DEF Table
<1>5. \A i \in Slot : entered[i].enabled =>
        \/ Ahead(now, entered[i].target) \in 1 .. Year
        \/ entered[i].target = now /\ IsDue(now, op.target)
  <2>1. op.target = now => IsDue(now, op.target)
    BY <1>2, DueValue
  <2>2. \A i \in Slot : entered[i] =
          IF i = op.slot THEN [target |-> op.target, enabled |-> TRUE] ELSE slots[i]
    BY <1>2 DEF Table
  <2> HIDE DEF entered
  <2>3. QED
    BY <1>2, <1>3, <2>1, <2>2 DEF AllAhead
<1> HIDE DEF entered
<1>6. AllAhead(slots', now)
  <2>1. CASE IsDue(now, op.target)
    BY <1>1, <1>2, <1>4, <1>5, <2>1, DispatchLeavesAhead
  <2>2. CASE ~IsDue(now, op.target)
    BY <1>1, <1>5, <2>2 DEF AllAhead
  <2>3. QED
    BY <2>1, <2>2
<1>7. QED
  BY <1>1, <1>6 DEF Timely, TargetsAhead, StepsStand, AllAhead

(* The other steps of the main loop and of the handler.                    *)
LEMMA OtherStepsKeep ==
  ASSUME TypeOK, TypeOK', Timely,
         \/ ClearFlag \/ HideSeconds \/ ScanNothing \/ ScanEarliest \/ WriteAlarm
         \/ \E i \in Slot : Disable(i)
         \/ \E i \in Slot \ {MinuteSlot}, ahead \in 0 .. Horizon : RegisterTimeout(i, ahead)
  PROVE  Timely'
<1>1. now' = now /\ ~Interrupting
  BY DEF ClearFlag, HideSeconds, ScanNothing, ScanEarliest, WriteAlarm, Disable, RegisterTimeout,
         MainMay, Interrupting
<1>2. /\ AllAhead(slots, now) /\ slots \in Table /\ now \in Time
      /\ TargetsAhead /\ StepsStand
  BY <1>1, RestIsAhead, TypesAre DEF Timely
<1>3. AllAhead(slots', now)
  <2>1. CASE slots' = slots
    BY <1>2, <2>1
  <2>2. ASSUME NEW i \in Slot, Disable(i) PROVE AllAhead(slots', now)
    BY <1>2, <2>2 DEF Disable, AllAhead, Table
  <2>3. QED
    BY <2>1, <2>2 DEF ClearFlag, HideSeconds, ScanNothing, ScanEarliest, WriteAlarm, RegisterTimeout
<1>4. TargetsAhead'
  BY <1>1, <1>3 DEF TargetsAhead, AllAhead
<1>5. StepsStand'
  <2>1. CASE ClearFlag
    <3>1. main' = main /\ op' = op /\ slots' = slots /\ alarm' = alarm
      BY <2>1 DEF ClearFlag
    <3>2. QED
      BY <1>1, <1>2, <3>1 DEF StepsStand, AlarmStands
  <2>2. CASE HideSeconds
    <3>1. main' = "register" /\ op'.target = NextMinute(now)
      BY <2>2 DEF HideSeconds
    <3>2. Ahead(now, NextMinute(now)) \in 0 .. Year
      BY <1>2, NextMinuteValue, Calendar
    <3>3. QED
      BY <1>1, <3>1, <3>2 DEF StepsStand
  <2>3. ASSUME NEW ahead \in 0 .. Horizon, NEW i \in Slot, RegisterTimeout(i, ahead)
        PROVE  StepsStand'
    <3>1. main' = "register" /\ op'.target = (now + ahead) % Cycle
      BY <2>3 DEF RegisterTimeout
    <3>2. ahead \in Nat /\ ahead < Cycle /\ ahead \in 0 .. Year
      BY Calendar
    <3>3. Ahead(now, (now + ahead) % Cycle) \in 0 .. Year
      BY <1>2, <3>2, LaterValue
    <3>4. QED
      BY <1>1, <3>1, <3>3 DEF StepsStand
  <2>4. ASSUME NEW i \in Slot, Disable(i) PROVE StepsStand'
    BY <2>4 DEF Disable, StepsStand
  <2>5. CASE ScanNothing
    <3>1. main' = "idle" /\ slots' = slots /\ Pending(slots, now) = {}
      BY <2>5 DEF ScanNothing
    <3>2. \A i \in Slot : ~slots[i].enabled
      BY <1>2, <3>1, AheadIsPending
    <3>3. QED
      BY <3>1, <3>2 DEF StepsStand, AlarmStands, Nearest
  <2>6. CASE ScanEarliest
    <3>1. /\ main' = "write" /\ slots' = slots /\ Pending(slots, now) # {}
          /\ op'.target = Earliest(slots, now)
      BY <2>6 DEF ScanEarliest
    <3>2. Nearest(slots, now, Earliest(slots, now))
      BY <1>2, <3>1, EarliestIsNearest
    <3>3. QED
      BY <1>1, <3>1, <3>2 DEF StepsStand
  <2>7. CASE WriteAlarm
    <3>1. /\ main = "write" /\ main' = "idle" /\ slots' = slots
          /\ alarm'.target = op.target /\ alarm'.on /\ alarm'.callback = "compare_tick"
      BY <2>7 DEF WriteAlarm, MainMay, Wakeup
    <3>2. Nearest(slots, now, op.target)
      BY <1>2, <3>1 DEF StepsStand
    <3>3. QED
      BY <1>1, <3>1, <3>2 DEF StepsStand, AlarmStands
  <2>8. QED
    BY <2>1, <2>2, <2>3, <2>4, <2>5, <2>6, <2>7
<1>6. QED
  BY <1>4, <1>5 DEF Timely

LEMMA InitIInv == Init => IInv
<1> SUFFICES ASSUME Init PROVE IInv
  OBVIOUS
<1>1. \A i \in Slot : ~slots[i].enabled
  BY DEF Init
<1>2. main = "idle"
  BY DEF Init
<1>3. Timely
  BY <1>1, <1>2 DEF Timely, TargetsAhead, StepsStand, AlarmStands, Nearest
<1>4. QED
  BY <1>3, InitTypes DEF IInv

LEMMA NextIInv == IInv /\ [Next]_vars => IInv'
<1> SUFFICES ASSUME IInv, [Next]_vars PROVE IInv'
  OBVIOUS
<1>1. TypeOK /\ TypeOK'
  BY NextTypes DEF IInv
<1>2. SUFFICES ASSUME ~disturbed' PROVE Timely'
  BY <1>1 DEF IInv
<1>3. CASE disturbed
  BY <1>2, <1>3 DEF Next, vars, SecondEdge, AlarmInterrupt, ClearFlag, HideSeconds, Disable,
     RegisterTimeout, SetDateTime, Register, ScanNothing, ScanEarliest, WriteAlarm
<1>4. CASE ~disturbed
  <2>1. Timely
    BY <1>4 DEF IInv
  <2>2. CASE SecondEdge
    BY <1>1, <1>2, <2>1, <2>2, SecondEdgeKeeps
  <2>3. CASE AlarmInterrupt
    BY <1>1, <2>1, <2>3, AlarmInterruptKeeps
  <2>4. CASE Register
    BY <1>1, <2>1, <2>4, RegisterKeeps
  <2>5. ~\E t \in Time : SetDateTime(t)
    BY <1>2 DEF SetDateTime
  <2>6. CASE UNCHANGED vars
    BY <2>1, <2>6 DEF vars, Timely, TargetsAhead, StepsStand, AlarmStands, AlarmComes,
       Interrupting, Nearest
  <2>7. QED
    BY <1>1, <2>1, <2>2, <2>3, <2>4, <2>5, <2>6, OtherStepsKeep DEF Next
<1>5. QED
  BY <1>3, <1>4

-----------------------------------------------------------------------------
(* The strengthened invariant, from which the properties below follow.     *)
THEOREM QueueInvariant == Spec => []IInv
  BY InitIInv, NextIInv, PTL DEF Spec

(* Every target, in the table, in the alarm or under way, is a date the    *)
(* RTC can show.                                                           *)
THEOREM QueueTypes == Spec => []TypeOK
<1>1. IInv => TypeOK
  BY DEF IInv
<1>2. QED
  BY <1>1, QueueInvariant, PTL

(* Without a disturbance a callback runs in the very second it was         *)
(* registered for, for any calendar and any number of slots                *)
(* (register_comp_callback, dispatch_due_callbacks).                       *)
THEOREM NoCallbackIsLate == Spec => []NoSlotIsLate
<1>1. IInv => NoSlotIsLate
  <2> SUFFICES ASSUME IInv, Settled, ~disturbed, NEW i \in Slot, slots[i].enabled
               PROVE  ~Passed(slots[i].target)
    BY DEF NoSlotIsLate
  <2>1. /\ now \in Time /\ slots[i].target \in Time
        /\ Ahead(now, slots[i].target) \in 1 .. Year
    BY TypesAre, RestIsAhead DEF IInv, Timely, Settled, AllAhead, Table
  <2>2. /\ Ahead(now, slots[i].target) = IF now <= slots[i].target THEN slots[i].target - now
                                         ELSE slots[i].target - now + Cycle
        /\ Ahead(slots[i].target, now) = IF slots[i].target <= now THEN now - slots[i].target
                                         ELSE now - slots[i].target + Cycle
    BY <2>1, AheadValue
  <2>3. QED
    BY <2>1, <2>2, Calendar DEF Passed, Time
<1>2. QED
  BY <1>1, QueueInvariant, PTL

(* ... and the alarm stands on the nearest enabled target                  *)
(* (schedule_next_compare).                                                *)
THEOREM NearestIsArmed == Spec => []ArmedForNearest
<1>1. IInv => ArmedForNearest
  <2> SUFFICES ASSUME IInv, Settled, ~disturbed, NEW i \in Slot, slots[i].enabled
               PROVE  /\ alarm.on /\ alarm.callback = "compare_tick"
                      /\ Ahead(now, alarm.target) <= Ahead(now, slots[i].target)
    BY DEF ArmedForNearest
  <2>1. AlarmStands /\ Nearest(slots, now, alarm.target)
    BY DEF IInv, Timely, StepsStand, Settled
  <2>2. Ahead(now, slots[i].target) \in Int /\ slots[i].target \in Time /\ now \in Time
    BY TypesAre, AheadValue, Calendar DEF IInv, Table
  <2>3. QED
    BY <2>1, <2>2 DEF AlarmStands, Nearest
<1>2. QED
  BY <1>1, QueueInvariant, PTL

(* Only what is due is dispatched, and what is due has passed.             *)
LEMMA DispatchDisables ==
  ASSUME NEW s \in Table, NEW n \in Time, NEW i \in Slot,
         s[i].enabled, ~Dispatched(s, n)[i].enabled
  PROVE  Ahead(s[i].target, n) < Cycle - Year
<1>1. i \in Due(s, n)
  BY DispatchedIs
<1>2. IsDue(n, s[i].target) /\ s[i].target \in Time
  BY <1>1 DEF Due, Table
<1>3. QED
  BY <1>2, DueValue

(* No timeout is used up before its target has passed, whatever            *)
(* disturbed the operations (target_timing, across the wrap of the years). *)
THEOREM NoCallbackIsEarly == Spec => NotBeforeItsTime
<1> DEFINE Kept == \A i \in Slot :
                     slots[i].enabled /\ ~slots'[i].enabled =>
                       Disable(i) \/ Passed(slots[i].target) \/ (main = "register" /\ op.slot = i)
<1>1. ASSUME TypeOK, Next, NEW i \in Slot, slots[i].enabled, ~slots'[i].enabled
      PROVE  Disable(i) \/ Passed(slots[i].target) \/ (main = "register" /\ op.slot = i)
  <2>1. slots \in Table /\ now \in Time /\ op.target \in Time /\ op.slot \in Slot
    BY <1>1, TypesAre DEF TypeOK
  <2>2. CASE AlarmInterrupt
    <3>1. slots' = Dispatched(slots, now)
      BY <1>1, <2>2 DEF AlarmInterrupt
    <3>2. QED
      BY <1>1, <2>1, <3>1, DispatchDisables DEF Passed
  <2>3. CASE Register /\ op.slot # i
    <3> DEFINE entered == [slots EXCEPT ![op.slot] = [target |-> op.target, enabled |-> TRUE]]
    <3>1. entered \in Table /\ entered[i] = slots[i]
      BY <2>1, <2>3 DEF Table
    <3>2. slots' = entered \/ slots' = Dispatched(entered, now)
      BY <2>3 DEF Register
    <3> HIDE DEF entered
    <3>3. slots' = Dispatched(entered, now)
      BY <1>1, <3>1, <3>2
    <3>4. Ahead(entered[i].target, now) < Cycle - Year
      BY <1>1, <2>1, <3>1, <3>3, DispatchDisables
    <3>5. QED
      BY <3>1, <3>4 DEF Passed
  <2>4. CASE Register /\ op.slot = i
    BY <2>4 DEF Register, MainMay
  <2>5. ASSUME NEW j \in Slot, Disable(j) PROVE Disable(i)
    BY <1>1, <2>1, <2>5 DEF Disable, Table
  <2>6. slots' # slots
    BY <1>1
  <2>7. QED
    BY <1>1, <2>2, <2>3, <2>4, <2>5, <2>6 DEF Next, SecondEdge, ClearFlag, HideSeconds,
       RegisterTimeout, SetDateTime, ScanNothing, ScanEarliest, WriteAlarm
<1>2. TypeOK /\ [Next]_vars => [Kept]_vars
  BY <1>1
<1>3. QED
  BY <1>2, QueueTypes, PTL DEF Spec, NotBeforeItsTime

-----------------------------------------------------------------------------
(* Dispatching leaves an enabled minute wake enabled: it is either not due *)
(* yet, or its callback registers the next minute.                         *)
LEMMA DispatchKeepsMinuteWake ==
  ASSUME NEW s, NEW n, s[MinuteSlot].enabled
  PROVE  Dispatched(s, n)[MinuteSlot].enabled
<1>1. CASE MinuteSlot \in Due(s, n)
  <2>1. Dispatched(s, n)[MinuteSlot] = [target |-> NextMinute(n), enabled |-> TRUE]
    BY <1>1, MinuteSlotExists DEF Dispatched
  <2>2. QED
    BY <2>1
<1>2. CASE MinuteSlot \notin Due(s, n)
  <2>1. Dispatched(s, n)[MinuteSlot] = s[MinuteSlot]
    BY <1>2, MinuteSlotExists DEF Dispatched
  <2>2. QED
    BY <2>1
<1>3. QED
  BY <1>1, <1>2

(* The minute wake recurs: no dispatch, no registration and no other       *)
(* slot's disable takes it out of the table.                               *)
THEOREM MinuteWakeIsNotLost == Spec => MinuteWakeRecurs
<1>1. TypeOK => slots \in Table
  BY TypesAre
<1>2. ASSUME TypeOK, Next, slots[MinuteSlot].enabled, ~slots'[MinuteSlot].enabled
      PROVE  Disable(MinuteSlot)
  <2>1. ~AlarmInterrupt
    <3> SUFFICES ASSUME AlarmInterrupt PROVE slots'[MinuteSlot].enabled
      BY <1>2
    <3>1. slots' = slots \/ slots' = Dispatched(slots, now)
      BY DEF AlarmInterrupt
    <3>2. QED
      BY <1>2, <3>1, DispatchKeepsMinuteWake
  <2>2. ~Register
    <3> SUFFICES ASSUME Register PROVE slots'[MinuteSlot].enabled
      BY <1>2
    <3> DEFINE entered == [slots EXCEPT ![op.slot] = [target |-> op.target, enabled |-> TRUE]]
    <3>1. slots' = entered \/ slots' = Dispatched(entered, now)
      BY DEF Register
    <3>2. entered[MinuteSlot].enabled
      BY <1>1, <1>2, MinuteSlotExists DEF Table
    <3>3. QED
      <4> HIDE DEF entered
      <4>1. QED
        BY <3>1, <3>2, DispatchKeepsMinuteWake
  <2>3. ASSUME NEW i \in Slot, Disable(i) PROVE i = MinuteSlot
    BY <1>1, <1>2, <2>3, MinuteSlotExists DEF Disable, Table
  <2>4. slots' # slots
    BY <1>2
  <2>5. QED
    BY <1>2, <2>1, <2>2, <2>3, <2>4 DEF Next, SecondEdge, ClearFlag, HideSeconds,
       RegisterTimeout, SetDateTime, ScanNothing, ScanEarliest, WriteAlarm
<1>3. TypeOK /\ [Next]_vars
        => [slots[MinuteSlot].enabled /\ ~slots'[MinuteSlot].enabled
              => Disable(MinuteSlot)]_vars
  BY <1>2
<1>4. QED
  BY <1>3, QueueTypes, PTL DEF Spec, MinuteWakeRecurs
=============================================================================
