----------------------------- MODULE CompareQueue -----------------------------
(***************************************************************************)
(* The compare-callback queue of src/src/watch/rtc.rs over the one alarm   *)
(* of the RTC, ALARM0, and its user in movement/mod.rs: set_tick_rate and  *)
(* the recurring minute wake.  The per-minute background alarm of          *)
(* app_setup starts out in the same ALARM0.                                *)
(*                                                                         *)
(* The main loop registers and disables callbacks step by step - it reads  *)
(* the clock, changes the table, reads the clock again to look for the     *)
(* earliest target, and writes the alarm - and a second edge, or the       *)
(* alarm's interrupt, may come between any two of those steps.             *)
(* `disturbed` remembers that a second edge did, or that the clock was set *)
(* to another time under the targets that stood.                           *)
(***************************************************************************)
EXTENDS Integers, FiniteSets

CONSTANTS
  Slots,          \* N_COMP_CB; slot Slots - 1 is MINUTE_WAKE_INDEX
  Minute, Day,    \* their lengths in seconds
  Year, Years,    \* length of a year, and how many the RTC counts before it wraps
  Horizon         \* bound: how far ahead a timeout is registered

ASSUME CompareQueueAssumption ==
  /\ {Slots, Minute, Day, Year, Years} \subseteq Nat \ {0}
  /\ Day % Minute = 0 /\ Year % Day = 0 /\ Years > 1
  /\ Horizon \in 0 .. Year

Slot == 0 .. Slots - 1
MinuteSlot == Slots - 1
Cycle == Year * Years               \* RTC_YEAR_CYCLE_SECONDS
Time == 0 .. Cycle - 1              \* a packed DateTime

VARIABLES
  now,        \* the RTC calendar
  slots,      \* COMP_CALLBACKS: target and enabled, by slot
  alarm,      \* ALARM0: target, mask, ALARM_CALLBACK, and whether INTENSET has it
  flag,       \* INTFLAG.ALARM0
  isr,        \* "clear": the handler has yet to clear the flag
  main,       \* where the main loop's operation stands
  op,         \* its operands: the slot and target it works with
  disturbed,  \* history: see above
  served      \* history: cb_alarm_fired has run

vars == <<now, slots, alarm, flag, isr, main, op, disturbed, served>>

-----------------------------------------------------------------------------
(* target_timing.  A target before now is due, except that in the last     *)
(* year a target of year 0 belongs to the next cycle.                      *)
YearOf(t) == t \div Year
NextCycle(n, t) == YearOf(n) = Years - 1 /\ YearOf(t) = 0

(* Wrong on purpose: the years compared as they stand.                     *)
IsDueSameCycle(n, t) == t <= n

IsDue(n, t) == t <= n /\ ~NextCycle(n, t)

(* The timestamp a future target is ordered by.                            *)
Timestamp(n, t) == IF t <= n THEN t + Cycle ELSE t

(* The slots schedule_next_compare considers at second n, and its choice.  *)
Pending(s, n) == {i \in Slot : s[i].enabled /\ ~IsDue(n, s[i].target)}

(* Wrong on purpose: the first pending slot taken for the earliest.        *)
EarliestIsFirst(s, n) ==
  s[CHOOSE i \in Pending(s, n) : \A j \in Pending(s, n) : i <= j].target

Earliest(s, n) ==
  s[CHOOSE i \in Pending(s, n) :
      \A j \in Pending(s, n) : Timestamp(n, s[i].target) <= Timestamp(n, s[j].target)].target

(* Wrong on purpose: the last minute of the cycle not wrapped.             *)
NextMinuteUnwrapped(n) == ((n \div Minute) + 1) * Minute

(* next_minute_target.                                                     *)
NextMinute(n) == (((n \div Minute) + 1) * Minute) % Cycle

(* register_alarm_callback, by way of schedule_wakeup(compare_tick, t).    *)
Wakeup(t) == [target |-> t, mask |-> "HhMmSs", callback |-> "compare_tick", on |-> TRUE]

(* schedule_next_compare run to its end at second n.                       *)
Armed(s, n) == IF Pending(s, n) = {} THEN alarm ELSE Wakeup(Earliest(s, n))

(* dispatch_due_callbacks at second n: the due slots are disabled before   *)
(* any callback runs; cb_minute_tick then registers the next minute.  What *)
(* the callbacks post to the event queue is Dispatcher's business.         *)
Due(s, n) == {i \in Slot : s[i].enabled /\ IsDue(n, s[i].target)}

(* Wrong on purpose: the callback's new registration undone by a disable   *)
(* that comes after it.                                                    *)
DispatchedThenDisabled(s, n) ==
  [i \in Slot |-> IF i \in Due(s, n) THEN [s[i] EXCEPT !.enabled = FALSE] ELSE s[i]]

Dispatched(s, n) ==
  [i \in Slot |->
     IF i \notin Due(s, n) THEN s[i]
     ELSE IF i = MinuteSlot THEN [target |-> NextMinute(n), enabled |-> TRUE]
     ELSE [s[i] EXCEPT !.enabled = FALSE]]

-----------------------------------------------------------------------------
(* After app_setup's register_alarm_callback(cb_alarm_fired, second 59).   *)
Init ==
  /\ now \in Time
  /\ slots = [i \in Slot |-> [target |-> 0, enabled |-> FALSE]]
  /\ alarm = [target |-> Minute - 1, mask |-> "Ss", callback |-> "cb_alarm_fired", on |-> TRUE]
  /\ flag = FALSE /\ isr = "idle"
  /\ main = "idle" /\ op = [slot |-> 0, target |-> 0]
  /\ disturbed = FALSE /\ served = FALSE

Matches(a, t) ==
  IF a.mask = "Ss" THEN t % Minute = a.target % Minute ELSE t % Day = a.target % Day

Interrupting == flag /\ alarm.on /\ isr = "idle"

(* The clock advances.  The alarm's flag is raised by a match whether or   *)
(* not its interrupt is enabled.  A pending interrupt is served, and an    *)
(* operation of the main loop finished, within a second.  Bound: one       *)
(* operation in a behaviour is disturbed.                                  *)
SecondEdge ==
  /\ ~Interrupting
  /\ ~(disturbed /\ main # "idle")
  /\ now' = (now + 1) % Cycle
  /\ flag' = (flag \/ Matches(alarm, now'))
  /\ disturbed' = (disturbed \/ main # "idle" \/ isr # "idle")
  /\ UNCHANGED <<slots, alarm, isr, main, op, served>>

(* The RTC handler: ALARM0 is disabled, then its callback runs ...         *)
AlarmInterrupt ==
  /\ Interrupting
  /\ IF alarm.callback = "cb_alarm_fired"
       THEN /\ served' = TRUE
            /\ alarm' = [alarm EXCEPT !.on = FALSE]
            /\ UNCHANGED slots
       ELSE /\ slots' = Dispatched(slots, now)
            /\ alarm' = IF Pending(slots', now) = {} THEN [alarm EXCEPT !.on = FALSE]
                        ELSE Armed(slots', now)
            /\ UNCHANGED served
  /\ isr' = "clear"
  /\ UNCHANGED <<now, flag, main, op, disturbed>>

(* ... and the flag is cleared last.                                       *)
ClearFlag ==
  /\ isr = "clear"
  /\ isr' = "idle" /\ flag' = FALSE
  /\ UNCHANGED <<now, slots, alarm, main, op, disturbed, served>>

-----------------------------------------------------------------------------
(* The main loop's operations; the interrupt handler preempts them.        *)
MainMay(step) == main = step /\ isr = "idle" /\ ~Interrupting

(* set_tick_rate(false): arm_minute_wake reads the clock for its target.   *)
HideSeconds ==
  /\ MainMay("idle")
  /\ op' = [slot |-> MinuteSlot, target |-> NextMinute(now)]
  /\ main' = "register"
  /\ UNCHANGED <<now, slots, alarm, flag, isr, disturbed, served>>

(* set_tick_rate(true) and disable_timeout: disable_comp_callback.         *)
Disable(i) ==
  /\ MainMay("idle")
  /\ slots' = [slots EXCEPT ![i].enabled = FALSE]
  /\ main' = "scan"
  /\ UNCHANGED <<now, alarm, flag, isr, op, disturbed, served>>

(* register_timeout, for a target up to Horizon seconds ahead.             *)
RegisterTimeout(i, ahead) ==
  /\ MainMay("idle")
  /\ op' = [slot |-> i, target |-> (now + ahead) % Cycle]
  /\ main' = "register"
  /\ UNCHANGED <<now, slots, alarm, flag, isr, disturbed, served>>

(* set_date_time, from any of the faces that set the clock, the shell or   *)
(* the optical time synchronisation: the register is written, the targets  *)
(* and the alarm stay as they are.  The alarm may match the written time.  *)
SetDateTime(t) ==
  /\ MainMay("idle")
  /\ now' = t /\ disturbed' = TRUE
  /\ flag' \in {flag, flag \/ Matches(alarm, t)}
  /\ UNCHANGED <<slots, alarm, isr, main, op, served>>

(* register_comp_callback_at, with a clock reading of its own: a target    *)
(* that is due by now is dispatched at once.                               *)
Register ==
  /\ MainMay("register")
  /\ LET entered == [slots EXCEPT ![op.slot] = [target |-> op.target, enabled |-> TRUE]] IN
     IF IsDue(now, op.target)
       THEN /\ slots' = Dispatched(entered, now)
            /\ alarm' = IF MinuteSlot \in Due(entered, now) THEN Armed(slots', now) ELSE alarm
       ELSE slots' = entered /\ UNCHANGED alarm
  /\ main' = "scan"
  /\ UNCHANGED <<now, flag, isr, op, disturbed, served>>

(* schedule_next_compare: the table is scanned against one more reading,   *)
ScanNothing ==
  /\ MainMay("scan")
  /\ Pending(slots, now) = {}
  /\ main' = "idle"
  /\ op' = [slot |-> 0, target |-> 0]
  /\ UNCHANGED <<now, slots, alarm, flag, isr, disturbed, served>>

ScanEarliest ==
  /\ MainMay("scan")
  /\ Pending(slots, now) # {}
  /\ op' = [slot |-> 0, target |-> Earliest(slots, now)]
  /\ main' = "write"
  /\ UNCHANGED <<now, slots, alarm, flag, isr, disturbed, served>>

(* and the alarm is written.                                               *)
WriteAlarm ==
  /\ MainMay("write")
  /\ alarm' = Wakeup(op.target)
  /\ main' = "idle"
  /\ op' = [slot |-> 0, target |-> 0]
  /\ UNCHANGED <<now, slots, flag, isr, disturbed, served>>

Next ==
  \/ SecondEdge
  \/ AlarmInterrupt
  \/ ClearFlag
  \/ HideSeconds
  \/ \E i \in Slot : Disable(i)
  \/ \E i \in Slot \ {MinuteSlot}, ahead \in 0 .. Horizon : RegisterTimeout(i, ahead)
  \/ \E t \in Time : SetDateTime(t)
  \/ Register
  \/ ScanNothing
  \/ ScanEarliest
  \/ WriteAlarm

Spec == Init /\ [][Next]_vars

-----------------------------------------------------------------------------
(* Every target, in the table, in the alarm or under way, is a date the    *)
(* RTC can show: register_comp_callback and schedule_wakeup refuse any     *)
(* other.                                                                  *)
TypeOK ==
  /\ now \in Time
  /\ slots \in [Slot -> [target : Time, enabled : BOOLEAN]]
  /\ alarm \in [target : Time, mask : {"Ss", "HhMmSs"},
                callback : {"cb_alarm_fired", "compare_tick"}, on : BOOLEAN]
  /\ flag \in BOOLEAN /\ isr \in {"idle", "clear"}
  /\ main \in {"idle", "register", "scan", "write"}
  /\ op \in [slot : Slot, target : Time]
  /\ {disturbed, served} \subseteq BOOLEAN

(* Seconds from a to b, going forward round the RTC's cycle; a target at   *)
(* most a year ahead has yet to come, any other has passed.                *)
Ahead(a, b) == (b - a) % Cycle
Passed(t) == Ahead(t, now) < Cycle - Year

Settled == main = "idle" /\ isr = "idle" /\ ~Interrupting

(* As long as no second edge fell into an operation and nobody set the     *)
(* clock, a callback runs in the very second it was registered for, also   *)
(* across the wrap of the RTC's years: at rest no enabled slot has passed. *)
NoSlotIsLate ==
  Settled /\ ~disturbed => \A i \in Slot : slots[i].enabled => ~Passed(slots[i].target)

(* ... and the alarm then stands on the nearest enabled target, so that    *)
(* the wake is not put off to the next day's match of an older one.        *)
ArmedForNearest ==
  Settled /\ ~disturbed =>
    \A i \in Slot : slots[i].enabled =>
      /\ alarm.on /\ alarm.callback = "compare_tick"
      /\ Ahead(now, alarm.target) <= Ahead(now, slots[i].target)

(* The minute wake recurs: once registered, whatever else is registered,   *)
(* disabled or dispatched, only set_tick_rate(true) ends it.               *)
MinuteWakeRecurs ==
  [][slots[MinuteSlot].enabled /\ ~slots'[MinuteSlot].enabled => Disable(MinuteSlot)]_vars

(* No timeout is used up before its target has passed, unless it was       *)
(* disabled or registered anew.                                            *)
NotBeforeItsTime ==
  [][\A i \in Slot :
       slots[i].enabled /\ ~slots'[i].enabled =>
         Disable(i) \/ Passed(slots[i].target) \/ (main = "register" /\ op.slot = i)]_vars

(* set_tick_rate's comment: the minute wake "does not clobber the per-     *)
(* minute background alarm callback".  It does: both use ALARM0, so that   *)
(* hiding the seconds before the alarm has fired loses it.                 *)
BackgroundAlarmKept == disturbed \/ served \/ alarm.callback = "cb_alarm_fired"
=============================================================================
