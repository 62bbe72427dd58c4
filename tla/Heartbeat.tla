------------------------------- MODULE Heartbeat -------------------------------
(***************************************************************************)
(* The RTC heartbeat of src/src/movement/fault.rs: at every 1 Hz tick, or  *)
(* every minute wake, the packed clock register is compared with the one   *)
(* stored in a backup register, and a large difference is recorded as lost *)
(* time.                                                                   *)
(***************************************************************************)
EXTENDS PackedClock

CONSTANT HeartbeatLimit     \* the difference check_heartbeat tolerates

(* The source's relation (5 against fields of 64 for 60): what a carry into *)
(* the minutes adds is just tolerated, what one into the hours adds is not. *)
ASSUME HeartbeatAssumption ==
  /\ HeartbeatLimit \in Nat
  /\ HeartbeatLimit >= FieldWidth - MinuteSeconds + 1
  /\ HeartbeatLimit < FieldWidth * (FieldWidth - HourMinutes) + FieldWidth - MinuteSeconds + 1

VARIABLES
  now,             \* the RTC, in seconds
  rate,            \* the callback that checks: cb_tick or cb_minute_tick
  heartbeat,       \* REG_HEARTBEAT
  lostTime,        \* an RtcLostTime fault was recorded since the last clear
  missed,          \* history: seconds have passed without a check
  jumped           \* history: the clock was set since the last check

heartbeatVars == <<now, rate, heartbeat, lostTime, missed, jumped>>

(* Wrong on purpose: a minute's carry is taken for lost time.              *)
LostTimeStrict(t) ==
  heartbeat # 0 /\ WrappingSub(ToReg(t), heartbeat) >= HeartbeatLimit

(* check_heartbeat's test.                                                 *)
LostTime(t) ==
  heartbeat # 0 /\ WrappingSub(ToReg(t), heartbeat) > HeartbeatLimit

(* check_heartbeat, called by cb_tick and cb_minute_tick.                  *)
CheckHeartbeat(t) ==
  /\ lostTime' = (lostTime \/ LostTime(t))
  /\ heartbeat' = ToReg(t)

-----------------------------------------------------------------------------
HeartbeatInit ==
  /\ now \in Times /\ rate = "second"
  /\ heartbeat = 0 /\ lostTime = FALSE /\ missed = FALSE /\ jumped = FALSE

(* The RTC advances and the registered callback checks the heartbeat.      *)
CalendarAdvances ==
  /\ now' = (now + 1) % (MinuteSeconds * HourMinutes * Hours)
  /\ IF rate = "second" \/ SecondOf(now') = 0
       THEN CheckHeartbeat(now') /\ missed' = FALSE /\ jumped' = FALSE
       ELSE missed' = TRUE /\ UNCHANGED <<heartbeat, lostTime, jumped>>
  /\ UNCHANGED rate

(* set_tick_rate.                                                          *)
RateChanges ==
  /\ rate' = IF rate = "second" THEN "minute" ELSE "second"
  /\ UNCHANGED <<now, heartbeat, lostTime, missed, jumped>>

(* set_date_time.                                                          *)
CalendarSet ==
  /\ now' \in Times /\ jumped' = TRUE
  /\ UNCHANGED <<rate, heartbeat, lostTime, missed>>

(* clear_faults.                                                           *)
ClearFaults ==
  /\ lostTime' = FALSE
  /\ UNCHANGED <<now, rate, heartbeat, missed, jumped>>

(* A reset: main registers the 1 Hz tick; the backup register survives     *)
(* unless the power was lost, which also starts the RTC again.             *)
HeartbeatReset ==
  /\ rate' = "second"
  /\ \/ now' = 0 /\ heartbeat' = 0 /\ lostTime' = FALSE /\ missed' = FALSE /\ jumped' = FALSE
     \/ UNCHANGED <<now, heartbeat, lostTime, missed, jumped>>

HeartbeatNext == CalendarAdvances \/ RateChanges \/ CalendarSet \/ ClearFaults \/ HeartbeatReset

HeartbeatSpec == HeartbeatInit /\ [][HeartbeatNext]_heartbeatVars

-----------------------------------------------------------------------------
(* The register holds a packed time.                                       *)
HeartbeatTypeOK ==
  /\ now \in Times /\ rate \in {"second", "minute"}
  /\ heartbeat \in {0} \cup {ToReg(t) : t \in Times}
  /\ {lostTime, missed, jumped} \subseteq BOOLEAN

(* The checks of consecutive seconds, with a clock that only advances.     *)
ConsecutiveCheck ==
  rate = "second" /\ ~missed /\ ~jumped /\ heartbeat # 0 /\ heartbeat' \notin {0, heartbeat}

(* At 1 Hz a clock that only advances is taken for one that lost time at   *)
(* the carries into the hours, at each of them and nowhere else: the       *)
(* carry into the minutes stays just within the tolerance.                 *)
LostTimeAtHourCarries ==
  [][ConsecutiveCheck /\ ~lostTime => (lostTime' <=> HourOf(now') # HourOf(now))]_heartbeatVars
=============================================================================
