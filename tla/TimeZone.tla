------------------------------- MODULE TimeZone -------------------------------
(***************************************************************************)
(* The time zones over the calendar: the rules of summer time in           *)
(* src/src/watch/utz.rs, over the tables of src/src/watch/zones.rs, and    *)
(* the local time that src/src/movement/mod.rs makes with them.  The       *)
(* calendar is Calendar's; `inForce` follows the rules of each zone from   *)
(* one midnight to the next, for the computed rules to be held against.    *)
(*                                                                         *)
(* A zone is [offset, rules]: the offset in quarters of an hour            *)
(* (offset_inc_minutes) and the rules of its slice of ZONE_RULES, in order *)
(* of their months.  The letters of the rules are left out, and so are the *)
(* minutes of their hours, which are zero in every rule.                   *)
(***************************************************************************)
EXTENDS Calendar, Sequences

CONSTANT Zones

(* What every slice of ZONE_RULES satisfies: at most four rules, one a     *)
(* month, on a day that each year has, and without an end.                 *)
ASSUME TimeZoneAssumption ==
  /\ DayLength % 1440 = 0
  /\ \A z \in Zones :
       /\ z.offset \in -56 .. 56
       /\ z.rules \in Seq([from_year : Nat, to_year : Nat, on_dayofweek : 0 .. 7,
                           on_dayofmonth : 0 .. 31, in_month : 1 .. 12, at_hours : 0 .. 23,
                           offset_hours : Nat])
       /\ Len(z.rules) <= 4
       /\ \A i, j \in 1 .. Len(z.rules) : i < j => z.rules[i].in_month < z.rules[j].in_month
       /\ \A i \in 1 .. Len(z.rules) :
            LET r == z.rules[i] IN
            /\ r.to_year >= 20 + Years
            /\ r.on_dayofweek = 0 => r.on_dayofmonth \in 1 .. 28
            /\ r.on_dayofweek # 0 => r.on_dayofmonth + 6 <= MonthLength(1, r.in_month)

VARIABLE inForce   \* history: the summer time of each zone when the day begins, in hours

zoneVars == <<calendarVars, inForce>>

Minute == DayLength \div 1440
Hour == DayLength \div 24

-----------------------------------------------------------------------------
(* utz.rs; years count from 2000.                                          *)
MonthOffset == <<0, 3, 2, 5, 0, 3, 5, 1, 4, 6, 2, 4>>

(* Monday is 1, Sunday 7.                                                  *)
dayofweek(y, m, d) ==
  LET year == y + 2000 - (IF m < 3 THEN 1 ELSE 0)
      dow == (year + year \div 4 - year \div 100 + 2000 \div 400 + MonthOffset[m] + d) % 7
  IN IF dow = 0 THEN 7 ELSE dow

days_in_month(y, m) == (IF m = 2 /\ is_leap(y + 2000) THEN 29 ELSE MonthLength(1, m))

next_dayofweek_offset(cur, target) == (7 + target - cur) % 7

(* Wrong on purpose: the last such day is the fourth.                      *)
unpack_rule_fourth(r, cur_year) ==
  [month |-> r.in_month, hour |-> r.at_hours, offset_hours |-> r.offset_hours,
   day |->
     IF r.on_dayofweek = 0 THEN r.on_dayofmonth
     ELSE IF r.on_dayofmonth = 0
     THEN 22 + next_dayofweek_offset(dayofweek(cur_year, r.in_month, 1), r.on_dayofweek)
     ELSE r.on_dayofmonth + next_dayofweek_offset(
            dayofweek(cur_year, r.in_month, r.on_dayofmonth), r.on_dayofweek)]

(* The day of a rule in a year: a day of the month, the last such weekday  *)
(* of the month, or the first one from a day on.                           *)
unpack_rule(r, cur_year) ==
  LET fourth == 22 + next_dayofweek_offset(dayofweek(cur_year, r.in_month, 1), r.on_dayofweek)
      fits == fourth + 7 <= days_in_month(cur_year, r.in_month)
  IN [month |-> r.in_month, hour |-> r.at_hours, offset_hours |-> r.offset_hours,
      day |->
        IF r.on_dayofweek = 0 THEN r.on_dayofmonth
        ELSE IF r.on_dayofmonth = 0 THEN (IF fits THEN fourth + 7 ELSE fourth)
        ELSE r.on_dayofmonth + next_dayofweek_offset(
               dayofweek(cur_year, r.in_month, r.on_dayofmonth), r.on_dayofweek)]

Applies(r, cur_year) == r.from_year <= cur_year /\ cur_year <= r.to_year

(* unpack_rules' baseline, in force when the year begins: of the rules of  *)
(* the year and the first of all, the first with the last month.           *)
Baseline(rules, cur_year) ==
  LET candidates == {1} \cup {i \in 1 .. Len(rules) : Applies(rules[i], cur_year)}
  IN CHOOSE i \in candidates :
       \A j \in candidates :
         /\ rules[j].in_month <= rules[i].in_month
         /\ rules[j].in_month = rules[i].in_month => i <= j

(* udatetime_cmp: the date and time are not before the rule's.             *)
Reached(rule, date_time) ==
  \/ rule.month < date_time.month
  \/ /\ rule.month = date_time.month
     /\ \/ rule.day < date_time.day
        \/ rule.day = date_time.day /\ rule.hour * Hour <= date_time.time

Latest(indices) == CHOOSE i \in indices : \A j \in indices : j <= i

(* The hours that get_current_offset adds to the zone's: those of the last *)
(* rule of the year before the first that is not reached, get_active_rule. *)
SummerHours(rules, cur_year, date_time) ==
  LET current == {i \in 1 .. Len(rules) : Applies(rules[i], cur_year)}
      ahead == {i \in current : ~Reached(unpack_rule(rules[i], cur_year), date_time)}
      reached == {i \in current : \A j \in ahead : i < j}
  IN IF reached = {} THEN rules[Baseline(rules, cur_year)].offset_hours
     ELSE rules[Latest(reached)].offset_hours

-----------------------------------------------------------------------------
(* mod.rs.                                                                 *)
Abs(n) == IF n < 0 THEN -n ELSE n

(* get_current_timezone_offset_for_zone.  Its doc says minutes; it answers *)
(* in seconds.  A zone with rules is split into hours and minutes first,   *)
(* the minutes without the sign, and its rules are asked about the year    *)
(* counted from 2020, where utz counts from 2000 (date_time_to_udate).     *)
get_current_timezone_offset_for_zone(utc, z) ==
  LET base == z.offset * 15
      local == date_time_from_unix_time(date_time_to_unix_time(utc, 0), base * Minute)
      hours == IF base < 0 THEN -(Abs(base) \div 60) ELSE base \div 60
  IN IF z.rules = <<>> THEN base * 60
     ELSE ((hours + SummerHours(z.rules, local.year, local)) * 60 + (Abs(base) % 60)) * 60

(* get_local_date_time and get_date_time_in_zone take the offset for       *)
(* minutes, and make it sixty times as many seconds.                       *)
get_date_time_in_zone(utc, z) ==
  date_time_convert_zone(utc, 0, get_current_timezone_offset_for_zone(utc, z) * Minute)

-----------------------------------------------------------------------------
(* The rules followed by counting: a rule's day is known by its weekday    *)
(* and its place in the month, and from its hour on the rule is in force.  *)
IsDayOf(r) ==
  /\ Applies(r, FullYear - 2000)
  /\ today.month = r.in_month
  /\ IF r.on_dayofweek = 0 THEN today.day = r.on_dayofmonth
     ELSE /\ CountedWeekday = r.on_dayofweek
          /\ IF r.on_dayofmonth = 0
             THEN today.day + 7 > MonthLength(today.year, today.month)
             ELSE today.day \in r.on_dayofmonth .. r.on_dayofmonth + 6

(* The summer time of a zone at a time of today.                           *)
CountedHours(z, time) ==
  LET due == {i \in 1 .. Len(z.rules) : IsDayOf(z.rules[i]) /\ z.rules[i].at_hours * Hour <= time}
  IN IF due = {} THEN inForce[z] ELSE z.rules[CHOOSE i \in due : TRUE].offset_hours

ZoneInit ==
  /\ CalendarInit
  /\ inForce = [z \in Zones |-> IF z.rules = <<>> THEN 0
                                ELSE z.rules[Len(z.rules)].offset_hours]

ZoneMidnight == Midnight /\ inForce' = [z \in Zones |-> CountedHours(z, DayLength)]

ZoneSpec == ZoneInit /\ [][ZoneMidnight]_zoneVars

-----------------------------------------------------------------------------
ZoneTypeOK == CalendarTypeOK /\ inForce \in [Zones -> Nat]

(* From the year after all rules of a zone have begun, the summer time     *)
(* that utz computes from a date alone is the one reached by following the *)
(* calendar: each change on its weekday and at its hour, none missed, and  *)
(* the new year begun with what was in force when the old one ended.       *)
DstFollowsRules ==
  \A z \in Zones, time \in Moments :
    (z.rules # <<>> /\ \A i \in 1 .. Len(z.rules) : z.rules[i].from_year < FullYear - 2000)
      => SummerHours(z.rules, FullYear - 2000, At(today, time)) = CountedHours(z, time)

(* "Returns the date/time in the given zone index" (get_date_time_in_zone, *)
(* src/src/movement/mod.rs): in a zone without summer time, the time there *)
(* is UTC and the offset of the zone.                                      *)
LocalTimeIsInZone ==
  \A z \in Zones, time \in Moments :
    z.rules = <<>> =>
      get_date_time_in_zone(At(today, time), z)
        = date_time_convert_zone(At(today, time), 0, z.offset * 15 * Minute)
=============================================================================
