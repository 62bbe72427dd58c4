------------------------------- MODULE Calendar -------------------------------
(***************************************************************************)
(* The calendar of the real-time clock and the conversions of              *)
(* src/src/watch/utility.rs (src/core/src/utility.rs has the same ones),   *)
(* on which every face with a date, a time zone or a deadline relies.  The *)
(* clock chip counts the date up at each midnight; beside it `days` counts *)
(* the midnights themselves, and the conversions are held against it.      *)
(*                                                                         *)
(* Hours, minutes and seconds are one number, the units of time since      *)
(* midnight, and an offset is a number of units, negative to the west (the *)
(* code passes it as the u32 with the same bits).  A u32 time is in units  *)
(* too.  A date's year counts from 2020, as in DateTime; the functions     *)
(* that take a u16 year take it in full, as in the code.                   *)
(***************************************************************************)
EXTENDS Integers

CONSTANTS
  DayLength,          \* the units in a day: 86400 seconds in the code
  TimestampModulus,   \* the times a u32 tells apart: 2^32 seconds
  Moments,            \* the times of day that are converted
  Offsets             \* the UTC offsets they are converted with

(* A u32 lasts until 2106, and no zone is a day from UTC.                  *)
ASSUME CalendarAssumption ==
  /\ DayLength \in Nat \ {0}
  /\ TimestampModulus \in Nat /\ TimestampModulus >= 41640 * DayLength
  /\ Moments \subseteq 0 .. DayLength - 1
  /\ Offsets \subseteq -DayLength .. DayLength

VARIABLES
  today,   \* the date fields of the CLOCK register: [year, month, day]
  days     \* history: the midnights since the register showed 2020-01-01

calendarVars == <<today, days>>

WATCH_RTC_REFERENCE_YEAR == 2020
Years == 64   \* of a six-bit field, 2020 to 2083

-----------------------------------------------------------------------------
(* utility.rs: dates.                                                      *)
is_leap(y) == y % 4 = 0 /\ (y % 100 # 0 \/ y % 400 = 0)

DaysSoFar == <<0, 31, 59, 90, 120, 151, 181, 212, 243, 273, 304, 334>>

(* Wrong on purpose: January and February count in their own year.         *)
get_iso8601_weekday_number_own_year(year, month, day) ==
  LET y == year - WATCH_RTC_REFERENCE_YEAR + 20
      m == IF month <= 2 THEN month + 12 ELSE month
  IN ((day + (13 * (m + 1)) \div 5 + y + y \div 4 + 5) % 7) + 1

(* Monday is 1, Sunday 7: January and February count as the months 13 and  *)
(* 14 of the year before.                                                  *)
get_iso8601_weekday_number(year, month, day) ==
  LET y == year - WATCH_RTC_REFERENCE_YEAR + 20 - (IF month <= 2 THEN 1 ELSE 0)
      m == IF month <= 2 THEN month + 12 ELSE month
  IN ((day + (13 * (m + 1)) \div 5 + y + y \div 4 + 5) % 7) + 1

-----------------------------------------------------------------------------
(* utility.rs: UNIX times.                                                 *)

(* year_to_secs, in days from 1970 to the first of January of a year       *)
(* counted from 1900, and whether the year is a leap year: directly up to  *)
(* 2038, by cycles of 400 years after that.                                *)
year_to_secs(year) ==
  IF year - 2 <= 136
  THEN LET leap == (year - 68) % 4 = 0
       IN [leap |-> leap,
           days |-> 365 * (year - 70) + (year - 68) \div 4 - (IF leap THEN 1 ELSE 0)]
  ELSE LET rem == (year - 100) % 400
           r == rem % 100
           leap == IF r = 0 THEN rem = 0 ELSE r % 4 = 0
           leaps == r \div 4 + 97 * ((year - 100) \div 400) + 24 * (rem \div 100)
                      - (IF leap THEN 1 ELSE 0)
       IN [leap |-> leap, days |-> 365 * (year - 100) + leaps + 10957 + 1]

(* month_to_secs, in days; the month is counted from zero.                 *)
month_to_secs(month, leap) ==
  DaysSoFar[month + 1] + (IF leap /\ month >= 2 THEN 1 ELSE 0)

(* convert_to_unix_time by way of date_time_to_unix_time.                  *)
date_time_to_unix_time(date_time, utc_offset) ==
  LET y == year_to_secs(date_time.year + WATCH_RTC_REFERENCE_YEAR - 1900)
      day == y.days + month_to_secs(date_time.month - 1, y.leap) + date_time.day - 1
  IN (day * DayLength + date_time.time - utc_offset) % TimestampModulus

(* The first of March of 2000, in days from 1970.                          *)
LEAPOCH == 10957 + 31 + 29
DAYS_PER_400Y == 365 * 400 + 97
DAYS_PER_100Y == 365 * 100 + 24
DAYS_PER_4Y == 365 * 4 + 1

(* The days before each month of a year that starts in March, the sums of  *)
(* DAYS_IN_MONTH, up to the end of the last.                               *)
DaysFromMarch == <<0, 31, 61, 92, 122, 153, 184, 214, 245, 275, 306, 337, 366>>

AtMost(n, limit) == IF n > limit THEN limit ELSE n

(* Wrong on purpose: the last day of four years starts a fifth.            *)
YearAndDayOverrun(since) ==
  LET in400 == since % DAYS_PER_400Y
      c_cycles == AtMost(in400 \div DAYS_PER_100Y, 3)
      in100 == in400 - c_cycles * DAYS_PER_100Y
      q_cycles == AtMost(in100 \div DAYS_PER_4Y, 24)
      in4 == in100 - q_cycles * DAYS_PER_4Y
      remyears == in4 \div 365
  IN [years |-> remyears + 4 * q_cycles + 100 * c_cycles + 400 * (since \div DAYS_PER_400Y),
      remdays |-> in4 - remyears * 365]

(* The year from the first of March of 2000 on that a day lies in, and the *)
(* day within it.  The last day of a cycle belongs to the cycle.           *)
YearAndDay(since) ==
  LET in400 == since % DAYS_PER_400Y
      c_cycles == AtMost(in400 \div DAYS_PER_100Y, 3)
      in100 == in400 - c_cycles * DAYS_PER_100Y
      q_cycles == AtMost(in100 \div DAYS_PER_4Y, 24)
      in4 == in100 - q_cycles * DAYS_PER_4Y
      remyears == AtMost(in4 \div 365, 3)
  IN [years |-> remyears + 4 * q_cycles + 100 * c_cycles + 400 * (since \div DAYS_PER_400Y),
      remdays |-> in4 - remyears * 365]

(* What date_time_from_unix_time answers when it cannot answer.            *)
NoDate == [year |-> 0, month |-> 0, day |-> 0, time |-> 0]

date_time_from_unix_time(timestamp, utc_offset) ==
  LET secs == timestamp + utc_offset - LEAPOCH * DayLength
      march == YearAndDay(secs \div DayLength)
      m == CHOOSE n \in 0 .. 11 :
             DaysFromMarch[n + 1] <= march.remdays /\ march.remdays < DaysFromMarch[n + 2]
      year == march.years + 2000 + (IF m >= 10 THEN 1 ELSE 0)
  IN IF year \notin 2020 .. 2083 THEN NoDate
     ELSE [year |-> year - WATCH_RTC_REFERENCE_YEAR,
           month |-> (IF m >= 10 THEN m - 10 ELSE m + 2) + 1,
           day |-> march.remdays - DaysFromMarch[m + 1] + 1,
           time |-> secs % DayLength]

date_time_convert_zone(date_time, origin_utc_offset, destination_utc_offset) ==
  date_time_from_unix_time(date_time_to_unix_time(date_time, origin_utc_offset),
                           destination_utc_offset)

-----------------------------------------------------------------------------
(* The clock chip's calendar: every fourth year is a leap year.            *)
MonthLength(year, month) ==
  CASE month = 2 -> IF year % 4 = 0 THEN 29 ELSE 28
    [] month \in {4, 6, 9, 11} -> 30
    [] OTHER -> 31

Date == {d \in [year : 0 .. Years - 1, month : 1 .. 12, day : 1 .. 31] :
           d.day <= MonthLength(d.year, d.month)}

CalendarInit ==
  /\ today = [year |-> 0, month |-> 1, day |-> 1]
  /\ days = 0

NextDay ==
  /\ today.day < MonthLength(today.year, today.month)
  /\ today' = [today EXCEPT !.day = @ + 1]
  /\ days' = days + 1

NextMonth ==
  /\ today.day = MonthLength(today.year, today.month)
  /\ today.month < 12
  /\ today' = [today EXCEPT !.month = @ + 1, !.day = 1]
  /\ days' = days + 1

(* After its last year the register starts over.                           *)
NextYear ==
  /\ today.month = 12 /\ today.day = 31
  /\ today' = [year |-> (today.year + 1) % Years, month |-> 1, day |-> 1]
  /\ days' = IF today.year = Years - 1 THEN 0 ELSE days + 1

Midnight == NextDay \/ NextMonth \/ NextYear

CalendarSpec == CalendarInit /\ [][Midnight]_calendarVars

-----------------------------------------------------------------------------
At(date, time) == [year |-> date.year, month |-> date.month, day |-> date.day, time |-> time]

FullYear == today.year + WATCH_RTC_REFERENCE_YEAR

CountedDays == 23376   \* of the register's 64 years

CalendarTypeOK == today \in Date /\ days \in 0 .. CountedDays - 1

(* The first of January of 2020 was a Wednesday.                           *)
CountedWeekday == ((days + 2) % 7) + 1

(* Counting midnights: the weekday and the UNIX time that the code         *)
(* computes from the date, through its leap years and its two formulas for *)
(* the years before and after 2038, are those reached by counting.         *)
CalendarAgrees ==
  /\ get_iso8601_weekday_number(FullYear, today.month, today.day) = CountedWeekday
  /\ \A time \in Moments, offset \in Offsets :
       date_time_to_unix_time(At(today, time), offset)
         = (18262 + days) * DayLength + time - offset

(* A time in one zone, converted to another, is that zone's time: it       *)
(* converts back to the same one, and at the same offset it is the same.   *)
(* Only a time before 2020 or after 2083 there has no date.                *)
ConversionsAgree ==
  \A time \in Moments, origin \in Offsets, destination \in Offsets :
    LET here == At(today, time)
        there == date_time_convert_zone(here, origin, destination)
    IN IF days * DayLength + time - origin + destination \in 0 .. CountedDays * DayLength - 1
       THEN /\ date_time_convert_zone(there, destination, origin) = here
            /\ origin = destination => there = here
       ELSE there = NoDate
=============================================================================
