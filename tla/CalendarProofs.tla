---------------------------- MODULE CalendarProofs ----------------------------
(***************************************************************************)
(* Proofs about the calendar, its conversions and the rules of summer      *)
(* time, for every length of the day, every set of moments and offsets and *)
(* every set of zones that TimeZoneAssumption allows.                      *)
(*                                                                         *)
(* DayNumber gives the days before a date in closed form.  CalendarInv     *)
(* says that `days` is that number of `today`; the weekday, the UNIX time  *)
(* and the date reached again from it are then arithmetic on DayNumber.    *)
(* ZoneInv adds what `inForce` is, by the same closed form, in a year in   *)
(* which all rules of a zone apply: the last rule whose day of this year   *)
(* has passed, or the last of the rules when none has.                     *)
(***************************************************************************)
EXTENDS TimeZone, SequenceTheorems, TLAPS

(* A year's leap day, and the days from 2020-01-01 to a date.              *)
LeapDay(y) == IF y % 4 = 0 THEN 1 ELSE 0

BeforeMonth(y, m) == DaysSoFar[m] + (IF m > 2 THEN LeapDay(y) ELSE 0)

DayNumber(y, m, d) == 365 * y + (y + 3) \div 4 + BeforeMonth(y, m) + d - 1

LEMMA MonthNumbers ==
  ASSUME NEW m \in 1 .. 12
  PROVE  /\ m = 1 \/ m = 2 \/ m = 3 \/ m = 4 \/ m = 5 \/ m = 6 \/ m = 7 \/ m = 8 \/ m = 9 \/ m = 10
            \/ m = 11 \/ m = 12
         /\ DaysSoFar[m] \in 0 .. 334
<1>1. m = 1 \/ m = 2 \/ m = 3 \/ m = 4 \/ m = 5 \/ m = 6 \/ m = 7 \/ m = 8 \/ m = 9 \/ m = 10
      \/ m = 11 \/ m = 12
  OBVIOUS
<1>2. QED
  BY <1>1 DEF DaysSoFar

(* The years' leap days: one in four years.                                *)
LEMMA LeapDays ==
  ASSUME NEW y \in Int
  PROVE  /\ LeapDay(y) \in 0 .. 1
         /\ (y + 3) \div 4 + LeapDay(y) = y \div 4 + 1
         /\ (y + 4) \div 4 = (y + 3) \div 4 + LeapDay(y)
  BY DEF LeapDay

LEMMA MonthLengths ==
  ASSUME NEW y \in Int, NEW m \in 1 .. 12
  PROVE  /\ MonthLength(y, m) \in 28 .. 31
         /\ BeforeMonth(y, m) \in Nat
         /\ BeforeMonth(y, m) + MonthLength(y, m) <= 365 + LeapDay(y)
<1>1. DaysSoFar[m] \in 0 .. 334
  BY MonthNumbers
<1>2. LeapDay(y) \in 0 .. 1
  BY LeapDays
<1>3. CASE m = 2
  BY <1>3 DEF MonthLength, DaysSoFar, LeapDay, BeforeMonth
<1>4. CASE m = 1
  BY <1>4, <1>2 DEF MonthLength, DaysSoFar, BeforeMonth
<1>5. CASE m \in 3 .. 12
  <2>1. MonthLength(y, m) \in 28 .. 31 /\ DaysSoFar[m] + MonthLength(y, m) <= 365
    BY <1>5, MonthNumbers DEF MonthLength, DaysSoFar
  <2>2. QED
    BY <1>1, <1>2, <1>5, <2>1 DEF BeforeMonth
<1>6. QED
  BY <1>3, <1>4, <1>5

LEMMA MonthsFollow ==
  ASSUME NEW y \in Int, NEW m \in 1 .. 11
  PROVE  BeforeMonth(y, m + 1) = BeforeMonth(y, m) + MonthLength(y, m)
<1>1. LeapDay(y) \in 0 .. 1
  BY LeapDays
<1>2. CASE m = 1
  BY <1>1, <1>2 DEF MonthLength, DaysSoFar, BeforeMonth
<1>3. CASE m = 2
  BY <1>3 DEF MonthLength, DaysSoFar, LeapDay, BeforeMonth
<1>4. CASE m \in 3 .. 11
  <2>1. m = 3 \/ m = 4 \/ m = 5 \/ m = 6 \/ m = 7 \/ m = 8 \/ m = 9 \/ m = 10 \/ m = 11
    BY <1>4
  <2>2. DaysSoFar[m + 1] = DaysSoFar[m] + MonthLength(y, m)
    BY <2>1 DEF MonthLength, DaysSoFar
  <2>3. m \in 1 .. 12
    OBVIOUS
  <2>4. DaysSoFar[m] \in 0 .. 334
    BY <2>3, MonthNumbers
  <2>5. MonthLength(y, m) \in 28 .. 31
    BY <2>3, MonthLengths
  <2>6. QED
    BY <1>1, <1>4, <2>2, <2>4, <2>5 DEF BeforeMonth
<1>5. QED
  BY <1>2, <1>3, <1>4

(* The date and the count of the midnights belong together.                *)
CalendarInv ==
  /\ today \in Date
  /\ days = DayNumber(today.year, today.month, today.day)

LEMMA DateFields ==
  ASSUME NEW date \in Date
  PROVE  /\ date.year \in 0 .. 63 /\ date.month \in 1 .. 12
         /\ date.day \in 1 .. MonthLength(date.year, date.month)
         /\ date = [year |-> date.year, month |-> date.month, day |-> date.day]
  BY DEF Date, Years, MonthLength

LEMMA CalendarInitInv == CalendarInit => CalendarInv
  BY DEF CalendarInit, CalendarInv, Date, Years, MonthLength, DayNumber, BeforeMonth, DaysSoFar

LEMMA CalendarNextInv == CalendarInv /\ [Midnight]_calendarVars => CalendarInv'
<1> SUFFICES ASSUME CalendarInv, [Midnight]_calendarVars PROVE CalendarInv'
  OBVIOUS
<1> DEFINE y == today.year  m == today.month  d == today.day
<1>1. y \in 0 .. 63 /\ m \in 1 .. 12 /\ d \in 1 .. MonthLength(y, m) /\ d \in 1 .. 31
      /\ MonthLength(y, m) \in 28 .. 31 /\ today = [year |-> y, month |-> m, day |-> d]
  BY DEF CalendarInv, Date, Years, MonthLength
<1>2. days = DayNumber(y, m, d)
  BY DEF CalendarInv
<1>3. CASE NextDay
  <2>1. today' = [year |-> y, month |-> m, day |-> d + 1] /\ d + 1 <= MonthLength(y, m)
    BY <1>1, <1>3 DEF NextDay
  <2>2. today' \in Date
    BY <1>1, <2>1 DEF Date, Years
  <2>3. DayNumber(y, m, d + 1) = DayNumber(y, m, d) + 1
    <3>1. BeforeMonth(y, m) \in Nat
      BY <1>1, MonthLengths
    <3>2. QED
      BY <1>1, <3>1 DEF DayNumber
  <2>4. QED
    BY <1>2, <1>3, <2>1, <2>2, <2>3 DEF NextDay, CalendarInv
<1>4. CASE NextMonth
  <2>1. today' = [year |-> y, month |-> m + 1, day |-> 1] /\ d = MonthLength(y, m) /\ m < 12
    BY <1>1, <1>4 DEF NextMonth
  <2>2. today' \in Date
    BY <1>1, <2>1 DEF Date, Years, MonthLength
  <2>3. DayNumber(y, m + 1, 1) = DayNumber(y, m, d) + 1
    <3>1. m \in 1 .. 11
      BY <1>1, <2>1
    <3>2. BeforeMonth(y, m + 1) = BeforeMonth(y, m) + d
      BY <1>1, <2>1, <3>1, MonthsFollow
    <3>3. BeforeMonth(y, m) \in Nat
      BY <1>1, MonthLengths
    <3>4. QED
      BY <1>1, <3>2, <3>3 DEF DayNumber
  <2>4. QED
    BY <1>2, <1>4, <2>1, <2>2, <2>3 DEF NextMonth, CalendarInv
<1>5. CASE NextYear
  <2>1. today' = [year |-> (y + 1) % Years, month |-> 1, day |-> 1] /\ m = 12 /\ d = 31
    BY <1>5 DEF NextYear
  <2>2. today' \in Date
    BY <1>1, <2>1 DEF Date, Years, MonthLength
  <2>3. DayNumber(y + 1, 1, 1) = DayNumber(y, 12, 31) + 1
    <3>1. (y + 4) \div 4 = (y + 3) \div 4 + LeapDay(y) /\ LeapDay(y) \in 0 .. 1
      BY <1>1, LeapDays
    <3>2. QED
      BY <1>1, <3>1 DEF DayNumber, BeforeMonth, DaysSoFar
  <2>4. CASE y = 63
    <3>1. (y + 1) % Years = 0 /\ days' = 0
      BY <1>5, <2>4 DEF NextYear, Years
    <3>2. DayNumber(0, 1, 1) = 0
      BY DEF DayNumber, BeforeMonth, DaysSoFar
    <3>3. QED
      BY <2>1, <2>2, <3>1, <3>2 DEF CalendarInv
  <2>5. CASE y # 63
    <3>1. (y + 1) % Years = y + 1 /\ days' = days + 1
      BY <1>1, <1>5, <2>5 DEF NextYear, Years
    <3>2. QED
      BY <1>2, <2>1, <2>2, <2>3, <3>1 DEF CalendarInv
  <2>6. QED
    BY <2>4, <2>5
<1>6. CASE UNCHANGED calendarVars
  BY <1>6 DEF CalendarInv, calendarVars
<1>7. QED
  BY <1>3, <1>4, <1>5, <1>6 DEF Midnight

(* The sums of the next lemma: a year of the register ends within its      *)
(* days, and a day of the year lies in it.                                 *)
LEMMA YearFits ==
  ASSUME NEW y \in 0 .. 63, NEW leaps \in Int, NEW leap \in Int, leaps + leap <= 16
  PROVE  365 * y + 365 + leaps + leap <= 23376
  OBVIOUS

LEMMA DayFits ==
  ASSUME NEW start \in Nat, NEW leap \in Nat, NEW before \in Nat, NEW d \in Nat,
         NEW total \in Nat, d >= 1, before + d <= 365 + leap, start + 365 + leap <= total
  PROVE  /\ start + before + d - 1 \in 0 .. total - 1
         /\ start + before + d - 1 >= start
         /\ start + before + d - 1 < start + 365 + leap
  OBVIOUS

(* A date's number lies in its year.                                       *)
LEMMA NumberInYear ==
  ASSUME NEW date \in Date
  PROVE  /\ DayNumber(date.year, date.month, date.day) \in 0 .. CountedDays - 1
         /\ DayNumber(date.year, date.month, date.day) >= DayNumber(date.year, 1, 1)
         /\ DayNumber(date.year, date.month, date.day) < DayNumber(date.year + 1, 1, 1)
<1> DEFINE y == date.year  m == date.month  d == date.day
<1>0. y \in 0 .. 63 /\ y \in Int /\ m \in 1 .. 12 /\ d \in 1 .. MonthLength(y, m)
  BY DateFields
<1> HIDE DEF y, m, d
<1>1. LeapDay(y) \in 0 .. 1
  BY <1>0, LeapDays
<1>2. d \in Nat \ {0} /\ BeforeMonth(y, m) \in Nat /\ BeforeMonth(y, m) + d <= 365 + LeapDay(y)
  <2>1. /\ MonthLength(y, m) \in 28 .. 31 /\ BeforeMonth(y, m) \in Nat
        /\ BeforeMonth(y, m) + MonthLength(y, m) <= 365 + LeapDay(y)
    BY <1>0, MonthLengths
  <2>2. QED
    BY <1>0, <1>1, <2>1
<1>3. (y + 4) \div 4 = (y + 3) \div 4 + LeapDay(y)
  BY <1>0, LeapDays
<1>4. DayNumber(y + 1, 1, 1) = 365 * y + 365 + (y + 3) \div 4 + LeapDay(y)
  BY <1>0, <1>1, <1>3 DEF DayNumber, BeforeMonth, DaysSoFar
<1>5. DayNumber(y, 1, 1) = 365 * y + (y + 3) \div 4
  BY <1>0 DEF DayNumber, BeforeMonth, DaysSoFar
<1>6. DayNumber(y, m, d) = DayNumber(y, 1, 1) + BeforeMonth(y, m) + d - 1
  BY <1>0, <1>2, <1>5 DEF DayNumber
<1> DEFINE leap == LeapDay(y)
           leaps == (y + 3) \div 4
           before == BeforeMonth(y, m)
           start == 365 * y + leaps
<1>7. /\ leap \in Int /\ leap \in Nat /\ leaps \in Int /\ leaps + leap <= 16
      /\ before \in Nat /\ start \in Nat
      /\ d \in Nat /\ d >= 1 /\ before + d <= 365 + leap
  <2>1. (y + 4) \div 4 <= 16 /\ (y + 3) \div 4 \in Int
    BY <1>0
  <2>2. start \in Nat
    BY <1>0
  <2>3. QED
    BY <1>1, <1>2, <1>3, <2>1, <2>2
<1>8. 365 * y + 365 + leaps + leap <= 23376
  <2> HIDE DEF leap, leaps
  <2>1. QED
    BY <1>0, <1>7, YearFits
<1>9. start + 365 + leap <= CountedDays
  <2>1. start + 365 + leap = 365 * y + 365 + leaps + leap
    BY <1>0, <1>7
  <2>2. QED
    BY <1>8, <2>1 DEF CountedDays
<1>10. DayNumber(y, 1, 1) = start /\ DayNumber(y + 1, 1, 1) = start + 365 + leap
  BY <1>0, <1>1, <1>4, <1>5
<1>11. DayNumber(y, m, d) = start + before + d - 1
  BY <1>6, <1>10
<1> HIDE DEF leap, leaps, before, start
<1>12. CountedDays \in Nat
  BY DEF CountedDays
<1>13. /\ start + before + d - 1 \in 0 .. CountedDays - 1
       /\ start + before + d - 1 >= start
       /\ start + before + d - 1 < start + 365 + leap
  BY <1>7, <1>9, <1>12, DayFits
<1>14. QED
  BY <1>10, <1>11, <1>13 DEF y, m, d

(* The date is one of the register's, and its days are counted             *)
(* (CalendarTypeOK).                                                       *)
THEOREM CalendarTyped == CalendarSpec => []CalendarTypeOK
<1>1. CalendarInv => CalendarTypeOK
  BY NumberInYear DEF CalendarInv, CalendarTypeOK
<1>2. QED
  BY <1>1, CalendarInitInv, CalendarNextInv, PTL DEF CalendarSpec

-----------------------------------------------------------------------------
(* The weekday and the UNIX time of a date.                                *)

LEMMA WeeksDoNotCount ==
  ASSUME NEW a \in Int, NEW b \in Int, NEW k \in Int, a = b + 7 * k
  PROVE  a % 7 = b % 7
  OBVIOUS

(* The Gregorian rule, in the years of the register.                       *)
LEMMA LeapYears ==
  ASSUME NEW y \in -1 .. 64
  PROVE  is_leap(y + 2020) <=> y % 4 = 0
  BY DEF is_leap

LEMMA WeekdayIsCounted ==
  ASSUME NEW date \in Date
  PROVE  get_iso8601_weekday_number(date.year + WATCH_RTC_REFERENCE_YEAR, date.month, date.day)
           = ((DayNumber(date.year, date.month, date.day) + 2) % 7) + 1
<1> DEFINE y == date.year  m == date.month  d == date.day
<1>1. y \in 0 .. 63 /\ y \in Int /\ m \in 1 .. 12 /\ d \in Nat
  <2>1. y \in 0 .. 63 /\ m \in 1 .. 12
    BY DateFields
  <2>2. d \in Nat
    BY DEF Date
  <2>3. QED
    BY <2>1, <2>2
<1> HIDE DEF y, m, d
<1>2. CASE m <= 2
  <2> DEFINE key == IF m = 1 THEN 36 ELSE 39
             before == IF m = 1 THEN 0 ELSE 31
             a == d + key + (y + 19) + (y + 19) \div 4 + 5
             b == 365 * y + (y + 3) \div 4 + before + d - 1 + 2
             k == (IF m = 1 THEN 9 ELSE 5) - 52 * y
  <2>1. m = 1 \/ m = 2
    BY <1>1, <1>2
  <2>2. get_iso8601_weekday_number(y + WATCH_RTC_REFERENCE_YEAR, m, d) = (a % 7) + 1
    BY <1>1, <2>1 DEF get_iso8601_weekday_number, WATCH_RTC_REFERENCE_YEAR
  <2>3. DayNumber(y, m, d) + 2 = b
    BY <1>1, <2>1 DEF DayNumber, BeforeMonth, DaysSoFar
  <2>4. a \in Int /\ b \in Int /\ k \in Int /\ a = b + 7 * k
    BY <1>1, <2>1
  <2> HIDE DEF a, b, k
  <2>5. a % 7 = b % 7
    BY <2>4, WeeksDoNotCount
  <2>6. QED
    BY <2>2, <2>3, <2>5 DEF y, m, d
<1>3. CASE m > 2
  <2> DEFINE key == (13 * (m + 1)) \div 5
             before == DaysSoFar[m]
             a == d + key + (y + 20) + (y + 20) \div 4 + 5
             b == 365 * y + y \div 4 + 1 + before + d - 1 + 2
             c == key + 28 - before
             k == c \div 7 - 52 * y
  <2>1. m \in 3 .. 12
    BY <1>1, <1>3
  <2>2. get_iso8601_weekday_number(y + WATCH_RTC_REFERENCE_YEAR, m, d) = (a % 7) + 1
    BY <1>1, <2>1 DEF get_iso8601_weekday_number, WATCH_RTC_REFERENCE_YEAR
  <2>3. before \in 0 .. 334 /\ key \in Int
    BY <2>1, MonthNumbers
  <2>4. DayNumber(y, m, d) + 2 = b
    <3>1. (y + 3) \div 4 + LeapDay(y) = y \div 4 + 1 /\ LeapDay(y) \in 0 .. 1
      BY <1>1, LeapDays
    <3>2. BeforeMonth(y, m) = before + LeapDay(y)
      BY <2>1 DEF BeforeMonth
    <3> DEFINE leap == LeapDay(y)
    <3>3. DayNumber(y, m, d) = 365 * y + (y + 3) \div 4 + (before + leap) + d - 1
      BY <3>2 DEF DayNumber
    <3>4. leap \in Int /\ (y + 3) \div 4 + leap = y \div 4 + 1
      BY <3>1
    <3> HIDE DEF leap, before
    <3>5. QED
      BY <1>1, <2>3, <3>3, <3>4
  <2>5. c % 7 = 0
    BY <2>1, MonthNumbers DEF DaysSoFar
  <2>6. a \in Int /\ b \in Int /\ k \in Int /\ a = b + 7 * k
    <3> HIDE DEF key, before
    <3>1. c = 7 * (c \div 7) /\ c \in Int
      BY <2>3, <2>5
    <3>2. QED
      BY <1>1, <2>3, <3>1
  <2> HIDE DEF a, b, k
  <2>7. a % 7 = b % 7
    BY <2>6, WeeksDoNotCount
  <2>8. QED
    BY <2>2, <2>4, <2>7 DEF y, m, d
<1>4. QED
  BY <1>1, <1>2, <1>3

(* The days from 1970 to a year, by either formula.                        *)
StartOf(y) == year_to_secs(y + 120)

LEMMA YearToDays ==
  ASSUME NEW y \in 0 .. 63
  PROVE  /\ StartOf(y).days = 18262 + 365 * y + (y + 3) \div 4
         /\ StartOf(y).leap <=> y % 4 = 0
<1> DEFINE leap == y % 4 = 0
           less == IF leap THEN 1 ELSE 0
           start == StartOf(y)
<1>1. y \div 4 = (y + 3) \div 4 + less - 1
  OBVIOUS
<1>2. CASE y <= 18
  <2>1. start
          = [leap |-> (y + 120 - 68) % 4 = 0,
             days |-> 365 * (y + 120 - 70) + (y + 120 - 68) \div 4
                        - (IF (y + 120 - 68) % 4 = 0 THEN 1 ELSE 0)]
    <3>1. y + 120 - 2 <= 136
      BY <1>2
    <3>2. QED
      BY <3>1 DEF year_to_secs, StartOf
  <2>2. (y + 120 - 68) % 4 = 0 <=> leap
    OBVIOUS
  <2>3. 365 * (y + 120 - 70) + (y + 120 - 68) \div 4 - less = 18262 + 365 * y + (y + 3) \div 4
    BY <1>1
  <2> HIDE DEF start
  <2>4. (start.leap <=> (y + 120 - 68) % 4 = 0)
        /\ start.days = 365 * (y + 120 - 70) + (y + 120 - 68) \div 4 - less
    BY <2>1, <2>2, ZenonT(60)
  <2>5. (start.leap <=> leap) /\ start.days = 18262 + 365 * y + (y + 3) \div 4
    BY <2>2, <2>3, <2>4
  <2>6. QED
    BY <2>5 DEF start
<1>3. CASE y > 18
  <2> DEFINE rem == (y + 120 - 100) % 400
             r == rem % 100
             leap_ == IF r = 0 THEN rem = 0 ELSE r % 4 = 0
             leaps == r \div 4 + 97 * ((y + 120 - 100) \div 400) + 24 * (rem \div 100)
                        - (IF leap_ THEN 1 ELSE 0)
  <2>1. start
          = [leap |-> leap_, days |-> 365 * (y + 120 - 100) + leaps + 10957 + 1]
    <3>1. ~(y + 120 - 2 <= 136)
      BY <1>3
    <3>2. QED
      BY <3>1 DEF year_to_secs, StartOf
  <2>2. rem = y + 20 /\ r = y + 20 /\ (y + 120 - 100) \div 400 = 0 /\ rem \div 100 = 0
    OBVIOUS
  <2>3. leap_ <=> leap
    BY <2>2
  <2>4. 365 * (y + 120 - 100) + leaps + 10957 + 1 = 18262 + 365 * y + (y + 3) \div 4
    BY <1>1, <2>2, <2>3
  <2> HIDE DEF leaps, leap_, leap, start
  <2>5. (start.leap <=> leap_) /\ start.days = 365 * (y + 120 - 100) + leaps + 10957 + 1
    BY <2>1
  <2>6. (start.leap <=> leap) /\ start.days = 18262 + 365 * y + (y + 3) \div 4
    BY <2>3, <2>4, <2>5
  <2>7. QED
    BY <2>6 DEF start, leap
<1>4. QED
  BY <1>2, <1>3

(* A number of days no more than another takes no more time.               *)
LEMMA Monotone ==
  ASSUME NEW a \in Int, NEW b \in Int, NEW c \in Nat, a <= b
  PROVE  a * c <= b * c
<1>1. (b - a) * c \in Nat
  OBVIOUS
<1>2. (b - a) * c = b * c - a * c
  OBVIOUS
<1>3. QED
  BY <1>1, <1>2

(* Within the years of the register no time overflows, whatever the offset *)
(* and the width that hold a day more on both sides.                       *)
LEMMA UnixTime ==
  ASSUME NEW date \in Date, NEW time \in 0 .. DayLength - 1, NEW offset \in -DayLength .. DayLength
  PROVE  date_time_to_unix_time(At(date, time), offset)
           = (18262 + DayNumber(date.year, date.month, date.day)) * DayLength + time - offset
<1> DEFINE y == date.year  m == date.month  d == date.day
           start == StartOf(y)
           before == month_to_secs(m - 1, start.leap)
           day == start.days + before + d - 1
           n == DayNumber(y, m, d)
<1>1. y \in 0 .. 63 /\ y \in Int /\ m \in 1 .. 12 /\ d \in Nat
  <2>1. d \in Nat
    BY DEF Date
  <2>2. y \in 0 .. 63 /\ m \in 1 .. 12
    BY DateFields
  <2>3. QED
    BY <2>1, <2>2
<1>2. n \in 0 .. 23375
  <2>1. n \in 0 .. CountedDays - 1
    BY NumberInYear
  <2> HIDE DEF n
  <2>2. QED
    BY <2>1 DEF CountedDays
<1>3. date_time_to_unix_time(At(date, time), offset)
        = (day * DayLength + time - offset) % TimestampModulus
  <2>1. y + WATCH_RTC_REFERENCE_YEAR - 1900 = y + 120
    BY <1>1 DEF WATCH_RTC_REFERENCE_YEAR
  <2>2. /\ At(date, time).year = y /\ At(date, time).month = m /\ At(date, time).day = d
        /\ At(date, time).time = time
    BY DEF At
  <2> HIDE DEF y, m, d
  <2>3. QED
    BY <2>1, <2>2 DEF date_time_to_unix_time, StartOf
<1> HIDE DEF y, m, d
<1>4. day = 18262 + n
  <2>1. start.days = 18262 + 365 * y + (y + 3) \div 4 /\ (start.leap <=> y % 4 = 0)
    <3>1. StartOf(y).days = 18262 + 365 * y + (y + 3) \div 4
      BY <1>1, YearToDays, SMTT(30)
    <3>2. StartOf(y).leap <=> y % 4 = 0
      BY <1>1, YearToDays, SMTT(30)
    <3>3. QED
      BY <3>1, <3>2
  <2>2. before = BeforeMonth(y, m)
    <3>1. m - 1 + 1 = m /\ (m - 1 >= 2 <=> m > 2)
      BY <1>1
    <3>2. DaysSoFar[m] \in 0 .. 334
      BY <1>1, MonthNumbers
    <3> HIDE DEF start
    <3>3. QED
      BY <2>1, <3>1, <3>2 DEF month_to_secs, BeforeMonth, LeapDay
  <2>3. BeforeMonth(y, m) \in Nat
    BY <1>1, MonthLengths, Zenon
  <2>4. n = 365 * y + (y + 3) \div 4 + BeforeMonth(y, m) + d - 1
    BY DEF DayNumber
  <2> HIDE DEF start, before, n
  <2>5. start.days + before + d - 1 = 18262 + n
    BY <1>1, <2>1, <2>2, <2>3, <2>4
  <2>6. QED
    BY <2>5
<1>5. (18262 + n) * DayLength + time - offset \in 0 .. TimestampModulus - 1
  <2> HIDE DEF n
  <2>1. DayLength \in Nat \ {0} /\ TimestampModulus \in Nat /\ TimestampModulus >= 41640 * DayLength
    BY CalendarAssumption
  <2>2. (18262 + n) * DayLength <= 41637 * DayLength
    BY <1>2, <2>1, Monotone
  <2>3. 18262 * DayLength <= (18262 + n) * DayLength
    BY <1>2, <2>1, Monotone
  <2>4. (18262 + n) * DayLength \in Int
    BY <1>2, <2>1
  <2> DEFINE whole == (18262 + n) * DayLength
  <2> HIDE DEF whole
  <2>5. whole <= 41637 * DayLength /\ 18262 * DayLength <= whole /\ whole \in Int
    BY <2>2, <2>3, <2>4 DEF whole
  <2>6. whole + time - offset \in 0 .. TimestampModulus - 1
    BY <2>1, <2>5
  <2>7. QED
    BY <2>6 DEF whole
<1> HIDE DEF n, day
<1>6. ((18262 + n) * DayLength + time - offset) % TimestampModulus
        = (18262 + n) * DayLength + time - offset
  <2> DEFINE t == (18262 + n) * DayLength + time - offset
  <2> HIDE DEF t
  <2>1. t \in 0 .. TimestampModulus - 1
    BY <1>5 DEF t
  <2>2. t % TimestampModulus = t
    BY <2>1, CalendarAssumption
  <2>3. QED
    BY <2>2 DEF t
<1>7. QED
  BY <1>3, <1>4, <1>6 DEF n, y, m, d

(* Counting midnights: the weekday and the UNIX time that the code         *)
(* computes from the date are those reached by counting, in every year of  *)
(* the register and at any offset (CalendarAgrees).                        *)
THEOREM CalendarIsCounted == CalendarSpec => []CalendarAgrees
<1>1. CalendarInv => CalendarAgrees
  <2> SUFFICES ASSUME CalendarInv PROVE CalendarAgrees
    OBVIOUS
  <2>1. today \in Date /\ days = DayNumber(today.year, today.month, today.day)
    BY DEF CalendarInv
  <2>2. get_iso8601_weekday_number(FullYear, today.month, today.day) = CountedWeekday
    BY <2>1, WeekdayIsCounted DEF FullYear, CountedWeekday
  <2>3. ASSUME NEW time \in Moments, NEW offset \in Offsets
        PROVE  date_time_to_unix_time(At(today, time), offset)
                 = (18262 + days) * DayLength + time - offset
    <3>1. time \in 0 .. DayLength - 1 /\ offset \in -DayLength .. DayLength
      BY CalendarAssumption
    <3>2. QED
      BY <2>1, <3>1, UnixTime
  <2>4. QED
    BY <2>2, <2>3 DEF CalendarAgrees
<1>2. QED
  BY <1>1, CalendarInitInv, CalendarNextInv, PTL DEF CalendarSpec

-----------------------------------------------------------------------------
(* From a UNIX time back to a date.                                        *)

(* The quotient and the remainder of a number that is given by them.       *)
LEMMA QuotientAndRemainder ==
  ASSUME NEW q \in Int, NEW r \in 0 .. DayLength - 1
  PROVE  (q * DayLength + r) \div DayLength = q /\ (q * DayLength + r) % DayLength = r
<1> DEFINE a == q * DayLength + r
           b == a \div DayLength
           c == a % DayLength
<1>1. DayLength \in Nat \ {0}
  BY CalendarAssumption
<1>2. a \in Int /\ q * DayLength \in Int
  BY <1>1
<1> HIDE DEF a
<1>3. b \in Int /\ c \in 0 .. DayLength - 1 /\ a = b * DayLength + c
  BY <1>1, <1>2
<1> HIDE DEF b, c
<1>4. (b - q) * DayLength = r - c
  BY <1>1, <1>3 DEF a
<1>5. b = q
  <2>1. CASE b > q
    <3>1. (b - q) * DayLength >= DayLength
      <4>1. 1 * DayLength <= (b - q) * DayLength
        BY <1>1, <1>3, <2>1, Monotone
      <4>2. QED
        BY <1>1, <1>3, <4>1
    <3>2. QED
      BY <1>1, <1>3, <1>4, <3>1
  <2>2. CASE b < q
    <3>1. (b - q) * DayLength <= -DayLength
      <4>1. (b - q) * DayLength <= -1 * DayLength
        BY <1>1, <1>3, <2>2, Monotone
      <4>2. QED
        BY <1>1, <1>3, <4>1
    <3>2. QED
      BY <1>1, <1>3, <1>4, <3>1
  <2>3. QED
    BY <1>3, <2>1, <2>2
<1>6. c = r
  BY <1>1, <1>3, <1>4, <1>5
<1>7. QED
  BY <1>5, <1>6 DEF a, b, c

(* The cycles that YearAndDay takes off are, in the years of the register, *)
(* those of four years and of one.                                         *)
FourYears(n) == n \div 1461
YearOfFour(n) == AtMost((n % 1461) \div 365, 3)
DayOfYear(n) == (n % 1461) - YearOfFour(n) * 365

LEMMA YearAndDayValue ==
  ASSUME NEW n \in Int, n >= 7242, n <= 30624
  PROVE  /\ FourYears(n) \in 4 .. 20 /\ YearOfFour(n) \in 0 .. 3 /\ DayOfYear(n) \in 0 .. 365
         /\ n = 1461 * FourYears(n) + 365 * YearOfFour(n) + DayOfYear(n)
         /\ DayOfYear(n) = 365 => YearOfFour(n) = 3
         /\ YearAndDay(n) = [years |-> YearOfFour(n) + 4 * FourYears(n), remdays |-> DayOfYear(n)]
<1> DEFINE in4 == n % 1461
           q == n \div 1461
           r == AtMost(in4 \div 365, 3)
           e == in4 - r * 365
<1>1. q \in 4 .. 20 /\ in4 \in 0 .. 1460 /\ n = 1461 * q + in4
  <2>1. n \in Int /\ q \in Int /\ in4 \in 0 .. 1460 /\ n = 1461 * q + in4
    OBVIOUS
  <2> HIDE DEF q, in4
  <2>2. n >= 7242 /\ n <= 30624 /\ in4 \in Int /\ in4 >= 0 /\ in4 <= 1460
    BY <2>1
  <2>3. q >= 4 /\ q <= 20
    BY <2>1, <2>2
  <2>4. QED
    BY <2>1, <2>3
<1>2. in4 \div 365 \in 0 .. 4 /\ in4 = 365 * (in4 \div 365) + (in4 % 365) /\ in4 % 365 \in 0 .. 364
  <2> HIDE DEF in4
  <2>1. QED
    BY <1>1
<1>3. r \in 0 .. 3 /\ e \in 0 .. 365 /\ (e = 365 => r = 3) /\ in4 = 365 * r + e
  <2>1. CASE in4 \div 365 = 4
    BY <1>1, <1>2, <2>1 DEF AtMost
  <2>2. CASE in4 \div 365 # 4
    BY <1>1, <1>2, <2>2 DEF AtMost
  <2>3. QED
    BY <2>1, <2>2
<1>4. YearAndDay(n) = [years |-> r + 4 * q, remdays |-> e]
  <2>0. DAYS_PER_400Y = 146097 /\ DAYS_PER_100Y = 36524 /\ DAYS_PER_4Y = 1461
    BY DEF DAYS_PER_400Y, DAYS_PER_100Y, DAYS_PER_4Y
  <2>1. n % DAYS_PER_400Y = n /\ n \div DAYS_PER_400Y = 0
    <3>1. n \in Nat /\ n < 146097
      OBVIOUS
    <3>2. n % 146097 = n
      BY <3>1
    <3>3. n \div 146097 = 0
      BY <3>1
    <3>4. QED
      BY <2>0, <3>2, <3>3
  <2>2. AtMost(n \div DAYS_PER_100Y, 3) = 0
    <3>1. n \div 36524 = 0
      OBVIOUS
    <3>2. QED
      BY <2>0, <3>1 DEF AtMost
  <2>3. AtMost((n - 0 * DAYS_PER_100Y) \div DAYS_PER_4Y, 24) = q
    <3>1. (n - 0 * 36524) \div 1461 = q
      OBVIOUS
    <3>2. QED
      BY <1>1, <2>0, <3>1 DEF AtMost
  <2>4. (n - 0 * DAYS_PER_100Y) - q * DAYS_PER_4Y = in4
    <3> HIDE DEF q, in4
    <3>1. QED
      BY <1>1, <2>0
  <2> HIDE DEF q, in4
  <2>5. YearAndDay(n) = [years |-> r + 4 * q + 100 * 0 + 400 * 0, remdays |-> in4 - r * 365]
    BY <2>1, <2>2, <2>3, <2>4 DEF YearAndDay
  <2>6. r + 4 * q + 100 * 0 + 400 * 0 = r + 4 * q
    BY <1>1, <1>3
  <2>7. QED
    BY <2>5, <2>6
<1> HIDE DEF q, r, e, in4
<1>5. n = 1461 * q + 365 * r + e
  BY <1>1, <1>3
<1>6. q \in 4 .. 20 /\ r \in 0 .. 3 /\ e \in 0 .. 365 /\ (e = 365 => r = 3)
  BY <1>1, <1>3
<1>7. QED
  BY <1>4, <1>5, <1>6 DEF FourYears, YearOfFour, DayOfYear, q, r, e, in4

(* The month that a day of a year from March on lies in.                   *)
MarchMonth(e) == CHOOSE n \in 0 .. 11 : DaysFromMarch[n + 1] <= e /\ e < DaysFromMarch[n + 2]

LEMMA MarchMonths ==
  ASSUME NEW e \in 0 .. 365
  PROVE  /\ MarchMonth(e) \in 0 .. 11
         /\ DaysFromMarch[MarchMonth(e) + 1] <= e /\ e < DaysFromMarch[MarchMonth(e) + 2]
<1> DEFINE In(n) == DaysFromMarch[n + 1] <= e /\ e < DaysFromMarch[n + 2]
<1>1. In(0) \/ In(1) \/ In(2) \/ In(3) \/ In(4) \/ In(5) \/ In(6) \/ In(7) \/ In(8) \/ In(9)
      \/ In(10) \/ In(11)
  BY DEF DaysFromMarch
<1> HIDE DEF In
<1>2. \E n \in 0 .. 11 : In(n)
  BY <1>1
<1>3. MarchMonth(e) = CHOOSE n \in 0 .. 11 : In(n)
  BY DEF MarchMonth, In
<1>4. MarchMonth(e) \in 0 .. 11 /\ In(MarchMonth(e))
  BY <1>2, <1>3
<1>5. QED
  BY <1>4 DEF In

(* The date of a day counted from the first of March of 2000.              *)
YearOfDay(n) ==
  YearOfFour(n) + 4 * FourYears(n) + 2000 + (IF MarchMonth(DayOfYear(n)) >= 10 THEN 1 ELSE 0)

MonthOfDay(n) ==
  LET m == MarchMonth(DayOfYear(n)) IN (IF m >= 10 THEN m - 10 ELSE m + 2) + 1

DayOfMonth(n) == DayOfYear(n) - DaysFromMarch[MarchMonth(DayOfYear(n)) + 1] + 1

LEMMA DateOfDay ==
  ASSUME NEW n \in Int, n >= 7242, n <= 30624
  PROVE  /\ YearOfDay(n) - 2020 \in -4 .. 67
         /\ MonthOfDay(n) \in 1 .. 12
         /\ DayOfMonth(n) \in 1 .. MonthLength(YearOfDay(n) - 2020, MonthOfDay(n))
         /\ DayNumber(YearOfDay(n) - 2020, MonthOfDay(n), DayOfMonth(n)) = n - 7245
<1> DEFINE q == FourYears(n)  r == YearOfFour(n)  e == DayOfYear(n)  m == MarchMonth(e)
           y == YearOfDay(n) - 2020
           month == MonthOfDay(n)
           day == DayOfMonth(n)
<1>1. /\ q \in 4 .. 20 /\ r \in 0 .. 3 /\ e \in 0 .. 365 /\ (e = 365 => r = 3)
      /\ n = 1461 * q + 365 * r + e
  <2>1. q \in 4 .. 20 /\ r \in 0 .. 3 /\ e \in 0 .. 365
    BY YearAndDayValue
  <2>2. e = 365 => r = 3
    BY YearAndDayValue
  <2>3. n = 1461 * q + 365 * r + e
    BY YearAndDayValue
  <2>4. QED
    BY <2>1, <2>2, <2>3
<1>2. m \in 0 .. 11 /\ DaysFromMarch[m + 1] <= e /\ e < DaysFromMarch[m + 2]
  <2> HIDE DEF e
  <2>1. e \in 0 .. 365
    BY <1>1
  <2>2. MarchMonth(e) \in 0 .. 11
    BY <2>1, MarchMonths, SMTT(30)
  <2>3. DaysFromMarch[MarchMonth(e) + 1] <= e /\ e < DaysFromMarch[MarchMonth(e) + 2]
    BY <2>1, MarchMonths, SMTT(30)
  <2>4. QED
    BY <2>2, <2>3
<1>3. /\ y = r + 4 * q + 2000 + (IF m >= 10 THEN 1 ELSE 0) - 2020
      /\ month = (IF m >= 10 THEN m - 10 ELSE m + 2) + 1
      /\ day = e - DaysFromMarch[m + 1] + 1
  <2>1. y = r + 4 * q + 2000 + (IF m >= 10 THEN 1 ELSE 0) - 2020
    <3>1. YearOfDay(n) = r + 4 * q + 2000 + (IF m >= 10 THEN 1 ELSE 0)
      BY DEF YearOfDay
    <3> HIDE DEF q, r, e, m
    <3>2. QED
      BY <1>1, <1>2, <3>1
  <2>2. month = (IF m >= 10 THEN m - 10 ELSE m + 2) + 1
    BY DEF MonthOfDay
  <2>3. day = e - DaysFromMarch[m + 1] + 1
    BY DEF DayOfMonth
  <2>4. QED
    BY <2>1, <2>2, <2>3
<1> HIDE DEF q, r, e, m, y, month, day
<1>4. CASE m <= 9
  <2>1. y = r + 4 * q - 20 /\ month = m + 3 /\ y \in Int /\ month \in 3 .. 12
    BY <1>1, <1>2, <1>3, <1>4
  <2>2. m = 0 \/ m = 1 \/ m = 2 \/ m = 3 \/ m = 4 \/ m = 5 \/ m = 6 \/ m = 7 \/ m = 8 \/ m = 9
    BY <1>2, <1>4
  <2>3. /\ DaysFromMarch[m + 2] - DaysFromMarch[m + 1] = MonthLength(y, month)
        /\ DaysSoFar[month] - DaysFromMarch[m + 1] = 59
        /\ DaysFromMarch[m + 1] \in Nat /\ DaysFromMarch[m + 2] \in Nat
        /\ DaysSoFar[month] \in Nat
    BY <2>1, <2>2 DEF DaysFromMarch, DaysSoFar, MonthLength
  <2>4. day \in 1 .. MonthLength(y, month)
    BY <1>1, <1>2, <1>3, <2>3
  <2>5. (y + 3) \div 4 + LeapDay(y) = q - 4
    <3>1. (y + 3) \div 4 + LeapDay(y) = y \div 4 + 1
      BY <2>1, LeapDays
    <3>2. y \div 4 = q - 5
      BY <1>1, <2>1
    <3>3. QED
      BY <1>1, <2>1, <3>1, <3>2
  <2>6. DayNumber(y, month, day) = n - 7245
    <3> DEFINE leap == LeapDay(y)
               before == DaysSoFar[month]
               march == DaysFromMarch[m + 1]
    <3>1. DayNumber(y, month, day) = 365 * y + (y + 3) \div 4 + (before + leap) + day - 1
      BY <2>1 DEF DayNumber, BeforeMonth
    <3>2. /\ leap \in Int /\ (y + 3) \div 4 + leap = q - 4
          /\ before \in Int /\ march \in Int /\ before - march = 59 /\ day = e - march + 1
      BY <1>3, <2>1, <2>3, <2>5, LeapDays, SMTT(30)
    <3> HIDE DEF leap, before, march
    <3>3. QED
      BY <1>1, <2>1, <3>1, <3>2
  <2>7. y \in -4 .. 67 /\ month \in 1 .. 12
    BY <1>1, <2>1
  <2>8. QED
    BY <2>4, <2>6, <2>7 DEF y, month, day
<1>5. CASE m >= 10
  <2>1. y = r + 4 * q - 19 /\ month = m - 9 /\ y \in Int /\ month \in 1 .. 2
    BY <1>1, <1>2, <1>3, <1>5
  <2>2. m = 10 \/ m = 11
    BY <1>2, <1>5
  <2>3. day \in 1 .. MonthLength(y, month)
    <3>1. CASE m = 10
      BY <1>1, <1>2, <1>3, <2>1, <3>1 DEF DaysFromMarch, MonthLength
    <3>2. CASE m = 11
      <4>1. day = e - 336 /\ e >= 337 /\ month = 2
        <5>1. m + 1 = 12 /\ DaysFromMarch[12] = 337
          BY <3>2 DEF DaysFromMarch
        <5>2. QED
          BY <1>1, <1>2, <1>3, <2>1, <3>2, <5>1
      <4>2. CASE r = 3
        <5>1. y % 4 = 0
          BY <1>1, <2>1, <4>2
        <5>2. MonthLength(y, month) \in {28, 29} /\ (y % 4 = 0 => MonthLength(y, month) = 29)
          BY <4>1 DEF MonthLength
        <5>3. QED
          BY <1>1, <4>1, <5>1, <5>2
      <4>3. CASE r # 3
        <5>1. e <= 364
          BY <1>1, <4>3
        <5>2. MonthLength(y, month) \in {28, 29} /\ (y % 4 = 0 => MonthLength(y, month) = 29)
          BY <4>1 DEF MonthLength
        <5>3. QED
          BY <1>1, <4>1, <5>1, <5>2
      <4>4. QED
        BY <4>2, <4>3
    <3>3. QED
      BY <2>2, <3>1, <3>2
  <2>4. (y + 3) \div 4 = q - 4
    BY <1>1, <2>1
  <2>5. DayNumber(y, month, day) = n - 7245
    <3>1. BeforeMonth(y, month) + day - 1 = e - 306 /\ BeforeMonth(y, month) \in Int /\ day \in Int
      BY <1>1, <1>3, <2>1, <2>2 DEF BeforeMonth, DaysSoFar, DaysFromMarch
    <3> DEFINE before == BeforeMonth(y, month)
    <3>2. DayNumber(y, month, day) = 365 * y + (q - 4) + before + day - 1
      BY <2>4 DEF DayNumber
    <3>3. before + day - 1 = e - 306 /\ before \in Int /\ day \in Int
      BY <3>1
    <3> HIDE DEF before
    <3>4. QED
      BY <1>1, <2>1, <3>2, <3>3
  <2>6. y \in -4 .. 67 /\ month \in 1 .. 12
    BY <1>1, <2>1
  <2>7. QED
    BY <2>3, <2>5, <2>6 DEF y, month, day
<1>6. QED
  BY <1>2, <1>4, <1>5

(* The days of the register's years are numbered from the first to the     *)
(* last, and no others are.                                                *)
LEMMA NumberedYears ==
  ASSUME NEW y \in Int, NEW m \in 1 .. 12, NEW d \in 1 .. MonthLength(y, m)
  PROVE  DayNumber(y, m, d) >= 0 /\ DayNumber(y, m, d) < CountedDays <=> y >= 0 /\ y <= 63
<1> DEFINE before == BeforeMonth(y, m)
           leap == LeapDay(y)
           rest == before + d - 1
<1>1. leap \in 0 .. 1 /\ (y + 3) \div 4 + leap = y \div 4 + 1
  BY LeapDays
<1>2. /\ MonthLength(y, m) \in 28 .. 31 /\ before \in Nat
      /\ before + MonthLength(y, m) <= 365 + leap
  BY MonthLengths
<1>3. rest \in Int /\ rest >= 0 /\ rest <= 364 + leap
  <2> HIDE DEF before, leap
  <2>1. d \in Int /\ d >= 1 /\ d <= MonthLength(y, m)
    BY <1>2
  <2>2. QED
    BY <1>1, <1>2, <2>1
<1>4. DayNumber(y, m, d) = 365 * y + (y + 3) \div 4 + rest
  <2>1. DayNumber(y, m, d) = 365 * y + (y + 3) \div 4 + before + d - 1
    BY DEF DayNumber
  <2>2. before \in Int /\ d \in Int
    BY <1>2
  <2> HIDE DEF before
  <2>3. QED
    BY <2>1, <2>2
<1> DEFINE number == DayNumber(y, m, d)
<1> HIDE DEF rest, leap
<1>5. number \in Int /\ number = 365 * y + (y + 3) \div 4 + rest
  BY <1>3, <1>4
<1> HIDE DEF number
<1>6. CASE y < 0
  <2>1. y \div 4 <= -1
    BY <1>6
  <2>2. number < 0
    BY <1>1, <1>3, <1>5, <1>6, <2>1
  <2>3. ~(number >= 0) /\ ~(y >= 0 /\ y <= 63)
    BY <1>5, <1>6, <2>2
  <2>4. QED
    BY <2>3 DEF number
<1>7. CASE y > 63
  <2>1. (y + 3) \div 4 >= 16
    BY <1>7
  <2>2. ~(number < 23376)
    BY <1>3, <1>5, <1>7, <2>1
  <2>3. ~(number < CountedDays) /\ ~(y >= 0 /\ y <= 63)
    BY <1>7, <2>2 DEF CountedDays
  <2>4. QED
    BY <2>3 DEF number
<1>8. CASE y >= 0 /\ y <= 63
  <2>1. y \div 4 <= 15 /\ (y + 3) \div 4 >= 0
    BY <1>8
  <2>2. number >= 0 /\ number < 23376
    BY <1>1, <1>3, <1>5, <1>8, <2>1
  <2>3. number >= 0 /\ number < CountedDays
    BY <2>2 DEF CountedDays
  <2>4. QED
    BY <1>8, <2>3 DEF number
<1>9. y < 0 \/ y > 63 \/ (y >= 0 /\ y <= 63)
  OBVIOUS
<1>10. QED
  BY <1>6, <1>7, <1>8, <1>9

DateAt(n) ==
  [year |-> YearOfDay(n) - 2020, month |-> MonthOfDay(n), day |-> DayOfMonth(n)]

(* The date of a time within the register's years is in the register, and  *)
(* is the one with the day's number; other times near them have no date.   *)
LEMMA FromUnixTime ==
  ASSUME NEW D \in Int, D >= -3, D <= 23379, NEW s \in 0 .. DayLength - 1,
         NEW timestamp \in Int, NEW utc_offset \in Int,
         timestamp + utc_offset = (18262 + D) * DayLength + s
  PROVE  IF D >= 0 /\ D < CountedDays
         THEN \E date \in Date :
                /\ date_time_from_unix_time(timestamp, utc_offset) = At(date, s)
                /\ DayNumber(date.year, date.month, date.day) = D
         ELSE date_time_from_unix_time(timestamp, utc_offset) = NoDate
<1> DEFINE n == 7245 + D
           secs == timestamp + utc_offset - LEAPOCH * DayLength
           y == YearOfDay(n) - 2020
           date == DateAt(n)
<1>1. n \in Int /\ n >= 7242 /\ n <= 30624
  OBVIOUS
<1>2. secs \div DayLength = n /\ secs % DayLength = s
  <2>1. DayLength \in Nat
    BY CalendarAssumption
  <2>2. secs = n * DayLength + s
    BY <2>1 DEF LEAPOCH
  <2> HIDE DEF secs, n
  <2>3. QED
    BY <1>1, <2>2, QuotientAndRemainder
<1> HIDE DEF n
<1>3. YearAndDay(n) = [years |-> YearOfFour(n) + 4 * FourYears(n), remdays |-> DayOfYear(n)]
  BY <1>1, YearAndDayValue
<1>4. date_time_from_unix_time(timestamp, utc_offset)
        = IF YearOfDay(n) \notin 2020 .. 2083 THEN NoDate
          ELSE [year |-> y, month |-> MonthOfDay(n), day |-> DayOfMonth(n), time |-> s]
  <2> DEFINE march == YearAndDay(secs \div DayLength)
             m == MarchMonth(march.remdays)
             year == march.years + 2000 + (IF m >= 10 THEN 1 ELSE 0)
  <2>1. march = YearAndDay(n)
    BY <1>2
  <2>2. march.years = YearOfFour(n) + 4 * FourYears(n) /\ march.remdays = DayOfYear(n)
    BY <1>3, <2>1
  <2>3. date_time_from_unix_time(timestamp, utc_offset)
          = IF year \notin 2020 .. 2083 THEN NoDate
            ELSE [year |-> year - 2020,
                  month |-> (IF m >= 10 THEN m - 10 ELSE m + 2) + 1,
                  day |-> march.remdays - DaysFromMarch[m + 1] + 1,
                  time |-> secs % DayLength]
    BY DEF date_time_from_unix_time, MarchMonth, WATCH_RTC_REFERENCE_YEAR
  <2> HIDE DEF march, secs
  <2>4. /\ year = YearOfDay(n)
        /\ (IF m >= 10 THEN m - 10 ELSE m + 2) + 1 = MonthOfDay(n)
        /\ march.remdays - DaysFromMarch[m + 1] + 1 = DayOfMonth(n)
    BY <2>2 DEF YearOfDay, MonthOfDay, DayOfMonth
  <2> HIDE DEF year, m
  <2>5. QED
    BY <1>2, <2>3, <2>4
<1>5. /\ y \in -4 .. 67 /\ MonthOfDay(n) \in 1 .. 12
      /\ DayOfMonth(n) \in 1 .. MonthLength(y, MonthOfDay(n))
  BY <1>1, DateOfDay
<1>6. DayNumber(y, MonthOfDay(n), DayOfMonth(n)) = D
  <2>1. DayNumber(y, MonthOfDay(n), DayOfMonth(n)) = n - 7245
    BY <1>1, DateOfDay
  <2>2. QED
    BY <2>1 DEF n
<1>7. D >= 0 /\ D < CountedDays <=> y \in 0 .. 63
  <2> DEFINE month == MonthOfDay(n)  day == DayOfMonth(n)
  <2>1. y \in -4 .. 67 /\ month \in 1 .. 12 /\ day \in 1 .. MonthLength(y, month)
    BY <1>5
  <2>2. DayNumber(y, month, day) = D
    BY <1>6
  <2> HIDE DEF y, month, day
  <2>3. y \in Int /\ month \in 1 .. 12 /\ day \in 1 .. MonthLength(y, month)
    BY <2>1
  <2>4. DayNumber(y, month, day) >= 0 /\ DayNumber(y, month, day) < CountedDays
          <=> y >= 0 /\ y <= 63
    BY <2>3, NumberedYears
  <2>5. D >= 0 /\ D < CountedDays <=> y >= 0 /\ y <= 63
    BY <2>2, <2>4
  <2>6. QED
    BY <2>3, <2>5
<1>8. YearOfDay(n) \in 2020 .. 2083 <=> y \in 0 .. 63
  BY <1>5
<1>9. CASE D >= 0 /\ D < CountedDays
  <2>1. date \in Date
    BY <1>5, <1>7, <1>9 DEF DateAt, Date, Years, MonthLength
  <2>2. date_time_from_unix_time(timestamp, utc_offset) = At(date, s)
    BY <1>4, <1>7, <1>8, <1>9 DEF At, DateAt
  <2>3. DayNumber(date.year, date.month, date.day) = D
    BY <1>6 DEF DateAt
  <2> HIDE DEF date
  <2>4. QED
    BY <1>9, <2>1, <2>2, <2>3
<1>10. CASE ~(D >= 0 /\ D < CountedDays)
  BY <1>4, <1>7, <1>8, <1>10
<1>11. QED
  BY <1>9, <1>10

(* The months before a month of the year begin before it, by their length. *)
LEMMA MonthsOrdered ==
  ASSUME NEW y \in Int, NEW m \in 1 .. 12, NEW n \in 1 .. 12, m < n
  PROVE  BeforeMonth(y, m) + MonthLength(y, m) <= BeforeMonth(y, n)
<1>1. m \in 1 .. 11 /\ m + 1 \in 1 .. 12 /\ m + 1 <= n
  OBVIOUS
<1>2. BeforeMonth(y, m + 1) = BeforeMonth(y, m) + MonthLength(y, m)
  BY <1>1, MonthsFollow
<1>3. DaysSoFar[m + 1] <= DaysSoFar[n] /\ DaysSoFar[m + 1] \in Int /\ DaysSoFar[n] \in Int
  <2>1. m = 1 \/ m = 2 \/ m = 3 \/ m = 4 \/ m = 5 \/ m = 6 \/ m = 7 \/ m = 8 \/ m = 9 \/ m = 10
        \/ m = 11
    BY <1>1
  <2>2. n = 1 \/ n = 2 \/ n = 3 \/ n = 4 \/ n = 5 \/ n = 6 \/ n = 7 \/ n = 8 \/ n = 9 \/ n = 10
        \/ n = 11 \/ n = 12
    BY MonthNumbers
  <2>3. QED
    BY <1>1, <2>1, <2>2 DEF DaysSoFar
<1>4. LeapDay(y) \in 0 .. 1
  BY LeapDays
<1>5. BeforeMonth(y, m + 1) <= BeforeMonth(y, n)
  BY <1>1, <1>3, <1>4 DEF BeforeMonth
<1>6. QED
  BY <1>2, <1>5

(* A date has a smaller number than one of a later year, a later month of  *)
(* its year or a later day of its month.                                   *)
LEMMA LaterYear ==
  ASSUME NEW a \in Date, NEW b \in Date, a.year < b.year
  PROVE  DayNumber(a.year, a.month, a.day) < DayNumber(b.year, b.month, b.day)
<1> DEFINE y == a.year  z == b.year
           na == DayNumber(a.year, a.month, a.day)
           nb == DayNumber(b.year, b.month, b.day)
<1>1. y \in 0 .. 63 /\ z \in 0 .. 63 /\ y + 1 <= z
  <2>1. a.year \in 0 .. 63
    BY DateFields
  <2>2. b.year \in 0 .. 63
    BY DateFields
  <2>3. QED
    BY <2>1, <2>2
<1>2. na \in 0 .. CountedDays - 1 /\ na < DayNumber(y + 1, 1, 1)
  BY NumberInYear
<1>3. nb \in 0 .. CountedDays - 1 /\ nb >= DayNumber(z, 1, 1)
  BY NumberInYear
<1> HIDE DEF y, z, na, nb
<1>4. /\ DayNumber(y + 1, 1, 1) <= DayNumber(z, 1, 1)
      /\ DayNumber(y + 1, 1, 1) \in Int /\ DayNumber(z, 1, 1) \in Int
  <2>1. DayNumber(y + 1, 1, 1) = 365 * (y + 1) + (y + 4) \div 4
    BY <1>1 DEF DayNumber, BeforeMonth, DaysSoFar
  <2>2. DayNumber(z, 1, 1) = 365 * z + (z + 3) \div 4
    BY <1>1 DEF DayNumber, BeforeMonth, DaysSoFar
  <2>3. (y + 4) \div 4 <= (z + 3) \div 4
    BY <1>1
  <2>4. QED
    BY <1>1, <2>1, <2>2, <2>3
<1>5. na < nb
  BY <1>2, <1>3, <1>4
<1>6. QED
  BY <1>5 DEF na, nb

LEMMA LaterInYear ==
  ASSUME NEW a \in Date, NEW b \in Date, a.year = b.year,
         a.month < b.month \/ (a.month = b.month /\ a.day < b.day)
  PROVE  DayNumber(a.year, a.month, a.day) < DayNumber(b.year, b.month, b.day)
<1> DEFINE y == a.year  m == a.month  n == b.month  d == a.day  e == b.day
           before == BeforeMonth(y, m)
           later == BeforeMonth(y, n)
           length == MonthLength(y, m)
<1>1. y \in 0 .. 63 /\ y \in Int /\ m \in 1 .. 12 /\ d \in 1 .. length
  BY DateFields
<1>2. b.year = y /\ n \in 1 .. 12 /\ e \in 1 .. MonthLength(y, n)
  BY DateFields
<1>3. m < n \/ (m = n /\ d < e)
  OBVIOUS
<1> HIDE DEF y, m, n, d, e
<1>4. length \in 28 .. 31 /\ before \in Nat /\ later \in Nat /\ e \in Nat /\ d \in Nat
      /\ e >= 1 /\ d <= length
  <2>1. length \in 28 .. 31 /\ before \in Nat
    BY <1>1, MonthLengths
  <2>2. MonthLength(y, n) \in 28 .. 31 /\ later \in Nat
    BY <1>1, <1>2, MonthLengths
  <2>3. QED
    BY <1>1, <1>2, <2>1, <2>2
<1>5. m < n => before + length <= later
  BY <1>1, <1>2, MonthsOrdered
<1>6. m = n => before = later
  OBVIOUS
<1> HIDE DEF before, later, length
<1>7. before + d < later + e
  BY <1>3, <1>4, <1>5, <1>6
<1>8. /\ DayNumber(y, m, d) = 365 * y + (y + 3) \div 4 + before + d - 1
      /\ DayNumber(y, n, e) = 365 * y + (y + 3) \div 4 + later + e - 1
  BY DEF DayNumber, before, later
<1>9. DayNumber(y, m, d) < DayNumber(y, n, e)
  BY <1>1, <1>4, <1>7, <1>8
<1>10. QED
  BY <1>2, <1>9 DEF y, m, n, d, e

(* No two dates have one number.                                           *)
LEMMA NumbersDiffer ==
  ASSUME NEW a \in Date, NEW b \in Date,
         DayNumber(a.year, a.month, a.day) = DayNumber(b.year, b.month, b.day)
  PROVE  a = b
<1>1. a.year \in Int /\ a.month \in Int /\ a.day \in Int
  BY DEF Date
<1>2. b.year \in Int /\ b.month \in Int /\ b.day \in Int
  BY DEF Date
<1>3. DayNumber(a.year, a.month, a.day) \in Int
  <2> DEFINE na == DayNumber(a.year, a.month, a.day)
  <2>1. na \in 0 .. CountedDays - 1
    BY NumberInYear
  <2> HIDE DEF na
  <2>2. na \in Int
    BY <2>1
  <2>3. QED
    BY <2>2 DEF na
<1>4. ~(a.year < b.year)
  <2> SUFFICES ASSUME a.year < b.year PROVE FALSE
    OBVIOUS
  <2>1. DayNumber(a.year, a.month, a.day) < DayNumber(b.year, b.month, b.day)
    BY LaterYear
  <2>2. QED
    BY <1>3, <2>1
<1>5. ~(b.year < a.year)
  <2> SUFFICES ASSUME b.year < a.year PROVE FALSE
    OBVIOUS
  <2>1. DayNumber(b.year, b.month, b.day) < DayNumber(a.year, a.month, a.day)
    BY LaterYear
  <2>2. QED
    BY <1>3, <2>1
<1>6. a.year = b.year
  BY <1>1, <1>2, <1>4, <1>5
<1>7. ~(a.month < b.month \/ (a.month = b.month /\ a.day < b.day))
  <2> SUFFICES ASSUME a.month < b.month \/ (a.month = b.month /\ a.day < b.day) PROVE FALSE
    OBVIOUS
  <2>1. DayNumber(a.year, a.month, a.day) < DayNumber(b.year, b.month, b.day)
    BY <1>6, LaterInYear
  <2>2. QED
    BY <1>3, <2>1
<1>8. ~(b.month < a.month \/ (b.month = a.month /\ b.day < a.day))
  <2> SUFFICES ASSUME b.month < a.month \/ (b.month = a.month /\ b.day < a.day) PROVE FALSE
    OBVIOUS
  <2>1. DayNumber(b.year, b.month, b.day) < DayNumber(a.year, a.month, a.day)
    BY <1>6, LaterInYear
  <2>2. QED
    BY <1>3, <2>1
<1>9. a.month = b.month /\ a.day = b.day
  BY <1>1, <1>2, <1>7, <1>8
<1>10. a = [year |-> a.year, month |-> a.month, day |-> a.day]
  BY DateFields
<1>11. b = [year |-> b.year, month |-> b.month, day |-> b.day]
  BY DateFields
<1>12. QED
  BY <1>6, <1>9, <1>10, <1>11

(* The day and the time of day of a number of units near a day.            *)
LEMMA DayAndTime ==
  ASSUME NEW n \in Int, NEW total \in Int, total >= -2 * DayLength, total < 3 * DayLength
  PROVE  \E D \in Int, s \in 0 .. DayLength - 1 :
           /\ D >= n - 2 /\ D <= n + 2
           /\ n * DayLength + total = D * DayLength + s
<1>1. DayLength \in Nat \ {0}
  BY CalendarAssumption
<1> DEFINE In(k) == k * DayLength <= total /\ total < k * DayLength + DayLength
           Day(D, s) == D >= n - 2 /\ D <= n + 2 /\ n * DayLength + total = D * DayLength + s
<1>2. ASSUME NEW k \in -2 .. 2, In(k)
      PROVE  \E D \in Int, s \in 0 .. DayLength - 1 : Day(D, s)
  <2> DEFINE D == n + k  s == total - k * DayLength
  <2>1. k * DayLength \in Int /\ n * DayLength \in Int
    BY <1>1
  <2>2. s \in 0 .. DayLength - 1
    BY <1>1, <1>2, <2>1
  <2>3. n * DayLength + total = D * DayLength + s
    BY <1>1
  <2>4. D \in Int /\ D >= n - 2 /\ D <= n + 2
    OBVIOUS
  <2> HIDE DEF D, s
  <2>5. Day(D, s)
    BY <2>3, <2>4
  <2> HIDE DEF Day
  <2>6. QED
    BY <2>2, <2>4, <2>5
<1>3. In(-2) \/ In(-1) \/ In(0) \/ In(1) \/ In(2)
  BY <1>1
<1> HIDE DEF In
<1>4. \E D \in Int, s \in 0 .. DayLength - 1 : Day(D, s)
  <2> HIDE DEF Day
  <2>1. QED
    BY <1>2, <1>3
<1>5. QED
  BY <1>4

(* A time is within the days of the register as its day is.                *)
LEMMA WithinDays ==
  ASSUME NEW D \in Int, NEW s \in 0 .. DayLength - 1
  PROVE  D * DayLength + s \in 0 .. CountedDays * DayLength - 1 <=> D >= 0 /\ D < CountedDays
<1>1. DayLength \in Nat \ {0} /\ CountedDays \in Nat
  BY CalendarAssumption DEF CountedDays
<1> DEFINE c == CountedDays  whole == D * DayLength  all == c * DayLength
<1> HIDE DEF c
<1>2. whole \in Int /\ all \in Int /\ c \in Int
  BY <1>1 DEF c
<1>3. CASE D < 0
  <2>1. whole <= -1 * DayLength
    BY <1>1, <1>3, Monotone
  <2>2. whole + s < 0
    <3> HIDE DEF whole
    <3>1. QED
      BY <1>1, <1>2, <2>1
  <2>3. QED
    BY <1>2, <1>3, <2>2 DEF c
<1>4. CASE D >= c
  <2>1. all <= whole
    BY <1>1, <1>2, <1>4, Monotone
  <2>2. ~(whole + s <= all - 1)
    <3> HIDE DEF whole, all
    <3>1. QED
      BY <1>1, <1>2, <2>1
  <2>3. QED
    BY <1>2, <1>4, <2>2 DEF c
<1>5. CASE D >= 0 /\ D < c
  <2>1. 0 <= whole
    <3>1. 0 * DayLength <= D * DayLength
      BY <1>1, <1>5, Monotone
    <3>2. QED
      BY <1>1, <3>1
  <2>2. whole + DayLength <= all
    <3>1. D + 1 <= c /\ D + 1 \in Int
      BY <1>2, <1>5
    <3>2. (D + 1) * DayLength <= c * DayLength
      BY <1>1, <1>2, <3>1, Monotone
    <3>3. (D + 1) * DayLength = D * DayLength + DayLength
      BY <1>1
    <3>4. QED
      BY <3>2, <3>3
  <2>3. whole + s \in 0 .. all - 1
    <3> HIDE DEF whole, all
    <3>1. QED
      BY <1>1, <1>2, <2>1, <2>2
  <2>4. QED
    BY <1>5, <2>3 DEF c
<1>6. QED
  BY <1>2, <1>3, <1>4, <1>5

(* A date's time is the date that its UNIX time converts to.               *)
LEMMA BackAgain ==
  ASSUME NEW date \in Date, NEW time \in 0 .. DayLength - 1,
         NEW timestamp \in Int, NEW utc_offset \in Int,
         timestamp + utc_offset
           = (18262 + DayNumber(date.year, date.month, date.day)) * DayLength + time
  PROVE  date_time_from_unix_time(timestamp, utc_offset) = At(date, time)
<1> DEFINE D == DayNumber(date.year, date.month, date.day)
<1>1. D \in 0 .. CountedDays - 1
  BY NumberInYear
<1>2. timestamp + utc_offset = (18262 + D) * DayLength + time
  OBVIOUS
<1> HIDE DEF D
<1>3. D \in Int /\ D >= -3 /\ D <= 23379 /\ D >= 0 /\ D < CountedDays
  BY <1>1 DEF CountedDays
<1>4. PICK back \in Date :
        /\ date_time_from_unix_time(timestamp, utc_offset) = At(back, time)
        /\ DayNumber(back.year, back.month, back.day) = D
  BY <1>2, <1>3, FromUnixTime
<1>5. back = date
  BY <1>4, NumbersDiffer DEF D
<1>6. QED
  BY <1>4, <1>5

(* A time in one zone, converted to another, is that zone's time: it       *)
(* converts back to the same one, and at the same offset it is the same;   *)
(* only a time outside the register's years has no date, for any offsets   *)
(* up to a day and any time of day (ConversionsAgree).                     *)
THEOREM ConversionsAreInverse == CalendarSpec => []ConversionsAgree
<1>1. CalendarInv => ConversionsAgree
  <2> SUFFICES ASSUME CalendarInv,
                      NEW time \in Moments, NEW origin \in Offsets, NEW destination \in Offsets
               PROVE  LET here == At(today, time)
                          there == date_time_convert_zone(here, origin, destination)
                      IN IF days * DayLength + time - origin + destination
                              \in 0 .. CountedDays * DayLength - 1
                         THEN /\ date_time_convert_zone(there, destination, origin) = here
                              /\ origin = destination => there = here
                         ELSE there = NoDate
    BY DEF ConversionsAgree
  <2> DEFINE here == At(today, time)
             timestamp == date_time_to_unix_time(here, origin)
             there == date_time_convert_zone(here, origin, destination)
             total == time - origin + destination
  <2>1. today \in Date /\ days = DayNumber(today.year, today.month, today.day)
    BY DEF CalendarInv
  <2>2. days \in Int /\ days >= 0 /\ days <= 23375
    <3>1. days \in 0 .. CountedDays - 1
      BY <2>1, NumberInYear
    <3>2. QED
      BY <3>1 DEF CountedDays
  <2>3. /\ DayLength \in Nat \ {0} /\ time \in 0 .. DayLength - 1
        /\ origin \in -DayLength .. DayLength /\ destination \in -DayLength .. DayLength
    BY CalendarAssumption
  <2>4. timestamp = (18262 + days) * DayLength + time - origin
    BY <2>1, <2>3, UnixTime
  <2>5. total \in Int /\ total >= -2 * DayLength /\ total < 3 * DayLength
    BY <2>3
  <2> HIDE DEF total
  <2>6. PICK D \in Int, s \in 0 .. DayLength - 1 :
          /\ D >= days - 2 /\ D <= days + 2
          /\ days * DayLength + total = D * DayLength + s
    <3>1. days \in Int
      BY <2>2
    <3>2. QED
      BY <2>5, <3>1, DayAndTime
  <2>7. days * DayLength + time - origin + destination = D * DayLength + s
    <3>1. days * DayLength \in Int
      BY <2>2, <2>3
    <3>2. QED
      BY <2>3, <2>6, <3>1 DEF total
  <2>8. timestamp \in Int /\ timestamp + destination = (18262 + D) * DayLength + s
    <3>1. (18262 + days) * DayLength = 18262 * DayLength + days * DayLength
      BY <2>2, <2>3
    <3>2. (18262 + D) * DayLength = 18262 * DayLength + D * DayLength
      BY <2>3
    <3> DEFINE a == 18262 * DayLength  b == days * DayLength  c == D * DayLength
    <3>3. a \in Int /\ b \in Int /\ c \in Int
      BY <2>2, <2>3
    <3>4. timestamp = a + b + time - origin
      BY <2>4, <3>1
    <3>5. b + time - origin + destination = c + s
      BY <2>7
    <3> HIDE DEF a, b, c, timestamp
    <3>6. timestamp \in Int /\ timestamp + destination = a + c + s
      BY <2>3, <3>3, <3>4, <3>5
    <3>7. QED
      BY <3>2, <3>6 DEF a, c
  <2>9. there = date_time_from_unix_time(timestamp, destination)
    BY DEF date_time_convert_zone
  <2>10. D >= -3 /\ D <= 23379 /\ destination \in Int /\ origin \in Int
    BY <2>2, <2>3, <2>6
  <2>11. CASE D >= 0 /\ D < CountedDays
    <3> HIDE DEF timestamp
    <3>1. PICK date \in Date :
            there = At(date, s) /\ DayNumber(date.year, date.month, date.day) = D
      BY <2>8, <2>9, <2>10, <2>11, FromUnixTime
    <3> DEFINE back == date_time_to_unix_time(there, destination)
    <3>2. back = (18262 + D) * DayLength + s - destination
      BY <2>3, <3>1, UnixTime
    <3>3. back \in Int /\ back + origin = timestamp + origin
      <4>1. (18262 + D) * DayLength \in Int
        BY <2>3
      <4> DEFINE whole == (18262 + D) * DayLength
      <4> HIDE DEF whole, back
      <4>2. back = whole + s - destination /\ timestamp + destination = whole + s /\ whole \in Int
        BY <2>8, <3>2, <4>1 DEF whole
      <4>3. QED
        BY <2>3, <2>8, <4>2
    <3>4. timestamp + origin
            = (18262 + DayNumber(today.year, today.month, today.day)) * DayLength + time
      <4> DEFINE whole == (18262 + days) * DayLength
      <4>1. whole \in Int
        BY <2>2, <2>3
      <4>2. timestamp = whole + time - origin
        BY <2>4
      <4> HIDE DEF whole
      <4>3. timestamp + origin = whole + time
        BY <2>3, <4>1, <4>2
      <4>4. QED
        BY <2>1, <4>3 DEF whole
    <3>5. back + origin
            = (18262 + DayNumber(today.year, today.month, today.day)) * DayLength + time
      BY <3>3, <3>4
    <3> HIDE DEF back
    <3>6. date_time_from_unix_time(back, origin) = here
      BY <2>1, <2>3, <2>10, <3>3, <3>5, BackAgain
    <3>7. date_time_convert_zone(there, destination, origin) = here
      BY <3>6 DEF date_time_convert_zone, back
    <3>8. ASSUME origin = destination PROVE there = here
      BY <2>1, <2>3, <2>8, <2>9, <2>10, <3>4, <3>8, BackAgain
    <3>9. D * DayLength + s \in 0 .. CountedDays * DayLength - 1
      BY <2>11, WithinDays
    <3>10. QED
      BY <2>7, <3>7, <3>8, <3>9
  <2>12. CASE ~(D >= 0 /\ D < CountedDays)
    <3> HIDE DEF timestamp
    <3>1. there = NoDate
      BY <2>8, <2>9, <2>10, <2>12, FromUnixTime
    <3>2. ~(D * DayLength + s \in 0 .. CountedDays * DayLength - 1)
      BY <2>12, WithinDays
    <3>3. QED
      BY <2>7, <3>1, <3>2
  <2>13. QED
    BY <2>11, <2>12
<1>2. QED
  BY <1>1, CalendarInitInv, CalendarNextInv, PTL DEF CalendarSpec

-----------------------------------------------------------------------------
(* The rules of summer time.                                               *)

(* The weekday of a date, Monday as 1, and the day of a rule in a year.    *)
Weekday(y, m, d) == ((DayNumber(y, m, d) + 2) % 7) + 1

RuleDay(r, y) == unpack_rule(r, y + 20).day

LEMMA DayOfWeekIsCounted ==
  ASSUME NEW y \in 0 .. 63, NEW m \in 1 .. 12, NEW d \in Nat
  PROVE  dayofweek(y + 20, m, d) = Weekday(y, m, d)
<1> DEFINE before == DaysSoFar[m]
           off == MonthOffset[m]
           leap == LeapDay(y)
<1>1. /\ m = 1 \/ m = 2 \/ m = 3 \/ m = 4 \/ m = 5 \/ m = 6 \/ m = 7 \/ m = 8 \/ m = 9 \/ m = 10
         \/ m = 11 \/ m = 12
      /\ before \in Int /\ off \in Int
  BY MonthNumbers DEF MonthOffset, DaysSoFar
<1>2. leap \in 0 .. 1 /\ (y + 3) \div 4 + leap = y \div 4 + 1
  <2>1. y \in Int
    OBVIOUS
  <2>2. QED
    BY <2>1, LeapDays
<1>3. CASE m < 3
  <2> DEFINE year == y + 2019
             sum == year + year \div 4 - year \div 100 + 5 + off + d
             number == 365 * y + (y + 3) \div 4 + before + d + 1
             k == (IF m = 1 THEN 358 ELSE 354) - 52 * y
  <2>1. m = 1 \/ m = 2
    BY <1>3
  <2>2. dayofweek(y + 20, m, d) = IF sum % 7 = 0 THEN 7 ELSE sum % 7
    <3>1. y + 20 + 2000 - 1 = year /\ 2000 \div 400 = 5
      OBVIOUS
    <3> HIDE DEF year
    <3>2. QED
      BY <1>3, <3>1 DEF dayofweek
  <2>3. DayNumber(y, m, d) + 2 = number
    BY <2>1 DEF DayNumber, BeforeMonth, DaysSoFar
  <2>4. off - before = IF m = 1 THEN 0 ELSE -28
    BY <2>1 DEF MonthOffset, DaysSoFar
  <2>5. sum \in Int /\ number \in Int /\ k \in Int /\ sum - 1 = number + 7 * k
    <3>1. year \div 4 = (y + 3) \div 4 + 504 /\ year \div 100 = 20
      OBVIOUS
    <3> HIDE DEF before, off
    <3>2. QED
      BY <1>1, <2>1, <2>4, <3>1
  <2> HIDE DEF sum, number, k
  <2>6. (sum - 1) % 7 = number % 7
    BY <2>5, WeeksDoNotCount
  <2>7. (IF sum % 7 = 0 THEN 7 ELSE sum % 7) = ((sum - 1) % 7) + 1
    BY <2>5
  <2>8. QED
    BY <2>2, <2>3, <2>6, <2>7 DEF Weekday
<1>4. CASE m >= 3
  <2> DEFINE year == y + 2020
             sum == year + year \div 4 - year \div 100 + 5 + off + d
             number == 365 * y + y \div 4 + before + d + 2
             c == off - before + 2507
             k == c \div 7 - 52 * y
  <2>1. dayofweek(y + 20, m, d) = IF sum % 7 = 0 THEN 7 ELSE sum % 7
    <3>1. y + 20 + 2000 - 0 = year /\ 2000 \div 400 = 5 /\ ~(m < 3)
      BY <1>4
    <3> HIDE DEF year
    <3>2. QED
      BY <3>1 DEF dayofweek
  <2>2. DayNumber(y, m, d) + 2 = number
    <3>1. BeforeMonth(y, m) = before + leap
      BY <1>4 DEF BeforeMonth
    <3>2. DayNumber(y, m, d) = 365 * y + (y + 3) \div 4 + (before + leap) + d - 1
      BY <3>1 DEF DayNumber
    <3> HIDE DEF before, leap
    <3>3. QED
      BY <1>1, <1>2, <3>2
  <2>3. c % 7 = 0
    BY <1>1, <1>4 DEF MonthOffset, DaysSoFar
  <2>4. sum \in Int /\ number \in Int /\ k \in Int /\ sum - 1 = number + 7 * k
    <3>1. year \div 4 = y \div 4 + 505 /\ year \div 100 = 20
      OBVIOUS
    <3> HIDE DEF before, off
    <3>2. c = 7 * (c \div 7) /\ c \in Int
      BY <1>1, <2>3
    <3>3. QED
      BY <1>1, <3>1, <3>2
  <2> HIDE DEF sum, number, k
  <2>5. (sum - 1) % 7 = number % 7
    BY <2>4, WeeksDoNotCount
  <2>6. (IF sum % 7 = 0 THEN 7 ELSE sum % 7) = ((sum - 1) % 7) + 1
    BY <2>4
  <2>7. QED
    BY <2>1, <2>2, <2>5, <2>6 DEF Weekday
<1>5. QED
  BY <1>3, <1>4

(* A rule of a zone, and the days of a month that are its day.             *)
WellFormed(r) ==
  /\ r.on_dayofweek \in 0 .. 7 /\ r.on_dayofmonth \in 0 .. 31
  /\ r.in_month \in 1 .. 12 /\ r.at_hours \in 0 .. 23
  /\ r.from_year \in Nat /\ r.to_year \in Nat /\ r.to_year >= 84
  /\ r.on_dayofweek = 0 => r.on_dayofmonth \in 1 .. 28
  /\ r.on_dayofweek # 0 => r.on_dayofmonth + 6 <= MonthLength(1, r.in_month)

LEMMA RuleFields ==
  ASSUME NEW z \in Zones
  PROVE  /\ Len(z.rules) \in 0 .. 4
         /\ \A i \in 1 .. Len(z.rules) :
              WellFormed(z.rules[i]) /\ z.rules[i].offset_hours \in Nat
         /\ \A i, j \in 1 .. Len(z.rules) : i < j => z.rules[i].in_month < z.rules[j].in_month
<1> DEFINE Rule == [from_year : Nat, to_year : Nat, on_dayofweek : 0 .. 7,
                    on_dayofmonth : 0 .. 31, in_month : 1 .. 12, at_hours : 0 .. 23,
                    offset_hours : Nat]
<1>1. z.rules \in Seq(Rule) /\ Len(z.rules) <= 4
  BY TimeZoneAssumption
<1> DEFINE rules == z.rules
<1> HIDE DEF Rule
<1>2. \A i, j \in 1 .. Len(z.rules) : i < j => z.rules[i].in_month < z.rules[j].in_month
  BY TimeZoneAssumption, SMTT(60)
<1>3. ASSUME NEW i \in 1 .. Len(z.rules)
      PROVE  WellFormed(z.rules[i]) /\ z.rules[i].offset_hours \in Nat
  <2> DEFINE r == z.rules[i]
  <2>1. r \in Rule
    <3>1. rules \in Seq(Rule) /\ i \in 1 .. Len(rules)
      BY <1>1
    <3> HIDE DEF rules
    <3>2. rules[i] \in Rule
      BY <3>1
    <3>3. QED
      BY <3>2 DEF rules
  <2>2. /\ r.to_year >= 20 + Years
        /\ r.on_dayofweek = 0 => r.on_dayofmonth \in 1 .. 28
        /\ r.on_dayofweek # 0 => r.on_dayofmonth + 6 <= MonthLength(1, r.in_month)
    <3>1. \A k \in 1 .. Len(z.rules) :
            LET s == z.rules[k] IN
            /\ s.to_year >= 20 + Years
            /\ s.on_dayofweek = 0 => s.on_dayofmonth \in 1 .. 28
            /\ s.on_dayofweek # 0 => s.on_dayofmonth + 6 <= MonthLength(1, s.in_month)
      BY TimeZoneAssumption, SMTT(60)
    <3>2. QED
      BY <3>1
  <2> HIDE DEF r
  <2>3. WellFormed(r) /\ r.offset_hours \in Nat
    BY <2>1, <2>2 DEF WellFormed, Years, Rule
  <2>4. QED
    BY <2>3 DEF r
<1>4. Len(z.rules) \in 0 .. 4
  <2> DEFINE length == Len(z.rules)
  <2>1. length \in Nat
    BY <1>1
  <2>2. length <= 4
    BY <1>1
  <2> HIDE DEF length
  <2>3. length \in 0 .. 4
    BY <2>1, <2>2
  <2>4. QED
    BY <2>3 DEF length
<1>5. QED
  BY <1>2, <1>3, <1>4

OnDay(r, y, d) ==
  IF r.on_dayofweek = 0 THEN d = r.on_dayofmonth
  ELSE /\ Weekday(y, r.in_month, d) = r.on_dayofweek
       /\ IF r.on_dayofmonth = 0 THEN d + 7 > MonthLength(y, r.in_month)
          ELSE d \in r.on_dayofmonth .. r.on_dayofmonth + 6

(* A rule has one day in each year, which utz finds.                       *)
LEMMA RuleDays ==
  ASSUME NEW r, WellFormed(r), NEW y \in 0 .. 63
  PROVE  /\ RuleDay(r, y) \in 1 .. MonthLength(y, r.in_month)
         /\ \A d \in 1 .. MonthLength(y, r.in_month) : OnDay(r, y, d) <=> d = RuleDay(r, y)
<1> DEFINE m == r.in_month
           t == r.on_dayofweek
           from == r.on_dayofmonth
           length == MonthLength(y, m)
           c == 365 * y + (y + 3) \div 4 + BeforeMonth(y, m) + 1
           D == RuleDay(r, y)
<1>1. /\ m \in 1 .. 12 /\ t \in 0 .. 7 /\ from \in 0 .. 31
      /\ t = 0 => from \in 1 .. 28
      /\ t # 0 => from + 6 <= MonthLength(1, m)
  BY DEF WellFormed
<1>2. y \in Int
  OBVIOUS
<1>3. /\ length \in 28 .. 31 /\ BeforeMonth(y, m) \in Nat
      /\ MonthLength(1, m) \in 28 .. 31 /\ MonthLength(1, m) <= length
  <2>1. length \in 28 .. 31 /\ BeforeMonth(y, m) \in Nat
    BY <1>1, <1>2, MonthLengths
  <2>2. MonthLength(1, m) \in 28 .. 31 /\ MonthLength(1, m) <= length
    BY DEF MonthLength
  <2>3. QED
    BY <2>1, <2>2
<1>4. c \in Int
  BY <1>2, <1>3
<1>5. ASSUME NEW d \in Nat PROVE Weekday(y, m, d) = ((c + d) % 7) + 1
  <2>1. DayNumber(y, m, d) + 2 = c + d
    BY <1>2, <1>3 DEF DayNumber
  <2> HIDE DEF c, m
  <2>2. QED
    BY <2>1 DEF Weekday
<1>6. ASSUME NEW d \in Nat PROVE dayofweek(y + 20, m, d) = ((c + d) % 7) + 1
  <2> HIDE DEF c, m
  <2>1. dayofweek(y + 20, m, d) = Weekday(y, m, d)
    BY <1>1, DayOfWeekIsCounted
  <2>2. QED
    BY <1>5, <2>1
<1>7. days_in_month(y + 20, m) = length
  <2>1. y + 20 + 2000 = y + 2020 /\ (is_leap(y + 2020) <=> y % 4 = 0)
    BY LeapYears
  <2>2. QED
    BY <2>1 DEF days_in_month, MonthLength
<1>8. CASE t = 0
  <2>1. D = from
    BY <1>8 DEF RuleDay, unpack_rule
  <2>2. \A d \in 1 .. length : OnDay(r, y, d) <=> d = from
    BY <1>8 DEF OnDay
  <2>3. from \in 1 .. length
    BY <1>1, <1>3, <1>8
  <2> HIDE DEF D, length
  <2>4. D \in 1 .. length /\ \A d \in 1 .. length : OnDay(r, y, d) <=> d = D
    BY <2>1, <2>2, <2>3
  <2>5. QED
    BY <2>4 DEF D, length
<1>9. CASE t # 0 /\ from = 0
  <2> DEFINE fourth == 22 + ((7 + t - (((c + 1) % 7) + 1)) % 7)
             last == IF fourth + 7 <= length THEN fourth + 7 ELSE fourth
  <2>1. D = last
    <3>1. dayofweek(y + 20, m, 1) = ((c + 1) % 7) + 1
      BY <1>6
    <3> HIDE DEF c, length
    <3>2. QED
      BY <1>7, <1>9, <3>1 DEF RuleDay, unpack_rule, next_dayofweek_offset
  <2>2. ASSUME NEW d \in 1 .. length
        PROVE  last \in 1 .. length /\ (OnDay(r, y, d) <=> d = last)
    <3>1. OnDay(r, y, d) <=> ((c + d) % 7) + 1 = t /\ d + 7 > length
      <4>1. Weekday(y, m, d) = ((c + d) % 7) + 1
        BY <1>3, <1>5
      <4> HIDE DEF c, length
      <4>2. QED
        BY <1>9, <4>1 DEF OnDay, length
    <3>2. t \in 1 .. 7
      BY <1>1, <1>9
    <3> HIDE DEF c, length, t
    <3>3. /\ last \in 1 .. length
          /\ ((c + d) % 7) + 1 = t /\ d + 7 > length <=> d = last
      BY <1>3, <1>4, <3>2
    <3> HIDE DEF last
    <3>4. QED
      BY <3>1, <3>3
  <2>3. 1 \in 1 .. length
    BY <1>3
  <2> HIDE DEF last, D, length
  <2>4. D \in 1 .. length /\ \A d \in 1 .. length : OnDay(r, y, d) <=> d = D
    BY <2>1, <2>2, <2>3
  <2>5. QED
    BY <2>4 DEF D, length
<1>10. CASE t # 0 /\ from # 0
  <2> DEFINE first == from + ((7 + t - (((c + from) % 7) + 1)) % 7)
  <2>1. D = first
    <3>1. from \in Nat /\ dayofweek(y + 20, m, from) = ((c + from) % 7) + 1
      BY <1>1, <1>6
    <3> HIDE DEF c
    <3>2. QED
      BY <1>10, <3>1 DEF RuleDay, unpack_rule, next_dayofweek_offset
  <2>2. ASSUME NEW d \in 1 .. length
        PROVE  first \in 1 .. length /\ (OnDay(r, y, d) <=> d = first)
    <3>1. OnDay(r, y, d) <=> ((c + d) % 7) + 1 = t /\ d \in from .. from + 6
      <4>1. Weekday(y, m, d) = ((c + d) % 7) + 1
        BY <1>3, <1>5
      <4> HIDE DEF c, length
      <4>2. QED
        BY <1>10, <4>1 DEF OnDay
    <3>2. t \in 1 .. 7 /\ from \in 1 .. 31 /\ from + 6 <= length /\ d \in 1 .. 31
      BY <1>1, <1>3, <1>10
    <3> HIDE DEF c, length, t, from
    <3>3. /\ first \in from .. from + 6
          /\ ((c + d) % 7) + 1 = t /\ d \in from .. from + 6 <=> d = first
      BY <1>4, <3>2
    <3> HIDE DEF first
    <3>4. QED
      BY <1>3, <3>1, <3>2, <3>3
  <2>3. 1 \in 1 .. length
    BY <1>3
  <2> HIDE DEF first, D, length
  <2>4. D \in 1 .. length /\ \A d \in 1 .. length : OnDay(r, y, d) <=> d = D
    BY <2>1, <2>2, <2>3
  <2>5. QED
    BY <2>4 DEF D, length
<1>11. QED
  BY <1>8, <1>9, <1>10

(* The last of at most four indices.                                       *)
LEMMA LatestIndex ==
  ASSUME NEW p \in SUBSET (1 .. 4), p # {}
  PROVE  Latest(p) \in p /\ \A j \in p : j <= Latest(p)
<1>1. \E i \in p : \A j \in p : j <= i
  <2>1. CASE 4 \in p
    BY <2>1
  <2>2. CASE 4 \notin p /\ 3 \in p
    BY <2>2
  <2>3. CASE 4 \notin p /\ 3 \notin p /\ 2 \in p
    BY <2>3
  <2>4. CASE 4 \notin p /\ 3 \notin p /\ 2 \notin p
    <3>1. \A j \in p : j = 1
      BY <2>4
    <3>2. \E j : j \in p
      OBVIOUS
    <3>3. QED
      BY <3>1, <3>2
  <2>5. QED
    BY <2>1, <2>2, <2>3, <2>4
<1>2. QED
  BY <1>1 DEF Latest

LEMMA LatestIs ==
  ASSUME NEW p \in SUBSET (1 .. 4), NEW i \in p, \A j \in p : j <= i
  PROVE  Latest(p) = i
<1> DEFINE last == Latest(p)
<1>1. last \in p /\ \A j \in p : j <= last
  BY LatestIndex
<1> HIDE DEF last
<1>2. last <= i /\ i <= last /\ last \in Int /\ i \in Int
  BY <1>1
<1>3. last = i
  BY <1>2
<1>4. QED
  BY <1>3 DEF last

(* The rules whose days lie before a day of the year, those whose hour has *)
(* come on a day, and both.                                                *)
Passed(rules, y, m, d) ==
  {i \in 1 .. Len(rules) : \/ rules[i].in_month < m
                           \/ rules[i].in_month = m /\ RuleDay(rules[i], y) < d}

Due(rules, y, m, d, time) ==
  {i \in 1 .. Len(rules) : /\ rules[i].in_month = m /\ RuleDay(rules[i], y) = d
                           /\ rules[i].at_hours * Hour <= time}

Begun(rules, y, m, d, time) == Passed(rules, y, m, d) \cup Due(rules, y, m, d, time)

(* The rules begin in their order, one at a time.                          *)
LEMMA BegunInOrder ==
  ASSUME NEW z \in Zones, NEW y \in 0 .. 63, NEW m \in 1 .. 12, NEW d \in 1 .. 31, NEW time \in Int
  PROVE  /\ Begun(z.rules, y, m, d, time) \in SUBSET (1 .. 4)
         /\ Passed(z.rules, y, m, d) \in SUBSET (1 .. 4)
         /\ \A i \in Begun(z.rules, y, m, d, time), j \in 1 .. Len(z.rules) :
              j \notin Begun(z.rules, y, m, d, time) => i < j
         /\ \A i \in Due(z.rules, y, m, d, time) :
              /\ \A j \in Due(z.rules, y, m, d, time) : j = i
              /\ \A j \in Passed(z.rules, y, m, d) : j < i
<1> DEFINE rules == z.rules
           length == Len(z.rules)
           begun == Begun(rules, y, m, d, time)
           passed == Passed(rules, y, m, d)
           due == Due(rules, y, m, d, time)
           month(i) == rules[i].in_month
           day(i) == RuleDay(rules[i], y)
<1>1. length \in 0 .. 4
  BY RuleFields
<1>2. \A i, j \in 1 .. length : i < j => month(i) < month(j)
  BY RuleFields
<1>3. ASSUME NEW i \in 1 .. length
      PROVE  month(i) \in Int /\ day(i) \in Int
  <2> DEFINE r == rules[i]
  <2>1. WellFormed(r)
    BY RuleFields
  <2> HIDE DEF r
  <2>2. r.in_month \in 1 .. 12
    BY <2>1 DEF WellFormed
  <2>3. RuleDay(r, y) \in 1 .. MonthLength(y, r.in_month)
    BY <2>1, RuleDays
  <2>4. MonthLength(y, r.in_month) \in 28 .. 31
    <3>1. y \in Int
      OBVIOUS
    <3>2. QED
      BY <2>2, <3>1, MonthLengths
  <2>5. RuleDay(r, y) \in Int
    BY <2>3, <2>4
  <2>6. QED
    BY <2>2, <2>5 DEF r
<1>4. begun = passed \cup due
  BY DEF Begun
<1>5. \A i \in passed : i \in 1 .. length /\ (month(i) < m \/ (month(i) = m /\ day(i) < d))
  BY DEF Passed
<1>6. \A i \in due : i \in 1 .. length /\ month(i) = m /\ day(i) = d
  BY DEF Due
<1>7. \A i \in 1 .. length : month(i) < m => i \in passed
  BY DEF Passed
<1>8. /\ \A i \in 1 .. length : month(i) \in Int /\ day(i) \in Int
      /\ \A i, j \in 1 .. length : i < j => month(i) < month(j)
  <2>1. ASSUME NEW i \in 1 .. length PROVE month(i) \in Int /\ day(i) \in Int
    BY <1>3
  <2>2. QED
    BY <1>2, <2>1
<1> HIDE DEF rules, length, begun, passed, due, month, day
<1>9. ASSUME NEW i \in begun, NEW j \in 1 .. length, j \notin begun
      PROVE  i < j
  <2>1. i \in 1 .. length /\ month(i) <= m
    BY <1>4, <1>5, <1>6, <1>8, <1>9
  <2>2. ~(j < i)
    <3> SUFFICES ASSUME j < i PROVE FALSE
      OBVIOUS
    <3>1. month(j) < month(i) /\ month(j) \in Int /\ month(i) \in Int
      BY <1>8, <2>1
    <3>2. j \in passed
      BY <1>7, <2>1, <3>1
    <3>3. QED
      BY <1>4, <1>9, <3>2
  <2>3. i # j
    BY <1>9
  <2>4. QED
    BY <1>1, <2>1, <2>2, <2>3
<1>10. ASSUME NEW i \in due
       PROVE  /\ \A j \in due : j = i
              /\ \A j \in passed : j < i
  <2>1. \A j \in 1 .. length : j = i \/ j < i \/ i < j
    BY <1>1, <1>6, <1>10
  <2>2. ASSUME NEW j \in due PROVE j = i
    BY <1>6, <1>8, <1>10, <2>1, <2>2
  <2>3. ASSUME NEW j \in passed PROVE j < i
    BY <1>5, <1>6, <1>8, <1>10, <2>1, <2>3
  <2>4. QED
    BY <2>2, <2>3
<1>11. begun \in SUBSET (1 .. 4) /\ passed \in SUBSET (1 .. 4)
  BY <1>1, <1>4, <1>5, <1>6
<1>12. /\ begun \in SUBSET (1 .. 4) /\ passed \in SUBSET (1 .. 4)
       /\ \A i \in begun, j \in 1 .. length : j \notin begun => i < j
       /\ \A i \in due : (\A j \in due : j = i) /\ (\A j \in passed : j < i)
  BY <1>9, <1>10, <1>11
<1>13. QED
  BY <1>12 DEF rules, length, begun, passed, due

(* At midnight a rule has begun when its day lies before the new one, and  *)
(* a year begins with none.                                                *)
LEMMA PassedAtMidnight ==
  ASSUME NEW z \in Zones, NEW y \in 0 .. 63, NEW m \in 1 .. 12, NEW d \in 1 .. MonthLength(y, m)
  PROVE  /\ d < MonthLength(y, m)
              => Passed(z.rules, y, m, d + 1) = Begun(z.rules, y, m, d, DayLength)
         /\ d = MonthLength(y, m) /\ m < 12
              => Passed(z.rules, y, m + 1, 1) = Begun(z.rules, y, m, d, DayLength)
         /\ d = MonthLength(y, m) /\ m = 12
              => Begun(z.rules, y, m, d, DayLength) = 1 .. Len(z.rules)
         /\ Passed(z.rules, y, 1, 1) = {}
<1> DEFINE rules == z.rules
           indices == 1 .. Len(z.rules)
           month(i) == rules[i].in_month
           day(i) == RuleDay(rules[i], y)
           monthLength == MonthLength(y, m)
<1>1. ASSUME NEW i \in indices
      PROVE  /\ month(i) \in Int /\ month(i) >= 1 /\ month(i) <= 12
             /\ day(i) \in Int /\ day(i) >= 1
             /\ month(i) = m => day(i) <= monthLength
             /\ rules[i].at_hours * Hour <= DayLength
  <2> DEFINE r == rules[i]
  <2>1. WellFormed(r)
    BY RuleFields
  <2> HIDE DEF r
  <2>2. r.in_month \in 1 .. 12 /\ r.at_hours \in 0 .. 23
    BY <2>1 DEF WellFormed
  <2>3. RuleDay(r, y) \in 1 .. MonthLength(y, r.in_month)
    BY <2>1, RuleDays
  <2>4. MonthLength(y, r.in_month) \in 28 .. 31
    <3>1. y \in Int
      OBVIOUS
    <3>2. QED
      BY <2>2, <3>1, MonthLengths
  <2>5. RuleDay(r, y) \in Int /\ RuleDay(r, y) >= 1 /\ RuleDay(r, y) <= MonthLength(y, r.in_month)
    BY <2>3, <2>4
  <2>6. r.at_hours * Hour <= DayLength
    <3> DEFINE hours == r.at_hours  hour == Hour  last == 24
    <3>1. hours \in Int /\ last \in Int /\ hours <= last
      <4>1. hours \in 0 .. 23
        BY <2>2
      <4> HIDE DEF hours
      <4>2. QED
        BY <4>1
    <3>2. DayLength \in Nat /\ hour \in Nat /\ last * hour <= DayLength
      BY CalendarAssumption DEF Hour
    <3> HIDE DEF hours, hour, last
    <3>3. hours * hour <= last * hour
      BY <3>1, <3>2, Monotone
    <3>4. hours * hour \in Int /\ last * hour \in Int
      BY <3>1, <3>2
    <3>5. hours * hour <= DayLength
      BY <3>2, <3>3, <3>4
    <3>6. QED
      BY <3>5 DEF hours, hour
  <2>7. QED
    BY <2>2, <2>5, <2>6, SMTT(30) DEF r
<1>2. monthLength \in 28 .. 31
  <2>1. y \in Int
    OBVIOUS
  <2>2. QED
    BY <2>1, MonthLengths
<1> DEFINE begun == Begun(rules, y, m, d, DayLength)
<1>3. begun = {i \in indices : month(i) < m \/ (month(i) = m /\ day(i) <= d)}
  <2>1. ASSUME NEW i \in indices
        PROVE  i \in begun <=> month(i) < m \/ (month(i) = m /\ day(i) <= d)
    <3>1. i \in begun <=> \/ month(i) < m \/ (month(i) = m /\ day(i) < d)
                          \/ month(i) = m /\ day(i) = d /\ rules[i].at_hours * Hour <= DayLength
      BY DEF Begun, Passed, Due
    <3>2. rules[i].at_hours * Hour <= DayLength /\ day(i) \in Int /\ d \in Int
      BY <1>1, <1>2
    <3> HIDE DEF begun, month, day
    <3>3. QED
      BY <3>1, <3>2
  <2>2. \A i \in begun : i \in indices
    BY DEF Begun, Passed, Due
  <2> HIDE DEF begun, month, day, indices
  <2>3. QED
    BY <2>1, <2>2
<1>4. \A n \in Int, e \in Int :
        Passed(rules, y, n, e) = {i \in indices : month(i) < n \/ (month(i) = n /\ day(i) < e)}
  BY DEF Passed
<1>5. \A i \in indices :
        /\ month(i) \in Int /\ month(i) >= 1 /\ month(i) <= 12
        /\ day(i) \in Int /\ day(i) >= 1
        /\ month(i) = m => day(i) <= monthLength
  <2> HIDE DEF indices, month, day, monthLength
  <2>1. QED
    BY <1>1
<1>6. m \in Int /\ d \in Int /\ d <= monthLength
  BY <1>2
<1> HIDE DEF rules, indices, month, day, monthLength, begun
<1>7. Passed(rules, y, m, d + 1) = begun
  <2>1. Passed(rules, y, m, d + 1)
          = {i \in indices : month(i) < m \/ (month(i) = m /\ day(i) < d + 1)}
    BY <1>4, <1>6
  <2>2. ASSUME NEW i \in indices PROVE day(i) < d + 1 <=> day(i) <= d
    <3>1. day(i) \in Int /\ d \in Int
      BY <1>5, <1>6
    <3>2. QED
      BY <3>1
  <2>3. QED
    BY <1>3, <2>1, <2>2
<1>8. ASSUME d = monthLength, m < 12 PROVE Passed(rules, y, m + 1, 1) = begun
  <2>1. Passed(rules, y, m + 1, 1)
          = {i \in indices : month(i) < m + 1 \/ (month(i) = m + 1 /\ day(i) < 1)}
    BY <1>4, <1>6
  <2>2. ASSUME NEW i \in indices
        PROVE  (month(i) < m + 1 \/ (month(i) = m + 1 /\ day(i) < 1))
                  <=> (month(i) < m \/ (month(i) = m /\ day(i) <= d))
    <3>1. /\ month(i) \in Int /\ day(i) \in Int /\ day(i) >= 1
          /\ month(i) = m => day(i) <= d
      BY <1>5, <1>8
    <3>2. QED
      BY <1>6, <3>1
  <2>3. QED
    BY <1>3, <2>1, <2>2
<1>9. ASSUME d = monthLength, m = 12 PROVE begun = indices
  <2>1. ASSUME NEW i \in indices PROVE month(i) < m \/ (month(i) = m /\ day(i) <= d)
    <3>1. month(i) \in Int /\ month(i) <= m /\ (month(i) = m => day(i) <= d)
      BY <1>5, <1>9
    <3>2. QED
      BY <1>6, <3>1
  <2>2. QED
    BY <1>3, <2>1
<1>10. Passed(rules, y, 1, 1) = {}
  <2>1. Passed(rules, y, 1, 1)
          = {i \in indices : month(i) < 1 \/ (month(i) = 1 /\ day(i) < 1)}
    BY <1>4
  <2>2. ASSUME NEW i \in indices PROVE ~(month(i) < 1 \/ (month(i) = 1 /\ day(i) < 1))
    <3>1. month(i) \in Int /\ month(i) >= 1 /\ day(i) \in Int /\ day(i) >= 1
      BY <1>5
    <3>2. QED
      BY <3>1
  <2>3. QED
    BY <2>1, <2>2
<1>11. QED
  BY <1>7, <1>8, <1>9, <1>10 DEF rules, indices, begun, monthLength

(* The rules that take force today by counting are those whose day and     *)
(* hour have come, and the last of them is in force.                       *)
LEMMA HoursAreCounted ==
  ASSUME CalendarInv, NEW z \in Zones, NEW time \in Int,
         \A i \in 1 .. Len(z.rules) : z.rules[i].from_year <= today.year + 20
  PROVE  CountedHours(z, time)
           = IF Due(z.rules, today.year, today.month, today.day, time) = {} THEN inForce[z]
             ELSE z.rules[Latest(
                    Begun(z.rules, today.year, today.month, today.day, time))].offset_hours
<1> DEFINE y == today.year  m == today.month  d == today.day
           rules == z.rules
           due == Due(rules, y, m, d, time)
           begun == Begun(rules, y, m, d, time)
<1>1. y \in 0 .. 63 /\ m \in 1 .. 12 /\ d \in 1 .. MonthLength(y, m)
  BY DateFields DEF CalendarInv
<1>2. d \in 1 .. 31
  BY DEF CalendarInv, Date
<1>3. FullYear - 2000 = y + 20 /\ y \in Int
  <2>1. FullYear = y + 2020
    BY DEF FullYear, WATCH_RTC_REFERENCE_YEAR
  <2> HIDE DEF y
  <2>2. QED
    BY <1>1, <2>1
<1>4. CountedWeekday = Weekday(y, m, d)
  BY DEF CalendarInv, CountedWeekday, Weekday
<1>5. ASSUME NEW i \in 1 .. Len(rules)
      PROVE  IsDayOf(rules[i]) <=> rules[i].in_month = m /\ RuleDay(rules[i], y) = d
  <2> DEFINE r == rules[i]
  <2>1. WellFormed(r) /\ r.from_year <= y + 20
    BY RuleFields
  <2> HIDE DEF r
  <2>2. Applies(r, y + 20)
    <3>1. r.from_year <= y + 20 /\ r.to_year \in Nat /\ r.to_year >= 84
      BY <2>1 DEF WellFormed
    <3> HIDE DEF y
    <3>2. y + 20 <= r.to_year
      BY <1>1, <3>1
    <3>3. QED
      BY <3>1, <3>2 DEF Applies
  <2>3. IsDayOf(r) <=> r.in_month = m /\ OnDay(r, y, d)
    <3>1. IsDayOf(r) <=> m = r.in_month
                         /\ IF r.on_dayofweek = 0 THEN d = r.on_dayofmonth
                            ELSE /\ CountedWeekday = r.on_dayofweek
                                 /\ IF r.on_dayofmonth = 0 THEN d + 7 > MonthLength(y, m)
                                    ELSE d \in r.on_dayofmonth .. r.on_dayofmonth + 6
      BY <1>3, <2>2 DEF IsDayOf
    <3> HIDE DEF y, m, d
    <3>2. CASE m = r.in_month
      BY <1>4, <3>1, <3>2 DEF OnDay
    <3>3. CASE m # r.in_month
      BY <3>1, <3>3
    <3>4. QED
      BY <3>2, <3>3
  <2>4. r.in_month = m => (OnDay(r, y, d) <=> d = RuleDay(r, y))
    <3> HIDE DEF y, m, d
    <3>1. \A e \in 1 .. MonthLength(y, r.in_month) : OnDay(r, y, e) <=> e = RuleDay(r, y)
      BY <1>1, <2>1, RuleDays
    <3>2. QED
      BY <1>1, <3>1
  <2> HIDE DEF y, m, d
  <2>5. IsDayOf(r) <=> r.in_month = m /\ RuleDay(r, y) = d
    BY <2>3, <2>4
  <2>6. QED
    BY <2>5 DEF r
<1>6. {i \in 1 .. Len(rules) : IsDayOf(rules[i]) /\ rules[i].at_hours * Hour <= time} = due
  BY <1>5 DEF Due
<1>7. CountedHours(z, time)
        = IF due = {} THEN inForce[z] ELSE rules[CHOOSE i \in due : TRUE].offset_hours
  <2> DEFINE counted == {i \in 1 .. Len(rules) :
                          IsDayOf(rules[i]) /\ rules[i].at_hours * Hour <= time}
  <2>1. CountedHours(z, time)
          = IF counted = {} THEN inForce[z]
            ELSE rules[CHOOSE i \in counted : TRUE].offset_hours
    BY DEF CountedHours
  <2>2. counted = due
    BY <1>6
  <2> HIDE DEF due, counted
  <2>3. QED
    BY <2>1, <2>2
<1>8. ASSUME due # {}
      PROVE  (CHOOSE i \in due : TRUE) = Latest(begun)
  <2> DEFINE i == CHOOSE k \in due : TRUE
  <2>1. i \in due
    BY <1>8
  <2>2. /\ begun \in SUBSET (1 .. 4)
        /\ \A k \in due : (\A j \in due : j = k) /\ (\A j \in Passed(rules, y, m, d) : j < k)
    <3>1. z \in Zones /\ y \in 0 .. 63 /\ m \in 1 .. 12 /\ d \in 1 .. 31 /\ time \in Int
      BY <1>1, <1>2
    <3> HIDE DEF y, m, d
    <3>2. begun \in SUBSET (1 .. 4)
      BY <3>1, BegunInOrder, ZenonT(60)
    <3>3. \A k \in due : (\A j \in due : j = k) /\ (\A j \in Passed(rules, y, m, d) : j < k)
      BY <3>1, BegunInOrder, ZenonT(60)
    <3>4. QED
      BY <3>2, <3>3
  <2>3. begun = Passed(rules, y, m, d) \cup due
    BY DEF Begun
  <2> HIDE DEF i, begun, due, rules, y, m, d
  <2>4. i \in begun /\ i \in Int
    BY <2>1, <2>2, <2>3
  <2>5. \A j \in begun : j <= i
    BY <2>1, <2>2, <2>3, <2>4
  <2>6. Latest(begun) = i
    BY <2>2, <2>4, <2>5, LatestIs
  <2>7. QED
    BY <2>6 DEF i
<1> HIDE DEF due, begun
<1>9. CountedHours(z, time) = IF due = {} THEN inForce[z] ELSE rules[Latest(begun)].offset_hours
  BY <1>7, <1>8
<1>10. QED
  BY <1>9 DEF due, begun

(* What is in force when a day begins, in a year when all rules apply: the *)
(* hours of the last rule before the day, or, if there is none yet and all *)
(* applied the year before, those of the last rule of all.                 *)
InForceAt(z, y, m, d, hours) ==
  (z.rules # <<>> /\ \A i \in 1 .. Len(z.rules) : z.rules[i].from_year <= y + 20) =>
    LET passed == Passed(z.rules, y, m, d) IN
    /\ passed # {} => hours = z.rules[Latest(passed)].offset_hours
    /\ (passed = {} /\ \A i \in 1 .. Len(z.rules) : z.rules[i].from_year < y + 20)
         => hours = z.rules[Len(z.rules)].offset_hours

ZoneInv ==
  /\ CalendarInv
  /\ inForce \in [Zones -> Nat]
  /\ \A z \in Zones : InForceAt(z, today.year, today.month, today.day, inForce[z])

LEMMA RuleHours ==
  ASSUME NEW z \in Zones
  PROVE  /\ z.rules # <<>> => Len(z.rules) \in 1 .. 4
         /\ \A i \in 1 .. Len(z.rules) : z.rules[i].offset_hours \in Nat
<1> DEFINE rules == z.rules
           Rule == [from_year : Nat, to_year : Nat, on_dayofweek : 0 .. 7,
                    on_dayofmonth : 0 .. 31, in_month : 1 .. 12, at_hours : 0 .. 23,
                    offset_hours : Nat]
<1>1. rules \in Seq(Rule)
  BY TimeZoneAssumption
<1>2. Len(rules) \in 0 .. 4
  BY RuleFields
<1> DEFINE length == Len(rules)
<1>3. rules # <<>> => length # 0
  <2> HIDE DEF rules, Rule
  <2>1. QED
    BY <1>1, EmptySeq
<1>4. rules # <<>> => length \in 1 .. 4
  <2>1. length \in 0 .. 4
    BY <1>2
  <2> HIDE DEF rules, length
  <2>2. QED
    BY <1>3, <2>1
<1>5. \A i \in 1 .. Len(z.rules) : z.rules[i].offset_hours \in Nat
  BY RuleFields
<1>6. QED
  BY <1>4, <1>5

LEMMA ZoneInitInv == ZoneInit => ZoneInv
<1> SUFFICES ASSUME ZoneInit PROVE ZoneInv
  OBVIOUS
<1>1. CalendarInv
  BY CalendarInitInv DEF ZoneInit
<1>2. today.year = 0 /\ today.month = 1 /\ today.day = 1
  BY DEF ZoneInit, CalendarInit
<1>3. ASSUME NEW z \in Zones
      PROVE  /\ inForce[z] \in Nat
             /\ InForceAt(z, today.year, today.month, today.day, inForce[z])
  <2>1. inForce[z] = IF z.rules = <<>> THEN 0 ELSE z.rules[Len(z.rules)].offset_hours
    BY DEF ZoneInit
  <2>2. Passed(z.rules, 0, 1, 1) = {}
    <3>1. 0 \in 0 .. 63 /\ 1 \in 1 .. 12 /\ 1 \in 1 .. MonthLength(0, 1)
      BY DEF MonthLength
    <3>2. QED
      BY <3>1, PassedAtMidnight
  <2>3. inForce[z] \in Nat
    <3>1. CASE z.rules = <<>>
      BY <2>1, <3>1
    <3>2. CASE z.rules # <<>>
      <4> DEFINE last == Len(z.rules)
      <4>1. last \in 1 .. 4
        BY <3>2, RuleHours
      <4> HIDE DEF last
      <4>2. last \in 1 .. last
        BY <4>1
      <4>3. z.rules[last].offset_hours \in Nat
        BY <4>2, RuleHours DEF last
      <4>4. QED
        BY <2>1, <3>2, <4>3 DEF last
    <3>3. QED
      BY <3>1, <3>2
  <2>4. InForceAt(z, 0, 1, 1, inForce[z])
    BY <2>1, <2>2 DEF InForceAt
  <2>5. QED
    BY <1>2, <2>3, <2>4
<1>4. inForce \in [Zones -> Nat]
  BY <1>3 DEF ZoneInit
<1>5. QED
  BY <1>1, <1>3, <1>4 DEF ZoneInv

(* From one midnight to the next the rules of the day take force.          *)
LEMMA DayPasses ==
  ASSUME ZoneInv, NEW z \in Zones, z.rules # <<>>,
         \A i \in 1 .. Len(z.rules) : z.rules[i].from_year <= today.year + 20
  PROVE  LET begun == Begun(z.rules, today.year, today.month, today.day, DayLength) IN
         /\ begun # {} => CountedHours(z, DayLength) = z.rules[Latest(begun)].offset_hours
         /\ begun = {} => CountedHours(z, DayLength) = inForce[z]
         /\ (begun = {} /\ \A i \in 1 .. Len(z.rules) : z.rules[i].from_year < today.year + 20)
              => CountedHours(z, DayLength) = z.rules[Len(z.rules)].offset_hours
<1> DEFINE passed == Passed(z.rules, today.year, today.month, today.day)
           due == Due(z.rules, today.year, today.month, today.day, DayLength)
           begun == Begun(z.rules, today.year, today.month, today.day, DayLength)
           counted == CountedHours(z, DayLength)
           last == z.rules[Len(z.rules)].offset_hours
           Past == \A i \in 1 .. Len(z.rules) : z.rules[i].from_year < today.year + 20
<1>1. counted = IF due = {} THEN inForce[z] ELSE z.rules[Latest(begun)].offset_hours
  <2>1. CalendarInv /\ DayLength \in Int
    BY CalendarAssumption DEF ZoneInv
  <2>2. QED
    BY <2>1, HoursAreCounted
<1>2. /\ passed # {} => inForce[z] = z.rules[Latest(passed)].offset_hours
      /\ passed = {} /\ Past => inForce[z] = last
  BY DEF ZoneInv, InForceAt
<1>3. begun = passed \cup due
  BY DEF Begun
<1> HIDE DEF passed, due, begun, counted, last, Past
<1>4. /\ begun # {} => counted = z.rules[Latest(begun)].offset_hours
      /\ begun = {} => counted = inForce[z]
      /\ (begun = {} /\ Past) => counted = last
  <2>1. CASE due = {}
    <3>1. begun = passed /\ counted = inForce[z]
      BY <1>1, <1>3, <2>1
    <3>2. QED
      BY <1>2, <3>1
  <2>2. CASE due # {}
    <3>1. begun # {} /\ counted = z.rules[Latest(begun)].offset_hours
      BY <1>1, <1>3, <2>2
    <3>2. QED
      BY <3>1
  <2>3. QED
    BY <2>1, <2>2
<1>5. QED
  BY <1>4 DEF begun, counted, last, Past

LEMMA CountedTypes ==
  ASSUME ZoneInv, NEW z \in Zones
  PROVE  CountedHours(z, DayLength) \in Nat
<1> DEFINE due == {i \in 1 .. Len(z.rules) :
                     IsDayOf(z.rules[i]) /\ z.rules[i].at_hours * Hour <= DayLength}
<1>1. CountedHours(z, DayLength)
        = IF due = {} THEN inForce[z] ELSE z.rules[CHOOSE i \in due : TRUE].offset_hours
  BY DEF CountedHours
<1>2. inForce[z] \in Nat
  BY DEF ZoneInv
<1>3. ASSUME due # {} PROVE z.rules[CHOOSE i \in due : TRUE].offset_hours \in Nat
  <2> DEFINE i == CHOOSE k \in due : TRUE
  <2>1. i \in due
    BY <1>3
  <2>2. i \in 1 .. Len(z.rules)
    BY <2>1
  <2> HIDE DEF i
  <2>3. z.rules[i].offset_hours \in Nat
    BY <2>2, RuleHours
  <2>4. QED
    BY <2>3 DEF i
<1> HIDE DEF due
<1>4. QED
  BY <1>1, <1>2, <1>3

LEMMA ZoneNextInv == ZoneInv /\ [ZoneMidnight]_zoneVars => ZoneInv'
<1> SUFFICES ASSUME ZoneInv, [ZoneMidnight]_zoneVars PROVE ZoneInv'
  OBVIOUS
<1>1. CASE UNCHANGED zoneVars
  BY <1>1 DEF ZoneInv, CalendarInv, zoneVars, calendarVars
<1>2. CASE ZoneMidnight
  <2>1. CalendarInv'
    BY <1>2, CalendarNextInv DEF ZoneInv, ZoneMidnight
  <2>2. inForce' = [z \in Zones |-> CountedHours(z, DayLength)]
    BY <1>2 DEF ZoneMidnight
  <2>3. inForce' \in [Zones -> Nat]
    BY <2>2, CountedTypes
  <2> DEFINE y == today.year  m == today.month  d == today.day
  <2>4. y \in 0 .. 63 /\ m \in 1 .. 12 /\ d \in 1 .. MonthLength(y, m)
    BY DateFields DEF ZoneInv, CalendarInv
  <2>5. ASSUME NEW z \in Zones
        PROVE  InForceAt(z, today'.year, today'.month, today'.day, CountedHours(z, DayLength))
    <3> DEFINE counted == CountedHours(z, DayLength)
               rules == z.rules
               begun == Begun(rules, y, m, d, DayLength)
               last == rules[Len(rules)].offset_hours
               Passing(n) == \A i \in 1 .. Len(rules) : rules[i].from_year <= n + 20
               Past(n) == \A i \in 1 .. Len(rules) : rules[i].from_year < n + 20
    <3>1. ASSUME rules # <<>>, Passing(y)
          PROVE  /\ begun # {} => counted = rules[Latest(begun)].offset_hours
                 /\ begun = {} => counted = inForce[z]
                 /\ (begun = {} /\ Past(y)) => counted = last
      BY <3>1, DayPasses
    <3>2. /\ d < MonthLength(y, m) => Passed(rules, y, m, d + 1) = begun
          /\ d = MonthLength(y, m) /\ m < 12 => Passed(rules, y, m + 1, 1) = begun
          /\ d = MonthLength(y, m) /\ m = 12 => begun = 1 .. Len(rules)
      BY <2>4, PassedAtMidnight
    <3>3. \A p, n, e : InForceAt(z, p, n, e, counted)
            <=> (rules # <<>> /\ Passing(p) =>
                   /\ Passed(rules, p, n, e) # {}
                        => counted = rules[Latest(Passed(rules, p, n, e))].offset_hours
                   /\ (Passed(rules, p, n, e) = {} /\ Past(p)) => counted = last)
      BY DEF InForceAt
    <3>4. CASE NextDay
      <4>1. today'.year = y /\ today'.month = m /\ today'.day = d + 1 /\ d < MonthLength(y, m)
        BY <3>4 DEF NextDay, ZoneInv, CalendarInv, Date
      <4> HIDE DEF counted, begun, last, Passing, Past, rules, y, m, d
      <4>2. Passed(rules, y, m, d + 1) = begun
        BY <3>2, <4>1
      <4>3. InForceAt(z, y, m, d + 1, counted)
        BY <3>1, <3>3, <4>2
      <4>4. QED
        BY <4>1, <4>3 DEF counted
    <3>5. CASE NextMonth
      <4>1. today'.year = y /\ today'.month = m + 1 /\ today'.day = 1 /\ d = MonthLength(y, m)
            /\ m < 12
        BY <3>5 DEF NextMonth, ZoneInv, CalendarInv, Date
      <4> HIDE DEF counted, begun, last, Passing, Past, rules, y, m, d
      <4>2. Passed(rules, y, m + 1, 1) = begun
        BY <3>2, <4>1
      <4>3. InForceAt(z, y, m + 1, 1, counted)
        BY <3>1, <3>3, <4>2
      <4>4. QED
        BY <4>1, <4>3 DEF counted
    <3>6. CASE NextYear
      <4> DEFINE next == (y + 1) % Years
      <4>1. today'.year = next /\ today'.month = 1 /\ today'.day = 1 /\ m = 12 /\ d = 31
        BY <3>6 DEF NextYear
      <4>2. d = MonthLength(y, m)
        BY <4>1 DEF MonthLength
      <4>3. begun = 1 .. Len(rules)
        BY <3>2, <4>1, <4>2
      <4>4. next \in 0 .. 63 /\ next <= y + 1
        <5> HIDE DEF y
        <5>1. QED
          BY <2>4, SMTT(30) DEF Years
      <4>5. Passed(rules, next, 1, 1) = {}
        <5>1. 1 \in 1 .. 12 /\ 1 \in 1 .. MonthLength(next, 1)
          BY DEF MonthLength
        <5> HIDE DEF next
        <5>2. QED
          BY <4>4, <5>1, PassedAtMidnight
      <4>6. ASSUME rules # <<>>, Past(next) PROVE counted = last
        <5> DEFINE length == Len(rules)
        <5>1. length \in 1 .. 4
          BY <4>6, RuleHours
        <5>2. Passing(y)
          <6>1. ASSUME NEW i \in 1 .. length PROVE rules[i].from_year <= y + 20
            <7> DEFINE from == rules[i].from_year
            <7>1. from < next + 20
              BY <4>6
            <7>2. from \in Nat
              <8>1. WellFormed(rules[i])
                BY RuleFields
              <8>2. QED
                BY <8>1 DEF WellFormed
            <7> HIDE DEF from, next, y
            <7>3. next \in Int /\ y \in Int /\ next <= y + 1
              BY <2>4, <4>4
            <7>4. from <= y + 20
              BY <7>1, <7>2, <7>3
            <7>5. QED
              BY <7>4 DEF from
          <6>2. QED
            BY <6>1
        <5>3. begun # {} /\ Latest(begun) = length
          <6> HIDE DEF length, begun, rules
          <6>1. begun = 1 .. length
            BY <4>3 DEF length
          <6>2. begun \in SUBSET (1 .. 4) /\ length \in begun /\ \A j \in begun : j <= length
            BY <5>1, <6>1
          <6>3. QED
            BY <6>2, LatestIs
        <5>4. counted = rules[Latest(begun)].offset_hours
          <6> HIDE DEF counted, begun, last, Passing, Past, rules, y, m, d
          <6>1. QED
            BY <3>1, <4>6, <5>2, <5>3
        <5>5. QED
          BY <5>3, <5>4
      <4> HIDE DEF counted, begun, last, Passing, Past, rules, next, y, m, d
      <4>7. InForceAt(z, next, 1, 1, counted)
        BY <3>3, <4>5, <4>6
      <4>8. QED
        BY <4>1, <4>7 DEF counted
    <3>7. QED
      BY <1>2, <3>4, <3>5, <3>6 DEF ZoneMidnight, Midnight
  <2>6. \A z \in Zones : InForceAt(z, today'.year, today'.month, today'.day, inForce'[z])
    <3>1. \A z \in Zones : inForce'[z] = CountedHours(z, DayLength)
      BY <2>2
    <3>2. QED
      BY <2>5, <3>1
  <2>7. QED
    BY <2>1, <2>3, <2>6 DEF ZoneInv, InForceAt
<1>3. QED
  BY <1>1, <1>2

(* Type correctness of the calendar with its zones.                        *)
THEOREM ZonesTyped == ZoneSpec => []ZoneTypeOK
<1>1. ZoneInv => ZoneTypeOK
  <2> SUFFICES ASSUME ZoneInv PROVE ZoneTypeOK
    OBVIOUS
  <2>1. today \in Date /\ days = DayNumber(today.year, today.month, today.day)
    BY DEF ZoneInv, CalendarInv
  <2>2. days \in 0 .. CountedDays - 1
    BY <2>1, NumberInYear
  <2>3. QED
    BY <2>1, <2>2 DEF ZoneInv, ZoneTypeOK, CalendarTypeOK
<1>2. QED
  BY <1>1, ZoneInitInv, ZoneNextInv, PTL DEF ZoneSpec

(* The zones follow the calendar and never hold it back.                   *)
THEOREM ZonesFollowCalendar == ZoneSpec => CalendarSpec
<1>1. ZoneInit => CalendarInit
  BY DEF ZoneInit
<1>2. [ZoneMidnight]_zoneVars => [Midnight]_calendarVars
  BY DEF ZoneMidnight, zoneVars
<1>3. QED
  BY <1>1, <1>2, PTL DEF ZoneSpec, CalendarSpec

(* So the calendar of the zones counts, and its times convert.             *)
THEOREM ZonesConvert == ZoneSpec => [](CalendarAgrees /\ ConversionsAgree)
  BY CalendarIsCounted, ConversionsAreInverse, ZonesFollowCalendar, PTL

(* A rule is reached by utz at a time of a day exactly when it has begun.  *)
LEMMA ReachedHasBegun ==
  ASSUME NEW z \in Zones, NEW y \in 0 .. 63, NEW date, date.month \in 1 .. 12,
         date.day \in 1 .. 31, NEW time \in Int,
         z.rules # <<>>, \A i \in 1 .. Len(z.rules) : z.rules[i].from_year <= y + 20
  PROVE  SummerHours(z.rules, y + 20, At(date, time))
           = IF Begun(z.rules, y, date.month, date.day, time) = {}
             THEN z.rules[Len(z.rules)].offset_hours
             ELSE z.rules[Latest(Begun(z.rules, y, date.month, date.day, time))].offset_hours
<1> DEFINE m == date.month  d == date.day
           rules == z.rules
           indices == 1 .. Len(rules)
           begun == Begun(rules, y, m, d, time)
           current == {i \in indices : Applies(rules[i], y + 20)}
           ahead == {i \in current : ~Reached(unpack_rule(rules[i], y + 20), At(date, time))}
           reached == {i \in current : \A j \in ahead : i < j}
           base == Baseline(rules, y + 20)
<1>1. ASSUME NEW i \in indices
      PROVE  /\ Applies(rules[i], y + 20)
             /\ Reached(unpack_rule(rules[i], y + 20), At(date, time)) <=> i \in begun
  <2> DEFINE r == rules[i]
  <2>1. WellFormed(r) /\ r.from_year <= y + 20
    BY RuleFields
  <2>2. Applies(r, y + 20)
    <3> HIDE DEF r
    <3>1. r.from_year <= y + 20 /\ r.to_year \in Nat /\ r.to_year >= 84
      BY <2>1 DEF WellFormed
    <3>2. QED
      BY <3>1 DEF Applies
  <2>3. Reached(unpack_rule(r, y + 20), At(date, time))
          <=> \/ r.in_month < m
              \/ r.in_month = m /\ RuleDay(r, y) < d
              \/ r.in_month = m /\ RuleDay(r, y) = d /\ r.at_hours * Hour <= time
    <3> HIDE DEF r
    <3>1. /\ unpack_rule(r, y + 20).month = r.in_month
          /\ unpack_rule(r, y + 20).day = RuleDay(r, y)
          /\ unpack_rule(r, y + 20).hour = r.at_hours
      BY DEF unpack_rule, RuleDay
    <3>2. At(date, time).month = m /\ At(date, time).day = d /\ At(date, time).time = time
      BY DEF At
    <3>3. QED
      BY <3>1, <3>2 DEF Reached
  <2>4. i \in begun
          <=> \/ r.in_month < m
              \/ r.in_month = m /\ RuleDay(r, y) < d
              \/ r.in_month = m /\ RuleDay(r, y) = d /\ r.at_hours * Hour <= time
    BY DEF Begun, Passed, Due
  <2>5. QED
    BY <2>2, <2>3, <2>4
<1>2. current = indices
  BY <1>1
<1>3. \A i \in indices : i \in ahead <=> i \notin begun
  BY <1>1
<1>4. \A i \in ahead : i \in indices
  OBVIOUS
<1>5. begun \subseteq indices
  <2>1. ASSUME NEW i \in begun PROVE i \in indices
    BY Zenon DEF Begun, Passed, Due
  <2>2. QED
    BY <2>1
<1>6. \A i \in begun, j \in indices : j \notin begun => i < j
  <2>1. m \in 1 .. 12 /\ d \in 1 .. 31
    OBVIOUS
  <2> HIDE DEF m, d
  <2>2. QED
    BY <2>1, BegunInOrder, ZenonT(60)
<1>7. reached = begun
  <2>1. ASSUME NEW i \in begun PROVE i \in reached
    BY <1>2, <1>3, <1>4, <1>5, <1>6, <2>1
  <2>2. ASSUME NEW i \in reached PROVE i \in begun
    <3> SUFFICES ASSUME i \notin begun PROVE FALSE
      OBVIOUS
    <3>1. i \in indices /\ \A j \in ahead : i < j
      BY <1>2
    <3>2. i \in ahead
      BY <1>3, <3>1
    <3>3. i < i
      BY <3>1, <3>2
    <3>4. i \in Int
      BY <3>1
    <3>5. QED
      BY <3>3, <3>4
  <2>3. QED
    BY <2>1, <2>2
<1>8. base = Len(rules)
  <2> DEFINE length == Len(rules)
             candidates == {1} \cup current
             Latest_(i) == \A j \in candidates :
                             /\ rules[j].in_month <= rules[i].in_month
                             /\ rules[j].in_month = rules[i].in_month => i <= j
  <2>1. length \in 1 .. 4
    BY RuleHours
  <2>2. candidates = indices
    BY <1>2, <2>1
  <2>3. base = CHOOSE i \in candidates : Latest_(i)
    BY DEF Baseline
  <2>4. \A i, j \in indices : i < j => rules[i].in_month < rules[j].in_month
    BY RuleFields
  <2>5. ASSUME NEW i \in indices PROVE rules[i].in_month \in Int
    <3> DEFINE r == rules[i]
    <3>1. WellFormed(r)
      BY RuleFields
    <3> HIDE DEF r
    <3>2. r.in_month \in 1 .. 12
      BY <3>1 DEF WellFormed
    <3>3. QED
      BY <3>2 DEF r
  <2>6. length \in indices /\ \A i \in indices : i \in Int /\ i <= length
    BY <2>1
  <2> DEFINE month(i) == rules[i].in_month
  <2>7. \A i \in indices : month(i) \in Int /\ (i # length => month(i) < month(length))
    <3>1. \A i \in indices : i # length => i < length
      BY <2>1, <2>6
    <3>2. QED
      BY <2>4, <2>5, <2>6, <3>1
  <2>8. \A i : Latest_(i) <=> \A j \in indices : month(j) <= month(i)
                                                /\ (month(j) = month(i) => i <= j)
    BY <2>2
  <2> HIDE DEF month, length, indices, candidates, base, Latest_
  <2>9. Latest_(length)
    BY <2>1, <2>6, <2>7, <2>8
  <2>10. \A i \in indices : Latest_(i) => i = length
    BY <2>6, <2>7, <2>8
  <2>11. base = length
    BY <2>2, <2>3, <2>6, <2>9, <2>10
  <2>12. QED
    BY <2>11 DEF length
<1>9. SummerHours(rules, y + 20, At(date, time))
        = IF reached = {} THEN rules[base].offset_hours ELSE rules[Latest(reached)].offset_hours
  BY DEF SummerHours
<1> HIDE DEF reached, base, begun
<1>10. SummerHours(rules, y + 20, At(date, time))
        = IF begun = {} THEN rules[Len(rules)].offset_hours ELSE rules[Latest(begun)].offset_hours
  BY <1>7, <1>8, <1>9
<1>11. QED
  BY <1>10 DEF begun

LEMMA HoursAgree ==
  ASSUME ZoneInv, NEW z \in Zones, NEW time \in Int, z.rules # <<>>,
         \A i \in 1 .. Len(z.rules) : z.rules[i].from_year < today.year + 20
  PROVE  SummerHours(z.rules, today.year + 20, At(today, time)) = CountedHours(z, time)
<1> DEFINE y == today.year  m == today.month  d == today.day
           begun == Begun(z.rules, y, m, d, time)
           passed == Passed(z.rules, y, m, d)
           due == Due(z.rules, y, m, d, time)
           last == z.rules[Len(z.rules)].offset_hours
<1>1. CalendarInv
  BY DEF ZoneInv
<1>2. y \in 0 .. 63 /\ m \in 1 .. 12 /\ d \in 1 .. MonthLength(y, m)
  BY <1>1, DateFields DEF CalendarInv
<1>3. d \in 1 .. 31
  BY <1>1 DEF CalendarInv, Date
<1>4. ASSUME NEW i \in 1 .. Len(z.rules) PROVE z.rules[i].from_year <= y + 20
  <2> DEFINE from == z.rules[i].from_year
  <2>1. WellFormed(z.rules[i])
    BY RuleFields
  <2>2. from \in Nat /\ from < y + 20
    BY <2>1 DEF WellFormed
  <2> HIDE DEF from, y
  <2>3. from <= y + 20
    BY <1>2, <2>2
  <2>4. QED
    BY <2>3 DEF from
<1>5. SummerHours(z.rules, y + 20, At(today, time))
        = IF begun = {} THEN last ELSE z.rules[Latest(begun)].offset_hours
  BY <1>2, <1>3, <1>4, ReachedHasBegun
<1>6. CountedHours(z, time)
        = IF due = {} THEN inForce[z] ELSE z.rules[Latest(begun)].offset_hours
  BY <1>1, <1>4, HoursAreCounted
<1>7. begun = passed \cup due
  BY DEF Begun
<1>8. /\ passed # {} => inForce[z] = z.rules[Latest(passed)].offset_hours
      /\ passed = {} => inForce[z] = last
  BY <1>4 DEF ZoneInv, InForceAt
<1> HIDE DEF begun, passed, due, last
<1>9. SummerHours(z.rules, y + 20, At(today, time)) = CountedHours(z, time)
  <2>1. CASE due = {}
    <3>1. begun = passed
      BY <1>7, <2>1
    <3>2. QED
      BY <1>5, <1>6, <1>8, <2>1, <3>1
  <2>2. CASE due # {}
    <3>1. begun # {}
      BY <1>7, <2>2
    <3>2. QED
      BY <1>5, <1>6, <2>2, <3>1
  <2>3. QED
    BY <2>1, <2>2
<1>10. QED
  BY <1>9

(* From the year after all rules of a zone have begun, the summer time     *)
(* that utz computes from a date alone is the one reached by following the *)
(* calendar, for every zone whose rules are as the tables' are and at any  *)
(* time of any day (DstFollowsRules).                                      *)
THEOREM SummerTimeFollows == ZoneSpec => []DstFollowsRules
<1>1. ZoneInv => DstFollowsRules
  <2> SUFFICES ASSUME ZoneInv, NEW z \in Zones, NEW time \in Moments, z.rules # <<>>,
                      \A i \in 1 .. Len(z.rules) : z.rules[i].from_year < FullYear - 2000
               PROVE  SummerHours(z.rules, FullYear - 2000, At(today, time))
                        = CountedHours(z, time)
    BY DEF DstFollowsRules
  <2>1. time \in Int
    BY CalendarAssumption
  <2>2. FullYear - 2000 = today.year + 20
    <3> DEFINE y == today.year
    <3>1. FullYear = y + 2020
      BY DEF FullYear, WATCH_RTC_REFERENCE_YEAR
    <3>2. y \in Int
      BY DEF ZoneInv, CalendarInv, Date
    <3> HIDE DEF y
    <3>3. FullYear - 2000 = y + 20
      BY <3>1, <3>2
    <3>4. QED
      BY <3>3 DEF y
  <2>3. \A i \in 1 .. Len(z.rules) : z.rules[i].from_year < today.year + 20
    BY <2>2
  <2>4. SummerHours(z.rules, today.year + 20, At(today, time)) = CountedHours(z, time)
    BY <2>1, <2>3, HoursAgree
  <2>5. QED
    BY <2>2, <2>4
<1>2. QED
  BY <1>1, ZoneInitInv, ZoneNextInv, PTL DEF ZoneSpec
=============================================================================
