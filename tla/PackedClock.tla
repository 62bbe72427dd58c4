------------------------------ MODULE PackedClock ------------------------------
(***************************************************************************)
(* The RTC's clock register as fault.rs uses it (DateTime::to_reg in       *)
(* src/src/watch/rtc.rs): the calendar is hours, minutes and seconds, and  *)
(* a carry out of the hours stands for every higher carry.  Each field is  *)
(* packed into a power of two wider than its range.                        *)
(***************************************************************************)
EXTENDS Naturals

CONSTANTS
  MinuteSeconds, HourMinutes, Hours,  \* 60, 60, and the hours of the calendar
  FieldWidth                          \* 2^6, the width of the packed fields

ASSUME PackedClockAssumption ==
  /\ {MinuteSeconds, HourMinutes, Hours} \subseteq Nat \ {0, 1}
  /\ FieldWidth \in Nat
  /\ FieldWidth >= MinuteSeconds /\ FieldWidth >= HourMinutes /\ FieldWidth >= Hours

Times == 0 .. MinuteSeconds * HourMinutes * Hours - 1

SecondOf(t) == t % MinuteSeconds
MinuteOf(t) == (t \div MinuteSeconds) % HourMinutes
HourOf(t) == t \div (MinuteSeconds * HourMinutes)

(* The date above the hours is never zero.                                 *)
ToReg(t) == ((FieldWidth + HourOf(t)) * FieldWidth + MinuteOf(t)) * FieldWidth + SecondOf(t)

(* The 32-bit difference of two registers.                                 *)
RegModulus == 2 * FieldWidth * FieldWidth * FieldWidth
WrappingSub(a, b) == (a + RegModulus - b) % RegModulus
=============================================================================
