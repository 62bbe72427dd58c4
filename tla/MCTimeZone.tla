----------------------------- MODULE MCTimeZone -----------------------------
(***************************************************************************)
(* The calendar over all of its 64 years, in minutes: the first and last   *)
(* minute of each day and two o'clock, the offsets of three zones, and one *)
(* zone of each shape that zones.rs has: without rules, with the last, the *)
(* first or a fixed weekday of a month, with summer time across the turn   *)
(* of the year, and with rules that begin within the register's years.     *)
(***************************************************************************)
EXTENDS TimeZone

MCOffsets == {-720, 0, 180}

Rule(from, dow, dom, at, month, hours) ==
  [from_year |-> from, to_year |-> 255, on_dayofweek |-> dow, on_dayofmonth |-> dom,
   in_month |-> month, at_hours |-> at, offset_hours |-> hours]

Zone(offset, rules) == [offset |-> offset, rules |-> rules]

MCZones ==
  {Zone(0, <<>>), Zone(4, <<>>),
   Zone(4, <<Rule(0, 7, 0, 1, 3, 1), Rule(0, 7, 0, 1, 10, 0)>>),       \* Europe
   Zone(-14, <<Rule(7, 7, 8, 2, 3, 1), Rule(7, 7, 1, 1, 11, 0)>>),     \* Canada
   Zone(40, <<Rule(8, 7, 1, 2, 4, 0), Rule(8, 7, 1, 2, 10, 1)>>),      \* Australia
   Zone(8, <<Rule(23, 5, 0, 0, 4, 1), Rule(23, 4, 0, 23, 10, 0)>>),    \* Egypt
   Zone(-16, <<Rule(19, 7, 2, 3, 4, 0), Rule(23, 7, 2, 4, 9, 1)>>),    \* Chile
   Zone(8, <<Rule(13, 5, 23, 2, 3, 1), Rule(13, 7, 0, 1, 10, 0)>>)}    \* Israel
=============================================================================
