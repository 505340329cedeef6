------------------------------ MODULE Calendar ------------------------------
(***************************************************************************)
(* The calendar date of a number of seconds since 1970,                    *)
(* get_calendar_from_epoch, and the calendar it is compared with: one that *)
(* turns its page every day by the Gregorian rule.                         *)
(*                                                                         *)
(* The lengths of a minute, an hour and a day are constants: with the      *)
(* program's 60, 60 and 24 a time after 2038 is beyond the integers of     *)
(* TLC, and no date depends on them.                                       *)
(***************************************************************************)
EXTENDS Integers

CONSTANTS
  MinuteLen,  \* seconds of a minute, 60
  HourLen,    \* minutes of an hour, 60
  DayLen,     \* hours of a day, 24
  LastYear    \* bound: the calendar stops on the first day of this year

YearMod == 2^16  \* years are sixteen bits wide

ASSUME CalendarAssumption ==
  /\ {MinuteLen, HourLen, DayLen} \subseteq Nat \ {0}
  /\ LastYear \in 1970..YearMod - 1

VARIABLES
  day,   \* days since the epoch
  date   \* the date of that day

calendarvars == <<day, date>>

SecondsOfDay == MinuteLen * HourLen * DayLen

(* The first day of each month, in a year that begins with March.          *)
DAYS_OF_MONTH == <<0, 31, 61, 92, 122, 153, 184, 214, 245, 275, 306, 337>>

DaysOfOneYear == 365

DaysOfFourYear == DaysOfOneYear * 4 + 1

DaysOfHundredYear == DaysOfFourYear * 25 - 1

DaysOfFourHundredYear == DaysOfHundredYear * 4 + 1

(* The days from the first of March of the year 0 to the epoch.            *)
EpochFromMarch ==
  1969 * 365 + 1969 \div 4 - 1969 \div 100 + 1969 \div 400 + 306

(* Mutant: the last day of a 400-year cycle is not told apart.             *)
SplitYears_NoFourHundred(days) ==
  LET d400 == days % DaysOfFourHundredYear
      d100 == d400 % DaysOfHundredYear
      d4   == d100 % DaysOfFourYear
      n    == d4 \div DaysOfOneYear
  IN  [year |-> 400 * (days \div DaysOfFourHundredYear)
                + (d400 \div DaysOfHundredYear) * 100
                + (d100 \div DaysOfFourYear) * 4 + n,
       day  |-> d4 % DaysOfOneYear,
       leap |-> n = 4]

(* The year, beginning with March, the day in it, and whether that is the  *)
(* leap day at the end of a 4-year or of a 400-year cycle.                 *)
SplitYears(days) ==
  LET d400 == days % DaysOfFourHundredYear
      n100 == d400 \div DaysOfHundredYear
      d100 == d400 % DaysOfHundredYear
      d4   == d100 % DaysOfFourYear
      n    == d4 \div DaysOfOneYear
      century == 400 * (days \div DaysOfFourHundredYear) + n100 * 100
  IN  IF n100 = 4
      THEN [year |-> century, day |-> d100, leap |-> TRUE]
      ELSE [year |-> century + (d100 \div DaysOfFourYear) * 4 + n,
            day |-> d4 % DaysOfOneYear, leap |-> n = 4]

(* The date of a day of the year that begins with March: January and       *)
(* February belong to the next year.                                       *)
DateOf(y) ==
  LET month_diff == (y.day * 5 + 2) \div 153
  IN  IF y.leap
      THEN [year |-> y.year, month |-> 2, day |-> 29]
      ELSE [year  |-> IF month_diff > 9 THEN y.year + 1 ELSE y.year,
            month |-> IF month_diff > 9 THEN month_diff - 9 ELSE month_diff + 3,
            day   |-> y.day - DAYS_OF_MONTH[month_diff + 1] + 1]

get_calendar_from_epoch(sec) ==
  [date |-> [DateOf(SplitYears((sec \div SecondsOfDay) + EpochFromMarch))
               EXCEPT !.year = @ % YearMod],
   hour |-> (sec \div (MinuteLen * HourLen)) % DayLen,
   min  |-> (sec \div MinuteLen) % HourLen,
   sec  |-> sec % MinuteLen]

-----------------------------------------------------------------------------
(* The reference: leap years and lengths of months of the Gregorian        *)
(* calendar, and the day after a date.                                     *)
Leap(year) == year % 4 = 0 /\ (year % 100 # 0 \/ year % 400 = 0)

LengthOfMonth(year, month) ==
  CASE month = 2 -> IF Leap(year) THEN 29 ELSE 28
    [] month \in {4, 6, 9, 11} -> 30
    [] OTHER -> 31

Tomorrow(d) ==
  IF d.day < LengthOfMonth(d.year, d.month) THEN [d EXCEPT !.day = @ + 1]
  ELSE IF d.month < 12 THEN [d EXCEPT !.day = 1, !.month = @ + 1]
  ELSE [year |-> d.year + 1, month |-> 1, day |-> 1]

(* The day the seconds are counted from.                                   *)
Epoch == [year |-> 1970, month |-> 1, day |-> 1]

(* A calendar time names second s of the day whose date is today.          *)
Names(time, today, s) ==
  /\ time.date = today
  /\ time.hour < DayLen /\ time.min < HourLen /\ time.sec < MinuteLen
  /\ (time.hour * HourLen + time.min) * MinuteLen + time.sec = s

CalendarInit == day = 0 /\ date = Epoch

NextDay ==
  /\ date.year < LastYear
  /\ day' = day + 1
  /\ date' = Tomorrow(date)

CalendarSpec == CalendarInit /\ [][NextDay]_calendarvars

(* get_calendar_from_epoch names every second of every day right, across   *)
(* leap days, years that are no leap years, centuries and a fourth century.*)
CalendarRight ==
  \A s \in 0..SecondsOfDay - 1 :
    Names(get_calendar_from_epoch(day * SecondsOfDay + s), date, s)
=============================================================================
