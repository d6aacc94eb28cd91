----------------------------- MODULE SchedulerTime -----------------------------
(***************************************************************************)
(* The date arithmetic of the scheduler (researchSchedulerTime.ts): the    *)
(* day number of a civil date and back, the text a year travels as, the    *)
(* finite range of PostgreSQL timestamps and the slot a time falls into.   *)
(* The reference is a calendar that is turned one day at a time by the     *)
(* rules of the Gregorian calendar.  The time of day is left out: a day is *)
(* the unit, where the code counts microseconds in BigInts.                *)
(***************************************************************************)
EXTENDS Integers, FiniteSets

CONSTANTS
  FirstYears,  \* Calendars start on 1 January of these years,
  Years,       \* and run for so many years.
  None

ASSUME CalendarAssumption == FirstYears \subseteq Int /\ Years \in Nat /\ None \notin Int

VARIABLES
  date,  \* Year, month and day.
  days   \* Days since 1 January 1970.

vars == <<date, days>>

-----------------------------------------------------------------------------
(* The code *)

IsLeapYear(y) == y % 4 = 0 /\ (y % 100 # 0 \/ y % 400 = 0)

DaysInMonth(y, m) ==
  CASE m = 2 -> IF IsLeapYear(y) THEN 29 ELSE 28
    [] m \in {1, 3, 5, 7, 8, 10, 12} -> 31
    [] OTHER -> 30

DayOfEra(yearOfEra, dayOfYear) ==
  365 * yearOfEra + yearOfEra \div 4 - yearOfEra \div 100 + dayOfYear

\* Months count from March, so that the leap day ends the year.
FirstDayOfMonth(monthPrime) == (153 * monthPrime + 2) \div 5

DaysFromCivil(d) ==
  LET year       == IF d.month <= 2 THEN d.year - 1 ELSE d.year
      era        == year \div 400
      monthPrime == IF d.month > 2 THEN d.month - 3 ELSE d.month + 9
  IN  era * 146097
        + DayOfEra(year - era * 400, FirstDayOfMonth(monthPrime) + d.day - 1)
        - 719468

\* Mutant of CivilFromDays: the last day of an era is not corrected for.
CivilWithoutEraEnd(n) ==
  LET era        == (n + 719468) \div 146097
      dayOfEra   == (n + 719468) - era * 146097
      yearOfEra  == (dayOfEra - dayOfEra \div 1460 + dayOfEra \div 36524) \div 365
      dayOfYear  == dayOfEra - DayOfEra(yearOfEra, 0)
      monthPrime == (5 * dayOfYear + 2) \div 153
      month      == IF monthPrime < 10 THEN monthPrime + 3 ELSE monthPrime - 9
  IN  [year |-> yearOfEra + era * 400 + (IF month <= 2 THEN 1 ELSE 0),
       month |-> month, day |-> dayOfYear - FirstDayOfMonth(monthPrime) + 1]

CivilFromDays(n) ==
  LET era        == (n + 719468) \div 146097
      dayOfEra   == (n + 719468) - era * 146097
      yearOfEra  == (dayOfEra - dayOfEra \div 1460 + dayOfEra \div 36524
                       - dayOfEra \div 146096) \div 365
      dayOfYear  == dayOfEra - DayOfEra(yearOfEra, 0)
      monthPrime == (5 * dayOfYear + 2) \div 153
      month      == IF monthPrime < 10 THEN monthPrime + 3 ELSE monthPrime - 9
  IN  [year |-> yearOfEra + era * 400 + (IF month <= 2 THEN 1 ELSE 0),
       month |-> month, day |-> dayOfYear - FirstDayOfMonth(monthPrime) + 1]

\* The texts of a year with this number: a sign or none, and how many digits.
YearText(number) ==
  {t \in [sign : {"none", "plus", "minus"}, number : {number}, width : {4, 5, 6}] :
     number < 10^t.width}

ParseYear(t) ==
  CASE t.sign = "none" /\ t.width = 4 -> t.number
    [] t.sign = "plus" /\ t.width = 6 /\ t.number >= 10000 -> t.number
    [] t.sign = "minus" /\ t.width = 6 /\ t.number # 0 -> -t.number
    [] OTHER -> None

FormatYear(y) ==
  CASE 0 <= y /\ y <= 9999 -> [sign |-> "none", number |-> y, width |-> 4]
    [] y > 9999 -> [sign |-> "plus", number |-> y, width |-> 6]
    [] y < 0 -> [sign |-> "minus", number |-> -y, width |-> 6]

\* assertSchedulerTimestampMicros, in whole days.
Finite(n) == -2440550 <= n /\ n <= 106762939

\* parseSchedulerTimestamp; None when it throws.
Parse(t, month, day) ==
  LET year == ParseYear(t)
      n    == DaysFromCivil([year |-> year, month |-> month, day |-> day])
  IN  IF /\ year # None
         /\ month \in 1 .. 12 /\ day \in 1 .. DaysInMonth(year, month)
         /\ Finite(n)
      THEN n ELSE None

\* deriveSchedulerDueSlot: null before the first eligibility; it throws, here
\* None as well, when a time or the next slot is beyond the range.
DueSlot(first, interval, n) ==
  LET slot == (n - first) \div interval
  IN  IF /\ Finite(first) /\ Finite(n) /\ n >= first
         /\ Finite(first + (slot + 1) * interval)
      THEN slot ELSE None

-----------------------------------------------------------------------------
(* The calendar *)

\* Days from 1 January of year 0 to 1 January of year y.
DaysBefore(y) ==
  LET cycle == y \div 400
      since == cycle * 400 .. y - 1
  IN  cycle * 146097 + 365 * Cardinality(since)
        + Cardinality({k \in since : IsLeapYear(k)})

Init ==
  \E y \in FirstYears :
    /\ date = [year |-> y, month |-> 1, day |-> 1]
    /\ days = DaysBefore(y) - 719528

Tomorrow(d) ==
  IF d.day < DaysInMonth(d.year, d.month) THEN [d EXCEPT !.day = @ + 1]
  ELSE IF d.month < 12 THEN [d EXCEPT !.day = 1, !.month = @ + 1]
  ELSE [year |-> d.year + 1, month |-> 1, day |-> 1]

Turn ==
  /\ \E y \in FirstYears : date.year \in y .. y + Years - 1
  /\ date' = Tomorrow(date)
  /\ days' = days + 1

Spec == Init /\ [][Turn]_vars

-----------------------------------------------------------------------------
(* Properties *)

\* The number of a day is the number of days to it, and the date of a number
\* is the date again, across leap years, centuries, eras and the year 0.
DaysAreCounted == DaysFromCivil(date) = days /\ CivilFromDays(days) = date

\* Inside the finite range, and only there, a date is read back from its
\* text; and no other text is read as the same year.
TextsAreCanonical ==
  /\ Parse(FormatYear(date.year), date.month, date.day)
       = (IF Finite(days) THEN days ELSE None)
  /\ \A n \in {date.year, -date.year} \cap Nat : \A t \in YearText(n) :
       ParseYear(t) = date.year => t = FormatYear(date.year)

\* The due slot is the last one that began at or before the time, and there
\* is one unless none began or the time is in the last slot of the range.
SlotsAreTheLatest ==
  \A first \in {n \in days - 4 .. days + 1 : Finite(n)}, interval \in 1 .. 3 :
    LET begun == {n \in 0 .. 5 : first + n * interval <= days}
        slot  == DueSlot(first, interval, days)
    IN  IF slot # None THEN slot \in begun /\ \A n \in begun : n <= slot
        ELSE begun = {} \/ ~Finite(days + interval)

\* The closed formulas are exact: days, dates and texts are three names of one
\* thing, and slots are what is due.
FormulasAreExact == DaysAreCounted /\ TextsAreCanonical /\ SlotsAreTheLatest

=============================================================================
