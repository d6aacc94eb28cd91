-------------------------- MODULE SchedulerTimeProofs --------------------------
(***************************************************************************)
(* The date arithmetic of the scheduler is exact for every date, and its   *)
(* slots for every time: FormulasAreExact of SchedulerTime, wherever the   *)
(* calendar starts and however long it is turned.                          *)
(*                                                                         *)
(* The number of a date is the number of the day before its month and its  *)
(* day.  Months follow each other, and years do, so that the number of the *)
(* next date is the next number; and the number of the first of January    *)
(* counts the leap years before it.  The way back takes a number apart:    *)
(* the era, the year in it, of which three divisions of the code undo the  *)
(* leap days, and the month counted from March.                            *)
(***************************************************************************)
EXTENDS SchedulerTime, FiniteSetTheorems, NaturalsInduction, TLAPS

Date(d) ==
  /\ d \in [year : Int, month : 1..12, day : 1..31]
  /\ d.day <= DaysInMonth(d.year, d.month)

\* The number of the day before the first of March of a year.
March(y) == (y \div 400) * 146097 + DayOfEra(y - (y \div 400) * 400, 0) - 719469

\* The number of the day before the first of a month.
Month(y, m) ==
  IF m <= 2 THEN March(y - 1) + FirstDayOfMonth(m + 9)
  ELSE March(y) + FirstDayOfMonth(m - 3)

LEMMA Numbers ==
  ASSUME NEW y \in Int, NEW m \in 1..12
  PROVE  March(y) \in Int /\ FirstDayOfMonth(m) \in Int /\ Month(y, m) \in Int
  BY DEF March, DayOfEra, FirstDayOfMonth, Month

-----------------------------------------------------------------------------
(* The number of the next date *)

LEMMA YearLength ==
  ASSUME NEW y \in Int
  PROVE  March(y) = March(y - 1) + (IF IsLeapYear(y) THEN 366 ELSE 365)
  <1>. DEFINE e == (y - 1) \div 400
              r == (y - 1) - e * 400
  <1>1. e \in Int /\ r \in 0..399 /\ y - 1 = 400 * e + r
    OBVIOUS
  <1>2. CASE r = 399
    <2>1. y \div 400 = e + 1
      BY <1>1, <1>2
    <2>. QED
      BY <1>1, <1>2, <2>1 DEF March, DayOfEra, IsLeapYear
  <1>3. CASE r < 399
    <2>1. y \div 400 = e
      BY <1>1, <1>3
    <2>2. IsLeapYear(y) <=> (r + 1) % 4 = 0 /\ ((r + 1) % 100 # 0 \/ (r + 1) % 400 = 0)
      BY <1>1, <1>3 DEF IsLeapYear
    <2>. HIDE DEF e, r
    <2>. QED
      BY <1>1, <1>3, <2>1, <2>2 DEF March, DayOfEra
  <1>. QED
    BY <1>1, <1>2, <1>3

LEMMA MonthLengths ==
  ASSUME NEW y \in Int, NEW m \in 1..12
  PROVE  /\ DaysInMonth(y, m) \in 28..31
         /\ m = 2 => DaysInMonth(y, m) = IF IsLeapYear(y) THEN 29 ELSE 28
         /\ m \in {1, 3, 5, 7, 8, 10, 12} => DaysInMonth(y, m) = 31
         /\ m \in {4, 6, 9, 11} => DaysInMonth(y, m) = 30
  BY DEF DaysInMonth

LEMMA FirstDays ==
  /\ FirstDayOfMonth(0) = 0 /\ FirstDayOfMonth(1) = 31 /\ FirstDayOfMonth(2) = 61
  /\ FirstDayOfMonth(9) = 275 /\ FirstDayOfMonth(10) = 306 /\ FirstDayOfMonth(11) = 337
  BY DEF FirstDayOfMonth

LEMMA MonthsFollow ==
  ASSUME NEW y \in Int, NEW m \in 1..11
  PROVE  Month(y, m + 1) = Month(y, m) + DaysInMonth(y, m)
  <1>1. March(y) \in Int /\ March(y - 1) \in Int
    BY Numbers
  <1>2. CASE m = 1
    <2>1. DaysInMonth(y, 1) = 31
      BY MonthLengths
    <2>. QED
      BY <1>1, <1>2, <2>1, FirstDays DEF Month
  <1>3. CASE m = 2
    <2>1. DaysInMonth(y, 2) = IF IsLeapYear(y) THEN 29 ELSE 28
      BY MonthLengths
    <2>. QED
      BY <1>1, <1>3, <2>1, FirstDays, YearLength DEF Month
  <1>4. CASE m \in 3..11
    <2>1. FirstDayOfMonth(m - 3) + DaysInMonth(y, m) = FirstDayOfMonth(m - 2)
      BY <1>4, MonthLengths DEF FirstDayOfMonth
    <2>2. /\ Month(y, m) = March(y) + FirstDayOfMonth(m - 3)
          /\ Month(y, m + 1) = March(y) + FirstDayOfMonth(m - 2)
      BY <1>4 DEF Month
    <2>3. /\ FirstDayOfMonth(m - 3) \in Int /\ FirstDayOfMonth(m - 2) \in Int
          /\ DaysInMonth(y, m) \in Int
      BY <1>4, MonthLengths DEF FirstDayOfMonth
    <2>. QED
      BY <1>1, <2>1, <2>2, <2>3
  <1>. QED
    BY <1>2, <1>3, <1>4

LEMMA YearsFollow ==
  ASSUME NEW y \in Int
  PROVE  Month(y + 1, 1) = Month(y, 12) + 31
  <1>1. March(y) \in Int
    BY Numbers
  <1>2. /\ Month(y + 1, 1) = March(y) + FirstDayOfMonth(10)
        /\ Month(y, 12) = March(y) + FirstDayOfMonth(9)
    BY DEF Month
  <1>. QED
    BY <1>1, <1>2, FirstDays

LEMMA DaysOfDates ==
  ASSUME NEW y \in Int, NEW m \in 1..12, NEW n \in Int
  PROVE  DaysFromCivil([year |-> y, month |-> m, day |-> n]) = Month(y, m) + n
  <1>1. CASE m <= 2
    <2>1. ~(m > 2)
      BY <1>1
    <2>. QED
      BY <1>1, <2>1 DEF DaysFromCivil, March, DayOfEra, FirstDayOfMonth, Month
  <1>2. CASE m > 2
    <2>1. ~(m <= 2)
      BY <1>2
    <2>. QED
      BY <1>2, <2>1 DEF DaysFromCivil, March, DayOfEra, FirstDayOfMonth, Month
  <1>. QED
    BY <1>1, <1>2

\* The next day of a month, the next month or the next year.
LEMMA TomorrowIs ==
  ASSUME NEW d, Date(d)
  PROVE  \/ /\ d.day < DaysInMonth(d.year, d.month)
            /\ Tomorrow(d) = [year |-> d.year, month |-> d.month, day |-> d.day + 1]
         \/ /\ d.day = DaysInMonth(d.year, d.month) /\ d.month < 12
            /\ Tomorrow(d) = [year |-> d.year, month |-> d.month + 1, day |-> 1]
         \/ /\ d.day = 31 /\ d.month = 12
            /\ Tomorrow(d) = [year |-> d.year + 1, month |-> 1, day |-> 1]
  <1>. USE DEF Date
  <1>1. /\ DaysInMonth(d.year, d.month) \in 28..31
        /\ d.month = 12 => DaysInMonth(d.year, d.month) = 31
    BY MonthLengths
  <1>2. CASE d.day < DaysInMonth(d.year, d.month)
    BY <1>2 DEF Tomorrow
  <1>3. CASE d.day = DaysInMonth(d.year, d.month) /\ d.month < 12
    BY <1>1, <1>3 DEF Tomorrow
  <1>4. CASE d.day = DaysInMonth(d.year, d.month) /\ d.month = 12
    BY <1>1, <1>4 DEF Tomorrow
  <1>. QED
    BY <1>1, <1>2, <1>3, <1>4

LEMMA DatesFollow ==
  ASSUME NEW d, Date(d)
  PROVE  Date(Tomorrow(d)) /\ DaysFromCivil(Tomorrow(d)) = DaysFromCivil(d) + 1
  <1>. DEFINE y == d.year
              m == d.month
              n == d.day
  <1>1. /\ d = [year |-> y, month |-> m, day |-> n]
        /\ y \in Int /\ m \in 1..12 /\ n \in 1..31
    BY DEF Date
  <1>2. \A k \in 1..12, j \in Int : DaysInMonth(j, k) \in 28..31
    BY MonthLengths
  <1>3. Date(Tomorrow(d))
    BY <1>1, <1>2, TomorrowIs DEF Date
  <1>4. DaysFromCivil(d) = Month(y, m) + n /\ Month(y, m) \in Int
    BY <1>1, DaysOfDates, Numbers
  <1>. HIDE DEF y, m, n
  <1>5. DaysFromCivil([year |-> y, month |-> m, day |-> n + 1]) = DaysFromCivil(d) + 1
    BY <1>1, <1>4, DaysOfDates
  <1>6. ASSUME m < 12, n = DaysInMonth(y, m)
        PROVE  DaysFromCivil([year |-> y, month |-> m + 1, day |-> 1]) = DaysFromCivil(d) + 1
    <2>1. DaysFromCivil([year |-> y, month |-> m + 1, day |-> 1]) = Month(y, m + 1) + 1
      BY <1>1, <1>6, DaysOfDates
    <2>. QED
      BY <1>1, <1>4, <1>6, <2>1, MonthsFollow
  <1>7. ASSUME m = 12, n = 31
        PROVE  DaysFromCivil([year |-> y + 1, month |-> 1, day |-> 1]) = DaysFromCivil(d) + 1
    <2>1. DaysFromCivil([year |-> y + 1, month |-> 1, day |-> 1]) = Month(y + 1, 1) + 1
      BY <1>1, DaysOfDates
    <2>. QED
      BY <1>1, <1>4, <1>7, <2>1, YearsFollow
  <1>. QED
    BY <1>3, <1>5, <1>6, <1>7, TomorrowIs DEF y, m, n

-----------------------------------------------------------------------------
(* The date of a number *)

\* The parts of a number of a year within its era: its century, the fours of
\* years in that, and the rest.
LEMMA EraParts ==
  ASSUME NEW c \in Int, 0 <= c, c <= 3, NEW q \in Int, 0 <= q, q <= 24,
         NEW s \in Int, 0 <= s, s <= 3, NEW n \in Int, 0 <= n, n <= 365,
         n = 365 => s = 3 /\ (q < 24 \/ c = 3),
         NEW e \in Int, e = 36524 * c + 1461 * q + 365 * s + n
  PROVE  /\ 0 <= e /\ e <= 146096
         /\ (e - e \div 1460 + e \div 36524 - e \div 146096) \div 365 = 100 * c + 4 * q + s
  <1>. DEFINE late == (24 * c + q + 365 * s + n) \div 1460
  <1>1. 0 <= e /\ e <= 146096
    OBVIOUS
  <1>2. e \div 36524 - e \div 146096 = c
    OBVIOUS
  <1>3. e \div 1460 = 25 * c + q + late /\ late \in Int
    OBVIOUS
  <1>4. 0 <= n - late /\ n - late <= 364
    OBVIOUS
  <1>. HIDE DEF late
  <1>5. e - e \div 1460 + e \div 36524 - e \div 146096
          = 365 * (100 * c + 4 * q + s) + (n - late)
    BY <1>2, <1>3
  <1>6. \A a \in Int, b \in Int : 0 <= b /\ b <= 364 => (365 * a + b) \div 365 = a
    OBVIOUS
  <1>7. (e - e \div 1460 + e \div 36524 - e \div 146096) \div 365 = 100 * c + 4 * q + s
    BY <1>3, <1>4, <1>5, <1>6
  <1>. QED
    BY <1>1, <1>7

\* A year of an era and a day of it, counted from March.
DayOfYear(r, o) == r \in 0..399 /\ o \in 0..365 /\ (o = 365 => IsLeapYear(r + 1))

\* The day of the era e is in the year r.
InYear(e, r) ==
  /\ e \in Int /\ 0 <= e /\ e <= 146096
  /\ (e - e \div 1460 + e \div 36524 - e \div 146096) \div 365 = r

LEMMA YearOfEra ==
  ASSUME NEW r, NEW o, DayOfYear(r, o)
  PROVE  InYear(DayOfEra(r, o), r)
  <1>. USE DEF DayOfYear
  <1>. DEFINE c == r \div 100
              q == (r - 100 * c) \div 4
              s == r - 100 * c - 4 * q
              e == DayOfEra(r, o)
  <1>1. /\ c \in Int /\ 0 <= c /\ c <= 3 /\ q \in Int /\ 0 <= q /\ q <= 24
        /\ s \in Int /\ 0 <= s /\ s <= 3 /\ r = 100 * c + 4 * q + s
    OBVIOUS
  <1>2. r \div 4 = 25 * c + q
    BY <1>1
  <1>3. e = 36524 * c + 1461 * q + 365 * s + o /\ e \in Int
    BY <1>1, <1>2 DEF DayOfEra
  <1>4. o = 365 => s = 3 /\ (q < 24 \/ c = 3)
    BY <1>1 DEF IsLeapYear
  <1>5. o \in Int /\ 0 <= o /\ o <= 365
    OBVIOUS
  <1>. HIDE DEF c, q, s, e
  <1>6. /\ 0 <= e /\ e <= 146096
        /\ (e - e \div 1460 + e \div 36524 - e \div 146096) \div 365 = 100 * c + 4 * q + s
    BY ONLY <1>1, <1>3, <1>4, <1>5, EraParts
  <1>7. InYear(e, r)
    BY <1>1, <1>3, <1>6 DEF InYear
  <1>. QED
    BY <1>7 DEF e

\* The day o of a year is the day k + 1 of the month p, counted from March.
InMonth(o, p, k) ==
  /\ p \in 0..11 /\ k \in 0..30
  /\ k + FirstDayOfMonth(p) < FirstDayOfMonth(p + 1)
  /\ o = FirstDayOfMonth(p) + k

LEMMA MonthPrime ==
  ASSUME NEW o, NEW p, NEW k, InMonth(o, p, k)
  PROVE  (5 * o + 2) \div 153 = p
  BY DEF InMonth, FirstDayOfMonth

\* A day of a month is a day of the year that is counted from March; the last
\* one there may be, in February of a leap year.
LEMMA DaysFit ==
  ASSUME NEW y \in Int, NEW m \in 1..12, NEW n \in 1..31, n <= DaysInMonth(y, m),
         NEW p, p = IF m > 2 THEN m - 3 ELSE m + 9,
         NEW k, k = n - 1, NEW o, o = FirstDayOfMonth(p) + k
  PROVE  /\ InMonth(o, p, k) /\ o \in 0..365
         /\ o = 365 => m <= 2 /\ IsLeapYear(y)
  <1>1. CASE m = 2
    <2>1. p = 11 /\ n <= 29 /\ (n = 29 => IsLeapYear(y))
      BY <1>1, MonthLengths
    <2>. QED
      BY <1>1, <2>1 DEF FirstDayOfMonth, InMonth
  <1>2. CASE m # 2
    <2>1. p \in 0..10
      BY <1>2
    <2>2. n - 1 + FirstDayOfMonth(p) < FirstDayOfMonth(p + 1)
      BY <1>2, <2>1, MonthLengths DEF FirstDayOfMonth
    <2>3. /\ FirstDayOfMonth(p + 1) \in Int /\ FirstDayOfMonth(p + 1) <= 337
          /\ FirstDayOfMonth(p) \in Nat
      BY <2>1 DEF FirstDayOfMonth
    <2>. QED
      BY <2>1, <2>2, <2>3 DEF InMonth
  <1>. QED
    BY <1>1, <1>2

\* A year is a leap year as it is one of its era.
LEMMA SameInEveryEra ==
  ASSUME NEW e \in Int, NEW r \in 0..399
  PROVE  IsLeapYear(400 * e + r + 1) <=> IsLeapYear(r + 1)
  BY DEF IsLeapYear

\* The day o of the year r of the era a has the date that the code finds.
LEMMA CivilOf ==
  ASSUME NEW a \in Int, NEW r, NEW o, DayOfYear(r, o), NEW p, NEW k, InMonth(o, p, k),
         NEW n, n = a * 146097 + DayOfEra(r, o) - 719468,
         NEW m, m = IF p < 10 THEN p + 3 ELSE p - 9
  PROVE  CivilFromDays(n) =
           [year |-> r + a * 400 + (IF m <= 2 THEN 1 ELSE 0), month |-> m, day |-> k + 1]
  <1>1. PICK e : e = DayOfEra(r, o)
    OBVIOUS
  <1>2. InYear(e, r)
    BY <1>1, YearOfEra
  <1>3. /\ e \in Int /\ 0 <= e /\ e <= 146096
        /\ (e - e \div 1460 + e \div 36524 - e \div 146096) \div 365 = r
    BY <1>2 DEF InYear
  <1>4. n + 719468 = a * 146097 + e
    BY <1>1, <1>3
  <1>5. \A b \in Int, c \in Int : 0 <= c /\ c <= 146096 => (b * 146097 + c) \div 146097 = b
    OBVIOUS
  <1>6. (n + 719468) \div 146097 = a
    BY <1>3, <1>4, <1>5
  <1>7. (n + 719468) - a * 146097 = e
    BY <1>3, <1>4
  <1>8. (5 * o + 2) \div 153 = p
    BY MonthPrime
  <1>9. o - FirstDayOfMonth(p) + 1 = k + 1
    BY DEF FirstDayOfMonth, InMonth
  <1>10. e - DayOfEra(r, 0) = o
    BY <1>1 DEF DayOfEra, DayOfYear
  <1>11. n \in Int /\ a \in Int /\ r \in Int /\ o \in Int /\ p \in Int /\ k \in Int /\ m \in Int
    BY <1>1, <1>3 DEF DayOfYear, InMonth
  <1>. QED
    BY ONLY <1>3, <1>6, <1>7, <1>8, <1>9, <1>10, <1>11, m = IF p < 10 THEN p + 3 ELSE p - 9
       DEF CivilFromDays

\* The date of the number of a date.
LEMMA DatesOfDays ==
  ASSUME NEW d, Date(d)
  PROVE  CivilFromDays(DaysFromCivil(d)) = d
  <1>1. PICK year \in Int, month \in 1..12, day \in 1..31 :
          d = [year |-> year, month |-> month, day |-> day] /\ day <= DaysInMonth(year, month)
    BY DEF Date
  <1>2. PICK y : y = IF month <= 2 THEN year - 1 ELSE year
    OBVIOUS
  <1>3. PICK p : p = IF month > 2 THEN month - 3 ELSE month + 9
    OBVIOUS
  <1>4. PICK a, r : a = y \div 400 /\ r = y - a * 400
    OBVIOUS
  <1>5. PICK k, o : k = day - 1 /\ o = FirstDayOfMonth(p) + k
    OBVIOUS
  <1>6. y \in Int /\ a \in Int /\ r \in 0..399 /\ y = 400 * a + r
    BY <1>2, <1>4
  <1>7. InMonth(o, p, k) /\ o \in 0..365 /\ (o = 365 => month <= 2 /\ IsLeapYear(year))
    <2>1. day <= DaysInMonth(year, month) /\ k = day - 1 /\ o = FirstDayOfMonth(p) + k
      BY <1>1, <1>5
    <2>2. InMonth(o, p, k)
      BY <1>3, <2>1, DaysFit
    <2>3. o \in 0..365
      BY <1>3, <2>1, DaysFit
    <2>4. o = 365 => month <= 2 /\ IsLeapYear(year)
      BY <1>3, <2>1, DaysFit
    <2>. QED
      BY <2>2, <2>3, <2>4
  <1>8. DayOfYear(r, o)
    <2>1. o = 365 => IsLeapYear(400 * a + r + 1)
      BY <1>2, <1>6, <1>7
    <2>. QED
      BY <1>6, <1>7, <2>1, SameInEveryEra DEF DayOfYear
  <1>9. DaysFromCivil(d) = a * 146097 + DayOfEra(r, o) - 719468
    <2>1. FirstDayOfMonth(p) + day - 1 = o
      BY <1>3, <1>5 DEF FirstDayOfMonth
    <2>. QED
      BY <1>1, <1>2, <1>3, <1>4, <2>1 DEF DaysFromCivil
  <1>10. PICK m : m = IF p < 10 THEN p + 3 ELSE p - 9
    OBVIOUS
  <1>11. CivilFromDays(DaysFromCivil(d)) =
           [year |-> r + a * 400 + (IF m <= 2 THEN 1 ELSE 0), month |-> m, day |-> k + 1]
    BY <1>6, <1>7, <1>8, <1>9, <1>10, CivilOf
  <1>12. m = month /\ r + a * 400 + (IF m <= 2 THEN 1 ELSE 0) = year /\ k + 1 = day
    BY <1>2, <1>3, <1>5, <1>6, <1>10
  <1>. QED
    BY <1>1, <1>11, <1>12

-----------------------------------------------------------------------------
(* Texts *)

\* A date is read from its text, and the text of a year is the only one of it.
LEMMA TextsHold ==
  ASSUME NEW d, Date(d), NEW n \in Int, n = DaysFromCivil(d)
  PROVE  Parse(FormatYear(d.year), d.month, d.day) = IF Finite(n) THEN n ELSE None
  <1>1. /\ d = [year |-> d.year, month |-> d.month, day |-> d.day]
        /\ d.year \in Int /\ d.month \in 1..12 /\ d.day \in 1..31
        /\ d.day <= DaysInMonth(d.year, d.month)
    BY DEF Date
  <1>2. ParseYear(FormatYear(d.year)) = d.year
    BY <1>1 DEF ParseYear, FormatYear
  <1>3. d.year # None
    BY <1>1, CalendarAssumption
  <1>. QED
    BY <1>1, <1>2, <1>3 DEF Parse

LEMMA NoOtherText ==
  ASSUME NEW y \in Int, NEW n \in Nat, NEW t \in YearText(n), ParseYear(t) = y
  PROVE  t = FormatYear(y)
  <1>1. t = [sign |-> t.sign, number |-> n, width |-> t.width]
    BY DEF YearText
  <1>2. y # None
    BY CalendarAssumption
  <1>3. t.width = 4 => n < 10000
    <2>1. n < 10^t.width
      BY DEF YearText
    <2>. QED
      BY <2>1
  <1>. QED
    BY <1>1, <1>2, <1>3 DEF ParseYear, FormatYear

-----------------------------------------------------------------------------
(* Slots *)

LEMMA SlotsHold ==
  ASSUME NEW n \in Int, NEW first \in {k \in n - 4 .. n + 1 : Finite(k)}, NEW interval \in 1 .. 3
  PROVE  LET begun == {k \in 0 .. 5 : first + k * interval <= n}
             slot  == DueSlot(first, interval, n)
         IN  IF slot # None THEN slot \in begun /\ \A k \in begun : k <= slot
             ELSE begun = {} \/ ~Finite(n + interval)
  <1>. DEFINE begun == {k \in 0 .. 5 : first + k * interval <= n}
              slot  == (n - first) \div interval
  <1>1. interval = 1 \/ interval = 2 \/ interval = 3
    OBVIOUS
  <1>2. first \in Int /\ Finite(first) /\ n - first \in -1 .. 4
    OBVIOUS
  <1>3. slot \in -1 .. 4 /\ (n >= first => slot \in begun)
    BY <1>1, <1>2
  <1>4. \A k \in begun : k <= slot
    BY <1>1, <1>2
  <1>5. first + (slot + 1) * interval <= n + interval /\ first + (slot + 1) * interval >= first
    BY <1>1, <1>2
  <1>6. n < first => begun = {}
    BY <1>1, <1>2
  <1>. QED
    BY <1>1, <1>2, <1>3, <1>4, <1>5, <1>6, CalendarAssumption DEF DueSlot, Finite

-----------------------------------------------------------------------------
(* The calendar starts with the number of its first day *)

LEMMA LeastNumber ==
  ASSUME NEW S, S \subseteq Nat, S # {}
  PROVE  \E n \in S : \A m \in S : n <= m
  <1>. DEFINE Less == {ss \in Nat \X Nat : ss[1] < ss[2]}
  <1>1. IsWellFoundedOn(Less, Nat)
    BY NatLessThanWellFounded DEF OpToRel
  <1>2. PICK n \in S : \A m \in S : <<m, n>> \notin Less
    <2>. HIDE DEF Less
    <2>. QED
      BY <1>1, WFMin, Zenon
  <1>3. ASSUME NEW m \in S PROVE n <= m
    <2>1. ~ (m < n)
      BY <1>2
    <2>. QED
      BY <2>1
  <1>. QED
    BY <1>3

\* The leap years among the first r years of an era.
LeapYears(c, r) == {k \in 400 * c .. 400 * c + r - 1 : IsLeapYear(k)}
Leaps(r) == (r + 3) \div 4 - (r + 99) \div 100 + (r + 399) \div 400

Counted(c, r) == IsFiniteSet(LeapYears(c, r)) /\ Cardinality(LeapYears(c, r)) = Leaps(r)

LEMMA OneMoreYear ==
  ASSUME NEW c \in Int, NEW r \in 0..399, Counted(c, r)
  PROVE  Counted(c, r + 1)
  <1>1. IsLeapYear(400 * c + r) <=> r % 4 = 0 /\ (r % 100 # 0 \/ r = 0)
    BY DEF IsLeapYear
  <1>2. Leaps(r + 1) = Leaps(r) + (IF r % 4 = 0 /\ (r % 100 # 0 \/ r = 0) THEN 1 ELSE 0)
    BY DEF Leaps
  <1>3. LeapYears(c, r + 1) =
          IF IsLeapYear(400 * c + r) THEN LeapYears(c, r) \cup {400 * c + r} ELSE LeapYears(c, r)
    BY DEF LeapYears
  <1>4. 400 * c + r \notin LeapYears(c, r)
    BY DEF LeapYears
  <1>5. Leaps(r) \in Int
    BY DEF Leaps
  <1>. QED
    BY <1>1, <1>2, <1>3, <1>4, <1>5, FS_AddElement DEF Counted

LEMMA LeapsAreCounted ==
  ASSUME NEW c \in Int, NEW r \in 0..400
  PROVE  Counted(c, r)
  <1>. DEFINE Wrong == {n \in 0..400 : ~Counted(c, n)}
  <1>1. Counted(c, 0)
    <2>1. LeapYears(c, 0) = {} /\ Leaps(0) = 0
      BY DEF LeapYears, Leaps
    <2>. QED
      BY <2>1, FS_EmptySet DEF Counted
  <1>2. \A n \in Wrong : n - 1 \in Wrong
    <2>1. SUFFICES ASSUME NEW n \in 0..400, ~Counted(c, n)
                   PROVE  n - 1 \in 0..400 /\ ~Counted(c, n - 1)
      OBVIOUS
    <2>2. n - 1 \in 0..399 /\ (n - 1) + 1 = n
      BY <1>1, <2>1
    <2>3. Counted(c, n - 1) => Counted(c, (n - 1) + 1)
      BY <2>2, OneMoreYear
    <2>. QED
      BY <2>1, <2>2, <2>3
  <1>3. Wrong \subseteq Nat
    OBVIOUS
  <1>. HIDE DEF Wrong
  <1>4. Wrong = {}
    <2>1. SUFFICES ASSUME Wrong # {} PROVE FALSE
      OBVIOUS
    <2>2. PICK n \in Wrong : \A m \in Wrong : n <= m
      BY <1>3, <2>1, LeastNumber
    <2>3. n - 1 \in Wrong /\ n \in Nat
      BY <1>2, <1>3
    <2>. QED
      BY <2>2, <2>3
  <1>. QED
    BY <1>4 DEF Wrong

LEMMA StartsRight ==
  ASSUME NEW y \in Int
  PROVE  DaysBefore(y) - 719528 = DaysFromCivil([year |-> y, month |-> 1, day |-> 1])
  <1>. DEFINE c == y \div 400
              r == y - 400 * c
              since == c * 400 .. y - 1
  <1>1. c \in Int /\ r \in 0..399 /\ y = 400 * c + r
    OBVIOUS
  <1>2. DaysBefore(y) =
          c * 146097 + 365 * Cardinality(since) + Cardinality({k \in since : IsLeapYear(k)})
    BY DEF DaysBefore
  <1>. HIDE DEF c, r
  <1>3. since = 400 * c .. 400 * c + r - 1
    BY <1>1
  <1>4. Cardinality(since) = r
    BY <1>1, <1>3, FS_Interval
  <1>5. {k \in since : IsLeapYear(k)} = LeapYears(c, r)
    BY <1>3 DEF LeapYears
  <1>6. Cardinality(LeapYears(c, r)) = Leaps(r)
    BY <1>1, LeapsAreCounted DEF Counted
  <1>. HIDE DEF since
  <1>7. DaysBefore(y) = c * 146097 + 365 * r + Leaps(r)
    BY <1>2, <1>4, <1>5, <1>6
  <1>8. March(y - 1) + 307 = c * 146097 + 365 * r + Leaps(r) - 719528
    <2>1. CASE r = 0
      <3>1. (y - 1) \div 400 = c - 1
        BY <1>1, <2>1
      <3>. QED
        BY <1>1, <2>1, <3>1 DEF March, DayOfEra, Leaps
    <2>2. CASE r > 0
      <3>1. (y - 1) \div 400 = c
        BY <1>1, <2>2
      <3>. QED
        BY <1>1, <2>2, <3>1 DEF March, DayOfEra, Leaps
    <2>. QED
      BY <1>1, <2>1, <2>2
  <1>9. DaysFromCivil([year |-> y, month |-> 1, day |-> 1]) = March(y - 1) + 306 + 1
    BY DaysOfDates, FirstDays DEF Month
  <1>10. March(y - 1) \in Int /\ Leaps(r) \in Int
    BY <1>1, Numbers DEF Leaps
  <1>. QED
    BY <1>1, <1>7, <1>8, <1>9, <1>10

-----------------------------------------------------------------------------
(* The calendar *)

\* What a turn of the calendar keeps.
DatesAreNumbered ==
  /\ date = [year |-> date.year, month |-> date.month, day |-> date.day]
  /\ Date(date) /\ days \in Int /\ days = DaysFromCivil(date)

LEMMA InitNumbered == Init => DatesAreNumbered
  <1>. SUFFICES ASSUME NEW y \in FirstYears, date = [year |-> y, month |-> 1, day |-> 1],
                       days = DaysBefore(y) - 719528
                PROVE  DatesAreNumbered
    BY DEF Init
  <1>1. y \in Int
    BY CalendarAssumption
  <1>2. days = DaysFromCivil(date)
    BY <1>1, StartsRight
  <1>3. DaysInMonth(y, 1) \in 28..31
    BY <1>1, MonthLengths
  <1>4. Date(date)
    BY <1>1, <1>3 DEF Date
  <1>5. days \in Int
    BY <1>1, <1>2, DaysOfDates, Numbers
  <1>. QED
    BY <1>1, <1>2, <1>4, <1>5 DEF DatesAreNumbered

LEMMA TurnNumbered == DatesAreNumbered /\ [Turn]_vars => DatesAreNumbered'
  <1>1. CASE Turn
    BY <1>1, DatesFollow DEF Turn, DatesAreNumbered, Date
  <1>2. CASE UNCHANGED vars
    BY <1>2 DEF vars, DatesAreNumbered
  <1>. QED
    BY <1>1, <1>2

LEMMA NumbersSuffice == DatesAreNumbered => FormulasAreExact
  <1>. SUFFICES ASSUME DatesAreNumbered PROVE FormulasAreExact
    OBVIOUS
  <1>1. Date(date) /\ days \in Int /\ days = DaysFromCivil(date) /\ date.year \in Int
    BY DEF DatesAreNumbered, Date
  <1>2. DaysAreCounted
    BY <1>1, DatesOfDays DEF DaysAreCounted
  <1>3. TextsAreCanonical
    BY <1>1, TextsHold, NoOtherText DEF TextsAreCanonical
  <1>4. SlotsAreTheLatest
    BY <1>1, SlotsHold DEF SlotsAreTheLatest
  <1>. QED
    BY <1>2, <1>3, <1>4 DEF FormulasAreExact

\* For a calendar that starts in any year and is turned for any time, the
\* number of a date is the count of days and the date is got back from it
\* (daysFromCivil, civilFromDays), a date in the finite range and no other is
\* read from its canonical text, which is the only text of its year
\* (formatYear, parseYear), and the due slot is the last one that has begun
\* (deriveSchedulerDueSlot).  So neither the floors of negative numbers, nor
\* the ends of centuries and eras, nor the year 0 are an exception.
THEOREM TimeIsExact == Spec => []FormulasAreExact
  BY InitNumbered, TurnNumbered, NumbersSuffice, PTL DEF Spec
================================================================================
