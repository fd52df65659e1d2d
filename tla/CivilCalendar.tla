---------------------------- MODULE CivilCalendar ----------------------------
(***************************************************************************)
(* Civil dates as Python's datetime.date has them, proleptic Gregorian, in *)
(* years 1 to 9999.  A date is the number yyyymmdd, so dates compare as    *)
(* numbers.  What cannot be represented is NoDate.                         *)
(***************************************************************************)
EXTENDS Integers

NoDate == 0

Date(y, m, d) == y * 10000 + m * 100 + d
Year(date) == date \div 10000
Month(date) == (date \div 100) % 100
Day(date) == date % 100

LeapYear(y) == y % 4 = 0 /\ (y % 100 = 0 => y % 400 = 0)

MonthLength(y, m) ==
    CASE m = 2 -> IF LeapYear(y) THEN 29 ELSE 28
      [] m \in {4, 6, 9, 11} -> 30
      [] OTHER -> 31

IsDate(date) ==
    /\ date \in Nat
    /\ Year(date) \in 1..9999
    /\ Month(date) \in 1..12
    /\ Day(date) \in 1..MonthLength(Year(date), Month(date))

Representable(y) == y \in 1..9999

\* The day after and the day before; NoDate past either end.
NextDay(date) ==
    LET y == Year(date)  m == Month(date)  d == Day(date)
    IN IF date = NoDate THEN NoDate
       ELSE IF d < MonthLength(y, m) THEN date + 1
       ELSE IF m < 12 THEN Date(y, m + 1, 1)
       ELSE IF Representable(y + 1) THEN Date(y + 1, 1, 1)
       ELSE NoDate

PreviousDay(date) ==
    LET y == Year(date)  m == Month(date)
    IN IF date = NoDate THEN NoDate
       ELSE IF Day(date) > 1 THEN date - 1
       ELSE IF m > 1 THEN Date(y, m - 1, MonthLength(y, m - 1))
       ELSE IF Representable(y - 1) THEN Date(y - 1, 12, 31)
       ELSE NoDate

\* date + timedelta(days = n) and date - timedelta(days = n).
AddDays(date, n) ==
    LET after[k \in 0..n] == IF k = 0 THEN date ELSE NextDay(after[k - 1]) IN after[n]
SubtractDays(date, n) ==
    LET before[k \in 0..n] == IF k = 0 THEN date ELSE PreviousDay(before[k - 1])
    IN before[n]

Smaller(a, b) == IF a <= b THEN a ELSE b

\* Mutant: the day of the anchor is not clamped to the target month.
AddMonthsUnclamped(date, n) ==
    LET index == Year(date) * 12 + Month(date) - 1 + n
        y == index \div 12
        m == (index % 12) + 1
    IN IF Representable(y) THEN Date(y, m, Day(date)) ELSE NoDate

\* The target month, the day clamped to its last day.
AddMonths(date, n) ==
    LET index == Year(date) * 12 + Month(date) - 1 + n
        y == index \div 12
        m == (index % 12) + 1
    IN IF Representable(y)
       THEN Date(y, m, Smaller(Day(date), MonthLength(y, m)))
       ELSE NoDate

\* add_calendar_interval.
AddInterval(date, interval) ==
    CASE interval.unit = "days" -> AddDays(date, interval.value)
      [] interval.unit = "months" -> AddMonths(date, interval.value)
      [] interval.unit = "years" -> AddMonths(date, 12 * interval.value)
=============================================================================
