--------------------- MODULE MaintenanceProjectionProofs ---------------------
(***************************************************************************)
(* Proofs about the projection for any dates, intervals and events.        *)
(***************************************************************************)
EXTENDS MaintenanceProjection, WellFoundedInduction, TLAPS

Years == 1..9999
Months == 1..12
MonthDays == 1..31

\* date is day d of month m of year y.
IsDay(date, y, m, d) ==
    /\ date \in Nat /\ date # NoDate /\ IsDate(date)
    /\ y \in Years /\ m \in Months /\ d \in MonthDays
    /\ d <= MonthLength(y, m)
    /\ date = Date(y, m, d)
    /\ y = Year(date) /\ m = Month(date) /\ d = Day(date)

\* What a count of days from a date leads to.
After(date) == {NoDate} \union {later \in Nat : IsDate(later) /\ date < later}
Before(date) == {NoDate} \union {earlier \in Nat : IsDate(earlier) /\ earlier < date}

-----------------------------------------------------------------------------
(* Induction over sets of numbers                                            *)

\* Induction with a set for the predicate: what holds of 0 and is passed on from each
\* number to the next holds of every number.
LEMMA SetInduction ==
  ASSUME NEW S, 0 \in S, \A n \in Nat : n \in S => n + 1 \in S
  PROVE  Nat \subseteq S
  <1> DEFINE T == Nat \ S
             R == {ss \in Nat \X Nat : ss[1] < ss[2]}
  <1>1. IsWellFoundedOn(R, Nat)
    BY NatLessThanWellFounded DEF OpToRel
  <1>2. SUFFICES ASSUME T # {} PROVE FALSE
    OBVIOUS
  <1>3. T \subseteq Nat
    OBVIOUS
  <1>4. PICK x \in T : \A y \in T : ~(<<y, x>> \in R)
    BY <1>1, <1>2, <1>3, WFMin
  <1>5. x \in Nat /\ x \notin S /\ x # 0
    OBVIOUS
  <1>6. PICK y \in Nat : x = y + 1
    <2>1. x - 1 \in Nat /\ x = (x - 1) + 1
      BY <1>5
    <2> QED
      BY <2>1
  <1>7. <<y, x>> \in R
    BY <1>5, <1>6
  <1> QED
    BY <1>4, <1>5, <1>6, <1>7

-----------------------------------------------------------------------------
(* Dates                                                                     *)

LEMMA MonthLengths ==
  ASSUME NEW y, NEW m
  PROVE  MonthLength(y, m) \in 28..31
  BY DEF MonthLength

LEMMA DateParts ==
  ASSUME NEW date \in Nat, IsDate(date)
  PROVE  IsDay(date, Year(date), Month(date), Day(date))
  <1>1. PICK n \in 28..31 : n = MonthLength(Year(date), Month(date))
    BY MonthLengths
  <1>2. Day(date) \in MonthDays /\ Day(date) <= n
    BY <1>1 DEF IsDate, Years, Months, MonthDays
  <1>3. date = Date(Year(date), Month(date), Day(date))
    BY DEF Date, Year, Month, Day
  <1> QED
    BY <1>1, <1>2, <1>3 DEF IsDate, NoDate, IsDay, Year, Date, Years, Months, MonthDays

LEMMA DateMade ==
  ASSUME NEW y, NEW m, NEW d, y \in Years, m \in Months, d \in Nat, 1 <= d, d <= MonthLength(y, m)
  PROVE  IsDay(Date(y, m, d), y, m, d)
  <1>0. PICK n \in 28..31 : n = MonthLength(y, m)
    BY MonthLengths
  <1>1. d \in MonthDays
    BY <1>0 DEF Years, Months, MonthDays
  <1>2. Date(y, m, d) \in Nat /\ Date(y, m, d) # 0
    BY <1>1 DEF Date, Years, Months, MonthDays
  <1>3. Year(Date(y, m, d)) = y
    BY <1>1 DEF Date, Year, Years, Months, MonthDays
  <1>4. Month(Date(y, m, d)) = m
    <2>1. Date(y, m, d) \div 100 = y * 100 + m
      BY <1>1 DEF Date, Years, Months, MonthDays
    <2>2. (y * 100 + m) % 100 = m
      BY DEF Years, Months, MonthDays
    <2> QED
      BY <2>1, <2>2 DEF Month
  <1>5. Day(Date(y, m, d)) = d
    BY <1>1 DEF Date, Day, Years, Months, MonthDays
  <1>6. IsDate(Date(y, m, d))
    BY <1>0, <1>1, <1>2, <1>3, <1>4, <1>5 DEF IsDate, Years, Months, MonthDays
  <1> HIDE DEF IsDay
  <1>7. PICK k : k = Date(y, m, d)
    OBVIOUS
  <1>8. k \in Nat /\ k # NoDate /\ IsDate(k)
    BY <1>7, <1>2, <1>6 DEF NoDate
  <1>9. y = Year(k) /\ m = Month(k) /\ d = Day(k)
    BY <1>3, <1>4, <1>5, <1>7
  <1>10. IsDay(k, y, m, d)
    BY <1>1, <1>7, <1>8, <1>9, Zenon DEF IsDay
  <1> QED
    BY <1>7, <1>10

\* What it is, without the operators that say how it is written.
LEMMA DayParts ==
  ASSUME NEW date, NEW y, NEW m, NEW d, IsDay(date, y, m, d)
  PROVE  /\ date \in Nat /\ date # NoDate /\ IsDate(date)
         /\ y \in Years /\ m \in Months /\ d \in MonthDays
         /\ d <= MonthLength(y, m) /\ date = Date(y, m, d)
         /\ y = Year(date) /\ m = Month(date) /\ d = Day(date)
  BY Zenon DEF IsDay

LEMMA DateOrder ==
  ASSUME NEW date, NEW y, NEW m, NEW d, IsDay(date, y, m, d),
         NEW other, NEW y2, NEW m2, NEW d2, IsDay(other, y2, m2, d2)
  PROVE  date < other <=> y < y2 \/ (y = y2 /\ (m < m2 \/ (m = m2 /\ d < d2)))
  <1>1. date = Date(y, m, d) /\ other = Date(y2, m2, d2)
    BY DayParts, Zenon
  <1>2. y \in Years /\ m \in Months /\ d \in MonthDays
    BY DayParts, Zenon
  <1>3. y2 \in Years /\ m2 \in Months /\ d2 \in MonthDays
    BY DayParts, Zenon
  <1> QED
    BY <1>1, <1>2, <1>3 DEF Date, Years, Months, MonthDays

\* The next day is later, and no date lies in between.
LEMMA NextDayIs ==
  ASSUME NEW date \in Nat, IsDate(date)
  PROVE  \/ NextDay(date) = NoDate
         \/ /\ NextDay(date) \in Nat /\ IsDate(NextDay(date)) /\ date < NextDay(date)
            /\ \A other \in Nat : IsDate(other) /\ other < NextDay(date) => other <= date
  <1>1. PICK y, m, d : IsDay(date, y, m, d)
    BY DateParts
  <1>2. PICK length \in 28..31 : length = MonthLength(y, m)
    BY MonthLengths
  <1>3. /\ y = Year(date) /\ m = Month(date) /\ d = Day(date) /\ date # NoDate
        /\ y \in Years /\ m \in Months /\ d \in 1..length
    <2>1. /\ y = Year(date) /\ m = Month(date) /\ d = Day(date) /\ date # NoDate
          /\ y \in Years /\ m \in Months /\ d \in MonthDays /\ d <= length
      BY <1>1, <1>2, DayParts, Zenon
    <2>2. d \in 1..length
      BY <2>1 DEF Years, Months, MonthDays
    <2> QED
      BY <2>1, <2>2, Zenon
  <1>4. CASE d < length
    <2>1. NextDay(date) = date + 1
      BY <1>2, <1>3, <1>4 DEF NextDay
    <2>2. date + 1 = Date(y, m, d + 1)
      <3>1. date = Date(y, m, d) /\ y \in Years /\ m \in Months /\ d \in MonthDays
        BY <1>1, DayParts, Zenon
      <3> QED
        BY <3>1 DEF Date, Years, Months, MonthDays
    <2>3. d + 1 \in Nat /\ 1 <= d + 1 /\ d + 1 <= MonthLength(y, m)
      BY <1>2, <1>3, <1>4
    <2>4. IsDay(Date(y, m, d + 1), y, m, d + 1)
      BY <1>3, <2>3, DateMade
    <2> QED
      BY <2>1, <2>2, <2>4 DEF IsDay
  <1>5. CASE ~(d < length) /\ m < 12
    <2>1. NextDay(date) = Date(y, m + 1, 1)
      BY <1>2, <1>3, <1>5 DEF NextDay
    <2>2. m + 1 \in Months /\ 1 <= MonthLength(y, m + 1)
      BY <1>3, <1>5, MonthLengths DEF Years, Months, MonthDays
    <2>3. IsDay(NextDay(date), y, m + 1, 1)
      BY <1>3, <2>1, <2>2, DateMade
    <2>4. NextDay(date) \in Nat /\ IsDate(NextDay(date))
      BY <2>3 DEF IsDay
    <2>5. date < NextDay(date)
      BY <1>1, <1>3, <2>3, DateOrder DEF Years, Months, MonthDays
    <2>6. ASSUME NEW other \in Nat, IsDate(other), other < NextDay(date)
          PROVE  other <= date
      <3>1. PICK y2, m2, d2 : IsDay(other, y2, m2, d2)
        BY <2>6, DateParts
      <3>2. y2 < y \/ (y2 = y /\ (m2 < m + 1 \/ (m2 = m + 1 /\ d2 < 1)))
        BY <2>3, <2>6, <3>1, DateOrder
      <3>3. y2 \in Years /\ m2 \in Months /\ d2 \in MonthDays /\ d2 <= MonthLength(y2, m2)
        BY <3>1, DayParts, Zenon
      <3>4. y2 = y /\ m2 = m => d2 <= d
        BY <1>2, <1>3, <1>5, <3>3
      <3>5. ~(y < y2 \/ (y = y2 /\ (m < m2 \/ (m = m2 /\ d < d2))))
        BY <1>3, <3>2, <3>3, <3>4 DEF Years, Months, MonthDays
      <3>6. ~(date < other)
        BY <1>1, <3>1, <3>5, DateOrder
      <3> QED
        BY <3>6
    <2> QED
      BY <2>4, <2>5, <2>6
  <1>6. CASE ~(d < length) /\ ~(m < 12) /\ y + 1 \in Years
    <2>1. NextDay(date) = Date(y + 1, 1, 1)
      BY <1>2, <1>3, <1>6 DEF NextDay, Representable, Years, Months, MonthDays
    <2>2. 1 <= MonthLength(y + 1, 1)
      BY MonthLengths
    <2>3. IsDay(NextDay(date), y + 1, 1, 1)
      BY <1>6, <2>1, <2>2, DateMade DEF Years, Months, MonthDays
    <2>4. NextDay(date) \in Nat /\ IsDate(NextDay(date))
      BY <2>3 DEF IsDay
    <2>5. date < NextDay(date)
      BY <1>1, <1>3, <2>3, DateOrder DEF Years, Months, MonthDays
    <2>6. ASSUME NEW other \in Nat, IsDate(other), other < NextDay(date)
          PROVE  other <= date
      <3>1. PICK y2, m2, d2 : IsDay(other, y2, m2, d2)
        BY <2>6, DateParts
      <3>2. y2 < y + 1 \/ (y2 = y + 1 /\ (m2 < 1 \/ (m2 = 1 /\ d2 < 1)))
        BY <2>3, <2>6, <3>1, DateOrder
      <3>3. y2 \in Years /\ m2 \in Months /\ d2 \in MonthDays /\ d2 <= MonthLength(y2, m2)
        BY <3>1, DayParts, Zenon
      <3>4. m = 12 /\ (y2 = y /\ m2 = m => d2 <= d)
        BY <1>2, <1>3, <1>6, <3>3 DEF Years, Months, MonthDays
      <3>5. ~(y < y2 \/ (y = y2 /\ (m < m2 \/ (m = m2 /\ d < d2))))
        BY <1>3, <3>2, <3>3, <3>4 DEF Years, Months, MonthDays
      <3>6. ~(date < other)
        BY <1>1, <3>1, <3>5, DateOrder
      <3> QED
        BY <3>6
    <2> QED
      BY <2>4, <2>5, <2>6
  <1>7. CASE ~(d < length) /\ ~(m < 12) /\ y + 1 \notin Years
    <2>1. NextDay(date) = NoDate
      BY <1>2, <1>3, <1>7 DEF NextDay, Representable, Years
    <2> QED
      BY <2>1
  <1> QED
    BY <1>4, <1>5, <1>6, <1>7

LEMMA PreviousDayIs ==
  ASSUME NEW date \in Nat, IsDate(date)
  PROVE  \/ PreviousDay(date) = NoDate
         \/ PreviousDay(date) \in Nat /\ IsDate(PreviousDay(date)) /\ PreviousDay(date) < date
  <1>1. PICK y, m, d : IsDay(date, y, m, d)
    BY DateParts
  <1>2. /\ y = Year(date) /\ m = Month(date) /\ d = Day(date) /\ date # NoDate
        /\ y \in Years /\ m \in Months /\ d \in MonthDays /\ d <= MonthLength(y, m)
    BY <1>1, DayParts, Zenon
  <1>3. CASE d > 1
    <2>1. PreviousDay(date) = date - 1
      BY <1>2, <1>3 DEF PreviousDay
    <2>2. date - 1 = Date(y, m, d - 1)
      <3>1. date = Date(y, m, d) /\ y \in Years /\ m \in Months /\ d \in MonthDays
        BY <1>1, DayParts, Zenon
      <3> QED
        BY <3>1 DEF Date, Years, Months, MonthDays
    <2>3. d - 1 \in Nat /\ 1 <= d - 1 /\ d - 1 <= MonthLength(y, m)
      BY <1>2, <1>3, MonthLengths DEF Years, Months, MonthDays
    <2>4. IsDay(Date(y, m, d - 1), y, m, d - 1)
      BY <1>2, <2>3, DateMade
    <2> QED
      BY <2>1, <2>2, <2>4 DEF IsDay
  <1>4. CASE ~(d > 1) /\ m > 1
    <2>1. PICK last : last = MonthLength(y, m - 1)
      OBVIOUS
    <2>2. PreviousDay(date) = Date(y, m - 1, last)
      BY <1>2, <1>4, <2>1 DEF PreviousDay
    <2>3. m - 1 \in Months /\ last \in Nat /\ 1 <= last /\ last <= MonthLength(y, m - 1)
      BY <1>2, <1>4, <2>1, MonthLengths DEF Years, Months, MonthDays
    <2>4. IsDay(PreviousDay(date), y, m - 1, last)
      BY <1>2, <2>2, <2>3, DateMade
    <2>5. PreviousDay(date) < date
      BY <1>1, <1>2, <2>4, DateOrder DEF Years, Months, MonthDays
    <2> QED
      BY <2>4, <2>5 DEF IsDay
  <1>5. CASE ~(d > 1) /\ ~(m > 1)
    <2>1. PreviousDay(date) = IF y - 1 \in Years THEN Date(y - 1, 12, 31) ELSE NoDate
      BY <1>2, <1>5 DEF PreviousDay, Representable, Years, Months, MonthDays
    <2>2. CASE y - 1 \in Years
      <3>1. 31 <= MonthLength(y - 1, 12)
        BY DEF MonthLength
      <3>2. IsDay(PreviousDay(date), y - 1, 12, 31)
        <4>1. 12 \in Months /\ 31 \in Nat /\ 1 <= 31
          BY DEF Months
        <4> QED
          BY <2>1, <2>2, <3>1, <4>1, DateMade
      <3>3. PreviousDay(date) < date
        BY <1>1, <1>2, <3>2, DateOrder DEF Years, Months, MonthDays
      <3> QED
        BY <3>2, <3>3 DEF IsDay
    <2> QED
      BY <2>1, <2>2
  <1> QED
    BY <1>3, <1>4, <1>5

\* Counting days: AddDays and SubtractDays are the functions their definitions
\* describe, and do what each of their steps does.
LEMMA AddDaysIs ==
  ASSUME NEW date \in Nat, IsDate(date), NEW n \in Nat \ {0}
  PROVE  AddDays(date, n) \in After(date)
  <1> DEFINE Step(f, k) == IF k = 0 THEN date ELSE NextDay(f[k - 1])
             S == {m \in Nat : \E f : f = [k \in 0..m |-> Step(f, k)]}
             after == CHOOSE f : f = [k \in 0..n |-> Step(f, k)]
             T == {k \in Nat : k + 1 <= n => after[k + 1] \in After(date)}
  <1>1. AddDays(date, n) = after[n]
    BY DEF AddDays
  <1>2. 0 \in S
    <2> DEFINE f == [k \in 0..0 |-> date]
    <2>1. f = [k \in 0..0 |-> Step(f, k)]
      OBVIOUS
    <2> QED
      BY <2>1
  <1>3. ASSUME NEW m \in Nat, m \in S
        PROVE  m + 1 \in S
    <2>1. PICK f : f = [k \in 0..m |-> Step(f, k)]
      BY <1>3
    <2> DEFINE g == [k \in 0..(m + 1) |-> IF k <= m THEN f[k] ELSE NextDay(f[m])]
    <2>2. ASSUME NEW k \in 0..(m + 1)
          PROVE  g[k] = Step(g, k)
      <3>1. CASE k = 0
        BY <2>1, <3>1
      <3>2. CASE k \in 1..m
        <4>1. k - 1 \in 0..m /\ k \in 0..m /\ g[k - 1] = f[k - 1] /\ g[k] = f[k]
          BY <3>2
        <4>2. f[k] = NextDay(f[k - 1])
          BY <2>1, <3>2, <4>1
        <4> QED
          BY <3>2, <4>1, <4>2
      <3>3. CASE k = m + 1
        BY <3>3
      <3> QED
        BY <3>1, <3>2, <3>3
    <2>3. g = [k \in 0..(m + 1) |-> Step(g, k)]
      BY <2>2
    <2> HIDE DEF g
    <2>4. \E f1 : f1 = [k \in 0..(m + 1) |-> Step(f1, k)]
      BY <2>3
    <2> QED
      BY <2>4
  <1>4. Nat \subseteq S
    BY <1>2, <1>3, SetInduction
  <1>5. after = [k \in 0..n |-> Step(after, k)]
    BY <1>4
  <1> HIDE DEF after
  <1>6. 0 \in T
    <2>1. after[0] = date /\ after[1] = NextDay(after[0])
      BY <1>5
    <2> QED
      BY <2>1, NextDayIs DEF After
  <1>7. ASSUME NEW k \in Nat, k \in T
        PROVE  k + 1 \in T
    <2>1. SUFFICES ASSUME k + 1 + 1 <= n
                   PROVE  after[k + 1 + 1] \in After(date)
      OBVIOUS
    <2>2. after[k + 1 + 1] = NextDay(after[k + 1])
      BY <1>5, <2>1
    <2>3. after[k + 1] \in After(date)
      BY <1>7, <2>1
    <2>4. CASE after[k + 1] = NoDate
      BY <2>2, <2>4 DEF NextDay, After
    <2>5. CASE after[k + 1] # NoDate
      BY <2>2, <2>3, <2>5, NextDayIs DEF After
    <2> QED
      BY <2>4, <2>5
  <1>8. Nat \subseteq T
    BY <1>6, <1>7, SetInduction
  <1>9. n - 1 \in T /\ n - 1 + 1 = n
    BY <1>8
  <1> QED
    BY <1>1, <1>9

LEMMA SubtractDaysIs ==
  ASSUME NEW date \in Nat, IsDate(date), NEW n \in Nat \ {0}
  PROVE  SubtractDays(date, n) \in Before(date)
  <1> DEFINE Step(f, k) == IF k = 0 THEN date ELSE PreviousDay(f[k - 1])
             S == {m \in Nat : \E f : f = [k \in 0..m |-> Step(f, k)]}
             before == CHOOSE f : f = [k \in 0..n |-> Step(f, k)]
             T == {k \in Nat : k + 1 <= n => before[k + 1] \in Before(date)}
  <1>1. SubtractDays(date, n) = before[n]
    BY DEF SubtractDays
  <1>2. 0 \in S
    <2> DEFINE f == [k \in 0..0 |-> date]
    <2>1. f = [k \in 0..0 |-> Step(f, k)]
      OBVIOUS
    <2> QED
      BY <2>1
  <1>3. ASSUME NEW m \in Nat, m \in S
        PROVE  m + 1 \in S
    <2>1. PICK f : f = [k \in 0..m |-> Step(f, k)]
      BY <1>3
    <2> DEFINE g == [k \in 0..(m + 1) |-> IF k <= m THEN f[k] ELSE PreviousDay(f[m])]
    <2>2. ASSUME NEW k \in 0..(m + 1)
          PROVE  g[k] = Step(g, k)
      <3>1. CASE k = 0
        BY <2>1, <3>1
      <3>2. CASE k \in 1..m
        <4>1. k - 1 \in 0..m /\ k \in 0..m /\ g[k - 1] = f[k - 1] /\ g[k] = f[k]
          BY <3>2
        <4>2. f[k] = PreviousDay(f[k - 1])
          BY <2>1, <3>2, <4>1
        <4> QED
          BY <3>2, <4>1, <4>2
      <3>3. CASE k = m + 1
        BY <3>3
      <3> QED
        BY <3>1, <3>2, <3>3
    <2>3. g = [k \in 0..(m + 1) |-> Step(g, k)]
      BY <2>2
    <2> HIDE DEF g
    <2>4. \E f1 : f1 = [k \in 0..(m + 1) |-> Step(f1, k)]
      BY <2>3
    <2> QED
      BY <2>4
  <1>4. Nat \subseteq S
    BY <1>2, <1>3, SetInduction
  <1>5. before = [k \in 0..n |-> Step(before, k)]
    BY <1>4
  <1> HIDE DEF before
  <1>6. 0 \in T
    <2>1. before[0] = date /\ before[1] = PreviousDay(before[0])
      BY <1>5
    <2> QED
      BY <2>1, PreviousDayIs DEF Before
  <1>7. ASSUME NEW k \in Nat, k \in T
        PROVE  k + 1 \in T
    <2>1. SUFFICES ASSUME k + 1 + 1 <= n
                   PROVE  before[k + 1 + 1] \in Before(date)
      OBVIOUS
    <2>2. before[k + 1 + 1] = PreviousDay(before[k + 1])
      BY <1>5, <2>1
    <2>3. before[k + 1] \in Before(date)
      BY <1>7, <2>1
    <2>4. CASE before[k + 1] = NoDate
      BY <2>2, <2>4 DEF PreviousDay, Before
    <2>5. CASE before[k + 1] # NoDate
      BY <2>2, <2>3, <2>5, PreviousDayIs DEF Before
    <2> QED
      BY <2>4, <2>5
  <1>8. Nat \subseteq T
    BY <1>6, <1>7, SetInduction
  <1>9. n - 1 \in T /\ n - 1 + 1 = n
    BY <1>8
  <1> QED
    BY <1>1, <1>9

-----------------------------------------------------------------------------
(* Intervals                                                                 *)

\* Months later is so many months later, on the same day or on the last one of a
\* shorter month.
LEMMA AddMonthsIs ==
  ASSUME NEW date, NEW y, NEW m, NEW d, IsDay(date, y, m, d), NEW n \in Nat \ {0}
  PROVE  \/ AddMonths(date, n) = NoDate
         \/ \E y2, m2, d2 :
               /\ IsDay(AddMonths(date, n), y2, m2, d2)
               /\ (y2 - y) * 12 + m2 - m = n
               /\ d2 <= d /\ (d2 < d => d2 = MonthLength(y2, m2))
  <1>1. y = Year(date) /\ m = Month(date) /\ d = Day(date)
    BY DayParts, Zenon
  <1>2. y \in Years /\ m \in Months /\ d \in MonthDays
    BY DayParts, Zenon
  <1>3. PICK index \in Nat : index = y * 12 + m - 1 + n
    BY <1>2 DEF Years, Months
  <1>4. PICK y2 \in Nat : y2 = index \div 12
    BY <1>3
  <1>5. PICK m2 \in Months : m2 = (index % 12) + 1
    BY <1>3 DEF Months
  <1>6. index = y2 * 12 + m2 - 1
    <2>1. index = 12 * (index \div 12) + (index % 12)
      BY <1>3
    <2> QED
      BY <1>4, <1>5, <2>1 DEF Months
  <1>7. PICK length \in 28..31 : length = MonthLength(y2, m2)
    BY MonthLengths
  <1>8. PICK d2 : d2 = Smaller(d, length)
    OBVIOUS
  <1>9. d2 \in Nat /\ 1 <= d2 /\ d2 <= length /\ d2 <= d /\ (d2 < d => d2 = length)
    BY <1>2, <1>7, <1>8 DEF Smaller, MonthDays
  <1>10. AddMonths(date, n) = IF Representable(y2) THEN Date(y2, m2, d2) ELSE NoDate
    <2>1. index = Year(date) * 12 + Month(date) - 1 + n
      BY <1>1, <1>3
    <2> QED
      BY <1>1, <1>4, <1>5, <1>7, <1>8, <2>1 DEF AddMonths
  <1>11. CASE Representable(y2)
    <2>1. y2 \in Years
      BY <1>11 DEF Representable, Years
    <2>2. IsDay(AddMonths(date, n), y2, m2, d2)
      BY <1>5, <1>7, <1>9, <1>10, <1>11, <2>1, DateMade
    <2>3. (y2 - y) * 12 + m2 - m = n
      BY <1>2, <1>3, <1>6 DEF Years, Months
    <2> QED
      BY <1>7, <1>9, <2>2, <2>3
  <1>12. CASE ~Representable(y2)
    BY <1>10, <1>12
  <1> QED
    BY <1>11, <1>12

LEMMA MonthsLater ==
  ASSUME NEW date \in Nat, IsDate(date), NEW n \in Nat \ {0}
  PROVE  AddMonths(date, n) \in After(date)
  <1>1. PICK y, m, d : IsDay(date, y, m, d)
    BY DateParts
  <1>2. CASE AddMonths(date, n) = NoDate
    BY <1>2 DEF After
  <1>3. CASE AddMonths(date, n) # NoDate
    <2>1. PICK y2, m2, d2 :
             IsDay(AddMonths(date, n), y2, m2, d2) /\ (y2 - y) * 12 + m2 - m = n
      BY <1>1, <1>3, AddMonthsIs
    <2>2. y \in Years /\ m \in Months /\ y2 \in Years /\ m2 \in Months
      BY <1>1, <2>1, DayParts, Zenon
    <2>3. y < y2 \/ (y = y2 /\ m < m2)
      BY <2>1, <2>2 DEF Years, Months
    <2>4. date < AddMonths(date, n)
      BY <1>1, <2>1, <2>3, DateOrder
    <2>5. AddMonths(date, n) \in Nat /\ IsDate(AddMonths(date, n))
      BY <2>1, DayParts
    <2> QED
      BY <2>4, <2>5 DEF After
  <1> QED
    BY <1>2, <1>3

\* A due date is later than its anchor.
LEMMA AddIntervalIs ==
  ASSUME NEW date \in Nat, IsDate(date), NEW i \in Intervals
  PROVE  AddInterval(date, i) \in After(date)
  <1>1. i.value \in Nat \ {0} /\ i.unit \in {"days", "months", "years"}
    BY ProjectionAssumption
  <1>2. CASE i.unit = "days"
    BY <1>1, <1>2, AddDaysIs DEF AddInterval
  <1>3. CASE i.unit = "months"
    BY <1>1, <1>3, MonthsLater DEF AddInterval
  <1>4. CASE i.unit = "years"
    <2>1. 12 * i.value \in Nat \ {0}
      BY <1>1
    <2>2. AddInterval(date, i) = AddMonths(date, 12 * i.value)
      BY <1>4 DEF AddInterval
    <2> QED
      BY <2>1, <2>2, MonthsLater
  <1> QED
    BY <1>1, <1>2, <1>3, <1>4

-----------------------------------------------------------------------------
(* First and last                                                            *)

LEMMA MinIs ==
  ASSUME NEW S \in SUBSET Nat, S # {}
  PROVE  Min(S) \in S /\ \A x \in S : Min(S) <= x
  <1> DEFINE R == {ss \in Nat \X Nat : ss[1] < ss[2]}
  <1>1. IsWellFoundedOn(R, Nat)
    BY NatLessThanWellFounded DEF OpToRel
  <1>2. PICK x \in S : \A y \in S : ~(<<y, x>> \in R)
    BY <1>1, WFMin
  <1>3. ASSUME NEW y \in S, y < x
        PROVE  FALSE
    <2>1. <<y, x>> \in R
      BY <1>3
    <2> QED
      BY <1>2, <2>1
  <1>4. \A y \in S : x <= y
    BY <1>3
  <1> QED
    BY <1>4 DEF Min

LEMMA DatesEnd ==
  \E last \in Nat : \A date \in Nat : IsDate(date) => date <= last
  <1>1. PICK last \in Nat : last = 10000 * 10000
    OBVIOUS
  <1>2. ASSUME NEW date \in Nat, IsDate(date)
        PROVE  date <= last
    <2>1. PICK y, m, d : IsDay(date, y, m, d)
      BY <1>2, DateParts
    <2>2. y \in Years /\ m \in Months /\ d \in MonthDays /\ date = Date(y, m, d)
      BY <2>1, DayParts, Zenon
    <2> QED
      BY <1>1, <2>2 DEF Date, Years, Months, MonthDays
  <1> QED
    BY <1>2

LEMMA MaxIs ==
  ASSUME NEW S \in SUBSET Nat, S # {}, \A x \in S : IsDate(x)
  PROVE  Max(S) \in S /\ \A x \in S : x <= Max(S)
  <1>0. PICK last \in Nat : \A date \in Nat : IsDate(date) => date <= last
    BY DatesEnd
  <1> DEFINE T == {n \in Nat : last - n \in S}
  <1>1. \A x \in S : x \in Nat /\ x <= last
    BY <1>0
  <1>2. ASSUME NEW x \in S
        PROVE  last - x \in T
    <2>1. last - x \in Nat /\ last - (last - x) = x
      BY <1>1
    <2> QED
      BY <2>1
  <1>3. T \in SUBSET Nat /\ T # {}
    BY <1>2
  <1>4. Min(T) \in T /\ \A n \in T : Min(T) <= n
    BY <1>3, MinIs
  <1>5. PICK least \in Nat : least = Min(T) /\ last - least \in S
    BY <1>4
  <1>6. ASSUME NEW x \in S
        PROVE  x <= last - least
    <2>1. least <= last - x
      BY <1>2, <1>4, <1>5
    <2> QED
      BY <1>1, <2>1
  <1>7. \E most \in S : \A x \in S : most >= x
    BY <1>1, <1>5, <1>6
  <1>8. Max(S) \in S /\ \A x \in S : Max(S) >= x
    BY <1>7 DEF Max
  <1> QED
    BY <1>8
-----------------------------------------------------------------------------
(* The schedule and its evidence                                             *)

LEMMA Facts ==
  /\ \A date \in Days : date \in Nat /\ IsDate(date) /\ date # NoDate
  /\ EventDays \subseteq Days /\ BaselineDays \subseteq Days
  /\ BaselineRuntimes \subseteq Nat /\ MaxRuntime \in Nat
  /\ RuntimeInterval \in Nat \ {0} /\ RuntimeInterval # NoRuntime
  /\ \A i \in Intervals : i # NoInterval
  <1>1. \A date \in Days : date \in Nat /\ IsDate(date)
    BY ProjectionAssumption DEF IsDate
  <1>2. \A date \in Days : date # NoDate
    BY <1>1, DateParts, DayParts
  <1>3. \A i \in Intervals : i # NoInterval
    BY ProjectionAssumption DEF NoInterval
  <1> QED
    BY <1>1, <1>2, <1>3, ProjectionAssumption DEF NoRuntime

LEMMA ScheduleParts ==
  ASSUME NEW s \in Schedules
  PROVE  /\ s.calendar # NoInterval => s.calendar \in Intervals
         /\ s.runtime # NoRuntime => s.runtime \in Nat \ {0}
         /\ s.lead # NoLead => s.lead \in Nat \ {0}
         /\ s.baseline = [date |-> s.baseline.date, runtime |-> s.baseline.runtime]
         /\ s.baseline.date \in Days \union {NoDate}
         /\ s.baseline.runtime \in Nat \union {Unknown}
         /\ s.calendar # NoInterval \/ s.runtime # NoRuntime
  <1>1. /\ s.calendar \in Intervals \union {NoInterval}
        /\ s.runtime \in {NoRuntime, RuntimeInterval}
        /\ s.lead \in Leads \union {NoLead}
        /\ s.baseline \in [date: BaselineDays \union {NoDate},
                           runtime: BaselineRuntimes \union {Unknown}]
        /\ s.calendar # NoInterval \/ s.runtime # NoRuntime
    BY DEF Schedules
  <1>2. Leads \subseteq Nat \ {0}
    BY ProjectionAssumption
  <1>3. /\ s.calendar # NoInterval => s.calendar \in Intervals
        /\ s.runtime # NoRuntime => s.runtime \in Nat \ {0}
        /\ s.lead # NoLead => s.lead \in Nat \ {0}
    BY <1>1, <1>2, Facts
  <1>4. /\ s.baseline = [date |-> s.baseline.date, runtime |-> s.baseline.runtime]
        /\ s.baseline.date \in Days \union {NoDate}
        /\ s.baseline.runtime \in Nat \union {Unknown}
    BY <1>1, Facts
  <1> QED
    BY <1>1, <1>3, <1>4

\* Events are as they were recorded.
IInv == TypeOK /\ \A e \in Recorded : events[e].date \in EventDays

LEMMA EventParts ==
  ASSUME IInv, NEW e \in Relevant
  PROVE  /\ e \in Events /\ events[e].date \in Days
         /\ events[e].date \in Nat /\ IsDate(events[e].date)
         /\ events[e].runtime \in Int
         /\ events[e].runtime # Unknown => events[e].runtime \in Nat
  BY Facts DEF IInv, TypeOK, Recorded, Relevant, Runtimes, Unknown

\* The latest date is that of a relevant event and none is later.
LEMMA LatestDateIs ==
  ASSUME IInv, Relevant # {}
  PROVE  /\ LatestDate \in Days /\ LatestDate \in Nat
         /\ \A e \in Relevant : events[e].date <= LatestDate
         /\ LatestGroup # {} /\ LatestGroup \subseteq Relevant
  <1> DEFINE S == {events[e].date : e \in Relevant}
  <1>1. S \in SUBSET Nat /\ S # {} /\ \A x \in S : IsDate(x) /\ x \in Days
    BY EventParts
  <1>2. Max(S) \in S /\ \A x \in S : x <= Max(S)
    BY <1>1, MaxIs
  <1>3. PICK e \in Relevant : Max(S) = events[e].date
    BY <1>2
  <1>4. LatestDate = Max(S)
    BY DEF LatestDate
  <1> HIDE DEF S
  <1>5. e \in LatestGroup
    BY <1>3, <1>4 DEF LatestGroup
  <1>6. \A x \in Relevant : events[x].date <= LatestDate
    BY <1>2, <1>4 DEF S
  <1> QED
    BY <1>1, <1>2, <1>4, <1>5, <1>6 DEF LatestGroup

\* An anchor is never put together from two pieces of evidence.
LEMMA AnchorIs ==
  ASSUME IInv
  PROVE  /\ EffectiveAnchor.calendar \in Days \union {NoDate}
         /\ EffectiveAnchor.runtime \in Nat \union {Unknown}
         /\ \E proof \in Evidence :
               /\ EffectiveAnchor.calendar # NoDate => proof.date = EffectiveAnchor.calendar
               /\ EffectiveAnchor.runtime # Unknown => proof.runtime = EffectiveAnchor.runtime
  <1>1. /\ schedule.baseline.date \in Days \union {NoDate}
        /\ schedule.baseline.runtime \in Nat \union {Unknown}
    BY ScheduleParts DEF IInv, TypeOK
  <1>2. schedule.baseline \in Evidence
    BY DEF Evidence
  <1>3. CASE EffectiveAnchor = InitialAnchor
    BY <1>1, <1>2, <1>3 DEF InitialAnchor
  <1>4. CASE EffectiveAnchor = UnknownAnchor
    BY <1>2, <1>4 DEF UnknownAnchor
  <1>5. CASE EffectiveAnchor = EventGroupAnchor /\ Relevant # {}
    <2>1. PICK e \in Relevant : e = CHOOSE x \in LatestGroup : TRUE
      BY <1>5, LatestDateIs
    <2>2. e \in LatestGroup /\ events[e].date = LatestDate
      BY <1>5, <2>1, LatestDateIs DEF LatestGroup
    <2>3. /\ EffectiveAnchor.calendar = LatestDate
          /\ EffectiveAnchor.runtime \in {events[e].runtime, Unknown}
      BY <1>5, <2>1 DEF EventGroupAnchor
    <2>4. [date |-> events[e].date, runtime |-> events[e].runtime] \in Evidence
      BY <2>1 DEF Evidence
    <2>5. events[e].runtime \in Nat \union {Unknown}
      BY <2>1, EventParts
    <2> QED
      BY <1>5, <2>2, <2>3, <2>4, <2>5, LatestDateIs
  <1> QED
    BY <1>3, <1>4, <1>5 DEF EffectiveAnchor

LEMMA SafeAnchorIs ==
  ASSUME IInv
  PROVE  /\ SafeAnchor.calendar = EffectiveAnchor.calendar
         /\ SafeAnchor.runtime \in {EffectiveAnchor.runtime, Unknown}
         /\ SafeAnchor.runtime \in Nat \union {Unknown}
  <1>1. EffectiveAnchor \in [source: {"initial_anchor", "unknown", "event_group"},
                             calendar: {EffectiveAnchor.calendar},
                             runtime: {EffectiveAnchor.runtime}]
    BY DEF EffectiveAnchor, InitialAnchor, UnknownAnchor, EventGroupAnchor
  <1>2. PICK anchor : anchor = EffectiveAnchor
    OBVIOUS
  <1>3. \/ SafeAnchor = anchor
        \/ SafeAnchor = [anchor EXCEPT !.runtime = Unknown]
    BY <1>2 DEF SafeAnchor
  <1>4. SafeAnchor.calendar = anchor.calendar /\ SafeAnchor.runtime \in {anchor.runtime, Unknown}
    BY <1>1, <1>2, <1>3
  <1> QED
    BY <1>2, <1>4, AnchorIs

-----------------------------------------------------------------------------
(* Conditions                                                                *)

\* The condition of an anchor on a day.
CalendarAt(anchor, interval, day) ==
    LET due == IF anchor = NoDate \/ anchor > day THEN NoDate
               ELSE AddInterval(anchor, interval)
    IN [due |-> due, state |-> IF due = NoDate THEN "unknown" ELSE Compare(day, due)]

LEMMA CompareIs ==
  ASSUME NEW current \in Int, NEW due \in Int
  PROVE  /\ current < due => Compare(current, due) = "ok"
         /\ current = due => Compare(current, due) = "due"
         /\ current > due => Compare(current, due) = "overdue"
         /\ Compare(current, due) \in {"ok", "due", "overdue"}
  <1>1. CASE current < due
    BY <1>1 DEF Compare
  <1>2. CASE current = due
    BY <1>2 DEF Compare
  <1>3. CASE current > due
    BY <1>3 DEF Compare
  <1> QED
    BY <1>1, <1>2, <1>3

LEMMA CalendarAtIs ==
  ASSUME NEW anchor \in Days \union {NoDate}, NEW interval \in Intervals, NEW day \in Days
  PROVE  \/ CalendarAt(anchor, interval, day) = [due |-> NoDate, state |-> "unknown"]
         \/ \E due \in Nat :
              /\ anchor # NoDate /\ anchor <= day
              /\ due = AddInterval(anchor, interval) /\ IsDate(due) /\ anchor < due
              /\ CalendarAt(anchor, interval, day) = [due |-> due, state |-> Compare(day, due)]
  <1>1. CASE anchor = NoDate \/ anchor > day
    BY <1>1 DEF CalendarAt
  <1>2. CASE ~(anchor = NoDate \/ anchor > day)
    <2>1. anchor \in Nat /\ IsDate(anchor) /\ day \in Nat
      BY <1>2, Facts
    <2>2. PICK due : due = AddInterval(anchor, interval)
      OBVIOUS
    <2>3. due \in After(anchor)
      BY <2>1, <2>2, AddIntervalIs
    <2>4. CalendarAt(anchor, interval, day)
            = [due |-> due, state |-> IF due = NoDate THEN "unknown" ELSE Compare(day, due)]
      BY <1>2, <2>2 DEF CalendarAt
    <2>5. CASE due = NoDate
      BY <2>4, <2>5
    <2>6. CASE due # NoDate
      <3>1. due \in Nat /\ IsDate(due) /\ anchor < due
        BY <2>3, <2>6 DEF After
      <3>2. CalendarAt(anchor, interval, day) = [due |-> due, state |-> Compare(day, due)]
        BY <2>4, <2>6
      <3>3. anchor # NoDate /\ anchor <= day
        BY <1>2, <2>1
      <3> QED
        BY <2>2, <3>1, <3>2, <3>3
    <2> QED
      BY <2>5, <2>6
  <1> QED
    BY <1>1, <1>2

LEMMA CalendarNow ==
  IInv /\ schedule.calendar # NoInterval =>
    /\ CalendarCondition = CalendarAt(EffectiveAnchor.calendar, schedule.calendar, today)
    /\ EffectiveAnchor.calendar \in Days \union {NoDate} /\ today \in Days
    /\ schedule.calendar \in Intervals
  <1> SUFFICES ASSUME IInv, schedule.calendar # NoInterval
               PROVE  /\ CalendarCondition
                           = CalendarAt(EffectiveAnchor.calendar, schedule.calendar, today)
                      /\ EffectiveAnchor.calendar \in Days \union {NoDate} /\ today \in Days
                      /\ schedule.calendar \in Intervals
    OBVIOUS
  <1>1. EffectiveAnchor.calendar \in Days \union {NoDate} /\ today \in Days
    BY AnchorIs DEF IInv, TypeOK
  <1>2. schedule.calendar \in Intervals
    BY ScheduleParts DEF IInv, TypeOK
  <1>3. SafeAnchor.calendar = EffectiveAnchor.calendar
    BY SafeAnchorIs
  <1> QED
    BY <1>1, <1>2, <1>3 DEF CalendarCondition, CalendarAt

\* A Runtime condition rests on the anchor's Runtime or is unknown.
LEMMA RuntimeNow ==
  IInv /\ schedule.runtime # NoRuntime =>
    /\ runtime \in Int /\ schedule.runtime \in Nat \ {0}
    /\ \/ RuntimeCondition.state = "unknown"
       \/ /\ SafeAnchor.runtime = EffectiveAnchor.runtime /\ EffectiveAnchor.runtime \in Nat
          /\ EffectiveAnchor.runtime <= runtime
          /\ RuntimeCondition.state
               = Compare(runtime, EffectiveAnchor.runtime + schedule.runtime)
  <1> SUFFICES ASSUME IInv, schedule.runtime # NoRuntime,
                      RuntimeCondition.state # "unknown"
               PROVE  /\ runtime \in Int /\ schedule.runtime \in Nat \ {0}
                      /\ SafeAnchor.runtime = EffectiveAnchor.runtime
                      /\ EffectiveAnchor.runtime \in Nat
                      /\ EffectiveAnchor.runtime <= runtime
                      /\ RuntimeCondition.state
                           = Compare(runtime, EffectiveAnchor.runtime + schedule.runtime)
    <2>1. IInv => runtime \in Int
      BY Facts DEF IInv, TypeOK, Runtimes, Unknown
    <2>2. IInv /\ schedule.runtime # NoRuntime => schedule.runtime \in Nat \ {0}
      BY ScheduleParts DEF IInv, TypeOK
    <2> QED
      BY <2>1, <2>2
  <1>1. runtime \in Int
    BY Facts DEF IInv, TypeOK, Runtimes, Unknown
  <1>2. schedule.runtime \in Nat \ {0}
    BY ScheduleParts DEF IInv, TypeOK
  <1>3. PICK anchor : anchor = SafeAnchor.runtime
    OBVIOUS
  <1>4. anchor \in {EffectiveAnchor.runtime, Unknown} /\ anchor \in Nat \union {Unknown}
    BY <1>3, SafeAnchorIs
  <1>5. RuntimeCondition
          = IF anchor = Unknown THEN [due |-> Unknown, state |-> "unknown"]
            ELSE [due |-> anchor + schedule.runtime,
                  state |-> IF runtime < anchor THEN "unknown"
                            ELSE Compare(runtime, anchor + schedule.runtime)]
    BY <1>3 DEF RuntimeCondition
  <1>6. anchor # Unknown
    BY <1>5
  <1>7. RuntimeCondition.state = IF runtime < anchor THEN "unknown"
                                 ELSE Compare(runtime, anchor + schedule.runtime)
    BY <1>5, <1>6
  <1>8. ~(runtime < anchor)
    BY <1>7
  <1>9. anchor \in Nat /\ anchor <= runtime
    BY <1>1, <1>4, <1>6, <1>8
  <1> QED
    BY <1>1, <1>2, <1>3, <1>4, <1>6, <1>7, <1>8, <1>9

\* The combined state is pressing if a condition is, and ok if every one is.
LEMMA CombinedIs ==
  IInv =>
    /\ Combined \in Pressing <=>
         \/ schedule.calendar # NoInterval /\ CalendarCondition.state \in Pressing
         \/ schedule.runtime # NoRuntime /\ RuntimeCondition.state \in Pressing
    /\ Combined = "ok" =>
         /\ schedule.calendar # NoInterval => CalendarCondition.state = "ok"
         /\ schedule.runtime # NoRuntime => RuntimeCondition.state = "ok"
  <1> SUFFICES ASSUME IInv
               PROVE  /\ Combined \in Pressing <=>
                           \/ schedule.calendar # NoInterval
                              /\ CalendarCondition.state \in Pressing
                           \/ schedule.runtime # NoRuntime
                              /\ RuntimeCondition.state \in Pressing
                      /\ Combined = "ok" =>
                           /\ schedule.calendar # NoInterval
                                => CalendarCondition.state = "ok"
                           /\ schedule.runtime # NoRuntime => RuntimeCondition.state = "ok"
    OBVIOUS
  <1> DEFINE states == {Condition(c).state : c \in States}
             All == {"ok", "due", "overdue", "unknown"}
  <1>1. schedule.calendar # NoInterval => CalendarCondition.state \in All
    <2> SUFFICES ASSUME schedule.calendar # NoInterval
                 PROVE  CalendarCondition.state \in All
      OBVIOUS
    <2>1. /\ CalendarCondition = CalendarAt(EffectiveAnchor.calendar, schedule.calendar, today)
          /\ EffectiveAnchor.calendar \in Days \union {NoDate} /\ today \in Days
          /\ schedule.calendar \in Intervals
      BY CalendarNow
    <2>2. CASE CalendarCondition = [due |-> NoDate, state |-> "unknown"]
      BY <2>2
    <2>3. CASE \E due \in Nat : CalendarCondition = [due |-> due, state |-> Compare(today, due)]
      <3>1. PICK due \in Nat : CalendarCondition = [due |-> due, state |-> Compare(today, due)]
        BY <2>3
      <3>2. Compare(today, due) \in {"ok", "due", "overdue"}
        BY <2>1, Facts, CompareIs
      <3> QED
        BY <3>1, <3>2
    <2> QED
      BY <2>1, <2>2, <2>3, CalendarAtIs
  <1>2. schedule.runtime # NoRuntime => RuntimeCondition.state \in All
    <2> SUFFICES ASSUME schedule.runtime # NoRuntime, RuntimeCondition.state # "unknown"
                 PROVE  RuntimeCondition.state \in All
      OBVIOUS
    <2>1. /\ runtime \in Int /\ schedule.runtime \in Nat \ {0} /\ EffectiveAnchor.runtime \in Nat
          /\ RuntimeCondition.state
               = Compare(runtime, EffectiveAnchor.runtime + schedule.runtime)
      BY RuntimeNow
    <2>2. PICK due \in Int : due = EffectiveAnchor.runtime + schedule.runtime
      BY <2>1
    <2> QED
      BY <2>1, <2>2, CompareIs
  <1>3. /\ "calendar" \in States <=> schedule.calendar # NoInterval
        /\ "runtime" \in States <=> schedule.runtime # NoRuntime
        /\ States \subseteq {"calendar", "runtime"}
    BY DEF States
  <1>4. /\ Condition("calendar") = CalendarCondition
        /\ Condition("runtime") = RuntimeCondition
    BY DEF Condition
  <1>5. states \subseteq All
    BY <1>1, <1>2, <1>3, <1>4
  <1>6. \A v : v \in states <=>
           \/ schedule.calendar # NoInterval /\ CalendarCondition.state = v
           \/ schedule.runtime # NoRuntime /\ RuntimeCondition.state = v
    BY <1>3, <1>4
  <1>7. Combined = IF "overdue" \in states THEN "overdue"
                   ELSE IF "due" \in states THEN "due"
                   ELSE IF "unknown" \in states THEN "unknown"
                   ELSE "ok"
    BY DEF Combined
  <1> HIDE DEF states
  <1>8. Combined \in Pressing <=> "overdue" \in states \/ "due" \in states
    BY <1>7 DEF Pressing
  <1>9. Combined = "ok" => states \subseteq {"ok"}
    BY <1>5, <1>7
  <1> QED
    BY <1>6, <1>8, <1>9 DEF Pressing

-----------------------------------------------------------------------------
(* Theorems                                                                  *)

LEMMA Initially == Init => IInv
  <1> SUFFICES ASSUME Init PROVE IInv
    OBVIOUS
  <1>1. schedule \in Schedules /\ today \in Days
    BY DEF Init
  <1>2. events \in [Events -> [date: EventDays \union {NoDate}, runtime: Runtimes,
                               voided: BOOLEAN]]
    BY DEF Init, NoEvent, Runtimes
  <1>3. runtime \in Runtimes
    <2>1. schedule.baseline.runtime \in BaselineRuntimes \union {Unknown}
      BY <1>1 DEF Schedules
    <2>2. BaselineRuntimes \subseteq 0..MaxRuntime
      BY ProjectionAssumption
    <2> QED
      BY <2>1, <2>2 DEF Init, Runtimes
  <1>4. \A e \in Events : events[e] = NoEvent /\ ~events[e].voided
    BY DEF Init, NoEvent
  <1>5. \A e \in Recorded : events[e].date \in EventDays
    BY <1>4 DEF Recorded
  <1> QED
    BY <1>1, <1>2, <1>3, <1>4, <1>5 DEF IInv, TypeOK

\* Only a new event changes what is recorded.
LEMMA Recording ==
  ASSUME IInv, RecordEvent
  PROVE  \E e \in Events \ Recorded, d \in EventDays, r \in Runtimes :
            /\ d <= today
            /\ events' = [events EXCEPT ![e] = [date |-> d, runtime |-> r, voided |-> FALSE]]
            /\ events'[e] = [date |-> d, runtime |-> r, voided |-> FALSE]
            /\ \A x \in Events : x # e => events'[x] = events[x]
            /\ Recorded' = Recorded \union {e}
            /\ Relevant' = Relevant \union {e}
  <1>1. PICK e \in Events \ Recorded, d \in EventDays, r \in Runtimes :
           /\ d <= today
           /\ events' = [events EXCEPT ![e] = [date |-> d, runtime |-> r, voided |-> FALSE]]
    BY DEF RecordEvent
  <1>2. DOMAIN events = Events
    BY DEF IInv, TypeOK
  <1>3. /\ events'[e] = [date |-> d, runtime |-> r, voided |-> FALSE]
        /\ \A x \in Events : x # e => events'[x] = events[x]
    BY <1>1, <1>2
  <1>4. events'[e] # NoEvent
    <2>1. d # NoDate
      BY Facts
    <2> QED
      BY <1>3, <2>1 DEF NoEvent
  <1>5. Recorded' = Recorded \union {e}
    BY <1>3, <1>4 DEF Recorded
  <1>6. Relevant' = Relevant \union {e}
    <2>1. ~events'[e].voided
      BY <1>3
    <2> QED
      BY <1>3, <1>5, <2>1 DEF Relevant, Recorded
  <1> QED
    BY <1>1, <1>3, <1>5, <1>6

LEMMA Voiding ==
  ASSUME IInv, VoidEvent
  PROVE  \E e \in Relevant :
            /\ events' = [events EXCEPT ![e].voided = TRUE]
            /\ events'[e] = [events[e] EXCEPT !.voided = TRUE]
            /\ \A x \in Events : x # e => events'[x] = events[x]
            /\ Recorded' = Recorded
  <1>1. PICK e \in Relevant : events' = [events EXCEPT ![e].voided = TRUE]
    BY DEF VoidEvent
  <1>2. DOMAIN events = Events /\ e \in Events /\ e \in Recorded
    BY <1>1 DEF IInv, TypeOK, Relevant, Recorded
  <1>3. /\ events'[e] = [events[e] EXCEPT !.voided = TRUE]
        /\ \A x \in Events : x # e => events'[x] = events[x]
    BY <1>1, <1>2
  <1>4. events'[e] # NoEvent
    <2>1. events[e] \in [date: EventDays \union {NoDate}, runtime: Runtimes, voided: BOOLEAN]
      BY <1>2 DEF IInv, TypeOK
    <2>2. events'[e].voided = TRUE
      BY <1>3, <2>1
    <2> QED
      BY <2>2 DEF NoEvent
  <1>5. Recorded' = Recorded
    BY <1>2, <1>3, <1>4 DEF Recorded
  <1> QED
    BY <1>1, <1>3, <1>5

LEMMA Inductive == IInv /\ [Next]_vars => IInv'
  <1> SUFFICES ASSUME IInv, [Next]_vars PROVE IInv'
    OBVIOUS
  <1> DEFINE EventTypes == [date: EventDays \union {NoDate}, runtime: Runtimes, voided: BOOLEAN]
  <1>1. /\ schedule \in Schedules /\ events \in [Events -> EventTypes]
        /\ today \in Days /\ runtime \in Runtimes
        /\ \A e \in Events : events[e].voided => events[e].date # NoDate
        /\ \A e \in Recorded : events[e].date \in EventDays
    BY DEF IInv, TypeOK
  <1>2. ASSUME UNCHANGED <<schedule, events>>, today' \in Days, runtime' \in Runtimes
        PROVE  IInv'
    BY <1>1, <1>2 DEF IInv, TypeOK, Recorded
  <1>3. CASE DaysPass
    <2> DEFINE S == {d \in Days : d > today}
    <2>1. S \in SUBSET Nat /\ S # {}
      BY <1>3, Facts DEF DaysPass
    <2>2. today' \in S
      BY <1>3, <2>1, MinIs DEF DaysPass
    <2> QED
      BY <1>1, <1>2, <1>3, <2>2 DEF DaysPass
  <1>4. CASE ClockSetBack
    <2> DEFINE S == {d \in Days : d < today}
    <2>1. S \in SUBSET Nat /\ S # {} /\ \A x \in S : IsDate(x)
      BY <1>4, Facts DEF ClockSetBack
    <2>2. today' \in S
      BY <1>4, <2>1, MaxIs DEF ClockSetBack
    <2> QED
      BY <1>1, <1>2, <1>4, <2>2 DEF ClockSetBack
  <1>5. CASE RuntimeGrows
    <2>1. runtime' \in Runtimes
      BY <1>1, <1>5, Facts DEF RuntimeGrows, Runtimes, Unknown
    <2> QED
      BY <1>1, <1>2, <1>5, <2>1 DEF RuntimeGrows
  <1>6. CASE RecordEvent
    <2>1. PICK e \in Events \ Recorded, d \in EventDays, r \in Runtimes :
             /\ events' = [events EXCEPT ![e] = [date |-> d, runtime |-> r, voided |-> FALSE]]
             /\ events'[e] = [date |-> d, runtime |-> r, voided |-> FALSE]
             /\ \A x \in Events : x # e => events'[x] = events[x]
             /\ Recorded' = Recorded \union {e}
      BY <1>6, Recording
    <2>2. events' \in [Events -> EventTypes]
      <3>1. [date |-> d, runtime |-> r, voided |-> FALSE] \in EventTypes
        OBVIOUS
      <3> QED
        BY <1>1, <2>1, <3>1
    <2>3. \A x \in Events : events'[x].voided => events'[x].date # NoDate
      BY <1>1, <2>1
    <2>4. \A x \in Recorded' : events'[x].date \in EventDays
      BY <1>1, <2>1 DEF Recorded
    <2>5. UNCHANGED <<schedule, today, runtime>>
      BY <1>6 DEF RecordEvent
    <2> QED
      BY <1>1, <2>2, <2>3, <2>4, <2>5 DEF IInv, TypeOK
  <1>7. CASE VoidEvent
    <2>1. PICK e \in Relevant :
             /\ events' = [events EXCEPT ![e].voided = TRUE]
             /\ events'[e] = [events[e] EXCEPT !.voided = TRUE]
             /\ \A x \in Events : x # e => events'[x] = events[x]
             /\ Recorded' = Recorded
      BY <1>7, Voiding
    <2>2. e \in Events /\ e \in Recorded /\ events[e] \in EventTypes
      BY <1>1, <2>1 DEF Relevant, Recorded
    <2>3. [events[e] EXCEPT !.voided = TRUE] \in EventTypes /\ events'[e].date = events[e].date
      BY <2>1, <2>2
    <2>4. events' \in [Events -> EventTypes]
      BY <1>1, <2>1, <2>2, <2>3
    <2>5. events[e].date \in EventDays /\ events[e].date # NoDate
      BY <1>1, <2>2, Facts
    <2>6. \A x \in Events : events'[x].voided => events'[x].date # NoDate
      BY <1>1, <2>1, <2>3, <2>5
    <2>7. \A x \in Recorded' : events'[x].date \in EventDays
      BY <1>1, <2>1, <2>3 DEF Recorded
    <2>8. UNCHANGED <<schedule, today, runtime>>
      BY <1>7 DEF VoidEvent
    <2> QED
      BY <1>1, <2>4, <2>6, <2>7, <2>8 DEF IInv, TypeOK
  <1>8. CASE UNCHANGED vars
    BY <1>1, <1>2, <1>8 DEF vars
  <1> QED
    BY <1>3, <1>4, <1>5, <1>6, <1>7, <1>8 DEF Next

\* The inductive invariant: no reachable state leaves the types of its records.
THEOREM Invariant == Spec => []IInv
  <1> QED
    BY Initially, Inductive, PTL DEF Spec

\* Whatever is recorded, voided or measured, the records stay of the types the
\* projection is defined on: a date that is none of the calendar never appears.
THEOREM TypeCorrect == Spec => []TypeOK
  <1>1. IInv => TypeOK
    BY DEF IInv
  <1> QED
    BY Invariant, <1>1, PTL

\* "ok" is shown only if one single piece of evidence proves it for every interval
\* of the schedule (maintenance_projection.py, project_schedule).
THEOREM OkIsProvenHolds == Spec => []OkIsProven
  <1>1. IInv => OkIsProven
    <2> SUFFICES ASSUME IInv, Combined = "ok"
                 PROVE  \E proof \in Evidence :
                          /\ schedule.calendar # NoInterval =>
                               /\ proof.date # NoDate
                               /\ today \in proof.date
                                              ..(AddInterval(proof.date, schedule.calendar) - 1)
                          /\ schedule.runtime # NoRuntime =>
                               /\ proof.runtime # Unknown
                               /\ runtime \in proof.runtime
                                                ..(proof.runtime + schedule.runtime - 1)
      BY DEF OkIsProven
    <2>1. PICK proof \in Evidence :
             /\ EffectiveAnchor.calendar # NoDate => proof.date = EffectiveAnchor.calendar
             /\ EffectiveAnchor.runtime # Unknown => proof.runtime = EffectiveAnchor.runtime
      BY AnchorIs
    <2>2. ASSUME schedule.calendar # NoInterval
          PROVE  /\ proof.date # NoDate
                 /\ today \in proof.date..(AddInterval(proof.date, schedule.calendar) - 1)
      <3>1. CalendarCondition.state = "ok"
        BY <2>2, CombinedIs
      <3>2. /\ CalendarCondition
                 = CalendarAt(EffectiveAnchor.calendar, schedule.calendar, today)
            /\ EffectiveAnchor.calendar \in Days \union {NoDate} /\ today \in Days
            /\ schedule.calendar \in Intervals
        BY <2>2, CalendarNow
      <3>3. PICK due \in Nat :
               /\ EffectiveAnchor.calendar # NoDate /\ EffectiveAnchor.calendar <= today
               /\ due = AddInterval(EffectiveAnchor.calendar, schedule.calendar)
               /\ CalendarCondition = [due |-> due, state |-> Compare(today, due)]
        BY <3>1, <3>2, CalendarAtIs
      <3>4. today < due
        BY <3>1, <3>2, <3>3, Facts, CompareIs
      <3>5. proof.date = EffectiveAnchor.calendar /\ proof.date \in Nat /\ today \in Nat
        BY <2>1, <3>2, <3>3, Facts
      <3>6. today \in proof.date..(due - 1)
        BY <3>3, <3>4, <3>5
      <3> QED
        BY <3>3, <3>5, <3>6
    <2>3. ASSUME schedule.runtime # NoRuntime
          PROVE  /\ proof.runtime # Unknown
                 /\ runtime \in proof.runtime..(proof.runtime + schedule.runtime - 1)
      <3>1. RuntimeCondition.state = "ok"
        BY <2>3, CombinedIs
      <3>2. /\ runtime \in Int /\ schedule.runtime \in Nat \ {0}
            /\ EffectiveAnchor.runtime \in Nat /\ EffectiveAnchor.runtime <= runtime
            /\ RuntimeCondition.state
                 = Compare(runtime, EffectiveAnchor.runtime + schedule.runtime)
        BY <2>3, <3>1, RuntimeNow
      <3>3. PICK due \in Int : due = EffectiveAnchor.runtime + schedule.runtime
        BY <3>2
      <3>4. runtime < due
        BY <3>1, <3>2, <3>3, CompareIs
      <3>5. proof.runtime = EffectiveAnchor.runtime /\ proof.runtime # Unknown
        BY <2>1, <3>2 DEF Unknown
      <3> QED
        BY <3>2, <3>3, <3>4, <3>5
    <2> QED
      BY <2>1, <2>2, <2>3
  <1> QED
    BY Invariant, <1>1, PTL

\* Months and years are counted from the anchor, a shorter month ends the count on
\* its last day (add_calendar_interval).
THEOREM DueInTheRightMonthHolds == Spec => []DueInTheRightMonth
  <1>1. IInv => DueInTheRightMonth
    <2> SUFFICES ASSUME IInv, schedule.calendar.unit \in {"months", "years"},
                        CalendarCondition.due # NoDate,
                        NEW anchor, anchor = SafeAnchor.calendar,
                        NEW due, due = CalendarCondition.due,
                        NEW months,
                        months = IF schedule.calendar.unit = "years"
                                 THEN 12 * schedule.calendar.value
                                 ELSE schedule.calendar.value
                 PROVE  /\ IsDate(due)
                        /\ (Year(due) - Year(anchor)) * 12 + Month(due) - Month(anchor) = months
                        /\ Day(due) < Day(anchor) => Month(NextDay(due)) # Month(due)
                        /\ Day(due) <= Day(anchor)
      BY DEF DueInTheRightMonth
    <2>1. schedule.calendar # NoInterval
      BY DEF NoInterval
    <2>2. /\ CalendarCondition
               = CalendarAt(EffectiveAnchor.calendar, schedule.calendar, today)
          /\ EffectiveAnchor.calendar \in Days \union {NoDate} /\ today \in Days
          /\ schedule.calendar \in Intervals
      BY <2>1, CalendarNow
    <2>3. anchor = EffectiveAnchor.calendar
      BY SafeAnchorIs
    <2>4. /\ anchor # NoDate /\ due = AddInterval(anchor, schedule.calendar)
      BY <2>2, <2>3, CalendarAtIs
    <2>5. anchor \in Nat /\ IsDate(anchor)
      BY <2>2, <2>3, <2>4, Facts
    <2>6. schedule.calendar.value \in Nat \ {0}
      BY <2>2, ProjectionAssumption
    <2>7. months \in Nat \ {0}
      BY <2>6
    <2>8. due = AddMonths(anchor, months)
      <3>1. CASE schedule.calendar.unit = "months"
        BY <2>4, <3>1 DEF AddInterval
      <3>2. CASE schedule.calendar.unit = "years"
        BY <2>4, <3>2 DEF AddInterval
      <3> QED
        BY <3>1, <3>2
    <2>9. PICK y, m, d : IsDay(anchor, y, m, d)
      BY <2>5, DateParts
    <2>10. PICK y2, m2, d2 :
              /\ IsDay(due, y2, m2, d2)
              /\ (y2 - y) * 12 + m2 - m = months
              /\ d2 <= d /\ (d2 < d => d2 = MonthLength(y2, m2))
      BY <2>7, <2>8, <2>9, AddMonthsIs
    <2>11. /\ y = Year(anchor) /\ m = Month(anchor) /\ d = Day(anchor)
           /\ y2 = Year(due) /\ m2 = Month(due) /\ d2 = Day(due)
           /\ due # NoDate /\ IsDate(due) /\ y2 \in Years /\ m2 \in Months
      BY <2>9, <2>10, DayParts, Zenon
    <2>12. ASSUME d2 < d
           PROVE  Month(NextDay(due)) # m2
      <3>1. PICK length \in 28..31 : length = MonthLength(y2, m2)
        BY MonthLengths
      <3>2. d2 = length
        BY <2>10, <2>12, <3>1
      <3>3. NextDay(due) = IF m2 < 12 THEN Date(y2, m2 + 1, 1)
                           ELSE IF Representable(y2 + 1) THEN Date(y2 + 1, 1, 1)
                           ELSE NoDate
        BY <2>11, <3>1, <3>2 DEF NextDay
      <3>4. CASE m2 < 12
        <4>1. m2 + 1 \in Months /\ 1 <= MonthLength(y2, m2 + 1)
          BY <2>11, <3>4, MonthLengths DEF Months
        <4>2. IsDay(NextDay(due), y2, m2 + 1, 1)
          BY <2>11, <3>3, <3>4, <4>1, DateMade
        <4>3. Month(NextDay(due)) = m2 + 1
          BY <4>2, DayParts
        <4> QED
          BY <2>11, <4>3 DEF Months
      <3>5. CASE ~(m2 < 12) /\ Representable(y2 + 1)
        <4>1. y2 + 1 \in Years /\ 1 \in Months /\ 1 <= MonthLength(y2 + 1, 1) /\ m2 = 12
          BY <2>11, <3>5, MonthLengths DEF Representable, Years, Months
        <4>2. IsDay(NextDay(due), y2 + 1, 1, 1)
          BY <3>3, <3>5, <4>1, DateMade
        <4>3. Month(NextDay(due)) = 1
          BY <4>2, DayParts
        <4> QED
          BY <4>1, <4>3
      <3>6. CASE ~(m2 < 12) /\ ~Representable(y2 + 1)
        <4>1. Month(NoDate) = 0
          BY DEF Month, NoDate
        <4> QED
          BY <2>11, <3>3, <3>6, <4>1 DEF Months
      <3> QED
        BY <3>4, <3>5, <3>6
    <2> QED
      BY <2>10, <2>11, <2>12
  <1> QED
    BY Invariant, <1>1, PTL

LEMMA SameAnchor ==
  UNCHANGED <<schedule, events>> => EffectiveAnchor' = EffectiveAnchor
  BY DEF EffectiveAnchor, InitialAnchor, UnknownAnchor, EventGroupAnchor, GroupAfterBaseline,
     GroupBeforeBaseline, LatestGroup, LatestDate, Relevant, Recorded

\* The calendar condition before and after a step.
LEMMA CalendarStep ==
  ASSUME IInv, IInv', UNCHANGED <<schedule, events>>, schedule.calendar # NoInterval
  PROVE  \E anchor \in Days \union {NoDate}, interval \in Intervals :
            /\ CalendarCondition = CalendarAt(anchor, interval, today)
            /\ CalendarCondition' = CalendarAt(anchor, interval, today')
            /\ today \in Days /\ today' \in Days
  <1>1. (IInv /\ schedule.calendar # NoInterval =>
           /\ CalendarCondition = CalendarAt(EffectiveAnchor.calendar, schedule.calendar, today)
           /\ EffectiveAnchor.calendar \in Days \union {NoDate} /\ today \in Days
           /\ schedule.calendar \in Intervals)'
    BY CalendarNow, PTL
  <1>2. EffectiveAnchor' = EffectiveAnchor
    BY SameAnchor
  <1> QED
    BY <1>1, <1>2, CalendarNow

\* An alarm of the calendar stays while days pass.
LEMMA CalendarSticks ==
  ASSUME NEW anchor \in Days \union {NoDate}, NEW interval \in Intervals,
         NEW day \in Days, NEW later \in Days, day <= later,
         CalendarAt(anchor, interval, day).state \in Pressing
  PROVE  CalendarAt(anchor, interval, later).state \in Pressing
  <1>1. PICK due \in Nat :
           /\ anchor # NoDate /\ anchor <= day
           /\ due = AddInterval(anchor, interval) /\ IsDate(due)
           /\ CalendarAt(anchor, interval, day) = [due |-> due, state |-> Compare(day, due)]
    BY CalendarAtIs DEF Pressing
  <1>2. anchor \in Nat /\ day \in Nat /\ later \in Nat
    BY <1>1, Facts
  <1>3. due <= day
    BY <1>1, <1>2, CompareIs DEF Pressing
  <1>4. ~(anchor = NoDate \/ anchor > later) /\ due # NoDate
    BY <1>1, <1>2, DateParts, DayParts
  <1>5. CalendarAt(anchor, interval, later) = [due |-> due, state |-> Compare(later, due)]
    BY <1>1, <1>4 DEF CalendarAt
  <1>6. due <= later
    BY <1>2, <1>3
  <1> QED
    BY <1>2, <1>5, <1>6, CompareIs DEF Pressing

\* An alarm of the Runtime stays while it grows.
LEMMA RuntimeSticks ==
  ASSUME IInv, IInv', UNCHANGED <<schedule, events>>, runtime <= runtime',
         schedule.runtime # NoRuntime, RuntimeCondition.state \in Pressing
  PROVE  RuntimeCondition'.state \in Pressing
  <1>1. PICK anchor : anchor = EffectiveAnchor
    OBVIOUS
  <1>2. /\ runtime \in Int /\ schedule.runtime \in Nat \ {0}
        /\ SafeAnchor.runtime = anchor.runtime /\ anchor.runtime \in Nat
        /\ anchor.runtime <= runtime
        /\ RuntimeCondition.state = Compare(runtime, anchor.runtime + schedule.runtime)
    BY <1>1, RuntimeNow DEF Pressing
  <1>3. PICK due \in Int : due = anchor.runtime + schedule.runtime
    BY <1>2
  <1>4. due <= runtime
    BY <1>2, <1>3, CompareIs DEF Pressing
  <1>5. runtime' \in Int
    <2>1. runtime' \in Runtimes
      BY DEF IInv, TypeOK
    <2> QED
      BY <2>1, Facts DEF Runtimes, Unknown
  <1>6. anchor.runtime # Unknown /\ ~(anchor.runtime > runtime') /\ due <= runtime'
    BY <1>2, <1>4, <1>5 DEF Unknown
  <1>7. ~Contradicted(anchor)
    <2>1. SUFFICES ASSUME Contradicted(anchor) PROVE FALSE
      OBVIOUS
    <2>2. SafeAnchor = [anchor EXCEPT !.runtime = Unknown]
      BY <1>1, <1>6, <2>1 DEF SafeAnchor
    <2>3. anchor \in [source: {"initial_anchor", "unknown", "event_group"},
                      calendar: {anchor.calendar}, runtime: {anchor.runtime}]
      BY <1>1 DEF EffectiveAnchor, InitialAnchor, UnknownAnchor, EventGroupAnchor
    <2>4. SafeAnchor.runtime = Unknown
      BY <2>2, <2>3
    <2> QED
      BY <1>2, <1>6, <2>4
  <1>8. EffectiveAnchor' = anchor
    BY <1>1, SameAnchor
  <1>9. ~Contradicted(anchor)'
    BY <1>7 DEF Contradicted, Relevant, Recorded
  <1>10. SafeAnchor' = anchor
    BY <1>6, <1>8, <1>9 DEF SafeAnchor, Contradicted
  <1>11. ~(runtime' < anchor.runtime)
    BY <1>2, <1>5, <1>6
  <1>12. RuntimeCondition'.state = Compare(runtime', due)
    BY <1>3, <1>6, <1>10, <1>11 DEF RuntimeCondition
  <1> QED
    BY <1>5, <1>6, <1>12, CompareIs DEF Pressing

\* Only a person's action ends an alarm (combine_states, calendar_condition,
\* runtime_condition): neither time nor Runtime does.
THEOREM AlarmIsStickyHolds == Spec => AlarmIsSticky
  <1>1. ASSUME IInv, IInv', today' >= today, runtime' >= runtime,
               UNCHANGED <<schedule, events>>, Combined \in Pressing
        PROVE  Combined' \in Pressing
    <2>1. (IInv =>
             /\ Combined \in Pressing <=>
                  \/ schedule.calendar # NoInterval /\ CalendarCondition.state \in Pressing
                  \/ schedule.runtime # NoRuntime /\ RuntimeCondition.state \in Pressing
             /\ Combined = "ok" =>
                  /\ schedule.calendar # NoInterval => CalendarCondition.state = "ok"
                  /\ schedule.runtime # NoRuntime => RuntimeCondition.state = "ok")'
      BY CombinedIs, PTL
    <2>2. CASE schedule.calendar # NoInterval /\ CalendarCondition.state \in Pressing
      <3>1. PICK anchor \in Days \union {NoDate}, interval \in Intervals :
               /\ CalendarCondition = CalendarAt(anchor, interval, today)
               /\ CalendarCondition' = CalendarAt(anchor, interval, today')
               /\ today \in Days /\ today' \in Days
        BY <1>1, <2>2, CalendarStep
      <3>2. today <= today'
        BY <1>1, <3>1, Facts
      <3>3. CalendarCondition'.state \in Pressing
        BY <2>2, <3>1, <3>2, CalendarSticks
      <3> QED
        BY <1>1, <2>1, <2>2, <3>3
    <2>3. CASE schedule.runtime # NoRuntime /\ RuntimeCondition.state \in Pressing
      <3>1. runtime <= runtime'
        <4>1. runtime \in Runtimes /\ runtime' \in Runtimes
          BY <1>1 DEF IInv, TypeOK
        <4> QED
          BY <1>1, <4>1, Facts DEF Runtimes, Unknown
      <3>2. RuntimeCondition'.state \in Pressing
        BY <1>1, <2>3, <3>1, RuntimeSticks
      <3> QED
        BY <1>1, <2>1, <2>3, <3>2
    <2> QED
      BY <1>1, <2>2, <2>3, CombinedIs
  <1>2. IInv /\ IInv' /\ [Next]_vars =>
          [/\ today' >= today /\ runtime' >= runtime
           /\ UNCHANGED <<schedule, events>> /\ Combined \in Pressing
           => Combined' \in Pressing]_vars
    BY <1>1
  <1> QED
    BY Invariant, <1>2, PTL DEF Spec, AlarmIsSticky

\* From one day to the next nothing but the day changes.
LEMMA Midnight ==
  ASSUME IInv, IInv', [Next]_vars, NextDay(today) = today'
  PROVE  /\ UNCHANGED <<schedule, events>>
         /\ today \in Nat /\ IsDate(today) /\ today' \in Nat /\ today < today'
         /\ \A other \in Nat : IsDate(other) /\ other < today' => other <= today
  <1>1. today \in Nat /\ IsDate(today) /\ today' \in Nat /\ today' # NoDate
    BY Facts DEF IInv, TypeOK
  <1>2. today < today' /\ \A other \in Nat : IsDate(other) /\ other < today' => other <= today
    BY <1>1, NextDayIs
  <1>3. ~ClockSetBack
    <2>1. SUFFICES ASSUME ClockSetBack PROVE FALSE
      OBVIOUS
    <2> DEFINE S == {d \in Days : d < today}
    <2>2. S \in SUBSET Nat /\ S # {} /\ \A x \in S : IsDate(x)
      BY <2>1, Facts DEF ClockSetBack
    <2>3. today' \in S
      BY <2>1, <2>2, MaxIs DEF ClockSetBack
    <2> QED
      BY <1>1, <1>2, <2>3
  <1>4. today' # today
    BY <1>1, <1>2
  <1>5. DaysPass
    BY <1>3, <1>4 DEF Next, RuntimeGrows, RecordEvent, VoidEvent, vars
  <1> QED
    BY <1>1, <1>2, <1>5 DEF DaysPass

\* Due comes a day before overdue, and the reminder a day before due
\* (calendar_condition, preparation_state).
THEOREM DueIsAnnouncedHolds == Spec => DueIsAnnounced
  <1>1. ASSUME IInv, IInv', [Next]_vars, NextDay(today) = today',
               schedule.calendar # NoInterval
        PROVE  /\ CalendarCondition'.state = "overdue" => CalendarCondition.state \in Pressing
               /\ (/\ CalendarCondition'.state = "due" /\ schedule.lead # NoLead
                   /\ Combined \notin Pressing)
                  => Preparation = "active"
    <2>1. /\ UNCHANGED <<schedule, events>>
          /\ today \in Nat /\ today' \in Nat /\ today < today'
          /\ \A other \in Nat : IsDate(other) /\ other < today' => other <= today
      BY <1>1, Midnight
    <2>2. PICK anchor \in Days \union {NoDate}, interval \in Intervals :
             /\ CalendarCondition = CalendarAt(anchor, interval, today)
             /\ CalendarCondition' = CalendarAt(anchor, interval, today')
             /\ today \in Days /\ today' \in Days
      BY <1>1, <2>1, CalendarStep
    <2>3. ASSUME CalendarCondition'.state \in Pressing
          PROVE  \E due \in Nat :
                    /\ IsDate(due) /\ due # NoDate /\ due <= today'
                    /\ CalendarCondition'.state = Compare(today', due)
                    /\ CalendarCondition = [due |-> due, state |-> Compare(today, due)]
      <3>1. PICK due \in Nat :
               /\ anchor # NoDate /\ anchor <= today'
               /\ due = AddInterval(anchor, interval) /\ IsDate(due) /\ anchor < due
               /\ CalendarCondition' = [due |-> due, state |-> Compare(today', due)]
        BY <2>2, <2>3, CalendarAtIs DEF Pressing
      <3>2. anchor \in Nat /\ IsDate(anchor)
        BY <3>1, Facts
      <3>3. due <= today'
        BY <2>1, <2>3, <3>1, CompareIs DEF Pressing
      <3>4. anchor <= today
        BY <2>1, <3>1, <3>2, <3>3
      <3>5. due # NoDate
        BY <3>1, DateParts, DayParts
      <3>6. ~(anchor = NoDate \/ anchor > today)
        BY <2>1, <3>1, <3>2, <3>4
      <3>7. CalendarCondition = [due |-> due, state |-> Compare(today, due)]
        BY <2>2, <3>1, <3>5, <3>6 DEF CalendarAt
      <3> QED
        BY <3>1, <3>3, <3>5, <3>7
    <2>4. ASSUME CalendarCondition'.state = "overdue"
          PROVE  CalendarCondition.state \in Pressing
      <3>1. PICK due \in Nat :
               /\ IsDate(due) /\ due <= today'
               /\ CalendarCondition'.state = Compare(today', due)
               /\ CalendarCondition = [due |-> due, state |-> Compare(today, due)]
        BY <2>3, <2>4 DEF Pressing
      <3>2. due < today'
        BY <2>1, <2>4, <3>1, CompareIs
      <3>3. due <= today
        BY <2>1, <3>1, <3>2
      <3> QED
        BY <2>1, <3>1, <3>3, CompareIs DEF Pressing
    <2>5. ASSUME CalendarCondition'.state = "due", schedule.lead # NoLead,
                 Combined \notin Pressing
          PROVE  Preparation = "active"
      <3>1. PICK due \in Nat :
               /\ IsDate(due) /\ due # NoDate /\ due <= today'
               /\ CalendarCondition = [due |-> due, state |-> Compare(today, due)]
        BY <2>3, <2>5 DEF Pressing
      <3>2. schedule.lead \in Nat \ {0}
        BY <1>1, <2>5, ScheduleParts DEF IInv, TypeOK
      <3>3. PICK window : window = SubtractDays(due, schedule.lead)
        OBVIOUS
      <3>4. window \in Before(due)
        BY <3>1, <3>2, <3>3, SubtractDaysIs
      <3>5. window <= today
        <4>1. CASE window = NoDate
          BY <2>1, <4>1 DEF NoDate
        <4>2. CASE window # NoDate
          BY <2>1, <3>1, <3>4, <4>2 DEF Before
        <4> QED
          BY <4>1, <4>2
      <3>6. CalendarCondition.due = due
        BY <3>1
      <3> QED
        BY <2>5, <3>1, <3>3, <3>5, <3>6 DEF Preparation
    <2> QED
      BY <2>4, <2>5
  <1>2. IInv /\ IInv' /\ [Next]_vars =>
          [NextDay(today) = today' /\ schedule.calendar # NoInterval =>
             /\ CalendarCondition'.state = "overdue" => CalendarCondition.state \in Pressing
             /\ (/\ CalendarCondition'.state = "due" /\ schedule.lead # NoLead
                 /\ Combined \notin Pressing)
                => Preparation = "active"]_vars
    BY <1>1
  <1> QED
    BY Invariant, <1>2, PTL DEF Spec, DueIsAnnounced

\* The calendar date of an anchor, from what there is to order.
LEMMA AnchorDate ==
  IInv => EffectiveAnchor.calendar =
            IF Relevant = {} THEN schedule.baseline.date
            ELSE IF schedule.baseline = NoBaseline THEN LatestDate
            ELSE IF schedule.baseline.date # NoDate
            THEN IF LatestDate >= schedule.baseline.date THEN LatestDate
                 ELSE schedule.baseline.date
            ELSE IF GroupAfterBaseline THEN LatestDate
            ELSE NoDate
  BY DEF EffectiveAnchor, InitialAnchor, UnknownAnchor, EventGroupAnchor, NoBaseline

LEMMA LatestDateNow ==
  IInv =>
    /\ Relevant # {} =>
         /\ LatestDate \in Nat
         /\ \A x \in Relevant : events[x].date <= LatestDate
         /\ \E x \in Relevant : events[x].date = LatestDate
    /\ SafeAnchor.calendar = EffectiveAnchor.calendar
  BY LatestDateIs, SafeAnchorIs DEF LatestGroup

\* A backdated event never moves the anchor back (effective_anchor).
THEOREM RecordingNeverRegressesHolds == Spec => RecordingNeverRegresses
  <1>1. ASSUME IInv, IInv', [Next]_vars, Recorded # Recorded'
        PROVE  \/ SafeAnchor'.calendar >= SafeAnchor.calendar
               \/ /\ SafeAnchor'.calendar = NoDate
                  /\ schedule.baseline # NoBaseline /\ schedule.baseline.date = NoDate
    <2>1. RecordEvent
      <3>1. ~VoidEvent
        BY <1>1, Voiding
      <3>2. ~UNCHANGED events
        BY <1>1 DEF Recorded
      <3> QED
        BY <1>1, <3>1, <3>2 DEF Next, DaysPass, ClockSetBack, RuntimeGrows, vars
    <2>2. PICK e \in Events \ Recorded, d \in EventDays, r \in Runtimes :
             /\ events'[e] = [date |-> d, runtime |-> r, voided |-> FALSE]
             /\ \A x \in Events : x # e => events'[x] = events[x]
             /\ Relevant' = Relevant \union {e}
      BY <1>1, <2>1, Recording
    <2>3. schedule' = schedule
      BY <2>1 DEF RecordEvent
    <2>4. (IInv =>
             /\ Relevant # {} =>
                  /\ LatestDate \in Nat
                  /\ \A x \in Relevant : events[x].date <= LatestDate
                  /\ \E x \in Relevant : events[x].date = LatestDate
             /\ SafeAnchor.calendar = EffectiveAnchor.calendar)'
      BY LatestDateNow, PTL
    <2>5. (IInv => EffectiveAnchor.calendar =
             IF Relevant = {} THEN schedule.baseline.date
             ELSE IF schedule.baseline = NoBaseline THEN LatestDate
             ELSE IF schedule.baseline.date # NoDate
             THEN IF LatestDate >= schedule.baseline.date THEN LatestDate
                  ELSE schedule.baseline.date
             ELSE IF GroupAfterBaseline THEN LatestDate
             ELSE NoDate)'
      BY AnchorDate, PTL
    <2>6. PICK latest : latest = LatestDate'
      OBVIOUS
    <2>7. /\ Relevant' # {} /\ latest \in Nat
          /\ \A x \in Relevant' : events'[x].date <= latest
      BY <1>1, <2>2, <2>4, <2>6
    <2>8. Relevant # {} => LatestDate \in Nat /\ LatestDate <= latest
      <3>1. SUFFICES ASSUME Relevant # {} PROVE LatestDate \in Nat /\ LatestDate <= latest
        OBVIOUS
      <3>2. PICK x \in Relevant : events[x].date = LatestDate /\ LatestDate \in Nat
        BY <1>1, <3>1, LatestDateNow
      <3>3. events'[x] = events[x] /\ x \in Relevant'
        BY <2>2, <3>2 DEF Relevant, Recorded
      <3> QED
        BY <2>7, <3>2, <3>3
    <2>9. PICK baseline : baseline = schedule.baseline
      OBVIOUS
    <2>10. baseline.date \in Nat
      <3>1. baseline.date \in Days \union {NoDate}
        BY <1>1, <2>9, ScheduleParts DEF IInv, TypeOK
      <3> QED
        BY <3>1, Facts DEF NoDate
    <2>11. PICK old, new : old = EffectiveAnchor.calendar /\ new = EffectiveAnchor'.calendar
      OBVIOUS
    <2>12. old = IF Relevant = {} THEN baseline.date
                 ELSE IF baseline = NoBaseline THEN LatestDate
                 ELSE IF baseline.date # NoDate
                 THEN IF LatestDate >= baseline.date THEN LatestDate ELSE baseline.date
                 ELSE IF GroupAfterBaseline THEN LatestDate
                 ELSE NoDate
      BY <1>1, <2>9, <2>11, AnchorDate
    <2>13. new = IF baseline = NoBaseline THEN latest
                 ELSE IF baseline.date # NoDate
                 THEN IF latest >= baseline.date THEN latest ELSE baseline.date
                 ELSE IF GroupAfterBaseline' THEN latest
                 ELSE NoDate
      BY <1>1, <2>3, <2>5, <2>6, <2>7, <2>9, <2>11
    <2>14. new >= old \/ (new = NoDate /\ baseline # NoBaseline /\ baseline.date = NoDate)
      <3>1. CASE baseline = NoBaseline
        <4>1. baseline.date = NoDate /\ new = latest
          BY <2>13, <3>1 DEF NoBaseline
        <4>2. old = IF Relevant = {} THEN baseline.date ELSE LatestDate
          BY <2>12, <3>1
        <4> QED
          BY <2>7, <2>8, <4>1, <4>2 DEF NoDate
      <3>2. CASE baseline # NoBaseline /\ baseline.date # NoDate
        <4>1. new = IF latest >= baseline.date THEN latest ELSE baseline.date
          BY <2>13, <3>2
        <4>2. old = IF Relevant = {} THEN baseline.date
                    ELSE IF LatestDate >= baseline.date THEN LatestDate ELSE baseline.date
          BY <2>12, <3>2
        <4> QED
          BY <2>7, <2>8, <2>10, <4>1, <4>2
      <3>3. CASE baseline # NoBaseline /\ baseline.date = NoDate
        <4>1. new = latest \/ new = NoDate
          BY <2>13, <3>3
        <4>2. old = NoDate \/ (Relevant # {} /\ old = LatestDate)
          BY <2>12, <3>3
        <4> QED
          BY <2>7, <2>8, <3>3, <4>1, <4>2 DEF NoDate
      <3> QED
        BY <3>1, <3>2, <3>3
    <2>15. SafeAnchor.calendar = old /\ SafeAnchor'.calendar = new
      BY <1>1, <2>4, <2>11, LatestDateNow
    <2> QED
      BY <2>9, <2>14, <2>15
  <1>2. IInv /\ IInv' /\ [Next]_vars =>
          [Recorded # Recorded' =>
             \/ SafeAnchor'.calendar >= SafeAnchor.calendar
             \/ /\ SafeAnchor'.calendar = NoDate
                /\ schedule.baseline # NoBaseline /\ schedule.baseline.date = NoDate]_vars
    BY <1>1
  <1> QED
    BY Invariant, <1>2, PTL DEF Spec, RecordingNeverRegresses
=============================================================================
