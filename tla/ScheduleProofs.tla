--------------------------- MODULE ScheduleProofs ---------------------------
(***************************************************************************)
(* Proofs about the gate of Schedule.  The two crons are only a schedule   *)
(* if the gate tells the two hours of a Friday apart on every Friday: both *)
(* changes of the Central clock fall on a Sunday morning, so the offset is *)
(* the same at 22:00 and at 23:00 UTC, and 17:00 is exactly one of them.   *)
(***************************************************************************)
EXTENDS Schedule, TLAPS

(* The offset does not change after 08:00 UTC.                             *)
LEMMA OffsetOfAnAfternoon ==
  ASSUME NEW u \in Hours, NEW v \in Hours,
         u.year = v.year, u.month = v.month, u.day = v.day, u.hour >= 8, v.hour >= 8
  PROVE  CentralIsDaylight(u) <=> CentralIsDaylight(v)
<1> QED
  BY DEF CentralIsDaylight, Before, Hours, March, November

(* The gate is the check of two numbers: local time is on the same day.    *)
LEMMA GateOfAnEvening ==
  ASSUME NEW u \in Hours, u.hour \in {22, 23}
  PROVE  IsFriday1700Central(u) <=>
            /\ Weekday(u.year, u.month, u.day) = Friday
            /\ u.hour = IF CentralIsDaylight(u) THEN 22 ELSE 23
<1>1. CASE u.hour = 22
  BY <1>1 DEF IsFriday1700Central, CentralWeekday, CentralHour, CentralOffset
<1>2. CASE u.hour = 23
  BY <1>2 DEF IsFriday1700Central, CentralWeekday, CentralHour, CentralOffset
<1> QED
  BY <1>1, <1>2

(* Of the two crons of a Friday, in any year and on either side of a clock *)
(* change, exactly one finds the gate open (schedule.go:7-15).             *)
THEOREM OneCronOpensTheGate ==
  ASSUME NEW early \in Hours, NEW late \in Hours,
         IsCron(early), IsCron(late), early.hour = 22, late = [early EXCEPT !.hour = 23]
  PROVE  IsFriday1700Central(early) <=> ~IsFriday1700Central(late)
<1>1. /\ late.year = early.year /\ late.month = early.month /\ late.day = early.day
      /\ late.hour = 23
  BY DEF Hours
<1>2. early.hour >= 8 /\ late.hour >= 8
  BY <1>1
<1>3. CentralIsDaylight(early) <=> CentralIsDaylight(late)
  BY <1>1, <1>2, OffsetOfAnAfternoon, Zenon
<1>4. early.hour \in {22, 23} /\ late.hour \in {22, 23} /\ 22 # 23
  BY <1>1
<1>5. IsFriday1700Central(early) <=> CentralIsDaylight(early)
  BY <1>4, GateOfAnEvening, Zenon DEF IsCron
<1>6. IsFriday1700Central(late) <=> ~CentralIsDaylight(late)
  BY <1>1, <1>4, GateOfAnEvening, Zenon DEF IsCron
<1> QED
  BY <1>3, <1>5, <1>6, Zenon


-----------------------------------------------------------------------------
(***************************************************************************)
(* The calendar.                                                           *)
(***************************************************************************)

(* A year more is a leap day more exactly after a leap year.               *)
LEMMA LeapDays ==
  ASSUME NEW y \in Int
  PROVE  /\ y \div 4 - (y - 1) \div 4 = IF y % 4 = 0 THEN 1 ELSE 0
         /\ y \div 100 - (y - 1) \div 100 = IF y % 100 = 0 THEN 1 ELSE 0
         /\ y \div 400 - (y - 1) \div 400 = IF y % 400 = 0 THEN 1 ELSE 0
  OBVIOUS

(* Of the three divisibilities the rule of leap years asks for two.        *)
LEMMA LeapDaysOfAYear ==
  ASSUME NEW y \in Int
  PROVE  y + y \div 4 - y \div 100 + y \div 400
           = 1 + ((y - 1) + (y - 1) \div 4 - (y - 1) \div 100 + (y - 1) \div 400)
               + IF Leap(y) THEN 1 ELSE 0
<1>1. (y % 400 = 0 => y % 100 = 0) /\ (y % 100 = 0 => y % 4 = 0)
  OBVIOUS
<1> QED
  BY <1>1, LeapDays DEF Leap

(* A month has at least 28 days, and the days to the next month are the    *)
(* ones the weekdays are shifted by.                                       *)
LEMMA MonthsAreLong ==
  ASSUME NEW y \in Int, NEW m \in 1..12
  PROVE  DaysIn(y, m) \in 28..31
  BY DEF DaysIn


(* What the next day is.                                                   *)
LEMMA NextDayIs ==
  ASSUME NEW t, Instant(t)
  PROVE  LET n == NextDay(t)
             last == t.day = DaysIn(t.year, t.month)
         IN  /\ n.day = IF last THEN 1 ELSE t.day + 1
             /\ n.month = IF ~last THEN t.month ELSE IF t.month < 12 THEN t.month + 1 ELSE 1
             /\ n.year = IF last /\ t.month = 12 THEN t.year + 1 ELSE t.year
             /\ n.hour = t.hour
             /\ Instant(n)
<1>1. t \in [year : Int, month : 1..12, day : 1..31, hour : 0..23]
  BY DEF Instant
<1>2. t.day \in 1..DaysIn(t.year, t.month) /\ DaysIn(t.year, t.month) \in 28..31
  BY <1>1, MonthsAreLong DEF Instant
<1>3. CASE t.day < DaysIn(t.year, t.month)
  BY <1>1, <1>2, <1>3 DEF NextDay, Instant
<1>4. CASE t.day = DaysIn(t.year, t.month) /\ t.month < 12
  <2>1. NextDay(t) = [t EXCEPT !.day = 1, !.month = @ + 1]
    BY <1>1, <1>2, <1>4 DEF NextDay
  <2>2. DaysIn(t.year, t.month + 1) \in 28..31
    BY <1>1, <1>4, MonthsAreLong
  <2>3. /\ NextDay(t) \in [year : Int, month : 1..12, day : 1..31, hour : 0..23]
        /\ NextDay(t).day = 1 /\ NextDay(t).month = t.month + 1
        /\ NextDay(t).year = t.year /\ NextDay(t).hour = t.hour
    <3>1. t = [year |-> t.year, month |-> t.month, day |-> t.day, hour |-> t.hour]
      BY <1>1
    <3>2. NextDay(t) = [year |-> t.year, month |-> t.month + 1, day |-> 1, hour |-> t.hour]
      BY <2>1, <3>1
    <3>3. t.year \in Int /\ t.month + 1 \in 1..12 /\ 1 \in 1..31 /\ t.hour \in 0..23
      BY <1>1, <1>4
    <3> QED
      BY <3>2, <3>3
  <2>4. Instant(NextDay(t))
    BY <2>2, <2>3 DEF Instant
  <2> QED
    BY <1>4, <2>3, <2>4
<1>5. CASE t.day = DaysIn(t.year, t.month) /\ t.month = 12
  <2>1. NextDay(t) = [t EXCEPT !.day = 1, !.month = 1, !.year = @ + 1]
    BY <1>1, <1>2, <1>5 DEF NextDay
  <2>2. DaysIn(t.year + 1, 1) \in 28..31
    BY <1>1, MonthsAreLong
  <2>3. /\ NextDay(t) \in [year : Int, month : 1..12, day : 1..31, hour : 0..23]
        /\ NextDay(t).day = 1 /\ NextDay(t).month = 1
        /\ NextDay(t).year = t.year + 1 /\ NextDay(t).hour = t.hour
    <3>1. t = [year |-> t.year, month |-> t.month, day |-> t.day, hour |-> t.hour]
      BY <1>1
    <3>2. NextDay(t) = [year |-> t.year + 1, month |-> 1, day |-> 1, hour |-> t.hour]
      BY <2>1, <3>1
    <3>3. t.year + 1 \in Int /\ 1 \in 1..12 /\ 1 \in 1..31 /\ t.hour \in 0..23
      BY <1>1, <1>5
    <3> QED
      BY <3>2, <3>3
  <2>4. Instant(NextDay(t))
    BY <2>2, <2>3 DEF Instant
  <2> QED
    BY <1>5, <2>3, <2>4
<1> QED
  BY <1>1, <1>2, <1>3, <1>4, <1>5

(* The weekdays follow each other, across the ends of months, of years and *)
(* of February in a leap year.                                             *)
LEMMA WeekdaysFollow ==
  ASSUME NEW t, Instant(t)
  PROVE  LET n == NextDay(t)
         IN  Weekday(n.year, n.month, n.day) = (Weekday(t.year, t.month, t.day) + 1) % 7
<1> DEFINE n == NextDay(t)
           Days(y) == y + y \div 4 - y \div 100 + y \div 400
<1>1. /\ t.year \in Int /\ t.month \in 1..12 /\ t.day \in 1..31
      /\ t.day \in 1..DaysIn(t.year, t.month) /\ DaysIn(t.year, t.month) \in 28..31
  BY MonthsAreLong DEF Instant
<1>2. \A y \in Int, m \in 1..12, d \in 1..31 :
        Weekday(y, m, d) = (Days(IF m < 3 THEN y - 1 ELSE y) + MonthShift[m] + d) % 7
  BY DEF Weekday
<1>3. \A y \in Int : Days(y) \in Int
  OBVIOUS
<1>4. Days(t.year) = 1 + Days(t.year - 1) + IF Leap(t.year) THEN 1 ELSE 0
  BY <1>1, LeapDaysOfAYear
<1> HIDE DEF Days
<1>5. CASE t.day < DaysIn(t.year, t.month)
  <2>1. n.year = t.year /\ n.month = t.month /\ n.day = t.day + 1
    BY <1>1, <1>5, NextDayIs
  <2>2. PICK a \in Int : \A d \in 1..31 : Weekday(t.year, t.month, d) = (a + d) % 7
    <3>1. MonthShift[t.month] \in Int
      BY <1>1 DEF MonthShift
    <3>2. Days(IF t.month < 3 THEN t.year - 1 ELSE t.year) \in Int
      BY <1>1, <1>3
    <3>3. \A d \in 1..31 :
            Weekday(t.year, t.month, d)
              = (Days(IF t.month < 3 THEN t.year - 1 ELSE t.year) + MonthShift[t.month] + d) % 7
      BY <1>1, <1>2
    <3> QED
      BY <3>1, <3>2, <3>3
  <2> QED
    BY <1>1, <1>5, <2>1, <2>2
<1>6. CASE t.day = DaysIn(t.year, t.month) /\ t.month = 12
  <2>1. n.year = t.year + 1 /\ n.month = 1 /\ n.day = 1 /\ t.day = 31
    BY <1>1, <1>6, NextDayIs DEF DaysIn
  <2>2. Weekday(t.year, t.month, t.day) = (Days(t.year) + 4 + 31) % 7
    BY <1>1, <1>2, <1>6, <2>1 DEF MonthShift
  <2>3. Weekday(n.year, n.month, n.day) = (Days(t.year) + 0 + 1) % 7
    <3>1. (t.year + 1) - 1 = t.year
      BY <1>1
    <3> QED
      BY <1>1, <1>2, <2>1, <3>1 DEF MonthShift
  <2> QED
    BY <1>1, <1>3, <2>2, <2>3
<1>7. ASSUME t.day = DaysIn(t.year, t.month), t.month < 12
      PROVE  Weekday(n.year, n.month, n.day) = (Weekday(t.year, t.month, t.day) + 1) % 7
  <2> DEFINE m == t.month
             y == IF m < 3 THEN t.year - 1 ELSE t.year
             z == IF m + 1 < 3 THEN t.year - 1 ELSE t.year
  <2>1. n.year = t.year /\ n.month = m + 1 /\ n.day = 1
    BY <1>1, <1>7, NextDayIs
  <2>2. Weekday(t.year, m, t.day) = (Days(y) + MonthShift[m] + t.day) % 7
    BY <1>1, <1>2
  <2>3. Weekday(n.year, n.month, n.day) = (Days(z) + MonthShift[m + 1] + 1) % 7
    BY <1>1, <1>2, <1>7, <2>1
  <2>4. MonthShift[m] \in Int /\ MonthShift[m + 1] \in Int /\ Days(y) \in Int /\ Days(z) \in Int
    BY <1>1, <1>3, <1>7 DEF MonthShift
  <2>5. \E k \in Int : Days(z) + MonthShift[m + 1] + 1 = Days(y) + MonthShift[m] + t.day + 1 + 7 * k
    <3>1. CASE m = 2
      <4>1. t.day = 28 + IF Leap(t.year) THEN 1 ELSE 0
        BY <1>7, <3>1 DEF DaysIn
      <4>2. y = t.year - 1 /\ z = t.year /\ MonthShift[m] = 3 /\ MonthShift[m + 1] = 2
        BY <3>1 DEF MonthShift
      <4>3. Days(z) + MonthShift[m + 1] + 1 = Days(y) + MonthShift[m] + t.day + 1 + 7 * (0 - 4)
        BY <1>4, <2>4, <4>1, <4>2
      <4>4. 0 - 4 \in Int
        OBVIOUS
      <4> QED
        BY <4>3, <4>4
    <3>2. CASE m # 2
      <4>1. Days(y) = Days(z)
        BY <1>1, <3>2
      <4>2. m \in {1, 3, 4, 5, 6, 7, 8, 9, 10, 11}
        BY <1>1, <1>7, <3>2
      <4>3. \/ MonthShift[m + 1] = MonthShift[m] + t.day + 7 * (0 - 4)
            \/ MonthShift[m + 1] = MonthShift[m] + t.day + 7 * (0 - 5)
        BY <1>7, <4>2 DEF DaysIn, MonthShift
      <4>4. 0 - 4 \in Int /\ 0 - 5 \in Int
        OBVIOUS
      <4>5. \/ Days(z) + MonthShift[m + 1] + 1 = Days(y) + MonthShift[m] + t.day + 1 + 7 * (0 - 4)
            \/ Days(z) + MonthShift[m + 1] + 1 = Days(y) + MonthShift[m] + t.day + 1 + 7 * (0 - 5)
        BY <1>1, <2>4, <4>1, <4>3
      <4> QED
        BY <4>4, <4>5
    <3> QED
      BY <3>1, <3>2
  <2> HIDE DEF y, z
  <2> QED
    BY <1>1, <2>2, <2>3, <2>4, <2>5
<1> QED
  BY <1>1, <1>5, <1>6, <1>7


(* What the next hour is.                                                  *)
LEMMA NextHourIs ==
  ASSUME NEW t, Instant(t)
  PROVE  LET n == NextHour(t)
         IN  /\ Instant(n)
             /\ t.hour < 23 => SameDay(n, t) /\ n.hour = t.hour + 1
             /\ t.hour = 23 => SameDay(n, NextDay(t)) /\ n.hour = 0
<1>1. t \in [year : Int, month : 1..12, day : 1..31, hour : 0..23]
  BY DEF Instant
<1>2. CASE t.hour < 23
  <2>1. NextHour(t) = [t EXCEPT !.hour = @ + 1]
    BY <1>1, <1>2 DEF NextHour
  <2>2. NextHour(t) = [year |-> t.year, month |-> t.month, day |-> t.day, hour |-> t.hour + 1]
    BY <1>1, <2>1
  <2>3. t.hour + 1 \in 0..23
    BY <1>1, <1>2
  <2> QED
    BY <1>1, <1>2, <2>2, <2>3 DEF Instant, SameDay
<1>3. CASE t.hour = 23
  <2> DEFINE d == NextDay(t)
  <2>1. Instant(d) /\ d \in [year : Int, month : 1..12, day : 1..31, hour : 0..23]
    BY NextDayIs DEF Instant
  <2> HIDE DEF d
  <2>2. NextHour(t) = [NextDay(t) EXCEPT !.hour = 0]
    BY <1>3 DEF NextHour
  <2>3. NextHour(t) = [d EXCEPT !.hour = 0]
    BY <2>2 DEF d
  <2>4. NextHour(t) = [year |-> d.year, month |-> d.month, day |-> d.day, hour |-> 0]
    BY <2>1, <2>3
  <2>5. Instant(NextHour(t)) /\ SameDay(NextHour(t), d) /\ NextHour(t).hour = 0
    BY <2>1, <2>4 DEF Instant, SameDay
  <2> QED
    BY <1>3, <2>5 DEF d
<1> QED
  BY <1>1, <1>2, <1>3

(* The days after two instants of the same day are the same.               *)
LEMMA NextDaysAgree ==
  ASSUME NEW s, NEW t, Instant(s), Instant(t), SameDay(s, t)
  PROVE  SameDay(NextDay(s), NextDay(t))
  BY NextDayIs DEF SameDay

(* An hour is never the day before nor two days on.                        *)
LEMMA DaysDiffer ==
  ASSUME NEW t, Instant(t)
  PROVE  ~SameDay(t, NextDay(t)) /\ NextDay(t).day # t.day
<1>1. t.day \in 1..31 /\ DaysIn(t.year, t.month) \in 28..31
  BY MonthsAreLong DEF Instant
<1> QED
  BY <1>1, NextDayIs DEF SameDay

(* The weekdays of a month follow from the one it begins with.             *)
LEMMA WeekdaysOfAMonth ==
  ASSUME NEW y \in Int, NEW m \in 1..12, NEW d \in 1..31
  PROVE  /\ Weekday(y, m, 1) \in 0..6
         /\ Weekday(y, m, d) = (Weekday(y, m, 1) + d - 1) % 7
<1> DEFINE z == IF m < 3 THEN y - 1 ELSE y
           a == z + z \div 4 - z \div 100 + z \div 400 + MonthShift[m]
<1>1. a \in Int
  <2>1. MonthShift[m] \in Int /\ z \in Int
    BY DEF MonthShift
  <2> QED
    BY <2>1
<1>2. Weekday(y, m, 1) = (a + 1) % 7 /\ Weekday(y, m, d) = (a + d) % 7
  BY DEF Weekday
<1> HIDE DEF a
<1> QED
  BY <1>1, <1>2

(* The Sunday the code computes is the one Sunday of that week of the      *)
(* month.                                                                  *)
LEMMA SundaysAreTheCodes ==
  ASSUME NEW y \in Int, NEW m \in 1..12, NEW n \in 1..2, NEW d \in (7 * n - 6)..(7 * n)
  PROVE  /\ NthSundayOfMonth(y, m, n) \in (7 * n - 6)..(7 * n)
         /\ Weekday(y, m, d) = Sunday <=> d = NthSundayOfMonth(y, m, n)
<1>1. d \in 1..31
  OBVIOUS
<1>2. Weekday(y, m, 1) \in 0..6 /\ Weekday(y, m, d) = (Weekday(y, m, 1) + d - 1) % 7
  BY <1>1, WeekdaysOfAMonth
<1>3. PICK w \in 0..6 : w = Weekday(y, m, 1)
  BY <1>2
<1>4. NthSundayOfMonth(y, m, n) = 1 + ((0 - w + 7) % 7) + (n - 1) * 7
  BY <1>3, Zenon DEF NthSundayOfMonth, Sunday
<1>5. Weekday(y, m, d) = (w + d - 1) % 7
  BY <1>2, <1>3, Zenon
<1>6. PICK k \in 1..7 : k = 1 + ((0 - w + 7) % 7)
  BY <1>3
<1>7. ASSUME NEW e \in 1..7 PROVE (w + e - 1) % 7 = 0 <=> e = k
  BY <1>3, <1>6
<1>8. CASE n = 1
  <2>1. NthSundayOfMonth(y, m, n) = k /\ d \in 1..7
    BY <1>4, <1>6, <1>8
  <2> QED
    BY <1>5, <1>7, <1>8, <2>1 DEF Sunday
<1>9. CASE n = 2
  <2>1. NthSundayOfMonth(y, m, n) = k + 7 /\ d - 7 \in 1..7
    BY <1>4, <1>6, <1>9
  <2>2. (w + d - 1) % 7 = (w + (d - 7) - 1) % 7
    BY <1>3
  <2>3. (w + d - 1) % 7 = 0 <=> d - 7 = k
    BY <1>7, <2>1, <2>2
  <2> QED
    BY <1>5, <1>9, <2>1, <2>3 DEF Sunday
<1> QED
  BY <1>8, <1>9


(* An hour of the year is passed once: the clock is before it, then on it, *)
(* and never before it again.                                              *)
LEMMA HoursPassOnce ==
  ASSUME NEW t, Instant(t), NextHour(t).year = t.year,
         NEW m \in 1..12, NEW d \in 1..14, NEW h \in 1..23
  PROVE  LET n == NextHour(t)
         IN  /\ Before(n, m, d, h) => Before(t, m, d, h)
             /\ Before(t, m, d, h) /\ ~Before(n, m, d, h) <=>
                  n.month = m /\ n.day = d /\ n.hour = h
<1> DEFINE n == NextHour(t)
<1>1. /\ t.month \in 1..12 /\ t.day \in 1..DaysIn(t.year, t.month) /\ t.hour \in 0..23 /\ t.year \in Int
      /\ DaysIn(t.year, t.month) \in 28..31
      /\ n.month \in 1..12 /\ n.day \in 1..31 /\ n.hour \in 0..23
  <2>1. t.month \in 1..12 /\ t.year \in Int
    BY DEF Instant
  <2> QED
    BY <2>1, NextHourIs, MonthsAreLong DEF Instant
<1>2. CASE t.hour < 23
  BY <1>1, <1>2, NextHourIs DEF Before, SameDay
<1>3. CASE t.hour = 23
  <2>1. n.hour = 0 /\ SameDay(n, NextDay(t))
    BY <1>3, NextHourIs
  <2>2. \/ n.month = t.month /\ n.day = t.day + 1
        \/ n.month = t.month + 1 /\ n.day = 1
    <3>1. \/ t.day = DaysIn(t.year, t.month) /\ t.month = 12 /\ n.year = t.year + 1
          \/ t.day = DaysIn(t.year, t.month) /\ n.month = t.month + 1 /\ n.day = 1
          \/ t.day # DaysIn(t.year, t.month) /\ n.month = t.month /\ n.day = t.day + 1
      <4> HIDE DEF n
      <4>1. n.day = NextDay(t).day /\ n.month = NextDay(t).month /\ n.year = NextDay(t).year
        BY <2>1 DEF SameDay
      <4>2. CASE t.day = DaysIn(t.year, t.month) /\ t.month = 12
        BY <4>1, <4>2, NextDayIs
      <4>3. CASE t.day = DaysIn(t.year, t.month) /\ t.month < 12
        BY <4>1, <4>3, NextDayIs
      <4>4. CASE t.day # DaysIn(t.year, t.month)
        BY <4>1, <4>4, NextDayIs
      <4> QED
        BY <1>1, <4>2, <4>3, <4>4
    <3>2. n.year = t.year
      OBVIOUS
    <3> HIDE DEF n
    <3> QED
      BY <1>1, <3>1, <3>2
  <2> HIDE DEF n
  <2>3. n.month = t.month + 1 => t.day >= 28
    <3>1. n.month = NextDay(t).month
      BY <2>1 DEF SameDay
    <3>2. t.day # DaysIn(t.year, t.month) => n.month = t.month
      BY <3>1, NextDayIs
    <3> QED
      BY <1>1, <3>2
  <2>4. /\ Before(n, m, d, h) => Before(t, m, d, h)
        /\ Before(t, m, d, h) /\ ~Before(n, m, d, h) <=> n.month = m /\ n.day = d /\ n.hour = h
    BY <1>1, <1>3, <2>1, <2>2, <2>3 DEF Before
  <2> QED
    BY <2>4 DEF n
<1> QED
  BY <1>1, <1>2, <1>3

(* The two instants at which the code has the clock changed.               *)
LEMMA DaylightIs ==
  ASSUME NEW u
  PROVE  CentralIsDaylight(u) <=> /\ ~Before(u, 3, NthSundayOfMonth(u.year, 3, 2), 8)
                                  /\ Before(u, 11, NthSundayOfMonth(u.year, 11, 1), 7)
  BY DEF CentralIsDaylight, March, November

(* The clock on the wall keeps its distance to UTC while neither changes.  *)
LEMMA ClocksTickTogether ==
  ASSUME NEW u, NEW w, Instant(u), Instant(w), NEW behind \in {5, 6},
         IF u.hour >= behind THEN SameDay(u, w) /\ w.hour = u.hour - behind
                             ELSE SameDay(u, NextDay(w)) /\ w.hour = u.hour + 24 - behind
  PROVE  LET n == NextHour(u)
             t == NextHour(w)
         IN  IF n.hour >= behind THEN SameDay(n, t) /\ t.hour = n.hour - behind
                                 ELSE SameDay(n, NextDay(t)) /\ t.hour = n.hour + 24 - behind
<1> DEFINE n == NextHour(u)
           t == NextHour(w)
<1>1. u.hour \in 0..23 /\ w.hour \in 0..23
  BY DEF Instant
<1>2. /\ Instant(n) /\ Instant(t)
      /\ u.hour < 23 => SameDay(n, u) /\ n.hour = u.hour + 1
      /\ u.hour = 23 => SameDay(n, NextDay(u)) /\ n.hour = 0
      /\ w.hour < 23 => SameDay(t, w) /\ t.hour = w.hour + 1
      /\ w.hour = 23 => SameDay(t, NextDay(w)) /\ t.hour = 0
  BY NextHourIs
<1> HIDE DEF n, t
<1>3. CASE u.hour >= behind
  <2>1. SameDay(u, w) /\ w.hour = u.hour - behind /\ w.hour < 23
    BY <1>1, <1>3
  <2>2. SameDay(t, w) /\ t.hour = w.hour + 1
    BY <1>2, <2>1
  <2>3. CASE u.hour < 23
    <3>1. SameDay(n, t) /\ n.hour >= behind /\ t.hour = n.hour - behind
      BY <1>1, <1>2, <1>3, <2>1, <2>2, <2>3 DEF SameDay
    <3> QED
      BY <3>1 DEF n, t
  <2>4. CASE u.hour = 23
    <3>1. SameDay(NextDay(u), NextDay(t))
      <4>1. SameDay(u, t)
        BY <2>1, <2>2 DEF SameDay
      <4> QED
        BY <1>2, <4>1, NextDaysAgree
    <3>2. n.hour = 0 /\ SameDay(n, NextDay(t)) /\ t.hour = 24 - behind
      BY <1>1, <1>2, <2>1, <2>2, <2>4, <3>1 DEF SameDay
    <3> QED
      BY <3>2 DEF n, t
  <2> QED
    BY <1>1, <2>3, <2>4 DEF n, t
<1>4. CASE u.hour < behind
  <2>1. /\ SameDay(u, NextDay(w)) /\ w.hour = u.hour + 24 - behind
        /\ SameDay(n, u) /\ n.hour = u.hour + 1
    BY <1>1, <1>2, <1>4
  <2>2. CASE w.hour < 23
    <3>1. SameDay(t, w) /\ t.hour = w.hour + 1 /\ n.hour < behind
      BY <1>1, <1>2, <2>1, <2>2
    <3>2. SameDay(NextDay(t), NextDay(w))
      BY <1>2, <3>1, NextDaysAgree
    <3>3. SameDay(n, NextDay(t)) /\ t.hour = n.hour + 24 - behind
      BY <1>1, <2>1, <3>1, <3>2 DEF SameDay
    <3> QED
      BY <1>2, <3>1, <3>3 DEF n, t, Instant
  <2>3. CASE w.hour = 23
    <3>1. SameDay(t, NextDay(w)) /\ t.hour = 0 /\ n.hour = behind
      BY <1>1, <1>2, <2>1, <2>3
    <3>2. SameDay(n, t) /\ t.hour = n.hour - behind /\ n.hour >= behind
      BY <2>1, <3>1 DEF SameDay
    <3> QED
      BY <3>2 DEF n, t
  <2> QED
    BY <1>1, <2>2, <2>3
<1> QED
  BY <1>1, <1>3, <1>4

(* The clock on the wall is put forward in the very hour at which the code *)
(* has daylight time begin.                                                *)
LEMMA ForwardWhenTheCodeSays ==
  ASSUME ClocksAgree, NextHour(utc).year = utc.year
  PROVE  LET n == NextHour(utc)
             forward == NthSundayOfMonth(utc.year, 3, 2)
         IN  PutForward(NextHour(wall)) <=>
               ~summer /\ n.month = 3 /\ n.day = forward /\ n.hour = 8
<1> DEFINE n == NextHour(utc)
           w == NextHour(wall)
           forward == NthSundayOfMonth(utc.year, 3, 2)
<1>1. Instant(n) /\ Instant(w) /\ n.year = utc.year /\ utc.year \in Int
  BY NextHourIs DEF ClocksAgree, Instant
<1>2. ~summer => IF n.hour >= 6 THEN SameDay(n, w) /\ w.hour = n.hour - 6
                                ELSE SameDay(n, NextDay(w)) /\ w.hour = n.hour + 24 - 6
  BY ClocksTickTogether DEF ClocksAgree
<1>3. /\ n.hour \in 0..23 /\ w.hour \in 0..23
      /\ forward \in 8..14
      /\ \A d \in 8..14 : Weekday(utc.year, 3, d) = Sunday <=> d = forward
  BY <1>1, SundaysAreTheCodes DEF Instant
<1>4. PutForward(w) <=> /\ ~summer /\ w.month = 3 /\ w.day \in 8..14 /\ w.hour = 2
                        /\ Weekday(w.year, w.month, w.day) = Sunday
  BY DEF PutForward, IsSunday, March
<1> HIDE DEF n, w, forward
<1>5. ~summer /\ (w.hour = 2 \/ n.hour = 8) => SameDay(n, w) /\ w.hour = 2 /\ n.hour = 8
  BY <1>2, <1>3
<1>6. PutForward(w) => ~summer /\ n.month = 3 /\ n.day = forward /\ n.hour = 8
  BY <1>1, <1>3, <1>4, <1>5 DEF SameDay
<1>7. ~summer /\ n.month = 3 /\ n.day = forward /\ n.hour = 8 => PutForward(w)
  BY <1>1, <1>3, <1>4, <1>5 DEF SameDay
<1> QED
  BY <1>6, <1>7 DEF n, w, forward

(* And put back in the one at which it has standard time begin.            *)
LEMMA BackWhenTheCodeSays ==
  ASSUME ClocksAgree, NextHour(utc).year = utc.year
  PROVE  LET n == NextHour(utc)
             back == NthSundayOfMonth(utc.year, 11, 1)
         IN  PutBack(NextHour(wall)) <=>
               summer /\ n.month = 11 /\ n.day = back /\ n.hour = 7
<1> DEFINE n == NextHour(utc)
           w == NextHour(wall)
           back == NthSundayOfMonth(utc.year, 11, 1)
<1>1. Instant(n) /\ Instant(w) /\ n.year = utc.year /\ utc.year \in Int
  BY NextHourIs DEF ClocksAgree, Instant
<1>2. summer => IF n.hour >= 5 THEN SameDay(n, w) /\ w.hour = n.hour - 5
                               ELSE SameDay(n, NextDay(w)) /\ w.hour = n.hour + 24 - 5
  BY ClocksTickTogether DEF ClocksAgree
<1>3. /\ n.hour \in 0..23 /\ w.hour \in 0..23
      /\ back \in 1..7
      /\ \A d \in 1..7 : Weekday(utc.year, 11, d) = Sunday <=> d = back
  BY <1>1, SundaysAreTheCodes DEF Instant
<1>4. PutBack(w) <=> /\ summer /\ w.month = 11 /\ w.day \in 1..7 /\ w.hour = 2
                     /\ Weekday(w.year, w.month, w.day) = Sunday
  BY DEF PutBack, IsSunday, November
<1> HIDE DEF n, w, back
<1>5. summer /\ (w.hour = 2 \/ n.hour = 7) => SameDay(n, w) /\ w.hour = 2 /\ n.hour = 7
  BY <1>2, <1>3
<1>6. PutBack(w) => summer /\ n.month = 11 /\ n.day = back /\ n.hour = 7
  BY <1>1, <1>3, <1>4, <1>5 DEF SameDay
<1>7. summer /\ n.month = 11 /\ n.day = back /\ n.hour = 7 => PutBack(w)
  BY <1>1, <1>3, <1>4, <1>5 DEF SameDay
<1> QED
  BY <1>6, <1>7 DEF n, w, back

(* Setting the hour of the clock leaves its day.                           *)
LEMMA SetHour ==
  ASSUME NEW t, Instant(t), NEW h \in 0..23
  PROVE  LET s == [t EXCEPT !.hour = h]
         IN  Instant(s) /\ SameDay(s, t) /\ s.hour = h
<1>1. t \in [year : Int, month : 1..12, day : 1..31, hour : 0..23]
  BY DEF Instant
<1>2. [t EXCEPT !.hour = h] = [year |-> t.year, month |-> t.month, day |-> t.day, hour |-> h]
  BY <1>1
<1> QED
  BY <1>1, <1>2 DEF Instant, SameDay

(* The two clocks agree after every hour, across both changes.             *)
LEMMA ClocksStep == ClocksAgree /\ HourPasses => ClocksAgree'
<1> SUFFICES ASSUME ClocksAgree, HourPasses PROVE ClocksAgree'
  OBVIOUS
<1> DEFINE n == NextHour(utc)
           w == NextHour(wall)
           behind == IF summer THEN 5 ELSE 6
           forward == NthSundayOfMonth(utc.year, 3, 2)
           back == NthSundayOfMonth(utc.year, 11, 1)
           Forward(u) == ~Before(u, 3, forward, 8)
           Back(u) == ~Before(u, 11, back, 7)
<1>1. /\ utc' = n /\ n.year = utc.year /\ Instant(n) /\ Instant(w)
      /\ Instant(utc) /\ Instant(wall) /\ utc.year \in Nat /\ summer \in BOOLEAN
  <2>1. /\ Instant(utc) /\ Instant(wall) /\ utc.year \in Nat
        /\ summer = CentralIsDaylight(utc)
    BY DEF ClocksAgree
  <2>2. utc' = n /\ n.year = utc.year
    BY DEF HourPasses
  <2>3. Instant(n) /\ Instant(w)
    BY <2>1, NextHourIs
  <2>4. CentralIsDaylight(utc) \in BOOLEAN
    BY DEF CentralIsDaylight
  <2> QED
    BY <2>1, <2>2, <2>3, <2>4
<1>2. IF n.hour >= behind THEN SameDay(n, w) /\ w.hour = n.hour - behind
                          ELSE SameDay(n, NextDay(w)) /\ w.hour = n.hour + 24 - behind
  BY ClocksTickTogether DEF ClocksAgree
<1>3. forward \in 8..14 /\ back \in 1..7
  BY <1>1, SundaysAreTheCodes
<1>4. /\ CentralIsDaylight(utc) <=> Forward(utc) /\ ~Back(utc)
      /\ CentralIsDaylight(n) <=> Forward(n) /\ ~Back(n)
  BY <1>1, DaylightIs
<1>5. /\ Forward(utc) => Forward(n)
      /\ ~Forward(utc) /\ Forward(n) <=> n.month = 3 /\ n.day = forward /\ n.hour = 8
      /\ Back(utc) => Back(n)
      /\ ~Back(utc) /\ Back(n) <=> n.month = 11 /\ n.day = back /\ n.hour = 7
  <2>1. Instant(utc) /\ NextHour(utc).year = utc.year /\ forward \in 1..14 /\ back \in 1..14
    BY <1>1, <1>3
  <2>2. ASSUME NEW m \in 1..12, NEW d \in 1..14, NEW h \in 1..23
        PROVE  /\ Before(n, m, d, h) => Before(utc, m, d, h)
               /\ Before(utc, m, d, h) /\ ~Before(n, m, d, h) <=>
                    n.month = m /\ n.day = d /\ n.hour = h
    BY <2>1, HoursPassOnce, Zenon
  <2> HIDE DEF n, forward, back
  <2>3. PICK m \in 1..12, h \in 1..23 : m = 3 /\ h = 8
    OBVIOUS
  <2>4. /\ Forward(utc) => Forward(n)
        /\ ~Forward(utc) /\ Forward(n) <=> n.month = m /\ n.day = forward /\ n.hour = h
    <3>1. /\ Before(n, m, forward, h) => Before(utc, m, forward, h)
          /\ Before(utc, m, forward, h) /\ ~Before(n, m, forward, h) <=>
               n.month = m /\ n.day = forward /\ n.hour = h
      BY <2>1, <2>2, Zenon
    <3> QED
      BY <2>3, <3>1, Zenon
  <2>5. PICK k \in 1..12, i \in 1..23 : k = 11 /\ i = 7
    OBVIOUS
  <2>6. /\ Back(utc) => Back(n)
        /\ ~Back(utc) /\ Back(n) <=> n.month = k /\ n.day = back /\ n.hour = i
    <3>1. /\ Before(n, k, back, i) => Before(utc, k, back, i)
          /\ Before(utc, k, back, i) /\ ~Before(n, k, back, i) <=>
               n.month = k /\ n.day = back /\ n.hour = i
      BY <2>1, <2>2, Zenon
    <3> QED
      BY <2>5, <3>1, Zenon
  <2> QED
    BY <2>3, <2>4, <2>5, <2>6, Zenon
<1>6. /\ PutForward(w) <=> ~summer /\ n.month = 3 /\ n.day = forward /\ n.hour = 8
      /\ PutBack(w) <=> summer /\ n.month = 11 /\ n.day = back /\ n.hour = 7
  BY <1>1, ForwardWhenTheCodeSays, BackWhenTheCodeSays
<1>7. /\ wall' = IF PutForward(w) THEN [w EXCEPT !.hour = 3]
                 ELSE IF PutBack(w) THEN [w EXCEPT !.hour = 1]
                 ELSE w
      /\ summer' = IF PutForward(w) THEN TRUE ELSE IF PutBack(w) THEN FALSE ELSE summer
  BY DEF HourPasses, WallTicks
<1>8. summer <=> CentralIsDaylight(utc)
  BY DEF ClocksAgree
<1>9. n.month = 3 /\ n.day = forward /\ n.hour = 8 => ~Back(n)
  BY <1>1 DEF Before
<1>10. SUFFICES /\ Instant(wall')
                /\ summer' \in BOOLEAN /\ (summer' <=> CentralIsDaylight(n))
                /\ LET b == IF summer' THEN 5 ELSE 6
                   IN  IF n.hour >= b THEN SameDay(n, wall') /\ wall'.hour = n.hour - b
                       ELSE SameDay(n, NextDay(wall')) /\ wall'.hour = n.hour + 24 - b
  <2>1. CentralIsDaylight(n) \in BOOLEAN
    BY DEF CentralIsDaylight
  <2> QED
    BY <1>1, <1>10, <2>1 DEF ClocksAgree
<1> HIDE DEF n, w, forward, back, Forward, Back
<1>11. CASE PutForward(w)
  <2>1. wall' = [w EXCEPT !.hour = 3] /\ summer'
    BY <1>7, <1>11
  <2>2. Instant(wall') /\ SameDay(wall', w) /\ wall'.hour = 3
    <3>1. 3 \in 0..23
      OBVIOUS
    <3>2. LET s == [w EXCEPT !.hour = 3] IN Instant(s) /\ SameDay(s, w) /\ s.hour = 3
      BY <1>1, <3>1, SetHour
    <3> QED
      BY <2>1, <3>2, Zenon
  <2>3. ~summer /\ n.hour = 8 /\ CentralIsDaylight(n)
    BY <1>4, <1>5, <1>6, <1>9, <1>11
  <2>4. SameDay(n, wall')
    BY <1>2, <2>2, <2>3 DEF SameDay
  <2> QED
    BY <1>7, <1>11, <2>1, <2>2, <2>3, <2>4
<1>12. CASE PutBack(w)
  <2>1. summer /\ n.hour = 7 /\ ~CentralIsDaylight(n) /\ ~PutForward(w)
    BY <1>4, <1>5, <1>6, <1>12
  <2>2. wall' = [w EXCEPT !.hour = 1] /\ summer' = FALSE
    BY <1>7, <1>12, <2>1
  <2>3. Instant(wall') /\ SameDay(wall', w) /\ wall'.hour = 1
    <3>1. 1 \in 0..23
      OBVIOUS
    <3>2. LET s == [w EXCEPT !.hour = 1] IN Instant(s) /\ SameDay(s, w) /\ s.hour = 1
      BY <1>1, <3>1, SetHour
    <3> QED
      BY <2>2, <3>2, Zenon
  <2>4. SameDay(n, wall')
    BY <1>2, <2>1, <2>3 DEF SameDay
  <2>5. n.hour >= 6 /\ wall'.hour = n.hour - 6
    BY <2>1, <2>3
  <2>6. n.hour >= IF summer' THEN 5 ELSE 6
    BY <2>2, <2>5
  <2>7. wall'.hour = n.hour - IF summer' THEN 5 ELSE 6
    BY <2>2, <2>5
  <2> QED
    BY <2>1, <2>2, <2>3, <2>4, <2>6, <2>7, Zenon
<1>13. CASE ~PutForward(w) /\ ~PutBack(w)
  <2>1. wall' = w /\ summer' = summer
    BY <1>7, <1>13
  <2>2. summer <=> CentralIsDaylight(n)
    BY <1>4, <1>5, <1>6, <1>8, <1>13
  <2> QED
    BY <1>1, <1>2, <2>1, <2>2
<1> QED
  BY <1>11, <1>12, <1>13


(* They agree when the year begins.                                        *)
LEMMA ClocksStart == Init => ClocksAgree
<1> SUFFICES ASSUME NEW y \in Years,
                    utc = [year |-> y, month |-> 1, day |-> 1, hour |-> 0],
                    wall = [year |-> y - 1, month |-> 12, day |-> 31, hour |-> 18],
                    summer = FALSE
             PROVE  ClocksAgree
  BY DEF Init
<1>1. y \in Nat
  BY YearsAssumption
<1>2. Instant(utc) /\ Instant(wall) /\ utc.year \in Nat
  BY <1>1 DEF Instant, DaysIn
<1>3. CentralIsDaylight(utc) = FALSE
  BY DEF CentralIsDaylight, Before, March
<1>4. SameDay(utc, NextDay(wall))
  <2>1. wall.day = DaysIn(wall.year, wall.month)
    BY DEF DaysIn
  <2>2. wall.year = y - 1 /\ wall.month = 12 /\ utc.year = y /\ utc.month = 1 /\ utc.day = 1
    OBVIOUS
  <2>3. NextDay(wall).day = 1 /\ NextDay(wall).month = 1 /\ NextDay(wall).year = wall.year + 1
    BY <1>2, <2>1, <2>2, NextDayIs
  <2> QED
    BY <1>1, <2>2, <2>3 DEF SameDay
<1>5. wall.hour = utc.hour + 24 - 6 /\ ~(utc.hour >= 6) /\ ~summer
  OBVIOUS
<1> QED
  BY <1>2, <1>3, <1>4, <1>5 DEF ClocksAgree

(* Where the clocks agree the gate reads the wall.                         *)
LEMMA GateAgrees == ClocksAgree => GateReadsTheWall
<1> SUFFICES ASSUME ClocksAgree PROVE GateReadsTheWall
  OBVIOUS
<1> DEFINE today == Weekday(utc.year, utc.month, utc.day)
           there == Weekday(wall.year, wall.month, wall.day)
<1>1. /\ Instant(utc) /\ Instant(wall) /\ utc.hour \in 0..23 /\ wall.hour \in 0..23
      /\ wall.year \in Int /\ wall.month \in 1..12 /\ wall.day \in 1..31
  BY DEF ClocksAgree, Instant
<1>2. PICK behind \in {5, 6} :
        /\ CentralOffset(utc) = -behind
        /\ IF utc.hour >= behind THEN SameDay(utc, wall) /\ wall.hour = utc.hour - behind
                                 ELSE SameDay(utc, NextDay(wall)) /\ wall.hour = utc.hour + 24 - behind
  BY DEF ClocksAgree, CentralOffset
<1>3. there \in 0..6
  <2>1. there = (Weekday(wall.year, wall.month, 1) + wall.day - 1) % 7
        /\ Weekday(wall.year, wall.month, 1) \in 0..6
    BY <1>1, WeekdaysOfAMonth
  <2> QED
    BY <1>1, <2>1
<1>4. CentralHour(utc) = wall.hour
  BY <1>1, <1>2 DEF CentralHour
<1>5. CentralWeekday(utc) = there
  <2>1. CASE utc.hour >= behind
    <3>1. today = there
      BY <1>2, <2>1 DEF SameDay
    <3>2. CentralWeekday(utc) = today
      BY <1>1, <1>2, <2>1 DEF CentralWeekday
    <3> QED
      BY <3>1, <3>2
  <2>2. CASE utc.hour < behind
    <3>1. today = (there + 1) % 7
      <4>1. SameDay(utc, NextDay(wall))
        BY <1>1, <1>2, <2>2
      <4> QED
        BY <1>1, <4>1, WeekdaysFollow DEF SameDay
    <3>2. CentralWeekday(utc) = (today - 1) % 7
      BY <1>1, <1>2, <2>2 DEF CentralWeekday
    <3> HIDE DEF today, there
    <3> QED
      BY <1>3, <3>1, <3>2
  <2> QED
    BY <1>1, <1>2, <2>1, <2>2
<1> QED
  BY <1>4, <1>5 DEF GateReadsTheWall, IsFriday1700Central

(* The clocks agree throughout.                                            *)
LEMMA ClocksAgreeAlways == Spec => []ClocksAgree
<1>1. ClocksAgree /\ [Next]_vars => ClocksAgree'
  <2> SUFFICES ASSUME ClocksAgree, [Next]_vars PROVE ClocksAgree'
    OBVIOUS
  <2>1. CASE HourPasses
    BY <2>1, ClocksStep
  <2>2. CASE UNCHANGED <<utc, wall, summer>>
    BY <2>2 DEF ClocksAgree, CentralIsDaylight
  <2> QED
    BY <2>1, <2>2 DEF Next, Fire, vars
<1> QED
  BY <1>1, ClocksStart, PTL DEF Spec

(* In every hour of every year the gate, computed from UTC alone, is open  *)
(* if and only if the clock on the wall in Chicago reads 17 on a Friday:   *)
(* also in the weeks in which that clock is put forward or back, in leap   *)
(* years and over New Year (schedule.go:111-163).                          *)
THEOREM TheGateReadsTheWall == Spec => []GateReadsTheWall
  BY ClocksAgreeAlways, GateAgrees, PTL

-----------------------------------------------------------------------------
(***************************************************************************)
(* The fires.                                                              *)
(***************************************************************************)

(* Two fires of a Friday are the two hours, so one of them opens the gate. *)
LEMMA TwoFires ==
  ASSUME NEW f, NEW g, Instant(f), Instant(g), f.year \in Nat, g.year \in Nat,
         IsCron(f), IsCron(g), SameDay(f, g), f # g
  PROVE  IsFriday1700Central(f) <=> ~IsFriday1700Central(g)
<1>1. f \in Hours /\ g \in Hours
  BY DEF Instant, Hours
<1>2. f.hour # g.hour
  BY <1>1 DEF SameDay, Hours
<1>3. f.hour \in {22, 23} /\ g.hour \in {22, 23}
  BY DEF IsCron
<1>4. ASSUME NEW e \in Hours, NEW l \in Hours, IsCron(e), IsCron(l), SameDay(e, l),
             e.hour = 22, l.hour = 23
      PROVE  IsFriday1700Central(e) <=> ~IsFriday1700Central(l)
  <2>1. l = [e EXCEPT !.hour = 23]
    BY <1>4 DEF SameDay, Hours
  <2> QED
    BY <1>4, <2>1, OneCronOpensTheGate
<1>5. SameDay(g, f)
  BY DEF SameDay
<1>6. CASE f.hour = 22
  <2>1. g.hour = 23
    BY <1>2, <1>3, <1>6
  <2> QED
    BY <1>1, <1>4, <1>6, <2>1
<1>7. CASE f.hour = 23
  <2>1. g.hour = 22
    BY <1>2, <1>3, <1>7
  <2> QED
    BY <1>1, <1>4, <1>5, <1>7, <2>1, Zenon
<1> QED
  BY <1>3, <1>6, <1>7

(* Fires wait for less than a day, so that none is left when the next      *)
(* Friday evening comes.                                                   *)
LEMMA FiresStep == ClocksAgree /\ FiresAreRecent /\ HourPasses => FiresAreRecent'
<1> SUFFICES ASSUME ClocksAgree, FiresAreRecent, HourPasses PROVE FiresAreRecent'
  OBVIOUS
<1> DEFINE n == NextHour(utc)
<1>1. /\ utc' = n /\ Instant(utc) /\ Instant(n) /\ n.year = utc.year /\ utc.year \in Nat
      /\ utc.hour \in 0..23
      /\ utc.hour < 23 => SameDay(n, utc) /\ n.hour = utc.hour + 1
      /\ utc.hour = 23 => SameDay(n, NextDay(utc)) /\ n.hour = 0
  BY NextHourIs DEF ClocksAgree, HourPasses, Instant
<1>2. \A f \in fires : /\ Instant(f) /\ f.year \in Nat /\ IsCron(f) /\ f.hour \in {22, 23}
                       /\ \/ SameDay(f, utc) /\ f.hour <= utc.hour
                          \/ SameDay(NextDay(f), utc)
                       /\ Late(f) < MaxDelay
                       /\ \A g \in fires : SameDay(f, g)
  BY DEF FiresAreRecent, HourPasses, IsCron
<1> HIDE DEF n
<1>3. ASSUME NEW f \in fires
      PROVE  \/ SameDay(f, n) /\ f.hour <= n.hour
             \/ SameDay(NextDay(f), n)
  <2>1. CASE SameDay(f, utc) /\ utc.hour < 23
    BY <1>1, <1>2, <2>1 DEF SameDay
  <2>2. CASE SameDay(f, utc) /\ utc.hour = 23
    <3>1. SameDay(NextDay(f), NextDay(utc))
      BY <1>1, <1>2, <2>2, NextDaysAgree
    <3> QED
      BY <1>1, <2>2, <3>1 DEF SameDay
  <2>3. CASE SameDay(NextDay(f), utc) /\ utc.hour < 23
    BY <1>1, <2>3 DEF SameDay
  <2>4. CASE SameDay(NextDay(f), utc) /\ utc.hour = 23
    <3>1. utc.day # f.day
      BY <1>2, <2>4, DaysDiffer DEF SameDay
    <3>2. Late(f) = 23 + 24 - f.hour
      BY <2>4, <3>1 DEF Late
    <3> QED
      BY <1>2, <3>2, DelayAssumption
  <2> QED
    BY <1>1, <1>2, <2>1, <2>2, <2>3, <2>4
<1>4. CASE ~IsCron(n)
  <2>1. fires' = fires
    BY <1>1, <1>4 DEF HourPasses
  <2> QED
    BY <1>1, <1>2, <1>3, <2>1 DEF FiresAreRecent
<1>5. CASE IsCron(n)
  <2>1. fires' = fires \cup {n}
    BY <1>1, <1>5 DEF HourPasses
  <2>2. n.hour \in {22, 23} /\ Weekday(n.year, n.month, n.day) = Friday
    BY <1>5 DEF IsCron
  <2>3. SameDay(n, utc) /\ utc.hour < 23
    BY <1>1, <2>2
  <2>4. ASSUME NEW f \in fires PROVE SameDay(f, n) /\ SameDay(n, f)
    <3>1. Weekday(f.year, f.month, f.day) = Friday
      BY <1>2 DEF IsCron
    <3>2. ~SameDay(NextDay(f), n)
      <4>1. Weekday(NextDay(f).year, NextDay(f).month, NextDay(f).day) = 6
        BY <1>2, <3>1, WeekdaysFollow DEF Friday
      <4> QED
        BY <2>2, <4>1 DEF SameDay, Friday
    <3> QED
      BY <1>3, <3>2 DEF SameDay
  <2>5. SameDay(n, n) /\ n.hour <= n.hour
    BY <2>2 DEF SameDay
  <2>6. n.year \in Nat
    BY <1>1
  <2> QED
    BY <1>1, <1>2, <1>3, <1>5, <2>1, <2>4, <2>5, <2>6 DEF FiresAreRecent
<1> QED
  BY <1>4, <1>5

(* No fire waits any more when the first cron of a Friday fires.           *)
LEMMA NoneIsLeft ==
  ASSUME ClocksAgree, FiresAreRecent, HourPasses, IsCron(utc'), utc'.hour = 22
  PROVE  fires = {}
<1>1. utc' = NextHour(utc) /\ Instant(utc) /\ utc.hour \in 0..23
  BY DEF ClocksAgree, HourPasses, Instant
<1>2. SameDay(utc', utc) /\ utc.hour = 21
  BY <1>1, NextHourIs
<1>3. ASSUME NEW f \in fires PROVE FALSE
  <2>1. /\ Instant(f) /\ f.hour \in {22, 23} /\ Weekday(f.year, f.month, f.day) = Friday
        /\ \/ SameDay(f, utc) /\ f.hour <= utc.hour
           \/ SameDay(NextDay(f), utc)
    BY DEF FiresAreRecent, IsCron
  <2>2. SameDay(NextDay(f), utc)
    BY <1>2, <2>1
  <2>3. Weekday(NextDay(f).year, NextDay(f).month, NextDay(f).day) = 6
    BY <2>1, WeekdaysFollow DEF Friday
  <2>4. Weekday(utc.year, utc.month, utc.day) = 5
    BY <1>2 DEF IsCron, SameDay, Friday
  <2> QED
    BY <2>2, <2>3, <2>4 DEF SameDay
<1> QED
  BY <1>3

(* An hour that passes owes the run of a Friday once.                      *)
LEMMA OwedStep == ScheduleIInv /\ HourPasses => RunIsOwed'
<1> SUFFICES ASSUME ScheduleIInv, HourPasses PROVE RunIsOwed'
  OBVIOUS
<1> DEFINE n == NextHour(utc)
<1>0. ClocksAgree /\ FiresAreRecent /\ RunIsOwed
  BY DEF ScheduleIInv
<1>1. /\ utc' = n /\ Instant(utc) /\ Instant(n) /\ n.year = utc.year /\ utc.year \in Nat
      /\ utc.hour \in 0..23 /\ n.hour \in 0..23
      /\ utc.hour < 23 => SameDay(n, utc) /\ n.hour = utc.hour + 1
      /\ utc.hour = 23 => SameDay(n, NextDay(utc)) /\ n.hour = 0
      /\ fires' = IF IsCron(n) THEN fires \cup {n} ELSE fires
      /\ ran' = IF IsCron(n) /\ n.hour = 22 THEN 0 ELSE ran
  BY <1>0, NextHourIs DEF ClocksAgree, HourPasses, Instant
<1>2. ran \in {0, 1} /\ (Waits => ran = 0)
  BY <1>0 DEF RunIsOwed
<1>3. n.hour = 22 /\ IsCron(n) => fires = {}
  BY <1>0, <1>1, NoneIsLeft
<1> HIDE DEF n
<1>4. CASE ~IsCron(n)
  <2>1. fires' = fires /\ ran' = ran
    BY <1>1, <1>4
  <2>2. Waits' <=> Waits
    BY <2>1 DEF Waits
  <2>3. ~FirstCronHour'
    BY <1>1, <1>4 DEF IsCron, FirstCronHour
  <2>4. ~FirstCronHour
    <3>1. SUFFICES ASSUME FirstCronHour PROVE FALSE
      OBVIOUS
    <3>2. SameDay(n, utc) /\ n.hour = 23 /\ Weekday(utc.year, utc.month, utc.day) = Friday
      BY <1>1, <3>1 DEF FirstCronHour
    <3> QED
      BY <1>4, <3>2 DEF IsCron, SameDay
  <2>5. ran = 1 \/ Waits
    BY <1>0, <2>4 DEF RunIsOwed
  <2> QED
    BY <1>2, <2>1, <2>2, <2>3, <2>5 DEF RunIsOwed
<1>5. CASE IsCron(n) /\ n.hour = 22
  <2>1. fires' = {n} /\ ran' = 0
    BY <1>1, <1>3, <1>5
  <2>2. Waits' <=> IsFriday1700Central(n)
    BY <2>1 DEF Waits
  <2>3. FirstCronHour'
    BY <1>1, <1>5 DEF IsCron, FirstCronHour
  <2> QED
    BY <1>1, <2>1, <2>2, <2>3 DEF RunIsOwed
<1>6. CASE IsCron(n) /\ n.hour = 23
  <2>1. fires' = fires \cup {n} /\ ran' = ran
    BY <1>1, <1>6
  <2>2. SameDay(n, utc) /\ utc.hour = 22
    BY <1>1, <1>6
  <2>3. Weekday(utc.year, utc.month, utc.day) = Friday
    BY <1>6, <2>2 DEF IsCron, SameDay
  <2>4. IsCron(utc) /\ utc # n
    BY <1>6, <2>2, <2>3 DEF IsCron
  <2>5. IsFriday1700Central(n) <=> ~IsFriday1700Central(utc)
    BY <1>1, <1>6, <2>2, <2>4, TwoFires
  <2>6. Waits' <=> Waits \/ IsFriday1700Central(n)
    BY <2>1 DEF Waits
  <2>7. ran = 1 \/ Waits <=> IsFriday1700Central(utc)
    BY <1>0, <2>2, <2>3 DEF RunIsOwed, FirstCronHour
  <2>8. ran' \in {0, 1} /\ (Waits' => ran' = 0) /\ (ran' = 1 \/ Waits')
    BY <1>2, <2>1, <2>5, <2>6, <2>7
  <2>9. ~FirstCronHour'
    BY <1>1, <1>6 DEF FirstCronHour
  <2> QED
    BY <2>8, <2>9 DEF RunIsOwed
<1>7. IsCron(n) => n.hour \in {22, 23}
  BY DEF IsCron
<1> QED
  BY <1>4, <1>5, <1>6, <1>7

(* A fire that is delivered runs the job if the run was owed.              *)
LEMMA FireStep == ScheduleIInv /\ Fire => FiresAreRecent' /\ RunIsOwed'
<1> SUFFICES ASSUME ScheduleIInv, NEW f \in fires,
                    fires' = fires \ {f},
                    ran' = IF IsFriday1700Central(f) THEN ran + 1 ELSE ran,
                    UNCHANGED <<utc, wall, summer>>
             PROVE  FiresAreRecent' /\ RunIsOwed'
  BY DEF Fire
<1>0. FiresAreRecent /\ RunIsOwed
  BY DEF ScheduleIInv
<1>1. FiresAreRecent'
  BY <1>0 DEF FiresAreRecent
<1>2. \A g \in fires : /\ Instant(g) /\ g.year \in Nat /\ IsCron(g) /\ SameDay(f, g)
  BY <1>0 DEF FiresAreRecent
<1>3. ran \in {0, 1} /\ (Waits => ran = 0)
  BY <1>0 DEF RunIsOwed
<1>4. CASE IsFriday1700Central(f)
  <2>1. Waits /\ ran = 0 /\ ran' = 1
    BY <1>3, <1>4 DEF Waits
  <2>2. ~Waits'
    BY <1>2, <1>4, TwoFires DEF Waits
  <2>3. Waits /\ ran' = 1 /\ ~Waits'
    BY <2>1, <2>2
  <2> QED
    BY <1>0, <1>1, <2>3 DEF RunIsOwed, FirstCronHour
<1>5. CASE ~IsFriday1700Central(f)
  <2>1. ran' = ran /\ (Waits' <=> Waits)
    BY <1>5 DEF Waits
  <2> QED
    BY <1>0, <1>1, <2>1 DEF RunIsOwed, FirstCronHour
<1> QED
  BY <1>4, <1>5

(* The invariant of the schedule is inductive.                             *)
LEMMA ScheduleInductive == Spec => []ScheduleIInv
<1>1. Init => FiresAreRecent /\ RunIsOwed
  <2> SUFFICES ASSUME Init PROVE FiresAreRecent /\ RunIsOwed
    OBVIOUS
  <2>1. fires = {} /\ ran = 1 /\ utc.hour = 0
    BY DEF Init
  <2> QED
    BY <2>1 DEF FiresAreRecent, RunIsOwed, Waits, FirstCronHour
<1>2. ScheduleIInv /\ [Next]_vars => FiresAreRecent' /\ RunIsOwed'
  <2> SUFFICES ASSUME ScheduleIInv, [Next]_vars PROVE FiresAreRecent' /\ RunIsOwed'
    OBVIOUS
  <2>1. CASE HourPasses
    BY <2>1, FiresStep, OwedStep DEF ScheduleIInv
  <2>2. CASE Fire
    BY <2>2, FireStep
  <2>3. CASE UNCHANGED vars
    BY <2>3 DEF vars, ScheduleIInv, FiresAreRecent, RunIsOwed, Waits, FirstCronHour
  <2> QED
    BY <2>1, <2>2, <2>3 DEF Next
<1>3. Init /\ ClocksAgree => ScheduleIInv
  BY <1>1 DEF ScheduleIInv
<1>4. ScheduleIInv /\ [Next]_vars /\ ClocksAgree' => ScheduleIInv'
  BY <1>2 DEF ScheduleIInv
<1> QED
  BY <1>3, <1>4, ClocksAgreeAlways, PTL DEF Spec

(* In whatever order the two fires of a Friday are delivered and however   *)
(* late within a day, also after midnight: when both are, the job has run, *)
(* and never twice, in every year and for any bound on the delay           *)
(* (schedule.go:7-15).                                                     *)
THEOREM TheJobRunsOnceAFriday == Spec => []OneRunAFriday
<1>1. ScheduleIInv => OneRunAFriday
  BY DEF ScheduleIInv, RunIsOwed, OneRunAFriday, Waits
<1> QED
  BY <1>1, ScheduleInductive, PTL
=============================================================================
