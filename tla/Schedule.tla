------------------------------ MODULE Schedule ------------------------------
(***************************************************************************)
(* internal/schedule: the gate that makes two UTC crons run the publish    *)
(* job once every Friday at 17:00 Central, over one year of hours.         *)
(*                                                                         *)
(* The clock on the wall in Chicago is external: it is a second clock that *)
(* ticks with UTC and is put forward and back by its own local rule, so    *)
(* that the gate, which computes from UTC alone, has something to be       *)
(* checked against.  Minutes are left out: a cron fires on the hour.       *)
(***************************************************************************)
EXTENDS Integers

CONSTANTS Years,       \* the years the clock may start in
          MaxDelay     \* bound on the hours a fire is delivered late

ASSUME YearsAssumption == Years \subseteq Nat
ASSUME DelayAssumption == MaxDelay \in 0..24

VARIABLES utc,         \* the current hour in UTC
          wall,        \* what the clock on the wall reads in Chicago
          summer,      \* whether that clock stands on daylight time
          fires,       \* scheduled cron fires not yet delivered
          ran          \* runs started since the last Friday 22:00 UTC
                       \* (observation)

vars == <<utc, wall, summer, fires, ran>>

Sunday == 0
Friday == 5
March == 3
November == 11

Hours == [year : Nat, month : 1..12, day : 1..31, hour : 0..23]

-----------------------------------------------------------------------------
(* The calendar (package time): month lengths, weekdays, the next hour.    *)
Leap(year) == year % 4 = 0 /\ (year % 100 # 0 \/ year % 400 = 0)

DaysIn(year, month) ==
    IF month = 2 THEN IF Leap(year) THEN 29 ELSE 28
    ELSE IF month \in {4, 6, 9, 11} THEN 30 ELSE 31

MonthShift == <<0, 3, 2, 5, 0, 3, 5, 1, 4, 6, 2, 4>>

Weekday(year, month, day) ==
    LET y == IF month < 3 THEN year - 1 ELSE year
    IN  (y + y \div 4 - y \div 100 + y \div 400 + MonthShift[month] + day) % 7

NextDay(t) ==
    IF t.day < DaysIn(t.year, t.month) THEN [t EXCEPT !.day = @ + 1]
    ELSE IF t.month < 12 THEN [t EXCEPT !.day = 1, !.month = @ + 1]
    ELSE [t EXCEPT !.day = 1, !.month = 1, !.year = @ + 1]

NextHour(t) ==
    IF t.hour < 23 THEN [t EXCEPT !.hour = @ + 1] ELSE [NextDay(t) EXCEPT !.hour = 0]

-----------------------------------------------------------------------------
(* The gate, as the code computes it.                                      *)
NthSundayOffByAWeek(year, month, n) ==   \* mutant: a month that starts on Sunday
    LET toFirstSunday == 7 - Weekday(year, month, 1)
    IN  1 + toFirstSunday + (n - 1) * 7

NthSundayOfMonth(year, month, n) ==
    LET toFirstSunday == (Sunday - Weekday(year, month, 1) + 7) % 7
    IN  1 + toFirstSunday + (n - 1) * 7

(* Both instants lie in the same year.                                     *)
Before(t, month, day, hour) ==
    \/ t.month < month
    \/ t.month = month /\ t.day < day
    \/ t.month = month /\ t.day = day /\ t.hour < hour

CentralIsDaylight(u) ==
    /\ ~Before(u, March, NthSundayOfMonth(u.year, March, 2), 8)
    /\ Before(u, November, NthSundayOfMonth(u.year, November, 1), 7)

CentralOffset(u) == IF CentralIsDaylight(u) THEN -5 ELSE -6

CentralHour(u) == (u.hour + CentralOffset(u)) % 24

CentralWeekday(u) ==
    LET today == Weekday(u.year, u.month, u.day)
    IN  IF u.hour + CentralOffset(u) < 0 THEN (today - 1) % 7 ELSE today

IsFriday1700Central(u) == CentralWeekday(u) = Friday /\ CentralHour(u) = 17

-----------------------------------------------------------------------------
Init ==
    /\ \E y \in Years :
         /\ utc = [year |-> y, month |-> 1, day |-> 1, hour |-> 0]
         /\ wall = [year |-> y - 1, month |-> 12, day |-> 31, hour |-> 18]
    /\ summer = FALSE
    /\ fires = {}           \* those of the old year's last Friday are
    /\ ran = 1              \* delivered: it has had its run

(* The crons "0 22 * * 5" and "0 23 * * 5" of wrangler.jsonc.              *)
IsCron(u) == Weekday(u.year, u.month, u.day) = Friday /\ u.hour \in {22, 23}

(* The local rule: at two in the morning of the second Sunday of March the *)
(* clock is put forward, of the first Sunday of November put back.         *)
IsSunday(t) == Weekday(t.year, t.month, t.day) = Sunday
PutForward(t) == ~summer /\ t.month = March /\ t.day \in 8..14 /\ t.hour = 2 /\ IsSunday(t)
PutBack(t) == summer /\ t.month = November /\ t.day \in 1..7 /\ t.hour = 2 /\ IsSunday(t)

WallTicks ==
    LET t == NextHour(wall)
    IN  /\ wall' = IF PutForward(t) THEN [t EXCEPT !.hour = 3]
                   ELSE IF PutBack(t) THEN [t EXCEPT !.hour = 1]
                   ELSE t
        /\ summer' = IF PutForward(t) THEN TRUE ELSE IF PutBack(t) THEN FALSE ELSE summer

(* Hours since the fire f of the same week.                                *)
Late(f) == IF utc.day = f.day THEN utc.hour - f.hour ELSE utc.hour + 24 - f.hour

HourPasses ==
    /\ \A f \in fires : Late(f) < MaxDelay
    /\ NextHour(utc).year = utc.year
    /\ utc' = NextHour(utc)
    /\ WallTicks
    /\ fires' = IF IsCron(utc') THEN fires \cup {utc'} ELSE fires
    /\ ran' = IF IsCron(utc') /\ utc'.hour = 22 THEN 0 ELSE ran

FireGatedOnNow ==               \* mutant: the gate asks the current time
    \E f \in fires :
        /\ fires' = fires \ {f}
        /\ ran' = IF IsFriday1700Central(utc) THEN ran + 1 ELSE ran
        /\ UNCHANGED <<utc, wall, summer>>

(* runWeeklyTrigger and Run gate on the event's ScheduledTime.             *)
Fire ==
    \E f \in fires :
        /\ fires' = fires \ {f}
        /\ ran' = IF IsFriday1700Central(f) THEN ran + 1 ELSE ran
        /\ UNCHANGED <<utc, wall, summer>>

Next == HourPasses \/ Fire

Spec == Init /\ [][Next]_vars

-----------------------------------------------------------------------------
(***************************************************************************)
(* Properties.                                                             *)
(***************************************************************************)

(* The gate is open in exactly the hours in which the clock on the wall in *)
(* Chicago reads 17 on a Friday, across both changes of the clock          *)
(* (schedule.go:111-163).                                                  *)
GateReadsTheWall ==
    IsFriday1700Central(utc) <=>
        wall.hour = 17 /\ Weekday(wall.year, wall.month, wall.day) = Friday

FirstCronHour ==
    Weekday(utc.year, utc.month, utc.day) = Friday /\ utc.hour = 22

(* Once both fires of a Friday are scheduled and delivered, exactly one of *)
(* them has run the job, in whatever order they came and however late, the *)
(* same evening or past midnight; and so it stays until the next Friday    *)
(* (schedule.go:7-15).                                                     *)
OneRunAFriday ==
    /\ ran <= 1
    /\ fires = {} /\ ~FirstCronHour => ran = 1

-----------------------------------------------------------------------------
(***************************************************************************)
(* What makes them inductive.                                              *)
(***************************************************************************)
Instant(t) ==
    /\ t \in [year : Int, month : 1..12, day : 1..31, hour : 0..23]
    /\ t.day <= DaysIn(t.year, t.month)

SameDay(s, t) == s.year = t.year /\ s.month = t.month /\ s.day = t.day

(* The clock on the wall reads UTC less the offset the gate computes, on   *)
(* the same day or on the day before.                                      *)
ClocksAgree ==
    LET behind == IF summer THEN 5 ELSE 6
    IN  /\ Instant(utc) /\ Instant(wall)
        /\ utc.year \in Nat
        /\ summer = CentralIsDaylight(utc)
        /\ IF utc.hour >= behind
           THEN SameDay(utc, wall) /\ wall.hour = utc.hour - behind
           ELSE SameDay(utc, NextDay(wall)) /\ wall.hour = utc.hour + 24 - behind

(* The fires not yet delivered are of one Friday, today or yesterday.      *)
FiresAreRecent ==
    \A f \in fires :
        /\ Instant(f) /\ f.year \in Nat
        /\ IsCron(f)
        /\ \/ SameDay(f, utc) /\ f.hour <= utc.hour
           \/ SameDay(NextDay(f), utc)
        /\ \A g \in fires : SameDay(f, g)

(* A run is still to come as long as the fire that opens the gate waits,   *)
(* and none comes after it.                                                *)
Waits == \E f \in fires : IsFriday1700Central(f)

RunIsOwed ==
    /\ ran \in {0, 1}
    /\ Waits => ran = 0
    /\ FirstCronHour => (ran = 1 \/ Waits <=> IsFriday1700Central(utc))
    /\ ~FirstCronHour => ran = 1 \/ Waits

ScheduleIInv == ClocksAgree /\ FiresAreRecent /\ RunIsOwed
=============================================================================
