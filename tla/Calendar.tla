------------------------------ MODULE Calendar ------------------------------
(***************************************************************************)
(* Days of the proleptic Gregorian calendar as integers (day 1 is           *)
(* 0001-01-01), and date arithmetic on them as Go's time package does it:   *)
(* months and days outside of their range carry over into the next unit.    *)
(* (Functions, because TLC evaluates their arguments only once.)            *)
(***************************************************************************)
EXTENDS Integers

Leap(y) == y % 4 = 0 /\ (y % 100 # 0 \/ y % 400 = 0)

DaysBefore == <<0, 31, 59, 90, 120, 151, 181, 212, 243, 273, 304, 334>>

\* The days of the years before year y.
YearsBefore(y) == 365 * (y - 1) + (y - 1) \div 4 - (y - 1) \div 100 + (y - 1) \div 400

\* The day <<year, month, day>>, where month is one of the calendar.
DayIn[t \in Int \X (1..12) \X Int] ==
    YearsBefore(t[1]) + DaysBefore[t[2]] + (IF t[2] > 2 /\ Leap(t[1]) THEN 1 ELSE 0) + t[3]

\* m and d may lie outside of the calendar.
DayNumber(y, m, d) == DayIn[<<y + (m - 1) \div 12, ((m - 1) % 12) + 1, d>>]

Year[n \in Int] == CHOOSE y \in (n \div 366) .. (n \div 365 + 1) :
                       DayIn[<<y, 1, 1>>] <= n /\ n < DayIn[<<y + 1, 1, 1>>]

Month[n \in Int] == CHOOSE m \in 1..12 : /\ DayIn[<<Year[n], m, 1>>] <= n
                                         /\ n < DayNumber(Year[n], m + 1, 1)

DayOfMonth(n) == n - DayIn[<<Year[n], Month[n], 1>>] + 1

\* time.Time.AddDate
AddDate(n, years, months, days) ==
    DayNumber(Year[n] + years, Month[n] + months, DayOfMonth(n) + days)

=============================================================================
