--------------------------- MODULE BudgetPeriods ---------------------------
(***************************************************************************)
(* The budget periods of internal/proxy/budget.go: PeriodStart and         *)
(* PeriodResetAt, day by day through the calendar of the configured        *)
(* timezone.                                                               *)
(*                                                                         *)
(* Both functions return a midnight of that timezone, so a time is the     *)
(* number of its day, counted from the first day.  time.Date normalises    *)
(* days and months that are out of range: Date(n) is the day it makes of   *)
(* day n of the current month, NextMonth that of day 1 of month m + 1.     *)
(***************************************************************************)
EXTENDS Integers

CONSTANTS Periods,   \* the period names budgets are stored with
          FirstYear, LastYear

VARIABLES today,              \* the number of the day
          year, month, day,   \* local.Date()
          weekday             \* local.Weekday(); 0 is Sunday

periodVars == <<today, year, month, day, weekday>>

Monday == 1

Leap(y) == y % 4 = 0 /\ (y % 100 # 0 \/ y % 400 = 0)

DaysIn(y, m) == CASE m \in {4, 6, 9, 11} -> 30
                  [] m = 2 -> IF Leap(y) THEN 29 ELSE 28
                  [] m \notin {2, 4, 6, 9, 11} -> 31

\* Time starts on the first of a month, on any day of the week.
PeriodsInit ==
    /\ today = 0
    /\ year = FirstYear
    /\ month \in 1 .. 12
    /\ day = 1
    /\ weekday \in 0 .. 6

NextDay ==
    /\ year <= LastYear
    /\ today' = today + 1
    /\ weekday' = (weekday + 1) % 7
    /\ IF day < DaysIn(year, month)
       THEN day' = day + 1 /\ UNCHANGED <<year, month>>
       ELSE /\ day' = 1
            /\ month' = IF month = 12 THEN 1 ELSE month + 1
            /\ year' = IF month = 12 THEN year + 1 ELSE year

PeriodsSpec == PeriodsInit /\ [][NextDay]_periodVars

-----------------------------------------------------------------------------
Date(n) == today - day + n
NextMonth == Date(1) + DaysIn(year, month)

\* Mutant of daysBack: weeks begin on Sunday here, and on Monday at the reset.
daysBackFromSunday == weekday

\* In Go % of a negative number is negative or zero; the + 7 prevents it.
daysBack == (weekday - Monday + 7) % 7

PeriodStart(period) ==
    CASE period = "weekly" -> Date(day - daysBack)
      [] period = "monthly" -> Date(1)
      [] period \notin {"weekly", "monthly"} -> Date(day)

daysToMonday == LET days == (Monday - weekday + 7) % 7
                IN  IF days = 0 THEN 7 ELSE days

PeriodResetAt(period) ==
    CASE period = "weekly" -> Date(day + daysToMonday)
      [] period = "monthly" -> NextMonth
      [] period \notin {"weekly", "monthly"} -> Date(day + 1)

-----------------------------------------------------------------------------
(* Properties. *)

\* A budget resets on the day that was announced and on no other: from one day
\* to the next the period, start and announced reset, stays as it is, or the
\* day is the announced reset and starts the next period.
ResetsAsAnnounced ==
    [][\A p \in Periods :
          IF today' = PeriodResetAt(p)
          THEN PeriodStart(p)' = today'
          ELSE PeriodStart(p)' = PeriodStart(p) /\ PeriodResetAt(p)' = PeriodResetAt(p)
      ]_periodVars
=============================================================================
