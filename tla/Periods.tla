------------------------------- MODULE Periods -------------------------------
(***************************************************************************)
(* The calendar of rca/period_analysis.py: buckets, and the two windows a  *)
(* comparison resolves to.  A moment is a number of ticks since the first  *)
(* of January of FirstYear; a tick is the resolution of the clock.         *)
(***************************************************************************)
EXTENDS Integers

CONSTANTS
    FirstYear, LastYear,   \* the calendar; moments keep a year's distance from its start
    TicksPerDay

ASSUME PeriodsAssumption ==
    FirstYear \in Nat /\ LastYear \in Nat /\ FirstYear < LastYear /\ TicksPerDay \in Nat \ {0}

Years == FirstYear..(LastYear + 2)
IsLeap(y) == (y % 4 = 0 /\ y % 100 # 0) \/ y % 400 = 0

\* The day a year, and a month of it, starts on.
YearStart[y \in Years] ==
    IF y = FirstYear THEN 0 ELSE YearStart[y - 1] + (IF IsLeap(y - 1) THEN 366 ELSE 365)
MonthStart(y, m) ==
    YearStart[y] + <<0, 31, 59, 90, 120, 151, 181, 212, 243, 273, 304, 334>>[m]
        + (IF m > 2 /\ IsLeap(y) THEN 1 ELSE 0)

\* The year and the month of a day.
Days == 0..(YearStart[LastYear + 2] - 1)
YearOfDay[day \in Days] ==
    CHOOSE y \in Years \ {LastYear + 2} : YearStart[y] <= day /\ day < YearStart[y + 1]
MonthOfDay[day \in Days] ==
    CHOOSE m \in 1..12 :
        /\ MonthStart(YearOfDay[day], m) <= day
        /\ m = 12 \/ day < MonthStart(YearOfDay[day], m + 1)

DayOf(t) == t \div TicksPerDay
\* Where a moment may be, so that the buckets around its own are in the calendar.
Covered(t) ==
    YearStart[FirstYear + 1] * TicksPerDay <= t /\ t < YearStart[LastYear + 1] * TicksPerDay
YearOf(t) == YearOfDay[DayOf(t)]
MonthOf(t) == MonthOfDay[DayOf(t)]
IsLeapDay(t) ==
    MonthOf(t) = 2 /\ DayOf(t) = MonthStart(YearOf(t), 2) + 28

\* Monday is 0, as for datetime.weekday; the first of January 2000 was a Saturday.
WeekdayOfStart(y) == (5 + 365 * (y - 2000) + (y - 2000 + 3) \div 4) % 7
Weekday(t) == (WeekdayOfStart(FirstYear) + DayOf(t)) % 7

\* min and max of the time column.
Oldest(moments) == CHOOSE t \in moments : \A u \in moments : t <= u
Newest(moments) == CHOOSE t \in moments : \A u \in moments : u <= t

Grain == {"day", "week", "month", "quarter", "year"}
Frequency == Grain \cup {"unknown"}

-----------------------------------------------------------------------------
FirstOf(y, m) == MonthStart(y, m) * TicksPerDay

\* _add_months: the first of the month so many months on.
MonthNumber(k) == FirstOf(k \div 12, (k % 12) + 1)
AddMonths(t, n) == MonthNumber(12 * YearOf(t) + MonthOf(t) - 1 + n)

BucketStart(t, grain) ==
    CASE grain = "day" -> DayOf(t) * TicksPerDay
      [] grain = "week" -> (DayOf(t) - Weekday(t)) * TicksPerDay
      [] grain \in {"month", "quarter", "year"} ->
            FirstOf(YearOf(t), CASE grain = "month" -> MonthOf(t)
                                 [] grain = "quarter" -> 3 * ((MonthOf(t) - 1) \div 3) + 1
                                 [] grain = "year" -> 1)

\* shift_bucket.  Months and quarters land on a first; a year keeps day and hour,
\* which for the 29th of February is a ValueError in most years.
Shift(t, grain, n) ==
    CASE grain = "day" -> t + n * TicksPerDay
      [] grain = "week" -> t + 7 * n * TicksPerDay
      [] grain \in {"month", "quarter"} -> AddMonths(t, IF grain = "month" THEN n ELSE 3 * n)
      [] grain = "year" ->
            FirstOf(YearOf(t) + n, MonthOf(t)) + t - FirstOf(YearOf(t), MonthOf(t))
ShiftRaises(t, grain, n) ==
    grain = "year" /\ IsLeapDay(t) /\ ~IsLeap(YearOf(t) + n)

BucketEnd(start, grain) == Shift(start, grain, 1)

\* bucket_is_complete: would one more observation lie past the bucket?
BucketIsComplete(newest, end, frequency) ==
    frequency = "unknown" \/ Shift(newest, frequency, 1) >= end

-----------------------------------------------------------------------------
\* A resolution: two half-open windows, and the unfinished one that was left out.
Window(start, end) == [start |-> start, end |-> end]
Nothing == Window(0, 0)
In(t, window) == window.start <= t /\ t < window.end
Failed(how) == [failed |-> how, current |-> Nothing, previous |-> Nothing, excluded |-> Nothing]
Windows(current, previous, excluded) ==
    [failed |-> "no", current |-> current, previous |-> previous, excluded |-> excluded]

\* _resolve_custom: last days are inclusive; the previous window may be left out.
\* A moment that is not given is -1.
ResolveCustom(config) ==
    LET end == config.currentEnd + TicksPerDay
        given == config.previousStart >= 0 /\ config.previousEnd >= 0
        start == IF given THEN config.previousStart
                 ELSE config.currentStart - (end - config.currentStart)
        stop == IF given THEN config.previousEnd + TicksPerDay ELSE config.currentStart
    IN  IF \/ config.currentStart < 0 \/ config.currentEnd < 0
           \/ end <= config.currentStart
           \/ given /\ stop <= start
           \/ stop > config.currentStart
        THEN Failed("RCA_CUSTOM_PERIOD_INVALID")
        ELSE Windows(Window(config.currentStart, end), Window(start, stop), Nothing)

\* _resolve_equal_span.  Half of an odd span is rounded to an even number of ticks.
ResolveEqualSpan(oldest, newest) ==
    LET span == newest + 1 - oldest
        half == IF span % 2 = 0 THEN span \div 2 ELSE 2 * ((span + 1) \div 4)
    IN  Windows(Window(oldest + half, newest + 1), Window(oldest, oldest + half), Nothing)

\* An unfinished bucket gives way, unless it is the only one.
\* Mutant: even then.
StepsBackAlways(anchor, before, grain, frequency, oldest, newest) ==
    ~BucketIsComplete(newest, BucketEnd(anchor, grain), frequency)
StepsBack(anchor, before, grain, frequency, oldest, newest) ==
    /\ ~BucketIsComplete(newest, BucketEnd(anchor, grain), frequency)
    /\ before >= BucketStart(oldest, grain)

\* resolve_periods for a calendar grain: the newest row's bucket and the one before it,
\* or both one bucket earlier.
Ending(start, grain, excluded) ==
    Windows(Window(start, BucketEnd(start, grain)), Window(Shift(start, grain, -1), start),
            excluded)
Anchored(anchor, before, grain, frequency, oldest, newest) ==
    IF StepsBack(anchor, before, grain, frequency, oldest, newest)
    THEN Ending(before, grain, Window(anchor, BucketEnd(anchor, grain)))
    ELSE Ending(anchor, grain, Nothing)
ResolveCalendar(anchor, grain, frequency, oldest, newest) ==
    Anchored(anchor, Shift(anchor, grain, -1), grain, frequency, oldest, newest)

\* resolve_grain and resolve_periods.  "period" defers to the detected frequency.
ResolvePeriods(comparison, config, frequency, oldest, newest) ==
    LET grain == IF comparison = "period" THEN frequency ELSE comparison
    IN  CASE comparison = "custom" -> ResolveCustom(config)
          [] comparison # "custom" /\ grain = "unknown" -> ResolveEqualSpan(oldest, newest)
          [] OTHER ->
               IF frequency # "unknown" /\ ShiftRaises(newest, frequency, 1)
               THEN Failed("ValueError")
               ELSE ResolveCalendar(BucketStart(newest, grain), grain, frequency, oldest, newest)
=============================================================================
