------------------------------ MODULE Calendar ------------------------------
(***************************************************************************)
(* What a weekly schedule means in dates, as SchedulesService's calendar   *)
(* and ReportsService see it.  A date is the number of its day.            *)
(***************************************************************************)
EXTENDS Integers

\* getDay of a local midnight.
JsDay(d) == d % 7

\* validateCalendarRange.
ValidRange(from, to, max) == from <= to /\ to - from <= max

\* expandSchedule: the days of the range and of the class window, which both
\* include their last day, that are the weekday of the schedule.
EventDates(weekday, start, end, from, to) ==
    LET first == IF start > from THEN start ELSE from
        last == IF end < to THEN end ELSE to
    IN  {d \in first .. last : JsDay(d) = weekday}

\* computeLifecycleStatus.  A date column is the midnight that begins its day,
\* so the last day already counts as COMPLETED, except at that very instant.
LifecycleStatus(cancelled, start, end, today) ==
    IF cancelled THEN "CANCELLED"
    ELSE IF today < start THEN "UPCOMING"
    ELSE IF today < end THEN "ONGOING"
    ELSE "COMPLETED"

=============================================================================
