------------------------- MODULE SessionGeneration -------------------------
(***************************************************************************)
(* ClassSessionsService.generate: turning the weekly schedule of one class *)
(* into dated sessions, by requests that overlap each other and edits of   *)
(* the class and its schedule.  A date is the number of its day.           *)
(***************************************************************************)
EXTENDS Calendar, FiniteSetsExt

CONSTANTS
    Request,        \* slots for requests in flight at the same time
    Date,           \* the dates of classes and of requests
    Timetable,      \* the weekly schedules a class may have: sets of weekdays
    MaxRange,       \* MAX_GENERATION_RANGE_DAYS
    AheadOfUTC,     \* whether the server's local time is ahead of UTC
    Edits           \* what may be edited in a behaviour: a set of alternatives

DayOfWeek == 0..6

\* The dates are finitely many, numbered without gaps.
ASSUME SessionAssumption ==
    /\ Date \subseteq Nat /\ IsFiniteSet(Date)
    /\ \A d, e \in Date : d .. e \subseteq Date
    /\ Timetable \subseteq SUBSET DayOfWeek
    /\ MaxRange \in Nat
    /\ AheadOfUTC \in BOOLEAN
    /\ Edits \subseteq SUBSET {"class", "schedule"}

VARIABLES
    edits,          \* the alternative chosen for this behaviour
    class,          \* the columns of the class that matter here
    weekdays,       \* the weekdays on which it has a schedule
    sessions,       \* the dates on which it has a session
    pc,             \* where each request is suspended
    loc             \* the local variables of its handler

vars == <<edits, class, weekdays, sessions, pc, loc>>
store == <<edits, class, weekdays, sessions>>

----------------------------------------------------------------------------
ClassRow == [editable: BOOLEAN, taught: BOOLEAN, start: Date, end: Date]

\* cursor.getDay() of a local midnight.
WeekdayOf(d) == d % 7

\* toDateString goes through toISOString: ahead of UTC a local midnight
\* belongs to the day before.
DateKey(d) == IF AheadOfUTC THEN d - 1 ELSE d

Key == {DateKey(d) : d \in Date}

NoFrame == [idle |-> TRUE]
RangeFrame == [start: Date, end: Date, from: Date, to: Date]
WindowFrame == [first: Date, last: Date, on: SUBSET DayOfWeek]
InsertFrame == [dates: SUBSET Key, todo: SUBSET Key, created: Nat, skipped: Nat]

PC == {"idle", "schedules", "existing", "bulk", "row", "answered"}

FrameOf(p) ==
    CASE p = "idle"                         -> {NoFrame}
      [] p = "schedules"                    -> RangeFrame
      [] p = "existing"                     -> WindowFrame
      [] p \in {"bulk", "row", "answered"}  -> InsertFrame

Init ==
    /\ edits \in Edits
    /\ class \in {c \in ClassRow : c.editable /\ c.taught /\ c.start <= c.end}
    /\ weekdays \in Timetable
    /\ sessions = {}
    /\ pc = [r \in Request |-> "idle"]
    /\ loc = [r \in Request |-> NoFrame]

Goto(r, p, f) ==
    /\ pc' = [pc EXCEPT ![r] = p]
    /\ loc' = [loc EXCEPT ![r] = f]

Finish(r) == Goto(r, "idle", NoFrame)

----------------------------------------------------------------------------
(* generate *)

\* The class, and the range of the request.
GenerateReadClass(r, from, to) ==
    /\ pc[r] = "idle"
    /\ class.editable
    /\ class.taught
    /\ from <= to
    /\ to - from <= MaxRange
    /\ Goto(r, "schedules", [start |-> class.start, end |-> class.end,
                             from |-> from, to |-> to])
    /\ UNCHANGED store

\* The schedules, and the intersection of the range with the class window;
\* without the one or the other there is nothing to generate.
GenerateReadSchedules(r) ==
    /\ pc[r] = "schedules"
    /\ LET f == loc[r]
           first == IF f.start > f.from THEN f.start ELSE f.from
           last == IF f.end < f.to THEN f.end ELSE f.to
       IN IF weekdays = {} \/ first > last
          THEN Finish(r)
          ELSE Goto(r, "existing", [first |-> first, last |-> last, on |-> weekdays])
    /\ UNCHANGED store

\* (mutant) The weekday is not looked at.
Matching_EveryDay(f) ==
    {DateKey(d) : d \in {x \in Date : f.first <= x /\ x <= f.last}}

\* The dates of the sessions to be: one a day, however many schedules the
\* weekday has.
Matching(f) ==
    {DateKey(d) : d \in {x \in Date : /\ f.first <= x
                                      /\ x <= f.last
                                      /\ WeekdayOf(x) \in f.on}}

\* findExistingSessionDates, and the split into dates to skip and to create.
GenerateReadExisting(r) ==
    /\ pc[r] = "existing"
    /\ LET dates == Matching(loc[r])
           new == dates \ sessions
           f == [dates |-> dates, todo |-> new, created |-> Cardinality(new),
                 skipped |-> Cardinality(dates \cap sessions)]
       IN Goto(r, IF new = {} THEN "answered" ELSE "bulk", f)
    /\ UNCHANGED store

\* (mutant) The fallback keeps the counts of the bulk insert.
GenerateInsertAll_NoReset(r) ==
    /\ pc[r] = "bulk"
    /\ LET f == loc[r] IN
         IF f.todo \cap sessions = {}
         THEN /\ sessions' = sessions \cup f.todo
              /\ Goto(r, "answered", [f EXCEPT !.todo = {}])
         ELSE Goto(r, "row", f) /\ UNCHANGED sessions
    /\ UNCHANGED <<edits, class, weekdays>>

\* save(entities): one transaction.  UNIQUE (class_id, session_date) rolls
\* it back when another request created one of the dates in between.
GenerateInsertAll(r) ==
    /\ pc[r] = "bulk"
    /\ LET f == loc[r] IN
         IF f.todo \cap sessions = {}
         THEN /\ sessions' = sessions \cup f.todo
              /\ Goto(r, "answered", [f EXCEPT !.todo = {}])
         ELSE /\ Goto(r, "row", [f EXCEPT !.created = 0, !.skipped = 0])
              /\ UNCHANGED sessions
    /\ UNCHANGED <<edits, class, weekdays>>

\* (mutant) The first duplicate ends the loop.
AfterDuplicate_Break(f, d) == [f EXCEPT !.todo = {}, !.skipped = @ + 1]

\* (mutant) The loop does not get past a duplicate.
AfterDuplicate_Retry(f, d) == f

\* (mutant) The counter runs the wrong way.
AfterDuplicate_CountsDown(f, d) == [f EXCEPT !.todo = @ \ {d}, !.skipped = @ - 1]

\* The per-row loop skips a duplicate.
AfterDuplicate(f, d) == [f EXCEPT !.todo = @ \ {d}, !.skipped = @ + 1]

LoopOn(r, f) == Goto(r, IF f.todo = {} THEN "answered" ELSE "row", f)

\* The fallback: one INSERT per row, each committed on its own.
GenerateInsertRow(r) ==
    /\ pc[r] = "row"
    /\ LET f == loc[r]
           d == Min(f.todo)
       IN IF d \in sessions
          THEN LoopOn(r, AfterDuplicate(f, d)) /\ UNCHANGED sessions
          ELSE /\ sessions' = sessions \cup {d}
               /\ LoopOn(r, [f EXCEPT !.todo = @ \ {d}, !.created = @ + 1])
    /\ UNCHANGED <<edits, class, weekdays>>

\* The client has its answer.
Receive(r) ==
    /\ pc[r] = "answered"
    /\ Finish(r)
    /\ UNCHANGED store

----------------------------------------------------------------------------
(* The environment *)

\* ClassesService.update and remove.
EditClass ==
    /\ "class" \in edits
    /\ class' \in {c \in ClassRow : c.start <= c.end}
    /\ UNCHANGED <<edits, weekdays, sessions, pc, loc>>

\* SchedulesService: sessions generated before keep their dates.
EditSchedule ==
    /\ "schedule" \in edits
    /\ weekdays' \in Timetable
    /\ UNCHANGED <<edits, class, sessions, pc, loc>>

\* A request stops at an await: the connection fails or the process dies.
Abandon(r) ==
    /\ pc[r] \notin {"idle", "answered"}
    /\ Finish(r)
    /\ UNCHANGED store

Step(r) ==
    \/ GenerateReadSchedules(r) \/ GenerateReadExisting(r)
    \/ GenerateInsertAll(r) \/ GenerateInsertRow(r)

Next ==
    \/ \E r \in Request :
         \/ \E from, to \in Date : GenerateReadClass(r, from, to)
         \/ Step(r) \/ Receive(r) \/ Abandon(r)
    \/ EditClass
    \/ EditSchedule

Spec == Init /\ [][Next]_vars

\* A request that has been accepted is served: its statements return.
FairSpec == Spec /\ \A r \in Request : WF_vars(Step(r))

----------------------------------------------------------------------------
(* Type invariant *)

\* Every variable has the type of its column or local.
TypeOK ==
    /\ edits \in Edits
    /\ class \in ClassRow
    /\ weekdays \in Timetable
    /\ sessions \subseteq Key
    /\ pc \in [Request -> PC]
    /\ DOMAIN loc = Request
    /\ \A r \in Request : loc[r] \in FrameOf(pc[r])

----------------------------------------------------------------------------
(* Properties *)

\* A request that is answered has a session on every date it matched,
\* whoever created it: losing the race for some dates loses none of the
\* others.
AnswerMeansGenerated ==
    \A r \in Request : pc[r] = "answered" => loc[r].dates \subseteq sessions

\* What the calendar shows of the class between two dates.
CalendarDates(from, to) ==
    UNION {EventDates(w, class.start, class.end, from, to) : w \in weekdays}

\* While the class and its schedule stay as they are, the calendar and the
\* sessions agree, though each has code of its own to lay a schedule out in
\* dates: every session is on a day the calendar shows, and a request that has
\* narrowed its range generates every day the calendar shows in it.
CalendarShowsSessions ==
    edits = {} =>
      /\ \A d \in sessions : d \in CalendarDates(d, d)
      /\ \A r \in Request :
           pc[r] = "existing" => Matching(loc[r]) = CalendarDates(loc[r].first, loc[r].last)

\* A report never overstates: a request that lost the race starts counting
\* again, so no date is counted twice and what it counts exists.
ReportSound ==
    \A r \in Request :
      pc[r] \in {"row", "answered"} =>
        loc[r].created + loc[r].skipped <= Cardinality(loc[r].dates \cap sessions)

\* Every request is answered or ends: the fallback loop terminates.
Answered == \A r \in Request : pc[r] = "row" ~> pc[r] # "row"

=============================================================================
