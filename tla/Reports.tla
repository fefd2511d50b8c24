------------------------------ MODULE Reports -------------------------------
(***************************************************************************)
(* The reads that take several statements: ReportsService, the calendar of *)
(* SchedulesService, the sheet of AttendanceService, the list of           *)
(* ClassSessionsService and DashboardService, for one organization.  None  *)
(* is a transaction, so every statement sees the tables as they are then.  *)
(* Readers do not disturb each other: one at a time is enough.  Writers    *)
(* are whole operations of the other components.                           *)
(***************************************************************************)
EXTENDS Calendar, FiniteSets

CONSTANTS
    Class, Student, Teacher, User,
    RoleName,       \* the name of a member's role, the same all the while
    Profile,        \* the teacher or student a user is
    Marks,          \* the attendance statuses that sheets carry
    MaxDay,         \* bound: the clock, and the dates of sessions
    MaxRange,       \* MAX_CALENDAR_RANGE_MILLIS, in days
    Starts,         \* what a behaviour starts with
    NoRow, NoProfile

VARIABLES
    scope,          \* the endpoints and writers, and whether they overlap
    class,
    enrollment,     \* the status of each student in each class
    session,        \* one for each class and date, by a constraint
    sheet,          \* the attendance status of each student in each session
    today,
    pc, loc         \* where the reader is suspended, and its local variables

vars == <<scope, class, enrollment, session, sheet, today, pc, loc>>
tables == <<scope, class, enrollment, session, sheet, today>>

----------------------------------------------------------------------------
Date == 0 .. MaxDay
AttendanceStatus == {"PRESENT", "LATE", "ABSENT", "EXCUSED"}
EnrollmentStatus == {"ACTIVE", "COMPLETED", "CANCELLED"}
Session == Class \X Date
ClassRow == [teacher: Teacher, cancelled: BOOLEAN, weekday: 0 .. 6, start: Date, end: Date]

Read == {"classSummary", "studentSummary", "studentSummaryForClass", "history",
         "classStudents", "cards", "calendar", "sheet", "sessions", "dashboard"}
Write == {"session", "record", "enroll", "assign", "cancel", "delete", "tick"}

ASSUME ReportsAssumption ==
    /\ IsFiniteSet(Class) /\ IsFiniteSet(Student)
    /\ MaxDay \in Nat /\ MaxRange \in Nat
    /\ RoleName \in [User -> {"owner", "admin", "teacher", "student", "other"}]
    /\ Profile \in [User -> Teacher \cup Student \cup {NoProfile}]
    /\ User \cap Teacher = {}
    /\ Marks \subseteq AttendanceStatus
    /\ NoRow \notin Nat \cup AttendanceStatus \cup EnrollmentStatus \cup Class
    /\ Starts \subseteq [reads: SUBSET Read, writes: SUBSET Write, overlap: BOOLEAN,
                         class: [Class -> ClassRow \cup {NoRow}],
                         enrollment: [Student \X Class -> EnrollmentStatus \cup {NoRow}]]

NoFrame == [idle |-> TRUE]

Init ==
    /\ \E s \in Starts :
         /\ scope = [reads |-> s.reads, writes |-> s.writes, overlap |-> s.overlap]
         /\ class = s.class
         /\ enrollment = s.enrollment
    /\ session = {}
    /\ sheet = [x \in Session \X Student |-> NoRow]
    /\ today = 0
    /\ pc = "idle"
    /\ loc = NoFrame

Goto(p, f) == pc' = p /\ loc' = f /\ UNCHANGED tables
Called(endpoint) == pc = "idle" /\ endpoint \in scope.reads
Refuse == Goto("refused", loc)

Exists(c) == class[c] # NoRow

RoleKind(u) ==
    CASE RoleName[u] \in {"owner", "admin"} -> "manager"
      [] RoleName[u] \in {"teacher", "student"} -> RoleName[u]
      [] OTHER -> "member"

----------------------------------------------------------------------------
(* Aggregation *)

\* The attendance rows of these sessions and students.
RowsOf(sessions, students) ==
    {x \in sessions \X students : sheet[x] # NoRow}

\* COUNT(*), and COUNT(*) FILTER for each status.
Tally(rows) ==
    [recorded |-> Cardinality(rows),
     of |-> [m \in AttendanceStatus |-> Cardinality({x \in rows : sheet[x] = m})]]

Attended(t) == t.of["PRESENT"] + t.of["LATE"]
Missed(t) == t.of["ABSENT"] + t.of["EXCUSED"]

TallyByStudent(sessions) == [s \in Student |-> Tally(RowsOf(sessions, {s}))]

\* roundRate: hundredths of a percent, halves up; null when there is nothing.
Rate(t) ==
    IF t.recorded = 0 THEN NoRow ELSE (20000 * Attended(t) + t.recorded) \div (2 * t.recorded)

SessionsOf(classes) == {x \in session : x[1] \in classes}
OccurredSessions(classes, day) == {x \in SessionsOf(classes) : x[2] <= day}

----------------------------------------------------------------------------
(* getClassAttendanceSummary *)

ClassSummary(u, c) ==
    /\ Called("classSummary")
    /\ Exists(c)
    /\ Goto("role", [user |-> u, class |-> c])

ClassSummaryRole ==
    /\ pc = "role"
    /\ Goto(IF RoleKind(loc.user) = "manager" THEN "total" ELSE "assigned", loc)

\* The class is looked for with the id of the user as its teacher's.
ClassSummaryAssigned ==
    /\ pc = "assigned"
    /\ IF Exists(loc.class) /\ class[loc.class].teacher = loc.user
       THEN Goto("total", loc) ELSE Refuse

ClassSummaryTotal ==
    /\ pc = "total"
    /\ Goto("recorded", [class |-> loc.class, total |-> Cardinality(SessionsOf({loc.class}))])

\* (mutant) COUNT without DISTINCT.
RecordedSessions_Rows(c) == Cardinality(RowsOf(SessionsOf({c}), Student))

\* COUNT(DISTINCT sessionId) of the attendance rows.
RecordedSessions(c) == Cardinality({x[1] : x \in RowsOf(SessionsOf({c}), Student)})

ClassSummaryRecorded ==
    /\ pc = "recorded"
    /\ Goto("stats", [class |-> loc.class, total |-> loc.total,
                      recorded |-> RecordedSessions(loc.class)])

ClassSummaryStats ==
    /\ pc = "stats"
    /\ Goto("classSummary",
            [class |-> loc.class, total |-> loc.total, recorded |-> loc.recorded,
             tally |-> Tally(RowsOf(SessionsOf({loc.class}), Student))])

----------------------------------------------------------------------------
(* getStudentAttendanceSummary, ...ForClass and getStudentAttendanceHistory *)

Counted == {"ACTIVE", "COMPLETED"}

StudentSummary(s) ==
    /\ Called("studentSummary")
    /\ Goto("classIds", [report |-> "studentSummary", student |-> s])

\* The student and the class are found first.
StudentSummaryForClass(s, c) ==
    /\ Called("studentSummaryForClass")
    /\ Exists(c)
    /\ Goto("oneClass", [report |-> "studentSummary", student |-> s, only |-> c])

\* only is a class, or NoRow for all classes.
StudentHistory(s, only) ==
    /\ Called("history")
    /\ IF only = NoRow
       THEN Goto("classIds", [report |-> "history", student |-> s])
       ELSE Goto("oneClass", [report |-> "history", student |-> s, only |-> only])

\* The day is taken right after, before the next statements.
Reporting(classes) ==
    Goto(loc.report, [student |-> loc.student, classes |-> classes,
                      day |-> today, total |-> NoRow, rest |-> NoRow])

ResolveEnrollmentClassIds ==
    /\ pc = "classIds"
    /\ Reporting({c \in Class : enrollment[<<loc.student, c>>] \in Counted})

\* A class and its enrollments go together, by the cascade.
ResolveSingleClass ==
    /\ pc = "oneClass"
    /\ IF enrollment[<<loc.student, loc.only>>] \in Counted
       THEN Reporting({loc.only}) ELSE Refuse

\* Promise.all: the two statements run in either order; the answer is there
\* when both have returned.
StudentTotal ==
    /\ pc \in {"studentSummary", "history"}
    /\ loc.total = NoRow
    /\ Goto(pc, [loc EXCEPT !.total = Cardinality(OccurredSessions(loc.classes, loc.day))])

StudentSummaryStats ==
    /\ pc = "studentSummary"
    /\ loc.rest = NoRow
    /\ Goto(pc, [loc EXCEPT !.rest = Tally(RowsOf(SessionsOf(loc.classes), {loc.student}))])

\* buildStudentHistoryQuery, whose join of the attendance keeps every session.
HistoryQuery(classes, day) == OccurredSessions(classes, day)

\* The occurred sessions, each with its attendance row or null.  skip and take
\* do not reach getRawMany of a query with joins: every page has all rows.
StudentHistoryRows ==
    /\ pc = "history"
    /\ loc.rest = NoRow
    /\ Goto(pc, [loc EXCEPT !.rest =
                   [x \in HistoryQuery(loc.classes, loc.day) |-> sheet[<<x, loc.student>>]]])

----------------------------------------------------------------------------
(* getClassStudentsAttendance *)

ClassStudents(c, from, to) ==
    /\ Called("classStudents")
    /\ Exists(c)
    /\ Goto("students", [class |-> c, from |-> from, to |-> to])

ClassStudentsEnrolled ==
    /\ pc = "students"
    /\ Goto("classSessions", [class |-> loc.class, from |-> loc.from, to |-> loc.to,
                         students |-> {s \in Student : enrollment[<<s, loc.class>>] = "ACTIVE"}])

ClassStudentsSessions ==
    /\ pc = "classSessions"
    /\ Goto("marks", [class |-> loc.class, students |-> loc.students,
                      sessions |-> {x \in OccurredSessions({loc.class}, today) :
                                      loc.from <= x[2] /\ x[2] <= loc.to}])

\* (mutant) The rows of the class, not of the sessions that were read.
ClassStudentsMarks_OfClass ==
    /\ pc = "marks"
    /\ Goto("classStudents",
            [total |-> Cardinality(loc.sessions),
             rows |-> [s \in loc.students |-> Tally(RowsOf(SessionsOf({loc.class}), {s}))]])

\* A student without rows has zeros.
ClassStudentsMarks ==
    /\ pc = "marks"
    /\ Goto("classStudents",
            [total |-> Cardinality(loc.sessions),
             rows |-> [s \in loc.students |-> TallyByStudent(loc.sessions)[s]]])

----------------------------------------------------------------------------
(* getClassAttendanceCards *)

\* The classes of the filter with their columns; a cancelled class is INACTIVE.
\* Search, order and the slice of a page are left out.
Cards(teachers) ==
    /\ Called("cards")
    /\ LET found == {c \in Class : Exists(c) /\ ~class[c].cancelled /\ class[c].teacher \in teachers}
       IN  Goto("cardCounts", [cards |-> [c \in found |-> class[c]]])

\* getActiveStudentCountsByClass.
StudentCount(c) == Cardinality({s \in Student : enrollment[<<s, c>>] = "ACTIVE"})

\* The row is the class as it was found; its schedules are left out.
ClassAttendanceCard(row, students) ==
    [lifecycle |-> LifecycleStatus(row.cancelled, row.start, row.end, today),
     students |-> students]

CardCounts ==
    /\ pc = "cardCounts"
    /\ Goto("cards",
            [cards |-> [c \in DOMAIN loc.cards |->
                          ClassAttendanceCard(loc.cards[c], StudentCount(c))]])

----------------------------------------------------------------------------
(* getCalendar *)

\* only is the class the query asks for, or NoRow; teacher the one it names.
CalendarCall(u, teacher, only, from, to) ==
    /\ Called("calendar")
    /\ ValidRange(from, to, MaxRange)
    /\ Goto("kind", [user |-> u, teacher |-> teacher, only |-> only, from |-> from, to |-> to])

\* The statement on schedules and classes is next, with these conditions.
Load(teachers, classes) ==
    Goto("load", [user |-> loc.user, teachers |-> teachers, classes |-> classes,
                  from |-> loc.from, to |-> loc.to])

NoEvents == Goto("events", [user |-> loc.user, events |-> {}])

Asked(x, all) == IF x = NoRow THEN all ELSE {x}

CalendarManager ==
    /\ pc = "kind" /\ RoleKind(loc.user) = "manager"
    /\ Load(Asked(loc.teacher, Teacher), Asked(loc.only, Class))

\* A teacher's own id takes the place of the one in the query.
CalendarTeacher ==
    /\ pc = "kind" /\ RoleKind(loc.user) = "teacher"
    /\ IF Profile[loc.user] \in Teacher
       THEN Load({Profile[loc.user]}, Asked(loc.only, Class)) ELSE NoEvents

\* Everybody else is looked for among the students.
CalendarStudent ==
    /\ pc = "kind" /\ RoleKind(loc.user) \in {"student", "member"}
    /\ IF Profile[loc.user] \in Student THEN Goto("enrolled", loc) ELSE NoEvents

EnrolledIn(s) == {c \in Class : enrollment[<<s, c>>] = "ACTIVE"}

\* An empty list of classes is no condition.
InList(classes) == IF classes = {} THEN Class ELSE classes

\* (mutant) The early return for an empty list is missing.
CalendarEnrolled_Always ==
    /\ pc = "enrolled"
    /\ LET classes == EnrolledIn(Profile[loc.user]) IN
         IF loc.only # NoRow /\ loc.only \notin classes
         THEN NoEvents ELSE Load(Teacher, InList(classes))

\* The class of the query is compared, but not passed on.
CalendarEnrolled ==
    /\ pc = "enrolled"
    /\ LET classes == EnrolledIn(Profile[loc.user]) IN
         IF classes = {} \/ (loc.only # NoRow /\ loc.only \notin classes)
         THEN NoEvents ELSE Load(Teacher, InList(classes))

\* loadCalendarSchedules and expandSchedule.
CalendarLoad ==
    /\ pc = "load"
    /\ LET found == {c \in loc.classes : /\ Exists(c) /\ ~class[c].cancelled
                                         /\ class[c].teacher \in loc.teachers}
       IN  Goto("events",
                [user |-> loc.user,
                 events |-> {e \in found \X Date :
                   e[2] \in EventDates(class[e[1]].weekday, class[e[1]].start,
                                      class[e[1]].end, loc.from, loc.to)}])

----------------------------------------------------------------------------
(* getSessionAttendance *)

\* The class is read with the session, before the role and the teacher are.
SessionSheet(u, x) ==
    /\ Called("sheet")
    /\ x \in session
    /\ Goto("sheetRole", [user |-> u, session |-> x, teacher |-> class[x[1]].teacher])

SessionSheetRole ==
    /\ pc = "sheetRole"
    /\ CASE RoleKind(loc.user) = "manager" -> Goto("sheetStudents", loc)
         [] RoleKind(loc.user) = "teacher" -> Goto("sheetTeacher", loc)
         [] OTHER -> Refuse

\* The teachers that are users here are ACTIVE.
SessionSheetTeacher ==
    /\ pc = "sheetTeacher"
    /\ IF Profile[loc.user] = loc.teacher THEN Goto("sheetStudents", loc) ELSE Refuse

SessionSheetStudents ==
    /\ pc = "sheetStudents"
    /\ Goto("sheetMarks", [user |-> loc.user, session |-> loc.session,
            students |-> {s \in Student : enrollment[<<s, loc.session[1]>>] = "ACTIVE"}])

SessionSheetMarks ==
    /\ pc = "sheetMarks"
    /\ Goto("sheet", [user |-> loc.user, session |-> loc.session,
                      students |-> [s \in loc.students |-> sheet[<<loc.session, s>>]]])

----------------------------------------------------------------------------
(* ClassSessionsService.findAll *)

SessionList(c, from, to) ==
    /\ Called("sessions")
    /\ Exists(c) /\ ~class[c].cancelled
    /\ Goto("sessionRows", [class |-> c, from |-> from, to |-> to])

SessionListRows ==
    /\ pc = "sessionRows"
    /\ Goto("sessionMarks", {x \in SessionsOf({loc.class}) : loc.from <= x[2] /\ x[2] <= loc.to})

\* hasAttendance.
SessionListMarks ==
    /\ pc = "sessionMarks"
    /\ Goto("sessions", [x \in loc |-> RowsOf({x}, Student) # {}])

----------------------------------------------------------------------------
(* getStatistics: the statements on classes and attendance run in any order *)

Statistic == {"classes", "lifecycle", "attendance"}

Dashboard ==
    /\ Called("dashboard")
    /\ Goto("dashboard", [x \in Statistic |-> NoRow])

\* The stored column: no statement writes anything but UPCOMING and CANCELLED.
StoredLifecycle(c) == IF class[c].cancelled THEN "CANCELLED" ELSE "UPCOMING"

Counts(x) ==
    LET rows == {c \in Class : Exists(c)} IN
    CASE x = "classes" ->
           [total |-> Cardinality(rows),
            active |-> Cardinality({c \in rows : ~class[c].cancelled})]
      [] x = "lifecycle" ->
           [status \in {"UPCOMING", "ONGOING", "COMPLETED"} |->
              Cardinality({c \in rows : StoredLifecycle(c) = status})]
      [] x = "attendance" -> Tally(RowsOf(session, Student))

DashboardCount(x) ==
    /\ pc = "dashboard"
    /\ loc[x] = NoRow
    /\ Goto(pc, [loc EXCEPT ![x] = Counts(x)])

----------------------------------------------------------------------------
(* The answer is sent, or the request stops at an await *)

Done == pc # "idle" /\ pc' = "idle" /\ loc' = NoFrame /\ UNCHANGED tables

----------------------------------------------------------------------------
(* Writers, each an operation of another component at once *)

Writes(w) ==
    /\ w \in scope.writes
    /\ scope.overlap \/ pc = "idle"
    /\ UNCHANGED <<scope, pc, loc>>

\* SessionGeneration.
AddSession(x) ==
    /\ Writes("session")
    /\ Exists(x[1])
    /\ session' = session \cup {x}
    /\ UNCHANGED <<class, enrollment, sheet, today>>

\* Attendance: nothing compares the date of the session with the day.
Record(x, s, mark) ==
    /\ Writes("record")
    /\ x \in session
    /\ enrollment[<<s, x[1]>>] = "ACTIVE"
    /\ sheet' = [sheet EXCEPT ![<<x, s>>] = mark]
    /\ UNCHANGED <<class, enrollment, session, today>>

\* Enrollments.
Enroll(s, c, status) ==
    /\ Writes("enroll")
    /\ Exists(c)
    /\ enrollment[<<s, c>>] = IF status = "ACTIVE" THEN NoRow ELSE "ACTIVE"
    /\ enrollment' = [enrollment EXCEPT ![<<s, c>>] = status]
    /\ UNCHANGED <<class, session, sheet, today>>

\* ClassesService.update.
Assign(c, t) ==
    /\ Writes("assign")
    /\ Exists(c)
    /\ class' = [class EXCEPT ![c].teacher = t]
    /\ UNCHANGED <<enrollment, session, sheet, today>>

\* ClassesService.remove.
Cancel(c) ==
    /\ Writes("cancel")
    /\ Exists(c)
    /\ \A s \in Student : enrollment[<<s, c>>] # "ACTIVE"
    /\ class' = [class EXCEPT ![c].cancelled = TRUE]
    /\ UNCHANGED <<enrollment, session, sheet, today>>

\* CoursesService.remove: the cascade takes the classes, their enrollments and
\* sessions, and the attendance in them.
Delete(c) ==
    /\ Writes("delete")
    /\ Exists(c)
    /\ class' = [class EXCEPT ![c] = NoRow]
    /\ enrollment' = [x \in Student \X Class |-> IF x[2] = c THEN NoRow ELSE enrollment[x]]
    /\ session' = {x \in session : x[1] # c}
    /\ sheet' = [x \in Session \X Student |-> IF x[1][1] = c THEN NoRow ELSE sheet[x]]
    /\ UNCHANGED today

Tick ==
    /\ Writes("tick")
    /\ today < MaxDay
    /\ today' = today + 1
    /\ UNCHANGED <<class, enrollment, session, sheet>>

----------------------------------------------------------------------------
Call ==
    \/ \E u \in User, c \in Class : ClassSummary(u, c)
    \/ \E s \in Student : \/ StudentSummary(s)
                         \/ \E c \in Class : StudentSummaryForClass(s, c)
                         \/ \E only \in Class \cup {NoRow} : StudentHistory(s, only)
    \/ \E c \in Class, from, to \in Date : ClassStudents(c, from, to) \/ SessionList(c, from, to)
    \/ \E u \in User, x \in Session : SessionSheet(u, x)
    \/ \E teachers \in {Teacher} \cup {{t} : t \in Teacher} : Cards(teachers)
    \/ \E u \in User, teacher \in Teacher \cup {NoRow}, only \in Class \cup {NoRow},
          from, to \in Date : CalendarCall(u, teacher, only, from, to)
    \/ Dashboard

Statement ==
    \/ ClassSummaryRole \/ ClassSummaryAssigned
    \/ ClassSummaryTotal \/ ClassSummaryRecorded \/ ClassSummaryStats
    \/ ResolveEnrollmentClassIds \/ ResolveSingleClass
    \/ StudentTotal \/ StudentSummaryStats \/ StudentHistoryRows
    \/ ClassStudentsEnrolled \/ ClassStudentsSessions \/ ClassStudentsMarks
    \/ CardCounts
    \/ SessionSheetRole \/ SessionSheetTeacher \/ SessionSheetStudents \/ SessionSheetMarks
    \/ SessionListRows \/ SessionListMarks
    \/ CalendarManager \/ CalendarTeacher \/ CalendarStudent
    \/ CalendarEnrolled \/ CalendarLoad
    \/ \E x \in Statistic : DashboardCount(x)

Writer ==
    \/ \E x \in Session : \/ AddSession(x)
                          \/ \E s \in Student, mark \in Marks : Record(x, s, mark)
    \/ \E c \in Class : \/ \E s \in Student, status \in EnrollmentStatus : Enroll(s, c, status)
                        \/ \E t \in Teacher : Assign(c, t)
                        \/ Cancel(c) \/ Delete(c)
    \/ Tick

Next == Call \/ Statement \/ Done \/ Writer

Spec == Init /\ [][Next]_vars

----------------------------------------------------------------------------
(* Properties *)

\* The numbers of a class summary come from three statements.  Whatever is
\* written in between, it counts at least one attendance row for each session it
\* calls recorded, unless the class is gone, for the rows are read last and are
\* never removed; with nothing in between no more sessions are recorded than there
\* are; and there is a rate exactly when something is counted.
SummaryConsistent ==
    pc = "classSummary" =>
      /\ Exists(loc.class) => loc.recorded <= loc.tally.recorded
      /\ ~scope.overlap => loc.recorded <= loc.total
      /\ Attended(loc.tally) + Missed(loc.tally) = loc.tally.recorded
      /\ Rate(loc.tally) = NoRow <=> loc.tally.recorded = 0

\* No student of a class has more recorded sessions than the report counts,
\* although sessions are added and recorded while it is made: the statement
\* on attendance asks for the sessions that were counted.
RowsWithinSessions ==
    pc = "classStudents" =>
      \A s \in DOMAIN loc.rows :
        LET row == loc.rows[s] IN
        /\ row.recorded <= loc.total
        /\ Attended(row) + Missed(row) = row.recorded

\* The calendar of a teacher has only classes that are the teacher's when
\* they are read, whatever the query asks for, and that of a student only
\* classes the student was enrolled in, whatever changes between the
\* statements.
CalendarScope ==
    [][pc # "events" /\ pc' = "events" =>
         \A c \in {e[1] : e \in loc'.events} :
           LET own == Profile[loc'.user] IN
           \/ RoleKind(loc'.user) = "manager"
           \/ RoleKind(loc'.user) = "teacher" /\ class[c].teacher = own
           \/ own \in Student /\ enrollment[<<own, c>>] \in EnrollmentStatus]_vars

\* "If user is a teacher, they can only see reports for classes they teach":
\* the summary is not refused to the teacher of the class.
TeacherReadsOwnClass ==
    ~scope.overlap /\ pc = "refused" /\ "user" \in DOMAIN loc =>
      class[loc.class].teacher # Profile[loc.user]

=============================================================================
