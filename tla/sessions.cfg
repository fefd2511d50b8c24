\* Overlapping generations, with and without edits of the class and its
\* schedule.
SPECIFICATION FairSpec
CONSTANTS
    Request = {r1, r2}
    Date = {7, 8}
    Timetable <- TwoTimetables
    MaxRange = 1
    AheadOfUTC = FALSE
    Edits = {{}, {"class", "schedule"}}
CHECK_DEADLOCK FALSE
INVARIANTS
    TypeOK
    AnswerMeansGenerated
    ReportSound
    CalendarShowsSessions
PROPERTIES
    Answered
