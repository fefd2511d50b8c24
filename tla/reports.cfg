\* Five beginnings, each with the reads and writes that meet there.  When all classes
\* are deleted and the clock is at its bound, nothing is left to do.
SPECIFICATION Spec
CHECK_DEADLOCK FALSE
CONSTANTS
    Class = {c1, c2}
    Student = {s1, s2}
    Teacher = {t1, t2}
    User = {owner, teacher, student, visitor}
    RoleName <- MCRoleName
    Profile <- MCProfile
    Marks = {"LATE", "ABSENT"}
    MaxDay = 1
    MaxRange = 366
    Starts <- MCStarts
    NoRow = noRow
    NoProfile = noProfile
    c1 = c1
    c2 = c2
    s1 = s1
    s2 = s2
    t1 = t1
    t2 = t2
    owner = owner
    teacher = teacher
    student = student
    visitor = visitor
INVARIANTS
    SummaryConsistent
    RowsWithinSessions
PROPERTIES
    CalendarScope
