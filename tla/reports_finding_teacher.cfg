\* Nothing is written while a request runs: the teacher is who the class says.
SPECIFICATION Spec
CONSTANTS
    Class = {c1, c2}
    Student = {s1, s2}
    Teacher = {t1, t2}
    User = {owner, teacher, student, visitor}
    RoleName <- MCRoleName
    Profile <- MCProfile
    Marks = {"LATE", "ABSENT"}
    MaxDay = 1
    MaxRange = 366
    Starts <- MCAlone
    NoRow = noRow
    NoProfile = noProfile
    c1 = c1
    c2 = c2
    s1 = s1
    s2 = s2
    t1 = t1
    t2 = t2
    owner = owner
    teacher = teacher
    student = student
    visitor = visitor
INVARIANT
    TeacherReadsOwnClass
