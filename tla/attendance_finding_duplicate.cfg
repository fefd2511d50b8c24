\* attendance.service.ts:366-367: "Concurrent creation raced us on
\* UNIQUE(session_id, student_id). Load the row committed by the other request
\* and update it instead."
SPECIFICATION Spec
CONSTANTS
    Request = {r1, r2}
    User = {u1, u2}
    s1 = s1
    s2 = s2
    s3 = s3
    Student = {s1}
    AttendanceStatus = {"PRESENT", "ABSENT"}
    Sheets <- SingleRecords
    NoMark = none
    Nobody = nobody
CHECK_DEADLOCK FALSE
INVARIANTS
    DuplicateSurvived
