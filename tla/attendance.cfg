\* Two overlapping requests of two users, each for the sheet of all three
\* students, in one of two orders and with statuses that partly agree.
SPECIFICATION FairSpec
CONSTANTS
    Request = {r1, r2}
    User = {u1, u2}
    s1 = s1
    s2 = s2
    s3 = s3
    Student = {s1, s2, s3}
    AttendanceStatus = {"PRESENT", "ABSENT"}
    Sheets <- TwoSheets
    NoMark = none
    Nobody = nobody
CHECK_DEADLOCK FALSE
INVARIANTS
    TypeOK
    SheetFromOneRequest
PROPERTIES
    TransactionsEnd
