---------------------------- MODULE MCAttendance ----------------------------
(***************************************************************************)
(* Instances of Attendance for TLC.                                        *)
(***************************************************************************)
EXTENDS Attendance, TLC

CONSTANTS s1, s2, s3

Rec(s, status) == [student |-> s, status |-> status]

\* Whole sheets of three students, in two orders: they agree on s1 and differ
\* on the other two.
TwoSheets ==
    {<<Rec(s1, "PRESENT"), Rec(s2, "ABSENT"), Rec(s3, "ABSENT")>>,
     <<Rec(s2, "PRESENT"), Rec(s1, "PRESENT"), Rec(s3, "PRESENT")>>}

\* One record each.
SingleRecords == {<<Rec(s1, a)>> : a \in AttendanceStatus}

=============================================================================
