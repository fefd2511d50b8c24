----------------------------- MODULE MCReports ------------------------------
(***************************************************************************)
(* Instances of Reports for TLC.                                           *)
(***************************************************************************)
EXTENDS Reports, TLC

CONSTANTS c1, c2, s1, s2, t1, t2, owner, teacher, student, visitor

MCRoleName == (owner :> "owner") @@ (teacher :> "teacher") @@ (student :> "student")
                @@ (visitor :> "other")

MCProfile == (owner :> NoProfile) @@ (teacher :> t1) @@ (student :> s1) @@ (visitor :> NoProfile)

Held(t, weekday) ==
    [teacher |-> t, cancelled |-> FALSE, weekday |-> weekday, start |-> 0, end |-> MaxDay]

\* All in one status, the others in another.
Enrolled(pairs, others) ==
    [x \in Student \X Class |-> IF x \in pairs THEN "ACTIVE" ELSE others]

Start(reads, writes, overlap, classes, enrolled) ==
    [reads |-> reads, writes |-> writes, overlap |-> overlap, enrollment |-> enrolled,
     class |-> [c \in Class |-> IF c \in classes THEN Held(t1, IF c = c1 THEN 0 ELSE 1) ELSE NoRow]]

\* The reports on one class with two students, alone and while it is written; those on
\* one student of two classes; the calendar and the rest while classes and the
\* enrollments of one student change; the sheets and the list of sessions of a class
\* whose teacher and students change.
MCStarts ==
    {Start({"classSummary", "classStudents"}, {"session", "record", "tick", "delete"},
           overlap, {c1}, Enrolled({s1, s2} \X {c1}, NoRow)) : overlap \in BOOLEAN} \cup
    {Start({"studentSummary", "studentSummaryForClass", "history"}, {"session", "record", "tick"},
           TRUE, {c1, c2}, Enrolled({s1} \X {c1, c2}, "COMPLETED")),
     Start({"calendar", "cards", "dashboard"}, {"enroll", "assign", "cancel", "delete"},
           TRUE, {c1, c2}, [Enrolled({}, NoRow) EXCEPT ![<<s2, c1>>] = "COMPLETED",
                                                      ![<<s2, c2>>] = "COMPLETED"]),
     Start({"sheet", "sessions"}, {"session", "record", "enroll", "assign"},
           TRUE, {c1}, Enrolled({s1} \X {c1}, NoRow))}

\* One request and nothing beside it.
MCAlone ==
    {Start({"classSummary"}, {"session", "record"}, FALSE, {c1},
           Enrolled({s1, s2} \X {c1}, NoRow))}

=============================================================================
