---------------------------- MODULE Enrollments ----------------------------
(***************************************************************************)
(* EnrollmentsService: create, updateStatus and remove.                    *)
(***************************************************************************)
EXTENDS RosterStore

\* new Date(endDate) is midnight at the start of the last day, so the class
\* counts as ended as soon as its last day has begun.
Ended(row) == row.endDate <= today

\* (mutant) The stored lifecycle status is not looked at.
OpenForEnrollment_StatusOnly(row) == row.status = "ACTIVE" /\ ~Ended(row)

OpenForEnrollment(row) ==
    /\ row.status = "ACTIVE"
    /\ row.lifecycleStatus # "CANCELLED"
    /\ ~Ended(row)

\* create: assertStudentInOrganization.
EnrollReadStudent(r, s, c) ==
    /\ Called(r, "enroll")
    /\ student[s] = "ACTIVE"
    /\ Goto(r, "class", [stu |-> s, cls |-> c])
    /\ UNCHANGED store

\* create: assertClassInOrganization; the entity's capacity is kept.
EnrollReadClass(r) ==
    /\ pc[r] = "class"
    /\ LET f == loc[r] IN
         IF OpenForEnrollment(class[f.cls])
         THEN Goto(r, "count", [stu |-> f.stu, cls |-> f.cls,
                                cap |-> class[f.cls].capacity])
         ELSE Finish(r)
    /\ UNCHANGED store

\* (mutant) One seat too many.
HasSeat_OffByOne(c, cap) == Cardinality(Active(c)) <= cap

\* (mutant) The count filters on the wrong status.
HasSeat_CountsCompleted(c, cap) ==
    Cardinality({s \in Student : enrollment[c][s] = "COMPLETED"}) < cap

HasSeat(c, cap) == Cardinality(Active(c)) < cap

\* create: countBy ACTIVE against the capacity read before.
EnrollCount(r) ==
    /\ pc[r] = "count"
    /\ LET f == loc[r] IN
         IF HasSeat(f.cls, f.cap)
         THEN Goto(r, "existing", [stu |-> f.stu, cls |-> f.cls])
         ELSE Finish(r)
    /\ UNCHANGED store

\* create: only an ACTIVE row counts as an existing enrollment.
EnrollFindExisting(r) ==
    /\ pc[r] = "existing"
    /\ LET f == loc[r] IN
         IF enrollment[f.cls][f.stu] = "ACTIVE"
         THEN Finish(r)
         ELSE Goto(r, "insert", f)
    /\ UNCHANGED store

\* create: the INSERT, under UNIQUE (student_id, class_id).  A row of any
\* status makes it fail, and create does not catch the error.
EnrollInsert(r) ==
    /\ pc[r] = "insert"
    /\ LET f == loc[r] IN
         \/ /\ enrollment[f.cls][f.stu] = "NONE"
            /\ enrollment' = [enrollment EXCEPT ![f.cls][f.stu] = "ACTIVE"]
            /\ Finish(r)
         \/ /\ enrollment[f.cls][f.stu] # "NONE"
            /\ Fail(r)
            /\ UNCHANGED enrollment
    /\ UNCHANGED <<student, class, slots, today>>

\* (mutant) A cancelled enrollment may be reactivated.
AllowedTransitions_Reactivate(from) ==
    CASE from = "ACTIVE"    -> {"ACTIVE", "COMPLETED", "CANCELLED"}
      [] from = "CANCELLED" -> {"ACTIVE"}
      [] OTHER              -> {}

AllowedTransitions(from) ==
    IF from = "ACTIVE" THEN {"ACTIVE", "COMPLETED", "CANCELLED"} ELSE {}

\* updateStatus: findOne and the transition table.
SetStatusRead(r, s, c, target) ==
    /\ Called(r, "setStatus")
    /\ target \in AllowedTransitions(enrollment[c][s])
    /\ Goto(r, "status", [stu |-> s, cls |-> c, target |-> target])
    /\ UNCHANGED store

\* (mutant) remove without the refusal of final statuses.
UnenrollRead_AnyStatus(r, s, c) ==
    /\ Called(r, "unenroll")
    /\ enrollment[c][s] # "NONE"
    /\ Goto(r, "status", [stu |-> s, cls |-> c, target |-> "CANCELLED"])
    /\ UNCHANGED store

\* remove: findOne; COMPLETED is refused, CANCELLED is left as it is.
UnenrollRead(r, s, c) ==
    /\ Called(r, "unenroll")
    /\ enrollment[c][s] \notin {"NONE", "COMPLETED", "CANCELLED"}
    /\ Goto(r, "status", [stu |-> s, cls |-> c, target |-> "CANCELLED"])
    /\ UNCHANGED store

\* save(enrollment): status is the one column a handler changes, so the
\* row ends up with the target whatever was written since it was read.
SaveStatus(r) ==
    /\ pc[r] = "status"
    /\ LET f == loc[r] IN
         enrollment' = [enrollment EXCEPT ![f.cls][f.stu] = f.target]
    /\ Finish(r)
    /\ UNCHANGED <<student, class, slots, today>>

EnrollmentStep(r) ==
    \/ \E s \in Student, c \in Class :
         \/ EnrollReadStudent(r, s, c)
         \/ \E target \in EnrollmentStatus : SetStatusRead(r, s, c, target)
         \/ UnenrollRead(r, s, c)
    \/ EnrollReadClass(r)
    \/ EnrollCount(r)
    \/ EnrollFindExisting(r)
    \/ EnrollInsert(r)
    \/ SaveStatus(r)

=============================================================================
