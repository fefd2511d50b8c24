----------------------------- MODULE Attendance -----------------------------
(***************************************************************************)
(* AttendanceService.updateSessionAttendance: requests that write the      *)
(* attendance sheet of one session, each in one database transaction.      *)
(*                                                                         *)
(* The database is Postgres at READ COMMITTED: a statement sees what is    *)
(* committed and what its own transaction wrote; a written row, and the    *)
(* key of an inserted one, stay locked to the end of the transaction; a    *)
(* statement that fails aborts its transaction, in which then nothing but  *)
(* a rollback succeeds; of transactions that wait for each other one is    *)
(* made to fail.  save() of a loaded row is a SELECT and an UPDATE of the  *)
(* columns in which the entity differs from what was selected.             *)
(***************************************************************************)
EXTENDS Integers, Sequences

CONSTANTS
    Request,        \* slots for requests in flight at the same time
    User,           \* the teacher of the class, and the managers
    Student,
    AttendanceStatus,
    Sheets,         \* the records clients send: sequences of Record
    NoMark, Nobody

ASSUME AttendanceAssumption ==
    /\ NoMark \notin [status: AttendanceStatus, by: User]
    /\ Nobody \notin Request \cup User
    /\ Sheets \subseteq Seq([student: Student, status: AttendanceStatus])

VARIABLES
    enrolled,       \* the students with an ACTIVE enrollment in the class
    attendance,     \* the committed row of each student, or NoMark
    written,        \* what the open transaction of each request wrote
    lock,           \* the request whose transaction has a student's row locked
    pc,             \* where each request is suspended
    user,           \* who sent it, or Nobody
    records,        \* the records it sent
    at,             \* the index of the record its handler is at
    dirty           \* the columns that the UPDATE under way sets

vars == <<enrolled, attendance, written, lock, pc, user, records, at, dirty>>
request == <<user, records>>

Record == [student: Student, status: AttendanceStatus]

\* Of a row: its status, which stands for its note too, and who marked it
\* (marked_by).
Column == {"status", "by"}
Mark == [status: AttendanceStatus, by: User]
NothingWritten == [s \in Student |-> NoMark]

InTransaction == {"find", "insert", "select", "update", "aborted"}
PC == {"idle", "check", "summary", "failed"} \cup InTransaction

Init ==
    /\ enrolled = Student
    /\ attendance = NothingWritten
    /\ written = [r \in Request |-> NothingWritten]
    /\ lock = [s \in Student |-> Nobody]
    /\ pc = [r \in Request |-> "idle"]
    /\ user = [r \in Request |-> Nobody]
    /\ records = [r \in Request |-> <<>>]
    /\ at = [r \in Request |-> 1]
    /\ dirty = [r \in Request |-> {}]

Goto(r, p) == pc' = [pc EXCEPT ![r] = p]

\* The request is answered, and its locals are gone.
Forget(r) ==
    /\ user' = [user EXCEPT ![r] = Nobody]
    /\ records' = [records EXCEPT ![r] = <<>>]
    /\ at' = [at EXCEPT ![r] = 1]
    /\ dirty' = [dirty EXCEPT ![r] = {}]

----------------------------------------------------------------------------
\* The session, which no endpoint cancels, and the role of the caller.
Put(r, u, sheet) ==
    /\ pc[r] = "idle"
    /\ Goto(r, "check")
    /\ user' = [user EXCEPT ![r] = u]
    /\ records' = [records EXCEPT ![r] = sheet]
    /\ UNCHANGED <<enrolled, attendance, written, lock, at, dirty>>

\* assertStudentsEnrolledInClass; countBy changes nothing.
CheckEnrolled(r) ==
    /\ pc[r] = "check"
    /\ IF \A i \in DOMAIN records[r] : records[r][i].student \in enrolled
       THEN Goto(r, "find") /\ UNCHANGED <<request, at, dirty>>
       ELSE Goto(r, "idle") /\ Forget(r)
    /\ UNCHANGED <<enrolled, attendance, written, lock>>

RecordLeft(r) == at[r] <= Len(records[r])

Current(r) == records[r][at[r]].student

\* What the handler assigns to the columns of the row, and what it sees of them.
Entity(r) == [status |-> records[r][at[r]].status, by |-> user[r]]
Visible(r, s) == IF written[r][s] # NoMark THEN written[r][s] ELSE attendance[s]

\* The loop: findOne of the record's row.
Find(r) ==
    /\ pc[r] = "find"
    /\ RecordLeft(r)
    /\ Goto(r, IF Visible(r, Current(r)) = NoMark THEN "insert" ELSE "select")
    /\ UNCHANGED <<enrolled, attendance, written, lock, request, at, dirty>>

\* save of the entity: the SELECT, and the columns in which the two differ.
\* markedAt is always new, so that there is something to update.
SaveSelect(r) ==
    /\ pc[r] = "select"
    /\ dirty' = [dirty EXCEPT ![r] =
                   {k \in Column : Entity(r)[k] # Visible(r, Current(r))[k]}]
    /\ Goto(r, "update")
    /\ UNCHANGED <<enrolled, attendance, written, lock, request, at>>

\* A statement on s waits while another transaction has it locked.
Free(r, s) == lock[s] \in {Nobody, r}

\* (mutant) The record is written outside of the transaction.
Write_Autocommit(r, mark) ==
    /\ attendance' = [attendance EXCEPT ![Current(r)] = mark]
    /\ at' = [at EXCEPT ![r] = @ + 1]
    /\ dirty' = [dirty EXCEPT ![r] = {}]
    /\ Goto(r, "find")
    /\ UNCHANGED <<enrolled, written, lock, request>>

\* A row is written, and on to the next record.
Write(r, mark) ==
    /\ written' = [written EXCEPT ![r][Current(r)] = mark]
    /\ lock' = [lock EXCEPT ![Current(r)] = r]
    /\ at' = [at EXCEPT ![r] = @ + 1]
    /\ dirty' = [dirty EXCEPT ![r] = {}]
    /\ Goto(r, "find")
    /\ UNCHANGED <<enrolled, attendance, request>>

\* save of the entity: the UPDATE of the columns that differed, in the row as
\* it is once it is free.
Updated(r) ==
    LET val(k) == IF k \in dirty[r] THEN Entity(r)[k] ELSE Visible(r, Current(r))[k]
    IN  [status |-> val("status"), by |-> val("by")]

SaveUpdate(r) ==
    /\ pc[r] = "update"
    /\ Free(r, Current(r))
    /\ Write(r, Updated(r))

\* The INSERT violates UNIQUE (session_id, student_id) when the row has been
\* committed since it was looked for.
Insert(r) ==
    /\ pc[r] = "insert"
    /\ Free(r, Current(r))
    /\ \/ attendance[Current(r)] = NoMark /\ Write(r, Entity(r))
       \/ /\ attendance[Current(r)] # NoMark
          /\ Goto(r, "aborted")
          /\ UNCHANGED <<enrolled, attendance, written, lock, request, at, dirty>>

\* (mutant) The connection goes back to the pool with its locks.
Release_Nothing(r) == UNCHANGED lock

Release(r) == lock' = [s \in Student |-> IF lock[s] = r THEN Nobody ELSE lock[s]]

\* (mutant) The failed transaction's writes are not thrown away.
Rollback_KeepsWrites(r, p) ==
    /\ Release(r)
    /\ Forget(r)
    /\ Goto(r, p)
    /\ UNCHANGED <<enrolled, attendance, written>>

Rollback(r, p) ==
    /\ written' = [written EXCEPT ![r] = NothingWritten]
    /\ Release(r)
    /\ Forget(r)
    /\ Goto(r, p)
    /\ UNCHANGED <<enrolled, attendance>>

\* The fallback: its findOne fails as any statement of an aborted
\* transaction does, and dataSource.transaction rolls back and rethrows.
FindRaced(r) ==
    /\ pc[r] = "aborted"
    /\ Rollback(r, "failed")

\* Everything is written: COMMIT.
Commit(r) ==
    /\ pc[r] = "find"
    /\ ~RecordLeft(r)
    /\ attendance' = [s \in Student |-> Visible(r, s)]
    /\ written' = [written EXCEPT ![r] = NothingWritten]
    /\ Release(r)
    /\ Forget(r)
    /\ Goto(r, "summary")
    /\ UNCHANGED enrolled

\* findAttendancesForSession, and the answer.
Summarize(r) ==
    /\ pc[r] = "summary"
    /\ Goto(r, "idle")
    /\ UNCHANGED <<enrolled, attendance, written, lock, request, at, dirty>>

----------------------------------------------------------------------------
\* The statement of r waits for the transaction of q to end.
WaitsFor(r, q) ==
    /\ pc[r] \in {"insert", "update"}
    /\ lock[Current(r)] = q
    /\ q # r

\* r is one of a set of requests that wait for each other in a circle.
InCycle(r) ==
    \E C \in SUBSET Request :
      /\ r \in C
      /\ \A q \in C : (\E p \in C : WaitsFor(q, p)) /\ (\E p \in C : WaitsFor(p, q))

\* Postgres cancels a statement that waits in a circle; the error is not a
\* duplicate key, so the handler rethrows it.
DeadlockDetected(r) ==
    /\ InCycle(r)
    /\ Rollback(r, "idle")

\* The request stops at an await: the connection fails or the process dies.
Abandon(r) ==
    /\ pc[r] \notin {"idle", "failed"}
    /\ Rollback(r, "idle")

\* EnrollmentsService takes a student out of the class.
Unenroll(s) ==
    /\ s \in enrolled
    /\ enrolled' = enrolled \ {s}
    /\ UNCHANGED <<attendance, written, lock, pc, request, at, dirty>>

Step(r) ==
    \/ CheckEnrolled(r) \/ Find(r) \/ SaveSelect(r) \/ SaveUpdate(r)
    \/ Insert(r) \/ FindRaced(r) \/ Commit(r) \/ Summarize(r) \/ DeadlockDetected(r)

Next ==
    \/ \E r \in Request :
         \/ \E u \in User, sheet \in Sheets : Put(r, u, sheet)
         \/ Step(r)
         \/ Abandon(r)
    \/ \E s \in Student : Unenroll(s)

Spec == Init /\ [][Next]_vars

\* A statement that need not wait returns; one that waits for a row lock is in
\* the queue of that lock and gets its turn.
FairSpec ==
    /\ Spec
    /\ \A r \in Request : WF_vars(Step(r)) /\ SF_vars(SaveUpdate(r) \/ Insert(r))

----------------------------------------------------------------------------
(* Type invariant *)

\* Every variable has its type, a request that waits for a statement is at one
\* of its records, and only an open transaction has written or locked anything.
TypeOK ==
    /\ enrolled \subseteq Student
    /\ attendance \in [Student -> Mark \cup {NoMark}]
    /\ written \in [Request -> [Student -> Mark \cup {NoMark}]]
    /\ lock \in [Student -> Request \cup {Nobody}]
    /\ pc \in [Request -> PC]
    /\ user \in [Request -> User \cup {Nobody}]
    /\ records \in [Request -> Seq(Record)]
    /\ at \in [Request -> Nat \ {0}]
    /\ dirty \in [Request -> SUBSET Column]
    /\ \A r \in Request :
         /\ pc[r] \in {"insert", "select", "update"} => RecordLeft(r)
         /\ pc[r] \notin InTransaction =>
              written[r] = NothingWritten /\ \A s \in Student : lock[s] # r

----------------------------------------------------------------------------
(* Properties *)

\* The stored row of every record of a sheet but the first is as user u sent it.
StoredBut1(sheet, u) ==
    \A i \in 2..Len(sheet) :
      attendance[sheet[i].student] = [status |-> sheet[i].status, by |-> u]

\* When every request sends the sheet of the whole class, what is stored is
\* nothing, or the sheet of one request in the name of its user, except for the
\* row that request wrote first.  Of that row another request may have stored
\* the columns that save() found equal just before the other committed; from
\* its first write on the request has a row locked that every sheet contains,
\* and nobody commits in between.
SheetFromOneRequest ==
    \/ attendance = NothingWritten
    \/ /\ \A s \in Student : attendance[s] # NoMark
       /\ \E sheet \in Sheets, u \in User : StoredBut1(sheet, u)

\* Every transaction ends: no locks are left behind and cyclic waits broken.
TransactionsEnd ==
    \A r \in Request : pc[r] \in InTransaction ~> pc[r] \notin InTransaction

\* Losing the race to create a row does not fail the request: the handler
\* updates the row that the other request committed.
DuplicateSurvived == \A r \in Request : pc[r] # "failed"

=============================================================================
