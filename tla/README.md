# EduFlow backend: a formal model

The repository is the backend of a multi-tenant school administration system
(NestJS, TypeORM, PostgreSQL). Every request handler is a chain of awaited
database statements. Outside of a few explicit transactions each statement is
committed on its own, at READ COMMITTED and without row locks, so that requests
interleave at every `await`. Most rules of the system ("a class is never
overbooked", "a confirmed import is processed once") relate rows that one handler
reads in one statement and writes in a later one. These modules model those handlers
statement by statement, say which rules survive the interleavings, which only hold
for one request at a time, and what remains of them otherwise.

Paths below are relative to `src/src/`.

## 1. Inventory

| component | state it keeps | operations | correct when |
|---|---|---|---|
| Enrollments (`enrollments/`) | `enrollments.status`, unique per (student, class) | create, updateStatus, remove | capacity is respected, final statuses stay final |
| Classes (`classes/`) | status, lifecycle status, capacity, dates, teacher | create, update, remove, duplicate | cancelling is final and leaves the class empty; capacity never falls below the enrollments |
| Schedules (`schedules/`) | weekly windows of a class | create, createBulk, update, remove; calendars | no class or teacher is booked twice; a calendar shows what is its reader's |
| Class sessions (`sessions/`) | dated sessions, unique per (class, date) | generate; list | every scheduled date gets one session, reports do not lie |
| Attendance (`attendance/`) | a mark per (session, student) | updateSessionAttendance; sheet | overlapping sheets do not mix, transactions end |
| Import jobs (`imports/`, `students/import`, `teachers/import`) | job, its rows, accounts | preview, confirm | a job is processed once and reports exactly what it made |
| Students, teachers, branches, courses | status, code, the branches of a person | create, update, updateStatus, remove | nothing in use is deactivated, what is retired stays out of use |
| Authentication (`auth/`) | one-time passwords, reset tokens, refresh tokens | registration, login, Google login, refresh, logout, reset | few live passwords, a reset ends the sessions before it, a refresh replaces one session and no other |
| Authorization (`authorization/`, `seeds/`) | roles, permissions, grants, memberships | seed, creation of roles, check | a finished seed serves every role it saw |
| Reports, dashboard (`reports/`, `dashboard/`) | none | queries of several statements | figures fit together although rows change between the statements |
| Exports, mail, health, configuration | none | input and output | |
| Organizations, users | rows made by the others | none or one repository call | |

How they interact: all of them share the tables. Enrollment reads `classes` and
`students`; cancelling a class reads `enrollments` and `schedules`; schedules read
`classes` for the teacher; changing the teacher reads `schedules`; session
generation reads `classes` and `schedules`; attendance reads `enrollments`; imports
create the accounts that `students` and `teachers` create one by one; deleting a course
cascades over its classes, their enrollments and sessions; reports, calendars and lists read
all of these tables in several statements. There are no messages, queues or timers. Hard behaviours are therefore: check-then-act over several
statements; `save()` of an entity read earlier (TypeORM selects the row again and
writes each column that differs, so the older value wins); unique constraints as the only
serialisation; transactions that lock rows, fail and deadlock; loops that commit row by row and
may die half-way. The `hazards` of `PROJECT.json` list them by line.

## 2. Modules

| module | models |
|---|---|
| `RosterStore` | rows shared by enrollment and class endpoints, the frame of a handler, TypeORM's `save` of a class |
| `Enrollments`, `Classes` | the handlers of `enrollments.service.ts` and of `classes.service.ts`, and the schedule endpoints as far as they touch a class |
| `Roster` | the two composed: `Init`, `Next`, properties |
| `Overbooking` | `Roster` with history variables for what overlaps, and what overlapping requests leave of the capacity |
| `Scheduling` | schedule endpoints with their conflict checks, and the change of a class's teacher |
| `Calendar` | what a weekly schedule means in dates: shared by the next and by `Reports` |
| `SessionGeneration` | generation of sessions from schedules, with its fallback |
| `Attendance` | writing of attendance sheets in transactions |
| `ImportLedger` | what an import promises (abstract) |
| `ImportJob` | previews and confirmations of imports; implements `ImportLedger` |
| `Directory` | branches, courses, teachers and students against the classes that refer to them |
| `AuthStore` | accounts, one-time passwords and tokens, the frame of a handler of `auth.service.ts` |
| `OneTimePasswords`, `RefreshSessions` | its endpoints: registration and reset; login, refresh and logout |
| `Authentication` | the two composed: `Init`, `Next`, properties |
| `Authorization` | the seed of roles and permissions, the services that make roles, the two checks of a member |
| `Reports` | reports, calendar, attendance sheet, list of sessions and dashboard while the tables change |
| `RosterProofs`, `SchedulingProofs`, `SessionProofs`, `AttendanceProofs`, `ImportProofs`, `DirectoryProofs`, `AuthenticationProofs` | theorems about the modules of these names (section 5) |
| `AccessProofs` | theorems about `Reports` and about `Authorization`, whose `AuthInit`, `AuthNext` and `AuthSpec` are named so that one module can extend both |
| `MC*` | instances for TLC |

### State and actions

A slot `r` for a request in flight has a program counter `pc[r]` that names the
statement it awaits, and `loc[r]`, a record of the local variables it still needs.
One action is one awaited statement together with the code up to the next `await`.
An early return or a thrown exception is `Finish(r)`. `Abandon(r)` lets any
handler stop at any await: a lost connection, the end of the process, or a check outside the
model's scope that refuses. Data are model values or small numbers: identities,
statuses, capacities, days, minutes. The tables are functions or sets of records with the
columns that some guard or property reads.

* `Roster`: `save(classEntity)` is `SaveSelect` (the SELECT by primary key, which
  decides the columns to write) and `SaveUpdate`. Of `lifecycle_status` only CANCELLED is
  told from the rest. `Tick` moves the day, because `endDate` is compared with the clock.
* `Overbooking` adds two history variables that no step depends on: `overlapped`, the requests whose class somebody
  else wrote since they read it, and `peak`, the largest capacity a class has had since it was within its capacity and
  nobody worked on it.
* `Scheduling`: a time is a number of minutes in the database and a text in a handler.
  Request texts are `HH:mm`, loaded ones `HH:mm:ss`; `Dto(t) = 2t` and
  `Loaded(t) = 2t + 1` order them as text comparison does. The class's change of state is
  one action here (`ClassSetState`), its interleavings are in `Roster`.
* `SessionGeneration`: a date is a day number, its weekday the remainder modulo 7.
  `edits` is chosen once: it says whether class and schedule are edited in that behaviour.
* `Attendance`: Postgres is modelled as far as the handler depends on it: visibility of own and
  committed writes, locks on rows and on keys of inserted rows, aborted transactions,
  detection of deadlocks. The `save` of a loaded row is `SaveSelect`, which decides the columns to write (`dirty`), and
  `SaveUpdate`, which writes them into the row as it is then: a status or a marker that equals the one selected is
  not written. The status of a row stands for its note too, and `marked_at`, which always differs, is left out.
* `ImportJob`: a row of a file is the two keys it may collide on, code and email; whatever else
  the validators refuse (a cell, a branch) is a refusal in the environment.
  `env`, chosen once, says what may happen around the imports: other writers, rows refused for other reasons,
  crashes, failing statements. `Crash` empties all handlers and keeps the tables. No endpoint changes an email or deletes
  an account, so an email once taken stays taken; but the updates of students and teachers change codes, of imported
  accounts too: `CodeMoved` gives the account of a row another code, `CodeReleased` frees one.
  The refinement of `ImportLedger` maps the tables only.

* `Directory`: branches, courses, teachers and students are rows of one function `item`, because their
  endpoints have the same form: a look for the code, perhaps one for references, a save. A `save` is one step
  here; `Roster` takes it apart. `scope`, chosen once, says which endpoints a
  behaviour calls and whether calls overlap. Foreign keys and the cascade of a course are in `References`
  and `CourseDelete`.
* `Authentication`: expiry is a state of a row and not a date, since the code only compares dates with now.
  A transaction takes effect at its commit, its reads are those of its statements (`old`). Tokens and
  hashes are identities; `Matches` is `bcrypt.compare`, which reads 72 bytes, so that the tokens of one user
  all match and `refresh` rotates the row it found, which need not be that of the token. `met` and the column `past` of a
  session are history: `password` is what the holder of the token proved at sign-in and comes with the token presented,
  `place` the same of the row that was rotated, `borrowed` says that on some refresh the two were not of one row,
  `overlapped` that a request in flight during a reset stored it.
* `Authorization`: one action per statement of the seed, each of which commits. A permission stands for all that the
  same roles hold, and OWNER for ADMIN, whose list is equal. `since` is auxiliary: the roles a run of the seed
  found or made.
* `Reports`: a reader does not change anything, so one at a time is enough; it advances statement by
  statement. Writers are whole operations, reduced to what a read can see of them. The `status` and the life cycle of a
  class are folded into one flag, cancelled or not, which
  `remove` sets together; an update of one of them alone is in `Roster` and `Scheduling` only.

Operators marked `(mutant)` are variants of the definition that follows them with a
plausible mistake. No module uses them; exchanging a definition for its variant must break a property.

## 3. Runs

| run | instance | shows |
|---|---|---|
| `roster_serial` | 1 request slot, 2 students, capacity to 2, 2 end dates, 2 days | capacity, cancellation and history hold for one request at a time; the inductive invariant `SerialInv` as well |
| `roster_race` | 2 slots, 3 students, capacity to 2 | only a request that others overlapped overbooks a class, by capacity or by enrollment, and by less than the number of requests; settled enrollments and closed classes stay so |
| `imports` | 2 slots, a student and a teacher file of 2 rows that share an email, 3 environments, one with other writers that take, change and release codes | one processor per job, exact reports, bounded errors under faults, accepted rows refused only for keys that others have, completion, refinement of the ledger |
| `sessions` | 2 slots, 2 dates, 2 timetables, with and without edits | no date is lost to a race, reports are sound, generation ends |
| `scheduling` | 1 request, 2 classes, 2 teachers, 3 rows, 3 times of one day, lists of 2; and 2 overlapping requests, 1 class, 2 rows, 2 times | no double booking for one request at a time; the schedules of a class that is not ACTIVE are frozen, but for requests that read it before |
| `attendance` | 2 slots, 2 users, 2 sheets of 3 students in different orders that agree on one | but for the first row of a sheet, what is stored is one sheet in the name of one user; transactions end |
| `authentication` | 2 slots, 1 account, 3 one-time passwords, 3 sessions, one reset | as many live passwords as overlapping requests; a reset ends all sessions but of requests in flight; a step adds or removes a session only as its endpoint says |
| `directory` | 2 slots, 3 branches, 2 classes, 2 codes, 2 days, five beginnings | one request at a time nothing in use is deactivated; with overlaps the retired stays out, references stay whole, few branches share a code |
| `reports` | 1 reader, 2 classes, 2 students, 2 teachers, 4 users, 2 days, five beginnings | figures of several statements fit together, calendars stay within what is the reader's |
| `authorization` | 2 seeds, 1 request, 1 user, old and new databases | a seed that ends has served every role it found or made |
| `attendance_finding_duplicate` | 2 slots, 1 student | violated: the fallback for a lost race cannot work |
| `reports_finding_teacher` | 1 reader, no writers beside it | violated: the teacher of a class is refused its summary |

Bounds. Two overlapping requests are enough for every race a handler can lose, because
a handler checks only against the state left by others, and one other request
reaches that state; the theorems of section 5 cover any number of them.
Three students against one or two seats are what
it takes to exceed the bound of `OverbookingBounded` if a check is wrong, and capacities 1 and 2 let an update lower
the capacity while an enrollment is in flight. Three students per sheet, two in different orders, give a first row
whose columns may mix and rows behind it that must not. Three times of day give windows that
are disjoint, touch, overlap and contain each other; two classes and two teachers give every case of a
shared teacher; three schedule rows let a list of two meet a stored row. Two dates give
partial collisions between overlapping generations: one date taken, one free. `load` of `Scheduling`
is chosen once and makes its run of two parts: the promises hold for one request at a time and
need room, the freeze is about overlaps and needs little. Two
rows per file give a row before and one after a failing one, and a repeated email. One account is enough for `Authentication`, where every
statement names one user; three rows of a kind let two overlapping requests add theirs to one that is there, and one reset
tells sessions from before from those after it. In `Directory` three branches let two writers of a code meet a third, and two
classes let a copy outlive its original; two days tell the last day of a class from the day before and
after. In `Reports` two students tell rows from sessions, a second class and teacher tell one's own from another's, and
two days tell what has occurred from what has not. Two seeds and a role made by a request
give every interleaving of a look with somebody else's insert.
Where one instance with every operation is too large the beginnings (`Starts`) divide the endpoints by the
rows they share; `MCDirectory`, `MCAuthentication` and `MCReports` list them.
`MaxDay`, `MaxCapacity`, `MaxPassword`, the sizes of `load`
and `MaxRange` bound the clock, the capacities, the resets, the lists and the ranges.
`CHECK_DEADLOCK FALSE` is set where the system rightly stops: when every job of
`ImportJob` is completed; in `SessionGeneration` and `Attendance`,
whose environment may close the class or unenroll every student; in `Authentication`, where an account may
be suspended when the identities of rows are used up; and in `Reports`, when all classes are deleted and the clock has
reached its bound.

Fairness. `FairSpec` of `ImportJob` and `SessionGeneration` is weak fairness of each
request's own statements: Node keeps serving an accepted request and the database answers.
Nothing is assumed of new requests, edits, faults or crashes. `Attendance` adds
strong fairness for a statement that waits for a row lock: Postgres queues the waiters of
a lock, so one that is free again and again is granted in the end.

## 4. Where code and text disagree

The two violated runs are disagreements with a comment of the repository; `PROJECT.json` quotes
them: the fallback for a lost race in `attendance.service.ts:366` runs in an aborted transaction, and
`reports.service.ts:220` compares the id of a user with that of a teacher. Others met on the way, as they are in the modules:

* Enrollments. Overlapping requests overbook a class, although `enrollments.service.spec.ts:91` tests that a full class
  is refused (`OverbookedByOverlap` says when, `OverbookingBounded` by how much). A cancellation overwrites a completion committed after
  its read, which the comment at `enrollments.service.ts:228-229` excludes (`SettledIsFinal` says what is left of it).
  Enrolling again after a cancellation fails on the unique constraint (117-134).
* Classes. Cancelling races enrollments and schedules (`classes.service.ts:416-440`), and an overlapping `update`
  takes the cancellation back (395). `duplicate` (443) copies branch, course and teacher without asking for their status.
* Schedules. An overlapping creation or change of teacher double-books (`schedules.service.ts:245`,
  `classes.service.ts:385`); a window that starts when a stored one ends is refused, since `20:00` is less
  than `20:00:00` (243), and a schedule can be moved onto its own end (550). The calendar of a student checks the
  class in the query and then shows all classes of the student.
* Sessions. A generation that falls back forgets the dates it had skipped (`class-sessions.service.ts:280`);
  ahead of UTC sessions move by a day (83).
* Attendance. `save` drops a status or a marker that equals the one selected when another is committed in
  between (`attendance.service.ts:341`). It can only happen to the first row a request writes, which is why
  `SheetFromOneRequest` leaves that row out.
* Imports. A job whose process dies stays PROCESSING (`imports.service.ts:188`).
* Directory. A branch's `update` can set INACTIVE without the check that `remove` makes
  (`branches.service.ts:94`). Branches count the last day of a class as in use, teachers do not (115,
  `teachers.service.ts:311`).
* Authentication. A reset token is not tied to the state of its one-time password: it works until it expires (`auth.service.ts:442`).
  `refresh` takes some live row of the user (469), which always matches, so the branch for a mismatch is not reached. Hence a token whose own row was revoked, by a reset too,
  is traded for a new session while another row of the user is live (`borrowed` in `ResetEndsSessions`); two refreshes that found the same row
  give two sessions (`Opens` in `RefreshTradesSessions`); and a logout may revoke another session of the user.
* Reports. The summary of a student counts the sessions that have occurred as the total and the attendance of all
  sessions as recorded; the page of a history has no effect on a raw query; the dashboard counts
  the stored life cycle, which is never ONGOING or COMPLETED (`classes.service.ts:92-96`).

## 5. Proofs

Every safety invariant and every action property of section 3 is also a theorem, for all values of the constants
that satisfy the assumption of its module: any number of requests, classes, students, rows and days. Each proof
module has the same layout: what an operator or a table is (`FrameTable`, the frame of
each program counter), the inductive invariant, one lemma per operation that says the invariant survives it,
and the theorems. An invariant says, next to the property, what a suspended handler
knows (`Knows`, `Known`, `Ready`, ...): the property alone is hardly ever inductive, since a handler that is about to
write must be known to have checked. `TypeOK` ties the shape of `loc[r]` to `pc[r]`,
which lets every action know its locals.

The assumptions on constants are those named in the modules (`RosterAssumption`, `SchedulingAssumption`, ...), which TLC
evaluates in the runs: sets of requests, students, branches or identities of sessions are finite
where something is counted, placeholders such as `NoRow` are no rows, and initial tables are rows with distinct codes.
Some theorems ask for more, and say so: the serial ones of `Roster` for `OneRequest` (elsewhere the
property itself is about one request at a time: `Serial`, `scope.overlap`), `SheetIsOneRequests` for
`WholeSheets` (clients send the sheet of the whole class), and `CalendarShowsSessionsHolds` for a server
that is not ahead of UTC.

| module | theorems | the argument |
|---|---|---|
| `RosterProofs` | `TypeCorrect`, `OverbookingIsBounded`, `SettledStaysFinal`, `ClosedForEver` | `PeakInv` counts the students ACTIVE or about to be against `peak`: only a successful count enlarges that set, by one; it has just seen a free seat, which `peak` is not below, whatever happens to the capacity later; and `OneEachBound` says that the other requests contribute at most one student each. `Settled` and `ClosedForGood` include the absence of requests that could break them, so that the actions alone suffice |
| | `OverbookedByOverlapHolds` | `OverlapInv`: a request that is not `overlapped` knows its class and the count of its students as they are (`SeatsKnown`), so that what it writes fits |
| | `SerialCorrect`, `CapacityIsRespected`, `CancelledClassIsEmpty`, `FinalStatusIsKept`, `CancellationIsKept` | with `OneRequest`: `SerialInv` adds to the promises `HandlerKnows(r)`, what a suspended handler may still rely on, such as a free seat at its INSERT |
| `SchedulingProofs` | `TypeCorrect`, `FrozenUnlessActiveHolds` | `SchedInv` places every row and handler in a class of the load, by an identity that keeps its class; a frozen class stays so because no request that may write it is past its read |
| | `NoClassOverlapHolds`, `NoDoubleBookingHolds` | `SerialInv`: the schedules are `Booked` without overlap and each handler is `Ready` for its next statement, that is, what it has checked so far is still free of clashes. `OverlapClashes`: rows that share time clash in the comparison the code makes, however the texts spell the times |
| `SessionProofs` | `TypeCorrect`, `AnswerMeansGeneratedHolds`, `ReportSoundHolds` | sessions only grow, so what a generation found or inserted stays (`KnownStays`); the numbers of its report are the sizes of disjoint parts of the dates that have one |
| | `SessionsFollowCalendar`, `CalendarShowsSessionsHolds` | `Following`: without edits every handler computes from the class and weekdays as they are; its matched dates are the keys of days the calendar shows (`MatchingShown`). The first theorem holds ahead of UTC as well and says there what is true instead |
| `AttendanceProofs` | `TypeCorrect` | `SheetInv`: a row that a handler updates has been found, what a transaction wrote it has locked, and a lock is only given up with its transaction |
| | `SheetIsOneRequests` | `WholeInv`: in an open transaction each student is written or still on the list. Once a request has written its first row nobody else can commit a whole sheet, so what it selects from then on is what it updates (`UpdatedIsEntity`), and its commit replaces every other mark |
| `ImportProofs` | `TypeCorrect`, `OneProcessorHolds`, `ReportCorrectHolds` | `ImportInv`: a job's rows fit its status (`JobKnows`), whoever holds a code from a file also holds its email, though the code may be another (`KeysWhole`), no two previews or processors share a job (`Apart`), and each handler's counter of successes lies between the rows it has marked and the accounts it has made, which are the same unless statements fail (`RequestKnows`) |
| | `PreviewKeptHolds` | `OnlyKeysRefuse`: only a key that is held sends a row to the catch block. `TakenByAnother`: the row has no account yet and the accepted rows of a file differ in their keys, so whoever holds it did not get it from the file |
| | `ImplementsLedger` | `ImportJob` implements `ImportLedger`: the initial tables map, and every action maps to `Open`, `Claim`, `Make`, `Decide`, `Close` or a stutter, from `ImportInv` |
| `DirectoryProofs` | `TypeCorrect`, `RetiredStaysOutHolds` | references stay whole because the foreign keys are checked at the same statement; `Retired` includes that no request has read the item as ACTIVE |
| | `InUseIsActiveHolds`, `BranchCodesBoundedHolds` | `UseInv`: one request at a time, a handler that is about to deactivate knows that nothing uses the item, one that is about to save a class knows its branch and teacher to be ACTIVE. `ClaimsBounded` counts rows and pending inserts of a code together: a look that finds none leaves at most the pending ones of others |
| `AuthenticationProofs` | `TypeCorrect`, `ResetEndsSessionsHolds` | `AuthInv`: `Meeting` (who is in flight beside a commit of a reset is remembered), `RowsSound` (every live session overlapped, or stands in the place of one with the present password, and is its holder's unless borrowed), `Knows` (what each handler has read of the account, and of the token and the row it is about to trade) |
| | `LiveOtpBoundedHolds`, `RefreshTradesSessionsHolds` | `OwnedInv`: every live one-time password is owned by a request of its own, the last to write one after marking the others, which makes an injection into the requests. `Total` counts the live rows and the requests that have yet to store one (`Carriers`): each lemma `...Trade` says what its step does to the two, from which rows a revocation by id takes (`RevokedOne`) |
| `AccessProofs` | `SummaryConsistentHolds`, `RowsWithinSessionsHolds` | `ReportsInv`: rows of a class that is still there are never removed (`WriterKeeps`), and the sessions with a row are no more than the rows (`RecordedBounded`, a surjection) nor than the sessions; `TallyAddsUp`: four statuses divide the rows |
| | `CalendarScopeHolds` | `CalendarAsks`: the statement that reads the events asks for what the member may see, and an enrollment, once made, stays one as long as its class |
| | `SeedCoversHolds` | `SeedInv`: what each phase of a run leaves behind (`SeederKnows`): permissions that are not left in its first loop are there, then all its roles have a code, then each is served or its code is still to come. Nothing is ever removed, so the phases of other runs do not matter (`OthersKnow`) |

Only model-checked: liveness (`ClaimedCompletes`, `Answered`, `TransactionsEnd`), as the
prover does not treat fairness and ENABLED; and the two properties of section 4 that are violated.
Numbers of sets are compared by the library's theorems on injections, surjections and unions, never by
induction on data.

## 6. Not modelled

Parsing and writing of spreadsheets, exports, mail, health and configuration: input and output.
`updateProfile` of students and teachers writes columns that nothing decides on. Of the guards only what they ask of
a member is in `Authorization`, not how they take it from a request. The two counts of people on the dashboard have the form of the count of
classes that is modelled. Organizations, memberships, roles, permissions and users have services of one repository call or none;
their rows are made by registration, seeds and the teacher services, which are modelled.
Row-level contents (names, notes, rooms, phone numbers) decide nothing that is modelled.
The organization of a row is fixed by the first lookup of each handler and is left out: the models are of one organization,
except that imported emails are unique across all of them and that an account may belong to several.

## 7. Plan

All safety properties are proved. What would say more:

1. Progress without fairness: a variant for each handler of `ImportJob`, `SessionGeneration` and
   `Attendance`, that every statement of its own makes smaller and no other request makes larger, as an action property. With it
   the three liveness properties rest on fairness alone.
2. The numbers of a report of one student and the counts of the dashboard, whose statements run in any order.
3. `Calendar` against a reference of its own, day by day.
