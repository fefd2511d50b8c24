---------------------------- MODULE AccessProofs ----------------------------
(***************************************************************************)
(* Theorems about what members get to see and to do: Reports, for every    *)
(* number of classes, students and days, and Authorization, for every      *)
(* number of overlapping seeds and requests.  The two share no state.      *)
(***************************************************************************)
EXTENDS Reports, Authorization, FiniteSetTheorems, TLAPS

(***************************************************************************)
(* Rows and their numbers                                                  *)
(***************************************************************************)

\* The tables have the types of their columns.
TablesTyped ==
    /\ scope.overlap \in BOOLEAN
    /\ class \in [Class -> ClassRow \cup {NoRow}]
    /\ enrollment \in [Student \X Class -> EnrollmentStatus \cup {NoRow}]
    /\ session \subseteq Session
    /\ sheet \in [Session \X Student -> AttendanceStatus \cup {NoRow}]
    /\ today \in Date

\* There are finitely many sessions.
LEMMA SessionsFinite ==
    IsFiniteSet(Session)
<1>1. IsFiniteSet(Class) /\ IsFiniteSet(Date)
  BY ReportsAssumption, FS_Interval DEF Date
<1>2. QED
  BY <1>1, FS_Product DEF Session

\* The attendance rows of some sessions and students are finitely many, and
\* each of them has a status.
LEMMA RowsFinite ==
    ASSUME TablesTyped, NEW X \in SUBSET Session, NEW S \in SUBSET Student
    PROVE  /\ IsFiniteSet(RowsOf(X, S)) /\ Cardinality(RowsOf(X, S)) \in Nat
           /\ \A x \in RowsOf(X, S) : sheet[x] \in AttendanceStatus
<1>1. IsFiniteSet(Session \X Student)
  BY SessionsFinite, ReportsAssumption, FS_Product
<1>2. RowsOf(X, S) \in SUBSET (Session \X Student)
  BY DEF RowsOf
<1>3. IsFiniteSet(RowsOf(X, S)) /\ Cardinality(RowsOf(X, S)) \in Nat
  BY <1>1, <1>2, FS_Subset, FS_CardinalityType
<1>4. \A x \in RowsOf(X, S) : sheet[x] \in AttendanceStatus
  BY <1>2 DEF RowsOf, TablesTyped
<1>5. QED
  BY <1>3, <1>4

\* Two sets that have nothing in common, counted together.
LEMMA CountApart ==
    ASSUME NEW A, NEW B, IsFiniteSet(A), IsFiniteSet(B), A \cap B = {}
    PROVE  /\ IsFiniteSet(A \cup B) /\ Cardinality(A \cup B) \in Nat
           /\ Cardinality(A \cup B) = Cardinality(A) + Cardinality(B)
<1>1. /\ IsFiniteSet(A \cup B)
      /\ Cardinality(A \cup B) = Cardinality(A) + Cardinality(B) - Cardinality(A \cap B)
  BY FS_Union
<1>2. /\ Cardinality(A) \in Nat /\ Cardinality(B) \in Nat /\ Cardinality(A \cup B) \in Nat
  BY <1>1, FS_CardinalityType
<1>3. Cardinality(A \cap B) = 0
  BY FS_EmptySet
<1>4. QED
  BY <1>1, <1>2, <1>3

\* Every row has one status, so those of the four statuses are all of them.
LEMMA TallyAddsUp ==
    ASSUME TablesTyped, NEW R, IsFiniteSet(R), \A x \in R : sheet[x] \in AttendanceStatus
    PROVE  LET t == Tally(R) IN
           /\ t.recorded = Cardinality(R) /\ t.recorded \in Nat
           /\ Attended(t) \in Nat
           /\ Attended(t) + Missed(t) = t.recorded
<1> DEFINE of(m) == {x \in R : sheet[x] = m}
           t == Tally(R)
<1>1. \A m : of(m) \in SUBSET R
  OBVIOUS
<1>2. \A m : IsFiniteSet(of(m))
  BY <1>1, FS_Subset
<1>3. \A m : Cardinality(of(m)) \in Nat
  BY <1>2, FS_CardinalityType
<1>4. of("PRESENT") \cap of("LATE") = {} /\ of("ABSENT") \cap of("EXCUSED") = {}
  OBVIOUS
<1>5. (of("PRESENT") \cup of("LATE")) \cap (of("ABSENT") \cup of("EXCUSED")) = {}
  OBVIOUS
<1>6. R = (of("PRESENT") \cup of("LATE")) \cup (of("ABSENT") \cup of("EXCUSED"))
  BY DEF AttendanceStatus
<1>7. /\ t.recorded = Cardinality(R)
      /\ t.of["PRESENT"] = Cardinality(of("PRESENT"))
      /\ t.of["LATE"] = Cardinality(of("LATE"))
      /\ t.of["ABSENT"] = Cardinality(of("ABSENT"))
      /\ t.of["EXCUSED"] = Cardinality(of("EXCUSED"))
  BY DEF Tally, AttendanceStatus
<1> HIDE DEF of, t
<1>8. /\ IsFiniteSet(of("PRESENT") \cup of("LATE"))
      /\ Cardinality(of("PRESENT") \cup of("LATE"))
           = Cardinality(of("PRESENT")) + Cardinality(of("LATE"))
  BY <1>2, <1>4, CountApart
<1>9. /\ IsFiniteSet(of("ABSENT") \cup of("EXCUSED"))
      /\ Cardinality(of("ABSENT") \cup of("EXCUSED"))
           = Cardinality(of("ABSENT")) + Cardinality(of("EXCUSED"))
  BY <1>2, <1>4, CountApart
<1>10. /\ Cardinality(R) \in Nat
       /\ Cardinality(R) = Cardinality(of("PRESENT") \cup of("LATE"))
                             + Cardinality(of("ABSENT") \cup of("EXCUSED"))
  BY <1>5, <1>6, <1>8, <1>9, CountApart
<1>11. Attended(t) + Missed(t) = t.recorded /\ Attended(t) \in Nat /\ t.recorded \in Nat
  BY <1>3, <1>7, <1>8, <1>9, <1>10 DEF Attended, Missed
<1>12. QED
  BY <1>7, <1>11 DEF t

\* There is a rate exactly when there are rows.
LEMMA RateOfRows ==
    ASSUME NEW t, t.recorded \in Nat, Attended(t) \in Nat
    PROVE  Rate(t) = NoRow <=> t.recorded = 0
<1>1. CASE t.recorded = 0
  BY <1>1 DEF Rate
<1>2. CASE t.recorded # 0
  <2>1. PICK n \in Nat, a \in Nat : n = t.recorded /\ a = Attended(t)
    OBVIOUS
  <2>2. 20000 * a + n \in Nat /\ 2 * n \in Nat /\ 2 * n > 0
    BY <1>2, <2>1
  <2>3. (20000 * a + n) \div (2 * n) \in Nat
    BY <2>2
  <2>4. Rate(t) = (20000 * a + n) \div (2 * n)
    BY <1>2, <2>1 DEF Rate
  <2>5. NoRow \notin Nat
    BY ReportsAssumption
  <2>6. QED
    BY <1>2, <2>3, <2>4, <2>5
<1>3. QED
  BY <1>1, <1>2

\* A row of a product with one student is one session.
LEMMA RowsOfOne ==
    ASSUME TablesTyped, NEW X \in SUBSET Session, NEW s \in Student
    PROVE  Cardinality(RowsOf(X, {s})) <= Cardinality(X)
<1>1. IsFiniteSet(X)
  BY SessionsFinite, FS_Subset
<1>2. IsFiniteSet({s}) /\ Cardinality({s}) = 1
  BY FS_Singleton
<1>3. IsFiniteSet(X \X {s}) /\ Cardinality(X \X {s}) = Cardinality(X) * 1
  BY <1>1, <1>2, FS_Product
<1>4. Cardinality(RowsOf(X, {s})) <= Cardinality(X \X {s})
  BY <1>3, FS_Subset DEF RowsOf
<1>5. Cardinality(X) \in Nat
  BY <1>1, FS_CardinalityType
<1>6. QED
  BY <1>3, <1>4, <1>5

\* The sessions that have a row are no more than the rows, and no more than the
\* sessions there are.
LEMMA RecordedBounded ==
    ASSUME TablesTyped, NEW c \in Class
    PROVE  /\ RecordedSessions(c) \in Nat
           /\ RecordedSessions(c) <= Cardinality(RowsOf(SessionsOf({c}), Student))
           /\ RecordedSessions(c) <= Cardinality(SessionsOf({c}))
<1> DEFINE rows == RowsOf(SessionsOf({c}), Student)
           recorded == {x[1] : x \in rows}
           first == [x \in rows |-> x[1]]
<1>1. SessionsOf({c}) \in SUBSET Session
  BY DEF SessionsOf, TablesTyped
<1>2. IsFiniteSet(rows)
  BY <1>1, RowsFinite
<1>3. IsFiniteSet(SessionsOf({c}))
  BY <1>1, SessionsFinite, FS_Subset
<1>4. recorded \in SUBSET SessionsOf({c})
  BY DEF RowsOf
<1>5. IsFiniteSet(recorded) /\ Cardinality(recorded) <= Cardinality(SessionsOf({c}))
  BY <1>3, <1>4, FS_Subset
<1>6. first \in Surjection(rows, recorded)
  <2>1. first \in [rows -> recorded]
    OBVIOUS
  <2>2. \A r \in recorded : \E x \in rows : first[x] = r
    OBVIOUS
  <2>3. QED
    BY <2>1, <2>2 DEF Surjection
<1>7. Cardinality(recorded) <= Cardinality(rows)
  <2> HIDE DEF rows, recorded, first
  <2>1. QED
    BY <1>2, <1>6, FS_Surjection
<1>8. Cardinality(recorded) \in Nat
  BY <1>5, FS_CardinalityType
<1>9. QED
  BY <1>5, <1>7, <1>8 DEF RecordedSessions


(***************************************************************************)
(* The invariant                                                           *)
(***************************************************************************)

\* The reports that first find classes are the two on a student.
ReportNamed ==
    pc \in {"classIds", "oneClass"} => loc.report \in {"studentSummary", "history"}

\* What a class summary knows between its three statements: as many sessions
\* as there were, and then no more recorded ones than the class, if it is
\* still there, has.
SummaryKnows ==
    /\ pc \in {"role", "assigned", "total", "recorded", "stats", "classSummary"}
         => loc.class \in Class
    /\ pc = "recorded" /\ ~scope.overlap =>
         loc.total = Cardinality(SessionsOf({loc.class}))
    /\ pc = "stats" =>
         /\ Exists(loc.class) => loc.recorded <= RecordedSessions(loc.class)
         /\ ~scope.overlap => loc.recorded <= loc.total
         /\ loc.recorded \in Nat

\* The report on the students of a class counts rows of sessions that exist.
StudentsKnow ==
    /\ pc = "classSessions" => loc.students \subseteq Student
    /\ pc = "marks" => loc.students \subseteq Student /\ loc.sessions \subseteq Session

\* The statement that the calendar is about to run asks for what the member
\* may see: a manager for anything, a teacher for his own, a student for
\* classes with an enrollment of his as long as they are there.
CalendarAsks ==
    \/ RoleKind(loc.user) = "manager"
    \/ RoleKind(loc.user) = "teacher" /\ loc.teachers = {Profile[loc.user]}
    \/ /\ Profile[loc.user] \in Student
       /\ loc.classes \subseteq Class
       /\ \A c \in loc.classes :
            Exists(c) => enrollment[<<Profile[loc.user], c>>] \in EnrollmentStatus

CalendarKnows ==
    /\ pc = "enrolled" => Profile[loc.user] \in Student
    /\ pc = "load" => CalendarAsks

ReportsInv ==
    /\ TablesTyped
    /\ ReportNamed
    /\ SummaryKnows
    /\ StudentsKnow
    /\ CalendarKnows
    /\ SummaryConsistent
    /\ RowsWithinSessions

\* It holds before the first request.
LEMMA ReportsInvInit ==
    Init => ReportsInv
<1> SUFFICES ASSUME Init PROVE ReportsInv
  OBVIOUS
<1>1. PICK s \in Starts : /\ scope = [reads |-> s.reads, writes |-> s.writes, overlap |-> s.overlap]
                          /\ class = s.class
                          /\ enrollment = s.enrollment
  BY DEF Init
<1>2. s \in [reads: SUBSET Read, writes: SUBSET Write, overlap: BOOLEAN,
             class: [Class -> ClassRow \cup {NoRow}],
             enrollment: [Student \X Class -> EnrollmentStatus \cup {NoRow}]]
  BY ReportsAssumption
<1>3. session = {} /\ sheet = [x \in Session \X Student |-> NoRow] /\ today = 0 /\ pc = "idle"
  BY DEF Init
<1>4. 0 \in Date
  BY ReportsAssumption DEF Date
<1>5. TablesTyped
  BY <1>1, <1>2, <1>3, <1>4 DEF TablesTyped
<1>6. QED
  BY <1>3, <1>5 DEF ReportsInv, ReportNamed, SummaryKnows, StudentsKnow, CalendarKnows,
                    SummaryConsistent, RowsWithinSessions

(***************************************************************************)
(* The writers                                                             *)
(***************************************************************************)

\* A writer does not touch the reader, and only writes beside it when requests
\* may overlap.
LEMMA WriterApart ==
    ASSUME Writer
    PROVE  UNCHANGED <<scope, pc, loc>> /\ (scope.overlap \/ pc = "idle")
<1>1. PICK w : Writes(w)
  BY DEF Writer, AddSession, Record, Enroll, Assign, Cancel, Delete, Tick
<1>2. QED
  BY <1>1 DEF Writes

\* What each writer does to the rows of a class that is there afterwards, and
\* to the enrollments in it: the class was there before, no row of it goes,
\* and an enrollment stays one.
WriterKeeps(c) ==
    Exists(c)' =>
      /\ Exists(c)
      /\ RowsOf(SessionsOf({c}), Student) \subseteq RowsOf(SessionsOf({c}), Student)'
      /\ \A s \in Student : enrollment[<<s, c>>] \in EnrollmentStatus
                              => enrollment'[<<s, c>>] \in EnrollmentStatus

\* A new session takes nothing away.
LEMMA AddSessionKeeps ==
    ASSUME TablesTyped, NEW x \in Session, AddSession(x)
    PROVE  TablesTyped' /\ \A c \in Class : WriterKeeps(c)
<1>1. /\ session' = session \cup {x}
      /\ class' = class /\ enrollment' = enrollment /\ sheet' = sheet /\ today' = today
      /\ scope' = scope
  BY DEF AddSession, Writes
<1>2. TablesTyped'
  BY <1>1 DEF TablesTyped
<1>3. QED
  BY <1>1, <1>2 DEF WriterKeeps, Exists, RowsOf, SessionsOf

\* A recorded mark is a row where there was one or none.
LEMMA RecordKeeps ==
    ASSUME TablesTyped, NEW x \in Session, NEW s \in Student, NEW mark \in Marks,
           Record(x, s, mark)
    PROVE  TablesTyped' /\ \A c \in Class : WriterKeeps(c)
<1>1. /\ sheet' = [sheet EXCEPT ![<<x, s>>] = mark]
      /\ class' = class /\ enrollment' = enrollment /\ session' = session /\ today' = today
      /\ scope' = scope
  BY DEF Record, Writes
<1>2. mark \in AttendanceStatus /\ mark # NoRow
  BY ReportsAssumption
<1>3. TablesTyped'
  BY <1>1, <1>2 DEF TablesTyped
<1>4. \A y \in Session \X Student : sheet[y] # NoRow => sheet'[y] # NoRow
  BY <1>1, <1>2 DEF TablesTyped
<1>5. \A c \in Class : \A y \in SessionsOf({c}) \X Student : y \in Session \X Student
  BY DEF SessionsOf, TablesTyped
<1>6. \A c \in Class : SessionsOf({c})' = SessionsOf({c})
  BY <1>1 DEF SessionsOf
<1>7. \A c \in Class : RowsOf(SessionsOf({c}), Student) \subseteq RowsOf(SessionsOf({c}), Student)'
  BY <1>4, <1>5, <1>6 DEF RowsOf
<1>8. QED
  BY <1>1, <1>3, <1>7 DEF WriterKeeps, Exists

\* Enrolling and what changes an enrollment leave a status.
LEMMA EnrollKeeps ==
    ASSUME TablesTyped, NEW s \in Student, NEW c \in Class, NEW status \in EnrollmentStatus,
           Enroll(s, c, status)
    PROVE  TablesTyped' /\ \A d \in Class : WriterKeeps(d)
<1>1. /\ enrollment' = [enrollment EXCEPT ![<<s, c>>] = status]
      /\ class' = class /\ session' = session /\ sheet' = sheet /\ today' = today
      /\ scope' = scope
  BY DEF Enroll, Writes
<1>2. TablesTyped'
  BY <1>1 DEF TablesTyped
<1>3. \A t \in Student, d \in Class : enrollment[<<t, d>>] \in EnrollmentStatus
                              => enrollment'[<<t, d>>] \in EnrollmentStatus
  BY <1>1 DEF TablesTyped
<1>4. QED
  BY <1>1, <1>2, <1>3 DEF WriterKeeps, Exists, RowsOf, SessionsOf

\* Neither a new teacher nor the end of a class makes a class.
LEMMA ClassWriteKeeps ==
    ASSUME TablesTyped, NEW c \in Class,
           (\E t \in Teacher : Assign(c, t)) \/ Cancel(c)
    PROVE  TablesTyped' /\ \A d \in Class : WriterKeeps(d)
<1>1. /\ Exists(c)
      /\ enrollment' = enrollment /\ session' = session /\ sheet' = sheet /\ today' = today
      /\ scope' = scope
  BY DEF Assign, Cancel, Writes
<1>2. class[c] \in ClassRow
  BY <1>1 DEF TablesTyped, Exists
<1>3. PICK row \in ClassRow : class' = [class EXCEPT ![c] = row]
  <2>1. CASE \E t \in Teacher : Assign(c, t)
    <3>1. PICK t \in Teacher : class' = [class EXCEPT ![c].teacher = t]
      BY <2>1 DEF Assign
    <3>2. [class[c] EXCEPT !.teacher = t] \in ClassRow
      BY <1>2 DEF ClassRow
    <3>3. QED
      BY <3>1, <3>2 DEF TablesTyped
  <2>2. CASE Cancel(c)
    <3>1. class' = [class EXCEPT ![c].cancelled = TRUE]
      BY <2>2 DEF Cancel
    <3>2. [class[c] EXCEPT !.cancelled = TRUE] \in ClassRow
      BY <1>2 DEF ClassRow
    <3>3. QED
      BY <3>1, <3>2 DEF TablesTyped
  <2>3. QED
    BY <2>1, <2>2
<1>4. TablesTyped'
  BY <1>1, <1>3 DEF TablesTyped
<1>5. \A d \in Class : Exists(d)' => Exists(d)
  BY <1>1, <1>3 DEF TablesTyped, Exists
<1>6. QED
  BY <1>1, <1>4, <1>5 DEF WriterKeeps, RowsOf, SessionsOf

\* The cascade takes only what belongs to the class.
LEMMA DeleteKeeps ==
    ASSUME TablesTyped, NEW c \in Class, Delete(c)
    PROVE  TablesTyped' /\ \A d \in Class : WriterKeeps(d)
<1>1. /\ class' = [class EXCEPT ![c] = NoRow]
      /\ enrollment' = [x \in Student \X Class |-> IF x[2] = c THEN NoRow ELSE enrollment[x]]
      /\ session' = {x \in session : x[1] # c}
      /\ sheet' = [x \in Session \X Student |-> IF x[1][1] = c THEN NoRow ELSE sheet[x]]
      /\ today' = today /\ scope' = scope
  BY DEF Delete, Writes
<1>2. TablesTyped'
  BY <1>1 DEF TablesTyped
<1>3. SUFFICES ASSUME NEW d \in Class, Exists(d)'
               PROVE  /\ Exists(d)
                      /\ RowsOf(SessionsOf({d}), Student) \subseteq RowsOf(SessionsOf({d}), Student)'
                      /\ \A s \in Student : enrollment'[<<s, d>>] = enrollment[<<s, d>>]
  BY <1>2 DEF WriterKeeps
<1>4. d # c /\ Exists(d)
  BY <1>1, <1>3 DEF TablesTyped, Exists
<1>5. \A s \in Student : enrollment'[<<s, d>>] = enrollment[<<s, d>>]
  BY <1>1, <1>4
<1>6. \A y \in SessionsOf({d}) \X Student :
        y \in SessionsOf({d})' \X Student /\ sheet'[y] = sheet[y]
  BY <1>1, <1>4 DEF SessionsOf, TablesTyped
<1>7. QED
  BY <1>4, <1>5, <1>6 DEF RowsOf

\* Every writer.
LEMMA WriterStep ==
    ASSUME TablesTyped, Writer
    PROVE  TablesTyped' /\ \A c \in Class : WriterKeeps(c)
<1>1. CASE \E x \in Session : AddSession(x)
  BY <1>1, AddSessionKeeps
<1>2. CASE \E x \in Session, s \in Student, mark \in Marks : Record(x, s, mark)
  BY <1>2, RecordKeeps
<1>3. CASE \E c \in Class, s \in Student, status \in EnrollmentStatus : Enroll(s, c, status)
  BY <1>3, EnrollKeeps
<1>4. CASE \E c \in Class : (\E t \in Teacher : Assign(c, t)) \/ Cancel(c)
  BY <1>4, ClassWriteKeeps
<1>5. CASE \E c \in Class : Delete(c)
  BY <1>5, DeleteKeeps
<1>6. CASE Tick
  <2>1. /\ today' = today + 1 /\ today < MaxDay
        /\ UNCHANGED <<scope, class, enrollment, session, sheet>>
    BY <1>6 DEF Tick, Writes
  <2>2. today' \in Date
    BY <2>1, ReportsAssumption DEF TablesTyped, Date
  <2>3. TablesTyped'
    BY <2>1, <2>2 DEF TablesTyped
  <2>4. QED
    BY <2>1, <2>3 DEF WriterKeeps, Exists, RowsOf, SessionsOf
<1>7. QED
  BY <1>1, <1>2, <1>3, <1>4, <1>5, <1>6 DEF Writer


\* What the reader knows stays true beside the writers.
LEMMA WriterPreserves ==
    ASSUME ReportsInv, Writer
    PROVE  ReportsInv'
<1>1. TablesTyped' /\ \A c \in Class : WriterKeeps(c)
  BY WriterStep DEF ReportsInv
<1>2. TablesTyped
  BY DEF ReportsInv
<1>3. scope' = scope /\ pc' = pc /\ loc' = loc /\ (scope.overlap \/ pc = "idle")
  BY WriterApart
<1>4. ReportNamed' /\ StudentsKnow'
  BY <1>3 DEF ReportsInv, ReportNamed, StudentsKnow
<1>5. SummaryKnows'
  <2>1. SummaryKnows
    BY DEF ReportsInv
  <2>2. pc' \in {"role", "assigned", "total", "recorded", "stats", "classSummary"}
          => loc'.class \in Class
    BY <1>3, <2>1 DEF SummaryKnows
  <2>3. ~(pc' = "recorded" /\ ~scope'.overlap)
    BY <1>3
  <2>4. ASSUME pc' = "stats"
        PROVE  /\ Exists(loc.class)' => loc'.recorded <= RecordedSessions(loc.class)'
               /\ ~scope'.overlap => loc'.recorded <= loc'.total
               /\ loc'.recorded \in Nat
    <3>1. PICK c \in Class : c = loc.class
      BY <1>3, <2>1, <2>4 DEF SummaryKnows
    <3>2. PICK n \in Nat : n = loc.recorded
      BY <1>3, <2>1, <2>4 DEF SummaryKnows
    <3>3. Exists(c) => n <= RecordedSessions(c)
      BY <1>3, <2>1, <2>4, <3>1, <3>2 DEF SummaryKnows
    <3>4. ASSUME Exists(c)' PROVE n <= RecordedSessions(c)'
      <4> DEFINE recorded == {x[1] : x \in RowsOf(SessionsOf({c}), Student)}
      <4>1. /\ Exists(c)
            /\ RowsOf(SessionsOf({c}), Student) \subseteq RowsOf(SessionsOf({c}), Student)'
        BY <1>1, <3>4 DEF WriterKeeps
      <4>2. recorded \subseteq recorded'
        BY <4>1
      <4>3. recorded \subseteq SessionsOf({c}) /\ recorded' \subseteq SessionsOf({c})'
        BY DEF RowsOf
      <4>4. SessionsOf({c})' \subseteq Session
        BY <1>1 DEF SessionsOf, TablesTyped
      <4>5. IsFiniteSet(recorded')
        BY <4>3, <4>4, SessionsFinite, FS_Subset
      <4>6. /\ Cardinality(recorded) <= Cardinality(recorded')
            /\ IsFiniteSet(recorded)
        <5> HIDE DEF recorded
        <5>1. QED
          BY <4>2, <4>5, FS_Subset
      <4>7. Cardinality(recorded) \in Nat /\ Cardinality(recorded') \in Nat
        <5> HIDE DEF recorded
        <5>1. QED
          BY <4>5, <4>6, FS_CardinalityType
      <4>8. /\ RecordedSessions(c) = Cardinality(recorded)
            /\ RecordedSessions(c)' = Cardinality(recorded')
        BY DEF RecordedSessions
      <4> HIDE DEF recorded
      <4>9. QED
        BY <3>3, <4>1, <4>6, <4>7, <4>8
    <3>5. QED
      BY <1>3, <2>4, <3>1, <3>2, <3>4
  <2>5. QED
    BY <2>2, <2>3, <2>4 DEF SummaryKnows
<1>6. CalendarKnows'
  <2>1. CalendarKnows
    BY DEF ReportsInv
  <2>2. PICK own : own = Profile[loc.user]
    OBVIOUS
  <2>3. PICK asked : asked = loc.classes
    OBVIOUS
  <2>4. ASSUME own \in Student, asked \subseteq Class,
               \A c \in asked : Exists(c) => enrollment[<<own, c>>] \in EnrollmentStatus
        PROVE  \A c \in asked : Exists(c)' => enrollment'[<<own, c>>] \in EnrollmentStatus
    BY <1>1, <2>4 DEF WriterKeeps
  <2>5. ASSUME CalendarAsks PROVE CalendarAsks'
    BY <1>3, <2>2, <2>3, <2>4, <2>5 DEF CalendarAsks
  <2>6. QED
    BY <1>3, <2>1, <2>5 DEF CalendarKnows
<1>7. SummaryConsistent' /\ RowsWithinSessions'
  <2>1. RowsWithinSessions'
    BY <1>3 DEF ReportsInv, RowsWithinSessions
  <2>2. SummaryConsistent
    BY DEF ReportsInv
  <2>3. ASSUME pc = "classSummary", Exists(loc.class)' PROVE Exists(loc.class)
    <3>1. PICK c \in Class : c = loc.class
      BY <2>3 DEF ReportsInv, SummaryKnows
    <3>2. Exists(c)'
      BY <1>3, <2>3, <3>1
    <3>3. QED
      BY <1>1, <3>1, <3>2 DEF WriterKeeps
  <2>4. PICK t : t = loc.tally
    OBVIOUS
  <2>5. Rate(t)' = Rate(t) /\ Attended(t)' = Attended(t) /\ Missed(t)' = Missed(t)
    BY DEF Rate, Attended, Missed
  <2>6. QED
    BY <1>3, <2>1, <2>2, <2>3, <2>4, <2>5 DEF SummaryConsistent
<1>8. QED
  BY <1>1, <1>4, <1>5, <1>6, <1>7 DEF ReportsInv


(***************************************************************************)
(* The reader                                                              *)
(***************************************************************************)

\* Where a request starts, and the first thing it remembers.
LEMMA CallStarts ==
    ASSUME Call
    PROVE  /\ UNCHANGED tables
           /\ pc' \in {"role", "classIds", "oneClass", "students", "sessionRows",
                       "sheetRole", "cardCounts", "kind", "dashboard"}
           /\ pc' = "role" => loc'.class \in Class
           /\ pc' \in {"classIds", "oneClass"} => loc'.report \in {"studentSummary", "history"}
<1> DEFINE Starting ==
             /\ UNCHANGED tables
             /\ pc' \in {"role", "classIds", "oneClass", "students", "sessionRows",
                         "sheetRole", "cardCounts", "kind", "dashboard"}
             /\ pc' = "role" => loc'.class \in Class
             /\ pc' \in {"classIds", "oneClass"} => loc'.report \in {"studentSummary", "history"}
<1>1. ASSUME NEW u \in User, NEW c \in Class, ClassSummary(u, c) PROVE Starting
  BY <1>1 DEF ClassSummary, Goto
<1>2. ASSUME NEW s \in Student, StudentSummary(s) PROVE Starting
  BY <1>2 DEF StudentSummary, Goto
<1>3. ASSUME NEW s \in Student, NEW c \in Class, StudentSummaryForClass(s, c) PROVE Starting
  BY <1>3 DEF StudentSummaryForClass, Goto
<1>4. ASSUME NEW s \in Student, NEW only \in Class \cup {NoRow}, StudentHistory(s, only)
      PROVE  Starting
  BY <1>4 DEF StudentHistory, Goto
<1>5. ASSUME NEW c \in Class, NEW from \in Date, NEW to \in Date,
             ClassStudents(c, from, to) \/ SessionList(c, from, to)
      PROVE  Starting
  BY <1>5 DEF ClassStudents, SessionList, Goto
<1>6. ASSUME NEW u \in User, NEW x \in Session, SessionSheet(u, x) PROVE Starting
  BY <1>6 DEF SessionSheet, Goto
<1>7. ASSUME NEW teachers, Cards(teachers) PROVE Starting
  BY <1>7 DEF Cards, Goto
<1>8. ASSUME NEW u, NEW teacher, NEW only, NEW from, NEW to,
             CalendarCall(u, teacher, only, from, to)
      PROVE  Starting
  BY <1>8 DEF CalendarCall, Goto
<1>9. ASSUME Dashboard PROVE Starting
  BY <1>9 DEF Dashboard, Goto
<1>10. Starting
  <2> HIDE DEF Starting
  <2>1. QED
    BY <1>1, <1>2, <1>3, <1>4, <1>5, <1>6, <1>7, <1>8, <1>9 DEF Call
<1>11. QED
  BY <1>10

\* So a request that starts knows enough.
LEMMA CallPreserves ==
    ASSUME ReportsInv, Call
    PROVE  ReportsInv'
<1>1. TablesTyped'
  BY CallStarts DEF ReportsInv, TablesTyped, tables
<1>2. ReportNamed' /\ StudentsKnow' /\ CalendarKnows' /\ RowsWithinSessions'
  BY CallStarts DEF ReportNamed, StudentsKnow, CalendarKnows, RowsWithinSessions
<1>3. SummaryKnows' /\ SummaryConsistent'
  BY CallStarts DEF SummaryKnows, SummaryConsistent
<1>4. QED
  BY <1>1, <1>2, <1>3 DEF ReportsInv

\* The statements of the class summary.
SummaryStatement ==
    \/ ClassSummaryRole \/ ClassSummaryAssigned
    \/ ClassSummaryTotal \/ ClassSummaryRecorded \/ ClassSummaryStats

\* Each knows what the one before it left, and the last has the answer.
LEMMA SummaryPreserves ==
    ASSUME ReportsInv, SummaryStatement
    PROVE  ReportsInv'
<1>1. PICK c \in Class : c = loc.class
  BY DEF ReportsInv, SummaryKnows, SummaryStatement, ClassSummaryRole, ClassSummaryAssigned,
         ClassSummaryTotal, ClassSummaryRecorded, ClassSummaryStats
<1>2. UNCHANGED tables /\ pc' \in {"total", "assigned", "refused", "recorded", "stats", "classSummary"}
  BY DEF SummaryStatement, ClassSummaryRole, ClassSummaryAssigned, ClassSummaryTotal,
         ClassSummaryRecorded, ClassSummaryStats, Goto, Refuse
<1>3. TablesTyped /\ TablesTyped' /\ SummaryKnows
  BY <1>2 DEF ReportsInv, TablesTyped, tables
<1>4. ReportNamed' /\ StudentsKnow' /\ CalendarKnows' /\ RowsWithinSessions'
  BY <1>2 DEF ReportNamed, StudentsKnow, CalendarKnows, RowsWithinSessions
<1>5. SummaryKnows' /\ SummaryConsistent'
  <2>1. CASE ClassSummaryRole \/ ClassSummaryAssigned
    <3>1. pc' \in {"total", "assigned", "refused"} /\ loc' = loc
      BY <2>1 DEF ClassSummaryRole, ClassSummaryAssigned, Goto, Refuse
    <3>2. QED
      BY <1>1, <3>1 DEF SummaryKnows, SummaryConsistent
  <2>2. CASE ClassSummaryTotal
    <3>1. /\ pc' = "recorded"
          /\ loc' = [class |-> c, total |-> Cardinality(SessionsOf({c}))]
      BY <1>1, <2>2 DEF ClassSummaryTotal, Goto
    <3>2. SessionsOf({c})' = SessionsOf({c})
      BY <1>2 DEF SessionsOf, tables
    <3>3. QED
      BY <3>1, <3>2 DEF SummaryKnows, SummaryConsistent
  <2>3. CASE ClassSummaryRecorded
    <3>1. pc = "recorded" /\ pc' = "stats"
      BY <2>3 DEF ClassSummaryRecorded, Goto
    <3>2. loc' = [class |-> c, total |-> loc.total, recorded |-> RecordedSessions(c)]
      BY <1>1, <2>3 DEF ClassSummaryRecorded, Goto
    <3>3. RecordedSessions(c) \in Nat /\ RecordedSessions(c) <= Cardinality(SessionsOf({c}))
      BY <1>3, RecordedBounded
    <3>4. RecordedSessions(c)' = RecordedSessions(c) /\ scope' = scope
      BY <1>2 DEF RecordedSessions, RowsOf, SessionsOf, tables
    <3>5. ~scope.overlap => loc.total = Cardinality(SessionsOf({c}))
      BY <1>1, <1>3, <3>1 DEF SummaryKnows
    <3>6. /\ loc'.class = c /\ loc'.recorded = RecordedSessions(c)
          /\ ~scope.overlap => loc'.recorded <= loc'.total
      BY <3>2, <3>3, <3>5
    <3>7. QED
      BY <3>1, <3>3, <3>4, <3>6 DEF SummaryKnows, SummaryConsistent
  <2>4. CASE ClassSummaryStats
    <3> DEFINE rows == RowsOf(SessionsOf({c}), Student)
    <3>1. pc = "stats" /\ pc' = "classSummary"
      BY <2>4 DEF ClassSummaryStats, Goto
    <3>2. loc' = [class |-> c, total |-> loc.total, recorded |-> loc.recorded,
                  tally |-> Tally(rows)]
      BY <1>1, <2>4 DEF ClassSummaryStats, Goto
    <3>3. PICK t : t = Tally(rows)
      OBVIOUS
    <3>4. SessionsOf({c}) \in SUBSET Session
      BY <1>3 DEF SessionsOf, TablesTyped
    <3>5. IsFiniteSet(rows) /\ \A x \in rows : sheet[x] \in AttendanceStatus
      BY <1>3, <3>4, RowsFinite
    <3>6. /\ t.recorded = Cardinality(rows) /\ t.recorded \in Nat
          /\ Attended(t) \in Nat /\ Attended(t) + Missed(t) = t.recorded
      <4> HIDE DEF rows
      <4>1. QED
        BY <1>3, <3>3, <3>5, TallyAddsUp
    <3>7. Rate(t) = NoRow <=> t.recorded = 0
      BY <3>6, RateOfRows
    <3>8. /\ RecordedSessions(c) \in Nat
          /\ RecordedSessions(c) <= Cardinality(rows)
      BY <1>3, RecordedBounded
    <3>9. /\ Exists(c) => loc.recorded <= RecordedSessions(c)
          /\ ~scope.overlap => loc.recorded <= loc.total
          /\ loc.recorded \in Nat
      BY <1>1, <1>3, <3>1 DEF SummaryKnows
    <3>10. Exists(c) => loc.recorded <= t.recorded
      BY <3>6, <3>8, <3>9
    <3>11. /\ loc'.class = c /\ loc'.tally = t
           /\ loc'.recorded = loc.recorded /\ loc'.total = loc.total
      BY <3>2, <3>3
    <3>12. /\ Exists(c)' = Exists(c) /\ scope' = scope
           /\ Rate(t)' = Rate(t) /\ Attended(t)' = Attended(t) /\ Missed(t)' = Missed(t)
      BY <1>2 DEF Exists, tables, Rate, Attended, Missed
    <3>13. SummaryKnows'
      BY <3>1, <3>11 DEF SummaryKnows
    <3>14. QED
      BY <3>6, <3>7, <3>9, <3>10, <3>11, <3>12, <3>13 DEF SummaryConsistent
  <2>5. QED
    BY <2>1, <2>2, <2>3, <2>4 DEF SummaryStatement
<1>6. QED
  BY <1>3, <1>4, <1>5 DEF ReportsInv


\* The statements of the report on the students of a class.
StudentsStatement ==
    ClassStudentsEnrolled \/ ClassStudentsSessions \/ ClassStudentsMarks

\* The rows are those of the sessions that were counted, one per session and
\* student.
LEMMA StudentsPreserve ==
    ASSUME ReportsInv, StudentsStatement
    PROVE  ReportsInv'
<1>1. UNCHANGED tables /\ pc' \in {"classSessions", "marks", "classStudents"}
  BY DEF StudentsStatement, ClassStudentsEnrolled, ClassStudentsSessions, ClassStudentsMarks, Goto
<1>2. TablesTyped /\ TablesTyped' /\ StudentsKnow
  BY <1>1 DEF ReportsInv, TablesTyped, tables
<1>3. ReportNamed' /\ SummaryKnows' /\ CalendarKnows' /\ SummaryConsistent'
  BY <1>1 DEF ReportNamed, SummaryKnows, CalendarKnows, SummaryConsistent
<1>4. StudentsKnow' /\ RowsWithinSessions'
  <2>1. CASE ClassStudentsEnrolled
    <3>1. pc' = "classSessions" /\ loc'.students \subseteq Student
      BY <2>1 DEF ClassStudentsEnrolled, Goto
    <3>2. QED
      BY <3>1 DEF StudentsKnow, RowsWithinSessions
  <2>2. CASE ClassStudentsSessions
    <3>1. pc = "classSessions" /\ pc' = "marks"
      BY <2>2 DEF ClassStudentsSessions, Goto
    <3>2. loc'.students = loc.students /\ loc'.sessions \subseteq OccurredSessions({loc.class}, today)
      BY <2>2 DEF ClassStudentsSessions, Goto
    <3>3. OccurredSessions({loc.class}, today) \subseteq Session
      BY <1>2 DEF OccurredSessions, SessionsOf, TablesTyped
    <3>4. QED
      BY <1>2, <3>1, <3>2, <3>3 DEF StudentsKnow, RowsWithinSessions
  <2>3. CASE ClassStudentsMarks
    <3>1. pc = "marks" /\ pc' = "classStudents"
      BY <2>3 DEF ClassStudentsMarks, Goto
    <3>2. PICK X \in SUBSET Session, S \in SUBSET Student : X = loc.sessions /\ S = loc.students
      BY <1>2, <3>1 DEF StudentsKnow
    <3>3. loc' = [total |-> Cardinality(X), rows |-> [s \in S |-> TallyByStudent(X)[s]]]
      BY <2>3, <3>2 DEF ClassStudentsMarks, Goto
    <3>4. ASSUME NEW s \in S
          PROVE  /\ Tally(RowsOf(X, {s})).recorded <= Cardinality(X)
                 /\ Attended(Tally(RowsOf(X, {s}))) + Missed(Tally(RowsOf(X, {s})))
                      = Tally(RowsOf(X, {s})).recorded
      <4>1. {s} \in SUBSET Student
        BY <3>2
      <4>2. PICK R : R = RowsOf(X, {s})
        OBVIOUS
      <4>3. IsFiniteSet(R) /\ \A x \in R : sheet[x] \in AttendanceStatus
        BY <1>2, <4>1, <4>2, RowsFinite
      <4>4. Cardinality(R) <= Cardinality(X)
        BY <1>2, <4>2, RowsOfOne
      <4>5. Tally(R).recorded = Cardinality(R) /\ Attended(Tally(R)) + Missed(Tally(R)) = Tally(R).recorded
        BY <1>2, <4>3, TallyAddsUp
      <4>6. QED
        BY <4>2, <4>4, <4>5
    <3>5. loc'.total = Cardinality(X) /\ DOMAIN loc'.rows = S
      BY <3>3
    <3>6. \A s \in S : loc'.rows[s] = Tally(RowsOf(X, {s}))
      BY <3>2, <3>3 DEF TallyByStudent
    <3>7. \A s \in S : /\ loc'.rows[s].recorded <= loc'.total
                       /\ Attended(loc'.rows[s]) + Missed(loc'.rows[s]) = loc'.rows[s].recorded
      BY <3>4, <3>5, <3>6
    <3>8. RowsWithinSessions'
      BY <3>5, <3>7 DEF RowsWithinSessions, Attended, Missed
    <3>9. QED
      BY <3>1, <3>8 DEF StudentsKnow
  <2>4. QED
    BY <2>1, <2>2, <2>3 DEF StudentsStatement
<1>5. QED
  BY <1>2, <1>3, <1>4 DEF ReportsInv

\* The statements of the calendar.
CalendarStatement ==
    \/ CalendarManager \/ CalendarTeacher \/ CalendarStudent
    \/ CalendarEnrolled \/ CalendarLoad

\* What the calendar asks for is what the member may see.
LEMMA CalendarPreserves ==
    ASSUME ReportsInv, CalendarStatement
    PROVE  ReportsInv'
<1>1. UNCHANGED tables /\ pc' \in {"load", "enrolled", "events"}
  BY DEF CalendarStatement, CalendarManager, CalendarTeacher, CalendarStudent,
         CalendarEnrolled, CalendarLoad, Load, NoEvents, Goto
<1>2. TablesTyped /\ TablesTyped' /\ CalendarKnows
  BY <1>1 DEF ReportsInv, TablesTyped, tables
<1>3. /\ ReportNamed' /\ SummaryKnows' /\ StudentsKnow' /\ SummaryConsistent'
      /\ RowsWithinSessions'
  BY <1>1 DEF ReportNamed, SummaryKnows, StudentsKnow, SummaryConsistent, RowsWithinSessions
<1>4. CASE pc' = "enrolled"
  <2>1. CalendarStudent
    BY <1>4 DEF CalendarStatement, CalendarManager, CalendarTeacher,
                CalendarEnrolled, CalendarLoad, Load, NoEvents, Goto
  <2>2. Profile[loc.user] \in Student /\ loc' = loc
    BY <1>4, <2>1 DEF CalendarStudent, NoEvents, Goto
  <2>3. QED
    BY <1>2, <1>3, <1>4, <2>2 DEF CalendarKnows, ReportsInv
<1>5. CASE pc' = "load"
  <2>1. CalendarManager \/ CalendarTeacher \/ CalendarEnrolled
    BY <1>5 DEF CalendarStatement, CalendarStudent, CalendarLoad, NoEvents, Goto
  <2>2. CASE CalendarManager
    <3>1. RoleKind(loc'.user) = "manager"
      BY <2>2 DEF CalendarManager, Load, Goto
    <3>2. QED
      BY <1>2, <1>3, <1>5, <3>1 DEF CalendarKnows, CalendarAsks, ReportsInv
  <2>3. CASE CalendarTeacher
    <3>1. /\ RoleKind(loc.user) = "teacher"
          /\ loc'.user = loc.user /\ loc'.teachers = {Profile[loc.user]}
      BY <1>5, <2>3 DEF CalendarTeacher, Load, NoEvents, Goto
    <3>2. QED
      BY <1>2, <1>3, <1>5, <3>1 DEF CalendarKnows, CalendarAsks, ReportsInv
  <2>4. CASE CalendarEnrolled
    <3>1. PICK own \in Student : own = Profile[loc.user]
      BY <1>2, <2>4 DEF CalendarEnrolled, CalendarKnows
    <3>2. /\ EnrolledIn(own) # {}
          /\ loc'.user = loc.user /\ loc'.classes = InList(EnrolledIn(own))
      BY <1>5, <2>4, <3>1 DEF CalendarEnrolled, Load, NoEvents, Goto
    <3>3. loc'.classes = EnrolledIn(own) /\ Profile[loc'.user] = own
      BY <3>1, <3>2 DEF InList
    <3>4. enrollment' = enrollment
      BY <1>1 DEF tables
    <3>5. loc'.classes \subseteq Class
      BY <3>3 DEF EnrolledIn
    <3>6. \A c \in loc'.classes : enrollment'[<<own, c>>] \in EnrollmentStatus
      BY <3>3, <3>4 DEF EnrolledIn, EnrollmentStatus
    <3>7. CalendarAsks'
      BY <3>3, <3>5, <3>6 DEF CalendarAsks
    <3>8. QED
      BY <1>2, <1>3, <1>5, <3>7 DEF CalendarKnows, ReportsInv
  <2>5. QED
    BY <2>1, <2>2, <2>3, <2>4
<1>6. CASE pc' = "events"
  BY <1>2, <1>3, <1>6 DEF CalendarKnows, ReportsInv
<1>7. QED
  BY <1>1, <1>4, <1>5, <1>6

\* The statements of the other reads.
OtherStatement ==
    \/ ResolveEnrollmentClassIds \/ ResolveSingleClass
    \/ StudentTotal \/ StudentSummaryStats \/ StudentHistoryRows
    \/ CardCounts
    \/ SessionSheetRole \/ SessionSheetTeacher \/ SessionSheetStudents \/ SessionSheetMarks
    \/ SessionListRows \/ SessionListMarks
    \/ \E x \in Statistic : DashboardCount(x)

\* They stay apart from the reports above.
LEMMA OthersApart ==
    ASSUME ReportNamed, OtherStatement
    PROVE  /\ UNCHANGED tables
           /\ pc' \in {"studentSummary", "history", "refused", "cards", "sheetStudents",
                       "sheetTeacher", "sheetMarks", "sheet", "sessionMarks", "sessions",
                       "dashboard"}
<1> DEFINE Apart ==
             /\ UNCHANGED tables
             /\ pc' \in {"studentSummary", "history", "refused", "cards", "sheetStudents",
                         "sheetTeacher", "sheetMarks", "sheet", "sessionMarks", "sessions",
                         "dashboard"}
<1>1. CASE ResolveEnrollmentClassIds \/ ResolveSingleClass
  BY <1>1 DEF ResolveEnrollmentClassIds, ResolveSingleClass, Reporting, Refuse, Goto, ReportNamed
<1>2. CASE StudentTotal \/ StudentSummaryStats \/ StudentHistoryRows
  BY <1>2 DEF StudentTotal, StudentSummaryStats, StudentHistoryRows, Goto
<1>3. CASE CardCounts \/ SessionListRows \/ SessionListMarks
  BY <1>3 DEF CardCounts, SessionListRows, SessionListMarks, Goto
<1>4. CASE SessionSheetRole \/ SessionSheetTeacher
  BY <1>4 DEF SessionSheetRole, SessionSheetTeacher, Refuse, Goto
<1>5. CASE SessionSheetStudents \/ SessionSheetMarks
  BY <1>5 DEF SessionSheetStudents, SessionSheetMarks, Goto
<1>6. CASE \E x \in Statistic : DashboardCount(x)
  BY <1>6 DEF DashboardCount, Goto
<1>7. QED
  BY <1>1, <1>2, <1>3, <1>4, <1>5, <1>6 DEF OtherStatement

\* One step, whatever it is.
LEMMA ReportsInvStep ==
    ReportsInv /\ [Next]_vars => ReportsInv'
<1> SUFFICES ASSUME ReportsInv, [Next]_vars PROVE ReportsInv'
  OBVIOUS
<1>1. CASE Call
  BY <1>1, CallPreserves
<1>2. CASE SummaryStatement
  BY <1>2, SummaryPreserves
<1>3. CASE StudentsStatement
  BY <1>3, StudentsPreserve
<1>4. CASE CalendarStatement
  BY <1>4, CalendarPreserves
<1>5. CASE OtherStatement
  <2>1. ReportNamed
    BY DEF ReportsInv
  <2>2. TablesTyped'
    BY <1>5, <2>1, OthersApart DEF ReportsInv, TablesTyped, tables
  <2>3. QED
    BY <1>5, <2>1, <2>2, OthersApart
       DEF ReportsInv, ReportNamed, SummaryKnows, StudentsKnow, CalendarKnows,
           SummaryConsistent, RowsWithinSessions
<1>6. CASE Done
  <2>1. pc' = "idle" /\ UNCHANGED tables
    BY <1>6 DEF Done
  <2>2. TablesTyped'
    BY <2>1 DEF ReportsInv, TablesTyped, tables
  <2>3. QED
    BY <2>1, <2>2 DEF ReportsInv, ReportNamed, SummaryKnows, StudentsKnow, CalendarKnows,
                      SummaryConsistent, RowsWithinSessions
<1>7. CASE Writer
  BY <1>7, WriterPreserves
<1>8. CASE UNCHANGED vars
  <2>1. TablesTyped' /\ ReportNamed' /\ StudentsKnow' /\ RowsWithinSessions'
    BY <1>8 DEF vars, ReportsInv, TablesTyped, ReportNamed, StudentsKnow, RowsWithinSessions
  <2>2. SummaryKnows'
    BY <1>8 DEF vars, ReportsInv, SummaryKnows, Exists, RecordedSessions, RowsOf, SessionsOf
  <2>3. CalendarKnows'
    BY <1>8 DEF vars, ReportsInv, CalendarKnows, CalendarAsks, Exists
  <2>4. SummaryConsistent'
    BY <1>8 DEF vars, ReportsInv, SummaryConsistent, Exists, Rate, Attended, Missed
  <2>5. QED
    BY <2>1, <2>2, <2>3, <2>4 DEF ReportsInv
<1>9. QED
  BY <1>1, <1>2, <1>3, <1>4, <1>5, <1>6, <1>7, <1>8
     DEF Next, Statement, SummaryStatement, StudentsStatement, CalendarStatement, OtherStatement


(***************************************************************************)
(* What is true of every behaviour                                         *)
(***************************************************************************)

\* ReportsInv holds in every state.
LEMMA ReportsInvariant ==
    Spec => []ReportsInv
<1>1. QED
  BY ReportsInvInit, ReportsInvStep, PTL DEF Spec

\* getClassAttendanceSummary: the three statements agree as far as they say,
\* whatever is written between them.
THEOREM SummaryConsistentHolds ==
    Spec => []SummaryConsistent
<1>1. ReportsInv => SummaryConsistent
  BY DEF ReportsInv
<1>2. QED
  BY <1>1, ReportsInvariant, PTL

\* getClassStudentsAttendance: no student has more recorded sessions than the
\* report counts, and the numbers of each add up.
THEOREM RowsWithinSessionsHolds ==
    Spec => []RowsWithinSessions
<1>1. ReportsInv => RowsWithinSessions
  BY DEF ReportsInv
<1>2. QED
  BY <1>1, ReportsInvariant, PTL

\* Only CalendarLoad reads classes into events, and it reads those it was
\* asked for; the other answers of the calendar are empty.
LEMMA CalendarScopeStep ==
    ReportsInv /\ [Next]_vars =>
      [pc # "events" /\ pc' = "events" =>
         \A c \in {e[1] : e \in loc'.events} :
           LET own == Profile[loc'.user] IN
           \/ RoleKind(loc'.user) = "manager"
           \/ RoleKind(loc'.user) = "teacher" /\ class[c].teacher = own
           \/ own \in Student /\ enrollment[<<own, c>>] \in EnrollmentStatus]_vars
<1> SUFFICES ASSUME ReportsInv, [Next]_vars, pc # "events", pc' = "events",
                    NEW e \in loc'.events
             PROVE  \/ RoleKind(loc'.user) = "manager"
                    \/ /\ RoleKind(loc'.user) = "teacher"
                       /\ class[e[1]].teacher = Profile[loc'.user]
                    \/ /\ Profile[loc'.user] \in Student
                       /\ enrollment[<<Profile[loc'.user], e[1]>>] \in EnrollmentStatus
  OBVIOUS
<1>1. CalendarStatement
  <2>1. ~Call
    BY CallStarts
  <2>2. ~SummaryStatement
    BY DEF SummaryStatement, ClassSummaryRole, ClassSummaryAssigned,
           ClassSummaryTotal, ClassSummaryRecorded, ClassSummaryStats, Goto, Refuse
  <2>3. ~StudentsStatement
    BY DEF StudentsStatement, ClassStudentsEnrolled, ClassStudentsSessions,
           ClassStudentsMarks, Goto
  <2>4. ~OtherStatement
    BY OthersApart DEF ReportsInv
  <2>5. ~Done /\ ~Writer /\ ~UNCHANGED vars
    BY WriterApart DEF Done, vars
  <2>6. QED
    BY <2>1, <2>2, <2>3, <2>4, <2>5
       DEF Next, Statement, SummaryStatement, StudentsStatement, CalendarStatement, OtherStatement
<1>2. CASE CalendarLoad
  <2>1. pc = "load" /\ CalendarAsks
    BY <1>2 DEF CalendarLoad, ReportsInv, CalendarKnows
  <2>2. PICK found : /\ found = {c \in loc.classes : /\ Exists(c) /\ ~class[c].cancelled
                                                     /\ class[c].teacher \in loc.teachers}
                     /\ loc'.user = loc.user
                     /\ loc'.events \subseteq found \X Date
    BY <1>2 DEF CalendarLoad, Goto
  <2>3. /\ e[1] \in loc.classes /\ Exists(e[1])
        /\ class[e[1]].teacher \in loc.teachers
    BY <2>2
  <2>4. QED
    BY <2>1, <2>2, <2>3 DEF CalendarAsks
<1>3. CASE ~CalendarLoad
  <2>1. NoEvents
    BY <1>1, <1>3 DEF CalendarStatement, CalendarManager, CalendarTeacher, CalendarStudent,
                      CalendarEnrolled, Load, Goto
  <2>2. loc'.events = {}
    BY <2>1 DEF NoEvents, Goto
  <2>3. QED
    BY <2>2
<1>4. QED
  BY <1>2, <1>3

\* getCalendar: a teacher sees classes that are the teacher's when they are
\* read, a student classes with an enrollment of the student's.
THEOREM CalendarScopeHolds ==
    Spec => CalendarScope
<1>1. QED
  BY ReportsInvariant, CalendarScopeStep, PTL DEF Spec, CalendarScope


(***************************************************************************)
(* Authorization: a seed that comes to its end has served every role       *)
(***************************************************************************)

Phases == {"permissions", "insert permission", "backfill", "roles", "insert role",
           "grants", "idle", "failed", "done"}

\* The tables hold what the statements put there: a role without a code is one
\* that a teacher service made.
RolesTyped ==
    /\ role \subseteq Role
    /\ coded \subseteq role
    /\ \A x \in role : x \in SystemRole => x \in coded
    /\ member \in [Account -> Role \cup {NoRole}]
    /\ making \in [Request -> ({"Teacher"} \X Org \X BOOLEAN) \cup {NoRole}]
    /\ seeding \in [Seeder -> Phases]
    /\ DOMAIN todo = Seeder
    /\ DOMAIN since = Seeder

\* Only a role with a code has grants, and only those of its list.
GrantsListed ==
    \A x, p : <<x, p>> \in grant =>
      x \in coded /\ p \in SystemRoles[CodeOf(x)]

\* The role has everything on the list of its code.
Served(x) == \A p \in SystemRoles[CodeOf(x)] : <<x, p>> \in grant

\* What a run of the seed has done by now: permissions that are not left in its
\* first loop are there, the second gives every role a code, and a role whose
\* code is not left in the last has its list.
SeederKnows(s) ==
    /\ since[s] \subseteq role
    /\ seeding[s] \in {"permissions", "insert permission"} =>
         /\ todo[s] \subseteq PermissionSeeds /\ todo[s] # {}
         /\ \A p \in PermissionSeeds : p \in todo[s] \/ p \in permission
    /\ seeding[s] \in {"backfill", "roles", "insert role", "grants"} =>
         /\ todo[s] \subseteq RoleCode /\ todo[s] # {}
         /\ PermissionSeeds \subseteq permission
    /\ seeding[s] = "backfill" => "TEACHER" \in todo[s] \/ since[s] \subseteq coded
    /\ seeding[s] \in {"roles", "insert role", "grants", "done"} => since[s] \subseteq coded
    /\ seeding[s] = "grants" => \A x \in since[s] : CodeOf(x) \in todo[s] \/ Served(x)
    /\ seeding[s] = "done" => \A x \in since[s] : Served(x)

SeedInv ==
    /\ RolesTyped
    /\ GrantsListed
    /\ \A s \in Seeder : SeederKnows(s)

\* A role of an organization is none of the system's, and its list is a
\* teacher's; the lists ask only for permissions of the seed.
LEMMA CodesTold ==
    /\ \A x \in SystemRole : x \notin TeacherRole /\ x[1] \in RoleCode
    /\ \A x \in TeacherRole : x[1] = "Teacher"
    /\ \A c \in RoleCode : SystemRoles[c] \subseteq PermissionSeeds
    /\ \A c \in RoleCode : "students:create" \in SystemRoles[c] <=> c = "OWNER"
<1>1. \A x \in SystemRole : x[1] \in RoleCode
  BY DEF SystemRole
<1>2. \A x \in TeacherRole : x[1] = "Teacher"
  BY DEF TeacherRole
<1>3. "Teacher" \notin RoleCode
  BY DEF RoleCode
<1>4. /\ \A c \in RoleCode : SystemRoles[c] \subseteq PermissionSeeds
      /\ \A c \in RoleCode : "students:create" \in SystemRoles[c] <=> c = "OWNER"
  BY DEF SystemRoles, RoleCode, PermissionSeeds
<1>5. QED
  BY <1>1, <1>2, <1>3, <1>4

\* A role with a code keeps it, and it is one of the codes.
LEMMA CodeKept ==
    ASSUME RolesTyped, NEW x \in coded, coded \subseteq coded'
    PROVE  CodeOf(x) \in RoleCode /\ CodeOf(x)' = CodeOf(x)
<1>1. x \in SystemRole \cup TeacherRole
  BY DEF RolesTyped, Role
<1>2. x \in coded'
  OBVIOUS
<1>3. CodeOf(x)' = CodeOf(x)
  BY <1>2 DEF CodeOf
<1>4. CASE x \in TeacherRole
  BY <1>4 DEF CodeOf, RoleCode
<1>5. CASE x \in SystemRole
  <2>1. x \notin TeacherRole /\ x[1] \in RoleCode
    BY <1>5, CodesTold
  <2>2. CodeOf(x) = x[1]
    BY <2>1 DEF CodeOf
  <2>3. QED
    BY <1>3, <2>1, <2>2
<1>6. QED
  BY <1>1, <1>3, <1>4, <1>5

\* It holds before the first run: the migration's roles have their codes.
LEMMA SeedInvInit ==
    ASSUME AuthInit
    PROVE  SeedInv
<1>1. /\ role \in {{}, RoleCode \X {Migration}} /\ coded = role
      /\ grant = {x \in role \X permission : x[2] \in SystemRoles[x[1][1]]}
      /\ member = [u \in Account |-> NoRole]
      /\ seeding = [s \in Seeder |-> "idle"]
      /\ todo = [s \in Seeder |-> {}]
      /\ since = [s \in Seeder |-> {}]
      /\ making = [r \in Request |-> NoRole]
  BY DEF AuthInit
<1>2. \A x \in role : x \in SystemRole
  BY <1>1 DEF SystemRole
<1>3. RolesTyped
  BY <1>1, <1>2 DEF RolesTyped, Role, Phases
<1>4. \A x \in role : CodeOf(x) = x[1]
  BY <1>1, <1>2, CodesTold DEF CodeOf
<1>5. GrantsListed
  BY <1>1, <1>4 DEF GrantsListed
<1>6. \A s \in Seeder : SeederKnows(s)
  BY <1>1 DEF SeederKnows
<1>7. QED
  BY <1>3, <1>5, <1>6 DEF SeedInv


\* Nothing is ever removed.
Grows ==
    /\ permission \subseteq permission' /\ role \subseteq role'
    /\ coded \subseteq coded' /\ grant \subseteq grant'

\* A role that is served stays served.
LEMMA ServedKept ==
    ASSUME RolesTyped, Grows, NEW x \in coded, Served(x)
    PROVE  Served(x)'
<1>1. CodeOf(x)' = CodeOf(x) /\ grant \subseteq grant'
  BY CodeKept DEF Grows
<1>2. QED
  BY <1>1 DEF Served

\* A run that does not move knows what it knew.
LEMMA OthersKnow ==
    ASSUME RolesTyped, Grows, NEW q \in Seeder, SeederKnows(q),
           seeding'[q] = seeding[q], todo'[q] = todo[q], since'[q] = since[q]
    PROVE  SeederKnows(q)'
<1>1. since[q] \subseteq role' /\ (since[q] \subseteq coded => since[q] \subseteq coded')
  BY DEF SeederKnows, Grows
<1>2. permission \subseteq permission'
  BY DEF Grows
<1>3. ASSUME since[q] \subseteq coded
      PROVE  \A x \in since[q] : /\ CodeOf(x)' = CodeOf(x)
                                 /\ Served(x) => Served(x)'
  BY <1>3, CodeKept, ServedKept DEF Grows
<1>4. seeding[q] = "grants" => \A x \in since[q] : CodeOf(x)' \in todo[q] \/ Served(x)'
  BY <1>3 DEF SeederKnows
<1>5. seeding[q] = "done" => \A x \in since[q] : Served(x)'
  BY <1>3 DEF SeederKnows
<1>6. QED
  BY <1>1, <1>2, <1>4, <1>5 DEF SeederKnows

\* When only one run moves, and the tables stay as they should be, all know.
LEMMA OneMoves ==
    ASSUME SeedInv, Grows, NEW s \in Seeder, RolesTyped', GrantsListed',
           SeederKnows(s)',
           \A q \in Seeder \ {s} : /\ seeding'[q] = seeding[q] /\ todo'[q] = todo[q]
                                   /\ since'[q] = since[q]
    PROVE  SeedInv'
<1>1. \A q \in Seeder \ {s} : SeederKnows(q)'
  BY OthersKnow DEF SeedInv
<1>2. QED
  BY <1>1 DEF SeedInv

\* The statement of a loop takes one item; the last one ends the loop.
LEMMA ProceedMoves ==
    ASSUME RolesTyped, NEW s \in Seeder, NEW phase \in Loop, todo[s] # {},
           Proceed(s, phase)
    PROVE  /\ Current(s) \in todo[s]
           /\ seeding' \in [Seeder -> Phases] /\ DOMAIN todo' = Seeder
           /\ \A q \in Seeder \ {s} : seeding'[q] = seeding[q] /\ todo'[q] = todo[q]
           /\ \/ /\ todo'[s] = todo[s] \ {Current(s)} /\ todo'[s] # {}
                 /\ seeding'[s] = phase
              \/ /\ todo[s] = {Current(s)}
                 /\ seeding'[s] = After(phase)
                 /\ seeding'[s] # "done" => todo'[s] = Items(seeding'[s])
<1>1. Current(s) \in todo[s]
  BY DEF Current
<1>2. PICK c : c = Current(s)
  OBVIOUS
<1>3. After(phase) \in Phases /\ phase \in Phases
  BY DEF After, Loop, Phases
<1>4. /\ seeding' = [seeding EXCEPT ![s] =
           IF todo[s] \ {c} = {} THEN After(phase) ELSE phase]
      /\ todo' = [todo EXCEPT ![s] =
           IF todo[s] \ {c} # {} THEN todo[s] \ {c}
           ELSE IF After(phase) = "done" THEN {} ELSE Items(After(phase))]
  BY <1>2 DEF Proceed
<1>5. /\ seeding' \in [Seeder -> Phases] /\ DOMAIN todo' = Seeder
      /\ \A q \in Seeder \ {s} : seeding'[q] = seeding[q] /\ todo'[q] = todo[q]
  BY <1>3, <1>4 DEF RolesTyped
<1>6. CASE todo[s] \ {c} = {}
  BY <1>1, <1>2, <1>4, <1>5, <1>6 DEF RolesTyped
<1>7. CASE todo[s] \ {c} # {}
  BY <1>1, <1>2, <1>4, <1>5, <1>7 DEF RolesTyped
<1>8. QED
  BY <1>6, <1>7

\* A run starts, again or for the first time, or ends halfway.
LEMMA SeedStartKeeps ==
    ASSUME SeedInv, NEW s \in Seeder, SeedStart(s) \/ SeedFail(s)
    PROVE  SeedInv'
<1>1. /\ UNCHANGED <<permission, role, coded, grant, member, making>>
      /\ \E p \in {"permissions", "failed"} : seeding' = [seeding EXCEPT ![s] = p]
      /\ DOMAIN todo' = DOMAIN todo /\ DOMAIN since' = DOMAIN since
      /\ \A q \in Seeder \ {s} : todo'[q] = todo[q] /\ since'[q] = since[q]
  <2>1. CASE SeedStart(s)
    <3>1. /\ seeding' = [seeding EXCEPT ![s] = "permissions"]
          /\ todo' = [todo EXCEPT ![s] = PermissionSeeds]
          /\ since' = [since EXCEPT ![s] = role]
          /\ UNCHANGED <<permission, role, coded, grant, member, making>>
      BY <2>1 DEF SeedStart
    <3>2. QED
      BY <3>1
  <2>2. CASE SeedFail(s)
    <3>1. /\ seeding' = [seeding EXCEPT ![s] = "failed"]
          /\ todo' = [todo EXCEPT ![s] = {}]
          /\ UNCHANGED <<permission, role, coded, grant, member, since, making>>
      BY <2>2 DEF SeedFail
    <3>2. QED
      BY <3>1
  <2>3. QED
    BY <2>1, <2>2
<1>2. Grows /\ GrantsListed'
  BY <1>1 DEF SeedInv, Grows, GrantsListed, CodeOf
<1>3. RolesTyped'
  BY <1>1 DEF SeedInv, RolesTyped, Phases
<1>4. \A q \in Seeder \ {s} : seeding'[q] = seeding[q]
  BY <1>1
<1>5. SeederKnows(s)'
  <2>1. CASE SeedStart(s)
    <3>1. /\ seeding'[s] = "permissions" /\ todo'[s] = PermissionSeeds /\ since'[s] = role
          /\ role' = role
      BY <2>1 DEF SeedStart, SeedInv, RolesTyped
    <3>2. todo'[s] # {}
      BY <3>1 DEF PermissionSeeds
    <3>3. QED
      BY <3>1, <3>2 DEF SeederKnows
  <2>2. CASE SeedFail(s)
    <3>1. /\ seeding'[s] = "failed" /\ since'[s] = since[s] /\ role' = role
      BY <2>2 DEF SeedFail, SeedInv, RolesTyped
    <3>2. QED
      BY <3>1 DEF SeederKnows, SeedInv
  <2>3. QED
    BY <2>1, <2>2
<1>6. QED
  BY <1>1, <1>2, <1>3, <1>4, <1>5, OneMoves


\* A step that at most adds permissions leaves the tables as they should be.
LEMMA TablesStay ==
    ASSUME SeedInv, UNCHANGED <<role, coded, grant, member, since, making>>,
           permission \subseteq permission',
           seeding' \in [Seeder -> Phases], DOMAIN todo' = Seeder
    PROVE  Grows /\ RolesTyped' /\ GrantsListed'
<1>1. Grows /\ RolesTyped'
  BY DEF SeedInv, Grows, RolesTyped
<1>2. GrantsListed'
  BY DEF SeedInv, GrantsListed, CodeOf
<1>3. QED
  BY <1>1, <1>2

\* INSERT ... WHERE NOT EXISTS: the row is there, or the insert is next.
LEMMA LookMoves ==
    ASSUME SeedInv, NEW s \in Seeder, NEW phase \in Loop, NEW there \in BOOLEAN,
           NEW insert \in Phases, todo[s] # {}, Look(s, phase, there, insert)
    PROVE  /\ seeding[s] = phase
           /\ UNCHANGED <<permission, role, coded, grant, member, since, making>>
           /\ Grows /\ RolesTyped' /\ GrantsListed'
           /\ \A q \in Seeder \ {s} : seeding'[q] = seeding[q] /\ todo'[q] = todo[q]
           /\ \/ there /\ Proceed(s, phase)
              \/ ~there /\ seeding'[s] = insert /\ todo'[s] = todo[s]
<1>1. /\ seeding[s] = phase
      /\ UNCHANGED <<permission, role, coded, grant, member, since, making>>
  BY DEF Look
<1>2. RolesTyped
  BY DEF SeedInv
<1>3. CASE there
  <2>1. Proceed(s, phase)
    BY <1>3 DEF Look
  <2>2. /\ seeding' \in [Seeder -> Phases] /\ DOMAIN todo' = Seeder
        /\ \A q \in Seeder \ {s} : seeding'[q] = seeding[q] /\ todo'[q] = todo[q]
    BY <1>2, <2>1, ProceedMoves
  <2>3. QED
    BY <1>1, <1>3, <2>1, <2>2, TablesStay
<1>4. CASE ~there
  <2>1. seeding' = [seeding EXCEPT ![s] = insert] /\ todo' = todo
    BY <1>4 DEF Look
  <2>2. /\ seeding' \in [Seeder -> Phases] /\ DOMAIN todo' = Seeder
        /\ seeding'[s] = insert /\ \A q \in Seeder \ {s} : seeding'[q] = seeding[q]
    BY <1>2, <2>1 DEF RolesTyped
  <2>3. QED
    BY <1>1, <1>4, <2>1, <2>2, TablesStay
<1>5. QED
  BY <1>3, <1>4

\* The loop on permissions.
LEMMA PermissionsKeep ==
    ASSUME SeedInv, NEW s \in Seeder,
           SeedPermission(s) \/ SeedPermissionInsert(s)
    PROVE  SeedInv'
<1>1. seeding[s] \in {"permissions", "insert permission"}
  BY DEF SeedPermission, SeedPermissionInsert, Look
<1>2. RolesTyped /\ SeederKnows(s)
  BY DEF SeedInv
<1>3. /\ todo[s] \subseteq PermissionSeeds /\ todo[s] # {}
      /\ \A p \in PermissionSeeds : p \in todo[s] \/ p \in permission
  BY <1>1, <1>2 DEF SeederKnows
<1>4. "permissions" \in Loop /\ "insert permission" \in Phases
  BY DEF Loop, Phases
<1>5. ASSUME Proceed(s, "permissions"), Current(s) \in permission', Grows,
             role' = role, since' = since
      PROVE  SeederKnows(s)'
  <2>1. permission \subseteq permission' /\ since'[s] \subseteq role'
    BY <1>2, <1>5 DEF Grows, SeederKnows
  <2>2. PICK c \in todo[s] : c = Current(s)
    BY <1>2, <1>3, <1>4, <1>5, ProceedMoves
  <2>3. CASE todo'[s] = todo[s] \ {c} /\ todo'[s] # {} /\ seeding'[s] = "permissions"
    BY <1>3, <1>5, <2>1, <2>2, <2>3 DEF SeederKnows
  <2>4. CASE todo[s] = {c} /\ seeding'[s] = "backfill" /\ todo'[s] = RoleCode
    <3>1. PermissionSeeds \subseteq permission'
      BY <1>3, <1>5, <2>1, <2>2, <2>4
    <3>2. "TEACHER" \in RoleCode
      BY DEF RoleCode
    <3>3. QED
      BY <2>1, <2>4, <3>1, <3>2 DEF SeederKnows
  <2>5. After("permissions") = "backfill" /\ Items("backfill") = RoleCode
    BY DEF After, Items
  <2>6. QED
    BY <1>2, <1>3, <1>4, <1>5, <2>2, <2>3, <2>4, <2>5, ProceedMoves
<1>6. CASE SeedPermission(s)
  <2> DEFINE there == Current(s) \in permission
  <2>1. there \in BOOLEAN
    OBVIOUS
  <2>2. Look(s, "permissions", there, "insert permission")
    BY <1>6 DEF SeedPermission
  <2>3. /\ UNCHANGED <<permission, role, since>> /\ Grows /\ RolesTyped' /\ GrantsListed'
        /\ \A q \in Seeder \ {s} : seeding'[q] = seeding[q] /\ todo'[q] = todo[q]
        /\ \/ there /\ Proceed(s, "permissions")
           \/ ~there /\ seeding'[s] = "insert permission" /\ todo'[s] = todo[s]
    <3> HIDE DEF there
    <3>1. QED
      BY <1>3, <1>4, <2>1, <2>2, LookMoves
  <2>4. CASE there /\ Proceed(s, "permissions")
    BY <1>5, <2>3, <2>4, OneMoves
  <2>5. CASE ~there /\ seeding'[s] = "insert permission" /\ todo'[s] = todo[s]
    <3>1. SeederKnows(s)'
      BY <1>2, <1>3, <2>3, <2>5 DEF SeederKnows
    <3>2. QED
      BY <2>3, <3>1, OneMoves
  <2>6. QED
    BY <2>3, <2>4, <2>5
<1>7. CASE SeedPermissionInsert(s)
  <2>1. /\ permission' = permission \cup {Current(s)}
        /\ Proceed(s, "permissions")
        /\ UNCHANGED <<role, coded, grant, member, since, making>>
    BY <1>7 DEF SeedPermissionInsert
  <2>2. /\ seeding' \in [Seeder -> Phases] /\ DOMAIN todo' = Seeder
        /\ \A q \in Seeder \ {s} : seeding'[q] = seeding[q] /\ todo'[q] = todo[q]
    BY <1>2, <1>3, <1>4, <2>1, ProceedMoves
  <2>3. Grows /\ RolesTyped' /\ GrantsListed'
    BY <2>1, <2>2, TablesStay
  <2>4. QED
    BY <1>5, <2>1, <2>2, <2>3, OneMoves
<1>8. QED
  BY <1>6, <1>7


\* Where a run is in its loops on codes, it has all permissions, and the codes
\* that are left are some.
LEMMA CodesLeft ==
    ASSUME SeedInv, NEW s \in Seeder,
           seeding[s] \in {"backfill", "roles", "insert role", "grants"}
    PROVE  /\ todo[s] \subseteq RoleCode /\ todo[s] # {} /\ since[s] \subseteq role
           /\ PermissionSeeds \subseteq permission
           /\ Current(s) \in todo[s] /\ Current(s) \in RoleCode
<1>1. /\ todo[s] \subseteq RoleCode /\ todo[s] # {} /\ since[s] \subseteq role
      /\ PermissionSeeds \subseteq permission
  BY DEF SeedInv, SeederKnows
<1>2. Current(s) \in todo[s]
  BY <1>1 DEF Current
<1>3. QED
  BY <1>1, <1>2

\* The loops follow each other.
LEMMA LoopsInOrder ==
    /\ {"permissions", "backfill", "roles", "grants"} = Loop
    /\ After("backfill") = "roles" /\ Items("roles") = RoleCode
    /\ After("roles") = "grants" /\ Items("grants") = RoleCode
    /\ After("grants") = "done"
    /\ "insert role" \in Phases
    /\ RoleCode # {}
<1>1. QED
  BY DEF Loop, After, Items, Phases, RoleCode

\* More codes do not change those that there are, so the grants stay listed.
LEMMA ListedStay ==
    ASSUME RolesTyped, GrantsListed, coded \subseteq coded', grant' = grant
    PROVE  GrantsListed'
<1>1. \A x \in coded : CodeOf(x)' = CodeOf(x)
  BY CodeKept
<1>2. QED
  BY <1>1 DEF GrantsListed

\* The UPDATE for TEACHER gives a code to every role that had none.
LEMMA BackfillKeeps ==
    ASSUME SeedInv, NEW s \in Seeder, SeedBackfill(s)
    PROVE  SeedInv'
<1>1. /\ seeding[s] = "backfill"
      /\ Proceed(s, "backfill")
      /\ UNCHANGED <<permission, role, grant, member, since, making>>
  BY DEF SeedBackfill
<1>2. PICK c : c = Current(s)
  OBVIOUS
<1>3. coded' = coded \cup {x \in role : x \in TeacherRole /\ c = "TEACHER"}
  BY <1>2 DEF SeedBackfill
<1>4. RolesTyped /\ GrantsListed /\ SeederKnows(s)
  BY DEF SeedInv
<1>5. /\ todo[s] \subseteq RoleCode /\ todo[s] # {} /\ since[s] \subseteq role
      /\ PermissionSeeds \subseteq permission /\ c \in todo[s]
  BY <1>1, <1>2, CodesLeft
<1>6. /\ seeding' \in [Seeder -> Phases] /\ DOMAIN todo' = Seeder
      /\ \A q \in Seeder \ {s} : seeding'[q] = seeding[q] /\ todo'[q] = todo[q]
      /\ \/ todo'[s] = todo[s] \ {c} /\ todo'[s] # {} /\ seeding'[s] = "backfill"
         \/ todo[s] = {c} /\ seeding'[s] = "roles" /\ todo'[s] = RoleCode
  BY <1>1, <1>2, <1>4, <1>5, ProceedMoves, LoopsInOrder
<1>7. Grows
  BY <1>1, <1>3 DEF Grows
<1>8. RolesTyped'
  BY <1>1, <1>3, <1>4, <1>6 DEF RolesTyped
<1>9. GrantsListed'
  BY <1>1, <1>3, <1>4, ListedStay
<1>10. c = "TEACHER" => role \subseteq coded'
  BY <1>3, <1>4 DEF RolesTyped, Role
<1>11. "TEACHER" \in todo[s] \ {c} \/ since[s] \subseteq coded'
  BY <1>1, <1>3, <1>4, <1>5, <1>10 DEF SeederKnows
<1>12. SeederKnows(s)'
  BY <1>1, <1>5, <1>6, <1>11, LoopsInOrder DEF SeederKnows
<1>13. QED
  BY <1>1, <1>6, <1>7, <1>8, <1>9, <1>12, OneMoves

\* After the loop on roles, every role it found or made is still to be served.
LEMMA RolesProceed ==
    ASSUME SeedInv, NEW s \in Seeder, seeding[s] \in {"roles", "insert role"},
           Proceed(s, "roles"), Grows, since'[s] \subseteq coded', RolesTyped'
    PROVE  SeederKnows(s)'
<1>1. PICK c : c = Current(s)
  OBVIOUS
<1>2. /\ todo[s] \subseteq RoleCode /\ todo[s] # {}
      /\ PermissionSeeds \subseteq permission' /\ c \in todo[s]
  BY <1>1, CodesLeft DEF Grows
<1>3. /\ \/ todo'[s] = todo[s] \ {c} /\ todo'[s] # {} /\ seeding'[s] = "roles"
         \/ todo[s] = {c} /\ seeding'[s] = "grants" /\ todo'[s] = RoleCode
  BY <1>1, <1>2, ProceedMoves, LoopsInOrder DEF SeedInv
<1>4. since'[s] \subseteq role'
  BY DEF RolesTyped
<1>5. \A x \in since'[s] : CodeOf(x)' \in RoleCode
  <2>1. SUFFICES ASSUME NEW x \in coded' PROVE CodeOf(x)' \in RoleCode
    OBVIOUS
  <2>2. x \in SystemRole \cup TeacherRole
    BY <2>1 DEF RolesTyped, Role
  <2>3. CodeOf(x)' = IF x \in TeacherRole THEN "TEACHER" ELSE x[1]
    BY <2>1 DEF CodeOf
  <2>4. "TEACHER" \in RoleCode
    BY DEF RoleCode
  <2>5. QED
    BY <2>2, <2>3, <2>4, CodesTold
<1>6. QED
  BY <1>2, <1>3, <1>4, <1>5, LoopsInOrder DEF SeederKnows

\* The system role is there, or its insert is next.
LEMMA RoleKeeps ==
    ASSUME SeedInv, NEW s \in Seeder, SeedRole(s)
    PROVE  SeedInv'
<1> DEFINE there == \E x \in role \cap SystemRole : CodeOf(x) = Current(s)
<1>1. Look(s, "roles", there, "insert role") /\ seeding[s] = "roles" /\ there \in BOOLEAN
  BY DEF SeedRole, Look
<1>2. RolesTyped /\ SeederKnows(s)
  BY DEF SeedInv
<1>3. /\ todo[s] \subseteq RoleCode /\ todo[s] # {} /\ since[s] \subseteq role
      /\ PermissionSeeds \subseteq permission /\ since[s] \subseteq coded
  BY <1>1, <1>2, CodesLeft DEF SeederKnows
<1> HIDE DEF there
<1>4. /\ UNCHANGED <<permission, role, coded, since>> /\ Grows /\ RolesTyped' /\ GrantsListed'
      /\ \A q \in Seeder \ {s} : seeding'[q] = seeding[q] /\ todo'[q] = todo[q]
      /\ \/ there /\ Proceed(s, "roles")
         \/ ~there /\ seeding'[s] = "insert role" /\ todo'[s] = todo[s]
  BY <1>1, <1>3, LookMoves, LoopsInOrder
<1>5. SeederKnows(s)'
  <2>1. CASE Proceed(s, "roles")
    BY <1>1, <1>3, <1>4, <2>1, RolesProceed
  <2>2. CASE seeding'[s] = "insert role" /\ todo'[s] = todo[s]
    BY <1>3, <1>4, <2>2 DEF SeederKnows
  <2>3. QED
    BY <1>4, <2>1, <2>2
<1>6. QED
  BY <1>4, <1>5, OneMoves

\* The new role has its code from the start.
LEMMA RoleInsertKeeps ==
    ASSUME SeedInv, NEW s \in Seeder, SeedRoleInsert(s)
    PROVE  SeedInv'
<1>1. /\ seeding[s] = "insert role" /\ Proceed(s, "roles")
      /\ UNCHANGED <<permission, grant, member, making>>
  BY DEF SeedRoleInsert
<1>2. PICK c : c = Current(s)
  OBVIOUS
<1>3. PICK x : x = <<c, s>>
  OBVIOUS
<1>4. role' = role \cup {x} /\ coded' = coded \cup {x} /\ since' = [since EXCEPT ![s] = @ \cup {x}]
  BY <1>2, <1>3 DEF SeedRoleInsert
<1>5. RolesTyped /\ GrantsListed /\ SeederKnows(s)
  BY DEF SeedInv
<1>6. todo[s] # {} /\ c \in RoleCode /\ since[s] \subseteq coded
  BY <1>1, <1>2, <1>5, CodesLeft DEF SeederKnows
<1>7. x \in SystemRole /\ x \in Role
  BY <1>3, <1>6 DEF SystemRole, Role
<1>8. /\ seeding' \in [Seeder -> Phases] /\ DOMAIN todo' = Seeder
      /\ \A q \in Seeder \ {s} : seeding'[q] = seeding[q] /\ todo'[q] = todo[q]
  BY <1>1, <1>5, <1>6, ProceedMoves, LoopsInOrder
<1>9. /\ DOMAIN since' = Seeder /\ since'[s] = since[s] \cup {x}
      /\ \A q \in Seeder \ {s} : since'[q] = since[q]
  BY <1>4, <1>5 DEF RolesTyped
<1>10. Grows
  BY <1>1, <1>4 DEF Grows
<1>11. RolesTyped'
  BY <1>1, <1>4, <1>5, <1>7, <1>8, <1>9 DEF RolesTyped
<1>12. GrantsListed'
  BY <1>1, <1>4, <1>5, ListedStay
<1>13. SeederKnows(s)'
  BY <1>1, <1>4, <1>6, <1>9, <1>10, <1>11, RolesProceed
<1>14. QED
  BY <1>8, <1>9, <1>10, <1>11, <1>12, <1>13, OneMoves

\* One code is served: every role that has it gets the list, which is whole
\* because the permissions are.
LEMMA GrantsKeep ==
    ASSUME SeedInv, NEW s \in Seeder, SeedGrants(s)
    PROVE  SeedInv'
<1>1. /\ seeding[s] = "grants" /\ Proceed(s, "grants")
      /\ UNCHANGED <<permission, role, coded, member, since, making>>
  BY DEF SeedGrants
<1>2. PICK c : c = Current(s)
  OBVIOUS
<1>3. grant' = grant \cup
        ({x \in role : CodeOf(x) = c} \X (SystemRoles[c] \cap permission))
  BY <1>2 DEF SeedGrants
<1>4. RolesTyped /\ GrantsListed /\ SeederKnows(s)
  BY DEF SeedInv
<1>5. /\ todo[s] \subseteq RoleCode /\ todo[s] # {} /\ since[s] \subseteq role
      /\ PermissionSeeds \subseteq permission /\ c \in todo[s] /\ c \in RoleCode
      /\ since[s] \subseteq coded
  BY <1>1, <1>2, <1>4, CodesLeft DEF SeederKnows
<1>6. /\ seeding' \in [Seeder -> Phases] /\ DOMAIN todo' = Seeder
      /\ \A q \in Seeder \ {s} : seeding'[q] = seeding[q] /\ todo'[q] = todo[q]
      /\ \/ todo'[s] = todo[s] \ {c} /\ todo'[s] # {} /\ seeding'[s] = "grants"
         \/ todo[s] = {c} /\ seeding'[s] = "done"
  BY <1>1, <1>2, <1>4, <1>5, ProceedMoves, LoopsInOrder
<1>7. Grows
  BY <1>1, <1>3 DEF Grows
<1>8. RolesTyped'
  BY <1>1, <1>4, <1>6 DEF RolesTyped
<1>9. \A x : CodeOf(x)' = CodeOf(x)
  BY <1>1 DEF CodeOf
<1>10. GrantsListed'
  <2>1. \A x : CodeOf(x) = c => x \in coded
    BY <1>5, AuthorizationAssumption DEF CodeOf
  <2>2. SUFFICES ASSUME NEW x, NEW p, <<x, p>> \in grant'
                 PROVE  x \in coded /\ p \in SystemRoles[CodeOf(x)]
    BY <1>1, <1>9 DEF GrantsListed
  <2>3. CASE <<x, p>> \in grant
    BY <1>4, <2>3 DEF GrantsListed
  <2>4. CASE CodeOf(x) = c /\ p \in SystemRoles[c]
    BY <2>1, <2>4
  <2>5. QED
    BY <1>3, <2>2, <2>3, <2>4
<1>11. ASSUME NEW x \in since[s]
       PROVE  CodeOf(x) \in todo[s] \ {c} \/ Served(x)'
  <2>1. CASE Served(x)
    BY <1>4, <1>5, <1>7, <2>1, ServedKept
  <2>2. CASE CodeOf(x) = c
    <3>1. SystemRoles[c] \subseteq permission
      BY <1>5, CodesTold
    <3>2. \A p \in SystemRoles[c] : <<x, p>> \in grant'
      BY <1>3, <1>5, <2>2, <3>1
    <3>3. QED
      BY <1>9, <2>2, <3>2 DEF Served
  <2>3. CASE CodeOf(x) \in todo[s] /\ CodeOf(x) # c
    BY <2>3
  <2>4. QED
    BY <1>1, <1>4, <2>1, <2>2, <2>3 DEF SeederKnows
<1>12. SeederKnows(s)'
  <2>1. \A x \in since[s] : CodeOf(x)' \in todo[s] \ {c} \/ Served(x)'
    BY <1>9, <1>11
  <2>2. QED
    BY <1>1, <1>5, <1>6, <2>1 DEF SeederKnows
<1>13. QED
  BY <1>1, <1>6, <1>7, <1>8, <1>10, <1>12, OneMoves


\* A request that reads or ends, and one that commits a role without a code or
\* a membership, leave every run what it knows.
LEMMA ServicesKeep ==
    ASSUME SeedInv,
           \/ \E r \in Request : \/ \E o \in Org : TeacherRoleRead(r, o)
                                 \/ \E u \in Account : TeacherCommit(r, u)
                                 \/ TeacherFail(r)
           \/ \E u \in Account, c \in RoleCode : Join(u, c)
    PROVE  SeedInv'
<1> DEFINE Apart ==
             /\ UNCHANGED <<permission, coded, grant, seeding, todo, since>>
             /\ role \subseteq role' /\ RolesTyped'
<1>1. RolesTyped
  BY DEF SeedInv
<1>2. ASSUME NEW r \in Request, NEW o \in Org, TeacherRoleRead(r, o) PROVE Apart
  <2>1. /\ making' = [making EXCEPT ![r] = <<"Teacher", o, <<"Teacher", o>> \in role>>]
        /\ UNCHANGED <<permission, role, coded, grant, member, seeding, todo, since>>
    BY <1>2 DEF TeacherRoleRead, seeds
  <2>2. <<"Teacher", o, <<"Teacher", o>> \in role>> \in {"Teacher"} \X Org \X BOOLEAN
    <3> DEFINE seen == <<"Teacher", o>> \in role
    <3>1. seen \in BOOLEAN
      OBVIOUS
    <3> HIDE DEF seen
    <3>2. <<"Teacher", o, seen>> \in {"Teacher"} \X Org \X BOOLEAN
      BY <3>1
    <3>3. QED
      BY <3>2 DEF seen
  <2>3. QED
    BY <1>1, <2>1, <2>2 DEF RolesTyped
<1>3. ASSUME NEW r \in Request, NEW u \in Account, TeacherCommit(r, u) PROVE Apart
  <2>1. PICK x : x = <<making[r][1], making[r][2]>>
    OBVIOUS
  <2>2. /\ making[r] # NoRole
        /\ role' = role \cup {x} /\ member' = [member EXCEPT ![u] = x]
        /\ making' = [making EXCEPT ![r] = NoRole]
        /\ UNCHANGED <<permission, coded, grant, seeding, todo, since>>
    BY <1>3, <2>1 DEF TeacherCommit, seeds
  <2>3. making[r] \in {"Teacher"} \X Org \X BOOLEAN
    BY <1>1, <2>2 DEF RolesTyped
  <2>4. x \in TeacherRole
    BY <2>1, <2>3 DEF TeacherRole
  <2>5. x \in Role /\ x \notin SystemRole
    BY <2>4, CodesTold DEF Role
  <2>6. RolesTyped'
    BY <1>1, <2>2, <2>5 DEF RolesTyped
  <2>7. QED
    BY <2>2, <2>6
<1>4. ASSUME NEW r \in Request, TeacherFail(r) PROVE Apart
  <2>1. /\ making' = [making EXCEPT ![r] = NoRole]
        /\ UNCHANGED <<permission, role, coded, grant, member, seeding, todo, since>>
    BY <1>4 DEF TeacherFail, seeds
  <2>2. QED
    BY <1>1, <2>1 DEF RolesTyped
<1>5. ASSUME NEW u \in Account, NEW c \in RoleCode, Join(u, c) PROVE Apart
  <2>1. PICK x \in role : member' = [member EXCEPT ![u] = x]
    BY <1>5 DEF Join
  <2>2. UNCHANGED <<permission, role, coded, grant, seeding, todo, since, making>>
    BY <1>5 DEF Join, seeds
  <2>3. x \in Role
    BY <1>1 DEF RolesTyped
  <2>4. RolesTyped'
    BY <1>1, <2>1, <2>2, <2>3 DEF RolesTyped
  <2>5. QED
    BY <2>2, <2>4
<1>6. Apart
  <2> HIDE DEF Apart
  <2>1. QED
    BY <1>2, <1>3, <1>4, <1>5
<1>7. Grows /\ GrantsListed'
  BY <1>1, <1>6, ListedStay DEF Grows, SeedInv
<1>8. \A q \in Seeder : SeederKnows(q)'
  BY <1>1, <1>6, <1>7, OthersKnow DEF SeedInv
<1>9. QED
  BY <1>6, <1>7, <1>8 DEF SeedInv

\* One step, whatever it is.
LEMMA SeedInvStep ==
    ASSUME SeedInv, [AuthNext]_authVars
    PROVE  SeedInv'
<1>1. CASE UNCHANGED authVars
  <2>1. UNCHANGED <<permission, role, coded, grant, member, seeding, todo, since, making>>
    BY <1>1 DEF authVars
  <2>2. Grows /\ RolesTyped' /\ GrantsListed'
    BY <2>1, TablesStay DEF SeedInv, RolesTyped
  <2>3. \A q \in Seeder : SeederKnows(q)'
    BY <2>1, <2>2, OthersKnow DEF SeedInv
  <2>4. QED
    BY <2>2, <2>3 DEF SeedInv
<1>2. CASE AuthNext
  BY <1>2, SeedStartKeeps, PermissionsKeep, BackfillKeeps, RoleKeeps, RoleInsertKeeps,
     GrantsKeep, ServicesKeep
     DEF AuthNext
<1>3. QED
  BY <1>1, <1>2

\* A run at its end: the roles it found or made are served, and whoever has
\* one of them is a manager by name exactly when the grants say so.
LEMMA ServedMeansCovered ==
    ASSUME SeedInv
    PROVE  SeedCovers
<1> SUFFICES ASSUME NEW s \in Seeder, seeding[s] = "done"
             PROVE  /\ \A x \in since[s] :
                         x \in coded /\ {x} \X SystemRoles[CodeOf(x)] \subseteq grant
                    /\ \A u \in Account : member[u] \in since[s] =>
                         (IsManager(u) <=> HasPermission(u, "students:create"))
  BY DEF SeedCovers
<1>1. since[s] \subseteq coded /\ since[s] \subseteq role /\ \A x \in since[s] : Served(x)
  BY DEF SeedInv, SeederKnows
<1>2. \A x \in since[s] : {x} \X SystemRoles[CodeOf(x)] \subseteq grant
  BY <1>1 DEF Served
<1>3. ASSUME NEW u \in Account, member[u] \in since[s]
      PROVE  IsManager(u) <=> HasPermission(u, "students:create")
  <2>1. PICK x \in since[s] : x = member[u]
    BY <1>3
  <2>2. x \in coded /\ x \in Role /\ x # NoRole
    BY <1>1, AuthorizationAssumption DEF SeedInv, RolesTyped
  <2>3. IsManager(u) <=> x[1] = "OWNER"
    BY <2>1, <2>2 DEF IsManager
  <2>4. HasPermission(u, "students:create") <=> <<x, "students:create">> \in grant
    BY <2>1, <2>2 DEF HasPermission
  <2>5. <<x, "students:create">> \in grant <=> "students:create" \in SystemRoles[CodeOf(x)]
    BY <1>1, <2>1 DEF SeedInv, GrantsListed, Served
  <2>6. x \in TeacherRole => x[1] # "OWNER" /\ CodeOf(x) = "TEACHER"
    BY <2>2, CodesTold DEF CodeOf
  <2>7. x \in SystemRole => CodeOf(x) = x[1] /\ x[1] \in RoleCode
    BY <2>2, CodesTold DEF CodeOf
  <2>8. "TEACHER" \in RoleCode
    BY DEF RoleCode
  <2>9. x[1] = "OWNER" <=> "students:create" \in SystemRoles[CodeOf(x)]
    BY <2>2, <2>6, <2>7, <2>8, CodesTold DEF Role
  <2>10. QED
    BY <2>3, <2>4, <2>5, <2>9
<1>4. QED
  BY <1>1, <1>2, <1>3

\* seed-authorization: however many runs overlap, die halfway or start again,
\* and however many roles and members the services add meanwhile, a run that
\* ends has served all roles it found or made.
THEOREM SeedCoversHolds ==
    AuthSpec => []SeedCovers
<1>1. AuthInit => SeedInv
  BY SeedInvInit
<1>2. SeedInv /\ [AuthNext]_authVars => SeedInv'
  BY SeedInvStep
<1>3. SeedInv => SeedCovers
  BY ServedMeansCovered
<1>4. QED
  BY <1>1, <1>2, <1>3, PTL DEF AuthSpec


=============================================================================
