----------------------------- MODULE Directory ------------------------------
(***************************************************************************)
(* BranchesService, CoursesService, TeachersService, StudentsService, and  *)
(* of ClassesService what refers to them: create, update and duplicate.    *)
(* save of an entity is one step here, its SELECT and its write together:  *)
(* the row becomes what the entity says.  Roster and Scheduling take it    *)
(* apart.  The codes of classes are left out, a UNIQUE constraint backs    *)
(* their check; a refusal by it is Abandon.                                *)
(***************************************************************************)
EXTENDS Integers, FiniteSets

CONSTANTS
    Request,        \* slots for requests in flight at the same time
    Branch, Course, Teacher, Student, Class,
    Code,           \* codes of branches, courses, teachers and students
    MaxDay,         \* bound: the clock and the end dates
    Starts,         \* what a behaviour starts with
    NoItem, NoTeacher, NewClass

VARIABLES
    scope,          \* the endpoints clients call and whether calls overlap
    item,           \* branches, courses, teachers and students
    class,          \* classes
    today,
    pc,             \* where each request is suspended
    loc             \* the local variables of its handler

vars == <<scope, item, class, today, pc, loc>>
tables == <<scope, item, class, today>>

----------------------------------------------------------------------------
Kind == {"branch", "course", "teacher", "student"}

IdsOf(kind) ==
    CASE kind = "branch"  -> Branch
      [] kind = "course"  -> Course
      [] kind = "teacher" -> Teacher
      [] kind = "student" -> Student

Item == Branch \cup Course \cup Teacher \cup Student
KindOf(x) == CHOOSE kind \in Kind : x \in IdsOf(kind)
Person == {"teacher", "student"}

Date == 0 .. MaxDay
Status == {"ACTIVE", "INACTIVE"}
ItemRow == [status: Status, code: Code]
ClassRow == [branch: Branch, course: Course, teacher: Teacher \cup {NoTeacher},
             end: Date, cancelled: BOOLEAN]

\* "switch" is a branch's update with a status in it.
Endpoint == (Kind \cup {"class"})
              \X {"create", "update", "switch", "status", "remove", "duplicate"}

Items == [Item -> ItemRow \cup {NoItem}]
Classes == [Class -> ClassRow \cup {NewClass}]

\* NewClass stands for no row yet, in the table as in the frame of create.  The
\* tables start without classes and with branches that have different codes.
ASSUME DirectoryAssumption ==
    /\ IsFiniteSet(Request) /\ Request # {}
    /\ IsFiniteSet(Branch)
    /\ \A k, l \in Kind : k # l => IdsOf(k) \cap IdsOf(l) = {}
    /\ MaxDay \in Nat
    /\ NoItem \notin ItemRow
    /\ NewClass \notin Class \cup ClassRow
    /\ NoTeacher \notin Item
    /\ Starts \subseteq [calls: SUBSET Endpoint, overlap: BOOLEAN,
                         item: Items, class: Classes]
    /\ \A s \in Starts :
         /\ \A c \in Class : s.class[c] = NewClass
         /\ \A a, b \in Branch :
              a # b /\ NoItem \notin {s.item[a], s.item[b]} => s.item[a].code # s.item[b].code

NoFrame == [idle |-> TRUE]
InsertFrame == [kind: Kind, row: ItemRow, branches: SUBSET Branch]
ItemFrame == [id: Item, row: ItemRow, branches: SUBSET Branch]
ClassFrame == [id: Class \cup {NewClass}, row: ClassRow]

FrameOf(p) ==
    CASE p = "idle"   -> {NoFrame}
      [] p = "insert" -> InsertFrame
      [] p \in {"code", "branches", "branchClasses", "teacherClasses", "save",
                "delete"} -> ItemFrame
      [] p \in {"classBranch", "classCourse", "classTeacher", "classSave"} -> ClassFrame

PC == {"idle", "insert", "code", "branches", "branchClasses", "teacherClasses",
       "save", "delete", "classBranch", "classCourse", "classTeacher", "classSave"}

Init ==
    /\ \E s \in Starts : /\ scope = [calls |-> s.calls, overlap |-> s.overlap]
                         /\ item = s.item
                         /\ class = s.class
    /\ today = 0
    /\ pc = [r \in Request |-> "idle"]
    /\ loc = [r \in Request |-> NoFrame]

Goto(r, p, f) ==
    /\ pc' = [pc EXCEPT ![r] = p]
    /\ loc' = [loc EXCEPT ![r] = f]

Finish(r) == Goto(r, "idle", NoFrame)

Called(r, kind, operation) ==
    /\ <<kind, operation>> \in scope.calls
    /\ IF scope.overlap THEN pc[r] = "idle" ELSE \A q \in Request : pc[q] = "idle"

Exists(x) == item[x] # NoItem
Active(x) == Exists(x) /\ item[x].status = "ACTIVE"

\* findOneBy of the code, the row itself excepted.
CodeTaken(kind, code, but) ==
    \E x \in IdsOf(kind) \ but : Exists(x) /\ item[x].code = code

\* The tables of courses, teachers and students have UNIQUE (organization,
\* code), that of branches has not.
Unique(kind, code, but) ==
    kind = "branch" \/ ~CodeTaken(kind, code, but)

----------------------------------------------------------------------------
(* create, of any kind; branches are those a person is to belong to. *)

\* (mutant) Nobody looks for the code.
CreateRead_Unchecked(r, kind, row, branches) ==
    /\ Called(r, kind, "create")
    /\ Goto(r, "insert", [kind |-> kind, row |-> row, branches |-> branches])
    /\ UNCHANGED tables

CreateRead(r, kind, row, branches) ==
    /\ Called(r, kind, "create")
    /\ ~CodeTaken(kind, row.code, {})
    /\ Goto(r, "insert", [kind |-> kind, row |-> row, branches |-> branches])
    /\ UNCHANGED tables

BranchCreate(r, row) == CreateRead(r, "branch", row, {})

CourseCreate(r, row) == CreateRead(r, "course", row, {})

TeacherCreate(r, code, branches) ==
    CreateRead(r, "teacher", [status |-> "ACTIVE", code |-> code], branches)

StudentCreate(r, code, branches) ==
    CreateRead(r, "student", [status |-> "ACTIVE", code |-> code], branches)

\* The INSERT; for a person the transaction that looks at the branches and
\* inserts user, membership and profile.
Insert(r) ==
    /\ pc[r] = "insert"
    /\ LET f == loc[r] IN
         IF Unique(f.kind, f.row.code, {}) /\ \A b \in f.branches : Active(b)
         THEN \E x \in IdsOf(f.kind) :
                ~Exists(x) /\ item' = [item EXCEPT ![x] = f.row]
         ELSE UNCHANGED item
    /\ Finish(r)
    /\ UNCHANGED <<scope, class, today>>

----------------------------------------------------------------------------
(* update, of any kind *)

\* findOne; a new code and new branches are looked at before the save.
UpdateRead(r, x, row, branches) ==
    /\ Exists(x)
    /\ Goto(r, IF row.code # item[x].code THEN "code"
               ELSE IF branches # {} THEN "branches" ELSE "save",
            [id |-> x, row |-> row, branches |-> branches])
    /\ UNCHANGED tables

\* The DTO may carry a status, and no classes are counted for it.
BranchUpdate(r, b, row) ==
    /\ Exists(b)
    /\ \/ Called(r, "branch", "update") /\ row.status = item[b].status
       \/ Called(r, "branch", "switch")
    /\ UpdateRead(r, b, row, {})

CourseUpdate(r, c, row) ==
    Called(r, "course", "update") /\ UpdateRead(r, c, row, {})

TeacherUpdate(r, t, code, branches) ==
    /\ Called(r, "teacher", "update")
    /\ Exists(t) /\ UpdateRead(r, t, [item[t] EXCEPT !.code = code], branches)

StudentUpdate(r, s, code, branches) ==
    /\ Called(r, "student", "update")
    /\ Exists(s) /\ UpdateRead(r, s, [item[s] EXCEPT !.code = code], branches)

UpdateCode(r) ==
    /\ pc[r] = "code"
    /\ LET f == loc[r] IN
         IF CodeTaken(KindOf(f.id), f.row.code, {f.id})
         THEN Finish(r)
         ELSE Goto(r, IF f.branches # {} THEN "branches" ELSE "save", f)
    /\ UNCHANGED tables

\* resolveBranches.
UpdateBranches(r) ==
    /\ pc[r] = "branches"
    /\ IF \A b \in loc[r].branches : Active(b) THEN Goto(r, "save", loc[r]) ELSE Finish(r)
    /\ UNCHANGED tables

\* save: all columns are as in the entity; a course deleted meanwhile is
\* inserted again.
ItemSave(r) ==
    /\ pc[r] = "save"
    /\ LET f == loc[r] IN
         item' = IF Unique(KindOf(f.id), f.row.code, {f.id})
                 THEN [item EXCEPT ![f.id] = f.row] ELSE item
    /\ Finish(r)
    /\ UNCHANGED <<scope, class, today>>

----------------------------------------------------------------------------
(* Deactivation and removal *)

\* class.endDate >= CURRENT_DATE: the last day counts.
BranchBusy(b) ==
    \E c \in Class : /\ class[c] # NewClass
                     /\ class[c].branch = b
                     /\ ~class[c].cancelled
                     /\ class[c].end >= today

\* (mutant) A class ends a day earlier.
TeacherBusy_EndedYesterday(t) ==
    \E c \in Class : /\ class[c] # NewClass
                     /\ class[c].teacher = t
                     /\ ~class[c].cancelled
                     /\ class[c].end > today + 1

\* new Date(endDate) >= new Date(): an end date is the midnight that begins the
\* day, so the last day does not count.
TeacherBusy(t) ==
    \E c \in Class : /\ class[c] # NewClass
                     /\ class[c].teacher = t
                     /\ ~class[c].cancelled
                     /\ class[c].end > today

With(x, status) == [id |-> x, row |-> [item[x] EXCEPT !.status = status], branches |-> {}]

BranchRemove(r, b) ==
    /\ Called(r, "branch", "remove")
    /\ Exists(b)
    /\ Goto(r, "branchClasses", With(b, "INACTIVE"))
    /\ UNCHANGED tables

BranchCount(r) ==
    /\ pc[r] = "branchClasses"
    /\ IF BranchBusy(loc[r].id) THEN Finish(r) ELSE Goto(r, "save", loc[r])
    /\ UNCHANGED tables

TeacherStatus(r, t, status) ==
    /\ Called(r, "teacher", "status")
    /\ Exists(t)
    /\ Goto(r, IF status = "INACTIVE" THEN "teacherClasses" ELSE "save", With(t, status))
    /\ UNCHANGED tables

TeacherClasses(r) ==
    /\ pc[r] = "teacherClasses"
    /\ IF TeacherBusy(loc[r].id) THEN Finish(r) ELSE Goto(r, "save", loc[r])
    /\ UNCHANGED tables

StudentStatus(r, s, status) ==
    /\ Called(r, "student", "status")
    /\ Exists(s)
    /\ Goto(r, "save", With(s, status))
    /\ UNCHANGED tables

CourseRemove(r, c) ==
    /\ Called(r, "course", "remove")
    /\ Exists(c)
    /\ Goto(r, "delete", With(c, "INACTIVE"))
    /\ UNCHANGED tables

\* The row is deleted for good and, by ON DELETE CASCADE, its classes.
CourseDelete(r) ==
    /\ pc[r] = "delete"
    /\ LET x == loc[r].id IN
         /\ item' = [item EXCEPT ![x] = NoItem]
         /\ class' = [c \in Class |->
              IF class[c] # NewClass /\ class[c].course = x THEN NewClass ELSE class[c]]
    /\ Finish(r)
    /\ UNCHANGED <<scope, today>>

----------------------------------------------------------------------------
(* Classes: create, update and duplicate *)

\* create: the identity is given by the INSERT.
ClassCreate(r, row) ==
    /\ Called(r, "class", "create")
    /\ ~row.cancelled
    /\ Goto(r, "classBranch", [id |-> NewClass, row |-> row])
    /\ UNCHANGED tables

\* update: what the DTO omits is as it was read; a teacherId of null leaves the
\* class without a teacher.
ClassUpdate(r, c, row) ==
    /\ Called(r, "class", "update")
    /\ class[c] # NewClass
    /\ row.cancelled = class[c].cancelled
    /\ Goto(r, "classBranch", [id |-> c, row |-> row])
    /\ UNCHANGED tables

\* assertReferencesInOrganization: the branch ...
ClassCheckBranch(r) ==
    /\ pc[r] = "classBranch"
    /\ IF Active(loc[r].row.branch) THEN Goto(r, "classCourse", loc[r]) ELSE Finish(r)
    /\ UNCHANGED tables

\* ... the course ...
ClassCheckCourse(r) ==
    /\ pc[r] = "classCourse"
    /\ IF Active(loc[r].row.course)
       THEN Goto(r, IF loc[r].row.teacher = NoTeacher THEN "classSave" ELSE "classTeacher",
                 loc[r])
       ELSE Finish(r)
    /\ UNCHANGED tables

\* (mutant) It is enough that the teacher exists.
ClassCheckTeacher_Exists(r) ==
    /\ pc[r] = "classTeacher"
    /\ IF Exists(loc[r].row.teacher) THEN Goto(r, "classSave", loc[r]) ELSE Finish(r)
    /\ UNCHANGED tables

\* ... and the teacher.
ClassCheckTeacher(r) ==
    /\ pc[r] = "classTeacher"
    /\ IF Active(loc[r].row.teacher) THEN Goto(r, "classSave", loc[r]) ELSE Finish(r)
    /\ UNCHANGED tables

\* duplicate: the references are those of the original, as they are.
ClassDuplicate(r, c) ==
    /\ Called(r, "class", "duplicate")
    /\ class[c] # NewClass
    /\ Goto(r, "classSave", [id |-> NewClass, row |-> [class[c] EXCEPT !.cancelled = FALSE]])
    /\ UNCHANGED tables

\* (mutant) A class is inserted although its course is gone.
References_Branch(row) == Exists(row.branch)

\* The foreign keys of a class.
References(row) == Exists(row.branch) /\ Exists(row.course)

\* save: INSERT of a new class, UPDATE of a stored one, and INSERT again of
\* one that was deleted meanwhile.
ClassSave(r) ==
    /\ pc[r] = "classSave"
    /\ LET f == loc[r] IN
         IF References(f.row)
         THEN \E c \in IF f.id = NewClass THEN {x \in Class : class[x] = NewClass} ELSE {f.id} :
                class' = [class EXCEPT ![c] = f.row]
         ELSE UNCHANGED class
    /\ Finish(r)
    /\ UNCHANGED <<scope, item, today>>

----------------------------------------------------------------------------
\* ClassesService.remove, at once: module Roster has its interleavings.
ClassCancel(c) ==
    /\ <<"class", "remove">> \in scope.calls
    /\ class[c] # NewClass
    /\ class' = [class EXCEPT ![c].cancelled = TRUE]
    /\ UNCHANGED <<scope, item, today, pc, loc>>

Tick ==
    /\ today < MaxDay
    /\ today' = today + 1
    /\ UNCHANGED <<scope, item, class, pc, loc>>

\* A request stops at an await: a check of something else refuses it, the
\* connection fails or the process dies.
Abandon(r) ==
    /\ pc[r] # "idle"
    /\ Finish(r)
    /\ UNCHANGED tables

ItemCalls(r) ==
    \/ \E row \in ItemRow : BranchCreate(r, row) \/ CourseCreate(r, row)
    \/ \E row \in ItemRow, b \in Branch : BranchUpdate(r, b, row)
    \/ \E row \in ItemRow, c \in Course : CourseUpdate(r, c, row)
    \/ \E code \in Code, b \in Branch : \/ TeacherCreate(r, code, {b})
                                        \/ StudentCreate(r, code, {b})
    \/ \E code \in Code, branches \in SUBSET Branch :
         \/ \E t \in Teacher : TeacherUpdate(r, t, code, branches)
         \/ \E s \in Student : StudentUpdate(r, s, code, branches)
    \/ \E b \in Branch : BranchRemove(r, b)
    \/ \E c \in Course : CourseRemove(r, c)
    \/ \E status \in Status : \/ \E t \in Teacher : TeacherStatus(r, t, status)
                              \/ \E s \in Student : StudentStatus(r, s, status)

ClassCalls(r) ==
    \/ \E row \in ClassRow : ClassCreate(r, row)
    \/ \E c \in Class : \/ ClassDuplicate(r, c)
                        \/ \E row \in ClassRow : ClassUpdate(r, c, row)

Step(r) ==
    \/ Insert(r) \/ UpdateCode(r) \/ UpdateBranches(r) \/ ItemSave(r)
    \/ BranchCount(r) \/ TeacherClasses(r) \/ CourseDelete(r)
    \/ ClassCheckBranch(r) \/ ClassCheckCourse(r) \/ ClassCheckTeacher(r)
    \/ ClassSave(r)

Next ==
    \/ \E r \in Request : ItemCalls(r) \/ ClassCalls(r) \/ Step(r) \/ Abandon(r)
    \/ \E c \in Class : ClassCancel(c)
    \/ Tick

Spec == Init /\ [][Next]_vars

----------------------------------------------------------------------------
(* Type invariant *)

\* Every variable has the type of its columns or locals, and every class the
\* branch and the course its foreign keys name.
TypeOK ==
    /\ scope \in [calls: SUBSET Endpoint, overlap: BOOLEAN]
    /\ item \in Items
    /\ class \in Classes
    /\ \A c \in Class : class[c] # NewClass =>
         Exists(class[c].branch) /\ Exists(class[c].course)
    /\ today \in Date
    /\ pc \in [Request -> PC]
    /\ DOMAIN loc = Request
    /\ \A r \in Request : loc[r] \in FrameOf(pc[r])

----------------------------------------------------------------------------
(* Properties *)

\* With one request at a time, nothing in use is deactivated: a class that is
\* not cancelled has an ACTIVE teacher until its last day begins, and an ACTIVE
\* branch until it ends, whatever sequence of creations, changes of class and
\* clock leads there.  It holds without the two endpoints that check
\* nothing: the status in a branch's update, and duplicate.
InUseIsActive ==
    ~scope.overlap /\ scope.calls \cap {<<"branch", "switch">>, <<"class", "duplicate">>} = {} =>
      \A c \in Class : class[c] # NewClass /\ ~class[c].cancelled =>
        /\ class[c].end >= today => Active(class[c].branch)
        /\ class[c].end > today /\ class[c].teacher # NoTeacher => Active(class[c].teacher)

\* A request past its check of the branch or of the teacher x.
Holds(r, x) ==
    \/ pc[r] \in {"classCourse", "classTeacher", "classSave"} /\ loc[r].row.branch = x
    \/ pc[r] = "classSave" /\ loc[r].row.teacher = x

\* x is INACTIVE, no class refers to it and no request is about to.
Retired(x) ==
    /\ Exists(x) /\ item[x].status = "INACTIVE"
    /\ \A c \in Class : class[c] # NewClass => x \notin {class[c].branch, class[c].teacher}
    /\ \A r \in Request : ~Holds(r, x)

\* However requests overlap, a retired branch or teacher gets no class until
\* it is ACTIVE again: each endpoint that assigns one asks for its status
\* first, and duplicate needs a class that has it already.
RetiredStaysOut ==
    [][\A x \in Branch \cup Teacher :
         Retired(x) /\ item'[x] # NoItem /\ item'[x].status = "INACTIVE" => Retired(x)']_vars

\* No constraint keeps the codes of branches apart, only the check that
\* precedes each write: one request at a time they are distinct, and no more
\* branches share a code than requests overlap.
BranchCodesBounded ==
    \A code \in Code :
      Cardinality({b \in Branch : Exists(b) /\ item[b].code = code})
        <= IF scope.overlap THEN Cardinality(Request) ELSE 1

=============================================================================
