----------------------------- MODULE Scheduling -----------------------------
(***************************************************************************)
(* SchedulesService (create, createBulk, update, remove) and the teacher   *)
(* change of ClassesService.update: the handlers that read the weekly      *)
(* schedules of a class and of its teacher before they write.              *)
(*                                                                         *)
(* A time is kept in the database as a number of minutes (a "time" column) *)
(* and compared by the handlers as text: a DTO spells it HH:mm, a loaded   *)
(* row HH:mm:ss.  Text orders by prefix, so of one and the same time the   *)
(* DTO's spelling comes first, and 2t and 2t + 1 order the spellings of t. *)
(***************************************************************************)
EXTENDS Integers, FiniteSets

CONSTANTS
    Request,        \* slots for requests in flight at the same time
    Class, Teacher, NoTeacher,
    Slot,           \* identities of schedule rows
    Day,
    Minute,         \* times of day
    Loads,          \* what clients do: a set of alternatives
    Ops             \* the endpoints they call in a run

Endpoint == {"create", "update", "remove", "teacher", "state"}

\* Bounds: requests in flight at the same time, the classes and teachers there
\* are, the rows that can be made, the times of day in use, and the windows of
\* one createBulk request.
Load == [requests: SUBSET Request, classes: SUBSET Class, teachers: SUBSET Teacher,
         slots: SUBSET Slot, minutes: SUBSET Minute, bulk: Nat]

ASSUME SchedulingAssumption ==
    /\ IsFiniteSet(Request)
    /\ NoTeacher \notin Teacher
    /\ Minute \subseteq Nat
    /\ Ops \subseteq Endpoint
    /\ Loads \subseteq Load

VARIABLES
    load,           \* the alternative chosen for this behaviour
    class,          \* teacher of each class and whether it can be edited
    schedules,      \* the schedule rows
    pc,             \* where each request is suspended
    loc             \* the local variables of its handler

vars == <<load, class, schedules, pc, loc>>

----------------------------------------------------------------------------
\* "CANCELLED" stands for that lifecycle status, the others for the record
\* status of a class that is not cancelled.
ClassRow == [teacher: Teacher \cup {NoTeacher},
             state: {"ACTIVE", "INACTIVE", "CANCELLED"}]

ScheduleRow == [id: Slot, cls: Class, day: Day, start: Minute, end: Minute]

Dto(t) == 2 * t
Loaded(t) == 2 * t + 1
\* (mutant) A time is written back as it is spelled.
MinuteOf_Text(text) == text

MinuteOf(text) == text \div 2
Text == {Dto(t) : t \in Minute} \cup {Loaded(t) : t \in Minute}

\* The day and times a handler works with.
Window == [day: Day, start: Text, end: Text]

NoFrame == [idle |-> TRUE]
CreateFrame == [cls: Class, teacher: Teacher \cup {NoTeacher}, new: SUBSET Window]
RowFrame == [row: ScheduleRow, win: Window]
UpdateFrame == [row: ScheduleRow, cls: Class, teacher: Teacher \cup {NoTeacher},
                new: SUBSET Window]
RemoveFrame == [row: ScheduleRow]
WriteFrame == [row: ScheduleRow, dirty: SUBSET {"day", "start", "end"}]
TeacherFrame == [cls: Class, entity: ClassRow]
AssignFrame == [cls: Class, entity: ClassRow, dirty: SUBSET {"teacher", "state"}]
CompareFrame == [cls: Class, entity: ClassRow, own: SUBSET ScheduleRow]

PC == {"idle", "own", "others", "insert", "editable", "ownBut", "othersBut",
       "save", "write", "restore", "removable", "delete", "load", "compare",
       "assign", "rewrite"}

FrameOf(p) ==
    CASE p = "idle"                           -> {NoFrame}
      [] p \in {"own", "others", "insert"}    -> CreateFrame
      [] p = "editable"                       -> RowFrame
      [] p \in {"ownBut", "othersBut", "save"} -> UpdateFrame
      [] p \in {"restore", "removable", "delete"} -> RemoveFrame
      [] p \in {"load", "assign"}             -> TeacherFrame
      [] p = "write"                          -> WriteFrame
      [] p = "compare"                        -> CompareFrame
      [] p = "rewrite"                        -> AssignFrame

Init ==
    /\ load \in Loads
    /\ class \in [load.classes -> {row \in ClassRow :
                     row.state = "ACTIVE" /\ row.teacher \in load.teachers \cup {NoTeacher}}]
    /\ schedules = {}
    /\ pc = [r \in Request |-> "idle"]
    /\ loc = [r \in Request |-> NoFrame]

Goto(r, p, f) ==
    /\ pc' = [pc EXCEPT ![r] = p]
    /\ loc' = [loc EXCEPT ![r] = f]

Finish(r) == Goto(r, "idle", NoFrame)

Called(r, e) == pc[r] = "idle" /\ r \in load.requests /\ e \in Ops

----------------------------------------------------------------------------
(* The comparisons *)

\* (mutant) A window within another one is not noticed.
IsOverlapping_StartOnly(a, b, c, d) == c <= a /\ a < d

IsOverlapping(newStart, newEnd, existingStart, existingEnd) ==
    newStart < existingEnd /\ newEnd > existingStart

\* A window of a request against one of the same request ...
WindowsClash(w, v) ==
    w.day = v.day /\ IsOverlapping(w.start, w.end, v.start, v.end)

\* ... and against a loaded row.
RowClash(w, row) ==
    w.day = row.day
      /\ IsOverlapping(w.start, w.end, Loaded(row.start), Loaded(row.end))

OfClass(c) == {row \in schedules : row.cls = c}

\* (mutant) Schedules of classes that are not ACTIVE do not count.
OfTeacherElsewhere_ActiveOnly(t, c) ==
    {row \in schedules : /\ row.cls # c
                         /\ class[row.cls].teacher = t
                         /\ class[row.cls].state = "ACTIVE"}

\* The schedules of t's other classes, the cancelled ones excepted.
OfTeacherElsewhere(t, c) ==
    {row \in schedules : /\ row.cls # c
                         /\ class[row.cls].teacher = t
                         /\ class[row.cls].state # "CANCELLED"}

----------------------------------------------------------------------------
(* create and createBulk; create is the case of one window. *)

CreateReadClass(r, c, new) ==
    /\ Called(r, "create")
    /\ class[c].state = "ACTIVE"
    /\ \A w \in new : w.start < w.end
    /\ \A w, v \in new : w # v => ~WindowsClash(w, v)
    /\ Goto(r, "own", [cls |-> c, teacher |-> class[c].teacher, new |-> new])
    /\ UNCHANGED <<load, class, schedules>>

\* assertNoClassConflict.
CreateCheckClass(r) ==
    /\ pc[r] = "own"
    /\ LET f == loc[r] IN
         IF \E w \in f.new, row \in OfClass(f.cls) : RowClash(w, row)
         THEN Finish(r)
         ELSE Goto(r, "others", f)
    /\ UNCHANGED <<load, class, schedules>>

TeacherBusy(t, c, new, but) ==
    /\ t # NoTeacher
    /\ \E w \in new, row \in OfTeacherElsewhere(t, c) :
         row.id \notin but /\ RowClash(w, row)

\* assertNoTeacherConflict, for the teacher the class had when it was read.
CreateCheckTeacher(r) ==
    /\ pc[r] = "others"
    /\ LET f == loc[r] IN
         IF TeacherBusy(f.teacher, f.cls, f.new, {})
         THEN Finish(r)
         ELSE Goto(r, "insert", f)
    /\ UNCHANGED <<load, class, schedules>>

\* Identities are never used twice, so a new one is unknown to any handler.
FreshId ==
    {id \in load.slots : /\ \A row \in schedules : row.id # id
                   /\ \A q \in Request :
                        pc[q] \in {"editable", "ownBut", "othersBut", "save",
                                  "write", "restore", "removable", "delete"}
                          => loc[q].row.id # id}

\* save: all rows in one transaction.
CreateInsert(r) ==
    /\ pc[r] = "insert"
    /\ LET f == loc[r] IN
         \E id \in [f.new -> FreshId] :
           /\ \A w, v \in f.new : w # v => id[w] # id[v]
           /\ schedules' = schedules \cup
                {[id |-> id[w], cls |-> f.cls, day |-> w.day,
                  start |-> MinuteOf(w.start), end |-> MinuteOf(w.end)] : w \in f.new}
    /\ Finish(r)
    /\ UNCHANGED <<load, class>>

----------------------------------------------------------------------------
(* update *)

\* findOneBy; what the DTO omits keeps the spelling of the loaded row.
Patches(row) ==
    {w \in Window : /\ w.start \in {Dto(t) : t \in load.minutes} \cup {Loaded(row.start)}
                    /\ w.end \in {Dto(t) : t \in load.minutes} \cup {Loaded(row.end)}}

UpdateReadRow(r, row, w) ==
    /\ Called(r, "update")
    /\ w \in Patches(row)
    /\ Goto(r, "editable", [row |-> row, win |-> w])
    /\ UNCHANGED <<load, class, schedules>>

\* assertClassEditable and validateTimeRange.
UpdateReadClass(r) ==
    /\ pc[r] = "editable"
    /\ LET f == loc[r]
           c == f.row.cls
       IN IF class[c].state = "ACTIVE" /\ f.win.start < f.win.end
          THEN Goto(r, "ownBut", [row |-> f.row, cls |-> c,
                                  teacher |-> class[c].teacher, new |-> {f.win}])
          ELSE Finish(r)
    /\ UNCHANGED <<load, class, schedules>>

\* assertNoClassConflict, the row itself excepted.
UpdateCheckClass(r) ==
    /\ pc[r] = "ownBut"
    /\ LET f == loc[r] IN
         IF \E w \in f.new, row \in OfClass(f.cls) :
              row.id # f.row.id /\ RowClash(w, row)
         THEN Finish(r)
         ELSE Goto(r, "othersBut", f)
    /\ UNCHANGED <<load, class, schedules>>

UpdateCheckTeacher(r) ==
    /\ pc[r] = "othersBut"
    /\ LET f == loc[r] IN
         IF TeacherBusy(f.teacher, f.cls, f.new, {f.row.id})
         THEN Finish(r)
         ELSE Goto(r, "save", f)
    /\ UNCHANGED <<load, class, schedules>>

\* save: the SELECT.  The columns in which the entity differs from the row as
\* it is now will be written; a row that is gone will be inserted again.
UpdateSelect(r) ==
    /\ pc[r] = "save"
    /\ LET f == loc[r]
           w == CHOOSE x \in f.new : TRUE
           new == [f.row EXCEPT !.day = w.day, !.start = MinuteOf(w.start),
                                !.end = MinuteOf(w.end)]
           stored == {row \in schedules : row.id = f.row.id}
       IN \/ \E now \in stored :
               Goto(r, "write", [row |-> new, dirty |->
                 {k \in {"day", "start", "end"} :
                    w[k] # IF k = "day" THEN now[k] ELSE Loaded(now[k])}])
          \/ stored = {} /\ Goto(r, "restore", [row |-> new])
    /\ UNCHANGED <<load, class, schedules>>

\* save: the UPDATE, of those columns; no row, nothing to update.
UpdateWrite(r) ==
    /\ pc[r] = "write"
    /\ LET f == loc[r]
           written(now) == [k \in DOMAIN now |-> IF k \in f.dirty THEN f.row[k] ELSE now[k]]
       IN schedules' = {IF now.id = f.row.id THEN written(now) ELSE now : now \in schedules}
    /\ Finish(r)
    /\ UNCHANGED <<load, class>>

\* save: the INSERT, which fails when another one restored the row.
UpdateRestore(r) ==
    /\ pc[r] = "restore"
    /\ IF \E row \in schedules : row.id = loc[r].row.id
       THEN UNCHANGED schedules
       ELSE schedules' = schedules \cup {loc[r].row}
    /\ Finish(r)
    /\ UNCHANGED <<load, class>>

----------------------------------------------------------------------------
(* remove *)

RemoveReadRow(r, row) ==
    /\ Called(r, "remove")
    /\ Goto(r, "removable", [row |-> row])
    /\ UNCHANGED <<load, class, schedules>>

\* (mutant) Schedules of any class can be removed.
RemoveReadClass_Unchecked(r) ==
    /\ pc[r] = "removable"
    /\ Goto(r, "delete", loc[r])
    /\ UNCHANGED <<load, class, schedules>>

\* assertClassEditable.
RemoveReadClass(r) ==
    /\ pc[r] = "removable"
    /\ IF class[loc[r].row.cls].state = "ACTIVE"
       THEN Goto(r, "delete", loc[r])
       ELSE Finish(r)
    /\ UNCHANGED <<load, class, schedules>>

RemoveDelete(r) ==
    /\ pc[r] = "delete"
    /\ schedules' = {row \in schedules : row.id # loc[r].row.id}
    /\ Finish(r)
    /\ UNCHANGED <<load, class>>

----------------------------------------------------------------------------
(* ClassesService.update: another teacher *)

TeacherReadClass(r, c, t) ==
    /\ Called(r, "teacher")
    /\ t # class[c].teacher
    /\ Goto(r, IF t = NoTeacher THEN "assign" ELSE "load",
            [cls |-> c, entity |-> [class[c] EXCEPT !.teacher = t]])
    /\ UNCHANGED <<load, class, schedules>>

\* assertTeacherScheduleCompatible: the class's own schedules ...
TeacherLoad(r) ==
    /\ pc[r] = "load"
    /\ LET f == loc[r] IN
         IF OfClass(f.cls) = {}
         THEN Goto(r, "assign", f)
         ELSE Goto(r, "compare", [cls |-> f.cls, entity |-> f.entity,
                                  own |-> OfClass(f.cls)])
    /\ UNCHANGED <<load, class, schedules>>

LoadedWindow(row) ==
    [day |-> row.day, start |-> Loaded(row.start), end |-> Loaded(row.end)]

\* ... against those of the new teacher's other classes.
TeacherCompare(r) ==
    /\ pc[r] = "compare"
    /\ LET f == loc[r] IN
         IF TeacherBusy(f.entity.teacher, f.cls, {LoadedWindow(row) : row \in f.own}, {})
         THEN Finish(r)
         ELSE Goto(r, "assign", [cls |-> f.cls, entity |-> f.entity])
    /\ UNCHANGED <<load, class, schedules>>

\* save(classEntity): the SELECT ...
AssignSelect(r) ==
    /\ pc[r] = "assign"
    /\ LET f == loc[r] IN
         Goto(r, "rewrite", [cls |-> f.cls, entity |-> f.entity, dirty |->
           {k \in {"teacher", "state"} : f.entity[k] # class[f.cls][k]}])
    /\ UNCHANGED <<load, class, schedules>>

\* ... and the UPDATE of the columns that differed.
AssignUpdate(r) ==
    /\ pc[r] = "rewrite"
    /\ LET f == loc[r]
           val(k) == IF k \in f.dirty THEN f.entity[k] ELSE class[f.cls][k]
       IN class' = [class EXCEPT ![f.cls] = [teacher |-> val("teacher"),
                                             state |-> val("state")]]
    /\ Finish(r)
    /\ UNCHANGED <<load, schedules>>

----------------------------------------------------------------------------
\* ClassesService.update of the status, or remove once the class has no
\* schedule, at once: module Roster has their interleavings.
ClassSetState(c, state) ==
    /\ "state" \in Ops
    /\ class[c].state # "CANCELLED"
    /\ state = "CANCELLED" => OfClass(c) = {}
    /\ class' = [class EXCEPT ![c].state = state]
    /\ UNCHANGED <<load, schedules, pc, loc>>

\* A request stops at an await: a check of something else refuses it, the
\* connection fails or the process dies.
Abandon(r) ==
    /\ pc[r] # "idle"
    /\ Finish(r)
    /\ UNCHANGED <<load, class, schedules>>

\* The lists of windows that clients send, as sets: a list with a repeated
\* window is refused at once.
Lists ==
    LET texts == {Dto(t) : t \in load.minutes} IN
    {new \in SUBSET [day: Day, start: texts, end: texts] :
       new # {} /\ Cardinality(new) <= load.bulk}

Step(r) ==
    \/ CreateCheckClass(r) \/ CreateCheckTeacher(r) \/ CreateInsert(r)
    \/ UpdateReadClass(r) \/ UpdateCheckClass(r) \/ UpdateCheckTeacher(r)
    \/ UpdateSelect(r) \/ UpdateWrite(r) \/ UpdateRestore(r)
    \/ RemoveReadClass(r) \/ RemoveDelete(r)
    \/ TeacherLoad(r) \/ TeacherCompare(r) \/ AssignSelect(r) \/ AssignUpdate(r)

Next ==
    \/ \E r \in Request :
         \/ Step(r) \/ Abandon(r)
         \/ \E c \in load.classes, new \in Lists : CreateReadClass(r, c, new)
         \/ \E row \in schedules : \/ RemoveReadRow(r, row)
                                   \/ \E w \in Window : UpdateReadRow(r, row, w)
         \/ \E c \in load.classes, t \in load.teachers \cup {NoTeacher} : TeacherReadClass(r, c, t)
    \/ \E c \in load.classes, state \in {"ACTIVE", "INACTIVE", "CANCELLED"} :
         ClassSetState(c, state)

Spec == Init /\ [][Next]_vars

----------------------------------------------------------------------------
(* Type invariant *)

\* Every variable has the type of its column or local, and no two rows have
\* the same primary key.
TypeOK ==
    /\ load \in Loads
    /\ class \in [load.classes -> ClassRow]
    /\ schedules \subseteq ScheduleRow
    /\ \A x, y \in schedules : x.id = y.id => x = y
    /\ pc \in [Request -> PC]
    /\ DOMAIN loc = Request
    /\ \A r \in Request : loc[r] \in FrameOf(pc[r])

----------------------------------------------------------------------------
(* Properties *)

\* The rows share some time of the week, whatever its spelling.
Overlap(x, y) == x.day = y.day /\ x.start < y.end /\ x.end > y.start

Serial == Cardinality(load.requests) = 1

\* One request at a time, the schedules of one class never overlap: every write
\* is checked against the others first.
NoClassOverlap ==
    Serial => \A x, y \in schedules : x # y /\ x.cls = y.cls => ~Overlap(x, y)

\* One request at a time, no teacher is booked twice: a schedule is checked against the teacher's
\* other classes, a new teacher against the schedules of the class.
NoDoubleBooking ==
    Serial => \A x, y \in schedules :
      /\ x.cls # y.cls
      /\ class[x.cls].teacher = class[y.cls].teacher
      /\ class[x.cls].teacher # NoTeacher
      /\ "CANCELLED" \notin {class[x.cls].state, class[y.cls].state}
      => ~Overlap(x, y)

\* Request r is past the read of class c that could refuse its write.
MayWrite(r, c) ==
    \/ pc[r] \in {"own", "others", "insert", "ownBut", "othersBut", "save"}
         /\ loc[r].cls = c
    \/ pc[r] \in {"write", "restore", "delete"} /\ loc[r].row.cls = c

\* Class c is not ACTIVE and no request that could still write its schedules
\* is in flight.
Frozen(c) == class[c].state # "ACTIVE" /\ \A r \in Request : ~MayWrite(r, c)

\* The schedules of a class that is not ACTIVE are frozen, but for requests
\* that read it while it was: until it is ACTIVE again no request gets past
\* assertClassEditable, and none adds, changes or removes a row.
FrozenUnlessActive ==
    [][\A c \in load.classes :
         Frozen(c) => /\ OfClass(c)' = OfClass(c)
                      /\ class'[c].state # "ACTIVE" => Frozen(c)']_vars

=============================================================================
