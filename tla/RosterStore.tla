---------------------------- MODULE RosterStore ----------------------------
(***************************************************************************)
(* The database rows that the enrollment, class and schedule endpoints     *)
(* share, and the frame of a request handler running against them.         *)
(*                                                                         *)
(* A handler of the NestJS backend is a chain of awaited statements, each  *)
(* committed on its own (Postgres READ COMMITTED, no row locks).  Every    *)
(* await is a point where other requests run, so a request is a program    *)
(* counter pc[r] plus the local variables loc[r] that survive the await.   *)
(***************************************************************************)
EXTENDS Integers, FiniteSets

CONSTANTS
    Request,        \* slots for requests in flight at the same time
    Student,
    Class,
    MaxCapacity,    \* bound: capacities are 1..MaxCapacity
    EndDate,        \* days a class may end on
    MaxDay,         \* bound of the clock
    Slot,           \* identities of weekly schedule rows
    Ops             \* the endpoints clients call in a run

Endpoint == {"enroll", "setStatus", "unenroll", "updateClass", "removeClass",
             "schedule", "student"}

ASSUME RosterAssumption ==
    /\ IsFiniteSet(Request) /\ Request # {}
    /\ IsFiniteSet(Student)
    /\ MaxCapacity \in Nat \ {0}
    /\ EndDate \subseteq Nat
    /\ MaxDay \in Nat
    /\ Ops \subseteq Endpoint

VARIABLES
    student,        \* students.status
    class,          \* the columns of a class row that matter here
    enrollment,     \* enrollments.status per (class, student), or "NONE"
    slots,          \* the schedule rows of each class
    today,          \* the server's clock, in days
    pc,             \* where each request is suspended
    loc             \* the local variables of its handler

store == <<student, class, enrollment, slots, today>>
vars == <<student, class, enrollment, slots, today, pc, loc>>

----------------------------------------------------------------------------
(* Rows *)

Capacity == 1..MaxCapacity
RecordStatus == {"ACTIVE", "INACTIVE"}
EnrollmentStatus == {"ACTIVE", "COMPLETED", "CANCELLED"}

\* Only CANCELLED is ever told apart from the other stored lifecycle values.
LifecycleStatus == {"UPCOMING", "CANCELLED"}

ClassRow == [status: RecordStatus, lifecycleStatus: LifecycleStatus,
             capacity: Capacity, endDate: EndDate]

Column == {"status", "lifecycleStatus", "capacity", "endDate"}

Active(c) == {s \in Student : enrollment[c][s] = "ACTIVE"}

----------------------------------------------------------------------------
(* Frames: what a suspended handler remembers *)

NoFrame == [idle |-> TRUE]
StudentFrame == [stu: Student, cls: Class]
CountFrame == [stu: Student, cls: Class, cap: Capacity]
StatusFrame == [stu: Student, cls: Class, target: EnrollmentStatus]
SlotFrame == [cls: Class]
SlotRowFrame == [cls: Class, row: Slot]
EntityFrame == [cls: Class, row: ClassRow]
DirtyFrame == [cls: Class, row: ClassRow, dirty: SUBSET Column]

Frame == {NoFrame} \cup StudentFrame \cup CountFrame \cup StatusFrame
           \cup SlotFrame \cup SlotRowFrame \cup EntityFrame \cup DirtyFrame

StudentPC == {"class", "existing", "insert"}
EntityPC == {"capacity", "enrolled", "scheduled", "select"}
PC == {"idle", "error", "count", "status", "slot", "unslot", "update"}
        \cup StudentPC \cup EntityPC

FrameOf(p) ==
    CASE p \in {"idle", "error"} -> {NoFrame}
      [] p \in StudentPC         -> StudentFrame
      [] p = "count"             -> CountFrame
      [] p = "status"            -> StatusFrame
      [] p = "slot"              -> SlotFrame
      [] p = "unslot"            -> SlotRowFrame
      [] p \in EntityPC          -> EntityFrame
      [] p = "update"            -> DirtyFrame

\* A handler reaches its next await with locals f.
Goto(r, p, f) ==
    /\ pc' = [pc EXCEPT ![r] = p]
    /\ loc' = [loc EXCEPT ![r] = f]

\* It answers; its locals are gone.
Finish(r) == Goto(r, "idle", NoFrame)

\* It throws an exception nothing catches: the client sees status 500.
Fail(r) == Goto(r, "error", NoFrame)

\* A client calls endpoint e in slot r, which no other request occupies.
Called(r, e) == pc[r] = "idle" /\ e \in Ops

----------------------------------------------------------------------------
(* repository.save(entity) of a loaded class entity: TypeORM selects the   *)
(* row by primary key, takes the columns whose entity value differs from   *)
(* it, and updates exactly those.  Nothing locks the row in between, so    *)
(* the entity's values win over whatever was written since it was read.    *)

SaveSelect(r) ==
    /\ pc[r] = "select"
    /\ LET f == loc[r] IN
         Goto(r, "update",
              [cls |-> f.cls, row |-> f.row,
               dirty |-> {k \in Column : f.row[k] # class[f.cls][k]}])
    /\ UNCHANGED store

SaveUpdate(r) ==
    /\ pc[r] = "update"
    /\ LET f == loc[r]
           val(k) == IF k \in f.dirty THEN f.row[k] ELSE class[f.cls][k]
       IN class' = [class EXCEPT ![f.cls] =
                      [status |-> val("status"),
                       lifecycleStatus |-> val("lifecycleStatus"),
                       capacity |-> val("capacity"),
                       endDate |-> val("endDate")]]
    /\ Finish(r)
    /\ UNCHANGED <<student, enrollment, slots, today>>

=============================================================================
