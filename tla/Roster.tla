------------------------------- MODULE Roster -------------------------------
(***************************************************************************)
(* Enrollments and classes working on the same rows: the composition whose *)
(* capacity, cancellation and history rules the services promise.          *)
(***************************************************************************)
EXTENDS Enrollments, Classes

Init ==
    /\ student = [s \in Student |-> "ACTIVE"]
    /\ class \in [Class -> {row \in ClassRow : /\ row.status = "ACTIVE"
                                               /\ row.lifecycleStatus = "UPCOMING"}]
    /\ enrollment = [c \in Class |-> [s \in Student |-> "NONE"]]
    /\ slots = [c \in Class |-> {}]
    /\ today = 0
    /\ pc = [r \in Request |-> "idle"]
    /\ loc = [r \in Request |-> NoFrame]

\* StudentsService.updateStatus writes the one column it was asked to write.
StudentUpdateStatus(s, status) ==
    /\ "student" \in Ops
    /\ student' = [student EXCEPT ![s] = status]
    /\ UNCHANGED <<class, enrollment, slots, today, pc, loc>>

\* A handler stops at an await: a check out of this model's scope refuses
\* the request, the database connection fails or the process dies.  What it
\* has committed stays.
Abandon(r) ==
    /\ pc[r] # "idle"
    /\ Finish(r)
    /\ UNCHANGED store

Tick ==
    /\ today < MaxDay
    /\ today' = today + 1
    /\ UNCHANGED <<student, class, enrollment, slots, pc, loc>>

Next ==
    \/ \E r \in Request : EnrollmentStep(r) \/ ClassStep(r) \/ Abandon(r)
    \/ \E s \in Student, status \in RecordStatus : StudentUpdateStatus(s, status)
    \/ Tick

Spec == Init /\ [][Next]_vars

----------------------------------------------------------------------------
(* Type invariant *)

\* Every variable has the type of its column or local; in particular a
\* suspended handler holds exactly the locals its next statement uses.
TypeOK ==
    /\ student \in [Student -> RecordStatus]
    /\ class \in [Class -> ClassRow]
    /\ enrollment \in [Class -> [Student -> EnrollmentStatus \cup {"NONE"}]]
    /\ slots \in [Class -> SUBSET Slot]
    /\ today \in 0..MaxDay
    /\ pc \in [Request -> PC]
    /\ loc \in [Request -> Frame]
    /\ \A r \in Request : loc[r] \in FrameOf(pc[r])

----------------------------------------------------------------------------
(* What the services promise, kept when requests run one at a time *)

Cancelled(c) == class[c].lifecycleStatus = "CANCELLED"

\* A class never has more ACTIVE enrollments than its capacity: create
\* counts before it inserts, update counts before it lowers the capacity.
CapacityRespected ==
    \A c \in Class : Cardinality(Active(c)) <= class[c].capacity

\* A cancelled class has neither ACTIVE enrollments nor schedules: remove
\* refuses to cancel otherwise, and a cancelled class admits neither.
CancelledClassEmpty ==
    \A c \in Class : Cancelled(c) => Active(c) = {} /\ slots[c] = {}

\* COMPLETED and CANCELLED enrollments keep their status: updateStatus has
\* no transition out of them and remove refuses to rewrite history.
FinalStatusKept ==
    [][\A c \in Class, s \in Student :
         enrollment[c][s] \in {"COMPLETED", "CANCELLED"}
           => enrollment'[c][s] = enrollment[c][s]]_vars

\* Cancelling a class is final: no endpoint sets lifecycleStatus back.
CancellationKept ==
    [][\A c \in Class : Cancelled(c) => Cancelled(c)']_vars

\* What a suspended handler knows when no other request has run since its
\* reads: what makes the promises above inductive for one request at a time.
HandlerKnows(r) ==
    LET f == loc[r]
        seat(cap) == Cardinality(Active(f.cls)) < cap
        empty == Active(f.cls) = {} /\ slots[f.cls] = {}
    IN  /\ pc[r] = "count" => /\ ~Cancelled(f.cls)
                              /\ f.cap = class[f.cls].capacity
        /\ pc[r] \in {"existing", "insert"} => /\ ~Cancelled(f.cls)
                                               /\ seat(class[f.cls].capacity)
        /\ pc[r] = "status" => enrollment[f.cls][f.stu] = "ACTIVE"
        /\ pc[r] = "slot" => ~Cancelled(f.cls)
        /\ pc[r] = "capacity" =>
             f.row.lifecycleStatus = class[f.cls].lifecycleStatus
        /\ pc[r] \in {"enrolled", "scheduled"} => f.row = Deactivated(class[f.cls])
        /\ pc[r] = "scheduled" => Active(f.cls) = {}
        /\ pc[r] \in {"select", "update"} =>
             /\ Cardinality(Active(f.cls)) <= f.row.capacity
             /\ f.row.lifecycleStatus = "CANCELLED" => empty
             /\ Cancelled(f.cls) => f.row.lifecycleStatus = "CANCELLED"
        /\ pc[r] = "update" =>
             \A k \in Column \ f.dirty : f.row[k] = class[f.cls][k]

\* The inductive invariant of a roster that serves one request at a time.
SerialInv ==
    /\ CapacityRespected
    /\ CancelledClassEmpty
    /\ \A r \in Request : HandlerKnows(r)

----------------------------------------------------------------------------
(* What is left of the promises when requests overlap; of the capacity, in Overbooking *)

\* Once an enrollment is final and no save of it is under way, it is
\* settled, and nothing changes it or starts to: only a request that read
\* the row while it was ACTIVE can rewrite history.
Settled(c, s) ==
    /\ enrollment[c][s] \in {"COMPLETED", "CANCELLED"}
    /\ \A r \in Request :
         pc[r] = "status" => ~(loc[r].cls = c /\ loc[r].stu = s)

SettledIsFinal ==
    [][\A c \in Class, s \in Student :
         Settled(c, s) => /\ Settled(c, s)'
                          /\ enrollment'[c][s] = enrollment[c][s]]_vars

\* Request r will neither fill class c nor reopen it: it is not past the
\* read of c that could refuse it, or what it will save is a cancellation.
Harmless(r, c) ==
    /\ pc[r] \in {"count", "existing", "insert", "slot"} => loc[r].cls # c
    /\ pc[r] = "status" => loc[r].cls # c \/ loc[r].target # "ACTIVE"
    /\ pc[r] \in EntityPC \cup {"update"}
         => loc[r].cls # c \/ loc[r].row.lifecycleStatus = "CANCELLED"

\* Once a class is cancelled and empty, and the requests that read it before
\* are gone, it is closed for good: it gains no ACTIVE enrollment and no
\* schedule and is never reopened, so a race does its damage only through
\* requests that were in flight at the cancellation.
ClosedForGood(c) ==
    /\ Cancelled(c)
    /\ Active(c) = {}
    /\ \A r \in Request : Harmless(r, c)

ClosedStaysClosed ==
    [][\A c \in Class :
         ClosedForGood(c) => ClosedForGood(c)' /\ slots'[c] \subseteq slots[c]]_vars

=============================================================================
