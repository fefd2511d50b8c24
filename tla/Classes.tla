------------------------------ MODULE Classes ------------------------------
(***************************************************************************)
(* ClassesService.update and remove, and the schedule endpoints as far as  *)
(* they touch a class: SchedulesService.create and remove.                 *)
(***************************************************************************)
EXTENDS RosterStore

\* (mutant) The DTO also carries lifecycleStatus.
Patched_AnyColumn(row) == ClassRow

\* The entity after Object.assign(entity, dto).  The DTO has no
\* lifecycleStatus; a column it omits keeps the value just read.
Patched(row) ==
    {new \in ClassRow : new.lifecycleStatus = row.lifecycleStatus}

\* (mutant) A lower capacity is saved without counting.
ClassUpdateRead_NotCounted(r, c, new) ==
    /\ Called(r, "updateClass")
    /\ new \in Patched(class[c])
    /\ Goto(r, "select", [cls |-> c, row |-> new])
    /\ UNCHANGED store

\* update: findOneBy; a capacity below the one read must be checked.
ClassUpdateRead(r, c, new) ==
    /\ Called(r, "updateClass")
    /\ new \in Patched(class[c])
    /\ Goto(r, IF new.capacity < class[c].capacity THEN "capacity" ELSE "select",
            [cls |-> c, row |-> new])
    /\ UNCHANGED store

\* update: assertCapacityNotBelowEnrollments.
ClassUpdateCount(r) ==
    /\ pc[r] = "capacity"
    /\ LET f == loc[r] IN
         IF Cardinality(Active(f.cls)) > f.row.capacity
         THEN Finish(r)
         ELSE Goto(r, "select", f)
    /\ UNCHANGED store

\* (mutant) The lifecycle value lands in the status column.
Deactivated_Swapped(row) == [row EXCEPT !.status = "CANCELLED"]

Deactivated(row) ==
    [row EXCEPT !.status = "INACTIVE", !.lifecycleStatus = "CANCELLED"]

\* remove: findOneBy (the caller is an owner or admin).
ClassRemoveRead(r, c) ==
    /\ Called(r, "removeClass")
    /\ Goto(r, "enrolled", [cls |-> c, row |-> Deactivated(class[c])])
    /\ UNCHANGED store

\* remove: no ACTIVE enrollment may remain ...
ClassRemoveCountEnrollments(r) ==
    /\ pc[r] = "enrolled"
    /\ LET f == loc[r] IN
         IF Active(f.cls) # {} THEN Finish(r) ELSE Goto(r, "scheduled", f)
    /\ UNCHANGED store

\* ... and no schedule row.
ClassRemoveCountSchedules(r) ==
    /\ pc[r] = "scheduled"
    /\ LET f == loc[r] IN
         IF slots[f.cls] # {} THEN Finish(r) ELSE Goto(r, "select", f)
    /\ UNCHANGED store

----------------------------------------------------------------------------
(* Schedules *)

\* (mutant) The stored lifecycle status is not looked at.
Editable_StatusOnly(row) == row.status = "ACTIVE"

Editable(row) == row.status = "ACTIVE" /\ row.lifecycleStatus # "CANCELLED"

\* create: assertClassEditable.
ScheduleReadClass(r, c) ==
    /\ Called(r, "schedule")
    /\ Editable(class[c])
    /\ Goto(r, "slot", [cls |-> c])
    /\ UNCHANGED store

\* create: the INSERT.  The overlap checks in between may also refuse the
\* request: see Abandon in Roster.
ScheduleInsert(r) ==
    /\ pc[r] = "slot"
    /\ \E k \in Slot \ slots[loc[r].cls] :
         slots' = [slots EXCEPT ![loc[r].cls] = @ \cup {k}]
    /\ Finish(r)
    /\ UNCHANGED <<student, class, enrollment, today>>

\* remove: findOneBy and assertClassEditable.
ScheduleReadRow(r, c, k) ==
    /\ Called(r, "schedule")
    /\ k \in slots[c]
    /\ Editable(class[c])
    /\ Goto(r, "unslot", [cls |-> c, row |-> k])
    /\ UNCHANGED store

\* remove: the DELETE, which does nothing to a row already gone.
ScheduleDelete(r) ==
    /\ pc[r] = "unslot"
    /\ LET f == loc[r] IN slots' = [slots EXCEPT ![f.cls] = @ \ {f.row}]
    /\ Finish(r)
    /\ UNCHANGED <<student, class, enrollment, today>>

ClassStep(r) ==
    \/ \E c \in Class :
         \/ \E new \in ClassRow : ClassUpdateRead(r, c, new)
         \/ ClassRemoveRead(r, c)
         \/ ScheduleReadClass(r, c)
         \/ \E k \in Slot : ScheduleReadRow(r, c, k)
    \/ ClassUpdateCount(r)
    \/ ClassRemoveCountEnrollments(r)
    \/ ClassRemoveCountSchedules(r)
    \/ ScheduleInsert(r)
    \/ ScheduleDelete(r)
    \/ SaveSelect(r)
    \/ SaveUpdate(r)

=============================================================================
